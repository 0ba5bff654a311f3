----------------------------- MODULE MCAuditLog -----------------------------
(***************************************************************************)
(* Instances of AuditLog for TLC.                                          *)
(***************************************************************************)
EXTENDS AuditLog, TLC

\* The processes are interchangeable, and so are the records that fit a line.
LogSymmetry ==
  {f @@ g : f \in Permutations(Writers), g \in Permutations(Records \ Oversize)}

=============================================================================
