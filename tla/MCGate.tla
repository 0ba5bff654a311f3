------------------------------- MODULE MCGate -------------------------------
(***************************************************************************)
(* Instances of Gate for TLC.                                              *)
(***************************************************************************)
EXTENDS Gate, TLC

CONSTANTS s1, s2, s3, prod, read

CallSymmetry == Permutations(Calls)

Gated   == [routed |-> TRUE, judged |-> TRUE, approvalGate |-> TRUE,
            cleared |-> "allow", uncleared |-> "escalate"]
Refused == [Gated EXCEPT !.cleared = "deny"]
Spare   == [Gated EXCEPT !.uncleared = "allow"]
Opaque  == [Gated EXCEPT !.judged = FALSE]
Missing == [Gated EXCEPT !.routed = FALSE]
Open    == [routed |-> TRUE, judged |-> TRUE, approvalGate |-> FALSE,
            cleared |-> "allow", uncleared |-> "allow"]

\* One session whose only action needs an approval.
RoutesApproval == [s \in Sessions |-> [a \in Actions |-> Gated]]

\* Three sessions that share the approval of an action and route it
\* differently: one releases it with the approval, one only uses the approval
\* up, one denies it even then.  Of the other action one cannot judge the
\* arguments, one lets it pass, one does not route it.
RoutesMixed ==
  [s \in Sessions |->
     [a \in Actions |->
        IF s = s1 THEN IF a = prod THEN Gated ELSE Opaque
        ELSE IF s = s2 THEN IF a = prod THEN Spare ELSE Open
        ELSE IF a = prod THEN Refused ELSE Missing]]

=============================================================================
