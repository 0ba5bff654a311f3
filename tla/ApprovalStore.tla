---------------------------- MODULE ApprovalStore ----------------------------
(***************************************************************************)
(* The approval queue of the config store (stag/store/approval.go): one    *)
(* row per action, an action being the canonical fingerprint of a tool and *)
(* all its arguments, whoever proposes it.  The store has one SQLite       *)
(* connection, so each method below is one atomic step, whichever process  *)
(* calls it.  The release token of a row is an ed25519 signature of the    *)
(* fingerprint: it is the same at every approval of the same action, so a  *)
(* row carries a usable token exactly while its status is "approved".      *)
(***************************************************************************)
EXTENDS Naturals

CONSTANT Actions   \* action fingerprints

VARIABLES
  row,      \* row[a]: the status column, "absent" before the first escalation
  grants,   \* history: how often a human decision moved row[a] to approved
  burns     \* history: how often Consume moved row[a] to consumed

storeVars == <<row, grants, burns>>

RowStatus == {"absent", "pending", "approved", "denied", "consumed"}

\* LookupApproved finds a token.
LookupApproved(a) == row[a] = "approved"

\* RecordPending inserts the row, or reopens a spent one; otherwise it changes nothing.
RecordPending(a) ==
  /\ row' = [row EXCEPT ![a] = IF @ \in {"absent", "consumed"} THEN "pending" ELSE @]
  /\ UNCHANGED <<grants, burns>>

\* Deviation: the spent row is not marked.
Consume_KeepsRow(a) ==
  /\ burns' = [burns EXCEPT ![a] = IF row[a] = "approved" THEN @ + 1 ELSE @]
  /\ UNCHANGED <<row, grants>>

\* Consume burns an approved row and silently leaves any other alone.
Consume(a) ==
  /\ row'   = [row EXCEPT ![a] = IF @ = "approved" THEN "consumed" ELSE @]
  /\ burns' = [burns EXCEPT ![a] = IF row[a] = "approved" THEN @ + 1 ELSE @]
  /\ UNCHANGED grants

\* Deviation: the update is not conditional on the row being pending.
ApproveApproval_Unconditional(a) ==
  /\ row'    = [row EXCEPT ![a] = "approved"]
  /\ grants' = [grants EXCEPT ![a] = IF row[a] = "pending" THEN @ + 1 ELSE @]
  /\ UNCHANGED burns

\* ApproveApproval moves a pending row to approved and leaves any other alone.
ApproveApproval(a) ==
  /\ row'    = [row EXCEPT ![a] = IF @ = "pending" THEN "approved" ELSE @]
  /\ grants' = [grants EXCEPT ![a] = IF row[a] = "pending" THEN @ + 1 ELSE @]
  /\ UNCHANGED burns

\* DenyApproval moves a pending row to denied and leaves any other alone.
DenyApproval(a) ==
  /\ row' = [row EXCEPT ![a] = IF @ = "pending" THEN "denied" ELSE @]
  /\ UNCHANGED <<grants, burns>>

=============================================================================
