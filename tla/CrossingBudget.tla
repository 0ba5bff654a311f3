--------------------------- MODULE CrossingBudget ---------------------------
(***************************************************************************)
(* The forwarded-crossing counter of a dispatched session                  *)
(* (stag/proxy/proxy.go, CrossingBudget).  One counter belongs to one      *)
(* session token and is shared by every MCP connection the agent opens     *)
(* under that token (stag/proxy/sessiond), so it is indexed by session     *)
(* here.  Every method holds the counter's mutex from its first line to    *)
(* its last: each is one atomic step.                                      *)
(***************************************************************************)
EXTENDS Naturals

CONSTANTS
  Sessions,   \* session tokens the registry can mint
  Limit       \* the cap N of every session; 0 switches the budget off

ASSUME LimitAssumption == Limit \in Nat

VARIABLE count   \* count[s]: reservations taken and not given back

\* A counter exists and is enforced only for a positive limit.
Enforced == Limit > 0

\* Deviation: the boundary is off by one.
HasRoom_OffByOne(s) == Enforced => count[s] <= Limit

\* Reserve succeeds.
HasRoom(s) == Enforced => count[s] < Limit

\* A successful Reserve: nothing is counted when the budget is off.
Reserve(s) ==
  /\ HasRoom(s)
  /\ count' = IF Enforced THEN [count EXCEPT ![s] = @ + 1] ELSE count

\* Deviation: the reservation of a refused call is kept.
Release_Forgotten(s) == UNCHANGED count

\* Release gives a reservation back, never below zero.
Release(s) ==
  count' = IF Enforced /\ count[s] > 0 THEN [count EXCEPT ![s] = @ - 1] ELSE count

=============================================================================
