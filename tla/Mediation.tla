------------------------------ MODULE Mediation ------------------------------
(***************************************************************************)
(* What the gate promises about side effects, with no trace of how it      *)
(* decides: people grant actions, requests become cleared, and only a      *)
(* cleared request can reach a downstream tool.  A request is cleared at   *)
(* most once, within the cap of its session, and when the policy wants a   *)
(* human approval, only after one was granted for exactly its action       *)
(* (SECURITY.md, "Guarantees").                                            *)
(***************************************************************************)
EXTENDS Naturals, FiniteSets

CONSTANTS
  Calls, Sessions, Actions,
  Cap,      \* cleared requests allowed per session; 0 means no cap
  Policy    \* Policy[s][a]: "never" | "approved" | "always"

VARIABLES
  req,       \* the session and the action of each request
  granted,   \* granted[a]: how often a person approved action a
  cleared,   \* requests the gate has decided to let through
  crossed    \* requests a downstream tool has received

vars == <<req, granted, cleared, crossed>>

Init ==
  /\ req \in [Calls -> [session : Sessions, action : Actions]]
  /\ granted = [a \in Actions |-> 0]
  /\ cleared = {}
  /\ crossed = {}

Grant(a) ==
  /\ granted' = [granted EXCEPT ![a] = @ + 1]
  /\ UNCHANGED <<req, cleared, crossed>>

ClearedOf(s) == {c \in cleared : req[c].session = s}

Clear(c) ==
  /\ c \notin cleared
  /\ Cap > 0 => Cardinality(ClearedOf(req[c].session)) < Cap
  /\ \/ Policy[req[c].session][req[c].action] = "always"
     \/ /\ Policy[req[c].session][req[c].action] = "approved"
        /\ granted[req[c].action] > 0
  /\ cleared' = cleared \cup {c}
  /\ UNCHANGED <<req, granted, crossed>>

Cross(c) ==
  /\ c \in cleared \ crossed
  /\ crossed' = crossed \cup {c}
  /\ UNCHANGED <<req, granted, cleared>>

Next ==
  \/ \E a \in Actions : Grant(a)
  \/ \E c \in Calls : Clear(c) \/ Cross(c)

Spec == Init /\ [][Next]_vars

=============================================================================
