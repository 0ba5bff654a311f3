------------------------------ MODULE Contract ------------------------------
(***************************************************************************)
(* What the daemon promises a dispatcher that binds a session, with no     *)
(* trace of recipes, servers, the order in which they are read, or MCP     *)
(* sessions.  The answer to a request is a contract: some of the routes    *)
(* that were asked for, each with the arguments a rule judges and those it *)
(* lets pass, and a notice of the others: of each tool, how many routes    *)
(* are not to be had.  From then on the contract is what it is.  Calls are *)
(* forwarded under it alone, up to the cap, and when the daemon dies it is *)
(* over for good.                                                          *)
(***************************************************************************)
EXTENDS Naturals, FiniteSets

CONSTANTS
  Sessions, Routes, Tools, Args,
  ToolOf,    \* ToolOf[r]: the tool route r is to
  Cap        \* calls that may be forwarded under one contract; 0 means no cap

VARIABLES
  strict,    \* are arguments that no rule judges refused?  Never changes
  state,     \* state[k]: "idle", "asked", "bound", "refused", "over"
  asked,     \* asked[k]: the routes asked for
  terms,     \* terms[k]: route -> its arguments
  told,      \* told[k]: tool -> how many routes to it are not to be had
  used       \* used[k]: how many calls were forwarded

vars == <<strict, state, asked, terms, told, used>>

NoTerms == [r \in {} |-> {}]

NotToBeHad(R) == [t \in Tools |-> Cardinality({r \in R : ToolOf[r] = t})]

Term == [judged : SUBSET Args, passed : SUBSET Args]

Init ==
  /\ strict \in BOOLEAN
  /\ state = [k \in Sessions |-> "idle"]
  /\ asked = [k \in Sessions |-> {}]
  /\ terms = [k \in Sessions |-> NoTerms]
  /\ told  = [k \in Sessions |-> NotToBeHad({})]
  /\ used  = [k \in Sessions |-> 0]

Ask(k, want) ==
  /\ state[k] = "idle" /\ want # {}
  /\ state' = [state EXCEPT ![k] = "asked"]
  /\ asked' = [asked EXCEPT ![k] = want]
  /\ UNCHANGED <<strict, terms, told, used>>

Refuse(k) ==
  /\ state[k] \in {"idle", "asked"}
  /\ state' = [state EXCEPT ![k] = "refused"]
  /\ UNCHANGED <<strict, asked, terms, told, used>>

Agree(k, kept, T) ==
  /\ state[k] = "asked" /\ kept # {}
  /\ strict => \A r \in kept : T[r].passed = {}
  /\ state' = [state EXCEPT ![k] = "bound"]
  /\ terms' = [terms EXCEPT ![k] = T]
  /\ told'  = [told EXCEPT ![k] = NotToBeHad(asked[k] \ kept)]
  /\ UNCHANGED <<strict, asked, used>>

\* A call has every argument that is judged and none the contract is silent on.
Forward(k, r, sent) ==
  /\ state[k] = "bound"
  /\ terms[k][r].judged \subseteq sent
  /\ sent \subseteq terms[k][r].judged \cup terms[k][r].passed
  /\ Cap > 0 => used[k] < Cap
  /\ used' = [used EXCEPT ![k] = @ + 1]
  /\ UNCHANGED <<strict, state, asked, terms, told>>

\* The daemon dies, and the requests L are lost with the contracts.
Die(L) ==
  /\ \A k \in L : state[k] = "asked"
  /\ state' = [k \in Sessions |-> IF state[k] = "bound" \/ k \in L THEN "over" ELSE state[k]]
  /\ terms' = [k \in Sessions |-> NoTerms]
  /\ told'  = [k \in Sessions |-> NotToBeHad({})]
  /\ used'  = [k \in Sessions |-> 0]
  /\ UNCHANGED <<strict, asked>>

Next ==
  \/ \E L \in SUBSET Sessions : Die(L)
  \/ \E k \in Sessions :
       \/ Refuse(k)
       \/ \E want \in SUBSET Routes : Ask(k, want)
       \/ \E kept \in SUBSET asked[k] : \E T \in [kept -> Term] : Agree(k, kept, T)
       \/ \E r \in DOMAIN terms[k], sent \in SUBSET Args : Forward(k, r, sent)

Spec == Init /\ [][Next]_vars

=============================================================================
