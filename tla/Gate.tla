-------------------------------- MODULE Gate --------------------------------
(***************************************************************************)
(* The enforcement path of stag-proxy: many tools/call handlers            *)
(* (mcpgate.gatingHandler, recordUnrouted) run concurrently over the       *)
(* session budgets, the approval store shared with stag-serve, and the     *)
(* audit sink, while people approve or deny pending actions through        *)
(* stag-serve and the daemon may restart.                                  *)
(*                                                                         *)
(* A step of a handler is a maximal stretch of code that touches shared    *)
(* state once: the budget, a store statement, the sink or the downstream.  *)
(* The recipe walk reads only the handler's own data, so the verdict is    *)
(* computed in the step that reads the approval store.                     *)
(***************************************************************************)
EXTENDS CrossingBudget, ApprovalStore, Sequences, FiniteSets

CONSTANTS
  Calls,        \* the tools/call requests agents may ever send
  Approvers,    \* the approve requests people may ever send
  Routes,       \* Routes[s][a]: how the gate of session s judges action a
  MaxInFlight,  \* how many requests clients keep open at a time
  StoreFails,   \* may a statement on the approval store fail?
  SinkFails     \* may an append to the audit log fail?

Verdict == {"allow", "escalate", "deny"}

(* routed:  the tool of the action is a key of the session's Routes.       *)
(* judged:  every argument is accounted for (coverage) and the gated paths *)
(*          bind values (gatedValues).                                     *)
(* approvalGate: the recipe has a signed_equality "$approved" rule.        *)
(* cleared, uncleared: the verdict of the recipe (evalSlots) when that     *)
(*          rule passes and when it does not.                              *)
RouteType == [routed : BOOLEAN, judged : BOOLEAN, approvalGate : BOOLEAN,
              cleared : Verdict, uncleared : Verdict]

\* Without the rule, whether the rule passes makes no difference.
ASSUME RoutesAssumption ==
  /\ Routes \in [Sessions -> [Actions -> RouteType]]
  /\ \A s \in Sessions, a \in Actions :
       ~Routes[s][a].approvalGate => Routes[s][a].cleared = Routes[s][a].uncleared

ASSUME GateAssumption ==
  /\ MaxInFlight \in Nat \ {0}
  /\ StoreFails \in BOOLEAN
  /\ SinkFails \in BOOLEAN
  /\ IsFiniteSet(Calls)

VARIABLES
  binding,   \* binding[s]: "unbound" | "bound" | "lost" (the daemon restarted)
  req,       \* req[c]: the session and the action of the request; never changes
  pc,        \* pc[c]: where the handler of request c is
  presents,  \* presents[c]: the request carries the action's approval token
  found,     \* found[c]: LookupApproved answered (approvedID is not empty)
  verdict,   \* verdict[c]: the verdict Decide returns
  leaves,    \* leaves[c]: the audit leaves written for the request
  crossed,   \* the requests the downstream tool received
  issued,    \* issued[a]: a client has read the token of a (GET /api/approvals/{id})
  hpc,       \* hpc[h]: where the approve handler h is
  target     \* target[h]: the action h read as pending

callVars     == <<pc, presents, found, verdict, leaves, crossed>>
approverVars == <<hpc, target>>
outside      == <<binding, req, issued, approverVars>>   \* no handler step changes these
vars == <<count, storeVars, binding, req, callVars, issued, approverVars>>

NoAction == "none"

CallState == {"idle", "arrived", "decide", "consume", "escalate", "record",
              "decided", "recordDenied", "refused", "answered"}

TypeOK ==
  /\ count \in [Sessions -> Nat]
  /\ row \in [Actions -> RowStatus]
  /\ grants \in [Actions -> Nat]
  /\ burns \in [Actions -> Nat]
  /\ binding \in [Sessions -> {"unbound", "bound", "lost"}]
  /\ req \in [Calls -> [session : Sessions, action : Actions]]
  /\ pc \in [Calls -> CallState]
  /\ presents \in [Calls -> BOOLEAN]
  /\ found \in [Calls -> BOOLEAN]
  /\ verdict \in [Calls -> Verdict \cup {"none"}]
  /\ leaves \in [Calls -> Seq({"forwarded", "refused"})]
  /\ crossed \in SUBSET Calls
  /\ issued \in [Actions -> BOOLEAN]
  /\ hpc \in [Approvers -> {"idle", "signing", "done"}]
  /\ target \in [Approvers -> Actions \cup {NoAction}]

-----------------------------------------------------------------------------

Session(c) == req[c].session
Action(c)  == req[c].action
Route(c)   == Routes[Session(c)][Action(c)]

Done == {"refused", "answered"}

\* The requests a client is waiting for.
InFlight == {c \in Calls : pc[c] \notin Done \cup {"idle"} /\ binding[Session(c)] = "bound"}

\* The handler of c runs: it is at `from` and the daemon that runs it is up.
At(c, from) == pc[c] = from /\ binding[Session(c)] = "bound"

Goto(c, to) == pc' = [pc EXCEPT ![c] = to]

\* The outcomes of a call on the approval store.
StoreOutcomes == IF StoreFails THEN {TRUE, FALSE} ELSE {TRUE}

Init ==
  /\ count = [s \in Sessions |-> 0]
  /\ row = [a \in Actions |-> "absent"]
  /\ grants = [a \in Actions |-> 0]
  /\ burns = [a \in Actions |-> 0]
  /\ binding = [s \in Sessions |-> "unbound"]
  /\ req \in [Calls -> [session : Sessions, action : Actions]]
  /\ pc = [c \in Calls |-> "idle"]
  /\ presents = [c \in Calls |-> FALSE]
  /\ found = [c \in Calls |-> FALSE]
  /\ verdict = [c \in Calls |-> "none"]
  /\ leaves = [c \in Calls |-> <<>>]
  /\ crossed = {}
  /\ issued = [a \in Actions |-> FALSE]
  /\ hpc = [h \in Approvers |-> "idle"]
  /\ target = [h \in Approvers |-> NoAction]

-----------------------------------------------------------------------------
(* The daemon and its sessions.                                            *)

\* POST /sessions: Registry.Create mints a token with a fresh budget.
Dispatch(s) ==
  /\ binding[s] = "unbound"
  /\ binding' = [binding EXCEPT ![s] = "bound"]
  /\ count' = [count EXCEPT ![s] = 0]
  /\ UNCHANGED <<storeVars, req, callVars, issued, approverVars>>

\* stag-proxy restarts: the registry and every handler are gone, and the
\* store, the log and what has reached a downstream stay.
Restart ==
  /\ \E s \in Sessions : binding[s] = "bound"
  /\ binding' = [s \in Sessions |-> IF binding[s] = "bound" THEN "lost" ELSE binding[s]]
  /\ UNCHANGED <<count, storeVars, req, callVars, issued, approverVars>>

-----------------------------------------------------------------------------
(* One tools/call.                                                         *)

\* The agent sends the request; it carries the approval token only if some
\* client has read it.
Submit(c) ==
  /\ At(c, "idle")
  /\ Cardinality(InFlight) < MaxInFlight
  /\ \E t \in {FALSE, issued[Action(c)]} : presents' = [presents EXCEPT ![c] = t]
  /\ Goto(c, "arrived")
  /\ UNCHANGED <<outside, count, storeVars, found, verdict, leaves, crossed>>

\* recordUnrouted: a tool the session does not route is denied by Decide
\* without touching the budget.
RefuseUnrouted(c) ==
  /\ At(c, "arrived")
  /\ ~Route(c).routed
  /\ verdict' = [verdict EXCEPT ![c] = "deny"]
  /\ Goto(c, "recordDenied")
  /\ UNCHANGED <<outside, count, storeVars, presents, found, leaves, crossed>>

\* gatingHandler takes a reservation before it decides.
ReserveCrossing(c) ==
  /\ At(c, "arrived")
  /\ Route(c).routed
  /\ Reserve(Session(c))
  /\ Goto(c, "decide")
  /\ UNCHANGED <<outside, storeVars, presents, found, verdict, leaves, crossed>>

\* No reservation: the request is denied without being decided.
RefuseOverBudget(c) ==
  /\ At(c, "arrived")
  /\ Route(c).routed
  /\ ~HasRoom(Session(c))
  /\ verdict' = [verdict EXCEPT ![c] = "deny"]
  /\ Goto(c, "recordDenied")
  /\ UNCHANGED <<outside, count, storeVars, presents, found, leaves, crossed>>

\* The leaf of an unrouted or over-budget request, then its refusal.
RecordDenied(c) ==
  /\ At(c, "recordDenied")
  /\ \E kept \in {TRUE} \cup (IF SinkFails THEN {FALSE} ELSE {}) :
       leaves' = [leaves EXCEPT ![c] = IF kept THEN Append(@, "refused") ELSE @]
  /\ Goto(c, "refused")
  /\ UNCHANGED <<outside, count, storeVars, presents, found, verdict, crossed>>

\* Decide without the approval store: the arguments cannot be judged, or the
\* recipe has no approval gate.
DecideAlone(c) ==
  /\ At(c, "decide")
  /\ ~(Route(c).judged /\ Route(c).approvalGate)
  /\ verdict' = [verdict EXCEPT ![c] = IF Route(c).judged THEN Route(c).uncleared ELSE "deny"]
  /\ Goto(c, "record")
  /\ UNCHANGED <<outside, count, storeVars, presents, found, leaves, crossed>>

\* Deviation: the token on the request is believed without a live approval.
TokenPasses_Trusting(c, hit) == presents[c]

\* The signed_equality rule: the stored token, "" unless the action is
\* approved, equals the token on the request.
TokenPasses(c, hit) == hit /\ presents[c]

\* Deviation: every live approval is burned, whatever the verdict.
AfterLookup_BurnsAlways(v, hit) ==
  IF hit THEN "consume" ELSE IF v = "escalate" THEN "escalate" ELSE "record"

\* What Decide does next with the store, given the verdict and the lookup.
AfterLookup(v, hit) ==
  IF v = "allow" /\ hit THEN "consume"
  ELSE IF v = "escalate" /\ ~hit THEN "escalate"
  ELSE "record"

\* Decide reads the approval store and evaluates the recipe; a failed lookup
\* counts as no approval.
Decide(c) ==
  /\ At(c, "decide")
  /\ Route(c).judged /\ Route(c).approvalGate
  /\ \E ok \in StoreOutcomes :
       LET hit == ok /\ LookupApproved(Action(c))
           v   == IF TokenPasses(c, hit) THEN Route(c).cleared ELSE Route(c).uncleared
       IN  /\ found' = [found EXCEPT ![c] = hit]
           /\ verdict' = [verdict EXCEPT ![c] = v]
           /\ Goto(c, AfterLookup(v, hit))
  /\ UNCHANGED <<outside, count, storeVars, presents, leaves, crossed>>

\* Decide burns the approval it used; the result of Consume is discarded.
ConsumeApproval(c) ==
  /\ At(c, "consume")
  /\ \E ok \in StoreOutcomes : IF ok THEN Consume(Action(c)) ELSE UNCHANGED storeVars
  /\ Goto(c, "record")
  /\ UNCHANGED <<outside, count, presents, found, verdict, leaves, crossed>>

\* Deviation: the handler holds the request until the row can be queued.
Escalate_Waits(c) ==
  /\ At(c, "escalate")
  /\ row[Action(c)] \in {"absent", "consumed"}
  /\ RecordPending(Action(c))
  /\ Goto(c, "record")
  /\ UNCHANGED <<outside, count, presents, found, verdict, leaves, crossed>>

\* Decide queues the escalated action for a human.
Escalate(c) ==
  /\ At(c, "escalate")
  /\ \E ok \in StoreOutcomes : IF ok THEN RecordPending(Action(c)) ELSE UNCHANGED storeVars
  /\ Goto(c, "record")
  /\ UNCHANGED <<outside, count, presents, found, verdict, leaves, crossed>>

\* The leaf says whether the call is forwarded.
LeafFor(c) == IF verdict[c] = "allow" THEN <<"forwarded">> ELSE <<"refused">>

\* Deviation: only what is forwarded is recorded.
Record_Forwarded(c) ==
  /\ At(c, "record")
  /\ leaves' = [leaves EXCEPT ![c] = IF verdict[c] = "allow" THEN @ \o LeafFor(c) ELSE @]
  /\ Goto(c, "decided")
  /\ UNCHANGED <<outside, count, storeVars, presents, found, verdict, crossed>>

\* Decide appends its one leaf and returns, whether or not the append worked.
Record(c) ==
  /\ At(c, "record")
  /\ \E kept \in {TRUE} \cup (IF SinkFails THEN {FALSE} ELSE {}) :
       leaves' = [leaves EXCEPT ![c] = IF kept THEN @ \o LeafFor(c) ELSE @]
  /\ Goto(c, "decided")
  /\ UNCHANGED <<outside, count, storeVars, presents, found, verdict, crossed>>

\* gatingHandler gives the reservation back and refuses.
Refuse(c) ==
  /\ At(c, "decided")
  /\ verdict[c] # "allow"
  /\ Release(Session(c))
  /\ Goto(c, "refused")
  /\ UNCHANGED <<outside, storeVars, presents, found, verdict, leaves, crossed>>

\* Deviation: everything that is not denied is forwarded.
Forwards_UnlessDenied(c) == verdict[c] # "deny"

\* Forward iff the verdict is Allow.
Forwards(c) == verdict[c] = "allow"

\* gatingHandler calls the downstream; the call may fail before it gets there.
Forward(c) ==
  /\ At(c, "decided")
  /\ Forwards(c)
  /\ crossed' \in {crossed, crossed \cup {c}}
  /\ Goto(c, "answered")
  /\ UNCHANGED <<outside, count, storeVars, presents, found, verdict, leaves>>

-----------------------------------------------------------------------------
(* People and clients at stag-serve.                                       *)

\* handleApprovalGet: a client polls the row and gets the token while approved.
Poll(a) ==
  /\ row[a] = "approved"
  /\ issued' = [issued EXCEPT ![a] = TRUE]
  /\ UNCHANGED <<count, storeVars, binding, req, callVars, approverVars>>

\* handleApprovalApprove reads the row; any status but pending is a conflict.
ReadForApprove(h, a) ==
  /\ hpc[h] = "idle"
  /\ row[a] = "pending"
  /\ hpc' = [hpc EXCEPT ![h] = "signing"]
  /\ target' = [target EXCEPT ![h] = a]
  /\ UNCHANGED <<count, storeVars, binding, req, callVars, issued>>

\* It signs, updates the row if it is still pending, and answers "approved"
\* unless the statement failed.
Approve(h) ==
  /\ hpc[h] = "signing"
  /\ \E ok \in StoreOutcomes : IF ok THEN ApproveApproval(target[h]) ELSE UNCHANGED storeVars
  /\ hpc' = [hpc EXCEPT ![h] = "done"]
  /\ UNCHANGED <<count, binding, req, callVars, issued, target>>

\* handleApprovalDeny; on a row that is not pending it changes nothing.
Deny(a) ==
  /\ row[a] = "pending"
  /\ DenyApproval(a)
  /\ UNCHANGED <<count, binding, req, callVars, issued, approverVars>>

-----------------------------------------------------------------------------

Handle(c) ==
  \/ RefuseUnrouted(c)
  \/ ReserveCrossing(c)
  \/ RefuseOverBudget(c)
  \/ RecordDenied(c)
  \/ DecideAlone(c)
  \/ Decide(c)
  \/ ConsumeApproval(c)
  \/ Escalate(c)
  \/ Record(c)
  \/ Refuse(c)
  \/ Forward(c)

Next ==
  \/ \E s \in Sessions : Dispatch(s)
  \/ Restart
  \/ \E c \in Calls : Submit(c) \/ Handle(c)
  \/ \E a \in Actions : Poll(a) \/ Deny(a)
  \/ \E h \in Approvers : Approve(h) \/ \E a \in Actions : ReadForApprove(h, a)

Spec == Init /\ [][Next]_vars

\* A handler that has started is run to its end by the Go scheduler, and the
\* SDK returns from a downstream call. Nobody owes the gate a request, a
\* decision or a restart.
FairSpec == Spec /\ \A c \in Calls : WF_vars(Handle(c))

-----------------------------------------------------------------------------
(* Safety.                                                                 *)

\* The handlers whose reservation the counter of s holds: those between
\* Reserve and Release, and those whose call was forwarded.
Holders(s) ==
  {c \in Calls : /\ Session(c) = s
                 /\ pc[c] \in {"decide", "consume", "escalate", "record", "decided", "answered"}}

\* No reservation is leaked or given back twice, however the handlers of a
\* session interleave: the counter is the number of calls that were forwarded
\* or are still being decided (gatingHandler, mcpgate.go:302-325).
BudgetExact ==
  Enforced => \A s \in Sessions : count[s] = Cardinality(Holders(s))

\* A session never gets more than Limit calls to the downstream tools
\* (CrossingBudget, proxy.go:123-136).
SessionCap ==
  Enforced => \A s \in Sessions : Cardinality({c \in crossed : Session(c) = s}) <= Limit

\* What crossed was allowed by the recipe of its session, and if the recipe
\* allows it only with an approval, a person had approved exactly that action
\* and the request carried the token (Decide, proxy.go:177-275).
MediatedCrossing ==
  \A c \in crossed :
    /\ Route(c).routed /\ Route(c).judged
    /\ "allow" \in {Route(c).cleared, Route(c).uncleared}
    /\ Route(c).uncleared # "allow" => presents[c] /\ grants[Action(c)] > 0

\* A granted approval is live or burned, never both and never lost: what the
\* handlers of both processes do to a row adds up (store/approval.go).
GrantAccounting ==
  \A a \in Actions :
    grants[a] = burns[a] + (IF row[a] = "approved" THEN 1 ELSE 0)

\* An approval is burned only by a call that is allowed with it: a denied or
\* still escalated call never costs a human decision (proxy.go:249-257).
BurnsAreReleases ==
  \A a \in Actions :
    burns[a] <= Cardinality({c \in Calls : /\ Action(c) = a /\ found[c]
                                           /\ verdict[c] = "allow"
                                           /\ pc[c] # "consume"})

\* The calls that were forwarded with an approval of a.
Released(a) == {c \in Calls : Action(c) = a /\ found[c] /\ pc[c] = "answered"}

\* A request never leaves two leaves, and what crossed is not recorded as
\* refused; while the sink accepts appends, an answered request has its leaf
\* and a crossing is recorded before it happens (proxy.go:262-270,
\* mcpgate.go:295-325).
OneLeafPerCall ==
  /\ \A c \in Calls : Len(leaves[c]) <= 1
  /\ \A c \in crossed : leaves[c] \in {<<>>, <<"forwarded">>}
  /\ ~SinkFails =>
       /\ \A c \in Calls : pc[c] \in Done => Len(leaves[c]) = 1
       /\ \A c \in crossed : leaves[c] # <<>>

\* A person's denial sticks: a denied row never changes again.
DenialSticks ==
  [][\A a \in Actions : row[a] = "denied" => row'[a] = "denied"]_vars

\* Why a request may be let through: the recipe allows it outright, or it
\* allows it with the token, the request carries the token, and a person
\* approved the action.
Authorized(c) ==
  /\ Route(c).routed /\ Route(c).judged
  /\ \/ Route(c).uncleared = "allow"
     \/ Route(c).cleared = "allow" /\ presents[c] /\ grants[Action(c)] > 0

\* What the handler's position says about the rest of its state; with
\* GrantAccounting and BudgetExact it is inductive.
CallInv(c) ==
  /\ binding[Session(c)] = "unbound" => pc[c] = "idle"
  /\ pc[c] \in {"idle", "arrived", "decide"} => verdict[c] = "none"
  /\ pc[c] \in {"decide", "consume", "escalate", "record", "decided"} => Route(c).routed
  /\ verdict[c] = "allow" => /\ pc[c] \in {"consume", "record", "decided", "answered"}
                            /\ Authorized(c)
  /\ pc[c] = "answered" => verdict[c] = "allow"
  /\ c \in crossed => pc[c] = "answered"

ControlInv == \A c \in Calls : CallInv(c)

CountWithinLimit == Enforced => \A s \in Sessions : count[s] <= Limit

IInv == TypeOK /\ ControlInv /\ GrantAccounting /\ BudgetExact /\ CountWithinLimit

\* The gate implements the abstract boundary: a request is cleared in the step
\* that gives its verdict, under a reservation, and crosses at most once.
PolicyOf(s, a) ==
  LET r == Routes[s][a]
  IN  IF ~(r.routed /\ r.judged) THEN "never"
      ELSE IF r.uncleared = "allow" THEN "always"
      ELSE IF r.cleared = "allow" THEN "approved"
      ELSE "never"

Boundary == INSTANCE Mediation WITH
  Cap     <- Limit,
  Policy  <- [s \in Sessions |-> [a \in Actions |-> PolicyOf(s, a)]],
  granted <- grants,
  cleared <- {c \in Calls : verdict[c] = "allow"}

ImplementsMediation == Boundary!Spec

\* A handler is never stuck: a request that arrived is answered unless the
\* daemon goes away.
EveryCallAnswered ==
  \A c \in Calls :
    pc[c] = "arrived" ~> (pc[c] \in Done \/ binding[Session(c)] = "lost")

\* Every client keeps one request open at a time.
Serially == [](Cardinality(InFlight) <= 1)

\* The calls forwarded with an approval are no more than the approvals given:
\* store/schema.sql:60 promises it of every behaviour ("the release is one-time,
\* a replay re-escalates"), and overlapping calls break it.
OneTimeRelease ==
  \A a \in Actions : Cardinality(Released(a)) <= grants[a]

\* With one request open at a time an approval is one-time: of the calls that
\* present the same token one is forwarded (proxy.go:230-257).
OneTimeWhenSerial == ~StoreFails /\ Serially => []OneTimeRelease

\* With one request open at a time a replayed token does not outlive the
\* decision that issued it: once a person has denied the action again, no call
\* that needs the approval crosses.  (A handler that read the approval before
\* it was spent is not stopped by a later denial.)
DeniedWhenSerial ==
  Serially => \A c \in Calls :
    [](row[Action(c)] = "denied" /\ c \notin crossed /\ Route(c).uncleared # "allow"
         => [](c \notin crossed))

-----------------------------------------------------------------------------
(* What the documents promise and the code does not keep.                  *)

\* serve/approvals.go:82: a successful approve moves the row pending -> approved.
ApproveTakesEffect ==
  [][\A h \in Approvers :
       hpc[h] = "signing" /\ hpc'[h] = "done" => row'[target[h]] = "approved"]_vars

=============================================================================
