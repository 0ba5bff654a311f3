------------------------------ MODULE Harness ------------------------------
(***************************************************************************)
(* The orchestrator (harness-serve): the front door, the runs it launches  *)
(* (governedRun, agent.Run) and the approvals they wait for.  A run binds  *)
(* a session on the gate, lets the model propose calls for a number of     *)
(* turns, and sends each call through the gate.  A call the gate escalates *)
(* is held while the run polls the approval, and is replayed with the      *)
(* release token once a person approved it.                                *)
(*                                                                         *)
(* The run of a webhook has a context that ends after Lifetime ticks, that *)
(* of a console request ends when the client goes away; a wait is given up *)
(* after Timeout ticks.  A call itself has no timeout: once it is sent the *)
(* gate, and the tool behind it, may keep the run for as long as its       *)
(* context lasts.  The gate is the one of Gate.tla, reduced to what a run  *)
(* sees of it: the approval rows, and whether the call crossed.  What it   *)
(* does with a call whose sender has given up is put before the giving up. *)
(***************************************************************************)
EXTENDS FrontDoor, ApprovalStore

CONSTANTS
  ToolOf,     \* ToolOf[a]: the [server, tool] that action a calls
  Kind,       \* Kind[p]: recipe p is "open", "approval" or "closed"
  MaxTurns,   \* how often a run asks its model
  Plans,      \* Plans[r]: the sequences of calls looked at that a model proposes
              \* in a turn of r
  Lifetime,   \* the context of a webhook's run, in ticks (5 minutes)
  Timeout,    \* the wait for an approval, in ticks (10 minutes)
  Flaky       \* the runs whose calls to the gate and polls may get lost at any time

ASSUME HarnessAssumption ==
  /\ {MaxTurns, Lifetime, Timeout} \subseteq Nat
  /\ \A r \in Runs : Plans[r] \subseteq Seq(Actions) \ {<<>>}
  /\ Flaky \subseteq Runs
  /\ \A p \in Rows : Kind[p.recipe] \in {"open", "approval", "closed"}

VARIABLES
  pc,        \* pc[r]: where the run r is
  session,   \* session[r]: the route rows its session was bound to
  turn,      \* turn[r]: how often it asked the model
  todo,      \* todo[r]: the proposed calls that are left; the first is held
  waited,    \* waited[r]: how long it has been waiting for the approval
  age,       \* age[r]: how old the context of a webhook's run is
  cut,       \* cut[r]: the context of the run has ended
  ledger     \* ledger[r]: the calls that are over: what the model is told, and
             \* whether the call crossed

runVars == <<pc, session, turn, todo, waited, age, cut, ledger>>
vars == <<doorVars, storeVars, runVars>>

Told == {"performed", "not performed", "failed"}

Positions ==
  {"absent", "connecting", "thinking", "calling", "sent", "awaiting", "replaying",
   "resent", "releasing", "ended"}

\* The gate has the call, or its replay.
AtGate(r) == pc[r] \in {"sent", "resent", "releasing"}

TypeOK ==
  /\ DoorTypeOK
  /\ row \in [Actions -> RowStatus]
  /\ grants \in [Actions -> Nat] /\ burns \in [Actions -> Nat]
  /\ pc \in [Runs -> Positions]
  /\ session \in [Runs -> SUBSET Rows]
  /\ turn \in [Runs -> 0..MaxTurns]
  /\ todo \in [Runs -> Seq(Actions)]
  /\ waited \in [Runs -> 0..Timeout]
  /\ age \in [Runs -> 0..Lifetime]
  /\ cut \in [Runs -> BOOLEAN]
  /\ ledger \in [Runs -> Seq([action : Actions, told : Told, crossed : BOOLEAN])]

Init ==
  /\ DoorInit
  /\ row = [a \in Actions |-> "absent"]
  /\ grants = [a \in Actions |-> 0]
  /\ burns = [a \in Actions |-> 0]
  /\ pc = [r \in Runs |-> "absent"]
  /\ session = [r \in Runs |-> {}]
  /\ turn = [r \in Runs |-> 0]
  /\ todo = [r \in Runs |-> <<>>]
  /\ waited = [r \in Runs |-> 0]
  /\ age = [r \in Runs |-> 0]
  /\ cut = [r \in Runs |-> FALSE]
  /\ ledger = [r \in Runs |-> <<>>]

-----------------------------------------------------------------------------

Goto(r, from, to) == pc[r] = from /\ pc' = [pc EXCEPT ![r] = to]

Live(r) == pc[r] \notin {"absent", "ended"}

\* The call that is being handled, and the recipe the gate judges it by.
Held(r) == Head(todo[r])
Governing(r) == {p.recipe : p \in {q \in session[r] : /\ q.tool = ToolOf[Held(r)].tool
                                                      /\ q.server = ToolOf[Held(r)].server}}
Asks(r, kind) == \E p \in Governing(r) : Kind[p] = kind

\* The held call is over: the model is told of it with the next turn.
Over(r, from, told, crossed) ==
  /\ pc[r] = from
  /\ ledger' = [ledger EXCEPT ![r] =
       Append(@, [action |-> Held(r), told |-> told, crossed |-> crossed])]
  /\ todo' = [todo EXCEPT ![r] = Tail(@)]
  /\ pc' = [pc EXCEPT ![r] = IF Len(todo[r]) = 1 THEN "thinking" ELSE "calling"]
  /\ waited' = [waited EXCEPT ![r] = 0]
  /\ UNCHANGED <<session, turn, age, cut>>

\* The runs in R end, and what they held is gone.
End(R) ==
  /\ pc' = [r \in Runs |-> IF r \in R THEN "ended" ELSE pc[r]]
  /\ session' = [r \in Runs |-> IF r \in R THEN {} ELSE session[r]]
  /\ turn' = [r \in Runs |-> IF r \in R THEN 0 ELSE turn[r]]
  /\ todo' = [r \in Runs |-> IF r \in R THEN <<>> ELSE todo[r]]
  /\ waited' = [r \in Runs |-> IF r \in R THEN 0 ELSE waited[r]]
  /\ age' = [r \in Runs |-> IF r \in R THEN 0 ELSE age[r]]
  /\ cut' = [r \in Runs |-> r \notin R /\ cut[r]]
  /\ UNCHANGED ledger

-----------------------------------------------------------------------------
(* governedRun up to the loop.                                             *)

\* The routes are fetched and bound, with a timeout for each request; the daemon
\* serves those it can resolve.  Without any the run ends.
Bind(r) ==
  /\ pc[r] = "absent" /\ decision[r] # Nowhere
  /\ \E served \in SUBSET RoutesFor(decision[r], Rows) :
       \/ /\ served # {}
          /\ session' = [session EXCEPT ![r] = served]
          /\ pc' = [pc EXCEPT ![r] = "connecting"]
       \/ /\ pc' = [pc EXCEPT ![r] = "ended"]
          /\ UNCHANGED session
  /\ UNCHANGED <<doorVars, storeVars, turn, todo, waited, age, cut, ledger>>

\* The agent connects to the gate and reads the context through it, without a
\* timeout; the run ends if it cannot connect, or the model is not configured.
SetUp(r) ==
  /\ pc[r] = "connecting"
  /\ \/ /\ Goto(r, "connecting", "thinking")
        /\ UNCHANGED <<session, turn, todo, waited, age, cut, ledger>>
     \/ End({r})
  /\ UNCHANGED <<doorVars, storeVars>>

-----------------------------------------------------------------------------
(* Run and callGated.                                                      *)

\* The model proposes calls, on any tool it likes.
Propose(r) ==
  /\ Goto(r, "thinking", "calling")
  /\ turn[r] < MaxTurns /\ ~cut[r]
  /\ turn' = [turn EXCEPT ![r] = @ + 1]
  /\ \E calls \in Plans[r] : todo' = [todo EXCEPT ![r] = calls]
  /\ UNCHANGED <<doorVars, storeVars, session, waited, age, cut, ledger>>

\* The model has no more calls or fails, as it does once the context has
\* ended, or the turns are used up.
Finish(r) ==
  /\ pc[r] = "thinking"
  /\ End({r})
  /\ UNCHANGED <<doorVars, storeVars>>

\* The call is sent, or its replay: not once the context has ended.
Send(r) ==
  /\ Goto(r, "calling", "sent") \/ Goto(r, "replaying", "resent")
  /\ ~cut[r]
  /\ UNCHANGED <<doorVars, storeVars, session, turn, todo, waited, age, cut, ledger>>

\* The gate refuses: no route of the session, or a recipe that denies.
CallRefused(r) ==
  /\ Over(r, "sent", "not performed", FALSE)
  /\ ~Asks(r, "open") /\ ~Asks(r, "approval")
  /\ UNCHANGED <<doorVars, storeVars>>

\* The gate lets the call through at once, also when its sender's context has
\* ended meanwhile.  The downstream may fail, and the answer may be lost.
CallPasses(r) ==
  /\ \/ Over(r, "sent", "performed", TRUE)
     \/ \E crossed \in BOOLEAN : Over(r, "sent", "failed", crossed)
  /\ Asks(r, "open")
  /\ UNCHANGED <<doorVars, storeVars>>

\* The gate escalates: it queues the action, unless there is a live approval.
\* The result carries the id, and the wait begins.
CallEscalates(r) ==
  /\ Goto(r, "sent", "awaiting")
  /\ Asks(r, "approval")
  /\ RecordPending(Held(r))
  /\ UNCHANGED <<doorVars, session, turn, todo, waited, age, cut, ledger>>

\* The call, or its replay, is lost before the gate did anything with it, and so
\* is every one that is not answered when the context ends.
CallLost(r) ==
  /\ r \in Flaky \/ cut[r]
  /\ \E from \in {"calling", "sent", "replaying", "resent", "releasing"} :
       Over(r, from, "failed", FALSE)
  /\ UNCHANGED <<doorVars, storeVars>>

-----------------------------------------------------------------------------
(* ApprovalConfig.await and the replay.                                    *)

\* The poll finds the approval and its token.
PollApproved(r) ==
  /\ Goto(r, "awaiting", "replaying")
  /\ row[Held(r)] = "approved" /\ ~cut[r]
  /\ UNCHANGED <<doorVars, storeVars, session, turn, todo, waited, age, cut, ledger>>

\* Denied, or spent by another run.
PollDecided(r) ==
  /\ Over(r, "awaiting", "not performed", FALSE)
  /\ row[Held(r)] \in {"denied", "consumed"} /\ ~cut[r]
  /\ UNCHANGED <<doorVars, storeVars>>

\* Deviation: the deadline is never looked at.
GiveUp_Never(r) == FALSE /\ UNCHANGED vars

\* Still pending when the deadline has passed; the row stays as it is.
GiveUp(r) ==
  /\ Over(r, "awaiting", "not performed", FALSE)
  /\ row[Held(r)] = "pending" /\ waited[r] = Timeout
  /\ UNCHANGED <<doorVars, storeVars>>

\* Deviation: the wait that failed cleans up after itself.
WaitFails_Burns(r) ==
  /\ Over(r, "awaiting", "failed", FALSE)
  /\ Consume(Held(r))
  /\ UNCHANGED doorVars

\* The poll fails, which ends the wait, or the context has ended.
WaitFails(r) ==
  /\ Over(r, "awaiting", "failed", FALSE)
  /\ UNCHANGED <<doorVars, storeVars>>

\* Decide reads the store for the replay: the approval is still live.
ReplayFinds(r) ==
  /\ Goto(r, "resent", "releasing")
  /\ row[Held(r)] = "approved"
  /\ UNCHANGED <<doorVars, storeVars, session, turn, todo, waited, age, cut, ledger>>

\* It was spent in between: the gate escalates again, and that is the result.
ReplayEscalates(r) ==
  /\ Over(r, "resent", "not performed", FALSE)
  /\ row[Held(r)] # "approved"
  /\ RecordPending(Held(r))
  /\ UNCHANGED doorVars

\* Deviation: a replay whose answer is lost is reported as not performed.
ReplayReleases_Presumed(r) ==
  /\ \/ Over(r, "releasing", "performed", TRUE)
     \/ \E crossed \in BOOLEAN : Over(r, "releasing", "not performed", crossed)
  /\ Consume(Held(r))
  /\ UNCHANGED doorVars

\* The gate burns the approval and forwards the call.  The downstream may
\* fail, and the answer may be lost.
ReplayReleases(r) ==
  /\ \/ Over(r, "releasing", "performed", TRUE)
     \/ \E crossed \in BOOLEAN : Over(r, "releasing", "failed", crossed)
  /\ Consume(Held(r))
  /\ UNCHANGED doorVars

-----------------------------------------------------------------------------
(* People, time and the process.                                           *)

Approve(a) ==
  /\ row[a] = "pending"
  /\ ApproveApproval(a)
  /\ UNCHANGED <<doorVars, runVars>>

Deny(a) ==
  /\ row[a] = "pending"
  /\ DenyApproval(a)
  /\ UNCHANGED <<doorVars, runVars>>

Aging(r)   == r \in Deliveries /\ Live(r) /\ age[r] < Lifetime
Waiting(r) == pc[r] = "awaiting" /\ waited[r] < Timeout

\* Time passes for every run at once.
Tick ==
  /\ \E r \in Runs : Aging(r) \/ Waiting(r)
  /\ age' = [r \in Runs |-> IF Aging(r) THEN age[r] + 1 ELSE age[r]]
  /\ waited' = [r \in Runs |-> IF Waiting(r) THEN waited[r] + 1 ELSE waited[r]]
  /\ cut' = [r \in Runs |-> cut[r] \/ (Aging(r) /\ age[r] + 1 = Lifetime)]
  /\ UNCHANGED <<doorVars, storeVars, pc, session, turn, todo, ledger>>

\* The operator's browser closes the stream of a console run.
Disconnect(k) ==
  /\ k \in Consoles /\ Live(k) /\ ~cut[k]
  /\ cut' = [cut EXCEPT ![k] = TRUE]
  /\ UNCHANGED <<doorVars, storeVars, pc, session, turn, todo, waited, age, ledger>>

\* harness-serve stops: handlers and runs are gone, a save may be cut short.
\* The files and the approval queue stay.
Crash ==
  /\ dpc' = [r \in Runs |-> IF dpc[r] = "resolved" THEN "lost" ELSE dpc[r]]
  /\ epc' = [e \in Editors |-> IF epc[e] = "writing" THEN "done" ELSE epc[e]]
  /\ End({r \in Runs : decision[r] # Nowhere})
  /\ UNCHANGED <<body, mapFile, saved, disposition, decision, ingress, storeVars>>

-----------------------------------------------------------------------------

\* What the run does by itself: it asks the daemon and its model, sends, polls and
\* gives up, each with a timeout or the end of its context.
OwnStep(r) ==
  \/ Bind(r) \/ Propose(r) \/ Finish(r) \/ Send(r)
  \/ PollApproved(r) \/ PollDecided(r) \/ GiveUp(r)
  \/ cut[r] /\ (SetUp(r) \/ CallLost(r) \/ WaitFails(r))

\* What others do for it: the gate and the tools behind it, and the network.
GateStep(r) ==
  \/ SetUp(r)
  \/ CallRefused(r) \/ CallPasses(r) \/ CallEscalates(r)
  \/ ReplayFinds(r) \/ ReplayEscalates(r) \/ ReplayReleases(r)
  \/ r \in Flaky /\ (CallLost(r) \/ WaitFails(r))

DoorStep(r) ==
  /\ \/ r \in Deliveries /\ HandleDelivery(r)
     \/ r \in Consoles /\ ResolveConsole(r)
  /\ UNCHANGED <<storeVars, runVars>>

Next ==
  \/ \E e \in Editors : (Truncate(e) \/ Write(e)) /\ UNCHANGED <<storeVars, runVars>>
  \/ \E r \in Runs : DoorStep(r) \/ OwnStep(r) \/ GateStep(r) \/ Disconnect(r)
  \/ \E a \in Actions : Approve(a) \/ Deny(a)
  \/ Tick
  \/ Crash

Spec == Init /\ [][Next]_vars

\* A handler goes on, a run does what it does by itself, and time passes.  The
\* requests to the daemon, the model and the approval queue have timeouts of
\* their own; a call, and the reads before the first turn, have none, so nothing
\* is assumed of the gate.  Nobody owes an approval, a save, a request or a
\* disconnection.
FairSpec ==
  /\ Spec
  /\ WF_vars(Tick)
  /\ \A r \in Runs : WF_vars(OwnStep(r))
  /\ \A d \in Deliveries : WF_vars(RecordArrival(d) /\ UNCHANGED <<storeVars, runVars>>)

-----------------------------------------------------------------------------
(* Safety.                                                                 *)

\* An event satisfies a predicate that asserts something.
Satisfies(event, pred) ==
  DOMAIN pred # {} /\ \A k \in DOMAIN pred : k \in DOMAIN event /\ event[k] = pred[k]

\* A run launched by an event follows the first matching definition of one map
\* an operator saved, never of a file that was being written, and if that
\* definition requires attribution the delivery was attributed; a run that a
\* model chose has a recipe of the catalog (ingress.go:32-97, dispatch.go:91-113).
RoutedBySavedMap ==
  \A r \in Runs :
    CASE decision[r].mode = "deterministic" ->
           \E m \in saved : \E i \in 1..Len(m) :
             /\ Satisfies(body[r].event, m[i].match)
             /\ \A j \in 1..i-1 : ~Satisfies(body[r].event, m[j].match)
             /\ decision[r] = Follow(m[i])
             /\ (r \in Deliveries /\ m[i].attributed) => (HasSecret /\ body[r].signed)
      [] decision[r].mode = "model" ->
           \E p \in Rows : p.valid /\ p.recipe = decision[r].recipe
      [] OTHER -> TRUE

\* The positions of the leaves of delivery d.
LeavesOf(d) == {i \in 1..Len(ingress) : ingress[i].of = d}

\* The ingress log does not lie: a delivery has at most one leaf, a dispatched
\* leaf names the recipe of the run that was launched, any other leaf means
\* that no run was, and while appends succeed an answered delivery whose map
\* could be read has its leaf (webhook, ingress.go:46-97).
ArrivalsAreTold ==
  \A d \in Deliveries :
    /\ \A i, j \in LeavesOf(d) : i = j
    /\ \A i \in LeavesOf(d) :
         IF ingress[i].disposition = "dispatched"
         THEN decision[d] # Nowhere /\ decision[d].recipe = ingress[i].recipe
         ELSE decision[d] = Nowhere /\ pc[d] = "absent"
    /\ ~LogFails /\ dpc[d] = "answered" /\ disposition[d] # "unreadable"
         => LeavesOf(d) # {}

\* The model is never told that a call was performed when it did not cross, nor
\* that it was not performed when it did: not after a timeout, a denial, a
\* spent approval, or an answer that was lost (callGated, agent.go:96-129).
ToldTheTruth ==
  \A r \in Runs : \A i \in 1..Len(ledger[r]) :
    LET call == ledger[r][i]
    IN  /\ call.told = "performed" => call.crossed
        /\ call.told = "not performed" => ~call.crossed

\* A misroute cannot breach: whatever the model proposes, a call that crosses is
\* on a route the decision names, under a recipe that lets it pass, and if that
\* recipe asks for an approval a person gave one (dispatch.go:8-10).
MisrouteContained ==
  \A r \in Runs : \A i \in 1..Len(ledger[r]) :
    ledger[r][i].crossed =>
      LET a == ledger[r][i].action
      IN  \E p \in Rows :
            /\ p.valid /\ p.tool = ToolOf[a].tool /\ p.server = ToolOf[a].server
            /\ decision[r].tools = {} => p.recipe = decision[r].recipe
            /\ decision[r].tools # {} => \E t \in decision[r].tools : t.tool = p.tool
            /\ \/ Kind[p.recipe] = "open"
               \/ Kind[p.recipe] = "approval" /\ grants[a] > 0 /\ burns[a] > 0

\* A person's approval is spent only by the replay of a run that waited for it:
\* a wait that is given up, a context that ends and a restart leave it live
\* (agent/approval.go:80-104).
SpentOnlyByReplay ==
  [][\A a \in Actions :
       row[a] = "approved" /\ row'[a] # "approved" =>
         \E r \in Runs : pc[r] = "releasing" /\ pc'[r] # "releasing" /\ Held(r) = a]_vars

\* A run whose context has ended sends neither a call nor a replay, and what is
\* still to do does not cross: at most the one call the gate had by then can
\* (ingress.go:102-104, agent.go:66-129).
CutRunsStopActing ==
  [][\A r \in Runs :
       cut[r] /\ ~AtGate(r)
         => /\ ~AtGate(r)'
            /\ ledger'[r] # ledger[r] => ~ledger'[r][Len(ledger'[r])].crossed]_vars

\* The run of a delivery ends, whatever people, the gate and the tools do, as its
\* context does.  A console's run ends too, unless the gate keeps it for ever in
\* a call, or in the reads before the first turn, and nobody closes the console:
\* it never waits for ever for a person.  A delivery that was resolved is
\* answered, unless harness-serve stops (agent.Run's turns, await's deadline,
\* the context of a webhook).
EverythingEnds ==
  /\ \A d \in Deliveries : decision[d] # Nowhere ~> pc[d] = "ended"
  /\ \A k \in Consoles :
       []<>(cut[k] \/ ~(AtGate(k) \/ pc[k] = "connecting"))
         => (decision[k] # Nowhere ~> pc[k] = "ended")
  /\ \A d \in Deliveries : dpc[d] = "resolved" ~> dpc[d] \in {"answered", "lost"}

-----------------------------------------------------------------------------
(* What a comment promises and the code does not keep.                     *)

\* ingress.go:20 and :27: the arrival is recorded REGARDLESS of disposition.
AlwaysRecorded ==
  \A d \in Deliveries : dpc[d] = "answered" => LeavesOf(d) # {}

=============================================================================
