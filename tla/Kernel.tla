------------------------------- MODULE Kernel -------------------------------
(***************************************************************************)
(* The recipe kernel and its use by the gate (stag/stag.go, walk, and      *)
(* stag/proxy/proxy.go, evalSlots): a call binds its gated values to the   *)
(* slots a recipe proposes, in every combination; each combination is one  *)
(* walk over the steps of the recipe; the verdicts of all steps of all     *)
(* walks are conjoined, and the crossings that a rule released are         *)
(* recorded.                                                               *)
(*                                                                         *)
(* One action is one step of the walk.  The combinations are taken in any  *)
(* order: the code goes through them in document order, and its result     *)
(* does not depend on the order.                                           *)
(***************************************************************************)
EXTENDS RecipeLang, FiniteSets

CONSTANTS
  Blank,       \* the empty string
  Elements,    \* Elements[v]: the elements of a value that is a JSON array of strings
  Recipes,     \* the recipes of the routes
  Calls,       \* the gated values of the calls: the values of each gated path
  ForeachCap,  \* foreachCap
  MaxEvals     \* maxEvals

\* paths: the gated paths in the order of the route; multi: the route names
\* its paths with a comma.  argpath.Extract selects at least one value.
Call == [multi : BOOLEAN,
         paths : Seq([name : Names, vals : Seq(Values) \ {<<>>}]) \ {<<>>}]

ASSUME KernelAssumption ==
  /\ Blank \in Values
  /\ Recipes \subseteq Recipe
  /\ Calls \subseteq Call
  /\ \A c \in Calls : Len(c.paths) > 1 => c.multi
  /\ DOMAIN Elements \subseteq Values
  /\ \A v \in DOMAIN Elements : Elements[v] \in Seq(Values)
  /\ ForeachCap \in Nat
  /\ MaxEvals \in Nat

VARIABLES
  recipe, call,
  phase,             \* "ready" between two walks, "walk", "decided"
  todo,              \* the combinations that have not been walked
  total,             \* the conjoined verdict of the walks that have ended
  pick,              \* the combination of this walk: the index of each path's value
  slots,             \* the slots of this walk
  at,                \* the next step; 0 or beyond the last step: the path has ended
  loop, items, elem, \* the foreach the walk is in (0: none), its list, the current index
  verdict,           \* the conjoined verdict of the steps of this walk
  fault,             \* the first structural fault
  events,            \* the releases recorded by all walks
  visits             \* history: the steps taken, each with the slot it read

loopVars == <<loop, items, elem>>
walkVars == <<slots, at, loopVars, verdict>>
callVars == <<recipe, call>>
vars == <<callVars, phase, todo, total, pick, walkVars, fault, events, visits>>

Verdict == {"allow", "escalate", "deny"}
Rank == [allow |-> 0, escalate |-> 1, deny |-> 2]

\* Deviation: an escalation hides a denial.
And_Escalates(a, b) ==
  IF "escalate" \in {a, b} THEN "escalate" ELSE IF Rank[a] > Rank[b] THEN a ELSE b

\* And: the more restrictive verdict.
And(a, b) == IF Rank[a] > Rank[b] THEN a ELSE b

-----------------------------------------------------------------------------
(* Combinations.                                                           *)

\* cartesian: one value of each path.
Picks(c) ==
  {p \in [DOMAIN c.paths -> UNION {DOMAIN c.paths[k].vals : k \in DOMAIN c.paths}] :
     \A k \in DOMAIN c.paths : p[k] \in DOMAIN c.paths[k].vals}

\* The value a propose step gets for slot n.  A single path binds everywhere;
\* of several paths with one name the last one binds; a name that no path has
\* binds the empty string.
Bind(c, p, n) ==
  LET last == {k \in DOMAIN c.paths :
                 /\ c.paths[k].name = n
                 /\ \A j \in DOMAIN c.paths : c.paths[j].name = n => j <= k}
      path == IF c.multi THEN last ELSE {1}
  IN  IF path = {} THEN Blank
      ELSE LET k == CHOOSE k \in path : TRUE IN c.paths[k].vals[p[k]]

-----------------------------------------------------------------------------

Steps == recipe.steps
Here  == Steps[at]
Subject == slots[Here.in]

PathEnded == at \notin DOMAIN Steps

Untrusted(v) == [value |-> v, class |-> "untrusted"]

Visit == [pick |-> pick, loop |-> loop, elem |-> elem, step |-> at, slot |-> Subject]

TypeOK ==
  /\ recipe \in Recipe /\ call \in Call
  /\ phase \in {"ready", "walk", "decided"}
  /\ todo \subseteq Picks(call)
  /\ pick \in Picks(call)
  /\ total \in Verdict /\ verdict \in Verdict
  /\ slots \in [Names -> Slot]
  /\ at \in 0 .. Len(Steps) + 1
  /\ loop \in 0 .. Len(Steps) /\ items \in Seq(Values) /\ elem \in Nat
  /\ fault \in {"none", "bound", "edge", "branch", "nested", "severed", "list", "cap"}
  /\ events \in Seq([pick : Picks(call), step : DOMAIN Steps, class : Class, ordering : Nat])
  /\ visits \subseteq [pick : Picks(call), loop : 0 .. Len(Steps), elem : Nat,
                       step : DOMAIN Steps, slot : Slot]

Init ==
  /\ recipe \in Recipes /\ call \in Calls
  /\ phase = "ready"
  /\ todo = Picks(call)
  /\ pick \in Picks(call) /\ pick = [k \in DOMAIN call.paths |-> 1]
  /\ total = "allow" /\ verdict = "allow" /\ fault = "none"
  /\ slots = recipe.ingredients
  /\ at = 0
  /\ loop = 0 /\ items = <<>> /\ elem = 0
  /\ events = <<>> /\ visits = {}

-----------------------------------------------------------------------------
(* evalSlots.                                                              *)

\* Too many combinations: the gate refuses to decide.
RefuseTooMany ==
  /\ phase = "ready" /\ Cardinality(Picks(call)) > MaxEvals
  /\ phase' = "decided" /\ total' = "deny" /\ fault' = "bound"
  /\ UNCHANGED <<callVars, todo, pick, walkVars, events, visits>>

\* evalWith: a walk starts at the first step with the ingredients.
Begin(p) ==
  /\ phase = "ready" /\ Cardinality(Picks(call)) <= MaxEvals
  /\ phase' = "walk" /\ pick' = p
  /\ slots' = recipe.ingredients
  /\ at' = 1 /\ verdict' = "allow"
  /\ loop' = 0 /\ items' = <<>> /\ elem' = 0
  /\ UNCHANGED <<callVars, todo, total, fault, events, visits>>

MoreElements == loop # 0 /\ elem + 1 < Len(items)

\* Deviation: the first combination that is allowed decides.
EndWalk_Early ==
  /\ phase = "walk" /\ PathEnded /\ ~MoreElements
  /\ total' = And(total, verdict)
  /\ todo' = todo \ {pick}
  /\ phase' = IF todo' = {} \/ verdict = "allow" THEN "decided" ELSE "ready"
  /\ UNCHANGED <<callVars, pick, walkVars, fault, events, visits>>

\* The walk has ended; its verdict is conjoined with those before.
EndWalk ==
  /\ phase = "walk" /\ PathEnded /\ ~MoreElements
  /\ total' = And(total, verdict)
  /\ todo' = todo \ {pick}
  /\ phase' = IF todo' = {} THEN "decided" ELSE "ready"
  /\ UNCHANGED <<callVars, pick, walkVars, fault, events, visits>>

-----------------------------------------------------------------------------
(* walk.                                                                   *)

\* The walk takes a step of this kind.
Taking(kind) ==
  /\ phase = "walk" /\ ~PathEnded /\ Here.kind = kind
  /\ visits' = visits \cup {Visit}
  /\ UNCHANGED <<callVars, phase, todo, total, pick>>

Fault(reason) ==
  /\ at' = 0 /\ verdict' = "deny"
  /\ fault' = IF fault = "none" THEN reason ELSE fault

\* The step has verdict v; the walk goes on along its edge.
Follow(v) ==
  IF CanHop(Steps, at, Here.goto)
  THEN at' = Landing(at, Here.goto) /\ verdict' = And(verdict, v) /\ fault' = fault
  ELSE Fault("edge")

\* The path ends with verdict v.
Halt(v) == at' = 0 /\ verdict' = And(verdict, v) /\ fault' = fault

Propose ==
  /\ Taking("propose")
  /\ slots' = [slots EXCEPT ![Here.out] = Untrusted(Bind(call, pick, Here.out))]
  /\ Follow("allow")
  /\ UNCHANGED <<loopVars, events>>

\* A slot that is missing never releases.
Released == Present(Subject) /\ Releases(Here.rule, Subject.value)

\* GateSink.
SinkVerdict ==
  IF ~Here.authoritative \/ Released \/ Subject.class = "authoritative" THEN "allow" ELSE "deny"

\* Deviation: the crossings of all elements of a foreach share their orderings.
Ordering_StepOnly(e, i) == i - 1

\* The ordinal of a crossing in its walk; positions count from 0 in the code.
Ordering(e, i) == e * Len(Steps) + (i - 1)

Event == [pick |-> pick, step |-> at, class |-> Subject.class, ordering |-> Ordering(elem, at)]

\* Deviation: a crossing is recorded before it is decided.
Sink_RecordsFirst ==
  /\ Taking("sink")
  /\ events' = IF Here.authoritative /\ Subject.class # "authoritative"
               THEN Append(events, Event) ELSE events
  /\ Follow(SinkVerdict)
  /\ UNCHANGED <<slots, loopVars>>

\* The crossing gate; the step that clears a crossing records it.
Sink ==
  /\ Taking("sink")
  /\ events' = IF Here.authoritative /\ Subject.class # "authoritative" /\ Released
               THEN Append(events, Event) ELSE events
  /\ Follow(SinkVerdict)
  /\ UNCHANGED <<slots, loopVars>>

\* The checkpoint passes.
GatePasses ==
  /\ Taking("gate")
  /\ Released
  /\ Follow("allow")
  /\ UNCHANGED <<slots, loopVars, events>>

\* The checkpoint fails and ends the path; a missing slot or rule denies.
GateFails ==
  /\ Taking("gate")
  /\ ~Released
  /\ Halt(IF Present(Subject) /\ Here.rule # {} /\ Here.escalate THEN "escalate" ELSE "deny")
  /\ UNCHANGED <<slots, loopVars, events>>

\* The first case that releases the value, or the default.
BranchTarget ==
  LET hits  == {k \in DOMAIN Here.cases : Releases(Here.cases[k].rule, Subject.value)}
      first == {k \in hits : \A j \in hits : k <= j}
  IN  IF first = {} THEN Here.goto ELSE Here.cases[CHOOSE k \in first : TRUE].goto

Branch ==
  /\ Taking("branch")
  /\ IF Present(Subject) /\ Edge(Steps, at, BranchTarget)
     THEN at' = BranchTarget /\ UNCHANGED <<verdict, fault>>
     ELSE Fault("branch")
  /\ UNCHANGED <<slots, loopVars, events>>

Exit ==
  /\ Taking("exit")
  /\ Halt("allow")
  /\ UNCHANGED <<slots, loopVars, events>>

\* What is wrong with a foreach, in the order of the checks.
ForeachTrouble ==
  IF loop # 0 THEN "nested"
  ELSE IF ~Present(Subject) THEN "severed"
  ELSE IF Subject.value \notin DOMAIN Elements THEN "list"
  ELSE IF Len(Elements[Subject.value]) > ForeachCap THEN "cap"
  ELSE IF ~CanHop(Steps, at, Here.goto) THEN "edge"
  ELSE "none"

RefuseForeach ==
  /\ Taking("foreach")
  /\ ForeachTrouble # "none"
  /\ Fault(ForeachTrouble)
  /\ UNCHANGED <<slots, loopVars, events>>

\* The foreach consumes the rest of the path: its body is walked once for each
\* element, with the element as an untrusted slot.
Foreach ==
  /\ Taking("foreach")
  /\ ForeachTrouble = "none"
  /\ loop' = at /\ items' = Elements[Subject.value] /\ elem' = 0
  /\ IF items' = <<>>
     THEN at' = 0 /\ slots' = slots
     ELSE /\ at' = Landing(at, Here.goto)
          /\ slots' = [slots EXCEPT ![Here.out] = Untrusted(items'[1])]
  /\ UNCHANGED <<verdict, fault, events>>

\* The path of an element has ended, whatever its verdict; the next one starts.
NextElement ==
  /\ phase = "walk" /\ PathEnded /\ MoreElements
  /\ elem' = elem + 1
  /\ at' = Landing(loop, Steps[loop].goto)
  /\ slots' = [slots EXCEPT ![Steps[loop].out] = Untrusted(items[elem + 2])]
  /\ UNCHANGED <<callVars, phase, todo, total, pick, loop, items, verdict, fault, events, visits>>

Next ==
  \/ RefuseTooMany
  \/ \E p \in todo : Begin(p)
  \/ EndWalk
  \/ Propose \/ Sink \/ GatePasses \/ GateFails \/ Branch \/ Exit
  \/ RefuseForeach \/ Foreach \/ NextElement

Spec == Init /\ [][Next]_vars

\* The evaluation is a loop of one goroutine.
FairSpec == Spec /\ WF_vars(Next)

-----------------------------------------------------------------------------
(* Properties.                                                             *)

Crosses(v) ==
  /\ Steps[v.step].kind = "sink" /\ Steps[v.step].authoritative
  /\ v.slot.class # "authoritative"

\* The value was released for the sink, and its release is recorded.
ReleasedAt(v) ==
  /\ Releases(Steps[v.step].rule, v.slot.value)
  /\ \E i \in DOMAIN events :
       /\ events[i].pick = v.pick /\ events[i].step = v.step
       /\ events[i].class = v.slot.class
       /\ events[i].ordering = Ordering(v.elem, v.step)

FailsGate(v) ==
  /\ Steps[v.step].kind = "gate"
  /\ ~(Present(v.slot) /\ Releases(Steps[v.step].rule, v.slot.value))

\* The kernel invariant (stag.go:1-6): a call is allowed only if every
\* combination of its gated values was walked without a fault, every gate that
\* was met was passed, and no value that is not authoritative reached an
\* authoritative sink, in any walk and for any element, without a rule that
\* releases it and a recorded release.
KernelInvariant ==
  phase = "decided" /\ total = "allow" =>
    /\ fault = "none"
    /\ \A p \in Picks(call) : \E v \in visits : v.pick = p
    /\ \A v \in visits : ~FailsGate(v) /\ (Crosses(v) => ReleasedAt(v))

\* A person is asked only when nothing denies: a call is escalated only if
\* all that stands against it, in any walk, are gates that escalate
\* (andVerdict, proxy.go:522-534; the gate step of walk).
EscalatesOnlyDoubt ==
  phase = "decided" /\ total = "escalate" =>
    /\ fault = "none"
    /\ \E v \in visits : FailsGate(v)
    /\ \A v \in visits : /\ FailsGate(v) => Present(v.slot) /\ Steps[v.step].escalate
                         /\ Crosses(v) => ReleasedAt(v)

\* The rule of the step released the value it met.
Passes(v) == Present(v.slot) /\ Releases(Steps[v.step].rule, v.slot.value)

\* The value a rule released for an authoritative sink.
CrossingOf(v) ==
  [pick |-> v.pick, step |-> v.step, class |-> v.slot.class, ordering |-> Ordering(v.elem, v.step)]

\* A call is not denied without a cause: a fault, a value no rule released at an authoritative sink, or
\* a gate that does not escalate (stag.go:258-307, andVerdict, proxy.go:522-534).
DeniedForCause ==
  phase = "decided" /\ total = "deny" =>
    \/ fault # "none"
    \/ \E v \in visits :
         \/ Crosses(v) /\ ~Passes(v)
         \/ /\ FailsGate(v)
            /\ ~(Present(v.slot) /\ Steps[v.step].rule # {} /\ Steps[v.step].escalate)

\* With KernelInvariant, each of the three verdicts says exactly what the walks
\* met, whatever the order of the combinations (andVerdict, proxy.go:522-534).
VerdictsHaveCauses == EscalatesOnlyDoubt /\ DeniedForCause

\* The step that clears a crossing records it (stag.go:271-281): in every walk and
\* for every element, whatever the verdict, the recorded releases are the
\* crossings a rule released, and no others.
EventsAreCrossings ==
  /\ \A v \in visits : Crosses(v) /\ Passes(v) => ReleasedAt(v)
  /\ \A i \in DOMAIN events :
       \E v \in visits : Crosses(v) /\ Passes(v) /\ events[i] = CrossingOf(v)

\* The releases of one walk have distinct orderings, across the elements of a
\* foreach (stag.go:222-226).
OrderingsDistinct ==
  \A i, j \in DOMAIN events :
    i # j /\ events[i].pick = events[j].pick => events[i].ordering # events[j].ordering

\* Step w was taken on the path that led to v: in the same walk, and before the
\* foreach or for the same element.
OnPathTo(w, v) == w.pick = v.pick /\ (w.loop = 0 \/ w.elem = v.elem)

\* The only way into a guarded segment is through its gate (recipe.go:1377-1412):
\* in a linted recipe a step behind a gate is taken only if that gate was
\* passed on the same path, for the same element.
GuardedThroughGate ==
  Linted(recipe) =>
    \A v \in visits, g \in Gates(Steps) :
      v.step \in Segment(Steps, g) =>
        \E w \in visits : /\ OnPathTo(w, v) /\ w.step = g
                          /\ Present(w.slot) /\ Releases(Steps[g].rule, w.slot.value)

\* A linted recipe never faults but for what a call may bring: too many
\* combinations, or a value a foreach cannot go through; and no step of it
\* finds its slot missing (recipe.go:1146-1428).
LintedNeverFaults ==
  Linted(recipe) =>
    /\ fault \in {"none", "bound", "list", "cap"}
    /\ \A v \in visits : Consumes(Steps[v.step]) => Present(v.slot)

\* Every call is decided.
EveryCallDecided == <>(phase = "decided")

-----------------------------------------------------------------------------
(* What a comment promises and the code does not keep.                     *)

\* proxy.go:465-467: a path over an array selects many values and every one
\* must clear.  In a walk of an allowed call, every value of a path whose slot
\* the recipe proposes was bound to the slot.
EveryGatedValueJudged ==
  phase = "decided" /\ total = "allow" =>
    \A k \in DOMAIN call.paths :
      LET name == call.paths[k].name
          proposals == {v \in visits : Steps[v.step].kind = "propose" /\ Steps[v.step].out = name}
      IN  proposals # {} =>
            \A i \in DOMAIN call.paths[k].vals :
              \E v \in proposals : Bind(call, v.pick, name) = call.paths[k].vals[i]

=============================================================================
