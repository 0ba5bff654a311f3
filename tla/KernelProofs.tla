---------------------------- MODULE KernelProofs ----------------------------
(***************************************************************************)
(* Theorems about the recipe kernel, for all recipes and calls.            *)
(***************************************************************************)
EXTENDS Kernel, SetInduction, TLAPS

-----------------------------------------------------------------------------
(* Sequences, functions, arithmetic.                                       *)

LEMMA ElementOf ==
  ASSUME NEW S, NEW s \in Seq(S), NEW k \in DOMAIN s
  PROVE  s[k] \in S
  OBVIOUS

LEMMA Updated ==
  ASSUME NEW D, NEW R, NEW f \in [D -> R], NEW n, NEW v \in R
  PROVE  [f EXCEPT ![n] = v] \in [D -> R]
  OBVIOUS

LEMMA Product ==
  ASSUME NEW a \in Nat, NEW b \in Nat
  PROVE  a * b \in Nat /\ (a + 1) * b = a * b + b
  OBVIOUS

\* Orderings are natural numbers, and those of an element end where those of
\* the next one begin.
LEMMA OrderingType ==
  ASSUME NEW e \in Nat, Len(Steps) \in Nat, NEW i \in 1 .. Len(Steps)
  PROVE  /\ Ordering(e, i) \in Nat
         /\ e * Len(Steps) \in Nat /\ (e + 1) * Len(Steps) = e * Len(Steps) + Len(Steps)
         /\ Ordering(e, i) = e * Len(Steps) + (i - 1)
<1>1. e * Len(Steps) \in Nat /\ (e + 1) * Len(Steps) = e * Len(Steps) + Len(Steps)
  BY Product
<1>2. i - 1 \in Nat
  OBVIOUS
<1> QED
  BY <1>1, <1>2 DEF Ordering

-----------------------------------------------------------------------------
(* Types.                                                                  *)

\* A call binds a value to every slot.
LEMMA BindType ==
  ASSUME NEW c \in Call, NEW p \in Picks(c), NEW n \in Names
  PROVE  Bind(c, p, n) \in Values
<1> DEFINE last == {k \in DOMAIN c.paths :
                      /\ c.paths[k].name = n
                      /\ \A j \in DOMAIN c.paths : c.paths[j].name = n => j <= k}
           path == IF c.multi THEN last ELSE {1}
           k0 == CHOOSE k \in path : TRUE
<1>1. c.paths \in Seq([name : Names, vals : Seq(Values) \ {<<>>}]) /\ c.paths # <<>>
  BY DEF Call
<1>2. 1 \in DOMAIN c.paths
  BY <1>1
<1>3. path \subseteq DOMAIN c.paths
  BY <1>2
<1>4. \A k \in DOMAIN c.paths : c.paths[k].vals[p[k]] \in Values
  <2> TAKE k \in DOMAIN c.paths
  <2>1. p[k] \in DOMAIN c.paths[k].vals
    BY DEF Picks
  <2>2. c.paths[k] \in [name : Names, vals : Seq(Values) \ {<<>>}]
    BY <1>1, ElementOf
  <2>3. c.paths[k].vals \in Seq(Values)
    BY <2>2
  <2> QED
    BY <2>1, <2>3
<1>5. CASE path = {}
  BY <1>5, KernelAssumption DEF Bind
<1>6. CASE path # {}
  <2>1. k0 \in DOMAIN c.paths
    BY <1>3, <1>6
  <2>2. Bind(c, p, n) = c.paths[k0].vals[p[k0]]
    BY <1>6 DEF Bind
  <2> QED
    BY <2>1, <2>2, <1>4
<1> QED
  BY <1>5, <1>6

\* The step a walk is at, and what it reads.
LEMMA Taken ==
  ASSUME TypeOK, at \in DOMAIN Steps
  PROVE  /\ Steps \in Seq(Step) /\ Len(Steps) \in Nat \ {0}
         /\ at \in 1 .. Len(Steps)
         /\ Here \in Step
         /\ Subject \in Slot
         /\ Visit \in [pick : Picks(call), loop : 0 .. Len(Steps), elem : Nat,
                       step : DOMAIN Steps, slot : Slot]
<1>1. Steps \in Seq(Step) /\ Steps # <<>>
  BY DEF TypeOK, Recipe, Steps
<1>2. at \in 1 .. Len(Steps) /\ Len(Steps) \in Nat \ {0}
  BY <1>1
<1>3. Here \in Step
  BY <1>1 DEF Here
<1>4. Subject \in Slot
  BY <1>3 DEF Subject, Step, TypeOK
<1> QED
  BY <1>1, <1>2, <1>3, <1>4 DEF TypeOK, Visit

\* A hop that succeeds goes forward, and at most one past the last step.
LEMMA HopForward ==
  ASSUME NEW steps \in Seq(Step), NEW i \in DOMAIN steps, NEW t \in Nat, CanHop(steps, i, t)
  PROVE  Landing(i, t) \in i + 1 .. Len(steps) + 1
  BY DEF CanHop, Landing, Edge

\* The loop a walk is in was entered over a good edge.
LoopInv ==
  /\ loop = 0 => elem = 0
  /\ loop # 0 => CanHop(Steps, loop, Steps[loop].goto)

TypeInv == TypeOK /\ LoopInv

LEMMA InitTypeInv == Init => TypeInv
<1> SUFFICES ASSUME Init
             PROVE  TypeInv
  OBVIOUS
<1>1. recipe \in Recipe /\ call \in Call
  BY KernelAssumption DEF Init
<1>2. Steps \in Seq(Step) /\ recipe.ingredients \in [Names -> Slot]
  BY <1>1 DEF Recipe, Steps
<1>3. Len(Steps) \in Nat
  BY <1>2
<1> QED
  BY <1>1, <1>2, <1>3 DEF Init, TypeInv, TypeOK, LoopInv, Verdict

\* What And, Follow, Halt and Fault leave behind.
LEMMA AndType ==
  ASSUME NEW a \in Verdict, NEW b \in Verdict
  PROVE  And(a, b) \in Verdict
  BY DEF And

LEMMA OutcomeType ==
  ASSUME TypeOK, at \in DOMAIN Steps,
         \/ \E v \in Verdict : Follow(v) \/ Halt(v)
         \/ \E reason \in {"edge", "branch", "nested", "severed", "list", "cap"} : Fault(reason)
  PROVE  /\ at' \in 0 .. Len(Steps) + 1
         /\ verdict' \in Verdict
         /\ fault' \in {"none", "bound", "edge", "branch", "nested", "severed", "list", "cap"}
<1>1. /\ Steps \in Seq(Step) /\ Len(Steps) \in Nat /\ Here \in Step /\ Here.goto \in Nat
      /\ at \in 1 .. Len(Steps)
  BY Taken DEF Step
<1>2. verdict \in Verdict /\ "deny" \in Verdict
  BY DEF TypeOK, Verdict
<1>3. ASSUME NEW reason \in {"edge", "branch", "nested", "severed", "list", "cap"}, Fault(reason)
      PROVE  /\ at' \in 0 .. Len(Steps) + 1
             /\ verdict' \in Verdict
             /\ fault' \in {"none", "bound", "edge", "branch", "nested", "severed", "list", "cap"}
  BY <1>1, <1>2, <1>3 DEF Fault, TypeOK
<1>4. ASSUME NEW v \in Verdict, Halt(v)
      PROVE  /\ at' \in 0 .. Len(Steps) + 1
             /\ verdict' \in Verdict /\ fault' = fault
  BY <1>1, <1>2, <1>4, AndType DEF Halt
<1>5. ASSUME NEW v \in Verdict, Follow(v), CanHop(Steps, at, Here.goto)
      PROVE  /\ at' \in 0 .. Len(Steps) + 1
             /\ verdict' \in Verdict /\ fault' = fault
  BY <1>1, <1>2, <1>5, AndType, HopForward DEF Follow
<1>6. ASSUME NEW v \in Verdict, Follow(v), ~CanHop(Steps, at, Here.goto)
      PROVE  Fault("edge")
  BY <1>6 DEF Follow
<1> QED
  BY <1>3, <1>4, <1>5, <1>6 DEF TypeOK

LEMMA NextTypeInv == TypeInv /\ [Next]_vars => TypeInv'
<1> SUFFICES ASSUME TypeInv, [Next]_vars
             PROVE  TypeInv'
  OBVIOUS
<1>0. TypeOK /\ LoopInv
  BY DEF TypeInv
<1>a. /\ recipe \in Recipe /\ Steps \in Seq(Step) /\ recipe.ingredients \in [Names -> Slot]
      /\ Len(Steps) \in Nat \ {0} /\ DOMAIN Steps = 1 .. Len(Steps)
  BY <1>0 DEF TypeOK, Recipe, Steps
<1>1. CASE UNCHANGED vars
  BY <1>0, <1>1 DEF vars, callVars, walkVars, loopVars, TypeInv, TypeOK, LoopInv, Steps
<1>2. CASE RefuseTooMany
  BY <1>0, <1>2 DEF RefuseTooMany, callVars, walkVars, loopVars, TypeInv, TypeOK, LoopInv, Steps, Verdict
<1>3. CASE \E p \in todo : Begin(p)
  <2> PICK p \in todo : Begin(p)
    BY <1>3
  <2>1. p \in Picks(call) /\ 1 \in 0 .. Len(Steps) + 1
    BY <1>0, <1>a DEF TypeOK
  <2> QED
    BY <1>0, <1>a, <2>1 DEF Begin, callVars, TypeInv, TypeOK, LoopInv, Steps, Verdict
<1>4. CASE EndWalk
  <2>1. And(total, verdict) \in Verdict
    BY <1>0, AndType DEF TypeOK
  <2> QED
    BY <1>0, <1>4, <2>1 DEF EndWalk, callVars, walkVars, loopVars, TypeInv, TypeOK, LoopInv, Steps
<1>5. ASSUME NEW kind, Taking(kind), loop' = loop, items' = items, elem' = elem,
             slots' \in [Names -> Slot],
             \/ \E v \in Verdict : Follow(v) \/ Halt(v)
             \/ \E reason \in {"edge", "branch", "nested", "severed", "list", "cap"} : Fault(reason)
             \/ at' = BranchTarget /\ Edge(Steps, at, BranchTarget) /\ UNCHANGED <<verdict, fault>>,
             \/ events' = events
             \/ Released /\ Subject.class # "authoritative" /\ events' = Append(events, Event)
      PROVE  TypeInv'
  <2>1. at \in DOMAIN Steps /\ Steps' = Steps /\ recipe' = recipe /\ call' = call
    BY <1>5 DEF Taking, PathEnded, callVars, Steps
  <2>2. /\ at' \in 0 .. Len(Steps) + 1
        /\ verdict' \in Verdict
        /\ fault' \in {"none", "bound", "edge", "branch", "nested", "severed", "list", "cap"}
    <3>1. CASE at' = BranchTarget /\ Edge(Steps, at, BranchTarget) /\ UNCHANGED <<verdict, fault>>
      BY <1>0, <1>a, <3>1 DEF Edge, TypeOK
    <3> QED
      BY <1>0, <1>5, <2>1, <3>1, OutcomeType
  <2>3. visits' \subseteq [pick : Picks(call), loop : 0 .. Len(Steps), elem : Nat,
                           step : DOMAIN Steps, slot : Slot]
    <3>1. visits' = visits \cup {Visit}
      BY <1>5 DEF Taking
    <3> QED
      BY <1>0, <2>1, <3>1, Taken DEF TypeOK
  <2>4. events' \in Seq([pick : Picks(call), step : DOMAIN Steps, class : Class, ordering : Nat])
    <3>1. CASE Released
      <4>1. Subject.class \in Class
        BY <1>0, <2>1, <3>1, Taken DEF Released, Present, Slot
      <4>2. Ordering(elem, at) \in Nat
        BY <1>0, <1>a, <2>1, OrderingType DEF TypeOK
      <4>3. Event \in [pick : Picks(call), step : DOMAIN Steps, class : Class, ordering : Nat]
        BY <1>0, <2>1, <4>1, <4>2 DEF Event, TypeOK
      <4>4. events \in Seq([pick : Picks(call), step : DOMAIN Steps, class : Class, ordering : Nat])
        BY <1>0 DEF TypeOK
      <4>5. CASE events' = Append(events, Event)
        BY <4>3, <4>4, <4>5
      <4>6. CASE events' = events
        BY <4>4, <4>6
      <4> QED
        BY <1>5, <4>5, <4>6
    <3>2. CASE ~Released
      BY <1>0, <1>5, <3>2 DEF TypeOK
    <3> QED
      BY <3>1, <3>2
  <2>5. phase' = phase /\ todo' = todo /\ total' = total /\ pick' = pick
    BY <1>5 DEF Taking
  <2> QED
    BY <1>0, <1>5, <2>1, <2>2, <2>3, <2>4, <2>5 DEF TypeInv, TypeOK, LoopInv
<1>6. CASE Propose
  <2>1. at \in DOMAIN Steps /\ Here \in Step
    BY <1>0, <1>6, Taken DEF Propose, Taking, PathEnded
  <2>2. Untrusted(Bind(call, pick, Here.out)) \in Slot
    BY <1>0, <2>1, BindType DEF TypeOK, Untrusted, Slot, Step, Class
  <2>3. slots' \in [Names -> Slot]
    BY <1>0, <1>6, <2>2 DEF Propose, TypeOK
  <2>4. "allow" \in Verdict
    BY DEF Verdict
  <2> QED
    BY <1>6, <2>3, <2>4, <1>5 DEF Propose, loopVars
<1>7. CASE Sink
  <2>1. SinkVerdict \in Verdict
    BY DEF SinkVerdict, Verdict
  <2> QED
    BY <1>0, <1>7, <2>1, <1>5 DEF Sink, loopVars, TypeOK
<1>8. CASE GatePasses
  <2>1. "allow" \in Verdict
    BY DEF Verdict
  <2> QED
    BY <1>0, <1>8, <2>1, <1>5 DEF GatePasses, loopVars, TypeOK
<1>9. CASE GateFails
  <2>1. "escalate" \in Verdict /\ "deny" \in Verdict
    BY DEF Verdict
  <2> QED
    BY <1>0, <1>9, <2>1, <1>5 DEF GateFails, loopVars, TypeOK
<1>10. CASE Branch
  BY <1>0, <1>10, <1>5 DEF Branch, loopVars, TypeOK
<1>11. CASE Exit
  <2>1. "allow" \in Verdict
    BY DEF Verdict
  <2> QED
    BY <1>0, <1>11, <2>1, <1>5 DEF Exit, loopVars, TypeOK
<1>12. CASE RefuseForeach
  <2>1. ForeachTrouble \in {"nested", "severed", "list", "cap", "edge"}
    BY <1>12 DEF RefuseForeach, ForeachTrouble
  <2> QED
    BY <1>0, <1>12, <2>1, <1>5 DEF RefuseForeach, loopVars, TypeOK
<1>13. CASE Foreach
  <2>1. /\ at \in DOMAIN Steps /\ Here \in Step /\ at \in 1 .. Len(Steps)
        /\ Steps' = Steps /\ recipe' = recipe /\ call' = call
        /\ phase' = phase /\ todo' = todo /\ total' = total /\ pick' = pick
        /\ visits' = visits \cup {Visit}
    BY <1>0, <1>13, Taken DEF Foreach, Taking, PathEnded, callVars, Steps
  <2>2. CanHop(Steps, at, Here.goto) /\ Subject.value \in DOMAIN Elements
    BY <1>13 DEF Foreach, ForeachTrouble
  <2>3. Elements[Subject.value] \in Seq(Values) /\ items' \in Seq(Values)
    BY <1>13, <2>2, KernelAssumption DEF Foreach
  <2>4. Landing(at, Here.goto) \in 0 .. Len(Steps) + 1
    <3>1. Here.goto \in Nat
      BY <2>1 DEF Step
    <3>2. Landing(at, Here.goto) \in at + 1 .. Len(Steps) + 1
      BY <1>a, <2>1, <2>2, <3>1, HopForward
    <3> QED
      BY <1>a, <2>1, <3>2
  <2>5. at' \in 0 .. Len(Steps) + 1 /\ slots' \in [Names -> Slot]
    <3>1. CASE items' = <<>>
      BY <1>0, <1>a, <1>13, <3>1 DEF Foreach, TypeOK
    <3>2. CASE items' # <<>>
      <4>1. items'[1] \in Values
        BY <2>3, <3>2
      <4>2. Untrusted(items'[1]) \in Slot
        BY <4>1 DEF Untrusted, Slot, Class
      <4> QED
        BY <1>0, <1>13, <2>4, <3>2, <4>2 DEF Foreach, TypeOK
    <3> QED
      BY <3>1, <3>2
  <2>6. visits' \subseteq [pick : Picks(call), loop : 0 .. Len(Steps), elem : Nat,
                           step : DOMAIN Steps, slot : Slot]
    BY <1>0, <2>1, Taken DEF TypeOK
  <2>7. LoopInv'
    BY <1>13, <2>1, <2>2 DEF Foreach, LoopInv, Here
  <2>8. TypeOK'
    BY <1>0, <1>13, <2>1, <2>3, <2>5, <2>6 DEF Foreach, TypeOK
  <2> QED
    BY <2>7, <2>8 DEF TypeInv
<1>14. CASE NextElement
  <2>1. /\ loop # 0 /\ elem + 1 < Len(items) /\ loop \in DOMAIN Steps
        /\ Steps[loop] \in Step /\ CanHop(Steps, loop, Steps[loop].goto)
    BY <1>0, <1>a, <1>14 DEF NextElement, MoreElements, LoopInv, TypeOK
  <2>2. Landing(loop, Steps[loop].goto) \in 0 .. Len(Steps) + 1
    <3>1. Steps[loop].goto \in Nat
      BY <2>1 DEF Step
    <3>2. Landing(loop, Steps[loop].goto) \in loop + 1 .. Len(Steps) + 1
      BY <1>a, <2>1, <3>1, HopForward
    <3> QED
      BY <1>0, <1>a, <2>1, <3>2
  <2>3. items[elem + 2] \in Values
    BY <1>0, <2>1 DEF TypeOK
  <2>4. Untrusted(items[elem + 2]) \in Slot
    BY <2>3 DEF Untrusted, Slot, Class
  <2>5. slots' \in [Names -> Slot] /\ elem' \in Nat
    <3>1. elem \in Nat /\ slots \in [Names -> Slot]
      BY <1>0 DEF TypeOK
    <3>2. elem' = elem + 1
      BY <1>14 DEF NextElement
    <3>3. slots' = [slots EXCEPT ![Steps[loop].out] = Untrusted(items[elem + 2])]
      BY <1>14 DEF NextElement
    <3> QED
      BY <2>4, <3>1, <3>2, <3>3, Updated
  <2>6. Steps' = Steps /\ recipe' = recipe /\ call' = call
    BY <1>14 DEF NextElement, callVars, Steps
  <2> QED
    BY <1>0, <1>14, <2>1, <2>2, <2>5, <2>6 DEF NextElement, TypeInv, TypeOK, LoopInv
<1> QED
  BY <1>1, <1>2, <1>3, <1>4, <1>6, <1>7, <1>8, <1>9, <1>10, <1>11, <1>12, <1>13, <1>14 DEF Next

\* Every variable keeps its type.
THEOREM TypeCorrect == Spec => []TypeOK
<1>1. Spec => []TypeInv
  BY InitTypeInv, NextTypeInv, PTL DEF Spec
<1>2. TypeInv => TypeOK
  BY DEF TypeInv
<1> QED
  BY <1>1, <1>2, PTL

-----------------------------------------------------------------------------
(* What the steps of a walk have in common.                                *)

StepTaken ==
  \/ Propose \/ Sink \/ GatePasses \/ GateFails \/ Branch \/ Exit
  \/ RefuseForeach \/ Foreach

\* The path ends, or goes on along an edge of the step.
Hops ==
  \/ at' = 0
  \/ CanHop(Steps, at, Here.goto) /\ at' = Landing(at, Here.goto)
  \/ at' \in Targets(Here) /\ Edge(Steps, at, at')

LEMMA BranchEdge ==
  ASSUME TypeOK, at \in DOMAIN Steps, Edge(Steps, at, BranchTarget)
  PROVE  BranchTarget \in Targets(Here)
<1> DEFINE hits  == {k \in DOMAIN Here.cases : Releases(Here.cases[k].rule, Subject.value)}
           first == {k \in hits : \A j \in hits : k <= j}
<1>1. CASE first = {}
  <2>1. BranchTarget = Here.goto
    BY <1>1 DEF BranchTarget
  <2>2. Here.goto # 0
    BY <2>1, Taken DEF Edge
  <2> QED
    BY <2>1, <2>2 DEF Targets
<1>2. CASE first # {}
  <2>1. (CHOOSE k \in first : TRUE) \in DOMAIN Here.cases
    BY <1>2
  <2>2. BranchTarget = Here.cases[CHOOSE k \in first : TRUE].goto
    BY <1>2 DEF BranchTarget
  <2> QED
    BY <2>1, <2>2 DEF Targets
<1> QED
  BY <1>1, <1>2

LEMMA StepFacts ==
  ASSUME TypeInv, StepTaken
  PROVE  /\ phase = "walk" /\ at \in DOMAIN Steps
         /\ recipe' = recipe /\ call' = call /\ Steps' = Steps
         /\ phase' = phase /\ todo' = todo /\ total' = total /\ pick' = pick
         /\ visits' = visits \cup {Visit}
         /\ elem' = elem
         /\ loop' = loop \/ (Foreach /\ loop = 0 /\ loop' = at)
         /\ events' = events \/ (Sink /\ events' = Append(events, Event))
         /\ Hops
<1>1. /\ phase = "walk" /\ at \in DOMAIN Steps
      /\ recipe' = recipe /\ call' = call /\ Steps' = Steps
      /\ phase' = phase /\ todo' = todo /\ total' = total /\ pick' = pick
      /\ visits' = visits \cup {Visit}
  BY DEF StepTaken, Propose, Sink, GatePasses, GateFails, Branch, Exit, RefuseForeach, Foreach,
         Taking, PathEnded, callVars, Steps
<1>2. CASE Foreach
  <2>1. loop = 0 /\ CanHop(Steps, at, Here.goto)
    BY <1>2 DEF Foreach, ForeachTrouble
  <2>2. Hops
    BY <1>2, <2>1 DEF Foreach, Hops
  <2> QED
    BY <1>1, <1>2, <2>1, <2>2 DEF Foreach, TypeInv, LoopInv
<1>3. CASE Branch
  <2>1. Hops
    BY <1>1, <1>3, BranchEdge DEF Branch, Fault, Hops, TypeInv
  <2> QED
    BY <1>1, <1>3, <2>1 DEF Branch, loopVars
<1>4. CASE Sink
  <2>1. Hops
    BY <1>4 DEF Sink, Follow, Fault, Hops
  <2> QED
    BY <1>1, <1>4, <2>1 DEF Sink, loopVars
<1>5. CASE Propose \/ GatePasses \/ GateFails \/ Exit \/ RefuseForeach
  <2>1. Hops
    BY <1>5 DEF Propose, GatePasses, GateFails, Exit, RefuseForeach, Follow, Halt, Fault, Hops
  <2> QED
    BY <1>1, <1>5, <2>1 DEF Propose, GatePasses, GateFails, Exit, RefuseForeach, loopVars
<1> QED
  BY <1>2, <1>3, <1>4, <1>5 DEF StepTaken

\* A path goes forward.
LEMMA HopsForward ==
  ASSUME TypeInv, at \in DOMAIN Steps, Hops
  PROVE  at' = 0 \/ at' \in at + 1 .. Len(Steps) + 1
<1>1. /\ Steps \in Seq(Step) /\ Len(Steps) \in Nat /\ at \in 1 .. Len(Steps)
      /\ Here.goto \in Nat
  BY Taken DEF TypeInv, Step
<1>2. CASE CanHop(Steps, at, Here.goto) /\ at' = Landing(at, Here.goto)
  BY <1>1, <1>2, HopForward
<1>3. CASE Edge(Steps, at, at')
  BY <1>1, <1>3 DEF Edge
<1> QED
  BY <1>2, <1>3 DEF Hops

\* The actions that do not take a step.
LEMMA NextCases ==
  ASSUME [Next]_vars
  PROVE  \/ StepTaken \/ NextElement \/ EndWalk \/ RefuseTooMany
         \/ (\E p \in todo : Begin(p)) \/ UNCHANGED vars
  BY DEF Next, StepTaken

-----------------------------------------------------------------------------
(* Orderings.                                                              *)

\* A bound on the orderings this walk has used.
NextOrdinal == IF at \in DOMAIN Steps THEN Ordering(elem, at) ELSE (elem + 1) * Len(Steps)

EventsInv ==
  /\ \A i \in DOMAIN events :
       /\ events[i].pick \in todo => phase = "walk" /\ events[i].pick = pick
       /\ phase = "walk" /\ events[i].pick = pick => events[i].ordering < NextOrdinal
  /\ OrderingsDistinct

\* A step moves the bound past the ordering of its own crossing.
LEMMA BoundGrows ==
  ASSUME TypeInv, StepTaken
  PROVE  /\ NextOrdinal \in Nat /\ NextOrdinal = Ordering(elem, at)
         /\ NextOrdinal' \in Nat /\ NextOrdinal < NextOrdinal'
<1>1. /\ at \in 1 .. Len(Steps) /\ Len(Steps) \in Nat /\ elem \in Nat
      /\ at \in DOMAIN Steps /\ DOMAIN Steps = 1 .. Len(Steps)
      /\ Steps' = Steps /\ elem' = elem
  BY StepFacts, Taken DEF TypeInv, TypeOK
<1>2. at' = 0 \/ at' \in at + 1 .. Len(Steps) + 1
  BY StepFacts, HopsForward
<1>3. NextOrdinal = elem * Len(Steps) + (at - 1) /\ elem * Len(Steps) \in Nat
  BY <1>1, OrderingType DEF NextOrdinal
<1>4. CASE at' \in DOMAIN Steps
  <2>1. NextOrdinal' = elem * Len(Steps) + (at' - 1)
    BY <1>1, <1>4 DEF NextOrdinal, Ordering
  <2>2. at < at'
    BY <1>1, <1>2, <1>4
  <2> QED
    BY <1>1, <1>3, <1>4, <2>1, <2>2 DEF NextOrdinal
<1>5. CASE at' \notin DOMAIN Steps
  <2>1. NextOrdinal' = (elem + 1) * Len(Steps)
    BY <1>1, <1>5 DEF NextOrdinal
  <2>2. (elem + 1) * Len(Steps) = elem * Len(Steps) + Len(Steps)
    BY <1>1, Product
  <2> QED
    BY <1>1, <1>3, <2>1, <2>2 DEF NextOrdinal
<1> QED
  BY <1>4, <1>5

LEMMA NextEventsInv == TypeInv /\ EventsInv /\ [Next]_vars => EventsInv'
<1> SUFFICES ASSUME TypeInv, EventsInv, [Next]_vars
             PROVE  EventsInv'
  OBVIOUS
<1>0. /\ events \in Seq([pick : Picks(call), step : DOMAIN Steps, class : Class, ordering : Nat])
      /\ Len(Steps) \in Nat /\ elem \in Nat /\ loop \in 0 .. Len(Steps)
      /\ DOMAIN Steps = 1 .. Len(Steps) /\ Steps \in Seq(Step)
  BY DEF TypeInv, TypeOK, Recipe, Steps
<1>1. ASSUME NEW i \in DOMAIN events
      PROVE  /\ events[i].pick \in todo => phase = "walk" /\ events[i].pick = pick
             /\ phase = "walk" /\ events[i].pick = pick => events[i].ordering < NextOrdinal
             /\ events[i].ordering \in Nat
  <2>1. events[i] \in [pick : Picks(call), step : DOMAIN Steps, class : Class, ordering : Nat]
    BY <1>0, ElementOf
  <2> QED
    BY <2>1 DEF EventsInv
<1>2. CASE StepTaken
  <2>1. /\ phase = "walk" /\ phase' = phase /\ todo' = todo /\ pick' = pick
        /\ at \in DOMAIN Steps /\ Steps' = Steps /\ elem' = elem
    BY <1>2, StepFacts
  <2>2. /\ NextOrdinal \in Nat /\ NextOrdinal = Ordering(elem, at)
        /\ NextOrdinal' \in Nat /\ NextOrdinal < NextOrdinal'
    BY <1>2, BoundGrows
  <2>3. CASE events' = events
    <3>1. ASSUME NEW i \in DOMAIN events', events'[i].pick = pick'
          PROVE  events'[i].ordering < NextOrdinal'
      BY <1>1, <2>1, <2>2, <2>3, <3>1
    <3> QED
      BY <1>1, <2>1, <2>3, <3>1 DEF EventsInv, OrderingsDistinct
  <2>4. CASE events' = Append(events, Event)
    <3>1. /\ Len(events) \in Nat /\ DOMAIN events' = 1 .. Len(events) + 1
          /\ DOMAIN events = 1 .. Len(events)
          /\ events'[Len(events) + 1] = Event
          /\ \A i \in DOMAIN events : events'[i] = events[i]
      BY <1>0, <2>4
    <3>2. Event.pick = pick /\ Event.ordering = NextOrdinal
      BY <2>2 DEF Event
    <3>3. ASSUME NEW i \in DOMAIN events'
          PROVE  /\ events'[i].pick \in todo' => phase' = "walk" /\ events'[i].pick = pick'
                 /\ events'[i].pick = pick' => events'[i].ordering < NextOrdinal'
      <4>1. CASE i = Len(events) + 1
        BY <2>1, <2>2, <3>1, <3>2, <4>1
      <4>2. CASE i \in DOMAIN events
        BY <1>1, <2>1, <2>2, <3>1, <4>2
      <4> QED
        BY <3>1, <4>1, <4>2
    <3>4. ASSUME NEW i \in DOMAIN events', NEW j \in DOMAIN events', i # j,
                 events'[i].pick = events'[j].pick
          PROVE  events'[i].ordering # events'[j].ordering
      <4>1. CASE i \in DOMAIN events /\ j \in DOMAIN events
        BY <3>1, <3>4, <4>1 DEF EventsInv, OrderingsDistinct
      <4>2. CASE i = Len(events) + 1 /\ j \in DOMAIN events
        BY <1>1, <2>1, <2>2, <3>1, <3>2, <3>4, <4>2
      <4>3. CASE j = Len(events) + 1 /\ i \in DOMAIN events
        BY <1>1, <2>1, <2>2, <3>1, <3>2, <3>4, <4>3
      <4> QED
        BY <3>1, <3>4, <4>1, <4>2, <4>3
    <3> QED
      BY <3>3, <3>4 DEF EventsInv, OrderingsDistinct
  <2> QED
    BY <1>2, <2>3, <2>4, StepFacts
<1>3. CASE NextElement
  <2>1. /\ phase = "walk" /\ phase' = phase /\ todo' = todo /\ pick' = pick /\ events' = events
        /\ at \notin DOMAIN Steps /\ Steps' = Steps /\ elem' = elem + 1
        /\ loop \in 1 .. Len(Steps) /\ at' = Landing(loop, Steps[loop].goto)
    BY <1>0, <1>3 DEF NextElement, PathEnded, MoreElements, callVars, Steps
  <2>2. at' \in 1 .. Len(Steps) + 1
    <3>1. CanHop(Steps, loop, Steps[loop].goto)
      BY <2>1 DEF TypeInv, LoopInv
    <3>2. Steps[loop].goto \in Nat
      <4>1. Steps[loop] \in Step
        BY <1>0, <2>1, ElementOf
      <4> QED
        BY <4>1 DEF Step
    <3>3. Landing(loop, Steps[loop].goto) \in loop + 1 .. Len(Steps) + 1
      BY <1>0, <2>1, <3>1, <3>2, HopForward
    <3> QED
      BY <1>0, <2>1, <3>3
  <2>3. NextOrdinal = (elem + 1) * Len(Steps) /\ NextOrdinal \in Nat
    BY <1>0, <2>1, Product DEF NextOrdinal
  <2>4. NextOrdinal' \in Nat /\ NextOrdinal <= NextOrdinal'
    <3>1. CASE at' \in DOMAIN Steps
      <4>1. NextOrdinal' = (elem + 1) * Len(Steps) + (at' - 1)
        BY <2>1, <3>1 DEF NextOrdinal, Ordering
      <4> QED
        BY <1>0, <2>2, <2>3, <4>1
    <3>2. CASE at' \notin DOMAIN Steps
      <4>1. NextOrdinal' = (elem + 1 + 1) * Len(Steps)
        BY <2>1, <3>2 DEF NextOrdinal
      <4>2. (elem + 1 + 1) * Len(Steps) = (elem + 1) * Len(Steps) + Len(Steps)
        BY <1>0, Product
      <4> QED
        BY <1>0, <2>3, <4>1, <4>2
    <3> QED
      BY <3>1, <3>2
  <2>5. ASSUME NEW i \in DOMAIN events', events'[i].pick = pick'
        PROVE  events'[i].ordering < NextOrdinal'
    BY <1>1, <2>1, <2>3, <2>4, <2>5
  <2> QED
    BY <1>1, <2>1, <2>5 DEF EventsInv, OrderingsDistinct
<1>4. CASE EndWalk
  BY <1>1, <1>4 DEF EndWalk, EventsInv, OrderingsDistinct
<1>5. CASE RefuseTooMany
  BY <1>1, <1>5 DEF RefuseTooMany, EventsInv, OrderingsDistinct
<1>6. CASE \E p \in todo : Begin(p)
  BY <1>1, <1>6 DEF Begin, EventsInv, OrderingsDistinct
<1>7. CASE UNCHANGED vars
  BY <1>1, <1>7 DEF vars, callVars, walkVars, loopVars, EventsInv, OrderingsDistinct, NextOrdinal,
                    Ordering, Steps
<1> QED
  BY <1>2, <1>3, <1>4, <1>5, <1>6, <1>7, NextCases

\* The releases of one walk have distinct orderings.
THEOREM OrderingsAreDistinct == Spec => []OrderingsDistinct
<1>1. Init => EventsInv
  BY DEF Init, EventsInv, OrderingsDistinct
<1>2. EventsInv => OrderingsDistinct
  BY DEF EventsInv
<1> QED
  BY <1>1, <1>2, InitTypeInv, NextTypeInv, NextEventsInv, PTL DEF Spec

-----------------------------------------------------------------------------
(* Guarded segments.                                                       *)

\* A hop into the segment of a gate starts at the gate or in its segment.
LEMMA HopGuard ==
  ASSUME TypeInv, Linted(recipe), at \in DOMAIN Steps, NEW t \in DOMAIN Steps,
         \/ CanHop(Steps, at, Here.goto) /\ t = Landing(at, Here.goto)
         \/ t \in Targets(Here),
         NEW g \in Gates(Steps), t \in Segment(Steps, g)
  PROVE  at = g \/ (at \in Segment(Steps, g) /\ Here.kind # "gate")
<1>1. /\ Steps \in Seq(Step) /\ at \in 1 .. Len(Steps) /\ Len(Steps) \in Nat
      /\ Here.goto \in Nat /\ g \in 1 .. Len(Steps)
  <2>1. /\ Steps \in Seq(Step) /\ at \in 1 .. Len(Steps) /\ Len(Steps) \in Nat
        /\ Here \in Step
    BY Taken DEF TypeInv
  <2>2. Here.goto \in Nat
    BY <2>1 DEF Step
  <2>3. g \in 1 .. Len(Steps)
    BY <2>1 DEF Gates
  <2> QED
    BY <2>1, <2>2, <2>3
<1>2. t \notin Targets(Here)
  BY DEF Linted, GuardsHold, Here, Steps
<1>3. Here.goto = 0 /\ t = at + 1
  BY <1>2 DEF Targets, Landing
<1>4. CASE at # g
  <2>1. at \in g + 1 .. Len(Steps)
    BY <1>1, <1>3, <1>4 DEF Segment
  <2>2. \A k \in g + 1 .. at : ~EndsSegment(Steps[k])
    BY <1>1, <1>3 DEF Segment
  <2>3. ~EndsSegment(Here)
    BY <1>1, <2>1, <2>2 DEF Here
  <2> QED
    BY <1>1, <2>1, <2>2, <2>3 DEF Segment, EndsSegment
<1> QED
  BY <1>4

\* Gate g was passed by step w of this walk.
PassedBy(w, g) ==
  w.pick = pick /\ w.step = g /\ Present(w.slot) /\ Releases(Steps[g].rule, w.slot.value)

Body == Landing(loop, Steps[loop].goto)

\* The gates that guard where the walk is, and where a foreach begins each
\* element, were passed on this path.
GuardInv ==
  /\ \A v \in visits : v.pick \in todo => phase = "walk" /\ v.pick = pick
  /\ phase = "walk" /\ loop = 0 => \A v \in visits : v.pick = pick => v.loop = 0
  /\ Linted(recipe) /\ phase = "walk" =>
       \A g \in Gates(Steps) :
         /\ at \in Segment(Steps, g) =>
              \E w \in visits : PassedBy(w, g) /\ (w.loop = 0 \/ w.elem = elem)
         /\ loop # 0 /\ Body \in Segment(Steps, g) => \E w \in visits : PassedBy(w, g) /\ w.loop = 0
  /\ GuardedThroughGate

\* The gate guarding the place where a step leads was passed on the path.
LEMMA StepGuard ==
  ASSUME TypeInv, GuardInv, StepTaken, Linted(recipe), NEW g \in Gates(Steps),
         NEW t \in Segment(Steps, g),
         \/ CanHop(Steps, at, Here.goto) /\ t = Landing(at, Here.goto)
         \/ t \in Targets(Here),
         at = g => GatePasses
  PROVE  \E w \in visits' : PassedBy(w, g) /\ (w.loop = 0 \/ w.elem = elem)
<1>1. /\ phase = "walk" /\ at \in DOMAIN Steps /\ visits' = visits \cup {Visit}
      /\ t \in DOMAIN Steps
  <2>1. /\ phase = "walk" /\ at \in DOMAIN Steps /\ visits' = visits \cup {Visit}
    BY StepFacts
  <2>2. Steps \in Seq(Step)
    BY <2>1, Taken DEF TypeInv
  <2>3. g \in 1 .. Len(Steps)
    BY <2>2 DEF Gates
  <2> QED
    BY <2>1, <2>2, <2>3 DEF Segment
<1>2. CASE at = g
  <2>1. Released
    BY <1>2 DEF GatePasses
  <2>2. PassedBy(Visit, g) /\ Visit.elem = elem
    BY <1>2, <2>1 DEF PassedBy, Visit, Released, Here
  <2> QED
    BY <1>1, <2>2
<1>3. CASE at # g
  <2>1. at \in Segment(Steps, g)
    BY <1>1, <1>3, HopGuard
  <2> QED
    BY <1>1, <2>1 DEF GuardInv
<1> QED
  BY <1>2, <1>3

LEMMA StepGuardInv == TypeInv /\ GuardInv /\ StepTaken => GuardInv'
<1> SUFFICES ASSUME TypeInv, GuardInv, StepTaken
             PROVE  GuardInv'
  OBVIOUS
<1>1. /\ phase = "walk" /\ at \in DOMAIN Steps
      /\ recipe' = recipe /\ call' = call /\ Steps' = Steps
      /\ phase' = phase /\ todo' = todo /\ total' = total /\ pick' = pick
      /\ visits' = visits \cup {Visit}
      /\ elem' = elem
      /\ loop' = loop \/ (Foreach /\ loop = 0 /\ loop' = at)
      /\ Hops
  BY StepFacts
<1>2. Visit.pick = pick /\ Visit.loop = loop /\ Visit.elem = elem /\ Visit.step = at
  BY DEF Visit
<1>3. \A v \in visits' : v.pick \in todo' => phase' = "walk" /\ v.pick = pick'
  BY <1>1, <1>2 DEF GuardInv
<1>4. loop' = 0 => \A v \in visits' : v.pick = pick' => v.loop = 0
  <2>1. loop' = 0 => loop = 0
    BY <1>1 DEF TypeInv, TypeOK
  <2> QED
    BY <1>1, <1>2, <2>1 DEF GuardInv
<1>5. GuardedThroughGate'
  <2> SUFFICES ASSUME Linted(recipe), NEW v \in visits', NEW g \in Gates(Steps),
                      v.step \in Segment(Steps, g)
               PROVE  \E w \in visits' : /\ OnPathTo(w, v) /\ w.step = g
                                         /\ Present(w.slot) /\ Releases(Steps[g].rule, w.slot.value)
    BY <1>1 DEF GuardedThroughGate, OnPathTo
  <2>1. CASE v \in visits
    BY <1>1, <2>1 DEF GuardInv, GuardedThroughGate
  <2>2. CASE v = Visit
    <3>1. PICK w \in visits : PassedBy(w, g) /\ (w.loop = 0 \/ w.elem = elem)
      BY <1>1, <1>2, <2>2 DEF GuardInv
    <3> QED
      BY <1>1, <1>2, <2>2, <3>1 DEF PassedBy, OnPathTo
  <2> QED
    BY <1>1, <2>1, <2>2
<1>6. ASSUME Linted(recipe), NEW g \in Gates(Steps), at' \in Segment(Steps, g)
      PROVE  \E w \in visits' : PassedBy(w, g) /\ (w.loop = 0 \/ w.elem = elem)
  <2>1. at' # 0
    BY <1>6 DEF Segment, Gates
  <2>2. \/ CanHop(Steps, at, Here.goto) /\ at' = Landing(at, Here.goto)
        \/ at' \in Targets(Here)
    BY <1>1, <2>1 DEF Hops
  <2>3. at = g => GatePasses
    BY <2>1 DEF StepTaken, Propose, Sink, GateFails, Branch, Exit, RefuseForeach, Foreach, Taking,
                Here, Gates, Halt
  <2> QED
    BY <1>6, <2>2, <2>3, StepGuard
<1>7. ASSUME Linted(recipe), NEW g \in Gates(Steps), loop' # 0, Body' \in Segment(Steps, g)
      PROVE  \E w \in visits' : PassedBy(w, g) /\ w.loop = 0
  <2>1. CASE loop' = loop
    <3>1. Body' = Body
      BY <1>1, <2>1 DEF Body
    <3> QED
      BY <1>1, <1>7, <2>1, <3>1 DEF GuardInv
  <2>2. CASE Foreach /\ loop = 0 /\ loop' = at
    <3>1. Body' = Landing(at, Here.goto) /\ CanHop(Steps, at, Here.goto)
      BY <1>1, <2>2 DEF Body, Here, Foreach, ForeachTrouble
    <3>2. at # g
      BY <2>2 DEF Foreach, Taking, Here, Gates
    <3>3. Body' \in DOMAIN Steps
      <4>1. Steps \in Seq(Step)
        BY <1>1, Taken DEF TypeInv
      <4>2. g \in 1 .. Len(Steps)
        BY <4>1 DEF Gates
      <4> QED
        BY <1>7, <4>1, <4>2 DEF Segment
    <3>4. at \in Segment(Steps, g)
      BY <1>1, <1>7, <3>1, <3>2, <3>3, HopGuard
    <3>5. PICK w \in visits : PassedBy(w, g)
      BY <1>1, <1>7, <3>4 DEF GuardInv
    <3>6. w.loop = 0
      BY <1>1, <2>2, <3>5 DEF GuardInv, PassedBy
    <3> QED
      BY <1>1, <3>5, <3>6
  <2> QED
    BY <1>1, <2>1, <2>2
<1> QED
  BY <1>1, <1>3, <1>4, <1>5, <1>6, <1>7 DEF GuardInv, PassedBy

LEMMA NextGuardInv == TypeInv /\ GuardInv /\ [Next]_vars => GuardInv'
<1> SUFFICES ASSUME TypeInv, GuardInv, [Next]_vars
             PROVE  GuardInv'
  OBVIOUS
<1>1. CASE StepTaken
  BY <1>1, StepGuardInv
<1>2. CASE NextElement
  <2>1. /\ phase = "walk" /\ loop # 0 /\ loop' = loop /\ Steps' = Steps /\ recipe' = recipe
        /\ phase' = phase /\ todo' = todo /\ pick' = pick /\ visits' = visits
        /\ at' = Landing(loop, Steps[loop].goto)
    BY <1>2 DEF NextElement, MoreElements, callVars, Steps
  <2>2. at' = Body /\ Body' = Body
    BY <2>1 DEF Body
  <2>3. GuardedThroughGate'
    BY <2>1 DEF GuardInv, GuardedThroughGate, OnPathTo
  <2>4. ASSUME Linted(recipe), NEW g \in Gates(Steps), Body \in Segment(Steps, g)
        PROVE  \E w \in visits : PassedBy(w, g) /\ w.loop = 0
    BY <2>1, <2>4 DEF GuardInv
  <2>5. \A w, g : PassedBy(w, g)' = PassedBy(w, g)
    BY <2>1 DEF PassedBy
  <2>6. /\ \A v \in visits' : v.pick \in todo' => phase' = "walk" /\ v.pick = pick'
        /\ loop' # 0
    BY <2>1 DEF GuardInv
  <2>7. Linted(recipe') => \A g \in Gates(Steps') :
          /\ at' \in Segment(Steps', g) =>
               \E w \in visits' : PassedBy(w, g)' /\ (w.loop = 0 \/ w.elem = elem')
          /\ Body' \in Segment(Steps', g) => \E w \in visits' : PassedBy(w, g)' /\ w.loop = 0
    BY <2>1, <2>2, <2>4, <2>5
  <2> QED
    BY <2>3, <2>6, <2>7 DEF GuardInv
<1>3. CASE EndWalk
  <2>1. GuardedThroughGate'
    BY <1>3 DEF EndWalk, callVars, GuardInv, GuardedThroughGate, OnPathTo, Steps
  <2> QED
    BY <1>3, <2>1 DEF EndWalk, GuardInv
<1>4. CASE RefuseTooMany
  <2>1. GuardedThroughGate'
    BY <1>4 DEF RefuseTooMany, callVars, GuardInv, GuardedThroughGate, OnPathTo, Steps
  <2> QED
    BY <1>4, <2>1 DEF RefuseTooMany, GuardInv
<1>5. ASSUME NEW p \in todo, Begin(p)
      PROVE  GuardInv'
  <2>1. GuardedThroughGate'
    BY <1>5 DEF Begin, callVars, GuardInv, GuardedThroughGate, OnPathTo, Steps
  <2>2. \A v \in visits : v.pick # p /\ v.pick \notin todo
    BY <1>5 DEF Begin, GuardInv
  <2>3. \A g \in Gates(Steps) : 1 \notin Segment(Steps, g)
    <3>1. Steps \in Seq(Step)
      BY DEF TypeInv, TypeOK, Recipe, Steps
    <3> QED
      BY <3>1 DEF Gates, Segment
  <2> QED
    BY <1>5, <2>1, <2>2, <2>3 DEF Begin, callVars, GuardInv, Steps
<1>6. CASE UNCHANGED vars
  BY <1>6 DEF vars, callVars, walkVars, loopVars, GuardInv, GuardedThroughGate, OnPathTo, PassedBy,
              Body, Steps
<1> QED
  BY <1>1, <1>2, <1>3, <1>4, <1>5, <1>6, NextCases

\* In a linted recipe, a step behind a gate is taken only on a path that
\* passed the gate.
THEOREM GuardsAreEffective == Spec => []GuardedThroughGate
<1>1. Init => GuardInv
  BY DEF Init, GuardInv, GuardedThroughGate
<1>2. GuardInv => GuardedThroughGate
  BY DEF GuardInv
<1> QED
  BY <1>1, <1>2, InitTypeInv, NextTypeInv, NextGuardInv, PTL DEF Spec

-----------------------------------------------------------------------------
(* Verdicts.                                                               *)

Overall == IF phase = "walk" THEN And(total, verdict) ELSE total

Honest(v) ==
  /\ FailsGate(v) => Present(v.slot) /\ Steps[v.step].escalate
  /\ Crosses(v) => ReleasedAt(v)

\* What the steps taken so far say about the verdict so far.
VerdictInv ==
  /\ Overall # "deny" => fault = "none" /\ \A v \in visits : Honest(v)
  /\ Overall = "allow" => \A v \in visits : ~FailsGate(v)
  /\ Overall = "escalate" => \E v \in visits : FailsGate(v)

\* Every combination is still to be walked or has left its first step.
PickInv ==
  /\ \A p \in Picks(call) : p \in todo \/ \E v \in visits : v.pick = p
  /\ phase = "walk" => at = 1 \/ \E v \in visits : v.pick = pick
  /\ phase = "decided" => todo = {} \/ total = "deny"

LEMMA AndFacts ==
  ASSUME NEW a \in Verdict, NEW b \in Verdict
  PROVE  /\ And(a, b) = "deny" <=> a = "deny" \/ b = "deny"
         /\ And(a, b) = "allow" <=> a = "allow" /\ b = "allow"
         /\ And(a, b) = "escalate" <=> /\ a # "deny" /\ b # "deny"
                                       /\ a = "escalate" \/ b = "escalate"
         /\ And(a, "allow") = a
  BY DEF And, Verdict, Rank

LEMMA AndIsAssociative ==
  ASSUME NEW a \in Verdict, NEW b \in Verdict, NEW c \in Verdict
  PROVE  And(a, b) \in Verdict /\ And(a, And(b, c)) = And(And(a, b), c)
  BY DEF And, Verdict, Rank

\* A release that is recorded stays recorded.
LEMMA ReleaseStays ==
  ASSUME TypeInv, Steps' = Steps, NEW v, ReleasedAt(v),
         events' = events \/ events' = Append(events, Event)
  PROVE  ReleasedAt(v)'
<1>1. events \in Seq([pick : Picks(call), step : DOMAIN Steps, class : Class, ordering : Nat])
  BY DEF TypeInv, TypeOK
<1>2. \A i \in DOMAIN events : i \in DOMAIN events' /\ events'[i] = events[i]
  BY <1>1
<1> QED
  BY <1>2 DEF ReleasedAt, Ordering

\* The visits and the steps they are about do not change.
LEMMA SameVisits ==
  ASSUME Steps' = Steps
  PROVE  \A v : (FailsGate(v)' <=> FailsGate(v)) /\ (Crosses(v)' <=> Crosses(v))
  BY DEF FailsGate, Crosses

LEMMA HonestStays ==
  ASSUME TypeInv, Steps' = Steps, NEW v, Honest(v),
         events' = events \/ events' = Append(events, Event)
  PROVE  Honest(v)'
<1>1. Crosses(v) => ReleasedAt(v)'
  BY ReleaseStays DEF Honest
<1> QED
  BY <1>1, SameVisits DEF Honest

\* A step either denies, or adds a verdict w that says what the step saw.
LEMMA StepVerdict ==
  ASSUME TypeInv, StepTaken, NEW v, v = Visit
  PROVE  \/ verdict' = "deny"
         \/ \E w \in Verdict :
              /\ verdict' = And(verdict, w) /\ fault' = fault
              /\ w # "deny" => Honest(v)'
              /\ w = "allow" => ~FailsGate(v)
              /\ w = "escalate" => FailsGate(v)
<1>0. /\ verdict \in Verdict /\ Steps' = Steps /\ at \in DOMAIN Steps
      /\ v.pick = pick /\ v.elem = elem /\ v.step = at /\ v.slot = Subject
      /\ "allow" \in Verdict /\ "escalate" \in Verdict /\ "deny" \in Verdict
      /\ Here = Steps[v.step]
  BY StepFacts DEF TypeInv, TypeOK, Visit, Verdict, Here
<1>1. ASSUME Here.kind \notin {"sink", "gate"}, verdict' = And(verdict, "allow"), fault' = fault
      PROVE  \E w \in Verdict :
               /\ verdict' = And(verdict, w) /\ fault' = fault
               /\ w # "deny" => Honest(v)'
               /\ w = "allow" => ~FailsGate(v)
               /\ w = "escalate" => FailsGate(v)
  <2>1. ~FailsGate(v) /\ ~Crosses(v)
    BY <1>0, <1>1 DEF FailsGate, Crosses
  <2>2. Honest(v)'
    BY <1>0, <2>1, SameVisits DEF Honest
  <2> QED
    BY <1>0, <1>1, <2>1, <2>2
<1>2. CASE Propose \/ Exit
  <2>1. Here.kind \notin {"sink", "gate"}
    BY <1>2 DEF Propose, Exit, Taking
  <2>2. verdict' = "deny" \/ (verdict' = And(verdict, "allow") /\ fault' = fault)
    BY <1>2 DEF Propose, Exit, Follow, Halt, Fault
  <2> QED
    BY <1>1, <2>1, <2>2
<1>3. CASE Branch \/ Foreach \/ RefuseForeach
  <2>1. Here.kind \notin {"sink", "gate"}
    BY <1>3 DEF Branch, Foreach, RefuseForeach, Taking
  <2>2. verdict' = "deny" \/ (verdict' = verdict /\ fault' = fault)
    BY <1>3 DEF Branch, Foreach, RefuseForeach, Fault
  <2>3. And(verdict, "allow") = verdict
    BY <1>0, AndFacts
  <2> QED
    BY <1>1, <2>1, <2>2, <2>3
<1>4. CASE GatePasses
  <2>1. verdict' = "deny" \/ (verdict' = And(verdict, "allow") /\ fault' = fault)
    BY <1>4 DEF GatePasses, Follow, Fault
  <2>2. ~FailsGate(v) /\ ~Crosses(v)
    BY <1>0, <1>4 DEF GatePasses, Taking, Released, FailsGate, Crosses
  <2>3. Honest(v)'
    BY <1>0, <2>2, SameVisits DEF Honest
  <2> QED
    BY <1>0, <2>1, <2>2, <2>3
<1>5. CASE GateFails
  <2>1. FailsGate(v) /\ ~Crosses(v)
    BY <1>0, <1>5 DEF GateFails, Taking, Released, FailsGate, Crosses
  <2>2. CASE Present(Subject) /\ Here.rule # {} /\ Here.escalate
    <3>1. verdict' = And(verdict, "escalate") /\ fault' = fault
      BY <1>5, <2>2 DEF GateFails, Halt
    <3>2. Honest(v)'
      <4>1. Present(v.slot) /\ Steps'[v.step].escalate
        BY <1>0, <2>2
      <4> QED
        BY <1>0, <2>1, <4>1, SameVisits DEF Honest
    <3> QED
      BY <1>0, <2>1, <3>1, <3>2
  <2>3. CASE ~(Present(Subject) /\ Here.rule # {} /\ Here.escalate)
    <3>1. verdict' = And(verdict, "deny")
      BY <1>5, <2>3 DEF GateFails, Halt
    <3> QED
      BY <1>0, <3>1, AndFacts
  <2> QED
    BY <2>2, <2>3
<1>6. CASE Sink
  <2>1. \/ verdict' = "deny"
        \/ verdict' = And(verdict, SinkVerdict) /\ fault' = fault
    BY <1>6 DEF Sink, Follow, Fault
  <2>2. SinkVerdict \in {"allow", "deny"} /\ ~FailsGate(v)
    BY <1>0, <1>6 DEF Sink, Taking, SinkVerdict, FailsGate
  <2>3. ASSUME SinkVerdict = "allow", Crosses(v)
        PROVE  ReleasedAt(v)'
    <3>1. Released /\ Here.authoritative /\ Subject.class # "authoritative"
      BY <1>0, <2>3 DEF Crosses, SinkVerdict
    <3>2. events' = Append(events, Event)
      BY <1>6, <3>1 DEF Sink
    <3>3. /\ Len(events) + 1 \in DOMAIN events'
          /\ events'[Len(events) + 1] = Event
      <4>1. events \in Seq([pick : Picks(call), step : DOMAIN Steps, class : Class, ordering : Nat])
        BY DEF TypeInv, TypeOK
      <4> QED
        BY <3>2, <4>1
    <3>4. /\ Event.pick = v.pick /\ Event.step = v.step /\ Event.class = v.slot.class
          /\ Event.ordering = Ordering(v.elem, v.step)
      BY <1>0 DEF Event
    <3>5. Ordering(v.elem, v.step)' = Ordering(v.elem, v.step)
      BY <1>0 DEF Ordering
    <3>6. Releases(Steps[v.step].rule, v.slot.value)
      BY <1>0, <3>1 DEF Released
    <3> QED
      BY <1>0, <3>3, <3>4, <3>5, <3>6 DEF ReleasedAt
  <2>4. SinkVerdict = "allow" => Honest(v)'
    BY <1>0, <2>2, <2>3, SameVisits DEF Honest
  <2> QED
    BY <1>0, <2>1, <2>2, <2>4
<1> QED
  BY <1>2, <1>3, <1>4, <1>5, <1>6 DEF StepTaken

LEMMA NextVerdictInv == TypeInv /\ VerdictInv /\ [Next]_vars => VerdictInv'
<1> SUFFICES ASSUME TypeInv, VerdictInv, [Next]_vars
             PROVE  VerdictInv'
  OBVIOUS
<1>0. total \in Verdict /\ verdict \in Verdict /\ "allow" \in Verdict
  BY DEF TypeInv, TypeOK, Verdict
<1>1. CASE StepTaken
  <2>1. /\ phase = "walk" /\ phase' = phase /\ total' = total /\ Steps' = Steps
        /\ visits' = visits \cup {Visit}
        /\ events' = events \/ events' = Append(events, Event)
    BY <1>1, StepFacts
  <2>2. Overall = And(total, verdict) /\ Overall' = And(total, verdict')
    BY <2>1 DEF Overall
  <2>3. verdict' \in Verdict
    BY <1>1, NextTypeInv DEF TypeInv, TypeOK
  <2>4. CASE verdict' = "deny"
    <3>1. Overall' = "deny"
      BY <1>0, <2>2, <2>3, <2>4, AndFacts
    <3> QED
      BY <3>1 DEF VerdictInv
  <2>5. CASE verdict' # "deny"
    <3>1. PICK w \in Verdict :
            /\ verdict' = And(verdict, w) /\ fault' = fault
            /\ w # "deny" => \A v : v = Visit => Honest(v)'
            /\ w = "allow" => ~FailsGate(Visit)
            /\ w = "escalate" => FailsGate(Visit)
      BY <1>1, <2>5, StepVerdict
    <3>0. Overall' = And(Overall, w) /\ Overall \in Verdict
      BY <1>0, <2>2, <3>1, AndIsAssociative
    <3>2. Overall' # "deny" => Overall # "deny" /\ w # "deny"
      BY <3>0, AndFacts
    <3>3. Overall' = "allow" => Overall = "allow" /\ w = "allow"
      BY <3>0, AndFacts
    <3>4. Overall' = "escalate" => Overall = "escalate" \/ w = "escalate"
      BY <3>0, AndFacts
    <3>5. Overall' # "deny" => fault' = "none" /\ \A v \in visits' : Honest(v)'
      BY <2>1, <3>1, <3>2, HonestStays DEF VerdictInv
    <3>6. Overall' = "allow" => \A v \in visits' : ~FailsGate(v)'
      BY <2>1, <3>1, <3>3, SameVisits DEF VerdictInv
    <3>7. Overall' = "escalate" => \E v \in visits' : FailsGate(v)'
      BY <2>1, <3>1, <3>4, SameVisits DEF VerdictInv
    <3> QED
      BY <3>5, <3>6, <3>7 DEF VerdictInv
  <2> QED
    BY <2>4, <2>5
<1>2. CASE RefuseTooMany
  <2>1. Overall' = "deny"
    BY <1>2 DEF RefuseTooMany, Overall
  <2> QED
    BY <2>1 DEF VerdictInv
<1>3. ASSUME Overall' = Overall, fault' = fault, visits' = visits, events' = events, Steps' = Steps
      PROVE  VerdictInv'
  <2>1. \A v \in visits : Honest(v) => Honest(v)'
    BY <1>3, HonestStays
  <2> QED
    BY <1>3, <2>1, SameVisits DEF VerdictInv
<1>4. CASE NextElement
  BY <1>3, <1>4 DEF NextElement, Overall, callVars, Steps
<1>5. CASE EndWalk
  BY <1>3, <1>5 DEF EndWalk, Overall, callVars, Steps
<1>6. CASE \E p \in todo : Begin(p)
  <2>1. Overall' = And(total, "allow") /\ Overall = total
    BY <1>6 DEF Begin, Overall
  <2>2. Overall' = Overall
    BY <1>0, <2>1, AndFacts
  <2> QED
    BY <1>3, <1>6, <2>2 DEF Begin, callVars, Steps
<1>7. CASE UNCHANGED vars
  BY <1>3, <1>7 DEF vars, callVars, walkVars, Overall, Steps
<1> QED
  BY <1>1, <1>2, <1>4, <1>5, <1>6, <1>7, NextCases

LEMMA NextPickInv == TypeInv /\ PickInv /\ [Next]_vars => PickInv'
<1> SUFFICES ASSUME TypeInv, PickInv, [Next]_vars
             PROVE  PickInv'
  OBVIOUS
<1>1. CASE StepTaken
  <2>1. Visit.pick = pick
    BY DEF Visit
  <2>2. /\ phase' = "walk" /\ todo' = todo /\ call' = call /\ pick' = pick
        /\ visits' = visits \cup {Visit}
    BY <1>1, StepFacts
  <2> QED
    BY <2>1, <2>2 DEF PickInv
<1>2. CASE NextElement \/ EndWalk
  <2>1. at # 1
    <3>1. Steps \in Seq(Step) /\ Steps # <<>>
      BY DEF TypeInv, TypeOK, Recipe, Steps
    <3> QED
      BY <1>2, <3>1 DEF NextElement, EndWalk, PathEnded
  <2>2. \E v \in visits : v.pick = pick
    BY <1>2, <2>1 DEF NextElement, EndWalk, PickInv
  <2> QED
    BY <1>2, <2>2 DEF NextElement, EndWalk, callVars, PickInv
<1>3. CASE RefuseTooMany
  BY <1>3 DEF RefuseTooMany, callVars, PickInv
<1>4. CASE \E p \in todo : Begin(p)
  BY <1>4 DEF Begin, callVars, PickInv
<1>5. CASE UNCHANGED vars
  BY <1>5 DEF vars, callVars, walkVars, PickInv
<1> QED
  BY <1>1, <1>2, <1>3, <1>4, <1>5, NextCases

VerdictPickInv == TypeInv /\ VerdictInv /\ PickInv

LEMMA VerdictsHold == Spec => []VerdictPickInv
<1>1. Init => VerdictInv /\ PickInv
  BY DEF Init, VerdictInv, PickInv, Overall
<1> QED
  BY <1>1, InitTypeInv, NextTypeInv, NextVerdictInv, NextPickInv, PTL DEF Spec, VerdictPickInv

\* A call is allowed only if all its combinations were walked, every gate that
\* was met was passed, and every crossing was released and recorded.
THEOREM KernelInvariantHolds == Spec => []KernelInvariant
<1>1. VerdictPickInv => KernelInvariant
  <2> SUFFICES ASSUME VerdictPickInv, phase = "decided", total = "allow"
               PROVE  /\ fault = "none"
                      /\ \A p \in Picks(call) : \E v \in visits : v.pick = p
                      /\ \A v \in visits : ~FailsGate(v) /\ (Crosses(v) => ReleasedAt(v))
    BY DEF KernelInvariant
  <2>1. Overall = "allow" /\ todo = {}
    BY DEF VerdictPickInv, Overall, PickInv
  <2> QED
    BY <2>1 DEF VerdictPickInv, VerdictInv, PickInv, Honest
<1> QED
  BY <1>1, VerdictsHold, PTL

\* A call is escalated only if nothing denies it: some gate failed, and every
\* gate that failed is one that escalates.
THEOREM EscalationsAreDoubts == Spec => []EscalatesOnlyDoubt
<1>1. VerdictPickInv => EscalatesOnlyDoubt
  BY DEF VerdictPickInv, VerdictInv, Overall, Honest, EscalatesOnlyDoubt
<1> QED
  BY <1>1, VerdictsHold, PTL

-----------------------------------------------------------------------------
(* Causes.                                                                 *)

Denies(v) ==
  \/ Crosses(v) /\ ~Passes(v)
  \/ /\ FailsGate(v)
     /\ ~(Present(v.slot) /\ Steps[v.step].rule # {} /\ Steps[v.step].escalate)

CauseInv == Overall = "deny" => fault # "none" \/ \E v \in visits : Denies(v)

\* A step faults, denies for what it saw, or adds a verdict that does not deny.
LEMMA StepCause ==
  ASSUME TypeInv, StepTaken
  PROVE  \/ fault' # "none"
         \/ Denies(Visit)
         \/ \E w \in {"allow", "escalate"} : verdict' = And(verdict, w) /\ fault' = fault
<1> DEFINE Mild == \E w \in {"allow", "escalate"} : verdict' = And(verdict, w) /\ fault' = fault
<1>0. /\ verdict \in Verdict /\ Visit.step = at /\ Visit.slot = Subject /\ Here = Steps[Visit.step]
  BY DEF TypeInv, TypeOK, Visit, Here
<1>1. ASSUME NEW reason \in {"edge", "branch", "nested", "severed", "list", "cap"}, Fault(reason)
      PROVE  fault' # "none"
  BY <1>1 DEF Fault
<1>2. Follow("allow") => fault' # "none" \/ Mild
  BY <1>1 DEF Follow
<1>3. CASE Propose \/ GatePasses
  BY <1>2, <1>3 DEF Propose, GatePasses
<1>4. CASE Exit
  BY <1>4 DEF Exit, Halt
<1>5. CASE Branch \/ Foreach \/ RefuseForeach
  <2>1. fault' # "none" \/ (verdict' = verdict /\ fault' = fault)
    <3>1. ForeachTrouble # "none" =>
            ForeachTrouble \in {"edge", "branch", "nested", "severed", "list", "cap"}
      BY DEF ForeachTrouble
    <3> QED
      BY <1>1, <1>5, <3>1 DEF Branch, Foreach, RefuseForeach
  <2>2. And(verdict, "allow") = verdict
    BY <1>0, AndFacts DEF Verdict
  <2> QED
    BY <2>1, <2>2
<1>6. CASE GateFails
  <2>1. CASE Present(Subject) /\ Here.rule # {} /\ Here.escalate
    BY <1>6, <2>1 DEF GateFails, Halt
  <2>2. CASE ~(Present(Subject) /\ Here.rule # {} /\ Here.escalate)
    <3>1. FailsGate(Visit)
      BY <1>0, <1>6 DEF GateFails, Taking, Released, FailsGate
    <3> QED
      BY <1>0, <2>2, <3>1 DEF Denies
  <2> QED
    BY <2>1, <2>2
<1>7. CASE Sink
  <2>1. CASE SinkVerdict = "allow"
    BY <1>2, <1>7, <2>1 DEF Sink
  <2>2. CASE SinkVerdict # "allow"
    <3>1. Here.authoritative /\ ~Released /\ Subject.class # "authoritative" /\ Here.kind = "sink"
      BY <1>7, <2>2 DEF SinkVerdict, Sink, Taking
    <3>2. Crosses(Visit) /\ ~Passes(Visit)
      BY <1>0, <3>1 DEF Crosses, Passes, Released
    <3> QED
      BY <3>2 DEF Denies
  <2> QED
    BY <2>1, <2>2
<1> QED
  BY <1>3, <1>4, <1>5, <1>6, <1>7 DEF StepTaken

LEMMA DeniesStays ==
  ASSUME Steps' = Steps
  PROVE  \A v : (Denies(v)' <=> Denies(v)) /\ (Passes(v)' <=> Passes(v))
  BY SameVisits DEF Denies, Passes

\* The first fault is kept.
LEMMA FaultStays == [Next]_vars /\ fault # "none" => fault' # "none"
<1> SUFFICES ASSUME [Next]_vars, fault # "none"
             PROVE  fault' # "none"
  OBVIOUS
<1>1. CASE StepTaken
  BY <1>1 DEF StepTaken, Propose, Sink, GatePasses, GateFails, Branch, Exit, RefuseForeach, Foreach,
              Follow, Halt, Fault
<1> QED
  BY <1>1, NextCases DEF NextElement, EndWalk, RefuseTooMany, Begin, vars

LEMMA NextCauseInv == TypeInv /\ CauseInv /\ [Next]_vars => CauseInv'
<1> SUFFICES ASSUME TypeInv, CauseInv, [Next]_vars, fault' = "none", Overall' = "deny"
             PROVE  \E v \in visits' : Denies(v)'
  BY DEF CauseInv
<1>0. /\ total \in Verdict /\ verdict \in Verdict /\ fault = "none"
      /\ {"allow", "escalate", "deny"} \subseteq Verdict
  BY FaultStays DEF TypeInv, TypeOK, Verdict
<1>1. CASE StepTaken
  <2>1. /\ phase = "walk" /\ phase' = phase /\ total' = total /\ Steps' = Steps
        /\ visits' = visits \cup {Visit}
    BY <1>1, StepFacts
  <2>2. Overall = And(total, verdict) /\ Overall' = And(total, verdict')
    BY <2>1 DEF Overall
  <2>3. CASE Denies(Visit)
    BY <2>1, <2>3, DeniesStays
  <2>4. ASSUME NEW w \in {"allow", "escalate"}, verdict' = And(verdict, w)
        PROVE  \E v \in visits' : Denies(v)'
    <3>1. verdict' \in Verdict
      BY <1>1, NextTypeInv DEF TypeInv, TypeOK
    <3>2. total = "deny" \/ verdict' = "deny"
      BY <1>0, <2>2, <3>1, AndFacts
    <3>3. verdict' = "deny" => verdict = "deny"
      <4>1. w \in Verdict /\ w # "deny"
        BY DEF Verdict
      <4> QED
        BY <1>0, <2>4, <4>1, AndFacts
    <3>4. Overall = "deny"
      BY <1>0, <2>2, <3>2, <3>3, AndFacts
    <3>5. PICK v \in visits : Denies(v)
      BY <1>0, <3>4 DEF CauseInv
    <3> QED
      BY <2>1, <3>5, DeniesStays
  <2> QED
    BY <1>1, <2>3, <2>4, StepCause
<1>2. ASSUME Overall' = Overall, visits' = visits, Steps' = Steps
      PROVE  \E v \in visits' : Denies(v)'
  <2>1. PICK v \in visits : Denies(v)
    BY <1>0, <1>2 DEF CauseInv
  <2> QED
    BY <1>2, <2>1, DeniesStays
<1>3. CASE \E p \in todo : Begin(p)
  <2>1. Overall' = And(total, "allow") /\ Overall = total
    BY <1>3 DEF Begin, Overall
  <2>2. Overall' = Overall
    BY <1>0, <2>1, AndFacts
  <2> QED
    BY <1>2, <1>3, <2>2 DEF Begin, callVars, Steps
<1>4. CASE NextElement
  BY <1>2, <1>4 DEF NextElement, Overall, callVars, Steps
<1>5. CASE EndWalk
  BY <1>2, <1>5 DEF EndWalk, Overall, callVars, Steps
<1>6. CASE RefuseTooMany
  BY <1>6 DEF RefuseTooMany
<1>7. CASE UNCHANGED vars
  BY <1>2, <1>7 DEF vars, callVars, walkVars, Overall, Steps
<1> QED
  BY <1>1, <1>3, <1>4, <1>5, <1>6, <1>7, NextCases

\* A call is denied only for a fault or for what one of its walks met.
THEOREM DenialsHaveCauses == Spec => []DeniedForCause
<1>1. Init => CauseInv
  BY DEF Init, CauseInv, Overall
<1>2. CauseInv => DeniedForCause
  BY DEF CauseInv, DeniedForCause, Overall, Denies
<1> QED
  BY <1>1, <1>2, InitTypeInv, NextTypeInv, NextCauseInv, PTL DEF Spec

\* An escalation has only doubts against it, a denial a fault or a value that no
\* rule clears, over all combinations of a call.
THEOREM VerdictsAreCaused == Spec => []VerdictsHaveCauses
<1>1. EscalatesOnlyDoubt /\ DeniedForCause => VerdictsHaveCauses
  BY DEF VerdictsHaveCauses
<1> QED
  BY EscalationsAreDoubts, DenialsHaveCauses, <1>1, PTL

\* A step that is not a cleared crossing records nothing, one that is records
\* itself.
LEMMA StepRecords ==
  ASSUME TypeInv, StepTaken
  PROVE  IF Crosses(Visit) /\ Passes(Visit)
         THEN events' = Append(events, CrossingOf(Visit))
         ELSE events' = events
<1>0. /\ Visit.step = at /\ Visit.slot = Subject /\ Here = Steps[Visit.step]
      /\ Visit.pick = pick /\ Visit.elem = elem /\ CrossingOf(Visit) = Event
  BY DEF Visit, Here, CrossingOf, Event
<1>1. Passes(Visit) <=> Released
  BY <1>0 DEF Passes, Released
<1>2. CASE Sink
  <2>1. Crosses(Visit) <=> Here.authoritative /\ Subject.class # "authoritative"
    BY <1>0, <1>2 DEF Sink, Taking, Crosses
  <2> QED
    BY <1>0, <1>1, <1>2, <2>1 DEF Sink
<1>3. CASE Propose \/ GatePasses \/ GateFails \/ Branch \/ Exit \/ RefuseForeach \/ Foreach
  <2>1. ~Crosses(Visit)
    BY <1>0, <1>3 DEF Propose, GatePasses, GateFails, Branch, Exit, RefuseForeach, Foreach,
                      Taking, Crosses
  <2>2. events' = events
    BY <1>3 DEF Propose, GatePasses, GateFails, Branch, Exit, RefuseForeach, Foreach
  <2> QED
    BY <2>1, <2>2
<1> QED
  BY <1>2, <1>3 DEF StepTaken

LEMMA NextRecorded == TypeInv /\ EventsAreCrossings /\ [Next]_vars => EventsAreCrossings'
<1> SUFFICES ASSUME TypeInv, EventsAreCrossings, [Next]_vars
             PROVE  EventsAreCrossings'
  OBVIOUS
<1>0. events \in Seq([pick : Picks(call), step : DOMAIN Steps, class : Class, ordering : Nat])
  BY DEF TypeInv, TypeOK
<1>1. ASSUME Steps' = Steps
      PROVE  \A v : CrossingOf(v)' = CrossingOf(v)
  BY <1>1 DEF CrossingOf, Ordering
<1>2. CASE StepTaken
  <2>1. Steps' = Steps /\ visits' = visits \cup {Visit}
    BY <1>2, StepFacts
  <2>2. \A v : /\ Crosses(v)' <=> Crosses(v)
               /\ Passes(v)' <=> Passes(v)
               /\ CrossingOf(v)' = CrossingOf(v)
    BY <1>1, <2>1, SameVisits, DeniesStays
  <2>3. events' = events \/ events' = Append(events, Event)
    BY <1>2, StepFacts
  <2>4. ASSUME NEW v \in visits', Crosses(v), Passes(v)
        PROVE  ReleasedAt(v)'
    <3>1. CASE v \in visits
      BY <2>1, <2>3, <2>4, <3>1, ReleaseStays DEF EventsAreCrossings
    <3>2. CASE v = Visit
      <4>1. events' = Append(events, CrossingOf(v))
        BY <1>2, <2>4, <3>2, StepRecords
      <4>2. Len(events) + 1 \in DOMAIN events' /\ events'[Len(events) + 1] = CrossingOf(v)'
        BY <1>0, <2>2, <4>1
      <4>3. Releases(Steps'[v.step].rule, v.slot.value)
        BY <2>1, <2>4 DEF Passes
      <4> HIDE DEF Visit
      <4> QED
        BY <4>2, <4>3 DEF ReleasedAt, CrossingOf
    <3> QED
      BY <2>1, <3>1, <3>2
  <2>5. ASSUME NEW i \in DOMAIN events'
        PROVE  \E v \in visits' : Crosses(v) /\ Passes(v) /\ events'[i] = CrossingOf(v)
    <3>1. CASE i \in DOMAIN events /\ events'[i] = events[i]
      BY <2>1, <3>1 DEF EventsAreCrossings
    <3>2. CASE ~(i \in DOMAIN events /\ events'[i] = events[i])
      <4>1. /\ Crosses(Visit) /\ Passes(Visit)
            /\ events' = Append(events, CrossingOf(Visit))
        BY <1>2, <2>5, <3>2, StepRecords
      <4>2. i = Len(events) + 1
        BY <1>0, <2>5, <3>2, <4>1
      <4> QED
        BY <1>0, <2>1, <4>1, <4>2
    <3> QED
      BY <3>1, <3>2
  <2>6. \A v \in visits' : Crosses(v)' /\ Passes(v)' => ReleasedAt(v)'
    BY <2>2, <2>4
  <2>7. \A i \in DOMAIN events' :
          \E v \in visits' : Crosses(v)' /\ Passes(v)' /\ events'[i] = CrossingOf(v)'
    BY <2>2, <2>5
  <2> QED
    BY <2>6, <2>7 DEF EventsAreCrossings
<1>3. ASSUME visits' = visits, events' = events, Steps' = Steps
      PROVE  EventsAreCrossings'
  <2>1. \A v \in visits : ReleasedAt(v) => ReleasedAt(v)'
    BY <1>3, ReleaseStays
  <2>2. \A v : /\ Crosses(v)' <=> Crosses(v)
               /\ Passes(v)' <=> Passes(v)
               /\ CrossingOf(v)' = CrossingOf(v)
    BY <1>1, <1>3, SameVisits, DeniesStays
  <2> QED
    BY <1>3, <2>1, <2>2 DEF EventsAreCrossings
<1>4. ~StepTaken => visits' = visits /\ events' = events /\ Steps' = Steps
  BY NextCases DEF NextElement, EndWalk, RefuseTooMany, Begin, vars, callVars, Steps
<1> QED
  BY <1>2, <1>3, <1>4

\* What is recorded as released is what a rule released at a crossing, in every
\* walk of every call.
THEOREM ReleasesAreRecorded == Spec => []EventsAreCrossings
<1>1. Init => EventsAreCrossings
  BY DEF Init, EventsAreCrossings
<1> QED
  BY <1>1, InitTypeInv, NextTypeInv, NextRecorded, PTL DEF Spec

-----------------------------------------------------------------------------
(* Definite assignment.                                                    *)

\* The linter's pass over a recipe whose edges go forward: what it says of a step
\* depends only on the steps before it.
LEMMA EarlierOnly ==
  ASSUME NEW r \in Recipe, EdgesForward(r.steps), NEW j \in DOMAIN r.steps
  PROVE  Predecessors(r.steps, j) \subseteq 1 .. j - 1
<1>1. r.steps \in Seq(Step) /\ j \in 1 .. Len(r.steps) /\ Len(r.steps) \in Nat
  BY DEF Recipe
<1> SUFFICES ASSUME NEW i \in 1 .. Len(r.steps), j \in Successors(r.steps, i)
             PROVE  i < j
  BY <1>1 DEF Predecessors
<1>2. r.steps[i].goto \in Nat
  <2>1. r.steps[i] \in Step
    BY <1>1, ElementOf
  <2> QED
    BY <2>1 DEF Step
<1>3. \A t \in Targets(r.steps[i]) : t > i
  BY <1>1 DEF EdgesForward, Edge
<1>4. r.steps[i].goto # 0 => r.steps[i].goto \in Targets(r.steps[i])
  BY DEF Targets
<1>5. CASE r.steps[i].kind = "branch"
  BY <1>1, <1>3, <1>5 DEF Successors
<1>6. CASE r.steps[i].kind \notin {"branch", "exit"}
  <2>1. j = Landing(i, r.steps[i].goto)
    BY <1>6 DEF Successors
  <2> QED
    BY <1>1, <1>2, <1>3, <1>4, <2>1 DEF Landing
<1>7. CASE r.steps[i].kind = "exit"
  BY <1>7 DEF Successors
<1> QED
  BY <1>5, <1>6, <1>7

\* Two assignments that agree before step j are the same for it.
LEMMA SameBefore ==
  ASSUME NEW r \in Recipe, EdgesForward(r.steps), NEW j \in DOMAIN r.steps,
         NEW f, NEW g, \A i \in 1 .. j - 1 : f[i] = g[i]
  PROVE  /\ DefinedOn(r, f, j) = DefinedOn(r, g, j)
         /\ DefinedThrough(r, f, j) = DefinedThrough(r, g, j)
<1>1. \A i \in Predecessors(r.steps, j) : f[i] = g[i]
  BY EarlierOnly
<1>2. DefinedOn(r, f, j) = DefinedOn(r, g, j)
  BY <1>1 DEF DefinedOn
<1> QED
  BY <1>2 DEF DefinedThrough

\* The pass has a result, which gives each step what its predecessors define.
LEMMA PassExists ==
  ASSUME NEW r \in Recipe, EdgesForward(r.steps)
  PROVE  \E f : f = [j \in DOMAIN r.steps |-> DefinedThrough(r, f, j)]
<1> DEFINE n == Len(r.steps)
           Good(f, m) == f = [j \in 1 .. m |-> DefinedThrough(r, f, j)]
           S == {m \in 0 .. n : \E f : Good(f, m)}
<1>1. n \in Nat /\ DOMAIN r.steps = 1 .. n
  BY DEF Recipe
<1>2. 0 \in S
  <2> DEFINE f == [j \in 1 .. 0 |-> {}]
  <2>1. Good(f, 0)
    OBVIOUS
  <2>2. 0 \in 0 .. n
    BY <1>1
  <2> HIDE DEF Good, f
  <2> QED
    BY <2>1, <2>2
<1>3. ASSUME NEW m \in 0 .. n - 1, m \in S
      PROVE  m + 1 \in S
  <2>1. PICK f : Good(f, m)
    BY <1>3
  <2> DEFINE g == [j \in 1 .. m + 1 |-> DefinedThrough(r, f, j)]
  <2>2. \A j \in 1 .. m : f[j] = DefinedThrough(r, f, j)
    BY <2>1
  <2>3. \A j \in 1 .. m : f[j] = g[j]
    BY <1>1, <2>2
  <2>4. ASSUME NEW j \in 1 .. m + 1
        PROVE  DefinedThrough(r, f, j) = DefinedThrough(r, g, j)
    <3> HIDE DEF g
    <3>1. j \in 1 .. n /\ \A i \in 1 .. j - 1 : i \in 1 .. m
      BY <1>1
    <3>2. j \in DOMAIN r.steps /\ \A i \in 1 .. j - 1 : f[i] = g[i]
      BY <1>1, <2>3, <3>1
    <3> QED
      BY <3>2, SameBefore
  <2>5. Good(g, m + 1)
    BY <2>4
  <2>6. m + 1 \in 0 .. n
    BY <1>1
  <2> QED
    BY <2>5, <2>6
<1>4. \A m \in 0 .. n : m \in S
  <2> HIDE DEF S
  <2> QED
    BY <1>1, <1>2, <1>3, IntervalInduction
<1>5. n \in S
  BY <1>1, <1>4
<1> QED
  BY <1>1, <1>5

LEMMA PassDef ==
  ASSUME NEW r \in Recipe, EdgesForward(r.steps)
  PROVE  \A j \in DOMAIN r.steps : DefinedAfter(r)[j] = DefinedThrough(r, DefinedAfter(r), j)
<1>1. DefinedAfter(r) = [j \in DOMAIN r.steps |-> DefinedThrough(r, DefinedAfter(r), j)]
  BY PassExists DEF DefinedAfter
<1> QED
  BY <1>1

\* The slots that a linted recipe defines on every path to step j.
SlotsAt(j) == DefinedOn(recipe, DefinedAfter(recipe), j)

\* What is defined at a step was defined before a step that leads to it, or is what
\* that one produces.
LEMMA SlotsCome ==
  ASSUME TypeOK, Linted(recipe), NEW i \in DOMAIN Steps, NEW j \in DOMAIN Steps,
         j \in Successors(Steps, i), NEW x \in SlotsAt(j)
  PROVE  x \in SlotsAt(i) \/ (Produces(Steps[i]) /\ x = Steps[i].out)
<1>1. recipe \in Recipe /\ EdgesForward(recipe.steps)
  BY DEF TypeOK, Linted
<1>2. i \in Predecessors(recipe.steps, j)
  BY DEF Predecessors, Steps
<1>3. x \in DefinedAfter(recipe)[i]
  BY <1>2 DEF SlotsAt, DefinedOn
<1>4. x \in DefinedThrough(recipe, DefinedAfter(recipe), i)
  BY <1>1, <1>3, PassDef DEF Steps
<1> QED
  BY <1>4 DEF DefinedThrough, SlotsAt, Steps

\* The first step has the ingredients.
LEMMA SlotsAtFirst ==
  ASSUME TypeOK, Linted(recipe)
  PROVE  SlotsAt(1) = Ingredients(recipe)
<1>1. /\ recipe \in Recipe /\ EdgesForward(recipe.steps)
      /\ recipe.steps \in Seq(Step) /\ recipe.steps # <<>>
  BY DEF TypeOK, Linted, Recipe
<1>2. 1 \in DOMAIN recipe.steps
  BY <1>1
<1>3. Predecessors(recipe.steps, 1) \subseteq 1 .. 1 - 1
  BY <1>1, <1>2, EarlierOnly
<1>4. Predecessors(recipe.steps, 1) = {}
  BY <1>3
<1> QED
  BY <1>4 DEF SlotsAt, DefinedOn

\* What the linter promises of a step.
LEMMA LintOfStep ==
  ASSUME TypeOK, Linted(recipe), NEW i \in DOMAIN Steps
  PROVE  /\ Steps[i] \in Step /\ StepOK(Steps[i])
         /\ CanHop(Steps, i, Steps[i].goto)
         /\ \A t \in Targets(Steps[i]) : Edge(Steps, i, t)
         /\ Consumes(Steps[i]) => Steps[i].in \in SlotsAt(i)
         /\ \A k \in DOMAIN Steps : Steps[i].kind = "foreach" /\ Steps[k].kind = "foreach" => i = k
<1>1. Steps \in Seq(Step)
  BY DEF TypeOK, Recipe, Steps
<1>2. Steps[i] \in Step /\ StepOK(Steps[i])
  BY <1>1 DEF Linted, Steps
<1>3. \A t \in Targets(Steps[i]) : Edge(Steps, i, t)
  BY DEF Linted, EdgesForward, Steps
<1>4. CanHop(Steps, i, Steps[i].goto)
  BY <1>3 DEF CanHop, Targets
<1>5. Consumes(Steps[i]) => Steps[i].in \in SlotsAt(i)
  BY DEF Linted, DefinitelyAssigned, SlotsAt, Steps
<1>6. \A k \in DOMAIN Steps : Steps[i].kind = "foreach" /\ Steps[k].kind = "foreach" => i = k
  BY DEF Linted, OneForeach, Steps
<1> QED
  BY <1>2, <1>3, <1>4, <1>5, <1>6

\* The slots that are defined at step j hold something.
HasSlots(j) == \A x \in SlotsAt(j) : Present(slots[x])

\* In a linted recipe, what is defined at the step a walk is at, and at the foreach
\* it is in, is there.
FlowInv ==
  Linted(recipe) =>
    /\ fault \in {"none", "bound", "list", "cap"}
    /\ \A v \in visits : Consumes(Steps[v.step]) => Present(v.slot)
    /\ phase = "walk" =>
         /\ at \in DOMAIN Steps => HasSlots(at)
         /\ loop # 0 => /\ Steps[loop].kind = "foreach" /\ HasSlots(loop)
                        /\ at \in DOMAIN Steps => at > loop

\* Slot names.
LEMMA SlotsAreNames ==
  ASSUME NEW j
  PROVE  SlotsAt(j) \subseteq Names
BY DEF SlotsAt, DefinedOn, Ingredients

\* A step takes nothing out of a slot, and a path that goes on finds in its slot
\* what the step produces.
LEMMA SlotsStay ==
  ASSUME TypeInv, StepTaken
  PROVE  /\ \A x \in Names : Present(slots[x]) => Present(slots'[x])
         /\ Produces(Here) /\ at' \in DOMAIN Steps => Present(slots'[Here.out])
<1>1. /\ at \in DOMAIN Steps /\ Here \in Step /\ slots \in [Names -> Slot] /\ Here.out \in Names
      /\ 0 \notin DOMAIN Steps
  <2>1. at \in DOMAIN Steps /\ TypeOK
    BY StepFacts DEF TypeInv
  <2>2. Here \in Step /\ at \in 1 .. Len(Steps) /\ Len(Steps) \in Nat /\ Steps \in Seq(Step)
    BY <2>1, Taken
  <2>3. Here.out \in Names
    BY <2>2 DEF Step
  <2>4. slots \in [Names -> Slot]
    BY <2>1 DEF TypeOK
  <2> QED
    BY <2>1, <2>2, <2>3, <2>4
<1>2. \A v : Present(Untrusted(v))
  BY DEF Present, Untrusted
<1>3. CASE Propose
  BY <1>1, <1>2, <1>3 DEF Propose
<1>4. CASE Foreach
  <2>1. CASE at' = 0 /\ slots' = slots
    BY <1>1, <2>1
  <2>2. CASE slots' = [slots EXCEPT ![Here.out] = Untrusted(items'[1])]
    BY <1>1, <1>2, <2>2
  <2> QED
    BY <1>4, <2>1, <2>2 DEF Foreach
<1>5. CASE RefuseForeach
  BY <1>1, <1>5 DEF RefuseForeach, Fault
<1>6. CASE Sink \/ GatePasses \/ GateFails \/ Branch \/ Exit
  BY <1>6 DEF Sink, GatePasses, GateFails, Branch, Exit, Taking, Produces
<1> QED
  BY <1>3, <1>4, <1>5, <1>6 DEF StepTaken

\* A path goes on at a successor of its step.
LEMMA HopsToSuccessor ==
  ASSUME TypeInv, StepTaken, at' \in DOMAIN Steps
  PROVE  at' \in Successors(Steps, at)
<1>1. TypeOK /\ at \in DOMAIN Steps /\ at' # 0
  <2>1. at \in DOMAIN Steps /\ TypeOK
    BY StepFacts DEF TypeInv
  <2> QED
    BY <2>1, Taken
<1>2. CASE Branch
  <2>1. at' = BranchTarget /\ Edge(Steps, at, BranchTarget)
    BY <1>1, <1>2 DEF Branch, Fault
  <2>2. at' \in Targets(Here)
    BY <1>1, <2>1, BranchEdge
  <2> QED
    BY <1>2, <2>2 DEF Branch, Taking, Successors, Here
<1>3. CASE Propose \/ Sink \/ GatePasses \/ Foreach
  <2>1. Here.kind \notin {"exit", "branch"}
    BY <1>3 DEF Propose, Sink, GatePasses, Foreach, Taking
  <2>2. at' = Landing(at, Here.goto)
    BY <1>1, <1>3 DEF Propose, Sink, GatePasses, Foreach, Follow, Fault
  <2> QED
    BY <2>1, <2>2 DEF Successors, Here
<1>4. CASE GateFails \/ Exit \/ RefuseForeach
  BY <1>1, <1>4 DEF GateFails, Exit, RefuseForeach, Halt, Fault
<1> QED
  BY <1>2, <1>3, <1>4 DEF StepTaken

\* A walk that goes on from step i, which has its slots, to a successor of i that
\* finds what i produces, has the slots of that successor.
LEMMA SlotsGoOn ==
  ASSUME TypeOK, Linted(recipe), NEW i \in DOMAIN Steps, NEW j \in DOMAIN Steps,
         j \in Successors(Steps, i), HasSlots(i),
         \A x \in Names : Present(slots[x]) => Present(slots'[x]),
         Produces(Steps[i]) => Present(slots'[Steps[i].out])
  PROVE  \A x \in SlotsAt(j) : Present(slots'[x])
<1> SUFFICES ASSUME NEW x \in SlotsAt(j)
             PROVE  Present(slots'[x])
  OBVIOUS
<1>1. x \in SlotsAt(i) \/ (Produces(Steps[i]) /\ x = Steps[i].out)
  BY SlotsCome
<1>2. x \in Names
  BY SlotsAreNames
<1> QED
  BY <1>1, <1>2 DEF HasSlots

\* What a step consumes is there.
LEMMA SubjectPresent ==
  ASSUME TypeOK, Linted(recipe), at \in DOMAIN Steps, HasSlots(at), Consumes(Here)
  PROVE  Present(Subject)
<1>1. Here.in \in SlotsAt(at)
  BY LintOfStep DEF Here
<1> QED
  BY <1>1 DEF HasSlots, Subject

\* A step of a linted recipe that has its slots faults only over the list of a
\* foreach.
LEMMA StepDoesNotFault ==
  ASSUME TypeInv, FlowInv, Linted(recipe), StepTaken
  PROVE  fault' = fault \/ fault' \in {"list", "cap"}
<1>1. /\ TypeOK /\ at \in DOMAIN Steps /\ phase = "walk" /\ HasSlots(at)
      /\ Here \in Step /\ StepOK(Here)
      /\ CanHop(Steps, at, Here.goto)
      /\ \A t \in Targets(Here) : Edge(Steps, at, t)
  <2>1. TypeOK /\ at \in DOMAIN Steps /\ phase = "walk"
    BY StepFacts DEF TypeInv
  <2> QED
    BY <2>1, LintOfStep DEF FlowInv, Here
<1>2. CASE Propose \/ Sink \/ GatePasses
  BY <1>1, <1>2 DEF Propose, Sink, GatePasses, Follow
<1>3. CASE GateFails \/ Exit \/ Foreach
  BY <1>3 DEF GateFails, Exit, Foreach, Halt
<1>4. CASE Branch
  <2>1. Present(Subject)
    BY <1>1, <1>4, SubjectPresent DEF Branch, Taking, Consumes
  <2>2. Here.goto # 0
    BY <1>1, <1>4 DEF Branch, Taking, StepOK
  <2>3. BranchTarget \in Targets(Here)
    <3> DEFINE hits  == {k \in DOMAIN Here.cases : Releases(Here.cases[k].rule, Subject.value)}
               first == {k \in hits : \A j \in hits : k <= j}
    <3>1. CASE first = {}
      BY <2>2, <3>1 DEF BranchTarget, Targets
    <3>2. CASE first # {}
      <4>1. (CHOOSE k \in first : TRUE) \in DOMAIN Here.cases
        BY <3>2
      <4> QED
        BY <3>2, <4>1 DEF BranchTarget, Targets
    <3> QED
      BY <3>1, <3>2
  <2> QED
    BY <1>1, <1>4, <2>1, <2>3 DEF Branch
<1>5. CASE RefuseForeach
  <2>1. Here.kind = "foreach" /\ Present(Subject)
    BY <1>1, <1>5, SubjectPresent DEF RefuseForeach, Taking, Consumes
  <2>2. loop = 0
    <3> SUFFICES ASSUME loop # 0
                 PROVE  FALSE
      OBVIOUS
    <3>1. Steps[loop].kind = "foreach" /\ at > loop
      BY <1>1 DEF FlowInv
    <3>2. /\ Steps \in Seq(Step) /\ loop \in 0 .. Len(Steps) /\ Len(Steps) \in Nat
          /\ at \in 1 .. Len(Steps)
      BY <1>1, Taken DEF TypeOK
    <3>3. loop \in DOMAIN Steps
      BY <3>2
    <3>4. loop = at
      BY <1>1, <2>1, <3>1, <3>3, LintOfStep DEF Here
    <3> QED
      BY <3>1, <3>2, <3>4
  <2>3. ForeachTrouble \in {"list", "cap"}
    BY <1>1, <1>5, <2>1, <2>2 DEF RefuseForeach, ForeachTrouble
  <2> QED
    BY <1>5, <2>3 DEF RefuseForeach, Fault
<1> QED
  BY <1>2, <1>3, <1>4, <1>5 DEF StepTaken

\* Every step of a walk keeps what is defined.
LEMMA StepFlowInv ==
  ASSUME TypeInv, FlowInv, StepTaken
  PROVE  FlowInv'
<1>1. /\ TypeOK /\ at \in DOMAIN Steps /\ phase = "walk"
      /\ recipe' = recipe /\ Steps' = Steps /\ visits' = visits \cup {Visit}
      /\ loop' = loop \/ (Foreach /\ loop = 0 /\ loop' = at)
      /\ Hops
  BY StepFacts DEF TypeInv
<1>2. \A j : SlotsAt(j)' = SlotsAt(j)
  BY <1>1 DEF SlotsAt
<1> SUFFICES ASSUME Linted(recipe)
             PROVE  /\ fault' \in {"none", "bound", "list", "cap"}
                    /\ \A v \in visits' : Consumes(Steps[v.step]) => Present(v.slot)
                    /\ at' \in DOMAIN Steps => \A x \in SlotsAt(at') : Present(slots'[x])
                    /\ loop' # 0 => /\ Steps[loop'].kind = "foreach"
                                    /\ \A x \in SlotsAt(loop') : Present(slots'[x])
                                    /\ at' \in DOMAIN Steps => at' > loop'
  BY <1>1, <1>2 DEF FlowInv, HasSlots, SlotsAt
<1>3. HasSlots(at)
  BY <1>1 DEF FlowInv
<1>4. fault' \in {"none", "bound", "list", "cap"}
  BY StepDoesNotFault DEF FlowInv
<1>5. ASSUME NEW v \in visits', Consumes(Steps[v.step])
      PROVE  Present(v.slot)
  <2>1. CASE v \in visits
    BY <1>5, <2>1 DEF FlowInv
  <2>2. CASE v = Visit
    BY <1>1, <1>3, <1>5, <2>2, SubjectPresent DEF Visit, Here
  <2> QED
    BY <1>1, <1>5, <2>1, <2>2
<1>6. ASSUME at' \in DOMAIN Steps
      PROVE  \A x \in SlotsAt(at') : Present(slots'[x])
  BY <1>1, <1>3, <1>6, HopsToSuccessor, SlotsStay, SlotsGoOn DEF Here
<1>7. ASSUME NEW j, HasSlots(j)
      PROVE  \A x \in SlotsAt(j) : Present(slots'[x])
  BY <1>7, SlotsStay, SlotsAreNames DEF HasSlots
<1>8. at' \in DOMAIN Steps => at' > at
  <2>1. at \in 1 .. Len(Steps) /\ Len(Steps) \in Nat /\ Steps \in Seq(Step)
    BY <1>1, Taken
  <2>2. at' = 0 \/ at' \in at + 1 .. Len(Steps) + 1
    BY <1>1, HopsForward
  <2> QED
    BY <2>1, <2>2
<1>9. ASSUME loop' # 0
      PROVE  /\ Steps[loop'].kind = "foreach"
             /\ \A x \in SlotsAt(loop') : Present(slots'[x])
             /\ at' \in DOMAIN Steps => at' > loop'
  <2>1. CASE loop' = loop
    <3>1. Steps[loop].kind = "foreach" /\ HasSlots(loop) /\ at > loop
      BY <1>1, <1>9, <2>1 DEF FlowInv
    <3>2. at \in Nat /\ loop \in Nat /\ (at' \in DOMAIN Steps => at' \in Nat)
      BY <1>1, Taken DEF TypeOK
    <3> QED
      BY <1>7, <1>8, <2>1, <3>1, <3>2
  <2>2. CASE Foreach /\ loop' = at
    <3>1. Steps[at].kind = "foreach"
      BY <2>2 DEF Foreach, Taking, Here
    <3> QED
      BY <1>3, <1>7, <1>8, <2>2, <3>1
  <2> QED
    BY <1>1, <2>1, <2>2
<1> QED
  BY <1>4, <1>5, <1>6, <1>9

\* So does every step.
LEMMA NextFlowInv == TypeInv /\ FlowInv /\ [Next]_vars => FlowInv'
<1> SUFFICES ASSUME TypeInv, FlowInv, [Next]_vars
             PROVE  FlowInv'
  OBVIOUS
<1>1. CASE StepTaken
  BY <1>1, StepFlowInv
<1>2. CASE NextElement
  <2>1. /\ phase = "walk" /\ phase' = phase /\ loop' = loop /\ loop # 0
        /\ recipe' = recipe /\ Steps' = Steps /\ visits' = visits /\ fault' = fault
        /\ at' = Landing(loop, Steps[loop].goto)
        /\ slots' = [slots EXCEPT ![Steps[loop].out] = Untrusted(items[elem + 2])]
    BY <1>2 DEF NextElement, MoreElements, callVars, Steps
  <2>2. \A j : SlotsAt(j)' = SlotsAt(j)
    BY <2>1 DEF SlotsAt
  <2> SUFFICES ASSUME Linted(recipe)
               PROVE  /\ at' \in DOMAIN Steps =>
                           at' > loop /\ \A x \in SlotsAt(at') : Present(slots'[x])
                      /\ \A x \in SlotsAt(loop) : Present(slots'[x])
    BY <2>1, <2>2 DEF FlowInv, HasSlots, SlotsAt
  <2>3. /\ TypeOK /\ loop \in DOMAIN Steps /\ Steps[loop].out \in Names /\ Steps[loop].goto \in Nat
        /\ slots \in [Names -> Slot] /\ Steps \in Seq(Step) /\ CanHop(Steps, loop, Steps[loop].goto)
    <3>1. /\ TypeOK /\ Steps \in Seq(Step) /\ loop \in 0 .. Len(Steps)
          /\ CanHop(Steps, loop, Steps[loop].goto) /\ slots \in [Names -> Slot]
      BY <2>1 DEF TypeInv, LoopInv, TypeOK, Recipe, Steps
    <3>2. loop \in DOMAIN Steps
      BY <2>1, <3>1
    <3>3. Steps[loop] \in Step
      BY <3>1, <3>2
    <3> QED
      BY <3>1, <3>2, <3>3 DEF Step
  <2>4. Steps[loop].kind = "foreach" /\ HasSlots(loop)
    BY <2>1 DEF FlowInv
  <2>5. Present(Untrusted(items[elem + 2]))
    BY DEF Present, Untrusted
  <2>6. /\ \A x \in Names : Present(slots[x]) => Present(slots'[x])
        /\ Present(slots'[Steps[loop].out])
    BY <2>1, <2>3, <2>5
  <2>7. at' \in loop + 1 .. Len(Steps) + 1
    BY <2>1, <2>3, HopForward
  <2>8. at' \in DOMAIN Steps => at' \in Successors(Steps, loop)
    BY <2>1, <2>4 DEF Successors
  <2>9. at' \in DOMAIN Steps => \A x \in SlotsAt(at') : Present(slots'[x])
    BY <2>3, <2>4, <2>6, <2>8, SlotsGoOn
  <2>10. \A x \in SlotsAt(loop) : Present(slots'[x])
    BY <2>4, <2>6, SlotsAreNames DEF HasSlots
  <2>11. at' > loop
    BY <2>3, <2>7
  <2> QED
    BY <2>9, <2>10, <2>11
<1>3. CASE EndWalk
  <2>1. phase' # "walk" /\ UNCHANGED <<recipe, Steps, visits, fault>>
    BY <1>3 DEF EndWalk, callVars, Steps
  <2> QED
    BY <2>1 DEF FlowInv, Steps
<1>4. CASE RefuseTooMany
  <2>1. phase' # "walk" /\ UNCHANGED <<recipe, visits>> /\ fault' = "bound"
    BY <1>4 DEF RefuseTooMany, callVars
  <2> QED
    BY <2>1 DEF FlowInv, Steps
<1>5. CASE \E p \in todo : Begin(p)
  <2>1. /\ UNCHANGED <<recipe, visits, fault>> /\ slots' = recipe.ingredients
        /\ at' = 1 /\ loop' = 0
    BY <1>5 DEF Begin, callVars
  <2>2. ASSUME Linted(recipe)
        PROVE  \A x \in SlotsAt(1) : Present(slots'[x])
    BY <2>1, <2>2, SlotsAtFirst DEF TypeInv, Ingredients
  <2>3. \A j : SlotsAt(j)' = SlotsAt(j)
    BY <2>1 DEF SlotsAt
  <2> QED
    BY <2>1, <2>2, <2>3 DEF FlowInv, HasSlots, Steps, SlotsAt
<1>6. CASE UNCHANGED vars
  <2>1. UNCHANGED <<recipe, visits, fault, phase, at, loop, slots>>
    BY <1>6 DEF vars, callVars, walkVars, loopVars
  <2> QED
    BY <2>1 DEF FlowInv, HasSlots, SlotsAt, Steps
<1> QED
  BY <1>1, <1>2, <1>3, <1>4, <1>5, <1>6, NextCases

\* The promises of the linter hold for any recipe and call: nothing faults but over
\* what a call may bring, and every step finds its slot.
THEOREM LintIsSound == Spec => []LintedNeverFaults
<1>1. Init => FlowInv
  BY DEF Init, FlowInv
<1>2. FlowInv => LintedNeverFaults
  BY DEF FlowInv, LintedNeverFaults
<1> QED
  BY <1>1, <1>2, InitTypeInv, NextTypeInv, NextFlowInv, PTL DEF Spec

=============================================================================
