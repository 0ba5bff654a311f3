---------------------------- MODULE HarnessProofs ----------------------------
(***************************************************************************)
(* Theorems about the orchestrator, for any runs, maps, models, people and *)
(* gates: the type invariant, what the model is told, what a run may make  *)
(* cross, who spends an approval, and how an event was routed.             *)
(***************************************************************************)
EXTENDS Harness, SequenceTheorems, SetInduction, TLAPS

-----------------------------------------------------------------------------
(* What the position of a run says about the rest of its state.            *)

Holding == {"calling", "sent", "awaiting", "replaying", "resent", "releasing"}

RunInv(r) ==
  /\ decision[r] = Nowhere => pc[r] = "absent" /\ ledger[r] = <<>>
  /\ pc[r] = "absent" => session[r] = {}
  /\ session[r] \subseteq RoutesFor(decision[r], Rows)
  /\ pc[r] \in Holding => todo[r] # <<>>
  /\ pc[r] \in {"awaiting", "replaying", "resent", "releasing"} => Asks(r, "approval")
  /\ pc[r] = "releasing" =>
       grants[Held(r)] > 0 /\ (row[Held(r)] = "approved" \/ burns[Held(r)] > 0)

\* The call a crossed on a route of the decision, as its recipe allows.
Contained(r, a) ==
  \E p \in Rows :
    /\ p.valid /\ p.tool = ToolOf[a].tool /\ p.server = ToolOf[a].server
    /\ decision[r].tools = {} => p.recipe = decision[r].recipe
    /\ decision[r].tools # {} => \E t \in decision[r].tools : t.tool = p.tool
    /\ \/ Kind[p.recipe] = "open"
       \/ Kind[p.recipe] = "approval" /\ grants[a] > 0 /\ burns[a] > 0

\* A call that is over: the model is told the truth, and it was contained.
CallInv(r, call) ==
  /\ call.told = "performed" => call.crossed
  /\ call.told = "not performed" => ~call.crossed
  /\ call.crossed => Contained(r, call.action)

LedgerInv(r) == \A i \in 1..Len(ledger[r]) : CallInv(r, ledger[r][i])

DoorInv ==
  /\ \A r \in Runs : dpc[r] = "idle" => decision[r] = Nowhere
  /\ saved \subseteq Maps
  /\ mapFile.parses => mapFile.defs \in saved \cup {<<>>}
  /\ \A e \in Editors : epc[e] = "writing" => Draft[e] \in saved

StoreInv == \A a \in Actions : row[a] = "approved" => grants[a] > 0

IInv ==
  /\ TypeOK /\ DoorInv /\ StoreInv /\ RoutedBySavedMap
  /\ \A r \in Runs : RunInv(r) /\ LedgerInv(r)

-----------------------------------------------------------------------------
(* Types.                                                                  *)

\* The store's methods keep the types of the queue; grants and burns only grow,
\* an approval has been granted, and it goes only when it is burned.
StoreGrows ==
  /\ row' \in [Actions -> RowStatus]
  /\ grants' \in [Actions -> Nat] /\ burns' \in [Actions -> Nat]
  /\ \A a \in Actions :
       /\ grants'[a] >= grants[a] /\ burns'[a] >= burns[a]
       /\ row'[a] = "approved" => grants'[a] > 0
       /\ row[a] = "approved" => row'[a] = "approved" \/ burns'[a] > 0

LEMMA StoreSteps ==
  ASSUME TypeOK, StoreInv, NEW a \in Actions,
         \/ UNCHANGED storeVars \/ RecordPending(a) \/ Consume(a)
         \/ ApproveApproval(a) \/ (row[a] = "pending" /\ DenyApproval(a))
  PROVE  StoreGrows
<1> USE DEF TypeOK, StoreGrows, StoreInv, RowStatus
<1>1. CASE UNCHANGED storeVars
  BY <1>1 DEF storeVars
<1>2. CASE RecordPending(a)
  BY <1>2 DEF RecordPending
<1>3. CASE Consume(a)
  <2>1. /\ row' = [row EXCEPT ![a] = IF row[a] = "approved" THEN "consumed" ELSE row[a]]
        /\ burns' = [burns EXCEPT ![a] = IF row[a] = "approved" THEN burns[a] + 1 ELSE burns[a]]
        /\ grants' = grants
    BY <1>3 DEF Consume
  <2>2. \A b \in Actions : burns[b] \in Nat /\ grants[b] \in Nat
    OBVIOUS
  <2>3. \A b \in Actions : burns'[b] >= burns[b] /\ (b = a /\ row[a] = "approved" => burns'[b] > 0)
    BY <2>1, <2>2
  <2>4. \A b \in Actions : row'[b] = "approved" => row[b] = "approved"
    BY <2>1
  <2>5. \A b \in Actions : row[b] = "approved" => row'[b] = "approved" \/ burns'[b] > 0
    BY <2>1, <2>3
  <2> QED
    BY <2>1, <2>2, <2>3, <2>4, <2>5
<1>4. CASE ApproveApproval(a)
  <2>1. /\ row' = [row EXCEPT ![a] = IF row[a] = "pending" THEN "approved" ELSE row[a]]
        /\ grants' = [grants EXCEPT ![a] = IF row[a] = "pending" THEN grants[a] + 1 ELSE grants[a]]
        /\ burns' = burns
    BY <1>4 DEF ApproveApproval
  <2>2. \A b \in Actions : burns[b] \in Nat /\ grants[b] \in Nat
    OBVIOUS
  <2>3. \A b \in Actions : grants'[b] >= grants[b] /\ (row'[b] = "approved" => grants'[b] > 0)
    BY <2>1, <2>2
  <2> QED
    BY <2>1, <2>2, <2>3
<1>5. CASE row[a] = "pending" /\ DenyApproval(a)
  BY <1>5 DEF DenyApproval
<1> QED
  BY <1>1, <1>2, <1>3, <1>4, <1>5

\* The held call of a run that holds one is an action, and what is left after it
\* are actions.
LEMMA HeldType ==
  ASSUME TypeOK, NEW r \in Runs, todo[r] # <<>>
  PROVE  Held(r) \in Actions /\ Tail(todo[r]) \in Seq(Actions) /\ Len(todo[r]) \in Nat \ {0}
<1>1. todo[r] \in Seq(Actions)
  BY DEF TypeOK
<1> QED
  BY <1>1, HeadTailProperties DEF Held

-----------------------------------------------------------------------------
(* How a run's ledger grows.                                               *)

\* Every call of a run that is over was told and crossed in one of four ways.
Truly(r, from, told, crossed) ==
  /\ told \in Told /\ crossed \in BOOLEAN
  /\ told = "performed" => crossed
  /\ told = "not performed" => ~crossed
  /\ crossed => \/ from = "sent" /\ Asks(r, "open")
                \/ from = "releasing" /\ Consume(Held(r))

\* A step of a run that ends a call.
Closing(r) ==
  \/ CallRefused(r) \/ CallPasses(r) \/ CallLost(r)
  \/ PollDecided(r) \/ GiveUp(r) \/ WaitFails(r)
  \/ ReplayEscalates(r) \/ ReplayReleases(r)

LEMMA ClosingIsTrue ==
  ASSUME NEW r \in Runs, Closing(r)
  PROVE  /\ UNCHANGED doorVars
         /\ \E from \in Holding, told \in Told, crossed \in BOOLEAN :
              Over(r, from, told, crossed) /\ Truly(r, from, told, crossed)
         /\ \/ UNCHANGED storeVars \/ RecordPending(Held(r))
            \/ pc[r] = "releasing" /\ Consume(Held(r))
<1> USE DEF Holding, Told, Truly
<1>1. CASE CallRefused(r)
  BY <1>1 DEF CallRefused
<1>2. CASE CallPasses(r)
  BY <1>2 DEF CallPasses
<1>3. CASE CallLost(r)
  BY <1>3 DEF CallLost
<1>4. CASE PollDecided(r) \/ GiveUp(r) \/ WaitFails(r)
  BY <1>4 DEF PollDecided, GiveUp, WaitFails
<1>5. CASE ReplayEscalates(r)
  BY <1>5 DEF ReplayEscalates
<1>6. CASE ReplayReleases(r)
  <2>1. UNCHANGED doorVars /\ Consume(Held(r))
    BY <1>6 DEF ReplayReleases
  <2>2. \/ Over(r, "releasing", "performed", TRUE)
        \/ \E crossed \in BOOLEAN : Over(r, "releasing", "failed", crossed)
    BY <1>6 DEF ReplayReleases
  <2>3. pc[r] = "releasing"
    BY <2>2 DEF Over
  <2> QED
    BY <2>1, <2>2, <2>3
<1> QED
  BY <1>1, <1>2, <1>3, <1>4, <1>5, <1>6 DEF Closing

-----------------------------------------------------------------------------
(* How events are routed.                                                  *)

\* The definition that is followed matches, and none before it does.
LEMMA FirstMatches ==
  ASSUME NEW m \in Maps, NEW event, Matching(m, event) # {}
  PROVE  LET i == FirstOf(Matching(m, event)) IN
         /\ i \in 1..Len(m) /\ MatchAll(m[i].match, event)
         /\ \A j \in 1..i-1 : ~MatchAll(m[j].match, event)
<1> DEFINE I == Matching(m, event)
           i == FirstOf(I)
<1>1. I \in SUBSET Nat /\ Len(m) \in Nat
  BY FrontDoorAssumption DEF Matching
<1>2. i \in I /\ \A j \in I : i <= j
  BY <1>1, LeastExists DEF FirstOf
<1>3. i \in 1..Len(m) /\ MatchAll(m[i].match, event)
  BY <1>2 DEF Matching
<1>4. ASSUME NEW j \in 1..i-1, MatchAll(m[j].match, event)
      PROVE  FALSE
  <2>1. j \in 1..Len(m) /\ j < i
    BY <1>1, <1>3
  <2>2. j \in I
    BY <1>4, <2>1 DEF Matching
  <2> QED
    BY <1>1, <1>2, <2>1, <2>2
<1> QED
  BY <1>3, <1>4

\* A decision that follows the map: the first definition that matches it.
Follows(dec, m, event) ==
  /\ Matching(m, event) # {}
  /\ dec = Follow(m[FirstOf(Matching(m, event))])

LEMMA FollowType ==
  ASSUME NEW dec, NEW m \in Maps, NEW event, Follows(dec, m, event)
  PROVE  dec.mode = "deterministic" /\ dec.recipe \in RecipeNames
<1>1. FirstOf(Matching(m, event)) \in 1..Len(m)
  BY FirstMatches DEF Follows
<1> QED
  BY <1>1 DEF Follows, Follow, RecipeNames

\* The steps that route an event: what they may launch.
LEMMA ResolveLaunches ==
  ASSUME NEW d \in Deliveries, Resolve(d)
  PROVE  /\ mapFile.parses /\ dpc[d] = "idle"
         /\ \/ Launched(d) = Nowhere
            \/ /\ Follows(Launched(d), mapFile.defs, body[d].event)
               /\ mapFile.defs[FirstOf(Matching(mapFile.defs, body[d].event))].attributed
                    => HasSecret /\ body[d].signed
  BY DEF Resolve, Launched, Disposition, Follows, Attributed

LEMMA ConsoleLaunches ==
  ASSUME NEW k \in Consoles, ResolveConsole(k)
  PROVE  /\ dpc[k] = "idle"
         /\ \/ UNCHANGED decision
            \/ \E dec : /\ decision' = [decision EXCEPT ![k] = dec]
                        /\ \/ dec = Nowhere
                           \/ mapFile.parses /\ Follows(dec, mapFile.defs, body[k].event)
                           \/ \E p \in Proposals : dec = Adopt(p) /\ p.recipe \in Catalog(Rows)
<1>1. CASE UNCHANGED decision
  BY <1>1 DEF ResolveConsole
<1>2. ASSUME NEW asked \in BOOLEAN, NEW p \in Proposals, mapFile.parses,
             decision' = [decision EXCEPT
               ![k] = DispatchEvent(mapFile.defs, body[k].event, asked, p, Rows)]
      PROVE  \E dec : /\ decision' = [decision EXCEPT ![k] = dec]
                      /\ \/ dec = Nowhere
                         \/ mapFile.parses /\ Follows(dec, mapFile.defs, body[k].event)
                         \/ \E q \in Proposals : dec = Adopt(q) /\ q.recipe \in Catalog(Rows)
  <2> DEFINE dec == DispatchEvent(mapFile.defs, body[k].event, asked, p, Rows)
  <2>1. \/ dec = Nowhere
        \/ Follows(dec, mapFile.defs, body[k].event)
        \/ dec = Adopt(p) /\ p.recipe \in Catalog(Rows)
    BY DEF DispatchEvent, Follows, Gate
  <2>2. decision' = [decision EXCEPT ![k] = dec]
    BY <1>2
  <2> HIDE DEF dec
  <2> WITNESS dec
  <2> QED
    BY <1>2, <2>1, <2>2
<1> QED
  BY <1>1, <1>2 DEF ResolveConsole

-----------------------------------------------------------------------------
(* What a step leaves alone keeps its part of the invariant.               *)

LEMMA DoorKept ==
  ASSUME IInv, UNCHANGED doorVars
  PROVE  DoorTypeOK' /\ RoutedBySavedMap'
<1>1. /\ body' = body /\ mapFile' = mapFile /\ saved' = saved /\ epc' = epc /\ dpc' = dpc
      /\ disposition' = disposition /\ decision' = decision /\ ingress' = ingress
  BY DEF doorVars
<1>2. DoorTypeOK'
  BY <1>1 DEF IInv, TypeOK, DoorTypeOK
<1>3. RoutedBySavedMap'
  BY <1>1 DEF IInv, RoutedBySavedMap
<1> QED
  BY <1>2, <1>3

\* The door's own part of the invariant, for a step of the orchestrator.
LEMMA DoorInvKept ==
  ASSUME IInv, UNCHANGED doorVars
  PROVE  DoorInv'
BY DEF IInv, DoorInv, doorVars

\* A run a step does not move.
SameRun(r) ==
  /\ pc'[r] = pc[r] /\ session'[r] = session[r] /\ todo'[r] = todo[r]
  /\ ledger'[r] = ledger[r] /\ decision'[r] = decision[r]

\* What was contained stays contained, as grants and burns only grow.
LEMMA ContainedStays ==
  ASSUME TypeOK, StoreGrows, NEW r \in Runs, decision'[r] = decision[r],
         NEW a \in Actions, Contained(r, a)
  PROVE  Contained(r, a)'
<1>1. /\ grants[a] \in Nat /\ grants'[a] \in Nat /\ grants'[a] >= grants[a]
      /\ burns[a] \in Nat /\ burns'[a] \in Nat /\ burns'[a] >= burns[a]
  BY DEF TypeOK, StoreGrows
<1>2. /\ grants[a] > 0 => grants'[a] > 0
      /\ burns[a] > 0 => burns'[a] > 0
  BY <1>1
<1> QED
  BY <1>2 DEF Contained

CallRecord == [action : Actions, told : Told, crossed : BOOLEAN]

LEMMA CallStays ==
  ASSUME TypeOK, StoreGrows, NEW r \in Runs, decision'[r] = decision[r],
         NEW call \in CallRecord, CallInv(r, call)
  PROVE  CallInv(r, call)'
<1>1. Contained(r, call.action) => Contained(r, call.action)'
  BY ContainedStays DEF CallRecord
<1> QED
  BY <1>1 DEF CallInv

LEMMA LedgerStays ==
  ASSUME TypeOK, StoreGrows, NEW r \in Runs, decision'[r] = decision[r],
         ledger'[r] = ledger[r], LedgerInv(r)
  PROVE  LedgerInv(r)'
<1>1. ASSUME NEW i \in 1..Len(ledger[r])
      PROVE  CallInv(r, ledger[r][i])'
  <2>1. ledger[r] \in Seq(CallRecord)
    BY DEF TypeOK, CallRecord
  <2>2. PICK call \in CallRecord : call = ledger[r][i]
    BY <2>1, ElementOfSeq
  <2>3. CallInv(r, call)'
    BY <2>2, CallStays DEF LedgerInv
  <2> QED
    BY <2>2, <2>3 DEF CallInv, Contained
<1> QED
  BY <1>1 DEF LedgerInv

LEMMA RunStays ==
  ASSUME TypeOK, StoreGrows, NEW r \in Runs, SameRun(r), RunInv(r), LedgerInv(r)
  PROVE  RunInv(r)' /\ LedgerInv(r)'
<1>1. Held(r)' = Held(r) /\ (Asks(r, "approval") => Asks(r, "approval")')
  BY DEF SameRun, Held, Asks, Governing
<1>2. ASSUME pc[r] = "releasing"
      PROVE  grants'[Held(r)] > 0 /\ (row'[Held(r)] = "approved" \/ burns'[Held(r)] > 0)
  <2>1. Held(r) \in Actions
    BY <1>2, HeldType DEF RunInv, Holding
  <2> DEFINE a == Held(r)
  <2>2. /\ grants[a] \in Nat /\ grants'[a] \in Nat /\ grants'[a] >= grants[a]
        /\ burns[a] \in Nat /\ burns'[a] \in Nat /\ burns'[a] >= burns[a]
        /\ row[a] = "approved" => row'[a] = "approved" \/ burns'[a] > 0
    BY <2>1 DEF TypeOK, StoreGrows
  <2>3. grants[a] > 0 /\ (row[a] = "approved" \/ burns[a] > 0)
    BY <1>2 DEF RunInv
  <2> HIDE DEF a
  <2>4. grants'[a] > 0 /\ (row'[a] = "approved" \/ burns'[a] > 0)
    BY <2>2, <2>3
  <2> QED
    BY <2>4 DEF a
<1>3. RunInv(r)'
  BY <1>1, <1>2 DEF SameRun, RunInv, Holding
<1> QED
  BY <1>3, LedgerStays DEF SameRun

-----------------------------------------------------------------------------
(* A call that is over.                                                    *)

\* A call crosses on a route of the session, as its recipe allows.
LEMMA CrossedIsContained ==
  ASSUME TypeOK, StoreGrows, NEW r \in Runs, RunInv(r), UNCHANGED doorVars,
         todo[r] # <<>>,
         \/ Asks(r, "open")
         \/ pc[r] = "releasing" /\ Consume(Held(r))
  PROVE  \E a \in Actions : a = Held(r) /\ Contained(r, a)'
<1>1. PICK a \in Actions : a = Held(r)
  BY HeldType
<1>2. PICK p \in Rows :
        /\ p \in session[r] /\ p.tool = ToolOf[a].tool /\ p.server = ToolOf[a].server
        /\ \/ Kind[p.recipe] = "open"
           \/ Kind[p.recipe] = "approval" /\ pc[r] = "releasing" /\ Consume(Held(r))
  <2>1. session[r] \subseteq Rows
    BY DEF TypeOK
  <2> QED
    BY <1>1, <2>1 DEF Asks, Governing, RunInv
<1>3. /\ p.valid
      /\ decision[r].tools = {} => p.recipe = decision[r].recipe
      /\ decision[r].tools # {} => \E t \in decision[r].tools : t.tool = p.tool
  <2>1. p \in RoutesFor(decision[r], Rows)
    BY <1>2 DEF RunInv
  <2> QED
    BY <2>1 DEF RoutesFor, RoutesForTools, RoutesForRecipe
<1>4. ASSUME pc[r] = "releasing", Consume(Held(r))
      PROVE  grants'[a] > 0 /\ burns'[a] > 0
  <2>1. grants[a] > 0 /\ (row[a] = "approved" \/ burns[a] > 0)
    BY <1>1, <1>4 DEF RunInv
  <2>2. /\ grants[a] \in Nat /\ grants'[a] = grants[a] /\ burns[a] \in Nat
        /\ burns'[a] = IF row[a] = "approved" THEN burns[a] + 1 ELSE burns[a]
    BY <1>1, <1>4 DEF TypeOK, Consume
  <2> QED
    BY <2>1, <2>2
<1>5. decision'[r] = decision[r]
  BY DEF doorVars
<1>6. Contained(r, a)'
  BY <1>2, <1>3, <1>4, <1>5 DEF Contained
<1> QED
  BY <1>1, <1>6

LEMMA OverTypes ==
  ASSUME IInv, NEW r \in Runs, NEW from \in Holding, NEW told \in Told, NEW crossed \in BOOLEAN,
         Over(r, from, told, crossed), StoreGrows, UNCHANGED doorVars
  PROVE  TypeOK'
<1>1. TypeOK /\ RunInv(r)
  BY DEF IInv
<1>2. todo[r] # <<>>
  BY <1>1 DEF Over, RunInv
<1>3. Held(r) \in Actions /\ Tail(todo[r]) \in Seq(Actions)
  BY <1>1, <1>2, HeldType
<1>4. DoorTypeOK'
  BY DoorKept
<1>5. /\ row' \in [Actions -> RowStatus]
      /\ grants' \in [Actions -> Nat] /\ burns' \in [Actions -> Nat]
  BY DEF StoreGrows
<1>6. todo' \in [Runs -> Seq(Actions)]
  BY <1>1, <1>3 DEF Over, TypeOK
<1>7. ledger' \in [Runs -> Seq([action : Actions, told : Told, crossed : BOOLEAN])]
  <2> DEFINE call == [action |-> Held(r), told |-> told, crossed |-> crossed]
  <2>1. call \in CallRecord
    BY <1>3 DEF CallRecord
  <2>2. ledger \in [Runs -> Seq(CallRecord)]
    BY <1>1 DEF TypeOK, CallRecord
  <2>3. ledger' = [ledger EXCEPT ![r] = Append(@, call)]
    BY DEF Over
  <2> HIDE DEF call
  <2>4. Append(ledger[r], call) \in Seq(CallRecord)
    BY <2>1, <2>2
  <2> QED
    BY <2>2, <2>3, <2>4 DEF CallRecord
<1>8. /\ pc' \in [Runs -> Positions]
      /\ session' \in [Runs -> SUBSET Rows]
      /\ turn' \in [Runs -> 0..MaxTurns]
  BY <1>1 DEF TypeOK, Over, Positions
<1>9. /\ waited' \in [Runs -> 0..Timeout]
      /\ age' \in [Runs -> 0..Lifetime]
      /\ cut' \in [Runs -> BOOLEAN]
  BY <1>1, HarnessAssumption DEF TypeOK, Over
<1> QED
  BY <1>4, <1>5, <1>6, <1>7, <1>8, <1>9 DEF TypeOK

LEMMA OverKeeps ==
  ASSUME IInv, NEW r \in Runs, NEW from \in Holding, NEW told \in Told, NEW crossed \in BOOLEAN,
         Over(r, from, told, crossed), Truly(r, from, told, crossed),
         StoreGrows, UNCHANGED doorVars
  PROVE  IInv'
<1>1. TypeOK /\ RunInv(r) /\ LedgerInv(r) /\ pc[r] = from
  BY DEF IInv, Over
<1>2. todo[r] # <<>>
  BY <1>1 DEF RunInv
<1>3. TypeOK' /\ DoorInv' /\ RoutedBySavedMap' /\ StoreInv'
  BY OverTypes, DoorInvKept, DoorKept DEF StoreGrows, StoreInv
<1>4. decision' = decision
  BY DEF doorVars
<1>5. ASSUME NEW s \in Runs, s # r
      PROVE  RunInv(s)' /\ LedgerInv(s)'
  <2>1. SameRun(s)
    BY <1>1, <1>4, <1>5 DEF Over, SameRun, TypeOK
  <2> QED
    BY <1>1, <2>1, RunStays DEF IInv
<1>6. RunInv(r)'
  <2>1. todo[r] \in Seq(Actions) /\ (Len(todo[r]) # 1 => Tail(todo[r]) # <<>>)
    <3>1. todo[r] \in Seq(Actions)
      BY <1>1 DEF TypeOK
    <3>2. Len(todo[r]) \in Nat \ {0} /\ Len(Tail(todo[r])) = Len(todo[r]) - 1
      BY <1>1, <1>2, <3>1, HeldType, HeadTailProperties
    <3>3. Len(todo[r]) # 1 => Len(Tail(todo[r])) # 0
      BY <3>2
    <3>4. Tail(todo[r]) = <<>> => Len(Tail(todo[r])) = 0
      BY EmptySeq
    <3> QED
      BY <3>1, <3>3, <3>4
  <2>2. decision[r] # Nowhere
    BY <1>1 DEF RunInv, Holding
  <2>3. /\ todo'[r] = Tail(todo[r]) /\ session'[r] = session[r] /\ decision'[r] = decision[r]
        /\ pc'[r] = IF Len(todo[r]) = 1 THEN "thinking" ELSE "calling"
    BY <1>1, <1>4 DEF Over, TypeOK
  <2>4. session[r] \subseteq RoutesFor(decision[r], Rows)
    BY <1>1 DEF RunInv
  <2> QED
    BY <2>1, <2>2, <2>3, <2>4 DEF RunInv, Holding
<1>7. LedgerInv(r)'
  <2>1. PICK a \in Actions : a = Held(r)
    BY <1>1, <1>2, HeldType
  <2>2. PICK call \in CallRecord : call = [action |-> a, told |-> told, crossed |-> crossed]
    BY <2>1 DEF CallRecord
  <2>3. ledger[r] \in Seq(CallRecord) /\ ledger'[r] = Append(ledger[r], call)
    BY <1>1, <2>1, <2>2 DEF TypeOK, CallRecord, Over
  <2>4. CallInv(r, call)'
    <3>1. call.told = told /\ call.crossed = crossed /\ call.action = a
      BY <2>2
    <3>2. ASSUME crossed
          PROVE  Contained(r, a)'
      <4>1. \E b \in Actions : b = Held(r) /\ Contained(r, b)'
        BY <1>1, <1>2, <3>2, CrossedIsContained DEF Truly
      <4> QED
        BY <2>1, <4>1
    <3>3. (told = "performed" => crossed) /\ (told = "not performed" => ~crossed)
      BY DEF Truly
    <3> QED
      BY <3>1, <3>2, <3>3 DEF CallInv
  <2>5. ASSUME NEW i \in 1..Len(ledger'[r])
        PROVE  CallInv(r, ledger[r][i])'
    <3>1. Len(ledger[r]) \in Nat /\ Len(ledger'[r]) = Len(ledger[r]) + 1
      BY <2>3, AppendProperties
    <3>2. CASE i = Len(ledger[r]) + 1
      <4>1. ledger'[r][i] = call
        BY <2>3, <3>2, AppendProperties
      <4> QED
        BY <2>4, <4>1 DEF CallInv, Contained
    <3>3. CASE i # Len(ledger[r]) + 1
      <4>1. i \in 1..Len(ledger[r])
        BY <3>1, <3>3
      <4>2. ledger'[r][i] = ledger[r][i]
        BY <2>3, <4>1, AppendProperties
      <4>3. PICK old \in CallRecord : old = ledger[r][i]
        BY <2>3, <4>1, ElementOfSeq
      <4>4. CallInv(r, old)'
        BY <1>1, <1>4, <4>1, <4>3, CallStays DEF LedgerInv
      <4> QED
        BY <4>2, <4>3, <4>4 DEF CallInv, Contained
    <3> QED
      BY <3>2, <3>3
  <2> QED
    BY <2>5 DEF LedgerInv
<1> QED
  BY <1>1, <1>3, <1>5, <1>6, <1>7 DEF IInv

-----------------------------------------------------------------------------
(* The other steps of a run.                                               *)

LEMMA StoreIdle ==
  ASSUME TypeOK, StoreInv, UNCHANGED storeVars
  PROVE  StoreGrows
BY DEF TypeOK, StoreInv, StoreGrows, storeVars

RunTypes ==
  /\ pc \in [Runs -> Positions]
  /\ session \in [Runs -> SUBSET Rows]
  /\ turn \in [Runs -> 0..MaxTurns]
  /\ todo \in [Runs -> Seq(Actions)]
  /\ waited \in [Runs -> 0..Timeout]
  /\ age \in [Runs -> 0..Lifetime]
  /\ cut \in [Runs -> BOOLEAN]

LEMMA TypesOf == TypeOK => RunTypes
BY DEF TypeOK, RunTypes

\* A step that ends no call keeps the invariant if it keeps the types, the
\* door's part of it, and what is said of the runs it moves.
LEMMA StepKeeps ==
  ASSUME IInv, UNCHANGED ledger, StoreGrows, RunTypes',
         DoorTypeOK', DoorInv', RoutedBySavedMap',
         \A s \in Runs : SameRun(s) \/ RunInv(s)',
         \A s \in Runs : decision'[s] = decision[s] \/ ledger[s] = <<>>
  PROVE  IInv'
<1>1. TypeOK
  BY DEF IInv
<1>2. TypeOK'
  <2>1. ledger' \in [Runs -> Seq([action : Actions, told : Told, crossed : BOOLEAN])]
    BY <1>1 DEF TypeOK
  <2> QED
    BY <2>1 DEF TypeOK, RunTypes, StoreGrows
<1>3. StoreInv'
  BY DEF StoreGrows, StoreInv
<1>4. ASSUME NEW s \in Runs
      PROVE  RunInv(s)' /\ LedgerInv(s)'
  <2>1. RunInv(s) /\ LedgerInv(s)
    BY DEF IInv
  <2>2. LedgerInv(s)'
    <3>1. CASE decision'[s] = decision[s]
      BY <1>1, <2>1, <3>1, LedgerStays
    <3>2. CASE ledger[s] = <<>>
      BY <3>2, EmptySeq DEF LedgerInv
    <3> QED
      BY <3>1, <3>2
  <2>3. CASE SameRun(s)
    BY <1>1, <2>1, <2>3, RunStays
  <2> QED
    BY <2>2, <2>3
<1> QED
  BY <1>2, <1>3, <1>4 DEF IInv

LEMMA QuietKeeps ==
  ASSUME IInv, UNCHANGED <<doorVars, ledger>>, StoreGrows, RunTypes',
         \A s \in Runs : SameRun(s) \/ RunInv(s)'
  PROVE  IInv'
BY DoorKept, DoorInvKept, StepKeeps DEF doorVars

\* A step that moves the run r alone.
LEMMA MoveKeeps ==
  ASSUME IInv, UNCHANGED <<doorVars, ledger>>, StoreGrows, RunTypes', NEW r \in Runs,
         RunInv(r)', \A s \in Runs \ {r} : SameRun(s)
  PROVE  IInv'
BY QuietKeeps

LEMMA BindKeeps ==
  ASSUME IInv, NEW r \in Runs, Bind(r)
  PROVE  IInv'
<1>1. TypeOK /\ RunTypes /\ StoreInv /\ RunInv(r)
  BY TypesOf DEF IInv
<1>2. UNCHANGED <<doorVars, storeVars, turn, todo, waited, age, cut, ledger>>
  BY DEF Bind
<1>3. PICK served \in SUBSET RoutesFor(decision[r], Rows) :
        \/ /\ session' = [session EXCEPT ![r] = served]
           /\ pc' = [pc EXCEPT ![r] = "connecting"]
        \/ /\ pc' = [pc EXCEPT ![r] = "ended"]
           /\ UNCHANGED session
  BY DEF Bind
<1>4. served \subseteq Rows
  BY <1>3 DEF RoutesFor, RoutesForTools, RoutesForRecipe
<1>5. StoreGrows /\ decision' = decision
  BY <1>1, <1>2, StoreIdle DEF doorVars
<1>6. RunTypes'
  <2>1. pc' \in [Runs -> Positions]
    BY <1>1, <1>3 DEF RunTypes, Positions
  <2>2. session' \in [Runs -> SUBSET Rows]
    BY <1>1, <1>3, <1>4 DEF RunTypes
  <2> QED
    BY <1>1, <1>2, <2>1, <2>2 DEF RunTypes
<1>7. RunInv(r)'
  <2>1. session'[r] \subseteq RoutesFor(decision[r], Rows) /\ pc'[r] \in {"connecting", "ended"}
    BY <1>1, <1>3 DEF RunInv, RunTypes
  <2>2. decision[r] # Nowhere
    BY DEF Bind
  <2> QED
    BY <1>5, <2>1, <2>2 DEF RunInv, Holding
<1>8. \A s \in Runs \ {r} : SameRun(s)
  BY <1>1, <1>2, <1>3, <1>5 DEF SameRun, RunTypes
<1> QED
  BY <1>2, <1>5, <1>6, <1>7, <1>8, MoveKeeps

LEMMA ProposeKeeps ==
  ASSUME IInv, NEW r \in Runs, Propose(r)
  PROVE  IInv'
<1>1. TypeOK /\ RunTypes /\ StoreInv /\ RunInv(r)
  BY TypesOf DEF IInv
<1>2. UNCHANGED <<doorVars, storeVars, session, waited, age, cut, ledger>>
  BY DEF Propose
<1>3. PICK calls \in Plans[r] : todo' = [todo EXCEPT ![r] = calls]
  BY DEF Propose
<1>4. calls \in Seq(Actions) /\ calls # <<>> /\ MaxTurns \in Nat
  BY HarnessAssumption
<1>5. StoreGrows /\ decision' = decision
  BY <1>1, <1>2, StoreIdle DEF doorVars
<1>6. RunTypes'
  <2>1. pc' \in [Runs -> Positions]
    BY <1>1 DEF RunTypes, Positions, Propose, Goto
  <2>2. todo' \in [Runs -> Seq(Actions)]
    BY <1>1, <1>3, <1>4 DEF RunTypes
  <2>3. turn' \in [Runs -> 0..MaxTurns]
    BY <1>1, <1>4 DEF RunTypes, Propose
  <2> QED
    BY <1>1, <1>2, <2>1, <2>2, <2>3 DEF RunTypes
<1>7. RunInv(r)'
  <2>1. pc[r] = "thinking" /\ pc'[r] = "calling" /\ todo'[r] = calls
    BY <1>1, <1>3 DEF RunTypes, Propose, Goto
  <2> QED
    BY <1>1, <1>2, <1>4, <1>5, <2>1 DEF RunInv, Holding
<1>8. \A s \in Runs \ {r} : SameRun(s)
  BY <1>1, <1>2, <1>3, <1>5 DEF SameRun, RunTypes, Propose, Goto
<1> QED
  BY <1>2, <1>5, <1>6, <1>7, <1>8, MoveKeeps

\* A step that only moves a run that holds a call on: it is sent, waits, or is
\* replayed.
LEMMA GotoKeeps ==
  ASSUME IInv, NEW r \in Runs, NEW from \in Holding, NEW to \in Holding \ {"calling"},
         Goto(r, from, to), UNCHANGED <<doorVars, session, turn, todo, waited, age, cut, ledger>>,
         StoreGrows, to = "sent" \/ Asks(r, "approval"),
         to = "releasing" => row[Held(r)] = "approved" /\ UNCHANGED storeVars
  PROVE  IInv'
<1>1. TypeOK /\ RunTypes /\ StoreInv /\ RunInv(r)
  BY TypesOf DEF IInv
<1>2. decision' = decision
  BY DEF doorVars
<1>3. pc[r] = from /\ pc' = [pc EXCEPT ![r] = to] /\ pc'[r] = to
  BY <1>1 DEF Goto, RunTypes
<1>4. RunTypes'
  BY <1>1, <1>3 DEF RunTypes, Positions, Holding
<1>5. RunInv(r)'
  <2>1. to = "sent" \/ Asks(r, "approval")'
    BY DEF Asks, Governing, Held
  <2>2. todo[r] # <<>> /\ decision[r] # Nowhere
    BY <1>1, <1>3 DEF RunInv, Holding
  <2>3. ASSUME to = "releasing"
        PROVE  grants'[Held(r)] > 0 /\ row'[Held(r)] = "approved" /\ Held(r)' = Held(r)
    <3>1. Held(r) \in Actions
      BY <1>1, <2>2, HeldType
    <3> QED
      BY <1>1, <2>3, <3>1 DEF StoreInv, storeVars, Held
  <2> QED
    BY <1>1, <1>2, <1>3, <2>1, <2>2, <2>3 DEF RunInv, Holding
<1>6. \A s \in Runs \ {r} : SameRun(s)
  BY <1>1, <1>2, <1>3 DEF SameRun, RunTypes
<1> QED
  BY <1>4, <1>5, <1>6, MoveKeeps

LEMMA MovesOn ==
  ASSUME IInv, NEW r \in Runs,
         Send(r) \/ CallEscalates(r) \/ PollApproved(r) \/ ReplayFinds(r)
  PROVE  IInv'
<1>1. TypeOK /\ StoreInv /\ RunInv(r)
  BY DEF IInv
<1>2. CASE CallEscalates(r)
  <2>1. pc[r] = "sent" /\ todo[r] # <<>>
    BY <1>1, <1>2 DEF CallEscalates, Goto, RunInv, Holding
  <2>2. PICK a \in Actions : a = Held(r)
    BY <1>1, <2>1, HeldType
  <2>3. StoreGrows
    BY <1>1, <1>2, <2>2, StoreSteps DEF CallEscalates
  <2> QED
    BY <1>2, <2>3, GotoKeeps DEF CallEscalates, Holding
<1>3. CASE PollApproved(r)
  <2>1. Asks(r, "approval") /\ StoreGrows
    BY <1>1, <1>3, StoreIdle DEF PollApproved, Goto, RunInv
  <2> QED
    BY <1>3, <2>1, GotoKeeps DEF PollApproved, Holding
<1>4. CASE ReplayFinds(r)
  <2>1. Asks(r, "approval") /\ StoreGrows
    BY <1>1, <1>4, StoreIdle DEF ReplayFinds, Goto, RunInv
  <2> QED
    BY <1>4, <2>1, GotoKeeps DEF ReplayFinds, Holding
<1>5. CASE Send(r)
  <2>1. StoreGrows
    BY <1>1, <1>5, StoreIdle DEF Send
  <2>2. CASE Goto(r, "calling", "sent")
    BY <1>5, <2>1, <2>2, GotoKeeps DEF Send, Holding
  <2>3. CASE Goto(r, "replaying", "resent")
    <3>1. Asks(r, "approval")
      BY <1>1, <2>3 DEF Goto, RunInv
    <3> QED
      BY <1>5, <2>1, <2>3, <3>1, GotoKeeps DEF Send, Holding
  <2> QED
    BY <1>5, <2>2, <2>3 DEF Send
<1> QED
  BY <1>2, <1>3, <1>4, <1>5

\* Runs that end, as a run does that was launched.
LEMMA EndTypes ==
  ASSUME IInv, NEW R, End(R)
  PROVE  /\ RunTypes'
         /\ \A s \in Runs \ R : decision'[s] = decision[s] => SameRun(s)
         /\ \A s \in Runs \cap R : decision'[s] # Nowhere => RunInv(s)'
<1>1. RunTypes /\ {MaxTurns, Lifetime, Timeout} \subseteq Nat
  BY TypesOf, HarnessAssumption DEF IInv
<1>2. /\ pc' \in [Runs -> Positions]
      /\ session' \in [Runs -> SUBSET Rows]
      /\ turn' \in [Runs -> 0..MaxTurns]
  BY <1>1 DEF End, RunTypes, Positions
<1>3. todo' \in [Runs -> Seq(Actions)]
  <2>1. <<>> \in Seq(Actions)
    BY EmptySeq
  <2> QED
    BY <1>1, <2>1 DEF End, RunTypes
<1>4. /\ waited' \in [Runs -> 0..Timeout]
      /\ age' \in [Runs -> 0..Lifetime]
      /\ cut' \in [Runs -> BOOLEAN]
  BY <1>1 DEF End, RunTypes
<1>5. ASSUME NEW s \in Runs \ R, decision'[s] = decision[s]
      PROVE  SameRun(s)
  BY <1>5 DEF End, SameRun
<1>6. ASSUME NEW s \in Runs \cap R, decision'[s] # Nowhere
      PROVE  RunInv(s)'
  <2>1. pc'[s] = "ended" /\ session'[s] = {}
    BY DEF End
  <2> QED
    BY <1>6, <2>1 DEF RunInv, Holding
<1> QED
  BY <1>2, <1>3, <1>4, <1>5, <1>6 DEF RunTypes

\* A run that ends by itself: its turns are used up, or its setup failed.
LEMMA FinishKeeps ==
  ASSUME IInv, NEW r \in Runs, pc[r] # "absent", End({r}), UNCHANGED <<doorVars, storeVars>>
  PROVE  IInv'
<1>1. TypeOK /\ StoreInv /\ RunInv(r)
  BY DEF IInv
<1>2. UNCHANGED <<doorVars, storeVars, ledger>>
  BY DEF End
<1>3. StoreGrows /\ decision' = decision
  BY <1>1, <1>2, StoreIdle DEF doorVars
<1>4. decision[r] # Nowhere
  BY <1>1, <1>2 DEF RunInv
<1>5. RunTypes' /\ RunInv(r)' /\ \A s \in Runs \ {r} : SameRun(s)
  BY <1>2, <1>3, <1>4, EndTypes
<1> QED
  BY <1>2, <1>3, <1>5, MoveKeeps

LEMMA SetUpKeeps ==
  ASSUME IInv, NEW r \in Runs, SetUp(r)
  PROVE  IInv'
<1>1. TypeOK /\ RunTypes /\ StoreInv /\ RunInv(r)
  BY TypesOf DEF IInv
<1>2. pc[r] = "connecting" /\ UNCHANGED <<doorVars, storeVars>>
  BY DEF SetUp
<1>3. CASE End({r})
  BY <1>2, <1>3, FinishKeeps
<1>4. CASE /\ Goto(r, "connecting", "thinking")
           /\ UNCHANGED <<session, turn, todo, waited, age, cut, ledger>>
  <2>1. StoreGrows /\ decision' = decision
    BY <1>1, <1>2, StoreIdle DEF doorVars
  <2>2. RunTypes'
    BY <1>1, <1>4 DEF RunTypes, Positions, Goto
  <2>3. RunInv(r)'
    BY <1>1, <1>2, <1>4, <2>1 DEF RunInv, RunTypes, Goto, Holding
  <2>4. \A s \in Runs \ {r} : SameRun(s)
    BY <1>1, <1>4, <2>1 DEF SameRun, RunTypes, Goto
  <2> QED
    BY <1>2, <1>4, <2>1, <2>2, <2>3, <2>4, MoveKeeps
<1> QED
  BY <1>3, <1>4 DEF SetUp

LEMMA CrashKeeps ==
  ASSUME IInv, Crash
  PROVE  IInv'
<1> DEFINE R == {r \in Runs : decision[r] # Nowhere}
<1>1. TypeOK /\ DoorTypeOK /\ DoorInv /\ StoreInv
  BY DEF IInv, TypeOK
<1>2. End(R) /\ UNCHANGED <<body, mapFile, saved, disposition, decision, ingress, storeVars>>
  BY DEF Crash
<1>3. UNCHANGED ledger
  BY <1>2 DEF End
<1>4. StoreGrows
  BY <1>1, <1>2, StoreIdle
<1>5. DoorTypeOK'
  <2>1. dpc' \in [Runs -> {"idle", "resolved", "answered", "lost"}]
    BY <1>1 DEF DoorTypeOK, Crash
  <2>2. epc' \in [Editors -> {"idle", "writing", "done"}]
    BY <1>1 DEF DoorTypeOK, Crash
  <2> QED
    BY <1>1, <1>2, <2>1, <2>2 DEF DoorTypeOK
<1>6. DoorInv'
  <2>1. \A r \in Runs : dpc'[r] = "idle" => dpc[r] = "idle"
    BY DEF Crash
  <2>2. \A e \in Editors : epc'[e] = "writing" => epc[e] = "writing"
    BY DEF Crash
  <2> QED
    BY <1>1, <1>2, <2>1, <2>2 DEF DoorInv
<1>7. RoutedBySavedMap'
  BY <1>2 DEF IInv, RoutedBySavedMap
<1>8. RunTypes' /\ \A s \in Runs : SameRun(s) \/ RunInv(s)'
  <2> HIDE DEF R
  <2>1. /\ RunTypes'
        /\ \A s \in Runs \ R : decision'[s] = decision[s] => SameRun(s)
        /\ \A s \in Runs \cap R : decision'[s] # Nowhere => RunInv(s)'
    BY <1>2, EndTypes
  <2>2. \A s \in R : decision'[s] # Nowhere
    BY <1>2 DEF R
  <2> QED
    BY <1>2, <2>1, <2>2
<1> QED
  BY <1>2, <1>3, <1>4, <1>5, <1>6, <1>7, <1>8, StepKeeps

LEMMA TickKeeps ==
  ASSUME IInv, Tick
  PROVE  IInv'
<1>1. TypeOK /\ StoreInv /\ RunTypes
  BY TypesOf DEF IInv
<1>2. UNCHANGED <<doorVars, storeVars, pc, session, turn, todo, ledger>>
  BY DEF Tick
<1>3. StoreGrows /\ decision' = decision
  BY <1>1, <1>2, StoreIdle DEF doorVars
<1>4. Lifetime \in Nat /\ Timeout \in Nat
  BY HarnessAssumption
<1>5. age' \in [Runs -> 0..Lifetime]
  BY <1>1, <1>4 DEF RunTypes, Tick, Aging
<1>6. waited' \in [Runs -> 0..Timeout]
  BY <1>1, <1>4 DEF RunTypes, Tick, Waiting
<1>7. cut' \in [Runs -> BOOLEAN]
  BY <1>1, Zenon DEF RunTypes, Tick
<1>8. RunTypes'
  BY <1>1, <1>2, <1>5, <1>6, <1>7 DEF RunTypes
<1>9. \A s \in Runs : SameRun(s)
  BY <1>2, <1>3 DEF SameRun
<1> QED
  BY <1>2, <1>3, <1>8, <1>9, QuietKeeps

LEMMA DisconnectKeeps ==
  ASSUME IInv, NEW k \in Runs, Disconnect(k)
  PROVE  IInv'
<1>1. TypeOK /\ StoreInv /\ RunTypes
  BY TypesOf DEF IInv
<1>2. UNCHANGED <<doorVars, storeVars, pc, session, turn, todo, waited, age, ledger>>
  BY DEF Disconnect
<1>3. StoreGrows /\ decision' = decision
  BY <1>1, <1>2, StoreIdle DEF doorVars
<1>4. RunTypes'
  BY <1>1, <1>2 DEF RunTypes, Disconnect
<1>5. \A s \in Runs : SameRun(s)
  BY <1>2, <1>3 DEF SameRun
<1> QED
  BY <1>2, <1>3, <1>4, <1>5, QuietKeeps

LEMMA DecideKeeps ==
  ASSUME IInv, NEW a \in Actions, Approve(a) \/ Deny(a)
  PROVE  IInv'
<1>1. TypeOK /\ StoreInv /\ RunTypes
  BY TypesOf DEF IInv
<1>2. UNCHANGED <<doorVars, runVars>> /\ StoreGrows
  BY <1>1, StoreSteps DEF Approve, Deny
<1>3. RunTypes' /\ UNCHANGED ledger
  BY <1>1, <1>2 DEF RunTypes, runVars
<1>4. \A s \in Runs : SameRun(s)
  BY <1>2 DEF SameRun, runVars, doorVars
<1> QED
  BY <1>2, <1>3, <1>4, QuietKeeps

LEMMA ClosingKeeps ==
  ASSUME IInv, NEW r \in Runs, Closing(r)
  PROVE  IInv'
<1>1. TypeOK /\ StoreInv /\ RunInv(r)
  BY DEF IInv
<1>2. UNCHANGED doorVars
  BY ClosingIsTrue
<1>3. PICK from \in Holding, told \in Told, crossed \in BOOLEAN :
        Over(r, from, told, crossed) /\ Truly(r, from, told, crossed)
  BY ClosingIsTrue
<1>4. pc[r] = from /\ todo[r] # <<>>
  BY <1>1, <1>3 DEF Over, RunInv
<1>5. PICK a \in Actions : a = Held(r)
  BY <1>1, <1>4, HeldType
<1>6. StoreGrows
  BY <1>1, <1>5, ClosingIsTrue, StoreSteps
<1> QED
  BY <1>2, <1>3, <1>6, OverKeeps

-----------------------------------------------------------------------------
(* The steps of the front door.                                            *)

\* What the door's steps share: they move no run.
LEMMA DoorSteps ==
  ASSUME IInv, UNCHANGED <<storeVars, runVars>>,
         DoorTypeOK', DoorInv', RoutedBySavedMap',
         \A s \in Runs : decision'[s] = decision[s] \/ dpc[s] = "idle"
  PROVE  IInv'
<1>1. TypeOK /\ StoreInv /\ DoorInv /\ RunTypes
  BY TypesOf DEF IInv
<1>2. StoreGrows /\ RunTypes' /\ UNCHANGED ledger
  BY <1>1, StoreIdle DEF RunTypes, runVars
<1>3. ASSUME NEW s \in Runs, dpc[s] = "idle"
      PROVE  ledger[s] = <<>> /\ RunInv(s)'
  <2>1. decision[s] = Nowhere
    BY <1>1, <1>3 DEF DoorInv
  <2>2. pc[s] = "absent" /\ ledger[s] = <<>> /\ session[s] = {}
    BY <2>1 DEF IInv, RunInv
  <2> QED
    BY <2>2 DEF RunInv, Holding, runVars
<1>4. ASSUME NEW s \in Runs, decision'[s] = decision[s]
      PROVE  SameRun(s)
  BY <1>4 DEF SameRun, runVars
<1> QED
  BY <1>2, <1>3, <1>4, StepKeeps

LEMMA EditKeeps ==
  ASSUME IInv, NEW e \in Editors, Truncate(e) \/ Write(e), UNCHANGED <<storeVars, runVars>>
  PROVE  IInv'
<1>1. DoorTypeOK /\ DoorInv /\ RoutedBySavedMap
  BY DEF IInv, TypeOK
<1>2. UNCHANGED <<body, dpc, disposition, decision, ingress>> /\ saved \subseteq saved'
  BY DEF Truncate, Write
<1>3. Draft[e] \in Maps /\ <<>> \in Maps /\ Size[Draft[e]] \in Nat
  BY FrontDoorAssumption DEF Maps
<1>4. /\ mapFile' \in [parses : BOOLEAN, defs : Maps, size : Nat]
      /\ saved' \subseteq Maps
      /\ mapFile'.parses => mapFile'.defs \in saved' \cup {<<>>}
  <2>1. CASE Truncate(e)
    BY <1>1, <1>3, <2>1 DEF Truncate, Empty, DoorInv
  <2>2. CASE Write(e)
    <3>1. mapFile \in [parses : BOOLEAN, defs : Maps, size : Nat] /\ Draft[e] \in saved /\ saved' = saved
      BY <1>1, <2>2 DEF Write, DoorInv, DoorTypeOK
    <3>2. CASE mapFile' = Written(Draft[e])
      <4>1. CASE mapFile' = [parses |-> TRUE, defs |-> Draft[e], size |-> Size[Draft[e]]]
        BY <1>1, <1>3, <3>1, <4>1 DEF DoorInv
      <4>2. CASE mapFile' = [mapFile EXCEPT !.parses = FALSE]
        BY <1>1, <3>1, <4>2 DEF DoorInv
      <4> QED
        BY <3>2, <4>1, <4>2 DEF Written
    <3>3. CASE mapFile' = [mapFile EXCEPT !.parses = FALSE, !.size = @ + 1]
      <4>1. mapFile.size \in Nat /\ mapFile.defs \in Maps
        BY <3>1
      <4>2. mapFile' = [parses |-> FALSE, defs |-> mapFile.defs, size |-> mapFile.size + 1]
        BY <3>1, <3>3
      <4>3. mapFile' \in [parses : BOOLEAN, defs : Maps, size : Nat] /\ ~mapFile'.parses
        BY <4>1, <4>2
      <4> QED
        BY <1>1, <3>1, <4>3 DEF DoorInv
    <3> QED
      BY <2>2, <3>2, <3>3 DEF Write
  <2> QED
    BY <2>1, <2>2
<1>5. /\ epc' \in [Editors -> {"idle", "writing", "done"}]
      /\ \A f \in Editors : epc'[f] = "writing" => Draft[f] \in saved'
  <2>1. CASE Truncate(e)
    BY <1>1, <2>1 DEF Truncate, DoorInv, DoorTypeOK
  <2>2. CASE Write(e)
    BY <1>1, <2>2 DEF Write, DoorInv, DoorTypeOK
  <2> QED
    BY <2>1, <2>2
<1>6. DoorTypeOK'
  BY <1>1, <1>2, <1>4, <1>5 DEF DoorTypeOK
<1>7. DoorInv'
  BY <1>1, <1>2, <1>4, <1>5 DEF DoorInv
<1>8. RoutedBySavedMap'
  BY <1>1, <1>2 DEF RoutedBySavedMap
<1> QED
  BY <1>2, <1>6, <1>7, <1>8, DoorSteps

\* The decision of r was routed by the saved map.
Routed(r) ==
  CASE decision[r].mode = "deterministic" ->
         \E m \in saved : \E i \in 1..Len(m) :
           /\ Satisfies(body[r].event, m[i].match)
           /\ \A j \in 1..i-1 : ~Satisfies(body[r].event, m[j].match)
           /\ decision[r] = Follow(m[i])
           /\ (r \in Deliveries /\ m[i].attributed) => (HasSecret /\ body[r].signed)
    [] decision[r].mode = "model" ->
         \E p \in Rows : p.valid /\ p.recipe = decision[r].recipe
    [] OTHER -> TRUE

LEMMA RoutedEach == RoutedBySavedMap <=> \A r \in Runs : Routed(r)
BY DEF RoutedBySavedMap, Routed

\* A decision that follows the map on file was routed by a saved map.
LEMMA FollowIsRouted ==
  ASSUME DoorInv, NEW r \in Runs, NEW dec, mapFile.parses, mapFile.defs \in Maps,
         Follows(dec, mapFile.defs, body[r].event),
         r \in Deliveries /\ mapFile.defs[FirstOf(Matching(mapFile.defs, body[r].event))].attributed
           => HasSecret /\ body[r].signed,
         decision'[r] = dec, body' = body, saved' = saved
  PROVE  Routed(r)'
<1>1. PICK m \in Maps : m = mapFile.defs
  OBVIOUS
<1>2. PICK event : event = body[r].event
  OBVIOUS
<1>3. PICK i : i = FirstOf(Matching(m, event))
  OBVIOUS
<1>4. /\ Matching(m, event) # {} /\ dec = Follow(m[i])
      /\ r \in Deliveries /\ m[i].attributed => HasSecret /\ body[r].signed
  BY <1>1, <1>2, <1>3 DEF Follows
<1>5. /\ i \in 1..Len(m) /\ MatchAll(m[i].match, event)
      /\ \A j \in 1..i-1 : ~MatchAll(m[j].match, event)
  BY <1>3, <1>4, FirstMatches
<1>6. m \in saved
  <2>1. m \in saved \cup {<<>>}
    BY <1>1 DEF DoorInv
  <2>2. m # <<>>
    BY <1>5, EmptySeq
  <2> QED
    BY <2>1, <2>2
<1>7. dec.mode = "deterministic"
  BY <1>4 DEF Follow
<1>8. \E m2 \in saved' : \E i2 \in 1..Len(m2) :
        /\ Satisfies(event, m2[i2].match)
        /\ \A j \in 1..i2-1 : ~Satisfies(event, m2[j].match)
        /\ dec = Follow(m2[i2])
        /\ r \in Deliveries /\ m2[i2].attributed => HasSecret /\ body'[r].signed
  BY <1>4, <1>5, <1>6 DEF MatchAll, Satisfies
<1> QED
  BY <1>2, <1>7, <1>8 DEF Routed

LEMMA RoutedStays ==
  ASSUME NEW r \in Runs, Routed(r), decision'[r] = decision[r], body' = body, saved' = saved
  PROVE  Routed(r)'
BY DEF Routed

LEMMA NowhereIsRouted ==
  ASSUME NEW r \in Runs, decision'[r] = Nowhere
  PROVE  Routed(r)'
<1>1. decision'[r].mode = "none"
  BY DEF Nowhere
<1> QED
  BY <1>1 DEF Routed

LEMMA NowhereType == Nowhere.mode = "none" /\ Nowhere.recipe \in RecipeNames
BY DEF Nowhere, RecipeNames

LEMMA ResolveKeeps ==
  ASSUME IInv, NEW d \in Deliveries, Resolve(d), UNCHANGED <<storeVars, runVars>>
  PROVE  IInv'
<1>1. DoorTypeOK /\ DoorInv /\ RoutedBySavedMap /\ d \in Runs
  BY DEF IInv, TypeOK, Runs
<1>2. /\ UNCHANGED <<body, mapFile, saved, epc, ingress>>
      /\ dpc[d] = "idle" /\ mapFile.parses /\ mapFile.defs \in Maps
  BY <1>1 DEF Resolve, DoorTypeOK
<1>3. PICK dec : dec = Launched(d)
  OBVIOUS
<1>4. decision' = [decision EXCEPT ![d] = dec] /\ DOMAIN decision = Runs
  BY <1>1, <1>3 DEF Resolve, DoorTypeOK
<1>5. \/ dec = Nowhere
      \/ /\ Follows(dec, mapFile.defs, body[d].event)
         /\ mapFile.defs[FirstOf(Matching(mapFile.defs, body[d].event))].attributed
              => HasSecret /\ body[d].signed
  BY <1>3, ResolveLaunches
<1>6. dec.mode \in {"none", "deterministic", "model"} /\ dec.recipe \in RecipeNames
  BY <1>2, <1>5, NowhereType, FollowType
<1>7. DoorTypeOK'
  <2>1. dpc' \in [Runs -> {"idle", "resolved", "answered", "lost"}]
    BY <1>1 DEF Resolve, DoorTypeOK
  <2>2. disposition' \in [Deliveries -> Dispositions]
    <3>1. Disposition(d) \in Dispositions
      BY DEF Disposition, Dispositions
    <3> QED
      BY <1>1, <3>1 DEF Resolve, DoorTypeOK
  <2>3. /\ DOMAIN decision' = Runs
        /\ \A s \in Runs : /\ decision'[s].mode \in {"none", "deterministic", "model"}
                           /\ decision'[s].recipe \in RecipeNames
    BY <1>1, <1>4, <1>6 DEF DoorTypeOK
  <2> QED
    BY <1>1, <1>2, <2>1, <2>2, <2>3 DEF DoorTypeOK
<1>8. DoorInv'
  BY <1>1, <1>2, <1>4 DEF DoorInv, Resolve, DoorTypeOK
<1>9. RoutedBySavedMap'
  <2>1. Routed(d)'
    BY <1>1, <1>2, <1>4, <1>5, NowhereIsRouted, FollowIsRouted
  <2>2. \A s \in Runs : Routed(s)'
    BY <1>1, <1>2, <1>4, <2>1, RoutedStays, RoutedEach
  <2> QED
    BY <2>2 DEF RoutedBySavedMap, Routed
<1> QED
  BY <1>2, <1>4, <1>7, <1>8, <1>9, DoorSteps

LEMMA ConsoleKeeps ==
  ASSUME IInv, NEW k \in Consoles, ResolveConsole(k), UNCHANGED <<storeVars, runVars>>
  PROVE  IInv'
<1>1. DoorTypeOK /\ DoorInv /\ RoutedBySavedMap /\ k \in Runs /\ k \notin Deliveries
  BY FrontDoorAssumption DEF IInv, TypeOK, Runs
<1>2. UNCHANGED <<body, mapFile, saved, epc, disposition, ingress>> /\ dpc[k] = "idle"
  BY DEF ResolveConsole
<1>3. DOMAIN decision = Runs /\ decision[k] = Nowhere /\ mapFile.defs \in Maps
  BY <1>1, <1>2 DEF DoorTypeOK, DoorInv
<1>4. PICK dec : /\ DOMAIN decision' = Runs
                 /\ \A s \in Runs : decision'[s] = IF s = k THEN dec ELSE decision[s]
                 /\ \/ dec = Nowhere
                    \/ mapFile.parses /\ Follows(dec, mapFile.defs, body[k].event)
                    \/ \E p \in Proposals : dec = Adopt(p) /\ p.recipe \in Catalog(Rows)
  <2>1. CASE UNCHANGED decision
    BY <1>3, <2>1
  <2>2. ASSUME NEW dec, decision' = [decision EXCEPT ![k] = dec]
        PROVE  /\ DOMAIN decision' = Runs
               /\ \A s \in Runs : decision'[s] = IF s = k THEN dec ELSE decision[s]
    BY <1>3, <2>2
  <2> QED
    BY <2>1, <2>2, ConsoleLaunches
<1>5. /\ dec.mode \in {"none", "deterministic", "model"} /\ dec.recipe \in RecipeNames
  <2>1. ASSUME NEW p \in Proposals, dec = Adopt(p)
        PROVE  dec.mode = "model" /\ dec.recipe \in RecipeNames
    BY <2>1 DEF Adopt, RecipeNames
  <2> QED
    BY <1>3, <1>4, <2>1, NowhereType, FollowType
<1>6. DoorTypeOK'
  <2>1. dpc' \in [Runs -> {"idle", "resolved", "answered", "lost"}]
    BY <1>1 DEF ResolveConsole, Answer, DoorTypeOK
  <2>2. /\ DOMAIN decision' = Runs
        /\ \A s \in Runs : /\ decision'[s].mode \in {"none", "deterministic", "model"}
                           /\ decision'[s].recipe \in RecipeNames
    BY <1>1, <1>4, <1>5 DEF DoorTypeOK
  <2> QED
    BY <1>1, <1>2, <2>1, <2>2 DEF DoorTypeOK
<1>7. DoorInv'
  <2>1. \A r \in Runs : dpc'[r] = "idle" => dpc[r] = "idle" /\ r # k
    BY <1>1 DEF ResolveConsole, Answer, DoorTypeOK
  <2> QED
    BY <1>1, <1>2, <1>4, <2>1 DEF DoorInv
<1>8. RoutedBySavedMap'
  <2>1. Routed(k)'
    <3>1. CASE dec = Nowhere
      BY <1>3, <1>4, <3>1, <1>1, NowhereIsRouted
    <3>2. CASE mapFile.parses /\ Follows(dec, mapFile.defs, body[k].event)
      BY <1>1, <1>2, <1>3, <1>4, <3>2, FollowIsRouted
    <3>3. ASSUME NEW p \in Proposals, dec = Adopt(p), p.recipe \in Catalog(Rows)
          PROVE  Routed(k)'
      <4>1. dec.mode = "model" /\ \E q \in Rows : q.valid /\ q.recipe = dec.recipe
        BY <3>3 DEF Adopt, Catalog
      <4>2. decision'[k] = dec
        BY <1>1, <1>3, <1>4
      <4> QED
        BY <4>1, <4>2 DEF Routed
    <3> QED
      BY <1>4, <3>1, <3>2, <3>3
  <2>2. \A s \in Runs : Routed(s)'
    BY <1>1, <1>2, <1>4, <2>1, RoutedStays, RoutedEach
  <2> QED
    BY <2>2 DEF RoutedBySavedMap, Routed
<1> QED
  BY <1>2, <1>4, <1>6, <1>7, <1>8, DoorSteps

\* The steps of a delivery that route nothing.
LEMMA RecordKeeps ==
  ASSUME IInv, NEW d \in Deliveries, UNCHANGED <<storeVars, runVars>>,
         RefuseShape(d) \/ RefuseUnreadable(d) \/ RecordArrival(d)
  PROVE  IInv'
<1>1. DoorTypeOK /\ DoorInv /\ RoutedBySavedMap /\ d \in Runs
  BY DEF IInv, TypeOK, Runs
<1>2. UNCHANGED <<body, mapFile, saved, epc, decision>> /\ Answer(d)
  BY DEF RefuseShape, RefuseUnreadable, RecordArrival
<1>3. disposition' \in [Deliveries -> Dispositions]
  BY <1>1 DEF RefuseShape, RefuseUnreadable, RecordArrival, DoorTypeOK, Dispositions
<1>4. ASSUME NEW what \in Dispositions, NEW recipe \in RecipeNames, Recorded(d, what, recipe)
      PROVE  ingress' \in Seq([of : Deliveries, disposition : Dispositions, recipe : RecipeNames])
  <2> DEFINE Leaf == [of : Deliveries, disposition : Dispositions, recipe : RecipeNames]
             leaf == [of |-> d, disposition |-> what, recipe |-> recipe]
  <2>1. leaf \in Leaf /\ ingress \in Seq(Leaf)
    BY <1>1 DEF DoorTypeOK
  <2>2. ingress' = ingress \/ ingress' = Append(ingress, leaf)
    BY <1>4 DEF Recorded
  <2> HIDE DEF Leaf, leaf
  <2>3. ingress' \in Seq(Leaf)
    BY <2>1, <2>2
  <2> QED
    BY <2>3 DEF Leaf
<1>5. ingress' \in Seq([of : Deliveries, disposition : Dispositions, recipe : RecipeNames])
  <2>1. CASE RefuseShape(d)
    BY <2>1, <1>4 DEF RefuseShape, Dispositions, RecipeNames
  <2>2. CASE RefuseUnreadable(d)
    BY <1>1, <2>2 DEF RefuseUnreadable, DoorTypeOK
  <2>3. CASE RecordArrival(d)
    BY <1>1, <2>3, <1>4 DEF RecordArrival, DoorTypeOK
  <2> QED
    BY <2>1, <2>2, <2>3
<1>6. dpc' = [dpc EXCEPT ![d] = "answered"] /\ dpc \in [Runs -> {"idle", "resolved", "answered", "lost"}]
  BY <1>1, <1>2 DEF Answer, DoorTypeOK
<1>7. DoorTypeOK'
  BY <1>1, <1>2, <1>3, <1>5, <1>6 DEF DoorTypeOK
<1>8. DoorInv'
  BY <1>1, <1>2, <1>6 DEF DoorInv
<1>9. RoutedBySavedMap'
  BY <1>1, <1>2 DEF RoutedBySavedMap
<1> QED
  BY <1>2, <1>7, <1>8, <1>9, DoorSteps

-----------------------------------------------------------------------------
(* The invariant holds.                                                    *)

LEMMA InitIInv == Init => IInv
<1> SUFFICES ASSUME Init PROVE IInv
  OBVIOUS
<1> USE DEF Init, DoorInit
<1>1. <<>> \in Maps /\ FirstMap \in Maps /\ Size[FirstMap] \in Nat
  BY FrontDoorAssumption DEF Maps
<1>2. DoorTypeOK
  <2>1. ingress \in Seq([of : Deliveries, disposition : Dispositions, recipe : RecipeNames])
    BY EmptySeq
  <2>2. \A r \in Runs : decision[r].mode = "none" /\ decision[r].recipe \in RecipeNames
    BY NowhereType
  <2>3. disposition \in [Deliveries -> Dispositions]
    BY DEF Dispositions
  <2> QED
    BY <1>1, <2>1, <2>2, <2>3 DEF DoorTypeOK
<1>3. TypeOK
  <2>1. \A S : <<>> \in Seq(S)
    BY EmptySeq
  <2>2. MaxTurns \in Nat /\ Lifetime \in Nat /\ Timeout \in Nat
    BY HarnessAssumption
  <2>3. /\ turn \in [Runs -> 0..MaxTurns] /\ waited \in [Runs -> 0..Timeout]
        /\ age \in [Runs -> 0..Lifetime]
    BY <2>2
  <2>4. /\ todo \in [Runs -> Seq(Actions)]
        /\ ledger \in [Runs -> Seq([action : Actions, told : Told, crossed : BOOLEAN])]
    BY <2>1
  <2> QED
    BY <1>2, <2>3, <2>4 DEF TypeOK, RowStatus, Positions
<1>4. DoorInv
  BY <1>1 DEF DoorInv
<1>5. StoreInv
  BY DEF StoreInv
<1>6. RoutedBySavedMap
  BY NowhereType DEF RoutedBySavedMap
<1>7. ASSUME NEW r \in Runs
      PROVE  RunInv(r) /\ LedgerInv(r)
  BY EmptySeq DEF RunInv, Holding, LedgerInv
<1> QED
  BY <1>3, <1>4, <1>5, <1>6, <1>7 DEF IInv

\* The steps of the orchestrator, by what they do to a run.
LEMMA StepsOfNext ==
  ASSUME Next
  PROVE  \/ \E e \in Editors : (Truncate(e) \/ Write(e)) /\ UNCHANGED <<storeVars, runVars>>
         \/ \E r \in Runs : DoorStep(r)
         \/ \E r \in Runs : Closing(r)
         \/ \E r \in Runs : Bind(r) \/ SetUp(r) \/ Propose(r) \/ Finish(r)
         \/ \E r \in Runs : Send(r) \/ CallEscalates(r) \/ PollApproved(r) \/ ReplayFinds(r)
         \/ \E r \in Runs : Disconnect(r)
         \/ \E a \in Actions : Approve(a) \/ Deny(a)
         \/ Tick
         \/ Crash
<1>1. ASSUME NEW r \in Runs, OwnStep(r) \/ GateStep(r)
      PROVE  \/ Closing(r)
             \/ Bind(r) \/ SetUp(r) \/ Propose(r) \/ Finish(r)
             \/ Send(r) \/ CallEscalates(r) \/ PollApproved(r) \/ ReplayFinds(r)
  BY <1>1, Zenon DEF OwnStep, GateStep, Closing
<1> QED
  BY <1>1, Zenon DEF Next

LEMMA NextKeeps ==
  ASSUME IInv, [Next]_vars
  PROVE  IInv'
<1>1. CASE UNCHANGED vars
  <2>1. UNCHANGED <<doorVars, storeVars, runVars>>
    BY <1>1 DEF vars
  <2>2. DoorTypeOK' /\ DoorInv' /\ RoutedBySavedMap' /\ decision' = decision
    BY <2>1, DoorKept, DoorInvKept DEF doorVars
  <2> QED
    BY <2>1, <2>2, DoorSteps
<1>2. CASE Next
  <2>1. ASSUME NEW r \in Runs, DoorStep(r)
        PROVE  IInv'
    BY <2>1, RecordKeeps, ResolveKeeps, ConsoleKeeps DEF DoorStep, HandleDelivery
  <2> QED
    <3>1. ASSUME NEW r \in Runs, Finish(r)
          PROVE  IInv'
      BY <3>1, FinishKeeps DEF Finish
    <3> QED
      BY <1>2, <2>1, <3>1, StepsOfNext, EditKeeps, ClosingKeeps, BindKeeps, SetUpKeeps,
         ProposeKeeps, MovesOn, DisconnectKeeps, DecideKeeps, TickKeeps, CrashKeeps
<1> QED
  BY <1>1, <1>2

LEMMA Inductive == Spec => []IInv
<1>1. IInv /\ [Next]_vars => IInv'
  BY NextKeeps
<1> QED
  BY InitIInv, <1>1, PTL DEF Spec

\* The type invariant of the orchestrator and its front door.
THEOREM TypeCorrect == Spec => []TypeOK
<1>1. IInv => TypeOK
  BY DEF IInv
<1> QED
  BY Inductive, <1>1, PTL

\* Whatever the gate, the network and people do, the model is never told that a
\* call was performed when it did not cross, nor that it was not when it did
\* (callGated, agent.go:96-129).
THEOREM TellsTheTruth == Spec => []ToldTheTruth
<1>1. IInv => ToldTheTruth
  BY DEF IInv, LedgerInv, CallInv, ToldTheTruth
<1> QED
  BY Inductive, <1>1, PTL

\* Whatever the models propose, a call crosses only on a route of the decision
\* and under its recipe, with an approval if that asks for one (dispatch.go:8-10).
THEOREM Containment == Spec => []MisrouteContained
<1>1. IInv => MisrouteContained
  BY DEF IInv, LedgerInv, CallInv, Contained, MisrouteContained
<1> QED
  BY Inductive, <1>1, PTL

\* A run follows the first matching definition of a saved map, or a recipe of
\* the catalog, however saves, deliveries and requests interleave
\* (ingress.go:32-97, dispatch.go:91-113).
THEOREM Routing == Spec => []RoutedBySavedMap
<1>1. IInv => RoutedBySavedMap
  BY DEF IInv
<1> QED
  BY Inductive, <1>1, PTL

-----------------------------------------------------------------------------
(* What a step may never do.                                               *)

\* The steps that move the approval queue or a ledger.
LEMMA WhoActs ==
  ASSUME Next
  PROVE  \/ \E r \in Runs : Closing(r)
         \/ \E r \in Runs : CallEscalates(r)
         \/ \E a \in Actions : Approve(a) \/ Deny(a)
         \/ UNCHANGED <<storeVars, ledger>>
BY StepsOfNext DEF DoorStep, Bind, SetUp, Propose, Finish, End, Send, PollApproved, ReplayFinds,
                   Disconnect, Tick, Crash, runVars

\* An approval leaves the queue only when a replay spends it.
LEMMA SpendStep ==
  ASSUME IInv, [Next]_vars, NEW a \in Actions, row[a] = "approved", row'[a] # "approved"
  PROVE  \E r \in Runs : pc[r] = "releasing" /\ pc'[r] # "releasing" /\ Held(r) = a
<1>1. TypeOK
  BY DEF IInv
<1>2. ASSUME NEW b \in Actions, RecordPending(b) \/ Approve(b) \/ Deny(b)
      PROVE  FALSE
  BY <1>1, <1>2 DEF TypeOK, RecordPending, Approve, Deny, ApproveApproval, DenyApproval
<1>3. ASSUME NEW r \in Runs, todo[r] # <<>>
      PROVE  Held(r) \in Actions
  BY <1>1, <1>3, HeldType
<1>4. row' # row /\ ~UNCHANGED storeVars /\ ~UNCHANGED vars
  BY DEF storeVars, vars
<1>5. CASE \E r \in Runs : CallEscalates(r)
  <2>1. PICK r \in Runs : CallEscalates(r)
    BY <1>5
  <2>2. todo[r] # <<>>
    BY <2>1 DEF IInv, RunInv, Holding, CallEscalates, Goto
  <2>3. PICK b \in Actions : b = Held(r)
    BY <1>3, <2>2
  <2> QED
    BY <1>2, <2>1, <2>3 DEF CallEscalates
<1>6. CASE \E r \in Runs : Closing(r)
  <2>1. PICK r \in Runs : Closing(r)
    BY <1>6
  <2>2. PICK from \in Holding, told \in Told, crossed \in BOOLEAN : Over(r, from, told, crossed)
    BY <2>1, ClosingIsTrue
  <2>3. todo[r] # <<>>
    BY <2>2 DEF IInv, RunInv, Over
  <2>4. PICK b \in Actions : b = Held(r)
    BY <1>3, <2>3
  <2>5. pc[r] = "releasing" /\ Consume(b)
    BY <1>2, <1>4, <2>1, <2>4, ClosingIsTrue
  <2>6. b = a
    BY <1>1, <2>5 DEF Consume, TypeOK
  <2>7. pc'[r] # "releasing"
    BY <1>1, <2>2 DEF Over, TypeOK
  <2> QED
    BY <2>4, <2>5, <2>6, <2>7
<1> QED
  BY <1>2, <1>4, <1>5, <1>6, WhoActs

\* An approval a person gave survives every wait that is given up, every context
\* that ends and every restart (agent/approval.go:80-104).
THEOREM ApprovalsSurvive == Spec => SpentOnlyByReplay
<1>1. IInv /\ [Next]_vars =>
        \A a \in Actions : row[a] = "approved" /\ row'[a] # "approved" =>
          \E r \in Runs : pc[r] = "releasing" /\ pc'[r] # "releasing" /\ Held(r) = a
  BY SpendStep
<1> QED
  BY Inductive, <1>1, PTL DEF Spec, SpentOnlyByReplay

\* A call that a run ends did not cross, unless the gate had it.
LEMMA OnlyTheGateCrosses ==
  ASSUME IInv, [Next]_vars, NEW r \in Runs, ~AtGate(r), ledger'[r] # ledger[r]
  PROVE  ~ledger'[r][Len(ledger'[r])].crossed
<1>1. TypeOK
  BY DEF IInv
<1>2. PICK s \in Runs : Closing(s)
  BY WhoActs DEF CallEscalates, Approve, Deny, runVars, vars
<1>3. PICK from \in Holding, told \in Told, crossed \in BOOLEAN :
        Over(s, from, told, crossed) /\ Truly(s, from, told, crossed)
  BY <1>2, ClosingIsTrue
<1>4. s = r
  BY <1>1, <1>3 DEF Over, TypeOK
<1>5. ~crossed
  BY <1>3, <1>4 DEF Truly, Over, AtGate
<1>6. todo[r] # <<>>
  BY <1>3, <1>4 DEF IInv, RunInv, Over
<1>7. PICK call \in CallRecord : call = [action |-> Held(r), told |-> told, crossed |-> crossed]
  BY <1>1, <1>6, HeldType DEF CallRecord
<1>8. ledger[r] \in Seq(CallRecord) /\ ledger'[r] = Append(ledger[r], call)
  BY <1>1, <1>3, <1>4, <1>7 DEF TypeOK, Over, CallRecord
<1>9. ledger'[r][Len(ledger'[r])] = call
  BY <1>8, AppendProperties
<1> QED
  BY <1>5, <1>7, <1>9

\* A run gets a call to the gate only by sending it, while its context lasts.
LEMMA OnlySendReaches ==
  ASSUME IInv, [Next]_vars, NEW r \in Runs, ~AtGate(r), AtGate(r)'
  PROVE  ~cut[r]
<1>1. pc \in [Runs -> Positions] /\ pc'[r] # pc[r]
  BY DEF IInv, TypeOK, AtGate
<1>2. ASSUME NEW s \in Runs, Closing(s)
      PROVE  FALSE
  <2>1. PICK from \in Holding, told \in Told, crossed \in BOOLEAN : Over(s, from, told, crossed)
    BY <1>2, ClosingIsTrue
  <2>2. pc'[r] \in {pc[r], "thinking", "calling"}
    BY <1>1, <2>1 DEF Over
  <2> QED
    BY <1>1, <2>2 DEF AtGate
<1>3. ASSUME NEW s \in Runs, Bind(s) \/ SetUp(s) \/ Propose(s) \/ Finish(s)
      PROVE  FALSE
  <2>1. pc'[r] \in {pc[r], "connecting", "thinking", "calling", "ended"}
    BY <1>1, <1>3 DEF Bind, SetUp, Propose, Finish, End, Goto
  <2> QED
    BY <1>1, <2>1 DEF AtGate
<1>4. ASSUME NEW s \in Runs, CallEscalates(s) \/ PollApproved(s) \/ ReplayFinds(s)
      PROVE  FALSE
  <2>1. \/ pc'[r] \in {pc[r], "awaiting", "replaying"}
        \/ s = r /\ pc[r] = "resent"
    BY <1>1, <1>4 DEF CallEscalates, PollApproved, ReplayFinds, Goto
  <2> QED
    BY <1>1, <2>1 DEF AtGate
<1>5. ~Crash
  BY <1>1 DEF Crash, End, AtGate
<1>6. PICK s \in Runs : Send(s)
  BY <1>1, <1>2, <1>3, <1>4, <1>5, StepsOfNext
     DEF DoorStep, Disconnect, Approve, Deny, Tick, runVars, vars
<1> QED
  BY <1>1, <1>6 DEF Send, Goto

\* A run whose context has ended sends neither a call nor a replay, and only the
\* call the gate had by then can still cross (ingress.go:102-104, agent.go:66-129).
THEOREM CutMeansCut == Spec => CutRunsStopActing
<1>1. IInv /\ [Next]_vars =>
        \A r \in Runs :
          cut[r] /\ ~AtGate(r)
            => /\ ~AtGate(r)'
               /\ ledger'[r] # ledger[r] => ~ledger'[r][Len(ledger'[r])].crossed
  BY OnlyTheGateCrosses, OnlySendReaches
<1> QED
  BY Inductive, <1>1, PTL DEF Spec, CutRunsStopActing

-----------------------------------------------------------------------------
(* The ingress log.                                                        *)

\* What the position of a delivery says of its leaf and of the run it launched.
ArrivalInv(d) ==
  /\ \A i, j \in LeavesOf(d) : i = j
  /\ dpc[d] = "idle" => disposition[d] = "none"
  /\ disposition[d] = "dispatched" <=> decision[d] # Nowhere
  /\ \A i \in LeavesOf(d) :
       /\ dpc[d] = "answered"
       /\ ingress[i].disposition = disposition[d]
       /\ ingress[i].recipe = decision[d].recipe
  /\ ~LogFails /\ dpc[d] = "answered" /\ disposition[d] # "unreadable" => LeavesOf(d) # {}

ArrivalsInv == \A d \in Deliveries : ArrivalInv(d)

\* A step that only loses the handler of d, or leaves it where it is.
LEMMA ArrivalStays ==
  ASSUME NEW d \in Deliveries, ArrivalInv(d),
         dpc'[d] = dpc[d] \/ (dpc[d] = "resolved" /\ dpc'[d] = "lost"),
         disposition'[d] = disposition[d], decision'[d] = decision[d],
         LeavesOf(d)' = LeavesOf(d),
         \A i \in LeavesOf(d) : ingress'[i] = ingress[i]
  PROVE  ArrivalInv(d)'
BY DEF ArrivalInv

\* A leaf that is appended is one more leaf of its delivery, at the end, and of no
\* other.
LEMMA LeafAppended ==
  ASSUME TypeOK, NEW d \in Deliveries, NEW what \in Dispositions, NEW recipe \in RecipeNames,
         ingress' = Append(ingress, [of |-> d, disposition |-> what, recipe |-> recipe])
  PROVE  /\ LeavesOf(d)' = LeavesOf(d) \cup {Len(ingress) + 1}
         /\ ingress'[Len(ingress) + 1] = [of |-> d, disposition |-> what, recipe |-> recipe]
         /\ \A e \in Deliveries \ {d} : LeavesOf(e)' = LeavesOf(e)
         /\ \A i \in 1..Len(ingress) : ingress'[i] = ingress[i]
<1> DEFINE Leaf == [of : Deliveries, disposition : Dispositions, recipe : RecipeNames]
           leaf == [of |-> d, disposition |-> what, recipe |-> recipe]
           n    == Len(ingress)
<1>1. leaf \in Leaf /\ leaf.of = d /\ ingress \in Seq(Leaf) /\ ingress' = Append(ingress, leaf)
  BY DEF TypeOK, DoorTypeOK
<1> HIDE DEF Leaf, leaf
<1>2. /\ n \in Nat /\ Len(ingress') = n + 1 /\ ingress'[n + 1] = leaf
      /\ \A i \in 1..n : ingress'[i] = ingress[i]
  BY <1>1, AppendProperties
<1>3. 1..n + 1 = 1..n \cup {n + 1}
  BY <1>2
<1>4. LeavesOf(d)' = LeavesOf(d) \cup {n + 1}
  BY <1>1, <1>2, <1>3 DEF LeavesOf
<1>5. ASSUME NEW e \in Deliveries \ {d}
      PROVE  LeavesOf(e)' = LeavesOf(e)
  BY <1>1, <1>2, <1>3 DEF LeavesOf
<1> QED
  BY <1>2, <1>4, <1>5 DEF leaf

\* A delivery that is handled: its leaf, and everybody else's.
LEMMA RecordedOnce ==
  ASSUME IInv, ArrivalsInv, NEW d \in Deliveries, dpc[d] # "answered",
         NEW what \in Dispositions, NEW recipe \in RecipeNames, Recorded(d, what, recipe),
         dpc' = [dpc EXCEPT ![d] = "answered"],
         disposition' = [disposition EXCEPT ![d] = what],
         decision' = decision, recipe = decision[d].recipe,
         what = "dispatched" <=> decision[d] # Nowhere
  PROVE  ArrivalsInv'
<1>1. TypeOK /\ DoorTypeOK /\ d \in Runs
  BY DEF IInv, TypeOK, Runs
<1>2. /\ dpc'[d] = "answered" /\ disposition'[d] = what
      /\ \A e \in Deliveries \ {d} : dpc'[e] = dpc[e] /\ disposition'[e] = disposition[e]
  BY <1>1 DEF DoorTypeOK, Runs
<1>3. LeavesOf(d) = {} /\ ArrivalInv(d)
  BY DEF ArrivalsInv, ArrivalInv
<1> DEFINE leaf == [of |-> d, disposition |-> what, recipe |-> recipe]
<1>4. CASE ingress' = Append(ingress, leaf)
  <2>1. /\ LeavesOf(d)' = {Len(ingress) + 1}
        /\ ingress'[Len(ingress) + 1] = leaf
        /\ \A e \in Deliveries \ {d} : LeavesOf(e)' = LeavesOf(e)
        /\ \A i \in 1..Len(ingress) : ingress'[i] = ingress[i]
    BY <1>1, <1>3, <1>4, LeafAppended
  <2>2. ArrivalInv(d)'
    BY <1>2, <2>1 DEF ArrivalInv
  <2>3. ASSUME NEW e \in Deliveries \ {d}
        PROVE  ArrivalInv(e)'
    <3>1. \A i \in LeavesOf(e) : ingress'[i] = ingress[i]
      BY <2>1 DEF LeavesOf
    <3> QED
      BY <1>2, <2>1, <3>1, ArrivalStays DEF ArrivalsInv
  <2> QED
    BY <2>2, <2>3 DEF ArrivalsInv
<1>5. CASE ingress' = ingress /\ LogFails
  <2>1. \A e \in Deliveries : LeavesOf(e)' = LeavesOf(e)
    BY <1>5 DEF LeavesOf
  <2>2. ArrivalInv(d)'
    BY <1>2, <1>3, <1>5, <2>1 DEF ArrivalInv
  <2>3. \A e \in Deliveries \ {d} : ArrivalInv(e)'
    BY <1>2, <1>5, <2>1, ArrivalStays DEF ArrivalsInv
  <2> QED
    BY <2>2, <2>3 DEF ArrivalsInv
<1> QED
  BY <1>4, <1>5 DEF Recorded

\* A step of the handler of a delivery.
LEMMA HandlerArrives ==
  ASSUME IInv, ArrivalsInv, NEW d \in Deliveries, HandleDelivery(d)
  PROVE  ArrivalsInv'
<1>1. TypeOK /\ DoorTypeOK /\ DoorInv /\ d \in Runs /\ ArrivalInv(d)
  BY DEF IInv, TypeOK, Runs, ArrivalsInv
<1>2. ASSUME ingress' = ingress
      PROVE  \A e \in Deliveries : LeavesOf(e)' = LeavesOf(e)
  BY <1>2 DEF LeavesOf
<1>3. CASE RefuseShape(d)
  <2>1. decision[d] = Nowhere /\ Nowhere.recipe = NoRecipe /\ NoRecipe \in RecipeNames
    BY <1>1, <1>3 DEF RefuseShape, DoorInv, Nowhere, RecipeNames
  <2>2. /\ dpc[d] # "answered" /\ Recorded(d, "shape", NoRecipe) /\ "shape" \in Dispositions
        /\ dpc' = [dpc EXCEPT ![d] = "answered"]
        /\ disposition' = [disposition EXCEPT ![d] = "shape"] /\ decision' = decision
    BY <1>3 DEF RefuseShape, Answer, Dispositions
  <2> QED
    BY <2>1, <2>2, RecordedOnce
<1>4. CASE RecordArrival(d)
  <2>1. disposition[d] \in Dispositions /\ decision[d].recipe \in RecipeNames
    BY <1>1 DEF DoorTypeOK
  <2>2. /\ dpc[d] = "resolved" /\ Recorded(d, disposition[d], decision[d].recipe)
        /\ dpc' = [dpc EXCEPT ![d] = "answered"]
        /\ disposition' = disposition /\ decision' = decision
    BY <1>4 DEF RecordArrival, Answer
  <2>3. disposition' = [disposition EXCEPT ![d] = disposition[d]]
    BY <1>1, <2>2 DEF DoorTypeOK
  <2>4. disposition[d] = "dispatched" <=> decision[d] # Nowhere
    BY <1>1 DEF ArrivalInv
  <2> QED
    BY <2>1, <2>2, <2>3, <2>4, RecordedOnce
<1>5. CASE RefuseUnreadable(d)
  <2>1. /\ dpc[d] = "idle" /\ dpc' = [dpc EXCEPT ![d] = "answered"]
        /\ disposition' = [disposition EXCEPT ![d] = "unreadable"]
        /\ UNCHANGED <<decision, ingress>>
    BY <1>5 DEF RefuseUnreadable, Answer
  <2>2. /\ dpc'[d] = "answered" /\ disposition'[d] = "unreadable"
        /\ \A e \in Deliveries \ {d} : dpc'[e] = dpc[e] /\ disposition'[e] = disposition[e]
    BY <1>1, <2>1 DEF DoorTypeOK, Runs
  <2>3. ArrivalInv(d)'
    BY <1>1, <1>2, <2>1, <2>2 DEF ArrivalInv, DoorInv
  <2>4. \A e \in Deliveries \ {d} : ArrivalInv(e)'
    BY <1>2, <2>1, <2>2, ArrivalStays DEF ArrivalsInv
  <2> QED
    BY <2>3, <2>4 DEF ArrivalsInv
<1>6. CASE Resolve(d)
  <2>1. /\ dpc[d] = "idle" /\ dpc' = [dpc EXCEPT ![d] = "resolved"]
        /\ disposition' = [disposition EXCEPT ![d] = Disposition(d)]
        /\ decision' = [decision EXCEPT ![d] = Launched(d)]
        /\ UNCHANGED ingress
    BY <1>6 DEF Resolve
  <2>2. /\ dpc'[d] = "resolved" /\ disposition'[d] = Disposition(d) /\ decision'[d] = Launched(d)
        /\ \A e \in Deliveries \ {d} : /\ dpc'[e] = dpc[e] /\ disposition'[e] = disposition[e]
                                       /\ decision'[e] = decision[e]
    BY <1>1, <2>1 DEF DoorTypeOK, Runs
  <2>3. Disposition(d) = "dispatched" <=> Launched(d) # Nowhere
    BY DEF Launched, Follow, Nowhere
  <2>4. LeavesOf(d) = {}
    BY <1>1, <2>1 DEF ArrivalInv
  <2>5. ArrivalInv(d)'
    BY <1>2, <2>1, <2>2, <2>3, <2>4 DEF ArrivalInv
  <2>6. \A e \in Deliveries \ {d} : ArrivalInv(e)'
    BY <1>2, <2>1, <2>2, ArrivalStays DEF ArrivalsInv
  <2> QED
    BY <2>5, <2>6 DEF ArrivalsInv
<1> QED
  BY <1>3, <1>4, <1>5, <1>6 DEF HandleDelivery

\* Only the handler of a delivery says anything of its arrival.
LEMMA ArrivalsKept ==
  ASSUME IInv, ArrivalsInv, [Next]_vars
  PROVE  ArrivalsInv'
<1>1. DoorTypeOK
  BY DEF IInv, TypeOK
<1>2. ASSUME \A d \in Deliveries : /\ \/ dpc'[d] = dpc[d]
                                      \/ dpc[d] = "resolved" /\ dpc'[d] = "lost"
                                   /\ decision'[d] = decision[d],
             UNCHANGED <<disposition, ingress>>
      PROVE  ArrivalsInv'
  BY <1>2, ArrivalStays DEF ArrivalsInv, LeavesOf
<1>3. CASE UNCHANGED <<dpc, disposition, decision, ingress>>
  BY <1>2, <1>3
<1>4. CASE Crash
  <2>1. \A d \in Deliveries : d \in Runs
    BY DEF Runs
  <2>2. \A d \in Deliveries : dpc'[d] = dpc[d] \/ (dpc[d] = "resolved" /\ dpc'[d] = "lost")
    BY <1>4, <2>1 DEF Crash
  <2> QED
    BY <1>2, <1>4, <2>2 DEF Crash
<1>5. ASSUME NEW r \in Runs, DoorStep(r)
      PROVE  ArrivalsInv'
  <2>1. CASE r \in Deliveries /\ HandleDelivery(r)
    BY <2>1, HandlerArrives
  <2>2. CASE r \in Consoles /\ ResolveConsole(r)
    <3>1. \A d \in Deliveries : d # r /\ d \in Runs
      BY <2>2, FrontDoorAssumption DEF Runs
    <3>2. UNCHANGED <<disposition, ingress>> /\ dpc' = [dpc EXCEPT ![r] = "answered"]
      BY <2>2 DEF ResolveConsole, Answer
    <3>3. UNCHANGED decision \/ \E dec : decision' = [decision EXCEPT ![r] = dec]
      BY <2>2, ConsoleLaunches
    <3> QED
      BY <1>1, <1>2, <3>1, <3>2, <3>3 DEF DoorTypeOK
  <2> QED
    BY <1>5, <2>1, <2>2 DEF DoorStep
<1>6. \/ UNCHANGED <<dpc, disposition, decision, ingress>> \/ Crash
      \/ \E r \in Runs : DoorStep(r)
  <2>1. CASE UNCHANGED vars
    BY <2>1 DEF vars, doorVars
  <2>2. CASE \E r \in Runs : Closing(r)
    BY <2>2, ClosingIsTrue DEF doorVars
  <2>3. CASE \E e \in Editors : Truncate(e) \/ Write(e)
    BY <2>3 DEF Truncate, Write
  <2>4. CASE \/ \E r \in Runs : Bind(r) \/ SetUp(r) \/ Propose(r) \/ Finish(r)
             \/ \E r \in Runs : Send(r) \/ CallEscalates(r) \/ PollApproved(r) \/ ReplayFinds(r)
             \/ \E r \in Runs : Disconnect(r)
             \/ \E a \in Actions : Approve(a) \/ Deny(a)
             \/ Tick
    BY <2>4 DEF Bind, SetUp, Propose, Finish, Send, CallEscalates, PollApproved, ReplayFinds, Disconnect,
                Approve, Deny, Tick, doorVars
  <2> QED
    BY <2>1, <2>2, <2>3, <2>4, StepsOfNext
<1> QED
  BY <1>3, <1>4, <1>5, <1>6

\* The ingress log does not lie, for any deliveries, saves and stops: at most one
\* leaf for each delivery, which says what was launched (ingress.go:46-97).
THEOREM ArrivalsTold == Spec => []ArrivalsAreTold
<1>1. Init => ArrivalsInv
  BY DEF Init, DoorInit, ArrivalsInv, ArrivalInv, LeavesOf, Runs
<1>2. IInv /\ ArrivalsInv => ArrivalsAreTold
  <2> SUFFICES ASSUME IInv, ArrivalsInv, NEW d \in Deliveries
               PROVE  /\ \A i, j \in LeavesOf(d) : i = j
                      /\ \A i \in LeavesOf(d) :
                           IF ingress[i].disposition = "dispatched"
                           THEN decision[d] # Nowhere /\ decision[d].recipe = ingress[i].recipe
                           ELSE decision[d] = Nowhere /\ pc[d] = "absent"
                      /\ ~LogFails /\ dpc[d] = "answered" /\ disposition[d] # "unreadable"
                           => LeavesOf(d) # {}
    BY Zenon DEF ArrivalsAreTold
  <2>1. ArrivalInv(d) /\ RunInv(d)
    BY DEF ArrivalsInv, IInv, Runs
  <2> QED
    BY <2>1 DEF ArrivalInv, RunInv
<1>3. IInv /\ ArrivalsInv /\ [Next]_vars => ArrivalsInv'
  BY ArrivalsKept
<1> QED
  BY <1>1, <1>2, <1>3, Inductive, PTL DEF Spec

=============================================================================
