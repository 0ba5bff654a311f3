------------------------------ MODULE GateProofs ------------------------------
(***************************************************************************)
(* Proofs about Gate for every set of requests, sessions, actions and      *)
(* approvers, every policy, cap and failure mode.                          *)
(***************************************************************************)
EXTENDS Gate, FiniteSetTheorems, TLAPS

\* Sessions start unbound, and everything a request carries starts empty.
LEMMA InitTypeOK == Init => TypeOK
  BY LimitAssumption DEF Init, TypeOK, RowStatus, CallState, Verdict, NoAction

\* A request names a session and an action, and its route is one of the policy.
LEMMA RequestType ==
  ASSUME TypeOK, NEW c \in Calls
  PROVE  Session(c) \in Sessions /\ Action(c) \in Actions /\ Route(c) \in RouteType
  BY RoutesAssumption DEF TypeOK, Session, Action, Route

\* The statements of the approval store keep its rows and histories typed.
LEMMA StoreType ==
  ASSUME TypeOK, NEW a, 
         RecordPending(a) \/ Consume(a) \/ ApproveApproval(a) \/ DenyApproval(a)
                          \/ UNCHANGED storeVars
  PROVE  /\ row' \in [Actions -> RowStatus]
         /\ grants' \in [Actions -> Nat]
         /\ burns' \in [Actions -> Nat]
<1> USE DEF TypeOK, RowStatus
<1>1. CASE RecordPending(a)
  BY <1>1 DEF RecordPending
<1>2. CASE Consume(a)
  <2>1. CASE a \in Actions
    BY <1>2, <2>1 DEF Consume
  <2>2. CASE a \notin Actions
    BY <1>2, <2>2 DEF Consume
  <2> QED
    BY <2>1, <2>2
<1>3. CASE ApproveApproval(a)
  <2>1. CASE a \in Actions
    BY <1>3, <2>1 DEF ApproveApproval
  <2>2. CASE a \notin Actions
    BY <1>3, <2>2 DEF ApproveApproval
  <2> QED
    BY <2>1, <2>2
<1>4. CASE DenyApproval(a)
  BY <1>4 DEF DenyApproval
<1>5. CASE UNCHANGED storeVars
  BY <1>5 DEF storeVars
<1> QED
  BY <1>1, <1>2, <1>3, <1>4, <1>5

\* The handler steps of one request keep every variable in its type.
LEMMA HandleTypeOK ==
  ASSUME TypeOK, NEW c \in Calls, Handle(c)
  PROVE  TypeOK'
<1> USE RoutesAssumption, LimitAssumption
    DEF TypeOK, outside, storeVars, approverVars, At, Goto, Session, Action, Route,
        RouteType, Verdict, CallState, RowStatus, Enforced
<1>1. CASE RefuseUnrouted(c)
  BY <1>1 DEF RefuseUnrouted
<1>2. CASE ReserveCrossing(c)
  <2>1. count' \in [Sessions -> Nat]
    BY <1>2 DEF ReserveCrossing, Reserve
  <2>2. pc' \in [Calls -> CallState]
    BY <1>2 DEF ReserveCrossing
  <2> QED
    BY <1>2, <2>1, <2>2 DEF ReserveCrossing
<1>3. CASE RefuseOverBudget(c)
  BY <1>3 DEF RefuseOverBudget
<1>4. CASE RecordDenied(c)
  <2>1. leaves' \in [Calls -> Seq({"forwarded", "refused"})]
    <3>1. PICK kept \in BOOLEAN :
             leaves' = [leaves EXCEPT ![c] = IF kept THEN Append(@, "refused") ELSE @]
      BY <1>4 DEF RecordDenied
    <3>2. Append(leaves[c], "refused") \in Seq({"forwarded", "refused"})
      OBVIOUS
    <3> QED
      BY <3>1, <3>2
  <2> QED
    BY <1>4, <2>1 DEF RecordDenied
<1>5. CASE DecideAlone(c)
  BY <1>5 DEF DecideAlone
<1>6. CASE Decide(c)
  <2>1. PICK hit \in BOOLEAN, v \in Verdict : /\ found' = [found EXCEPT ![c] = hit]
                                            /\ verdict' = [verdict EXCEPT ![c] = v]
                                            /\ Goto(c, AfterLookup(v, hit))
    <3>1. Route(c).cleared \in Verdict /\ Route(c).uncleared \in Verdict
      OBVIOUS
    <3> HIDE DEF TypeOK, Route, RouteType, Verdict, CallState, Goto, Session, Action
    <3>2. PICK ok \in StoreOutcomes :
             LET hit == ok /\ LookupApproved(Action(c))
                 v   == IF TokenPasses(c, hit) THEN Route(c).cleared ELSE Route(c).uncleared
             IN  /\ found' = [found EXCEPT ![c] = hit]
                 /\ verdict' = [verdict EXCEPT ![c] = v]
                 /\ Goto(c, AfterLookup(v, hit))
      BY <1>6 DEF Decide
    <3> DEFINE hit == ok /\ LookupApproved(Action(c))
               v   == IF TokenPasses(c, hit) THEN Route(c).cleared ELSE Route(c).uncleared
    <3>3. hit \in BOOLEAN
      BY DEF LookupApproved
    <3>4. v \in Verdict
      BY <3>1
    <3> HIDE DEF hit, v
    <3> QED
      BY <3>2, <3>3, <3>4 DEF hit, v
  <2>2. AfterLookup(v, hit) \in CallState
    BY DEF AfterLookup
  <2> QED
    BY <1>6, <2>1, <2>2 DEF Decide
<1>7. CASE ConsumeApproval(c)
  <2>1. Consume(Action(c)) \/ UNCHANGED storeVars
    BY <1>7 DEF ConsumeApproval
  <2> QED
    BY <1>7, <2>1, StoreType DEF ConsumeApproval
<1>8. CASE Escalate(c)
  <2>1. RecordPending(Action(c)) \/ UNCHANGED storeVars
    BY <1>8 DEF Escalate
  <2> QED
    BY <1>8, <2>1, StoreType DEF Escalate
<1>9. CASE Record(c)
  <2>1. leaves' \in [Calls -> Seq({"forwarded", "refused"})]
    <3>1. LeafFor(c) \in Seq({"forwarded", "refused"})
      <4>1. /\ <<"forwarded">> \in Seq({"forwarded", "refused"})
            /\ <<"refused">> \in Seq({"forwarded", "refused"})
        OBVIOUS
      <4> QED
        BY <4>1, Zenon DEF LeafFor
    <3>2. leaves[c] \o LeafFor(c) \in Seq({"forwarded", "refused"})
      BY <3>1
    <3> QED
      BY <1>9, <3>2 DEF Record
  <2> QED
    BY <1>9, <2>1 DEF Record
<1>10. CASE Refuse(c)
  BY <1>10 DEF Refuse, Release
<1>11. CASE Forward(c)
  BY <1>11 DEF Forward, Forwards
<1> QED
  BY <1>1, <1>2, <1>3, <1>4, <1>5, <1>6, <1>7, <1>8, <1>9, <1>10, <1>11 DEF Handle

\* So does every step.
LEMMA NextTypeOK == TypeOK /\ [Next]_vars => TypeOK'
<1> SUFFICES ASSUME TypeOK, [Next]_vars
             PROVE  TypeOK'
  OBVIOUS
<1> USE DEF TypeOK, outside, storeVars, callVars, approverVars, At, Goto, Session, Action,
            CallState, RowStatus, NoAction
<1>1. ASSUME NEW s \in Sessions, Dispatch(s)
      PROVE  TypeOK'
  BY <1>1 DEF Dispatch
<1>2. CASE Restart
  BY <1>2 DEF Restart
<1>3. ASSUME NEW c \in Calls, Submit(c)
      PROVE  TypeOK'
  <2>1. issued[Action(c)] \in BOOLEAN
    BY RequestType
  <2>2. presents' \in [Calls -> BOOLEAN]
    BY <1>3, <2>1 DEF Submit
  <2> QED
    BY <1>3, <2>2 DEF Submit
<1>4. ASSUME NEW c \in Calls, Handle(c)
      PROVE  TypeOK'
  BY <1>4, HandleTypeOK
<1>5. ASSUME NEW a \in Actions, Poll(a)
      PROVE  TypeOK'
  BY <1>5 DEF Poll
<1>6. ASSUME NEW a \in Actions, Deny(a)
      PROVE  TypeOK'
  BY <1>6 DEF Deny, DenyApproval
<1>7. ASSUME NEW h \in Approvers, Approve(h)
      PROVE  TypeOK'
  <2>1. ApproveApproval(target[h]) \/ UNCHANGED storeVars
    BY <1>7 DEF Approve
  <2> QED
    BY <1>7, <2>1, StoreType DEF Approve
<1>8. ASSUME NEW h \in Approvers, NEW a \in Actions, ReadForApprove(h, a)
      PROVE  TypeOK'
  BY <1>8 DEF ReadForApprove
<1>9. CASE UNCHANGED vars
  BY <1>9 DEF vars
<1> QED
  BY <1>1, <1>2, <1>3, <1>4, <1>5, <1>6, <1>7, <1>8, <1>9 DEF Next

\* Every variable of the gate stays in its type.
THEOREM TypeCorrect == Spec => []TypeOK
  BY InitTypeOK, NextTypeOK, PTL DEF Spec

-----------------------------------------------------------------------------

\* Sets of requests are finite.
LEMMA HoldersFinite ==
  ASSUME NEW s
  PROVE  IsFiniteSet(Holders(s))
<1>1. Holders(s) \subseteq Calls
  BY DEF Holders
<1> QED
  BY <1>1, GateAssumption, FS_Subset

\* The positions at which a handler holds a reservation.
Holding == {"decide", "consume", "escalate", "record", "decided", "answered"}

\* A step that moves no request into or out of the holding positions leaves
\* the holders as they are.
LEMMA HoldersUnchanged ==
  ASSUME TypeOK, req' = req,
         \A d \in Calls : pc'[d] \in Holding <=> pc[d] \in Holding
  PROVE  \A s \in Sessions : Holders(s)' = Holders(s)
  BY DEF Holders, Holding, Session

\* A handler that moves between two positions on the same side of Holding.
LEMMA HoldersSameSide ==
  ASSUME TypeOK, req' = req, NEW c \in Calls, NEW to \in CallState, Goto(c, to),
         pc[c] \in Holding <=> to \in Holding
  PROVE  \A s \in Sessions : Holders(s)' = Holders(s)
<1>1. \A d \in Calls : pc'[d] \in Holding <=> pc[d] \in Holding
  BY DEF TypeOK, Goto
<1> QED
  BY <1>1, HoldersUnchanged

\* A handler that takes a reservation joins the holders of its session.
LEMMA HoldersGrow ==
  ASSUME TypeOK, req' = req, NEW c \in Calls, NEW to \in Holding, Goto(c, to),
         pc[c] \notin Holding, NEW s \in Sessions
  PROVE  IF s = Session(c)
         THEN Cardinality(Holders(s)') = Cardinality(Holders(s)) + 1
         ELSE Holders(s)' = Holders(s)
<1>1. CASE s = Session(c)
  <2>1. Holders(s)' = Holders(s) \cup {c} /\ c \notin Holders(s)
    BY <1>1 DEF TypeOK, Goto, Holders, Holding, Session
  <2> QED
    BY <1>1, <2>1, HoldersFinite, FS_AddElement
<1>2. CASE s # Session(c)
  <2>1. Holders(s)' = Holders(s)
    BY <1>2 DEF TypeOK, Goto, Holders, Holding, Session
  <2> QED
    BY <1>2, <2>1
<1> QED
  BY <1>1, <1>2

\* A handler that gives its reservation back leaves them.
LEMMA HoldersShrink ==
  ASSUME TypeOK, req' = req, NEW c \in Calls, NEW to, Goto(c, to),
         to \notin Holding, pc[c] \in Holding, NEW s \in Sessions
  PROVE  IF s = Session(c)
         THEN /\ Cardinality(Holders(s)') = Cardinality(Holders(s)) - 1
              /\ Cardinality(Holders(s)) > 0
         ELSE Holders(s)' = Holders(s)
<1>1. CASE s = Session(c)
  <2>1. Holders(s)' = Holders(s) \ {c} /\ c \in Holders(s)
    BY <1>1 DEF TypeOK, Goto, Holders, Holding, Session
  <2>2. Cardinality(Holders(s)) \in Nat /\ Cardinality(Holders(s)) # 0
    BY <2>1, HoldersFinite, FS_EmptySet, FS_CardinalityType
  <2>3. Cardinality(Holders(s)') = Cardinality(Holders(s)) - 1
    BY <2>1, HoldersFinite, FS_RemoveElement
  <2>4. Cardinality(Holders(s)) > 0
    BY <2>2
  <2> QED
    BY <1>1, <2>3, <2>4
<1>2. CASE s # Session(c)
  <2>1. Holders(s)' = Holders(s)
    BY <1>2 DEF TypeOK, Goto, Holders, Holding, Session
  <2> QED
    BY <1>2, <2>1
<1> QED
  BY <1>1, <1>2

\* The two facts about the counter that a step has to preserve.
BudgetInv == BudgetExact /\ CountWithinLimit

\* The budget invariant, one session at a time.
LEMMA BudgetBySession ==
  ASSUME Enforced => \A s \in Sessions :
           count'[s] = Cardinality(Holders(s)') /\ count'[s] <= Limit
  PROVE  BudgetInv'
  BY DEF BudgetInv, BudgetExact, CountWithinLimit, Enforced

\* A step that touches neither the counter nor the holders preserves them.
LEMMA BudgetUntouched ==
  ASSUME BudgetInv, count' = count, \A s \in Sessions : Holders(s)' = Holders(s)
  PROVE  BudgetInv'
  BY DEF BudgetInv, BudgetExact, CountWithinLimit, Enforced

\* Every handler step preserves the budget invariant.
LEMMA HandleBudget ==
  ASSUME TypeOK, BudgetInv, NEW c \in Calls, Handle(c)
  PROVE  BudgetInv'
<1> USE DEF outside, At
<1>1. CASE ReserveCrossing(c)
  <2>1. ASSUME Enforced, NEW s \in Sessions
        PROVE  count'[s] = Cardinality(Holders(s)') /\ count'[s] <= Limit
    <3>1. /\ count[s] = Cardinality(Holders(s)) /\ count[s] <= Limit
          /\ count \in [Sessions -> Nat]
      BY <2>1 DEF BudgetInv, BudgetExact, CountWithinLimit, TypeOK
    <3>2. /\ count' = [count EXCEPT ![Session(c)] = @ + 1]
          /\ count[Session(c)] < Limit
      BY <1>1, <2>1 DEF ReserveCrossing, Reserve, HasRoom
    <3>3. IF s = Session(c)
          THEN Cardinality(Holders(s)') = Cardinality(Holders(s)) + 1
          ELSE Holders(s)' = Holders(s)
      BY <1>1, HoldersGrow DEF ReserveCrossing, Holding
    <3>4. CASE s = Session(c)
      BY <3>1, <3>2, <3>3, <3>4, LimitAssumption
    <3>5. CASE s # Session(c)
      BY <3>1, <3>2, <3>3, <3>5
    <3> QED
      BY <3>4, <3>5
  <2> QED
    BY <2>1, BudgetBySession
<1>2. CASE Refuse(c)
  <2>1. ASSUME Enforced, NEW s \in Sessions
        PROVE  count'[s] = Cardinality(Holders(s)') /\ count'[s] <= Limit
    <3>1. /\ count[s] = Cardinality(Holders(s)) /\ count[s] <= Limit
          /\ count \in [Sessions -> Nat]
      BY <2>1 DEF BudgetInv, BudgetExact, CountWithinLimit, TypeOK
    <3>2. IF s = Session(c)
          THEN /\ Cardinality(Holders(s)') = Cardinality(Holders(s)) - 1
               /\ Cardinality(Holders(s)) > 0
          ELSE Holders(s)' = Holders(s)
      BY <1>2, HoldersShrink DEF Refuse, Holding
    <3>3. CASE s = Session(c)
      <4>1. count' = [count EXCEPT ![Session(c)] = @ - 1]
        BY <1>2, <2>1, <3>1, <3>2, <3>3 DEF Refuse, Release
      <4> QED
        BY <3>1, <3>2, <3>3, <4>1, LimitAssumption
    <3>4. CASE s # Session(c)
      <4>1. count'[s] = count[s]
        BY <1>2, <3>1, <3>4 DEF Refuse, Release
      <4> QED
        BY <3>1, <3>2, <3>4, <4>1
    <3> QED
      BY <3>3, <3>4
  <2> QED
    BY <2>1, BudgetBySession
<1>3. ASSUME ~ReserveCrossing(c), ~Refuse(c)
      PROVE  BudgetInv'
  <2>1. count' = count /\ req' = req
    BY <1>3 DEF Handle, RefuseUnrouted, RefuseOverBudget, RecordDenied, DecideAlone, Decide,
                ConsumeApproval, Escalate, Record, Forward
  <2>2. \A s \in Sessions : Holders(s)' = Holders(s)
    <3>1. \E to \in CallState : Goto(c, to) /\ (pc[c] \in Holding <=> to \in Holding)
      BY <1>3 DEF Handle, RefuseUnrouted, RefuseOverBudget, RecordDenied, DecideAlone, Decide,
                  ConsumeApproval, Escalate, Record, Forward, AfterLookup, Holding, CallState
    <3> QED
      BY <2>1, <3>1, HoldersSameSide
  <2> QED
    BY <2>1, <2>2, BudgetUntouched
<1> QED
  BY <1>1, <1>2, <1>3

-----------------------------------------------------------------------------

\* An authorization is kept: requests and their tokens do not change once they
\* have arrived, and approvals that were granted stay granted.
LEMMA AuthorizedStable ==
  ASSUME TypeOK, TypeOK', req' = req, NEW d \in Calls, presents'[d] = presents[d],
         \A a \in Actions : grants'[a] >= grants[a], Authorized(d)
  PROVE  Authorized(d)'
<1>1. Action(d) \in Actions /\ Action(d)' = Action(d) /\ Route(d)' = Route(d)
  BY RequestType DEF Action, Route, Session
<1>2. grants[Action(d)] > 0 => grants'[Action(d)] > 0
  BY <1>1 DEF TypeOK
<1> QED
  BY <1>1, <1>2 DEF Authorized

\* A step that leaves a request alone keeps its part of the invariant.
LEMMA OtherCall ==
  ASSUME TypeOK, TypeOK', req' = req, NEW d \in Calls, CallInv(d),
         pc'[d] = pc[d], verdict'[d] = verdict[d], presents'[d] = presents[d],
         d \in crossed' <=> d \in crossed,
         binding'[Session(d)] = "unbound" => binding[Session(d)] = "unbound",
         \A a \in Actions : grants'[a] >= grants[a]
  PROVE  CallInv(d)'
<1>1. Session(d)' = Session(d) /\ Route(d)' = Route(d)
  BY DEF Session, Route, Action
<1>2. Authorized(d) => Authorized(d)'
  BY AuthorizedStable
<1> QED
  BY <1>1, <1>2 DEF CallInv

\* No statement of the store takes a grant back.
LEMMA GrantsGrow ==
  ASSUME TypeOK, NEW a,
         RecordPending(a) \/ Consume(a) \/ ApproveApproval(a) \/ DenyApproval(a)
                          \/ UNCHANGED storeVars
  PROVE  \A b \in Actions : grants'[b] >= grants[b]
<1> SUFFICES ASSUME NEW b \in Actions
             PROVE  grants'[b] >= grants[b]
  OBVIOUS
<1>1. grants[b] \in Nat /\ grants \in [Actions -> Nat]
  BY DEF TypeOK
<1>2. CASE ApproveApproval(a)
  <2>1. grants'[b] = grants[b] \/ grants'[b] = grants[b] + 1
    BY <1>1, <1>2 DEF ApproveApproval
  <2> QED
    BY <1>1, <2>1
<1>3. CASE grants' = grants
  BY <1>1, <1>3
<1> QED
  BY <1>2, <1>3 DEF RecordPending, Consume, DenyApproval, storeVars

\* What one handler step may do to the shared state.
LEMMA HandleFrame ==
  ASSUME TypeOK, NEW c \in Calls, Handle(c)
  PROVE  /\ req' = req /\ binding' = binding /\ presents' = presents
         /\ \A b \in Actions : grants'[b] >= grants[b]
         /\ \A d \in Calls \ {c} :
              /\ pc'[d] = pc[d] /\ verdict'[d] = verdict[d]
              /\ d \in crossed' <=> d \in crossed
<1> USE DEF outside, Goto, TypeOK
<1>1. CASE ConsumeApproval(c)
  <2>1. Consume(Action(c)) \/ UNCHANGED storeVars
    BY <1>1 DEF ConsumeApproval
  <2> QED
    BY <1>1, <2>1, GrantsGrow DEF ConsumeApproval
<1>2. CASE Escalate(c)
  <2>1. RecordPending(Action(c)) \/ UNCHANGED storeVars
    BY <1>2 DEF Escalate
  <2> QED
    BY <1>2, <2>1, GrantsGrow DEF Escalate
<1>3. CASE UNCHANGED storeVars
  <2>1. \A b \in Actions : grants'[b] >= grants[b]
    BY <1>3, GrantsGrow
  <2>2. CASE RefuseUnrouted(c) \/ ReserveCrossing(c) \/ RefuseOverBudget(c)
    BY <2>1, <2>2 DEF RefuseUnrouted, ReserveCrossing, RefuseOverBudget
  <2>3. CASE RecordDenied(c) \/ DecideAlone(c) \/ Decide(c)
    <3>1. CASE RecordDenied(c) \/ DecideAlone(c)
      BY <2>1, <3>1 DEF RecordDenied, DecideAlone
    <3>2. CASE Decide(c)
      BY <2>1, <3>2 DEF Decide
    <3> QED
      BY <2>3, <3>1, <3>2
  <2>4. CASE Record(c) \/ Refuse(c) \/ Forward(c)
    BY <2>1, <2>4 DEF Record, Refuse, Forward
  <2> QED
    BY <1>1, <1>2, <2>2, <2>3, <2>4 DEF Handle
<1>4. UNCHANGED storeVars \/ ConsumeApproval(c) \/ Escalate(c)
  BY DEF Handle, RefuseUnrouted, ReserveCrossing, RefuseOverBudget, RecordDenied, DecideAlone,
         Decide, Record, Refuse, Forward, storeVars
<1> QED
  BY <1>1, <1>2, <1>3, <1>4

\* An approval that was found was granted by a person.
LEMMA FoundIsGranted ==
  ASSUME TypeOK, GrantAccounting, NEW a \in Actions, LookupApproved(a)
  PROVE  grants[a] > 0
  BY DEF TypeOK, GrantAccounting, LookupApproved

\* The step of a handler keeps its own part of the invariant.
LEMMA HandleOwn ==
  ASSUME TypeOK, TypeOK', GrantAccounting, NEW c \in Calls, CallInv(c), Handle(c)
  PROVE  CallInv(c)'
<1>1. /\ req' = req /\ binding' = binding /\ presents' = presents
      /\ \A b \in Actions : grants'[b] >= grants[b]
  BY HandleFrame
<1>2. /\ Session(c)' = Session(c) /\ Route(c)' = Route(c) /\ Action(c)' = Action(c)
      /\ Session(c) \in Sessions /\ Action(c) \in Actions /\ Route(c) \in RouteType
  BY <1>1, RequestType DEF Session, Route, Action
<1>3. Authorized(c) => Authorized(c)'
  BY <1>1, AuthorizedStable
<1> USE <1>1, <1>2, <1>3 DEF CallInv, At, Goto
<1>4. CASE RefuseUnrouted(c) \/ RefuseOverBudget(c)
  BY <1>4 DEF RefuseUnrouted, RefuseOverBudget, TypeOK
<1>5. CASE ReserveCrossing(c)
  BY <1>5 DEF ReserveCrossing, TypeOK
<1>6. CASE RecordDenied(c)
  BY <1>6 DEF RecordDenied, TypeOK
<1>7. CASE DecideAlone(c)
  <2>1. verdict'[c] = "allow" => Authorized(c)'
    BY <1>7 DEF DecideAlone, Authorized, TypeOK
  <2> QED
    BY <1>7, <2>1 DEF DecideAlone, TypeOK
<1>8. CASE Decide(c)
  <2>1. PICK ok \in StoreOutcomes :
          LET hit == ok /\ LookupApproved(Action(c))
              v   == IF TokenPasses(c, hit) THEN Route(c).cleared ELSE Route(c).uncleared
          IN  /\ found' = [found EXCEPT ![c] = hit]
              /\ verdict' = [verdict EXCEPT ![c] = v]
              /\ Goto(c, AfterLookup(v, hit))
    BY <1>8 DEF Decide
  <2>2. verdict'[c] = "allow" => Authorized(c)'
    <3>1. LookupApproved(Action(c)) => grants[Action(c)] > 0
      BY FoundIsGranted
    <3>2. grants' = grants
      BY <1>8 DEF Decide, storeVars
    <3> QED
      BY <1>8, <2>1, <3>1, <3>2 DEF Decide, TokenPasses, Authorized, TypeOK
  <2> QED
    BY <1>8, <2>1, <2>2 DEF Decide, AfterLookup, TypeOK
<1>9. CASE ConsumeApproval(c) \/ Escalate(c)
  BY <1>9 DEF ConsumeApproval, Escalate, TypeOK
<1>10. CASE Record(c)
  BY <1>10 DEF Record, TypeOK
<1>11. CASE Refuse(c)
  BY <1>11 DEF Refuse, TypeOK
<1>12. CASE Forward(c)
  BY <1>12 DEF Forward, Forwards, TypeOK
<1> QED
  BY <1>4, <1>5, <1>6, <1>7, <1>8, <1>9, <1>10, <1>11, <1>12 DEF Handle

\* The invariant of the handlers' control state.
LEMMA NextControl ==
  ASSUME TypeOK, TypeOK', ControlInv, GrantAccounting, [Next]_vars
  PROVE  ControlInv'
<1> SUFFICES ASSUME NEW d \in Calls
             PROVE  CallInv(d)'
  BY DEF ControlInv
<1> CallInv(d)
  BY DEF ControlInv
<1>1. ASSUME NEW c \in Calls, Handle(c)
      PROVE  CallInv(d)'
  <2>1. CASE d = c
    BY <1>1, <2>1, HandleOwn
  <2>2. CASE d # c
    BY <1>1, <2>2, HandleFrame, OtherCall
  <2> QED
    BY <2>1, <2>2
<1>2. ASSUME NEW c \in Calls, Submit(c)
      PROVE  CallInv(d)'
  <2>1. \A a \in Actions : grants'[a] >= grants[a]
    BY <1>2, GrantsGrow DEF Submit
  <2>2. CASE d = c
    BY <1>2, <2>1, <2>2 DEF Submit, outside, At, Goto, CallInv, TypeOK, Session, Action, Route
  <2>3. CASE d # c
    BY <1>2, <2>1, <2>3, OtherCall DEF Submit, outside, Goto, TypeOK
  <2> QED
    BY <2>2, <2>3
<1>3. ASSUME UNCHANGED <<req, callVars>>,
             binding'[Session(d)] = "unbound" => binding[Session(d)] = "unbound",
             \E a : RecordPending(a) \/ Consume(a) \/ ApproveApproval(a) \/ DenyApproval(a)
                                    \/ UNCHANGED storeVars
      PROVE  CallInv(d)'
  BY <1>3, GrantsGrow, OtherCall DEF callVars
<1>4. Session(d) \in Sessions
  BY RequestType
<1>5. ASSUME NEW s \in Sessions, Dispatch(s)
      PROVE  CallInv(d)'
  BY <1>3, <1>4, <1>5 DEF Dispatch, TypeOK
<1>6. CASE Restart
  BY <1>3, <1>4, <1>6 DEF Restart, TypeOK
<1>7. ASSUME NEW a \in Actions, Poll(a) \/ Deny(a)
      PROVE  CallInv(d)'
  BY <1>3, <1>7 DEF Poll, Deny
<1>8. ASSUME NEW h \in Approvers, Approve(h)
      PROVE  CallInv(d)'
  BY <1>3, <1>8 DEF Approve
<1>9. ASSUME NEW h \in Approvers, NEW a \in Actions, ReadForApprove(h, a)
      PROVE  CallInv(d)'
  BY <1>3, <1>9 DEF ReadForApprove
<1>10. CASE UNCHANGED vars
  BY <1>3, <1>10 DEF vars
<1> QED
  BY <1>1, <1>2, <1>5, <1>6, <1>7, <1>8, <1>9, <1>10 DEF Next

\* Every step changes the store by at most one of its statements.
LEMMA OneStatement ==
  ASSUME [Next]_vars
  PROVE  \E a : RecordPending(a) \/ Consume(a) \/ ApproveApproval(a) \/ DenyApproval(a)
                                \/ UNCHANGED storeVars
<1>1. ASSUME NEW c \in Calls, Submit(c) \/ Handle(c)
      PROVE  UNCHANGED storeVars \/ Consume(Action(c)) \/ RecordPending(Action(c))
  BY <1>1 DEF Handle, Submit, RefuseUnrouted, ReserveCrossing, RefuseOverBudget, RecordDenied,
              DecideAlone, Decide, ConsumeApproval, Escalate, Record, Refuse, Forward, storeVars
<1>2. ASSUME NEW h \in Approvers, Approve(h)
      PROVE  UNCHANGED storeVars \/ ApproveApproval(target[h])
  BY <1>2 DEF Approve
<1>3. ASSUME NEW a \in Actions, Deny(a)
      PROVE  DenyApproval(a)
  BY <1>3 DEF Deny
<1>4. CASE \/ \E s \in Sessions : Dispatch(s)
           \/ Restart
           \/ \E a \in Actions : Poll(a)
           \/ \E h \in Approvers, a \in Actions : ReadForApprove(h, a)
           \/ UNCHANGED vars
  BY <1>4 DEF Dispatch, Restart, Poll, ReadForApprove, vars, storeVars
<1> QED
  BY <1>1, <1>2, <1>3, <1>4 DEF Next

\* The accounting of grants and burns.
LEMMA NextAccounting ==
  ASSUME TypeOK, GrantAccounting, [Next]_vars
  PROVE  GrantAccounting'
<1> USE DEF GrantAccounting, TypeOK, RowStatus
<1>1. PICK a : RecordPending(a) \/ Consume(a) \/ ApproveApproval(a) \/ DenyApproval(a)
                               \/ UNCHANGED storeVars
  BY OneStatement
<1>2. CASE RecordPending(a)
  BY <1>2 DEF RecordPending
<1>3. CASE Consume(a)
  BY <1>3 DEF Consume
<1>4. CASE ApproveApproval(a)
  BY <1>4 DEF ApproveApproval
<1>5. CASE DenyApproval(a)
  BY <1>5 DEF DenyApproval
<1>6. CASE UNCHANGED storeVars
  BY <1>6 DEF storeVars
<1> QED
  BY <1>1, <1>2, <1>3, <1>4, <1>5, <1>6

\* The budget invariant holds however sessions come and go.
LEMMA NextBudget ==
  ASSUME TypeOK, ControlInv, BudgetInv, [Next]_vars
  PROVE  BudgetInv'
<1>1. ASSUME NEW c \in Calls, Handle(c)
      PROVE  BudgetInv'
  BY <1>1, HandleBudget
<1>2. ASSUME NEW c \in Calls, Submit(c)
      PROVE  BudgetInv'
  <2>1. \A s \in Sessions : Holders(s)' = Holders(s)
    BY <1>2, HoldersSameSide DEF Submit, outside, At, Holding, CallState
  <2> QED
    BY <1>2, <2>1, BudgetUntouched DEF Submit
<1>3. ASSUME NEW s \in Sessions, Dispatch(s)
      PROVE  BudgetInv'
  <2>1. \A t \in Sessions : Holders(t)' = Holders(t)
    BY <1>3, HoldersUnchanged DEF Dispatch, callVars
  <2>2. Holders(s) = {}
    BY <1>3 DEF Dispatch, ControlInv, CallInv, Holders
  <2>3. ASSUME Enforced, NEW t \in Sessions
        PROVE  count'[t] = Cardinality(Holders(t)') /\ count'[t] <= Limit
    <3>1. CASE t = s
      <4>1. Holders(t)' = {}
        BY <2>1, <2>2, <3>1
      <4>2. Cardinality(Holders(t)') = 0
        BY <4>1, FS_EmptySet
      <4>3. count'[t] = 0
        BY <1>3, <3>1 DEF Dispatch, TypeOK
      <4> QED
        BY <4>2, <4>3, LimitAssumption
    <3>2. CASE t # s
      BY <1>3, <2>1, <2>3, <3>2 DEF Dispatch, TypeOK, BudgetInv, BudgetExact, CountWithinLimit
    <3> QED
      BY <3>1, <3>2
  <2> QED
    BY <2>3, BudgetBySession
<1>4. ASSUME UNCHANGED <<count, req, callVars>>
      PROVE  BudgetInv'
  BY <1>4, HoldersUnchanged, BudgetUntouched DEF callVars
<1>5. CASE \/ Restart
           \/ \E a \in Actions : Poll(a) \/ Deny(a)
           \/ \E h \in Approvers : Approve(h) \/ \E a \in Actions : ReadForApprove(h, a)
           \/ UNCHANGED vars
  BY <1>4, <1>5 DEF Restart, Poll, Deny, Approve, ReadForApprove, vars
<1> QED
  BY <1>1, <1>2, <1>3, <1>5 DEF Next

-----------------------------------------------------------------------------

\* The inductive invariant holds initially.
LEMMA InitIInv == Init => IInv
<1> SUFFICES ASSUME Init
             PROVE  IInv
  OBVIOUS
<1>1. TypeOK
  BY InitTypeOK
<1>2. ControlInv
  BY DEF Init, ControlInv, CallInv, TypeOK
<1>3. GrantAccounting
  BY DEF Init, GrantAccounting
<1>4. \A s \in Sessions : Holders(s) = {}
  BY DEF Init, Holders
<1>5. \A s \in Sessions : Cardinality(Holders(s)) = 0
  BY <1>4, FS_EmptySet
<1>6. \A s \in Sessions : count[s] = 0
  BY DEF Init
<1>7. BudgetExact /\ CountWithinLimit
  BY <1>5, <1>6, LimitAssumption DEF BudgetExact, CountWithinLimit
<1> QED
  BY <1>1, <1>2, <1>3, <1>7 DEF IInv

\* ... and every step preserves it.
LEMMA NextIInv == IInv /\ [Next]_vars => IInv'
  BY NextTypeOK, NextControl, NextAccounting, NextBudget DEF IInv, BudgetInv

\* The inductive invariant: types, the handlers' control state, the books of
\* the approval store and the budget counters.
THEOREM GateInvariant == Spec => []IInv
  BY InitIInv, NextIInv, PTL DEF Spec

\* However many handlers of a session interleave, its counter is exactly the
\* number of reservations in use: none leaks, none is returned twice.
THEOREM BudgetIsExact == Spec => []BudgetExact
  BY GateInvariant, PTL DEF IInv

\* Every human decision is accounted for: it is live or burned once.
THEOREM GrantsAddUp == Spec => []GrantAccounting
  BY GateInvariant, PTL DEF IInv

\* Nothing crosses the boundary without the recipe and, where the recipe asks
\* for one, a human decision about exactly that action.
THEOREM Mediated == Spec => []MediatedCrossing
<1>1. IInv => MediatedCrossing
  <2> SUFFICES ASSUME IInv, NEW c \in crossed
               PROVE  /\ Route(c).routed /\ Route(c).judged
                      /\ "allow" \in {Route(c).cleared, Route(c).uncleared}
                      /\ Route(c).uncleared # "allow" => presents[c] /\ grants[Action(c)] > 0
    BY Zenon DEF MediatedCrossing
  <2>1. c \in Calls
    BY DEF IInv, TypeOK
  <2>2. Authorized(c)
    BY <2>1 DEF IInv, ControlInv, CallInv
  <2> QED
    BY <2>2, Zenon DEF Authorized
<1> QED
  BY <1>1, GateInvariant, PTL

\* A session never gets more than Limit calls to the downstream tools.
THEOREM CapHolds == Spec => []SessionCap
<1>1. IInv => SessionCap
  <2> SUFFICES ASSUME IInv, Enforced, NEW s \in Sessions
               PROVE  Cardinality({c \in crossed : Session(c) = s}) <= Limit
    BY DEF SessionCap
  <2> DEFINE Out == {c \in crossed : Session(c) = s}
  <2>1. Out \subseteq Holders(s)
    BY DEF IInv, TypeOK, ControlInv, CallInv, Holders
  <2>2. Cardinality(Out) <= Cardinality(Holders(s)) /\ Cardinality(Out) \in Nat
    BY <2>1, HoldersFinite, FS_Subset, FS_CardinalityType
  <2>3. Cardinality(Holders(s)) <= Limit
    BY DEF IInv, BudgetExact, CountWithinLimit
  <2>4. Cardinality(Holders(s)) \in Nat
    BY HoldersFinite, FS_CardinalityType
  <2> QED
    BY <2>2, <2>3, <2>4, LimitAssumption
<1> QED
  BY <1>1, GateInvariant, PTL

\* A denied row never changes again.
THEOREM DenialIsFinal == Spec => DenialSticks
<1>1. TypeOK /\ [Next]_vars => [\A a \in Actions : row[a] = "denied" => row'[a] = "denied"]_vars
  <2> SUFFICES ASSUME TypeOK, [Next]_vars, NEW b \in Actions, row[b] = "denied"
               PROVE  row'[b] = "denied"
    OBVIOUS
  <2>1. PICK a : RecordPending(a) \/ Consume(a) \/ ApproveApproval(a) \/ DenyApproval(a)
                                 \/ UNCHANGED storeVars
    BY OneStatement
  <2> QED
    BY <2>1 DEF RecordPending, Consume, ApproveApproval, DenyApproval, storeVars, TypeOK
<1> QED
  BY <1>1, TypeCorrect, PTL DEF Spec, DenialSticks

-----------------------------------------------------------------------------

\* The requests Decide has let through.
Cleared == {c \in Calls : verdict[c] = "allow"}

\* A request whose recipe clears it is one the abstract policy admits.
LEMMA PolicyAdmits ==
  ASSUME TypeOK, NEW c \in Calls, Authorized(c)
  PROVE  \/ PolicyOf(Session(c), Action(c)) = "always"
         \/ PolicyOf(Session(c), Action(c)) = "approved" /\ grants[Action(c)] > 0
  BY DEF Authorized, PolicyOf, Route

\* While c is being decided, the cap leaves room to clear it.
LEMMA RoomToClear ==
  ASSUME IInv, NEW c \in Calls, pc[c] = "decide", Limit > 0
  PROVE  Cardinality({d \in Cleared : req[d].session = req[c].session}) < Limit
<1> DEFINE s    == Session(c)
           Out  == {d \in Cleared : req[d].session = req[c].session}
<1>1. s \in Sessions
  BY RequestType DEF IInv
<1>2. Out \subseteq Holders(s) \ {c} /\ c \in Holders(s)
  BY DEF IInv, ControlInv, CallInv, Cleared, Holders, Session
<1>3. /\ Cardinality(Holders(s) \ {c}) = Cardinality(Holders(s)) - 1
      /\ IsFiniteSet(Holders(s) \ {c})
  BY <1>2, HoldersFinite, FS_RemoveElement
<1>4. /\ Cardinality(Out) <= Cardinality(Holders(s) \ {c})
      /\ Cardinality(Out) \in Nat
  BY <1>2, <1>3, FS_Subset, FS_CardinalityType
<1>5. Cardinality(Holders(s)) <= Limit
  BY <1>1 DEF IInv, BudgetExact, CountWithinLimit, Enforced
<1>6. Cardinality(Holders(s)) \in Nat
  BY HoldersFinite, FS_CardinalityType
<1> QED
  BY <1>3, <1>4, <1>5, <1>6, LimitAssumption

\* The abstract module counts sets the way the gate does.
LEMMA SameCardinality == ASSUME NEW S PROVE Boundary!Cardinality(S) = Cardinality(S)
  BY DEF Boundary!Cardinality, Cardinality

\* A step of Decide that returns Allow clears the request, any other leaves
\* the abstract state alone.
LEMMA VerdictStep ==
  ASSUME IInv, TypeOK', NEW c \in Calls, NEW v \in Verdict, pc[c] # "idle",
         verdict' = [verdict EXCEPT ![c] = v], verdict[c] = "none",
         v = "allow" => pc[c] = "decide" /\ Authorized(c),
         UNCHANGED <<req, grants, crossed>>
  PROVE  [Boundary!Next]_(Boundary!vars)
<1>1. TypeOK /\ Session(c) \in Sessions /\ Action(c) \in Actions
  BY RequestType DEF IInv
<1>2. CASE v = "allow"
  <2>1. c \notin Cleared /\ Cleared' = Cleared \cup {c}
    BY <1>1, <1>2 DEF Cleared, TypeOK
  <2>2. Limit > 0 => Cardinality({d \in Cleared : req[d].session = req[c].session}) < Limit
    BY <1>2, RoomToClear
  <2>3. \/ PolicyOf(Session(c), Action(c)) = "always"
        \/ PolicyOf(Session(c), Action(c)) = "approved" /\ grants[Action(c)] > 0
    BY <1>1, <1>2, PolicyAdmits
  <2>4. Limit > 0 => Boundary!Cardinality(Boundary!ClearedOf(req[c].session)) < Limit
    BY <2>2, SameCardinality DEF Boundary!ClearedOf, Cleared
  <2>5. Boundary!Clear(c)
    BY <1>1, <2>1, <2>3, <2>4 DEF Boundary!Clear, Cleared, Session, Action
  <2> QED
    BY <2>5 DEF Boundary!Next
<1>3. CASE v # "allow"
  <2>1. Cleared' = Cleared
    BY <1>1, <1>3 DEF Cleared, TypeOK
  <2> QED
    BY <2>1 DEF Boundary!vars, Cleared
<1> QED
  BY <1>2, <1>3

\* A step of the store's approve statement grants one action or changes nothing
\* the abstract boundary sees.
LEMMA GrantStep ==
  ASSUME TypeOK, NEW a, UNCHANGED <<req, verdict, crossed>>,
         RecordPending(a) \/ Consume(a) \/ ApproveApproval(a) \/ DenyApproval(a)
                          \/ UNCHANGED storeVars
  PROVE  [Boundary!Next]_(Boundary!vars)
<1>1. CASE grants' = grants
  BY <1>1 DEF Boundary!vars
<1>2. CASE grants' # grants
  <2>1. a \in Actions /\ grants' = [grants EXCEPT ![a] = @ + 1]
    BY <1>2 DEF TypeOK, RecordPending, Consume, ApproveApproval, DenyApproval, storeVars
  <2>2. Boundary!Grant(a)
    BY <2>1 DEF Boundary!Grant
  <2> QED
    BY <2>1, <2>2 DEF Boundary!Next
<1> QED
  BY <1>1, <1>2

\* Every handler step is a step of the abstract boundary or a stutter.
LEMMA HandleRefines ==
  ASSUME IInv, TypeOK', NEW c \in Calls, Handle(c)
  PROVE  [Boundary!Next]_(Boundary!vars)
<1>1. TypeOK /\ CallInv(c) /\ GrantAccounting /\ Route(c) \in RouteType /\ Action(c) \in Actions
  BY RequestType DEF IInv, ControlInv
<1> USE DEF At
<1>2. CASE RefuseUnrouted(c) \/ RefuseOverBudget(c)
  <2>1. verdict' = [verdict EXCEPT ![c] = "deny"] /\ verdict[c] = "none" /\ pc[c] # "idle"
    BY <1>1, <1>2 DEF RefuseUnrouted, RefuseOverBudget, CallInv
  <2>2. UNCHANGED <<req, grants, crossed>>
    BY <1>2 DEF RefuseUnrouted, RefuseOverBudget, outside, storeVars
  <2> QED
    BY <2>1, <2>2, VerdictStep DEF Verdict
<1>3. CASE DecideAlone(c)
  <2> DEFINE v == IF Route(c).judged THEN Route(c).uncleared ELSE "deny"
  <2>1. verdict' = [verdict EXCEPT ![c] = v] /\ verdict[c] = "none" /\ pc[c] = "decide"
    BY <1>1, <1>3 DEF DecideAlone, CallInv
  <2>2. UNCHANGED <<req, grants, crossed>>
    BY <1>3 DEF DecideAlone, outside, storeVars
  <2>3. v \in Verdict /\ (v = "allow" => Authorized(c))
    BY <1>1, <2>1 DEF RouteType, Verdict, Authorized, CallInv
  <2> QED
    BY <2>1, <2>2, <2>3, VerdictStep
<1>4. CASE Decide(c)
  <2>1. PICK ok \in StoreOutcomes :
          LET hit == ok /\ LookupApproved(Action(c))
              w   == IF TokenPasses(c, hit) THEN Route(c).cleared ELSE Route(c).uncleared
          IN  /\ found' = [found EXCEPT ![c] = hit]
              /\ verdict' = [verdict EXCEPT ![c] = w]
              /\ Goto(c, AfterLookup(w, hit))
    BY <1>4 DEF Decide
  <2> DEFINE v == IF TokenPasses(c, ok /\ LookupApproved(Action(c)))
                  THEN Route(c).cleared ELSE Route(c).uncleared
  <2>2. verdict' = [verdict EXCEPT ![c] = v] /\ verdict[c] = "none" /\ pc[c] = "decide"
    BY <1>1, <1>4, <2>1 DEF Decide, CallInv
  <2>3. UNCHANGED <<req, grants, crossed>>
    BY <1>4 DEF Decide, outside, storeVars
  <2>4. LookupApproved(Action(c)) => grants[Action(c)] > 0
    BY <1>1, FoundIsGranted
  <2>5. v \in Verdict /\ (v = "allow" => Authorized(c))
    BY <1>1, <1>4, <2>2, <2>4 DEF RouteType, Verdict, Authorized, CallInv, TokenPasses, Decide
  <2> QED
    BY <2>2, <2>3, <2>5, VerdictStep
<1>5. CASE Forward(c)
  <2>1. UNCHANGED <<req, grants, verdict>>
    BY <1>5 DEF Forward, outside, storeVars
  <2>2. c \in Cleared \ crossed
    BY <1>1, <1>5 DEF Forward, Forwards, CallInv, Cleared
  <2>3. CASE crossed' = crossed \cup {c}
    <3>1. Boundary!Cross(c)
      BY <2>1, <2>2, <2>3 DEF Boundary!Cross, Cleared
    <3> QED
      BY <3>1 DEF Boundary!Next
  <2>4. CASE crossed' = crossed
    BY <2>1, <2>4 DEF Boundary!vars
  <2> QED
    BY <1>5, <2>3, <2>4 DEF Forward
<1>6. CASE \/ ReserveCrossing(c) \/ RecordDenied(c) \/ ConsumeApproval(c) \/ Escalate(c)
           \/ Record(c) \/ Refuse(c)
  <2>1. UNCHANGED <<req, verdict, crossed>>
    BY <1>6 DEF ReserveCrossing, RecordDenied, ConsumeApproval, Escalate, Record, Refuse, outside
  <2>2. PICK a : RecordPending(a) \/ Consume(a) \/ ApproveApproval(a) \/ DenyApproval(a)
                                 \/ UNCHANGED storeVars
    BY OneStatement DEF Next
  <2> QED
    BY <1>1, <2>1, <2>2, GrantStep
<1> QED
  BY <1>2, <1>3, <1>4, <1>5, <1>6 DEF Handle

\* So is every step.
LEMMA NextRefines == IInv /\ [Next]_vars => [Boundary!Next]_(Boundary!vars)
<1> SUFFICES ASSUME IInv, [Next]_vars
             PROVE  [Boundary!Next]_(Boundary!vars)
  OBVIOUS
<1>1. TypeOK /\ TypeOK'
  BY NextTypeOK DEF IInv
<1>2. ASSUME NEW c \in Calls, Handle(c)
      PROVE  [Boundary!Next]_(Boundary!vars)
  BY <1>1, <1>2, HandleRefines
<1>3. ASSUME ~ \E c \in Calls : Handle(c)
      PROVE  [Boundary!Next]_(Boundary!vars)
  <2>1. UNCHANGED <<req, verdict, crossed>>
    BY <1>3 DEF Next, Dispatch, Restart, Submit, Poll, Deny, Approve, ReadForApprove, outside,
                callVars, vars
  <2> QED
    BY <1>1, <2>1, OneStatement, GrantStep
<1> QED
  BY <1>2, <1>3

\* The gate implements the abstract boundary: what reaches a downstream tool
\* was cleared exactly once, within the cap, under the policy and the grants.
THEOREM Implements == Spec => ImplementsMediation
<1>1. Init => Boundary!Init
  BY DEF Init, Boundary!Init
<1> QED
  BY <1>1, NextRefines, GateInvariant, PTL DEF Spec, ImplementsMediation, Boundary!Spec

-----------------------------------------------------------------------------

\* Where a handler has not written its leaf yet.
Unwritten == {"idle", "arrived", "decide", "consume", "escalate", "record", "recordDenied"}

\* What the position of a handler says about its leaf.
LeafInv(c) ==
  /\ leaves[c] \in {<<>>, <<"forwarded">>, <<"refused">>}
  /\ pc[c] \in Unwritten => leaves[c] = <<>>
  /\ pc[c] \in {"decided", "answered"} => leaves[c] \in {<<>>, LeafFor(c)}
  /\ ~SinkFails /\ pc[c] \notin Unwritten => leaves[c] # <<>>

\* A step that leaves a request alone leaves its leaf alone.
LEMMA LeafUntouched ==
  ASSUME NEW d \in Calls, LeafInv(d), leaves'[d] = leaves[d],
         pc'[d] = pc[d], verdict'[d] = verdict[d]
  PROVE  LeafInv(d)'
  BY DEF LeafInv, LeafFor

\* A handler that moves among the positions before its leaf.
LEMMA LeafLater ==
  ASSUME NEW d \in Calls, LeafInv(d), leaves'[d] = leaves[d],
         pc[d] \in Unwritten, pc'[d] \in Unwritten
  PROVE  LeafInv(d)'
  BY DEF LeafInv, Unwritten

\* The step of a handler keeps its own leaf as its position says.
LEMMA LeafOwn ==
  ASSUME TypeOK, NEW c \in Calls, LeafInv(c), CallInv(c), Handle(c)
  PROVE  LeafInv(c)'
<1> USE DEF At, Goto
<1>1. CASE \/ RefuseUnrouted(c) \/ ReserveCrossing(c) \/ RefuseOverBudget(c) \/ DecideAlone(c)
           \/ Decide(c) \/ ConsumeApproval(c) \/ Escalate(c)
  <2>1. pc[c] \in Unwritten /\ leaves' = leaves
    BY <1>1 DEF RefuseUnrouted, ReserveCrossing, RefuseOverBudget, DecideAlone, Decide,
                ConsumeApproval, Escalate, Unwritten
  <2>2. pc'[c] \in Unwritten
    BY <1>1 DEF TypeOK, RefuseUnrouted, ReserveCrossing, RefuseOverBudget, DecideAlone, Decide,
                ConsumeApproval, Escalate, AfterLookup, Unwritten
  <2> QED
    BY <2>1, <2>2, LeafLater
<1>2. CASE RecordDenied(c)
  <2>1. leaves[c] = <<>> /\ pc'[c] = "refused"
    BY <1>2 DEF RecordDenied, LeafInv, Unwritten, TypeOK
  <2>2. Append(<<>>, "refused") = <<"refused">> /\ <<"refused">> # <<>>
    OBVIOUS
  <2>3. PICK kept \in {TRUE} \cup (IF SinkFails THEN {FALSE} ELSE {}) :
          leaves'[c] = IF kept THEN Append(leaves[c], "refused") ELSE leaves[c]
    BY <1>2 DEF RecordDenied, TypeOK
  <2>4. /\ leaves'[c] \in {<<>>, <<"refused">>}
        /\ ~SinkFails => leaves'[c] = <<"refused">>
    BY <2>1, <2>2, <2>3
  <2> QED
    BY <2>1, <2>2, <2>4 DEF LeafInv, Unwritten
<1>3. CASE Record(c)
  <2>1. leaves[c] = <<>> /\ pc'[c] = "decided" /\ LeafFor(c)' = LeafFor(c)
    BY <1>3 DEF Record, LeafInv, Unwritten, TypeOK, LeafFor
  <2>2. LeafFor(c) = <<"forwarded">> \/ LeafFor(c) = <<"refused">>
    BY Zenon DEF LeafFor
  <2>3. <<>> \o LeafFor(c) = LeafFor(c) /\ LeafFor(c) # <<>>
    BY <2>2
  <2>4. PICK kept \in {TRUE} \cup (IF SinkFails THEN {FALSE} ELSE {}) :
          leaves'[c] = IF kept THEN leaves[c] \o LeafFor(c) ELSE leaves[c]
    BY <1>3 DEF Record, TypeOK
  <2>5. /\ leaves'[c] \in {<<>>, LeafFor(c)}
        /\ ~SinkFails => leaves'[c] = LeafFor(c)
    BY <2>1, <2>3, <2>4
  <2> QED
    BY <2>1, <2>2, <2>3, <2>5 DEF LeafInv, Unwritten
<1>4. CASE Refuse(c) \/ Forward(c)
  <2>1. /\ leaves'[c] = leaves[c] /\ LeafFor(c)' = LeafFor(c)
        /\ pc[c] = "decided" /\ pc'[c] \in {"refused", "answered"}
    BY <1>4 DEF Refuse, Forward, TypeOK, LeafFor
  <2> QED
    BY <2>1 DEF LeafInv, Unwritten
<1> QED
  BY <1>1, <1>2, <1>3, <1>4 DEF Handle

\* No handler writes another's leaf.
LEMMA LeavesFrame ==
  ASSUME TypeOK, NEW c \in Calls, Handle(c), NEW d \in Calls, d # c
  PROVE  leaves'[d] = leaves[d] /\ found'[d] = found[d]
<1>1. leaves'[d] = leaves[d]
  BY DEF TypeOK, Handle, RefuseUnrouted, ReserveCrossing, RefuseOverBudget, RecordDenied,
         DecideAlone, Decide, ConsumeApproval, Escalate, Record, Refuse, Forward
<1>2. found'[d] = found[d]
  BY DEF TypeOK, Handle, RefuseUnrouted, ReserveCrossing, RefuseOverBudget, RecordDenied,
         DecideAlone, Decide, ConsumeApproval, Escalate, Record, Refuse, Forward
<1> QED
  BY <1>1, <1>2

\* Every step keeps every leaf as the handler's position says.
LEMMA NextLeaf ==
  ASSUME TypeOK, ControlInv, \A c \in Calls : LeafInv(c), [Next]_vars
  PROVE  \A c \in Calls : LeafInv(c)'
<1> SUFFICES ASSUME NEW d \in Calls
             PROVE  LeafInv(d)'
  OBVIOUS
<1>1. LeafInv(d) /\ CallInv(d)
  BY DEF ControlInv
<1>2. ASSUME NEW c \in Calls, Handle(c)
      PROVE  LeafInv(d)'
  <2>1. CASE d = c
    BY <1>1, <1>2, <2>1, LeafOwn
  <2>2. CASE d # c
    BY <1>1, <1>2, <2>2, HandleFrame, LeavesFrame, LeafUntouched
  <2> QED
    BY <2>1, <2>2
<1>3. ASSUME NEW c \in Calls, Submit(c)
      PROVE  LeafInv(d)'
  <2>1. CASE d = c
    BY <1>1, <1>3, <2>1, LeafLater DEF Submit, At, Goto, TypeOK, Unwritten
  <2>2. CASE d # c
    BY <1>1, <1>3, <2>2, LeafUntouched DEF Submit, Goto, TypeOK
  <2> QED
    BY <2>1, <2>2
<1>4. CASE UNCHANGED callVars
  BY <1>1, <1>4, LeafUntouched DEF callVars
<1> QED
  BY <1>2, <1>3, <1>4 DEF Next, Dispatch, Restart, Poll, Deny, Approve, ReadForApprove, vars, callVars

\* No request leaves two leaves, what crossed is not recorded as refused, and
\* while the sink accepts appends every answered request has its leaf.
THEOREM Recorded == Spec => []OneLeafPerCall
<1> DEFINE Inv == IInv /\ \A c \in Calls : LeafInv(c)
<1>1. Init => Inv
  <2>1. Init => \A c \in Calls : LeafInv(c)
    BY DEF Init, LeafInv, Unwritten
  <2> QED
    BY <2>1, InitIInv
<1>2. Inv /\ [Next]_vars => Inv'
  <2> SUFFICES ASSUME Inv, [Next]_vars
               PROVE  Inv'
    OBVIOUS
  <2>1. \A c \in Calls : LeafInv(c)'
    BY NextLeaf DEF IInv
  <2>2. IInv'
    BY NextIInv
  <2>3. Calls' = Calls
    OBVIOUS
  <2> QED
    BY <2>1, <2>2, <2>3
<1>3. Inv => OneLeafPerCall
  <2> SUFFICES ASSUME Inv
               PROVE  OneLeafPerCall
    OBVIOUS
  <2>1. Len(<<>>) = 0 /\ Len(<<"forwarded">>) = 1 /\ Len(<<"refused">>) = 1
    OBVIOUS
  <2>2. \A c \in Calls : Len(leaves[c]) <= 1 /\ (leaves[c] # <<>> => Len(leaves[c]) = 1)
    <3> SUFFICES ASSUME NEW c \in Calls
                 PROVE  Len(leaves[c]) <= 1 /\ (leaves[c] # <<>> => Len(leaves[c]) = 1)
      OBVIOUS
    <3>1. leaves[c] = <<>> \/ leaves[c] = <<"forwarded">> \/ leaves[c] = <<"refused">>
      BY Zenon DEF LeafInv
    <3>2. Len(leaves[c]) = 0 \/ Len(leaves[c]) = 1
      BY <2>1, <3>1, Zenon
    <3>3. leaves[c] # <<>> => Len(leaves[c]) = 1
      BY <2>1, <3>1, Zenon
    <3>4. 0 <= 1 /\ 1 <= 1
      OBVIOUS
    <3> QED
      BY <3>2, <3>3, <3>4, Zenon
  <2>3. ASSUME NEW c \in crossed
        PROVE  leaves[c] \in {<<>>, <<"forwarded">>} /\ (~SinkFails => leaves[c] # <<>>)
    <3>1. c \in Calls /\ pc[c] = "answered" /\ verdict[c] = "allow"
      BY DEF IInv, TypeOK, ControlInv, CallInv
    <3> QED
      BY <3>1, Zenon DEF LeafInv, LeafFor, Unwritten
  <2>4. ~SinkFails => \A c \in Calls : pc[c] \in Done => leaves[c] # <<>>
    BY DEF LeafInv, Unwritten, Done
  <2> QED
    BY <2>2, <2>3, <2>4 DEF OneLeafPerCall
<1> HIDE DEF Inv
<1> QED
  BY <1>1, <1>2, <1>3, PTL DEF Spec

-----------------------------------------------------------------------------

\* The calls that may have burned an approval of a.
Spenders(a) == {c \in Calls : /\ Action(c) = a /\ found[c]
                              /\ verdict[c] = "allow"
                              /\ pc[c] # "consume"}

\* A handler about to burn an approval found one and was allowed with it.
BurnInv == \A c \in Calls : pc[c] = "consume" => found[c] /\ verdict[c] = "allow"

\* Spenders are finite, and counted by a number.
LEMMA SpendersFinite ==
  ASSUME NEW a
  PROVE  IsFiniteSet(Spenders(a)) /\ Cardinality(Spenders(a)) \in Nat
<1>1. Spenders(a) \subseteq Calls
  BY DEF Spenders
<1> QED
  BY <1>1, GateAssumption, FS_Subset, FS_CardinalityType

\* A request that is not being decided keeps its verdict and what it found,
\* and nobody goes back to burn.
LEMMA SpenderStays ==
  ASSUME TypeOK, NEW c \in Calls, Handle(c), CallInv(c), verdict[c] = "allow", pc[c] # "consume"
  PROVE  verdict'[c] = "allow" /\ found'[c] = found[c] /\ pc'[c] # "consume"
<1>1. pc[c] \in {"record", "decided", "answered"}
  BY DEF CallInv
<1>2. Record(c) \/ Refuse(c) \/ Forward(c)
  BY <1>1 DEF Handle, At, RefuseUnrouted, ReserveCrossing, RefuseOverBudget, RecordDenied,
              DecideAlone, Decide, ConsumeApproval, Escalate
<1> QED
  BY <1>2 DEF Record, Refuse, Forward, Goto, TypeOK

\* Once a spender, a request stays one.
LEMMA SpendersGrow ==
  ASSUME TypeOK, ControlInv, [Next]_vars, NEW a
  PROVE  Spenders(a) \subseteq Spenders(a)'
<1> SUFFICES ASSUME NEW d \in Calls, d \in Spenders(a)
             PROVE  d \in Spenders(a)'
  BY DEF Spenders
<1>1. Action(d) = a /\ found[d] /\ verdict[d] = "allow" /\ pc[d] # "consume" /\ CallInv(d)
  BY DEF Spenders, ControlInv
<1>2. ASSUME req' = req, verdict'[d] = "allow", found'[d] = found[d], pc'[d] # "consume"
      PROVE  d \in Spenders(a)'
  BY <1>1, <1>2 DEF Spenders, Action
<1>3. ASSUME NEW c \in Calls, Handle(c)
      PROVE  d \in Spenders(a)'
  <2>1. CASE d = c
    BY <1>1, <1>2, <1>3, <2>1, HandleFrame, SpenderStays
  <2>2. CASE d # c
    BY <1>1, <1>2, <1>3, <2>2, HandleFrame, LeavesFrame
  <2> QED
    BY <2>1, <2>2
<1>4. ASSUME NEW c \in Calls, Submit(c)
      PROVE  d \in Spenders(a)'
  <2>1. d # c
    BY <1>1, <1>4 DEF Submit, At, CallInv
  <2> QED
    BY <1>1, <1>2, <1>4, <2>1 DEF Submit, outside, Goto, TypeOK
<1>5. CASE UNCHANGED <<req, callVars>>
  BY <1>1, <1>2, <1>5 DEF callVars
<1> QED
  BY <1>3, <1>4, <1>5 DEF Next, Dispatch, Restart, Poll, Deny, Approve, ReadForApprove, vars, callVars

\* Every step keeps the handlers that are about to burn entitled to it.
LEMMA NextBurnInv ==
  ASSUME TypeOK, BurnInv, [Next]_vars
  PROVE  BurnInv'
<1> SUFFICES ASSUME NEW d \in Calls, pc'[d] = "consume"
             PROVE  found'[d] /\ verdict'[d] = "allow"
  BY DEF BurnInv
<1>1. pc[d] = "consume" => found[d] /\ verdict[d] = "allow"
  BY DEF BurnInv
<1>2. ASSUME NEW c \in Calls, Handle(c)
      PROVE  found'[d] /\ verdict'[d] = "allow"
  <2>1. CASE d = c
    <3>1. Decide(c)
      BY <1>2, <2>1 DEF Handle, Goto, TypeOK, RefuseUnrouted, ReserveCrossing, RefuseOverBudget,
                        RecordDenied, DecideAlone, ConsumeApproval, Escalate, Record, Refuse, Forward
    <3>2. PICK ok \in StoreOutcomes :
            LET hit == ok /\ LookupApproved(Action(c))
                v   == IF TokenPasses(c, hit) THEN Route(c).cleared ELSE Route(c).uncleared
            IN  /\ found' = [found EXCEPT ![c] = hit]
                /\ verdict' = [verdict EXCEPT ![c] = v]
                /\ Goto(c, AfterLookup(v, hit))
      BY <3>1 DEF Decide
    <3> QED
      BY <2>1, <3>2 DEF TypeOK, Goto, AfterLookup
  <2>2. CASE d # c
    BY <1>1, <1>2, <2>2, HandleFrame, LeavesFrame
  <2> QED
    BY <2>1, <2>2
<1>3. ASSUME NEW c \in Calls, Submit(c)
      PROVE  found'[d] /\ verdict'[d] = "allow"
  <2>1. d # c
    BY <1>3 DEF Submit, Goto, TypeOK
  <2> QED
    BY <1>1, <1>3, <2>1 DEF Submit, Goto, TypeOK
<1>4. CASE UNCHANGED callVars
  BY <1>1, <1>4 DEF callVars
<1> QED
  BY <1>2, <1>3, <1>4 DEF Next, Dispatch, Restart, Poll, Deny, Approve, ReadForApprove, vars, callVars

\* A step burns approvals only in the handler of a call allowed with one, which
\* then joins the spenders.
LEMMA BurnStep ==
  ASSUME TypeOK, ControlInv, BurnInv, [Next]_vars, NEW a \in Actions,
         burns[a] <= Cardinality(Spenders(a))
  PROVE  burns'[a] <= Cardinality(Spenders(a)')
<1>1. /\ IsFiniteSet(Spenders(a)) /\ Cardinality(Spenders(a)) \in Nat
      /\ IsFiniteSet(Spenders(a)') /\ Cardinality(Spenders(a)') \in Nat
  <2>1. Spenders(a)' \subseteq Calls
    BY DEF Spenders
  <2> QED
    BY <2>1, SpendersFinite, GateAssumption, FS_Subset, FS_CardinalityType
<1>2. Spenders(a) \subseteq Spenders(a)'
  BY SpendersGrow
<1>3. Cardinality(Spenders(a)) <= Cardinality(Spenders(a)')
  BY <1>1, <1>2, FS_Subset
<1>4. burns[a] \in Nat
  BY DEF TypeOK
<1>5. CASE burns'[a] = burns[a]
  BY <1>1, <1>3, <1>4, <1>5
<1>6. ASSUME NEW c \in Calls, ConsumeApproval(c), burns'[a] # burns[a]
      PROVE  burns'[a] <= Cardinality(Spenders(a)')
  <2>1. Action(c) = a /\ burns'[a] = burns[a] + 1
    BY <1>4, <1>6 DEF ConsumeApproval, Consume, storeVars, TypeOK
  <2>2. pc[c] = "consume" /\ pc'[c] = "record" /\ req' = req /\ found' = found /\ verdict' = verdict
    BY <1>6 DEF ConsumeApproval, At, Goto, outside, TypeOK
  <2>3. c \notin Spenders(a) /\ c \in Spenders(a)'
    BY <2>1, <2>2 DEF Spenders, BurnInv, Action
  <2>4. Cardinality(Spenders(a) \cup {c}) = Cardinality(Spenders(a)) + 1
    BY <1>1, <2>3, FS_AddElement
  <2>5. Spenders(a) \cup {c} \subseteq Spenders(a)'
    BY <1>2, <2>3
  <2>6. Cardinality(Spenders(a) \cup {c}) <= Cardinality(Spenders(a)')
    BY <1>1, <2>5, FS_Subset
  <2> QED
    BY <1>1, <1>4, <2>1, <2>4, <2>6
<1>7. burns'[a] = burns[a] \/ \E c \in Calls : ConsumeApproval(c)
  <2>1. ASSUME NEW c \in Calls, Handle(c), ~ConsumeApproval(c)
        PROVE  burns' = burns
    BY <2>1 DEF Handle, RefuseUnrouted, ReserveCrossing, RefuseOverBudget, RecordDenied,
                DecideAlone, Decide, Escalate, RecordPending, Record, Refuse, Forward, storeVars
  <2>2. (\E h \in Approvers : Approve(h)) => burns' = burns
    BY DEF Approve, ApproveApproval, storeVars
  <2> QED
    BY <2>1, <2>2 DEF Next, Dispatch, Restart, Submit, Poll, Deny, DenyApproval, ReadForApprove,
                      vars, storeVars
<1> QED
  BY <1>5, <1>6, <1>7

\* A denied or still escalated call never costs a human decision.
THEOREM BurnsAreEarned == Spec => []BurnsAreReleases
<1> DEFINE Inv == IInv /\ BurnInv /\ \A a \in Actions : burns[a] <= Cardinality(Spenders(a))
<1>1. Init => Inv
  <2> SUFFICES ASSUME Init
               PROVE  Inv
    OBVIOUS
  <2>1. BurnInv
    BY DEF Init, BurnInv
  <2>2. \A a \in Actions : burns[a] = 0
    BY DEF Init
  <2>3. \A a \in Actions : burns[a] <= Cardinality(Spenders(a))
    BY <2>2, SpendersFinite
  <2> QED
    BY <2>1, <2>3, InitIInv
<1>2. Inv /\ [Next]_vars => Inv'
  <2> SUFFICES ASSUME Inv, [Next]_vars
               PROVE  Inv'
    OBVIOUS
  <2>1. TypeOK /\ ControlInv
    BY DEF IInv
  <2>2. BurnInv'
    BY <2>1, NextBurnInv
  <2>3. \A a \in Actions : burns'[a] <= Cardinality(Spenders(a)')
    BY <2>1, BurnStep
  <2>4. IInv'
    BY NextIInv
  <2> QED
    BY <2>2, <2>3, <2>4
<1>3. Inv => BurnsAreReleases
  BY DEF BurnsAreReleases, Spenders
<1> HIDE DEF Inv
<1> QED
  BY <1>1, <1>2, <1>3, PTL DEF Spec

-----------------------------------------------------------------------------
(* One request at a time.                                                  *)

\* Where a handler has its verdict and may still forward.
Ahead == {"consume", "record", "decided"}

Serial == Cardinality(InFlight) <= 1

\* While requests do not overlap, nobody comes between the lookup of an approval
\* and what the handler does with it.
SerialInv(c) ==
  /\ pc[c] \in {"idle", "arrived", "decide"} => ~found[c]
  /\ At(c, "consume") => row[Action(c)] = "approved"
  /\ pc[c] \in Ahead /\ At(c, pc[c]) /\ verdict[c] = "allow" /\ Route(c).uncleared # "allow"
       => row[Action(c)] \in {"approved", "consumed"}

\* Two requests in flight are one.
LEMMA OneInFlight ==
  ASSUME Serial, NEW c \in InFlight, NEW d \in InFlight
  PROVE  c = d
<1> SUFFICES ASSUME c # d
             PROVE  FALSE
  OBVIOUS
<1>1. InFlight \subseteq Calls
  BY DEF InFlight
<1>2. IsFiniteSet(InFlight)
  BY <1>1, GateAssumption, FS_Subset
<1>3. IsFiniteSet({c}) /\ Cardinality({c}) = 1
  BY FS_Singleton
<1>4. Cardinality({c} \cup {d}) = 2
  BY <1>3, FS_AddElement
<1>5. Cardinality({c} \cup {d}) <= Cardinality(InFlight) /\ Cardinality(InFlight) \in Nat
  BY <1>2, FS_Subset, FS_CardinalityType
<1> QED
  BY <1>4, <1>5 DEF Serial

\* A handler that takes a step is in flight.
LEMMA HandlerInFlight ==
  ASSUME NEW c \in Calls, Handle(c)
  PROVE  c \in InFlight
BY DEF InFlight, Done, Handle, At, RefuseUnrouted, ReserveCrossing, RefuseOverBudget, RecordDenied,
       DecideAlone, Decide, ConsumeApproval, Escalate, Record, Refuse, Forward

\* What people do does not touch a row that is approved or spent.
LEMMA PeopleKeepRows ==
  ASSUME TypeOK, [Next]_vars, ~ \E c \in Calls : Handle(c), NEW a \in Actions,
         row[a] \in {"approved", "consumed"}
  PROVE  row'[a] = row[a]
<1>1. ASSUME NEW h \in Approvers, Approve(h)
      PROVE  row'[a] = row[a]
  <2>1. ApproveApproval(target[h]) \/ UNCHANGED storeVars
    BY <1>1 DEF Approve
  <2> QED
    BY <2>1 DEF ApproveApproval, storeVars, TypeOK
<1>2. ASSUME NEW b \in Actions, Deny(b)
      PROVE  row'[a] = row[a]
  BY <1>2 DEF Deny, DenyApproval, TypeOK
<1>3. CASE UNCHANGED storeVars
  BY <1>3 DEF storeVars
<1> QED
  BY <1>1, <1>2, <1>3 DEF Next, Dispatch, Restart, Submit, Poll, ReadForApprove, vars

\* The step of a handler keeps what it knows of the row.
LEMMA SerialOwn ==
  ASSUME TypeOK, TypeOK', NEW c \in Calls, CallInv(c), SerialInv(c), Handle(c)
  PROVE  SerialInv(c)'
<1>1. /\ req' = req /\ binding' = binding
      /\ Action(c)' = Action(c) /\ Route(c)' = Route(c) /\ Session(c)' = Session(c)
      /\ Action(c) \in Actions
  BY HandleFrame, RequestType DEF Action, Route, Session
<1> USE DEF At, Goto, Ahead
<1>2. CASE RefuseUnrouted(c) \/ ReserveCrossing(c) \/ RefuseOverBudget(c)
  BY <1>1, <1>2 DEF RefuseUnrouted, ReserveCrossing, RefuseOverBudget, SerialInv, TypeOK
<1>3. CASE RecordDenied(c) \/ Escalate(c) \/ Refuse(c) \/ Forward(c)
  <2> pc \in [Calls -> CallState]
    BY DEF TypeOK
  <2>1. pc'[c] \in {"refused", "answered"} \/ (pc'[c] = "record" /\ Escalate(c))
    BY <1>3 DEF RecordDenied, Escalate, Refuse, Forward
  <2>2. Escalate(c) => verdict[c] # "allow" /\ verdict' = verdict
    BY DEF Escalate, CallInv
  <2> QED
    BY <2>1, <2>2 DEF SerialInv
<1>4. CASE DecideAlone(c)
  <2>1. pc'[c] = "record" /\ (verdict'[c] = "allow" => Route(c).uncleared = "allow")
    BY <1>4 DEF DecideAlone, TypeOK
  <2> QED
    BY <1>1, <2>1 DEF SerialInv
<1>5. CASE Decide(c)
  <2>1. PICK ok \in StoreOutcomes :
          LET hit == ok /\ LookupApproved(Action(c))
              v   == IF TokenPasses(c, hit) THEN Route(c).cleared ELSE Route(c).uncleared
          IN  /\ found' = [found EXCEPT ![c] = hit]
              /\ verdict' = [verdict EXCEPT ![c] = v]
              /\ Goto(c, AfterLookup(v, hit))
    BY <1>5 DEF Decide
  <2>2. pc'[c] \in {"consume", "escalate", "record"} /\ row' = row
    BY <1>5, <2>1 DEF Decide, AfterLookup, storeVars, TypeOK
  <2>3. pc'[c] = "consume" => row[Action(c)] = "approved"
    BY <2>1 DEF AfterLookup, LookupApproved, TypeOK
  <2>4. verdict'[c] = "allow" /\ Route(c).uncleared # "allow" => row[Action(c)] = "approved"
    BY <2>1 DEF TokenPasses, LookupApproved, TypeOK
  <2> QED
    BY <1>1, <2>2, <2>3, <2>4 DEF SerialInv
<1>6. CASE ConsumeApproval(c)
  <2>1. pc[c] = "consume" /\ pc'[c] = "record" /\ row[Action(c)] = "approved"
    BY <1>6 DEF ConsumeApproval, SerialInv, TypeOK
  <2>2. Consume(Action(c)) \/ UNCHANGED storeVars
    BY <1>6 DEF ConsumeApproval
  <2>3. row'[Action(c)] \in {"approved", "consumed"}
    BY <1>1, <2>1, <2>2 DEF Consume, storeVars, TypeOK
  <2> QED
    BY <1>1, <2>1, <2>3 DEF SerialInv
<1>7. CASE Record(c)
  <2>1. pc[c] = "record" /\ pc'[c] = "decided" /\ row' = row /\ verdict' = verdict
    BY <1>7 DEF Record, storeVars, TypeOK
  <2> QED
    BY <1>1, <1>7, <2>1 DEF SerialInv, Record
<1> QED
  BY <1>2, <1>3, <1>4, <1>5, <1>6, <1>7 DEF Handle

\* So does every step, while requests do not overlap.
LEMMA NextSerial ==
  ASSUME TypeOK, TypeOK', ControlInv, Serial, \A c \in Calls : SerialInv(c), [Next]_vars
  PROVE  \A c \in Calls : SerialInv(c)'
<1> SUFFICES ASSUME NEW d \in Calls
             PROVE  SerialInv(d)'
  OBVIOUS
<1>1. /\ SerialInv(d) /\ CallInv(d)
      /\ Session(d) \in Sessions /\ Action(d) \in Actions
  BY RequestType DEF ControlInv
<1>2. ASSUME NEW c \in Calls, Handle(c)
      PROVE  SerialInv(d)'
  <2>1. CASE d = c
    BY <1>1, <1>2, <2>1, SerialOwn
  <2>2. CASE d # c
    <3>1. /\ req' = req /\ binding' = binding
          /\ pc'[d] = pc[d] /\ found'[d] = found[d]
      BY <1>2, <2>2, HandleFrame, LeavesFrame
    <3>2. ~(pc[d] \in Ahead /\ At(d, pc[d]))
      <4>1. pc[d] \in Ahead /\ At(d, pc[d]) => d \in InFlight
        BY DEF Ahead, At, InFlight, Done
      <4> QED
        BY <1>2, <2>2, <4>1, HandlerInFlight, OneInFlight
    <3> QED
      BY <1>1, <3>1, <3>2 DEF SerialInv, At, Ahead, Session
  <2> QED
    BY <2>1, <2>2
<1>3. ASSUME ~ \E c \in Calls : Handle(c)
      PROVE  SerialInv(d)'
  <2>1. row[Action(d)] \in {"approved", "consumed"} => row'[Action(d)] = row[Action(d)]
    BY <1>1, <1>3, PeopleKeepRows
  <2>2. /\ req' = req /\ UNCHANGED <<found, verdict>>
        /\ pc'[d] = pc[d] \/ (pc[d] = "idle" /\ pc'[d] = "arrived")
    <3>1. ASSUME NEW c \in Calls, Submit(c)
          PROVE  /\ req' = req /\ UNCHANGED <<found, verdict>>
                 /\ pc'[d] = pc[d] \/ (pc[d] = "idle" /\ pc'[d] = "arrived")
      BY <1>1, <3>1 DEF Submit, At, Goto, outside, TypeOK
    <3>2. CASE UNCHANGED <<req, callVars>>
      BY <3>2 DEF callVars
    <3> QED
      BY <1>3, <3>1, <3>2 DEF Next, Dispatch, Restart, Poll, Deny, Approve, ReadForApprove, vars,
                              callVars
  <2>3. binding'[Session(d)] = "bound" => binding[Session(d)] = "bound" \/ pc[d] = "idle"
    <3>1. ASSUME NEW s \in Sessions, Dispatch(s)
          PROVE  binding'[Session(d)] = "bound" => binding[Session(d)] = "bound" \/ pc[d] = "idle"
      BY <1>1, <3>1 DEF Dispatch, CallInv, TypeOK
    <3>2. CASE Restart
      BY <1>1, <3>2 DEF Restart, TypeOK
    <3>3. CASE UNCHANGED binding
      BY <3>3
    <3> QED
      BY <1>3, <3>1, <3>2, <3>3 DEF Next, Submit, Poll, Deny, Approve, ReadForApprove, outside, vars
  <2>4. Action(d)' = Action(d) /\ Route(d)' = Route(d) /\ Session(d)' = Session(d)
    BY <2>2 DEF Action, Route, Session
  <2> QED
    BY <1>1, <2>1, <2>2, <2>3, <2>4 DEF SerialInv, At, Ahead
<1> QED
  BY <1>2, <1>3

\* While requests do not overlap and the store answers, a call becomes a spender
\* only in the step that burns the approval it found.
LEMMA SpendersBurn ==
  ASSUME TypeOK, ControlInv, \A c \in Calls : SerialInv(c), [Next]_vars, ~StoreFails,
         NEW a \in Actions, NEW d \in Calls, d \in Spenders(a)', d \notin Spenders(a)
  PROVE  /\ Spenders(a)' \subseteq Spenders(a) \cup {d}
         /\ burns'[a] = burns[a] + 1
<1>1. ASSUME NEW c \in Calls, c \in Spenders(a)', c \notin Spenders(a)
      PROVE  ConsumeApproval(c) /\ Action(c) = a
  <2>1. SerialInv(c) /\ CallInv(c)
    BY DEF ControlInv
  <2>2. Action(c)' = a /\ found'[c] /\ verdict'[c] = "allow" /\ pc'[c] # "consume"
    BY <1>1 DEF Spenders
  <2>3. ASSUME found'[c] = found[c], verdict'[c] = verdict[c], req' = req
        PROVE  pc[c] = "consume"
    BY <1>1, <2>2, <2>3 DEF Spenders, Action
  <2>4. CASE Handle(c)
    <3>1. Action(c) = a
      BY <2>2, <2>4, HandleFrame DEF Action
    <3>2. ~(RefuseUnrouted(c) \/ RefuseOverBudget(c))
      BY <2>2 DEF RefuseUnrouted, RefuseOverBudget, TypeOK
    <3>3. ~DecideAlone(c)
      BY <2>1, <2>2 DEF DecideAlone, SerialInv, At
    <3>4. ~Decide(c)
      <4> SUFFICES ASSUME Decide(c)
                   PROVE  FALSE
        OBVIOUS
      <4>1. PICK ok \in StoreOutcomes :
              LET hit == ok /\ LookupApproved(Action(c))
                  v   == IF TokenPasses(c, hit) THEN Route(c).cleared ELSE Route(c).uncleared
              IN  /\ found' = [found EXCEPT ![c] = hit]
                  /\ verdict' = [verdict EXCEPT ![c] = v]
                  /\ Goto(c, AfterLookup(v, hit))
        BY DEF Decide
      <4> QED
        BY <2>2, <4>1 DEF AfterLookup, Goto, TypeOK
    <3>5. ~(ReserveCrossing(c) \/ RecordDenied(c) \/ Escalate(c) \/ Record(c) \/ Refuse(c) \/ Forward(c))
      BY <2>3 DEF ReserveCrossing, RecordDenied, Escalate, Record, Refuse, Forward, At, outside
    <3> QED
      BY <2>4, <3>1, <3>2, <3>3, <3>4, <3>5 DEF Handle
  <2>5. ASSUME NEW e \in Calls, Handle(e), e # c
        PROVE  FALSE
    <3>1. /\ found'[c] = found[c] /\ verdict'[c] = verdict[c] /\ pc'[c] = pc[c] /\ req' = req
      BY <2>5, HandleFrame, LeavesFrame
    <3> QED
      BY <2>2, <2>3, <3>1
  <2>6. CASE ~ \E e \in Calls : Handle(e)
    <3>1. /\ req' = req /\ UNCHANGED <<found, verdict>>
          /\ pc'[c] = pc[c] \/ pc[c] = "idle"
      BY <2>6 DEF Next, Dispatch, Restart, Submit, At, Goto, Poll, Deny, Approve, ReadForApprove,
                  outside, callVars, vars, TypeOK
    <3> QED
      BY <2>2, <2>3, <3>1
  <2> QED
    BY <2>4, <2>5, <2>6
<1>2. ConsumeApproval(d) /\ Action(d) = a /\ pc[d] = "consume"
  BY <1>1 DEF ConsumeApproval, At
<1>3. row[a] = "approved"
  BY <1>2 DEF SerialInv, ConsumeApproval, At
<1>4. burns'[a] = burns[a] + 1
  BY <1>2, <1>3 DEF ConsumeApproval, StoreOutcomes, Consume, TypeOK
<1>5. Spenders(a)' \subseteq Spenders(a) \cup {d}
  <2> SUFFICES ASSUME NEW c \in Calls, c \in Spenders(a)', c \notin Spenders(a)
               PROVE  c = d
    BY DEF Spenders
  <2>1. ConsumeApproval(c) /\ ConsumeApproval(d)
    BY <1>1, <1>2
  <2>2. pc'[c] = "record" /\ pc[c] = "consume"
    BY <2>1 DEF ConsumeApproval, At, Goto, TypeOK
  <2>3. \A e \in Calls \ {d} : pc'[e] = pc[e]
    BY <2>1 DEF ConsumeApproval, Goto, TypeOK
  <2> QED
    BY <2>2, <2>3
<1> QED
  BY <1>4, <1>5

\* ... so spenders are no more than the approvals burned.
LEMMA SpendersCounted ==
  ASSUME TypeOK, ControlInv, \A c \in Calls : SerialInv(c), [Next]_vars, ~StoreFails,
         NEW a \in Actions, Cardinality(Spenders(a)) <= burns[a], burns'[a] >= burns[a],
         burns[a] \in Nat, burns'[a] \in Nat
  PROVE  Cardinality(Spenders(a)') <= burns'[a]
<1>1. IsFiniteSet(Spenders(a)) /\ Cardinality(Spenders(a)) \in Nat
  BY SpendersFinite
<1>2. CASE Spenders(a)' \subseteq Spenders(a)
  <2>1. Cardinality(Spenders(a)') <= Cardinality(Spenders(a)) /\ Cardinality(Spenders(a)') \in Nat
    BY <1>1, <1>2, FS_Subset, FS_CardinalityType
  <2> QED
    BY <1>1, <2>1
<1>3. ASSUME NEW d \in Calls, d \in Spenders(a)', d \notin Spenders(a)
      PROVE  Cardinality(Spenders(a)') <= burns'[a]
  <2>1. Spenders(a)' \subseteq Spenders(a) \cup {d} /\ burns'[a] = burns[a] + 1
    BY <1>3, SpendersBurn
  <2>2. /\ Cardinality(Spenders(a) \cup {d}) = Cardinality(Spenders(a)) + 1
        /\ IsFiniteSet(Spenders(a) \cup {d})
    BY <1>1, <1>3, FS_AddElement
  <2>3. /\ Cardinality(Spenders(a)') <= Cardinality(Spenders(a) \cup {d})
        /\ Cardinality(Spenders(a)') \in Nat
    BY <2>1, <2>2, FS_Subset, FS_CardinalityType
  <2> QED
    BY <1>1, <2>1, <2>2, <2>3
<1>4. Spenders(a)' \subseteq Calls
  BY DEF Spenders
<1> QED
  BY <1>2, <1>3, <1>4

\* No step takes a burn back.
LEMMA BurnsGrow ==
  ASSUME TypeOK, [Next]_vars, NEW a \in Actions
  PROVE  burns'[a] >= burns[a]
<1>1. burns[a] \in Nat
  BY DEF TypeOK
<1>2. PICK b : RecordPending(b) \/ Consume(b) \/ ApproveApproval(b) \/ DenyApproval(b)
                               \/ UNCHANGED storeVars
  BY OneStatement
<1>3. burns'[a] = burns[a] \/ burns'[a] = burns[a] + 1
  BY <1>1, <1>2 DEF RecordPending, Consume, ApproveApproval, DenyApproval, storeVars, TypeOK
<1> QED
  BY <1>1, <1>3

\* What holds while requests do not overlap.
OverlapFree ==
  /\ IInv
  /\ \A c \in Calls : SerialInv(c)
  /\ ~StoreFails => \A a \in Actions : Cardinality(Spenders(a)) <= burns[a]

LEMMA InitOverlapFree == Init => OverlapFree
<1> SUFFICES ASSUME Init
             PROVE  OverlapFree
  OBVIOUS
<1>1. \A c \in Calls : SerialInv(c)
  BY DEF Init, SerialInv, At, Ahead
<1>2. \A a \in Actions : Spenders(a) = {} /\ burns[a] = 0
  BY DEF Init, Spenders
<1>3. \A a \in Actions : Cardinality(Spenders(a)) <= burns[a]
  BY <1>2, FS_EmptySet
<1> QED
  BY <1>1, <1>3, InitIInv DEF OverlapFree

LEMMA NextOverlapFree == OverlapFree /\ Serial /\ [Next]_vars => OverlapFree'
<1> SUFFICES ASSUME OverlapFree, Serial, [Next]_vars
             PROVE  OverlapFree'
  OBVIOUS
<1>1. IInv /\ IInv'
  BY NextIInv DEF OverlapFree
<1>2. TypeOK /\ TypeOK' /\ ControlInv
  BY <1>1 DEF IInv
<1>3. \A c \in Calls : SerialInv(c)'
  BY <1>2, NextSerial DEF OverlapFree
<1>4. ASSUME ~StoreFails, NEW a \in Actions
      PROVE  Cardinality(Spenders(a)') <= burns'[a]
  BY <1>2, <1>4, SpendersCounted, BurnsGrow DEF OverlapFree, TypeOK
<1> QED
  BY <1>1, <1>3, <1>4 DEF OverlapFree

\* For any policy, as long as requests do not overlap and the store answers, an
\* approval is one-time: no more calls are forwarded with approvals of an action
\* than people have given (proxy.go:230-257).
THEOREM OneTimeIfSerial == Spec => OneTimeWhenSerial
<1>1. OverlapFree /\ ~StoreFails => OneTimeRelease
  <2> SUFFICES ASSUME OverlapFree, ~StoreFails, NEW a \in Actions
               PROVE  Cardinality(Released(a)) <= grants[a]
    BY DEF OneTimeRelease
  <2>1. Released(a) \subseteq Spenders(a)
    BY DEF OverlapFree, IInv, ControlInv, CallInv, Released, Spenders
  <2>2. Cardinality(Released(a)) <= Cardinality(Spenders(a)) /\ Cardinality(Released(a)) \in Nat
    BY <2>1, SpendersFinite, FS_Subset, FS_CardinalityType
  <2>3. Cardinality(Spenders(a)) <= burns[a] /\ Cardinality(Spenders(a)) \in Nat
    BY SpendersFinite DEF OverlapFree
  <2>4. grants[a] \in Nat /\ burns[a] \in Nat /\ burns[a] <= grants[a]
    <3>1. /\ grants[a] \in Nat /\ burns[a] \in Nat
          /\ grants[a] = burns[a] + (IF row[a] = "approved" THEN 1 ELSE 0)
      BY DEF OverlapFree, IInv, TypeOK, GrantAccounting
    <3> QED
      BY <3>1
  <2> QED
    BY <2>2, <2>3, <2>4
<1>2. CASE StoreFails
  BY <1>2 DEF OneTimeWhenSerial
<1>3. CASE ~StoreFails
  <2>1. OverlapFree => OneTimeRelease
    BY <1>1, <1>3
  <2>2. Serially <=> []Serial
    BY PTL DEF Serially, Serial
  <2> QED
    BY <2>1, <2>2, InitOverlapFree, NextOverlapFree, PTL DEF Spec, OneTimeWhenSerial
<1> QED
  BY <1>2, <1>3

\* A request that needs an approval and has not been let through, of an action a
\* person has denied.
Barred(c) ==
  /\ row[Action(c)] = "denied" /\ c \notin crossed /\ Route(c).uncleared # "allow"
  /\ ~(pc[c] \in Ahead /\ At(c, pc[c]) /\ verdict[c] = "allow")

\* It stays so, whether or not requests overlap.
LEMMA BarredStays ==
  ASSUME IInv, [Next]_vars, NEW d \in Calls, Barred(d)
  PROVE  Barred(d)'
<1>1. TypeOK /\ CallInv(d) /\ Session(d) \in Sessions /\ Action(d) \in Actions
  BY RequestType DEF IInv, ControlInv
<1>2. row'[Action(d)] = "denied"
  <2>1. PICK a : RecordPending(a) \/ Consume(a) \/ ApproveApproval(a) \/ DenyApproval(a)
                                 \/ UNCHANGED storeVars
    BY OneStatement
  <2>2. row[Action(d)] = "denied" /\ Action(d) \in Actions /\ row \in [Actions -> RowStatus]
    BY <1>1 DEF Barred, TypeOK
  <2> QED
    BY <2>1, <2>2 DEF RecordPending, Consume, ApproveApproval, DenyApproval, storeVars
<1>3. CASE Handle(d)
  <2>1. /\ req' = req /\ binding' = binding
        /\ Action(d)' = Action(d) /\ Route(d)' = Route(d) /\ Session(d)' = Session(d)
    BY <1>1, <1>3, HandleFrame DEF Action, Route, Session
  <2>2. ~Forward(d)
    BY DEF Barred, Forward, Forwards, At, Ahead
  <2>3. d \notin crossed'
    BY <1>3, <2>2 DEF Barred, Handle, RefuseUnrouted, ReserveCrossing, RefuseOverBudget,
                      RecordDenied, DecideAlone, Decide, ConsumeApproval, Escalate, Record, Refuse
  <2>4. ~(pc'[d] \in Ahead /\ At(d, pc[d])' /\ verdict'[d] = "allow")
    <3>1. CASE Decide(d)
      <4>1. ~LookupApproved(Action(d))
        BY DEF Barred, LookupApproved
      <4>2. verdict'[d] = Route(d).uncleared
        BY <1>1, <3>1, <4>1 DEF Decide, TokenPasses, TypeOK
      <4> QED
        BY <4>2 DEF Barred
    <3>2. CASE DecideAlone(d)
      BY <1>1, <3>2 DEF DecideAlone, Barred, TypeOK
    <3>3. CASE RefuseUnrouted(d) \/ RefuseOverBudget(d)
      BY <1>1, <3>3 DEF RefuseUnrouted, RefuseOverBudget, TypeOK
    <3>4. CASE \/ ReserveCrossing(d) \/ RecordDenied(d) \/ ConsumeApproval(d) \/ Escalate(d)
               \/ Record(d) \/ Refuse(d)
      <4>1. verdict'[d] = verdict[d] /\ At(d, pc[d])
        BY <3>4 DEF ReserveCrossing, RecordDenied, ConsumeApproval, Escalate, Record, Refuse, At
      <4>2. verdict[d] = "allow" => pc[d] \in Ahead
        BY <1>1, <3>4 DEF ReserveCrossing, RecordDenied, ConsumeApproval, Escalate, Record, Refuse,
                          At, CallInv, Ahead
      <4> QED
        BY <4>1, <4>2 DEF Barred
    <3> QED
      BY <1>3, <2>2, <3>1, <3>2, <3>3, <3>4 DEF Handle
  <2> QED
    BY <1>2, <2>1, <2>3, <2>4 DEF Barred, At
<1>4. CASE ~Handle(d)
  <2>1. /\ req' = req /\ verdict'[d] = verdict[d] /\ (d \in crossed' <=> d \in crossed)
        /\ pc'[d] = pc[d] \/ pc'[d] = "arrived"
    <3>1. ASSUME NEW c \in Calls, Handle(c)
          PROVE  req' = req /\ verdict'[d] = verdict[d] /\ (d \in crossed' <=> d \in crossed)
                   /\ pc'[d] = pc[d]
      BY <1>1, <1>4, <3>1, HandleFrame
    <3>2. CASE ~ \E c \in Calls : Handle(c)
      BY <1>1, <3>2 DEF Next, Dispatch, Restart, Submit, At, Goto, Poll, Deny, Approve,
                        ReadForApprove, outside, callVars, vars, TypeOK
    <3> QED
      BY <3>1, <3>2
  <2>2. binding'[Session(d)] = "bound" => binding[Session(d)] = "bound" \/ pc[d] = "idle"
    <3>1. ASSUME NEW s \in Sessions, Dispatch(s)
          PROVE  binding'[Session(d)] = "bound" => binding[Session(d)] = "bound" \/ pc[d] = "idle"
      BY <1>1, <3>1 DEF Dispatch, CallInv, TypeOK
    <3>2. CASE Restart
      BY <1>1, <3>2 DEF Restart, TypeOK
    <3>3. ASSUME NEW c \in Calls, Handle(c)
          PROVE  binding' = binding
      BY <1>1, <3>3, HandleFrame
    <3> QED
      BY <3>1, <3>2, <3>3 DEF Next, Submit, Poll, Deny, Approve, ReadForApprove, outside, vars
  <2>3. Action(d)' = Action(d) /\ Route(d)' = Route(d) /\ Session(d)' = Session(d)
    BY <2>1 DEF Action, Route, Session
  <2> QED
    BY <1>2, <2>1, <2>2, <2>3 DEF Barred, At, Ahead
<1> QED
  BY <1>3, <1>4

\* While requests do not overlap, a denial bars every call that needs the
\* approval and has not crossed.
LEMMA DeniedIsBarred ==
  ASSUME OverlapFree, NEW c \in Calls,
         row[Action(c)] = "denied", c \notin crossed, Route(c).uncleared # "allow"
  PROVE  Barred(c)
BY DEF OverlapFree, SerialInv, Barred

\* For any policy and failures of the store, as long as requests do not overlap a
\* replayed token does not outlive the decision that issued it.
THEOREM DeniedIfSerial == Spec => DeniedWhenSerial
<1>1. ASSUME NEW c \in Calls
      PROVE  Spec /\ []Serial =>
               [](row[Action(c)] = "denied" /\ c \notin crossed /\ Route(c).uncleared # "allow"
                    => [](c \notin crossed))
  <2>1. OverlapFree => (row[Action(c)] = "denied" /\ c \notin crossed /\ Route(c).uncleared # "allow"
                          => Barred(c))
    BY DeniedIsBarred
  <2>2. OverlapFree /\ Barred(c) /\ [Next]_vars => Barred(c)'
    BY BarredStays DEF OverlapFree
  <2>3. Barred(c) => c \notin crossed
    BY DEF Barred
  <2> QED
    BY <2>1, <2>2, <2>3, InitOverlapFree, NextOverlapFree, PTL DEF Spec
<1>2. Serially <=> []Serial
  BY PTL DEF Serially, Serial
<1> QED
  BY <1>1, <1>2 DEF DeniedWhenSerial

=============================================================================
