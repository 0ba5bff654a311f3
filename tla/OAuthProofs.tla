----------------------------- MODULE OAuthProofs -----------------------------
(***************************************************************************)
(* Theorems about the credential of a downstream server, for any number of *)
(* processes, calls, callbacks and sign-ins, and any kind of provider.     *)
(***************************************************************************)
EXTENDS OAuth, TLAPS

Sending == {"asking", "replied"}

-----------------------------------------------------------------------------
(* The inductive invariant.                                                *)

\* None of the ways in which the client can authenticate is accepted.
NoWay == provider.accepts \cap (IF provider.secret THEN Method \ {"none"} ELSE {"none"}) = {}

TaskInv(t) ==
  /\ pc[t] \in {"idle", "waiting", "locked"} => tries[t] = 0
  /\ pc[t] \in Sending => mem[t].flow \in Flows
  /\ pc[t] = "asking" => /\ tries[t] < Len(AuthOrder)
                         /\ outcome[t] = "none" =>
                              \A i \in 1..tries[t] : AuthOrder[i] \notin provider.accepts
  /\ outcome[t] = "credentials" => NoWay
  /\ mem[t].refresh <= issued /\ reply[t].refresh <= issued
  /\ t \in late => pc[t] = "done" /\ mem[t].flow \in Flows

\* A call that refreshes holds the lock, and what it sends is honoured or in doubt.
CallerInv(c) ==
  /\ pc[c] \in {"locked", "asking", "replied"} => lock = c
  /\ mem[c].refresh # 0 => provider.offline
  /\ pc[c] \in Sending => mem[c].refresh # 0
  /\ pc[c] = "asking" \/ (pc[c] = "replied" /\ ~provider.rotates)
       => mem[c].refresh \in live \cup doubtful
  /\ c \in late => mem[c].refresh \in doubtful
  /\ acked # NoFlow /\ ~overtaken /\ pc[c] \in Sending => mem[c].flow = acked

HandlerInv(h) ==
  /\ mem[h].refresh = 0
  /\ mem[h] # NoFile => pc[h] # "idle" /\ flow[mem[h].flow] = "taken"

\* A refresh token that was answered and is not stored yet is honoured, and
\* nobody else knows it.
ReplyInv(t) ==
  pc[t] = "replied" =>
    /\ reply[t].refresh # 0 <=> Renews(t)
    /\ reply[t].refresh # 0 =>
         /\ reply[t].refresh \in live /\ reply[t].refresh # file.refresh
         /\ \A u \in Tasks : mem[u].refresh # reply[t].refresh
         /\ \A u \in Tasks \ {t} : pc[u] = "replied" => reply[u].refresh # reply[t].refresh

FileInv ==
  /\ file.refresh <= issued
  /\ file.refresh # 0 => provider.offline
  /\ StaysRefreshable /\ SignInSurvives

IInv ==
  /\ TypeOK /\ FileInv /\ SingleUse /\ CodeOnce
  /\ \A t \in Tasks : TaskInv(t) /\ ReplyInv(t)
  /\ \A c \in Callers : CallerInv(c)
  /\ \A h \in Handlers : HandlerInv(h)

-----------------------------------------------------------------------------
(* Types.                                                                  *)

TaskTypes ==
  /\ pc \in [Tasks -> Control]
  /\ mem \in [Tasks -> State \cup {NoFile}]
  /\ tries \in [Tasks -> Nat]
  /\ reply \in [Tasks -> Tokens]
  /\ outcome \in [Tasks -> Outcome]
  /\ late \subseteq Tasks
  /\ lock \in Callers \cup {Free}

LEMMA TypesOf == TypeOK => TaskTypes
BY DEF TypeOK, TaskTypes

LEMMA Fields ==
  ASSUME TypeOK
  PROVE  /\ \A t \in Tasks : /\ mem[t].refresh \in Nat /\ reply[t].refresh \in Nat
                             /\ mem[t].access \in Nat /\ reply[t].access \in Nat
                             /\ mem[t].flow \in Flows \cup {NoFlow} /\ tries[t] \in Nat
         /\ file.refresh \in Nat /\ file.access \in Nat /\ issued \in Nat
         /\ file # NoFile => file.flow \in Flows /\ file \in State
         /\ NoFile.refresh = 0 /\ NoFile.flow = NoFlow
         /\ 0 \notin live /\ live \subseteq 1..issued
         /\ NoTokens.refresh = 0 /\ NoTokens \in Tokens
<1>1. ASSUME NEW m \in State \cup {NoFile}
      PROVE  /\ m.refresh \in Nat /\ m.access \in Nat /\ m.flow \in Flows \cup {NoFlow}
             /\ m # NoFile => m.flow \in Flows /\ m \in State
  BY DEF State, NoFile
<1>2. \A t \in Tasks : mem[t] \in State \cup {NoFile} /\ reply[t] \in Tokens /\ tries[t] \in Nat
  BY DEF TypeOK
<1>3. file \in State \cup {NoFile} /\ issued \in Nat /\ live \subseteq 1..issued
  BY DEF TypeOK
<1>4. \A p \in Tokens : p.refresh \in Nat /\ p.access \in Nat
  BY DEF Tokens
<1>5. 0 \notin live
  BY <1>3
<1>6. /\ NoFile.refresh = 0 /\ NoFile.flow = NoFlow
      /\ NoTokens.refresh = 0 /\ NoTokens \in Tokens
  BY DEF NoFile, NoTokens, Tokens
<1> QED
  BY <1>1, <1>2, <1>3, <1>4, <1>5, <1>6

-----------------------------------------------------------------------------
(* Tasks that end.                                                         *)

EndEffect(T, S, result) ==
  /\ TaskTypes'
  /\ \A t \in T : /\ pc'[t] = "done" /\ outcome'[t] = result /\ reply'[t] = NoTokens
                  /\ mem'[t] = mem[t] \/ (mem'[t] = NoFile /\ t \in Callers /\ t \notin S)
  /\ \A t \in Tasks \ T : /\ pc'[t] = pc[t] /\ outcome'[t] = outcome[t]
                          /\ reply'[t] = reply[t] /\ mem'[t] = mem[t] /\ tries'[t] = tries[t]
  /\ late' = late \cup S
  /\ lock' = IF lock \in T THEN Free ELSE lock

LEMMA EndFacts ==
  ASSUME TypeOK, NEW T \in SUBSET Tasks, NEW S \in SUBSET T, NEW result \in Outcome,
         End(T, S, result)
  PROVE  EndEffect(T, S, result)
<1>1. TaskTypes /\ NoTokens \in Tokens
  BY TypesOf, Fields
<1>2. /\ pc' \in [Tasks -> Control] /\ outcome' \in [Tasks -> Outcome]
      /\ late' \subseteq Tasks /\ lock' \in Callers \cup {Free}
  BY <1>1 DEF TaskTypes, End, Control
<1>3. mem' \in [Tasks -> State \cup {NoFile}]
  BY <1>1 DEF TaskTypes, End
<1>4. tries' \in [Tasks -> Nat] /\ reply' \in [Tasks -> Tokens]
  BY <1>1 DEF TaskTypes, End
<1>5. TaskTypes'
  BY <1>2, <1>3, <1>4 DEF TaskTypes
<1>6. ASSUME NEW t \in T
      PROVE  /\ pc'[t] = "done" /\ outcome'[t] = result /\ reply'[t] = NoTokens
             /\ mem'[t] = mem[t] \/ (mem'[t] = NoFile /\ t \in Callers /\ t \notin S)
  BY DEF End
<1>7. ASSUME NEW t \in Tasks \ T
      PROVE  /\ pc'[t] = pc[t] /\ outcome'[t] = outcome[t]
             /\ reply'[t] = reply[t] /\ mem'[t] = mem[t] /\ tries'[t] = tries[t]
  BY DEF End
<1> QED
  BY <1>5, <1>6, <1>7 DEF End, EndEffect

\* What is in doubt when tasks T end, those of S with a request on its way.
LEMMA EndKeeps ==
  ASSUME IInv, NEW T \in SUBSET Tasks, NEW S \in SUBSET T, NEW result \in Outcome,
         End(T, S, result),
         UNCHANGED <<provider, fileVars, stale, issued, live, exchanged>>,
         doubtful \subseteq doubtful', doubtful' \subseteq Nat, replayed' \subseteq doubtful',
         result = "credentials" => NoWay,
         \A t \in T : pc[t] # "done", \A t \in S : pc[t] = "asking",
         \A t \in T : t \in S \/ pc[t] = "replied" => mem[t].refresh \in doubtful',
         flow' \in [Flows -> {"new", "pending", "aged", "taken", "lost"}],
         \A f \in Flows : flow[f] = "taken" => flow'[f] = "taken"
  PROVE  IInv'
<1>1. TypeOK /\ FileInv /\ Callers \subseteq Tasks /\ Handlers \subseteq Tasks
  BY DEF IInv, Tasks
<1>2. /\ TaskTypes'
      /\ \A t \in T : /\ pc'[t] = "done" /\ outcome'[t] = result /\ reply'[t] = NoTokens
                      /\ mem'[t] = mem[t] \/ (mem'[t] = NoFile /\ t \in Callers /\ t \notin S)
      /\ \A t \in Tasks \ T : /\ pc'[t] = pc[t] /\ outcome'[t] = outcome[t]
                              /\ reply'[t] = reply[t] /\ mem'[t] = mem[t] /\ tries'[t] = tries[t]
      /\ late' = late \cup S
      /\ lock' = IF lock \in T THEN Free ELSE lock
  <2>1. EndEffect(T, S, result)
    BY <1>1, EndFacts
  <2> QED
    BY <2>1 DEF EndEffect
<1>3. TypeOK'
  BY <1>1, <1>2 DEF TypeOK, TaskTypes, fileVars, SingleUse
<1>4. \A t \in Tasks : mem'[t].refresh = mem[t].refresh \/ mem'[t].refresh = 0
  BY <1>1, <1>2, Fields
<1>5. FileInv'
  <2>1. StaysRefreshable'
    <3> SUFFICES ASSUME file # NoFile, provider.offline, file.refresh \notin doubtful',
                        file.refresh \notin live
                 PROVE  \E c \in Callers : /\ lock' = c /\ pc'[c] = "replied"
                                           /\ mem'[c].refresh = file.refresh
      BY DEF StaysRefreshable, fileVars
    <3>1. PICK c \in Callers : lock = c /\ pc[c] = "replied" /\ mem[c].refresh = file.refresh
      BY <1>1 DEF FileInv, StaysRefreshable
    <3>2. c \notin T
      BY <3>1
    <3> QED
      BY <1>1, <1>2, <3>1, <3>2
  <2>2. SignInSurvives'
    BY <1>1 DEF FileInv, SignInSurvives, fileVars
  <2> QED
    BY <1>1, <2>1, <2>2 DEF FileInv, fileVars
<1>6. SingleUse'
  BY DEF SingleUse
<1>7. ASSUME NEW t \in Tasks
      PROVE  TaskInv(t)'
  <2>1. TaskInv(t) /\ AuthOrder' = AuthOrder /\ NoWay' = NoWay
    BY DEF IInv, AuthOrder, NoWay
  <2>2. CASE t \in T
    <3>1. mem'[t].refresh <= issued /\ reply'[t].refresh <= issued
      BY <1>1, <1>2, <1>4, <2>1, <2>2, Fields DEF TaskInv
    <3>2. t \in late' => mem'[t].flow \in Flows
      <4>1. t \notin late
        BY <2>1, <2>2 DEF TaskInv
      <4>2. t \in S => mem'[t] = mem[t] /\ mem[t].flow \in Flows
        BY <1>2, <2>1, <2>2 DEF TaskInv, Sending
      <4> QED
        BY <1>2, <4>1, <4>2
    <3> QED
      BY <1>2, <2>1, <2>2, <3>1, <3>2 DEF TaskInv, Sending
  <2>3. CASE t \notin T
    BY <1>2, <2>1, <2>3 DEF TaskInv, Sending
  <2> QED
    BY <2>2, <2>3
<1>8. ASSUME NEW t \in Tasks
      PROVE  ReplyInv(t)'
  <2>1. ReplyInv(t) /\ (Renews(t)' <=> Renews(t))
    BY DEF IInv, Renews
  <2>2. CASE t \in T
    BY <1>2, <2>2 DEF ReplyInv
  <2>3. CASE t \notin T /\ pc[t] = "replied"
    <3>1. \A u \in Tasks \ {t} : pc'[u] = "replied" => pc[u] = "replied" /\ reply'[u] = reply[u]
      BY <1>2
    <3> QED
      BY <1>2, <1>4, <2>1, <2>3, <3>1 DEF ReplyInv, fileVars
  <2> QED
    BY <1>2, <2>2, <2>3 DEF ReplyInv
<1>9. ASSUME NEW c \in Callers
      PROVE  CallerInv(c)'
  <2>1. CallerInv(c) /\ TaskInv(c)
    BY <1>1 DEF IInv
  <2>2. CASE c \in T
    <3>1. c \in late' => mem'[c].refresh \in doubtful'
      <4>1. c \notin late
        BY <2>1, <2>2 DEF TaskInv
      <4> QED
        BY <1>2, <2>2, <4>1
    <3> QED
      BY <1>2, <1>4, <2>1, <2>2, <3>1 DEF CallerInv, Sending
  <2>3. CASE c \notin T
    <3>1. c \in Tasks \ T
      BY <2>3 DEF Tasks
    <3>2. pc'[c] = pc[c] /\ mem'[c] = mem[c] /\ (c \in late' <=> c \in late)
      BY <1>2, <3>1
    <3>3. lock = c => lock' = c
      BY <1>2, <2>3
    <3>4. /\ provider' = provider /\ live' = live /\ acked' = acked /\ overtaken' = overtaken
          /\ doubtful \subseteq doubtful'
      BY DEF fileVars
    <3> QED
      BY <2>1, <3>2, <3>3, <3>4 DEF CallerInv
  <2> QED
    BY <2>2, <2>3
<1>10. ASSUME NEW h \in Handlers
       PROVE  HandlerInv(h)'
  <2>1. HandlerInv(h) /\ h \notin Callers /\ mem'[h] = mem[h]
    BY <1>1, <1>2, OAuthAssumption DEF IInv
  <2>2. mem[h] # NoFile => mem[h].flow \in Flows
    BY <1>1 DEF TypeOK, State
  <2> QED
    BY <1>1, <1>2, <2>1, <2>2 DEF HandlerInv
<1>11. CodeOnce'
  <2>1. \A h \in Handlers : mem'[h] = mem[h]
    BY <1>1, <1>2, OAuthAssumption
  <2> QED
    BY <2>1 DEF IInv, CodeOnce
<1> QED
  BY <1>3, <1>5, <1>6, <1>7, <1>8, <1>9, <1>10, <1>11 DEF IInv

LEMMA Ending ==
  ASSUME IInv, NEW t \in Tasks, NEW result \in Outcome, Finish(t, result),
         UNCHANGED <<provider, fileVars, idp, doubtful, flow>>,
         pc[t] \notin {"done", "replied"}, result = "credentials" => NoWay
  PROVE  IInv'
<1>1. /\ doubtful \subseteq Nat /\ replayed \subseteq doubtful
      /\ flow \in [Flows -> {"new", "pending", "aged", "taken", "lost"}]
  BY DEF IInv, TypeOK, SingleUse
<1> QED
  BY <1>1, EndKeeps DEF Finish, idp

\* The provider refuses, or the wait for it is given up.
LEMMA RefusalKeeps ==
  ASSUME IInv, NEW t \in Tasks, RefuseGrant(t) \/ GiveUp(t)
  PROVE  IInv'
<1>1. TypeOK /\ TaskInv(t) /\ SingleUse
  BY DEF IInv
<1>2. /\ doubtful \subseteq Nat /\ replayed \subseteq doubtful /\ mem[t].refresh \in Nat
      /\ flow \in [Flows -> {"new", "pending", "aged", "taken", "lost"}]
  BY <1>1, Fields DEF TypeOK, SingleUse
<1>3. CASE RefuseGrant(t)
  <2>1. replayed' \subseteq doubtful
    <3>1. CASE t \in Callers /\ ~GrantHolds(t)
      <4>1. mem[t].refresh \notin live
        BY <3>1, OAuthAssumption DEF GrantHolds
      <4>2. mem[t].refresh \in doubtful
        BY <1>3, <3>1, <4>1 DEF IInv, CallerInv, RefuseGrant
      <4> QED
        BY <1>2, <1>3, <4>2 DEF RefuseGrant, Presented
    <3> QED
      BY <1>2, <1>3, <3>1 DEF RefuseGrant, Presented
  <2> QED
    <3>1. /\ End({t}, {}, "failed") /\ pc[t] = "asking"
          /\ UNCHANGED <<provider, fileVars, stale, issued, live, exchanged, doubtful, flow>>
      BY <1>3 DEF RefuseGrant, Finish
    <3>2. "failed" \in Outcome /\ {} \subseteq {t} /\ {t} \subseteq Tasks
      BY DEF Outcome
    <3> QED
      BY <1>2, <2>1, <3>1, <3>2, EndKeeps
<1>4. CASE GiveUp(t)
  <2>1. /\ End({t}, {t}, "failed") /\ pc[t] = "asking"
        /\ doubtful' = doubtful \cup {mem[t].refresh}
        /\ UNCHANGED <<provider, fileVars, stale, issued, live, exchanged, replayed, flow>>
    BY <1>4 DEF GiveUp, idp
  <2>2. "failed" \in Outcome /\ {t} \subseteq Tasks
    BY DEF Outcome
  <2>3. doubtful' \subseteq Nat /\ doubtful \subseteq doubtful' /\ replayed' \subseteq doubtful'
    BY <1>2, <2>1
  <2> QED
    BY <1>2, <2>1, <2>2, <2>3, EndKeeps
<1> QED
  BY <1>3, <1>4

LEMMA CrashKeeps ==
  ASSUME IInv, NEW p \in Processes, Crash(p)
  PROVE  IInv'
<1> DEFINE sent == {t \in Running(p) : pc[t] = "asking"}
           inDoubt == {mem[t].refresh : t \in {u \in Running(p) : pc[u] \in {"asking", "replied"}}}
<1>1. TypeOK /\ SingleUse
  BY DEF IInv
<1>2. /\ Running(p) \subseteq Tasks /\ sent \subseteq Running(p)
      /\ \A t \in Running(p) : pc[t] # "done"
      /\ \A t \in sent : pc[t] = "asking"
  BY DEF Running
<1>3. /\ End(Running(p), sent, "failed") /\ doubtful' = doubtful \cup inDoubt
      /\ UNCHANGED <<provider, fileVars, idp>>
  BY DEF Crash
<1>4. /\ doubtful \subseteq doubtful' /\ doubtful' \subseteq Nat
      /\ replayed' \subseteq doubtful'
  <2>1. inDoubt \subseteq Nat
    BY <1>1, <1>2, Fields
  <2> QED
    BY <1>1, <1>3, <2>1 DEF TypeOK, SingleUse, idp
<1>5. \A t \in Running(p) : t \in sent \/ pc[t] = "replied" => mem[t].refresh \in doubtful'
  BY <1>3
<1>6. /\ flow' \in [Flows -> {"new", "pending", "aged", "taken", "lost"}]
      /\ \A f \in Flows : flow[f] = "taken" => flow'[f] = "taken"
  BY <1>1 DEF TypeOK, Crash
<1>7. "failed" \in Outcome
  BY DEF Outcome
<1> HIDE DEF sent, inDoubt
<1> QED
  BY <1>2, <1>3, <1>4, <1>5, <1>6, <1>7, EndKeeps DEF idp

-----------------------------------------------------------------------------
(* A task that moves on.                                                   *)

LEMMA StepKeeps ==
  ASSUME IInv, NEW r \in Tasks,
         UNCHANGED <<provider, fileVars, stale, issued, live, exchanged, doubtful, reply, late>>,
         replayed' \subseteq doubtful, TaskTypes',
         \A t \in Tasks \ {r} : /\ pc'[t] = pc[t] /\ mem'[t] = mem[t]
                                 /\ tries'[t] = tries[t] /\ outcome'[t] = outcome[t],
         lock # Free => lock' = lock,
         pc[r] # "replied", pc'[r] # "replied",
         mem'[r].refresh \in {0, file.refresh, mem[r].refresh},
         flow' \in [Flows -> {"new", "pending", "aged", "taken", "lost"}],
         \A f \in Flows : flow[f] = "taken" => flow'[f] = "taken",
         TaskInv(r)', r \in Callers => CallerInv(r)', r \in Handlers => HandlerInv(r)', CodeOnce'
  PROVE  IInv'
<1>1. TypeOK /\ FileInv /\ SingleUse /\ Callers \subseteq Tasks /\ Handlers \subseteq Tasks
  BY DEF IInv, Tasks
<1>2. TypeOK'
  BY <1>1 DEF TypeOK, TaskTypes, fileVars, SingleUse
<1>3. FileInv'
  <2>1. StaysRefreshable'
    <3> SUFFICES ASSUME file # NoFile, provider.offline, file.refresh \notin doubtful,
                        file.refresh \notin live
                 PROVE  \E c \in Callers : /\ lock' = c /\ pc'[c] = "replied"
                                           /\ mem'[c].refresh = file.refresh
      BY DEF StaysRefreshable, fileVars
    <3>1. PICK c \in Callers : lock = c /\ pc[c] = "replied" /\ mem[c].refresh = file.refresh
      BY <1>1 DEF FileInv, StaysRefreshable
    <3>2. c # r /\ lock # Free
      BY <3>1, <1>1, NamesAssumption
    <3> QED
      BY <1>1, <3>1, <3>2
  <2>2. SignInSurvives'
    BY <1>1 DEF FileInv, SignInSurvives, fileVars
  <2> QED
    BY <1>1, <2>1, <2>2 DEF FileInv, fileVars
<1>4. SingleUse'
  BY DEF SingleUse
<1>5. ASSUME NEW t \in Tasks
      PROVE  TaskInv(t)' /\ ReplyInv(t)'
  <2>1. TaskInv(t) /\ ReplyInv(t) /\ AuthOrder' = AuthOrder /\ NoWay' = NoWay /\ Renews(t)' = Renews(t)
    BY DEF IInv, AuthOrder, NoWay, Renews
  <2>2. TaskInv(t)'
    <3>1. CASE t # r
      BY <2>1, <3>1 DEF TaskInv, Sending
    <3> QED
      BY <3>1
  <2>3. ReplyInv(t)'
    <3> SUFFICES ASSUME pc'[t] = "replied"
                 PROVE  ReplyInv(t)'
      BY DEF ReplyInv
    <3>1. t # r /\ pc[t] = "replied"
      OBVIOUS
    <3>2. ASSUME NEW u \in Tasks, reply[t].refresh # 0
          PROVE  mem'[u].refresh # reply[t].refresh
      BY <2>1, <3>1, <3>2 DEF ReplyInv
    <3>3. \A u \in Tasks : pc'[u] = "replied" => pc[u] = "replied"
      OBVIOUS
    <3> QED
      BY <2>1, <3>1, <3>2, <3>3 DEF ReplyInv, fileVars
  <2> QED
    BY <2>2, <2>3
<1>6. ASSUME NEW c \in Callers
      PROVE  CallerInv(c)'
  <2>1. CASE c # r
    <3>1. CallerInv(c) /\ c # Free /\ pc'[c] = pc[c] /\ mem'[c] = mem[c]
      BY <1>1, <2>1, NamesAssumption DEF IInv, Tasks
    <3> QED
      BY <3>1 DEF CallerInv, fileVars, Sending
  <2> QED
    BY <2>1
<1>7. ASSUME NEW h \in Handlers
      PROVE  HandlerInv(h)'
  <2>1. CASE h # r
    <3>1. HandlerInv(h) /\ pc'[h] = pc[h] /\ mem'[h] = mem[h]
      BY <1>1, <2>1 DEF IInv
    <3>2. mem[h] # NoFile => mem[h].flow \in Flows
      BY <1>1 DEF TypeOK, State
    <3> QED
      BY <3>1, <3>2 DEF HandlerInv
  <2> QED
    BY <2>1
<1> QED
  BY <1>2, <1>3, <1>4, <1>5, <1>6, <1>7 DEF IInv

LEMMA MoveKeeps ==
  ASSUME IInv, NEW r \in Tasks,
         UNCHANGED <<provider, fileVars, idp, doubtful, reply, outcome, late>>, TaskTypes',
         \A t \in Tasks \ {r} : pc'[t] = pc[t] /\ mem'[t] = mem[t] /\ tries'[t] = tries[t],
         lock # Free => lock' = lock,
         pc[r] # "replied", pc'[r] # "replied",
         mem'[r].refresh \in {0, file.refresh, mem[r].refresh},
         flow' \in [Flows -> {"new", "pending", "aged", "taken", "lost"}],
         \A f \in Flows : flow[f] = "taken" => flow'[f] = "taken",
         TaskInv(r)', r \in Callers => CallerInv(r)', r \in Handlers => HandlerInv(r)', CodeOnce'
  PROVE  IInv'
<1>1. replayed' \subseteq doubtful
  BY DEF IInv, SingleUse, idp
<1>2. UNCHANGED <<provider, fileVars, stale, issued, live, exchanged, doubtful, reply, late>>
  BY DEF idp
<1>3. \A t \in Tasks \ {r} : /\ pc'[t] = pc[t] /\ mem'[t] = mem[t]
                              /\ tries'[t] = tries[t] /\ outcome'[t] = outcome[t]
  OBVIOUS
<1> QED
  BY <1>1, <1>2, <1>3, StepKeeps

LEMMA CodeOnceStays ==
  ASSUME IInv, \A h \in Handlers : mem'[h] = mem[h]
  PROVE  CodeOnce'
BY DEF IInv, CodeOnce

LEMMA BearerKeeps ==
  ASSUME IInv, NEW c \in Callers, Bearer(c)
  PROVE  IInv'
<1>1. /\ TypeOK /\ TaskInv(c) /\ CallerInv(c) /\ FileInv /\ c \in Tasks /\ c \notin Handlers
      /\ TaskTypes
  BY OAuthAssumption, TypesOf DEF IInv, Tasks
<1>2. CASE \E result \in {"failed", "ok"} : Finish(c, result)
  BY <1>1, <1>2, Ending DEF Bearer, Outcome
<1>3. CASE ~\E result \in {"failed", "ok"} : Finish(c, result)
  <2>1. /\ file # NoFile /\ pc[c] = "idle"
        /\ pc' = [pc EXCEPT ![c] = "waiting"] /\ mem' = [mem EXCEPT ![c] = file]
        /\ UNCHANGED <<lock, tries, reply, outcome, late>>
        /\ UNCHANGED <<provider, fileVars, idp, doubtful, flow>>
    BY <1>3 DEF Bearer
  <2>2. pc'[c] = "waiting" /\ mem'[c] = file
    BY <1>1, <2>1 DEF TaskTypes
  <2>3. TaskTypes'
    BY <1>1, <2>1, Fields DEF TaskTypes, Control
  <2>4. TaskInv(c)'
    BY <1>1, <2>1, <2>2 DEF TaskInv, FileInv, Sending, NoWay, idp
  <2>5. CallerInv(c)'
    BY <1>1, <2>1, <2>2 DEF CallerInv, TaskInv, FileInv, Sending
  <2>6. CodeOnce'
    BY <1>1, <2>1, CodeOnceStays DEF TaskTypes, Tasks
  <2> QED
    BY <1>1, <2>1, <2>2, <2>3, <2>4, <2>5, <2>6, MoveKeeps DEF TaskTypes, TypeOK
<1> QED
  BY <1>2, <1>3

LEMMA LockKeeps ==
  ASSUME IInv, NEW c \in Callers, Lock(c)
  PROVE  IInv'
<1>1. /\ TypeOK /\ TaskInv(c) /\ CallerInv(c) /\ c \in Tasks /\ c \notin Handlers /\ TaskTypes
  BY OAuthAssumption, TypesOf DEF IInv, Tasks
<1>2. /\ lock = Free /\ lock' = c /\ pc[c] = "waiting" /\ pc' = [pc EXCEPT ![c] = "locked"]
      /\ UNCHANGED <<provider, fileVars, idp, doubtful, flow, mem, tries, reply, outcome, late>>
  BY DEF Lock, Goto
<1>3. pc'[c] = "locked"
  BY <1>1, <1>2 DEF TaskTypes
<1>4. TaskTypes'
  BY <1>1, <1>2 DEF TaskTypes, Control
<1>5. TaskInv(c)'
  BY <1>1, <1>2, <1>3 DEF TaskInv, Sending, NoWay, idp
<1>6. CallerInv(c)'
  BY <1>1, <1>2, <1>3 DEF CallerInv, TaskInv, Sending
<1>7. CodeOnce'
  BY <1>2, CodeOnceStays
<1> QED
  BY <1>1, <1>2, <1>3, <1>4, <1>5, <1>6, <1>7, MoveKeeps DEF TaskTypes, TypeOK

LEMMA ReloadKeeps ==
  ASSUME IInv, NEW c \in Callers, Reload(c)
  PROVE  IInv'
<1>1. /\ TypeOK /\ TaskInv(c) /\ CallerInv(c) /\ FileInv /\ c \in Tasks /\ c \notin Handlers
      /\ TaskTypes
  BY OAuthAssumption, TypesOf DEF IInv, Tasks
<1>2. CASE \E result \in {"failed", "ok"} : Finish(c, result)
  BY <1>1, <1>2, Ending DEF Reload, Outcome
<1>3. CASE ~\E result \in {"failed", "ok"} : Finish(c, result)
  <2>1. /\ file # NoFile /\ pc[c] = "locked" /\ file.refresh # 0
        /\ pc' = [pc EXCEPT ![c] = "asking"] /\ mem' = [mem EXCEPT ![c] = file]
        /\ UNCHANGED <<lock, tries, reply, outcome, late>>
        /\ UNCHANGED <<provider, fileVars, idp, doubtful, flow>>
    BY <1>3 DEF Reload
  <2>2. pc'[c] = "asking" /\ mem'[c] = file /\ file.flow \in Flows
    BY <1>1, <2>1, Fields DEF TaskTypes
  <2>3. TaskTypes'
    BY <1>1, <2>1, Fields DEF TaskTypes, Control
  <2>4. TaskInv(c)'
    <3>1. tries'[c] = 0 /\ Len(AuthOrder)' > 0
      <4>1. tries'[c] = 0
        BY <1>1, <2>1 DEF TaskInv
      <4> QED
        BY <2>1, <4>1 DEF AuthOrder
    <3> QED
      BY <1>1, <2>1, <2>2, <3>1 DEF TaskInv, FileInv, Sending, NoWay, idp
  <2>5. CallerInv(c)'
    <3>1. lock = c
      BY <1>1, <2>1 DEF CallerInv
    <3>2. provider.offline /\ file.refresh \in live \cup doubtful
      BY <1>1, <2>1, <3>1 DEF FileInv, StaysRefreshable
    <3>3. acked # NoFlow /\ ~overtaken => file.flow = acked
      BY <1>1 DEF FileInv, SignInSurvives
    <3>4. c \notin late
      BY <1>1, <2>1 DEF TaskInv
    <3> QED
      BY <2>1, <2>2, <3>1, <3>2, <3>3, <3>4 DEF CallerInv, Sending, fileVars, idp
  <2>6. CodeOnce'
    BY <1>1, <2>1, CodeOnceStays DEF TaskTypes, Tasks
  <2> QED
    BY <1>1, <2>1, <2>2, <2>3, <2>4, <2>5, <2>6, MoveKeeps DEF TaskTypes, TypeOK
<1> QED
  BY <1>2, <1>3

\* A step of the clock or of the pending sign-ins.
LEMMA QuietKeeps ==
  ASSUME IInv,
         UNCHANGED <<provider, fileVars, lock, issued, live, exchanged, replayed, doubtful, taskVars>>,
         stale' \subseteq 1..issued,
         flow' \in [Flows -> {"new", "pending", "aged", "taken", "lost"}],
         \A f \in Flows : flow[f] = "taken" => flow'[f] = "taken"
  PROVE  IInv'
<1>1. TypeOK'
  BY DEF IInv, TypeOK, fileVars, taskVars
<1>2. FileInv' /\ SingleUse' /\ CodeOnce'
  BY DEF IInv, FileInv, StaysRefreshable, SignInSurvives, SingleUse, CodeOnce, fileVars, taskVars
<1>3. ASSUME NEW t \in Tasks
      PROVE  TaskInv(t)' /\ ReplyInv(t)'
  <2>1. TaskInv(t) /\ ReplyInv(t) /\ AuthOrder' = AuthOrder /\ NoWay' = NoWay /\ Renews(t)' = Renews(t)
    BY DEF IInv, AuthOrder, NoWay, Renews
  <2>2. TaskInv(t)'
    BY <2>1 DEF TaskInv, Sending, taskVars
  <2>3. ReplyInv(t)'
    BY <2>1 DEF ReplyInv, taskVars, fileVars
  <2> QED
    BY <2>2, <2>3
<1>4. \A c \in Callers : CallerInv(c)'
  BY DEF IInv, CallerInv, Sending, taskVars, fileVars
<1>5. ASSUME NEW h \in Handlers
      PROVE  HandlerInv(h)'
  <2>1. HandlerInv(h) /\ (mem[h] # NoFile => mem[h].flow \in Flows)
    BY DEF IInv, TypeOK, State, Tasks
  <2> QED
    BY <2>1 DEF HandlerInv, taskVars
<1> QED
  BY <1>1, <1>2, <1>3, <1>4, <1>5 DEF IInv

LEMMA WorldKeeps ==
  ASSUME IInv, \/ \E f \in Flows : StashPending(f) \/ Age(f)
               \/ \E a \in 1..issued : Expire(a)
               \/ UNCHANGED vars
  PROVE  IInv'
<1>1. TypeOK
  BY DEF IInv
<1>2. CASE \E f \in Flows : StashPending(f) \/ Age(f)
  <2>1. /\ flow' \in [Flows -> {"new", "pending", "aged", "taken", "lost"}]
        /\ \A f \in Flows : flow[f] = "taken" => flow'[f] = "taken"
    BY <1>1, <1>2 DEF TypeOK, StashPending, Age
  <2> QED
    BY <1>1, <1>2, <2>1, QuietKeeps DEF TypeOK, StashPending, Age, idp
<1>3. CASE \E a \in 1..issued : Expire(a)
  BY <1>1, <1>3, QuietKeeps DEF TypeOK, Expire
<1>4. CASE UNCHANGED vars
  BY <1>1, <1>4, QuietKeeps DEF TypeOK, vars, idp
<1> QED
  BY <1>2, <1>3, <1>4

LEMMA CallbackKeeps ==
  ASSUME IInv, NEW h \in Handlers, NEW f \in Flows, Callback(h, f)
  PROVE  IInv'
<1>1. /\ TypeOK /\ TaskInv(h) /\ HandlerInv(h) /\ h \in Tasks /\ h \notin Callers /\ TaskTypes
  BY OAuthAssumption, TypesOf DEF IInv, Tasks
<1>2. CASE flow[f] \notin {"pending", "aged"}
  BY <1>1, <1>2, Ending DEF Callback, Outcome
<1>3. CASE flow[f] \in {"pending", "aged"}
  <2> DEFINE m == [flow |-> f, access |-> 0, refresh |-> 0]
  <2>1. /\ pc[h] = "idle" /\ flow' = [flow EXCEPT ![f] = "taken"]
        /\ pc' = [pc EXCEPT ![h] = "asking"] /\ mem' = [mem EXCEPT ![h] = m]
        /\ UNCHANGED <<lock, tries, reply, outcome, late>>
        /\ UNCHANGED <<provider, fileVars, idp, doubtful>>
    BY <1>3 DEF Callback
  <2>2. m \in State /\ m.flow = f /\ m.refresh = 0
    BY DEF State
  <2> HIDE DEF m
  <2>3. /\ pc'[h] = "asking" /\ mem'[h] = m /\ flow'[f] = "taken"
        /\ flow' \in [Flows -> {"new", "pending", "aged", "taken", "lost"}]
        /\ \A g \in Flows : flow[g] = "taken" => flow'[g] = "taken"
    BY <1>1, <2>1 DEF TaskTypes, TypeOK
  <2>4. TaskTypes'
    BY <1>1, <2>1, <2>2 DEF TaskTypes, Control
  <2>5. TaskInv(h)'
    <3>1. tries'[h] = 0 /\ Len(AuthOrder)' > 0
      <4>1. tries'[h] = 0
        BY <1>1, <2>1 DEF TaskInv
      <4> QED
        BY <2>1, <4>1 DEF AuthOrder
    <3>2. 0 <= issued
      BY <1>1, Fields
    <3> QED
      BY <1>1, <2>1, <2>2, <2>3, <3>1, <3>2 DEF TaskInv, Sending, NoWay, idp
  <2>6. HandlerInv(h)'
    BY <2>2, <2>3 DEF HandlerInv
  <2>7. CodeOnce'
    <3>1. ASSUME NEW g \in Handlers, g # h
          PROVE  mem'[g] = mem[g] /\ (mem[g] # NoFile => mem[g].flow # f)
      <4>1. HandlerInv(g) /\ g \in Tasks
        BY DEF IInv, Tasks
      <4> QED
        BY <1>1, <1>3, <2>1, <3>1, <4>1 DEF HandlerInv, TaskTypes
    <3> QED
      BY <2>2, <2>3, <3>1 DEF IInv, CodeOnce
  <2> QED
    BY <1>1, <2>1, <2>2, <2>3, <2>4, <2>5, <2>6, <2>7, MoveKeeps DEF TaskTypes
<1> QED
  BY <1>2, <1>3

LEMMA RefuseClientKeeps ==
  ASSUME IInv, NEW t \in Tasks, RefuseClient(t)
  PROVE  IInv'
<1>1. /\ TypeOK /\ TaskInv(t) /\ TaskTypes /\ pc[t] = "asking" /\ tries[t] \in Nat
  BY TypesOf, Fields DEF IInv, RefuseClient
<1>2. AuthOrder[tries[t] + 1] \notin provider.accepts
  BY DEF RefuseClient, Accepted
<1>3. outcome[t] = "none" => \A i \in 1..tries[t]+1 : AuthOrder[i] \notin provider.accepts
  BY <1>1, <1>2 DEF TaskInv
<1>4. CASE tries[t] + 1 < Len(AuthOrder)
  <2>1. /\ tries' = [tries EXCEPT ![t] = @ + 1]
        /\ UNCHANGED <<pc, mem, reply, outcome, lock, late>>
        /\ UNCHANGED <<provider, fileVars, idp, doubtful, flow>>
    BY <1>4 DEF RefuseClient
  <2>2. tries'[t] = tries[t] + 1
    BY <1>1, <2>1 DEF TaskTypes
  <2>3. TaskTypes'
    BY <1>1, <2>1 DEF TaskTypes
  <2>4. TaskInv(t)'
    <3>1. AuthOrder' = AuthOrder /\ NoWay' = NoWay
      BY <2>1 DEF AuthOrder, NoWay
    <3> QED
      BY <1>1, <1>3, <1>4, <2>1, <2>2, <3>1 DEF TaskInv, Sending, idp
  <2>5. t \in Callers => CallerInv(t)'
    BY <2>1 DEF IInv, CallerInv, Sending, fileVars, idp
  <2>6. t \in Handlers => HandlerInv(t)'
    BY <1>1, <2>1 DEF IInv, HandlerInv
  <2>7. CodeOnce'
    BY <2>1, CodeOnceStays
  <2> QED
    BY <1>1, <2>1, <2>2, <2>3, <2>4, <2>5, <2>6, <2>7, MoveKeeps DEF TaskTypes, TypeOK
<1>5. CASE ~(tries[t] + 1 < Len(AuthOrder))
  <2>1. outcome[t] = "none" => NoWay
    <3> SUFFICES ASSUME outcome[t] = "none" PROVE NoWay
      OBVIOUS
    <3>1. provider.accepts \subseteq Method
      BY <1>1, OAuthAssumption DEF TypeOK, ProviderType
    <3>2. CASE ~provider.secret
      <4>1. AuthOrder = <<"none">> /\ Len(AuthOrder) = 1
        BY <3>2 DEF AuthOrder
      <4>2. AuthOrder[1] \notin provider.accepts
        BY <1>1, <1>3
      <4> QED
        BY <3>2, <4>1, <4>2 DEF NoWay
    <3>3. CASE provider.secret
      <4>1. /\ Len(AuthOrder) = 2 /\ {AuthOrder[1], AuthOrder[2]} = Method \ {"none"}
        BY <3>3 DEF AuthOrder, Method
      <4>2. 2 \in 1..tries[t]+1
        BY <1>1, <1>5, <4>1
      <4>3. AuthOrder[1] \notin provider.accepts /\ AuthOrder[2] \notin provider.accepts
        BY <1>1, <1>3, <4>2
      <4> QED
        BY <3>3, <4>1, <4>3 DEF NoWay
    <3> QED
      BY <3>2, <3>3
  <2> QED
    BY <1>1, <1>5, <2>1, Ending DEF RefuseClient, Outcome
<1> QED
  BY <1>4, <1>5

LEMMA RetryGrantKeeps ==
  ASSUME IInv, NEW t \in Tasks, RetryGrant(t)
  PROVE  IInv'
<1>1. /\ TypeOK /\ TaskInv(t) /\ TaskTypes /\ pc[t] = "asking" /\ tries[t] \in Nat
      /\ tries[t] + 1 < Len(AuthOrder) /\ SingleUse
  BY TypesOf, Fields DEF IInv, RetryGrant
<1>2. /\ tries' = [tries EXCEPT ![t] = @ + 1] /\ outcome' = [outcome EXCEPT ![t] = "failed"]
      /\ UNCHANGED <<provider, fileVars, stale, issued, live, exchanged, doubtful, flow, lock, pc, mem,
                     reply, late>>
  BY DEF RetryGrant
<1>3. tries'[t] = tries[t] + 1 /\ outcome'[t] = "failed" /\ "failed" \in Outcome
  BY <1>1, <1>2 DEF TaskTypes, Outcome
<1>4. TaskTypes'
  BY <1>1, <1>2, <1>3 DEF TaskTypes
<1>5. TaskInv(t)'
  <2>1. AuthOrder' = AuthOrder
    BY <1>2 DEF AuthOrder
  <2> QED
    BY <1>1, <1>2, <1>3, <2>1 DEF TaskInv, Sending
<1>6. replayed' \subseteq doubtful
  <2>1. CASE t \in Callers /\ ~GrantHolds(t)
    <3>1. mem[t].refresh \notin live
      BY <2>1, OAuthAssumption DEF GrantHolds
    <3>2. mem[t].refresh \in doubtful
      BY <1>1, <2>1, <3>1 DEF IInv, CallerInv
    <3> QED
      BY <1>1, <3>2 DEF RetryGrant, Presented, SingleUse
  <2> QED
    BY <1>1, <2>1 DEF RetryGrant, Presented, SingleUse
<1>7. t \in Callers => CallerInv(t)'
  BY <1>2 DEF IInv, CallerInv, Sending, fileVars
<1>8. t \in Handlers => HandlerInv(t)'
  BY <1>2 DEF IInv, HandlerInv
<1>9. CodeOnce'
  BY <1>2, CodeOnceStays
<1>10. \A u \in Tasks \ {t} : /\ pc'[u] = pc[u] /\ mem'[u] = mem[u]
                               /\ tries'[u] = tries[u] /\ outcome'[u] = outcome[u]
  BY <1>1, <1>2 DEF TaskTypes
<1> QED
  BY <1>1, <1>2, <1>4, <1>5, <1>6, <1>7, <1>8, <1>9, <1>10, StepKeeps DEF TypeOK

-----------------------------------------------------------------------------
(* The provider issues a pair.                                             *)

\* What issuing for t does to the tokens the provider honours.
LEMMA IssueFacts ==
  ASSUME IInv, NEW t \in Tasks, IssueFor(t), mem[t].flow \in Flows
  PROVE  /\ issued \in Nat /\ issued' = issued + 1
         /\ live' \subseteq 1..issued' /\ live \ {mem[t].refresh} \subseteq live'
         /\ Renews(t) => issued' \in live'
         /\ ~Renews(t) => live' = live
         /\ exchanged' \subseteq Handlers \X Flows
<1>1. TypeOK /\ issued \in Nat /\ live \subseteq 1..issued /\ exchanged \subseteq Handlers \X Flows
  BY DEF IInv, TypeOK
<1>2. issued' = issued + 1 /\ 1..issued \subseteq 1..issued' /\ issued' \in 1..issued'
  BY <1>1 DEF IssueFor
<1>3. live' = IF Renews(t) THEN (live \ {mem[t].refresh}) \cup {issued'} ELSE live
  BY DEF IssueFor
<1>4. exchanged' \subseteq Handlers \X Flows
  <2>1. t \in Handlers => <<t, mem[t].flow>> \in Handlers \X Flows
    OBVIOUS
  <2> QED
    BY <1>1, <2>1 DEF IssueFor
<1>5. live' \subseteq 1..issued'
  BY <1>1, <1>2, <1>3
<1> QED
  BY <1>1, <1>2, <1>3, <1>4, <1>5

LEMMA IssueKeeps ==
  ASSUME IInv, NEW t \in Tasks, Issue(t)
  PROVE  IInv'
<1> DEFINE pair == [access |-> issued', refresh |-> IF Renews(t) THEN issued' ELSE 0]
<1>1. /\ TypeOK /\ FileInv /\ SingleUse /\ TaskInv(t) /\ TaskTypes
      /\ Callers \subseteq Tasks /\ Handlers \subseteq Tasks
  BY TypesOf DEF IInv, Tasks
<1>2. /\ pc[t] = "asking" /\ IssueFor(t) /\ pc' = [pc EXCEPT ![t] = "replied"]
      /\ reply' = [reply EXCEPT ![t] = pair]
      /\ UNCHANGED <<provider, fileVars, lock, stale, replayed, doubtful, flow, mem, tries, outcome, late>>
  BY DEF Issue
<1>3. /\ issued \in Nat /\ issued' = issued + 1
      /\ live' \subseteq 1..issued' /\ live \ {mem[t].refresh} \subseteq live'
      /\ Renews(t) => issued' \in live'
      /\ ~Renews(t) => live' = live
      /\ exchanged' \subseteq Handlers \X Flows
  BY <1>1, <1>2, IssueFacts DEF TaskInv, Sending
<1>4. pair \in Tokens /\ pair.refresh = IF Renews(t) THEN issued' ELSE 0
  BY <1>3 DEF Tokens
<1> HIDE DEF pair
<1>5. pc'[t] = "replied" /\ reply'[t] = pair
  BY <1>1, <1>2 DEF TaskTypes
<1>6. \A u \in Tasks \ {t} : pc'[u] = pc[u] /\ reply'[u] = reply[u]
  BY <1>1, <1>2 DEF TaskTypes
<1>7. TypeOK'
  <2>1. TaskTypes'
    BY <1>1, <1>2, <1>4 DEF TaskTypes, Control
  <2>2. stale' \subseteq 1..issued' /\ issued' \in Nat
    <3>1. stale \subseteq 1..issued
      BY <1>1 DEF TypeOK
    <3> QED
      BY <1>2, <1>3, <3>1
  <2> QED
    BY <1>1, <1>2, <1>3, <2>1, <2>2 DEF TypeOK, TaskTypes, fileVars
<1>8. t \in Callers => lock = t /\ \A c \in Callers \ {t} : pc[c] \notin {"locked", "asking", "replied"}
  BY <1>2 DEF IInv, CallerInv
<1>9. t \in Handlers => live \subseteq live'
  <2>1. t \in Handlers => mem[t].refresh = 0
    BY DEF IInv, HandlerInv
  <2> QED
    BY <1>1, <1>3, <2>1, Fields
<1>10. FileInv'
  <2>1. StaysRefreshable'
    <3> SUFFICES ASSUME file # NoFile, provider.offline, file.refresh \notin doubtful,
                        file.refresh \notin live'
                 PROVE  \E c \in Callers : /\ lock = c /\ pc'[c] = "replied"
                                           /\ mem[c].refresh = file.refresh
      BY <1>2 DEF StaysRefreshable, fileVars
    <3>1. CASE file.refresh \in live
      <4>1. file.refresh = mem[t].refresh /\ t \notin Handlers
        BY <1>3, <1>9, <3>1
      <4> QED
        BY <1>5, <1>8, <4>1 DEF Tasks
    <3>2. CASE file.refresh \notin live
      <4>1. PICK c \in Callers : lock = c /\ pc[c] = "replied" /\ mem[c].refresh = file.refresh
        BY <1>1, <3>2 DEF FileInv, StaysRefreshable
      <4> QED
        BY <1>1, <1>2, <1>6, <4>1
    <3> QED
      BY <3>1, <3>2
  <2>2. file.refresh <= issued'
    BY <1>1, <1>3, Fields DEF FileInv
  <2> QED
    BY <1>1, <1>2, <2>1, <2>2 DEF FileInv, SignInSurvives, fileVars
<1>11. SingleUse' /\ CodeOnce'
  BY <1>2 DEF IInv, SingleUse, CodeOnce
<1>12. ASSUME NEW u \in Tasks
       PROVE  TaskInv(u)'
  <2>1. TaskInv(u) /\ AuthOrder' = AuthOrder /\ NoWay' = NoWay
    BY <1>2 DEF IInv, AuthOrder, NoWay
  <2>2. mem[u].refresh <= issued' /\ reply'[u].refresh <= issued'
    <3>1. mem[u].refresh <= issued /\ reply[u].refresh <= issued
      BY <2>1 DEF TaskInv
    <3>2. mem[u].refresh \in Nat /\ reply[u].refresh \in Nat
      BY <1>1, Fields
    <3> QED
      BY <1>3, <1>4, <1>5, <1>6, <3>1, <3>2
  <2>3. CASE u = t
    BY <1>2, <1>5, <2>1, <2>2, <2>3 DEF TaskInv, Sending
  <2>4. CASE u # t
    BY <1>2, <1>6, <2>1, <2>2, <2>4 DEF TaskInv, Sending
  <2> QED
    BY <2>3, <2>4
<1>13. ASSUME NEW u \in Tasks
       PROVE  ReplyInv(u)'
  <2>1. ReplyInv(u) /\ Renews(u)' = Renews(u)
    BY <1>2 DEF IInv, Renews
  <2>2. file.refresh # issued' /\ issued' # 0 /\ \A v \in Tasks : mem[v].refresh # issued' /\ reply[v].refresh # issued'
    <3>1. /\ file.refresh <= issued /\ file.refresh \in Nat
          /\ \A v \in Tasks : /\ mem[v].refresh <= issued /\ mem[v].refresh \in Nat
                              /\ reply[v].refresh <= issued /\ reply[v].refresh \in Nat
      BY <1>1, Fields DEF IInv, FileInv, TaskInv
    <3> QED
      BY <1>3, <3>1
  <2>3. CASE u = t
    <3>1. reply'[t].refresh # 0 <=> Renews(t)
      BY <1>4, <1>5, <2>2
    <3>2. reply'[t].refresh # 0 => reply'[t].refresh = issued' /\ issued' \in live'
      BY <1>3, <1>4, <1>5
    <3> QED
      BY <1>2, <1>6, <2>1, <2>2, <2>3, <3>1, <3>2 DEF ReplyInv, fileVars
  <2>4. CASE u # t /\ pc[u] = "replied"
    <3>1. reply[u].refresh # 0 => /\ reply[u].refresh \in live'
                                  /\ reply'[t].refresh # reply[u].refresh
      BY <1>3, <1>4, <1>5, <2>1, <2>2, <2>4 DEF ReplyInv
    <3> QED
      BY <1>2, <1>6, <2>1, <2>4, <3>1 DEF ReplyInv, fileVars
  <2> QED
    BY <1>6, <2>3, <2>4 DEF ReplyInv
<1>14. ASSUME NEW c \in Callers
       PROVE  CallerInv(c)'
  <2>1. CallerInv(c) /\ TaskInv(c)
    BY <1>1 DEF IInv
  <2>2. CASE c = t
    <3>1. ~provider.rotates => live' = live
      BY <1>3, <2>2, OAuthAssumption DEF Renews
    <3> QED
      BY <1>2, <1>5, <2>1, <2>2, <3>1 DEF CallerInv, Sending, fileVars
  <2>3. CASE c # t
    <3>1. pc[c] \in Sending => live \subseteq live'
      BY <1>8, <1>9, <2>3 DEF Sending, Tasks
    <3> QED
      BY <1>1, <1>2, <1>6, <2>1, <2>3, <3>1 DEF CallerInv, Sending, fileVars
  <2> QED
    BY <2>2, <2>3
<1>15. ASSUME NEW h \in Handlers
       PROVE  HandlerInv(h)'
  <2>1. HandlerInv(h) /\ (pc'[h] = "idle" => pc[h] = "idle")
    BY <1>1, <1>5, <1>6 DEF IInv
  <2> QED
    BY <1>2, <2>1 DEF HandlerInv
<1> QED
  BY <1>7, <1>10, <1>11, <1>12, <1>13, <1>14, <1>15 DEF IInv

LEMMA IssueLateKeeps ==
  ASSUME IInv, NEW t \in Tasks, IssueLate(t)
  PROVE  IInv'
<1>1. /\ TypeOK /\ FileInv /\ SingleUse /\ TaskInv(t)
      /\ Callers \subseteq Tasks /\ Handlers \subseteq Tasks
  BY DEF IInv, Tasks
<1>2. /\ t \in late /\ late' = late \ {t} /\ pc[t] = "done" /\ mem[t].flow \in Flows
      /\ UNCHANGED <<provider, fileVars, lock, stale, doubtful, flow, pc, mem, tries, reply, outcome>>
  BY <1>1 DEF IssueLate, TaskInv
<1>3. t \in Callers => mem[t].refresh \in doubtful
  BY <1>2 DEF IInv, CallerInv
<1>4. /\ issued \in Nat /\ issued' \in Nat /\ issued <= issued'
      /\ live' \subseteq 1..issued' /\ live \ {mem[t].refresh} \subseteq live'
      /\ exchanged' \subseteq Handlers \X Flows
      /\ replayed' \subseteq doubtful
  <2>1. CASE IssueFor(t) /\ UNCHANGED replayed
    <3>1. /\ issued \in Nat /\ issued' = issued + 1
          /\ live' \subseteq 1..issued' /\ live \ {mem[t].refresh} \subseteq live'
          /\ exchanged' \subseteq Handlers \X Flows
      BY <1>2, <2>1, IssueFacts
    <3> QED
      BY <1>1, <2>1, <3>1 DEF SingleUse
  <2>2. CASE /\ UNCHANGED <<issued, live, exchanged>>
             /\ replayed' = IF t \in Callers /\ ~GrantHolds(t)
                            THEN replayed \cup {mem[t].refresh} ELSE replayed
    <3>1. replayed' \subseteq doubtful
      BY <1>1, <1>3, <2>2 DEF SingleUse
    <3> QED
      BY <1>1, <2>2, <3>1, Fields DEF TypeOK
  <2> QED
    BY <2>1, <2>2 DEF IssueLate, Presented
<1>5. \A x \in live : x \in live' \/ x \in doubtful
  <2>1. t \notin Callers => mem[t].refresh = 0
    BY DEF IInv, HandlerInv, Tasks
  <2>2. 0 \notin live
    BY <1>1, Fields
  <2> QED
    BY <1>3, <1>4, <2>1, <2>2
<1>6. TypeOK'
  <2>1. stale' \subseteq 1..issued' /\ replayed' \subseteq Nat
    <3>1. stale \subseteq 1..issued /\ doubtful \subseteq Nat
      BY <1>1 DEF TypeOK
    <3> QED
      BY <1>2, <1>4, <3>1
  <2> QED
    BY <1>1, <1>2, <1>4, <2>1 DEF TypeOK, fileVars
<1>7. FileInv'
  <2>1. StaysRefreshable'
    BY <1>1, <1>2, <1>5 DEF FileInv, StaysRefreshable, fileVars
  <2>2. file.refresh <= issued'
    BY <1>1, <1>4, Fields DEF FileInv
  <2> QED
    BY <1>1, <1>2, <2>1, <2>2 DEF FileInv, SignInSurvives, fileVars
<1>8. SingleUse' /\ CodeOnce'
  BY <1>2, <1>4 DEF IInv, SingleUse, CodeOnce
<1>9. ASSUME NEW u \in Tasks
      PROVE  TaskInv(u)'
  <2>1. TaskInv(u) /\ AuthOrder' = AuthOrder /\ NoWay' = NoWay
    BY <1>2 DEF IInv, AuthOrder, NoWay
  <2>2. mem[u].refresh <= issued' /\ reply[u].refresh <= issued'
    BY <1>1, <1>4, <2>1, Fields DEF TaskInv
  <2> QED
    BY <1>2, <2>1, <2>2 DEF TaskInv, Sending
<1>10. ASSUME NEW u \in Tasks
       PROVE  ReplyInv(u)'
  <2>1. ReplyInv(u) /\ Renews(u)' = Renews(u)
    BY <1>2 DEF IInv, Renews
  <2>2. pc[u] = "replied" /\ reply[u].refresh # 0 => reply[u].refresh \in live'
    BY <1>4, <2>1 DEF ReplyInv
  <2> QED
    BY <1>2, <2>1, <2>2 DEF ReplyInv, fileVars
<1>11. ASSUME NEW c \in Callers
       PROVE  CallerInv(c)'
  <2>1. CallerInv(c)
    BY DEF IInv
  <2> QED
    BY <1>2, <1>5, <2>1 DEF CallerInv, Sending, fileVars
<1>12. ASSUME NEW h \in Handlers
       PROVE  HandlerInv(h)'
  BY <1>2 DEF IInv, HandlerInv
<1> QED
  BY <1>6, <1>7, <1>8, <1>9, <1>10, <1>11, <1>12 DEF IInv

-----------------------------------------------------------------------------
(* The answer is stored.                                                   *)

\* What is stored is honoured or in doubt, and no other answer holds it.
LEMMA KeptIsGood ==
  ASSUME IInv, NEW t \in Tasks, pc[t] = "replied"
  PROVE  /\ Kept(t) \in Nat /\ Kept(t) <= issued
         /\ Kept(t) # 0 => provider.offline
         /\ provider.offline => Kept(t) \in live \cup doubtful
         /\ \A u \in Tasks \ {t} : pc[u] = "replied" /\ reply[u].refresh # 0
                                     => reply[u].refresh # Kept(t)
<1>1. /\ TypeOK /\ TaskInv(t) /\ ReplyInv(t)
      /\ mem[t].refresh \in Nat /\ reply[t].refresh \in Nat
  BY Fields DEF IInv
<1>2. Kept(t) = IF reply[t].refresh = 0 THEN mem[t].refresh ELSE reply[t].refresh
  BY DEF Kept
<1>3. Kept(t) \in Nat /\ Kept(t) <= issued
  BY <1>1, <1>2 DEF TaskInv
<1>4. CASE t \in Callers
  <2>1. /\ mem[t].refresh # 0 /\ provider.offline
        /\ ~provider.rotates => mem[t].refresh \in live \cup doubtful
        /\ reply[t].refresh # 0 <=> provider.rotates
    BY <1>1, <1>4, OAuthAssumption DEF IInv, CallerInv, ReplyInv, Renews, Sending
  <2> QED
    BY <1>1, <1>2, <1>3, <2>1 DEF IInv, ReplyInv
<1>5. CASE t \in Handlers
  <2>1. /\ mem[t].refresh = 0
        /\ reply[t].refresh # 0 <=> provider.offline
    BY <1>1, <1>5 DEF IInv, HandlerInv, ReplyInv, Renews
  <2> QED
    BY <1>1, <1>2, <1>3, <2>1 DEF IInv, ReplyInv
<1> QED
  BY <1>4, <1>5 DEF Tasks

LEMMA SaveKeeps ==
  ASSUME IInv, NEW t \in Tasks, pc[t] = "replied", Save(t), Finish(t, "ok"),
         UNCHANGED <<provider, idp, flow>>
  PROVE  IInv'
<1>1. /\ TypeOK /\ FileInv /\ SingleUse /\ TaskInv(t)
      /\ Callers \subseteq Tasks /\ Handlers \subseteq Tasks /\ Callers \cap Handlers = {}
  BY OAuthAssumption DEF IInv, Tasks
<1>2. EndEffect({t}, {}, "ok")
  BY <1>1, EndFacts DEF Finish, Outcome
<1>3. /\ TaskTypes'
      /\ pc'[t] = "done" /\ outcome'[t] = "ok" /\ reply'[t] = NoTokens
      /\ mem'[t] = mem[t] \/ (mem'[t] = NoFile /\ t \in Callers)
      /\ \A u \in Tasks \ {t} : /\ pc'[u] = pc[u] /\ outcome'[u] = outcome[u]
                                /\ reply'[u] = reply[u] /\ mem'[u] = mem[u] /\ tries'[u] = tries[u]
      /\ late' = late
      /\ lock' = IF lock = t THEN Free ELSE lock
  BY <1>2 DEF EndEffect
<1>4. /\ file' = [flow |-> mem[t].flow, access |-> reply[t].access, refresh |-> Kept(t)]
      /\ doubtful' = doubtful
      /\ t \in Handlers => /\ acked' = mem[t].flow
                           /\ overtaken' = \E c \in Callers : pc[c] \in {"asking", "replied"}
      /\ t \notin Handlers => UNCHANGED <<acked, overtaken>>
  BY DEF Save
<1>5. /\ Kept(t) \in Nat /\ Kept(t) <= issued
      /\ Kept(t) # 0 => provider.offline
      /\ provider.offline => Kept(t) \in live \cup doubtful
      /\ \A u \in Tasks \ {t} : pc[u] = "replied" /\ reply[u].refresh # 0
                                  => reply[u].refresh # Kept(t)
  BY KeptIsGood
<1>6. mem[t].flow \in Flows /\ reply[t].access \in Nat
  BY <1>1, Fields DEF TaskInv, Sending
<1>7. TypeOK'
  <2>1. file' \in State
    BY <1>4, <1>5, <1>6 DEF State
  <2>2. acked' \in Flows \cup {NoFlow} /\ overtaken' \in BOOLEAN
    BY <1>1, <1>4, <1>6 DEF TypeOK
  <2> QED
    BY <1>1, <1>3, <1>4, <2>1, <2>2 DEF TypeOK, TaskTypes, idp
<1>8. file'.refresh = Kept(t) /\ file'.flow = mem[t].flow
  BY <1>4
<1>9. FileInv'
  <2>1. StaysRefreshable'
    BY <1>4, <1>5, <1>8 DEF StaysRefreshable, idp
  <2>2. SignInSurvives'
    <3>1. CASE t \in Handlers
      BY <1>4, <1>8, <3>1 DEF SignInSurvives
    <3>2. CASE t \notin Handlers
      <4>1. CallerInv(t)
        BY <3>2 DEF IInv, Tasks
      <4> QED
        BY <1>4, <1>8, <3>2, <4>1 DEF SignInSurvives, CallerInv, Sending
    <3> QED
      BY <3>1, <3>2
  <2> QED
    BY <1>5, <1>8, <2>1, <2>2 DEF FileInv, idp
<1>10. SingleUse'
  BY <1>1, <1>4 DEF SingleUse, idp
<1>11. \A h \in Handlers : mem'[h] = mem[h]
  BY <1>1, <1>3
<1>12. CodeOnce'
  BY <1>11, CodeOnceStays
<1>13. \A u \in Tasks : mem'[u].refresh = mem[u].refresh \/ mem'[u].refresh = 0
  BY <1>1, <1>3, Fields
<1>14. ASSUME NEW u \in Tasks
       PROVE  TaskInv(u)'
  <2>1. TaskInv(u) /\ AuthOrder' = AuthOrder /\ NoWay' = NoWay
    BY DEF IInv, AuthOrder, NoWay
  <2>2. mem'[u].refresh <= issued /\ reply'[u].refresh <= issued
    <3>1. 0 <= issued /\ NoTokens.refresh = 0 /\ mem[u].refresh <= issued /\ reply[u].refresh <= issued
      BY <1>1, <2>1, Fields DEF TaskInv
    <3> QED
      BY <1>3, <1>13, <3>1
  <2>3. t \notin late
    BY <1>1 DEF TaskInv
  <2>4. CASE u = t
    BY <1>3, <2>1, <2>2, <2>3, <2>4 DEF TaskInv, Sending, idp
  <2>5. CASE u # t
    BY <1>3, <2>1, <2>2, <2>5 DEF TaskInv, Sending, idp
  <2> QED
    BY <2>4, <2>5
<1>15. ASSUME NEW u \in Tasks
       PROVE  ReplyInv(u)'
  <2>1. ReplyInv(u) /\ Renews(u)' = Renews(u)
    BY DEF IInv, Renews
  <2>2. CASE u # t /\ pc[u] = "replied"
    <3>1. \A v \in Tasks \ {u} : pc'[v] = "replied" => pc[v] = "replied" /\ reply'[v] = reply[v]
      BY <1>3
    <3>2. reply[u].refresh # 0 => reply[u].refresh # file'.refresh
      BY <1>5, <1>8, <2>2
    <3> QED
      BY <1>3, <1>13, <2>1, <2>2, <3>1, <3>2 DEF ReplyInv, idp
  <2> QED
    BY <1>3, <2>2 DEF ReplyInv
<1>16. ASSUME NEW c \in Callers
       PROVE  CallerInv(c)'
  <2>1. CallerInv(c)
    BY DEF IInv
  <2>2. CASE c = t
    <3>1. c \notin late
      BY <1>1, <2>2 DEF TaskInv
    <3> QED
      BY <1>3, <1>13, <2>1, <2>2, <3>1 DEF CallerInv, Sending
  <2>3. CASE c # t
    <3>1. acked' # NoFlow /\ ~overtaken' /\ pc[c] \in Sending => mem[c].flow = acked'
      BY <1>4, <2>1 DEF CallerInv, Sending
    <3> QED
      BY <1>1, <1>3, <1>4, <2>1, <2>3, <3>1 DEF CallerInv, Sending, idp
  <2> QED
    BY <2>2, <2>3
<1>17. ASSUME NEW h \in Handlers
       PROVE  HandlerInv(h)'
  <2>1. HandlerInv(h) /\ (pc'[h] = "idle" => pc[h] = "idle")
    BY <1>1, <1>3 DEF IInv
  <2> QED
    BY <1>11, <2>1 DEF HandlerInv
<1> QED
  BY <1>7, <1>9, <1>10, <1>12, <1>14, <1>15, <1>16, <1>17 DEF IInv

LEMMA StoreKeeps ==
  ASSUME IInv, NEW t \in Tasks, Store(t)
  PROVE  IInv'
<1>1. pc[t] = "replied" /\ UNCHANGED <<provider, idp, flow>>
  BY DEF Store
<1>2. CASE Save(t) /\ Finish(t, "ok")
  BY <1>1, <1>2, SaveKeeps
<1>3. CASE Unsaved(t) /\ Finish(t, "failed")
  <2>1. TypeOK /\ SingleUse /\ mem[t].refresh \in Nat
    BY Fields DEF IInv
  <2>2. End({t}, {}, "failed") /\ doubtful' = doubtful \cup {mem[t].refresh} /\ UNCHANGED fileVars
    BY <1>3 DEF Unsaved, Finish
  <2>3. /\ doubtful \subseteq doubtful' /\ doubtful' \subseteq Nat /\ replayed' \subseteq doubtful'
        /\ flow' \in [Flows -> {"new", "pending", "aged", "taken", "lost"}]
    BY <1>1, <2>1, <2>2 DEF TypeOK, SingleUse, idp
  <2>4. "failed" \in Outcome /\ {} \subseteq {t} /\ {t} \subseteq Tasks
    BY DEF Outcome
  <2> QED
    BY <1>1, <2>2, <2>3, <2>4, EndKeeps DEF idp
<1> QED
  BY <1>2, <1>3 DEF Store

-----------------------------------------------------------------------------
(* The theorems.                                                           *)

LEMMA InitIInv == Init => IInv
<1> SUFFICES ASSUME Init PROVE IInv
  OBVIOUS
<1> USE DEF Init
<1>1. NoTokens \in Tokens /\ NoTokens.refresh = 0 /\ NoFile.refresh = 0 /\ NoFile.flow = NoFlow
  BY DEF NoTokens, Tokens, NoFile
<1>2. TypeOK
  BY <1>1 DEF TypeOK, Control, Outcome
<1>3. FileInv /\ SingleUse /\ CodeOnce
  BY <1>1 DEF FileInv, StaysRefreshable, SignInSurvives, SingleUse, CodeOnce, Tasks
<1>4. ASSUME NEW t \in Tasks
      PROVE  TaskInv(t) /\ ReplyInv(t)
  BY <1>1 DEF TaskInv, ReplyInv, Sending
<1>5. ASSUME NEW c \in Callers
      PROVE  CallerInv(c)
  BY <1>1 DEF CallerInv, Sending, Tasks
<1>6. ASSUME NEW h \in Handlers
      PROVE  HandlerInv(h)
  BY <1>1 DEF HandlerInv, Tasks
<1> QED
  BY <1>2, <1>3, <1>4, <1>5, <1>6 DEF IInv

LEMMA NextKeeps ==
  ASSUME IInv, [Next]_vars
  PROVE  IInv'
<1>1. Callers \subseteq Tasks /\ Handlers \subseteq Tasks
  BY DEF Tasks
<1>2. ASSUME NEW c \in Callers, LockFails(c)
      PROVE  IInv'
  BY <1>1, <1>2, Ending DEF LockFails, Outcome
<1>3. ASSUME NEW h \in Handlers, Declined(h)
      PROVE  IInv'
  BY <1>1, <1>3, Ending DEF Declined, Outcome
<1> QED
  BY <1>2, <1>3, BearerKeeps, LockKeeps, ReloadKeeps, WorldKeeps, CallbackKeeps,
     RefuseClientKeeps, RetryGrantKeeps, RefusalKeeps, IssueKeeps, IssueLateKeeps, StoreKeeps, CrashKeeps
  DEF Next

LEMMA Inductive == Spec => []IInv
<1>1. IInv /\ [Next]_vars => IInv'
  BY NextKeeps
<1> QED
  BY InitIInv, <1>1, PTL DEF Spec

\* The type invariant of the credential and of everybody who uses it.
THEOREM TypeCorrect == Spec => []TypeOK
<1>1. IInv => TypeOK
  BY DEF IInv
<1> QED
  BY Inductive, <1>1, PTL

\* However many calls of however many processes find the credential stale, a
\* refresh token the provider has ended is presented only if it was in doubt
\* (Store.Bearer, oauth.go:159-175).
THEOREM RefreshTokenSpentOnce == Spec => []SingleUse
<1>1. IInv => SingleUse
  BY DEF IInv
<1> QED
  BY Inductive, <1>1, PTL

\* With offline access the refresh token on file is honoured, about to be
\* replaced, or in doubt (oauth.go:180-189).
THEOREM NobodyIsLockedOut == Spec => []StaysRefreshable
<1>1. IInv => StaysRefreshable
  BY DEF IInv, FileInv
<1> QED
  BY Inductive, <1>1, PTL

\* A sign-in that no refresh was under way at stays on file (serve/oauth.go:183).
THEOREM CompleteSignInStays == Spec => []SignInSurvives
<1>1. IInv => SignInSurvives
  BY DEF IInv, FileInv
<1> QED
  BY Inductive, <1>1, PTL

\* One callback presents the code of a sign-in (takePending, serve/oauth.go:222-230).
THEOREM CodePresentedOnce == Spec => []CodeOnce
<1>1. IInv => CodeOnce
  BY DEF IInv
<1> QED
  BY Inductive, <1>1, PTL

\* A client is refused for good only when no way is left (oauth.go:460-490).
THEOREM ClientTriedInEveryWay == Spec => []EveryWayTried
<1>1. IInv => EveryWayTried
  BY DEF IInv, TaskInv, NoWay, EveryWayTried
<1> QED
  BY Inductive, <1>1, PTL

-----------------------------------------------------------------------------
(* One credential, renewed in one step.                                    *)

\* Whoever holds a refresh token holds it for the sign-in that is on file with it,
\* and nobody sends one the provider has not issued.
OwnerInv ==
  /\ issued <= MaxTokens
  /\ \A x \in doubtful : x <= issued
  /\ \A t \in Tasks : mem[t].refresh # 0 =>
       /\ mem[t].refresh = file.refresh => mem[t].flow = file.flow
       /\ \A u \in Tasks : mem[u].refresh = mem[t].refresh => mem[u].flow = mem[t].flow

\* Steps that leave the file as it is.
LEMMA OwnersStay ==
  ASSUME IInv, OwnerInv, file' = file, issued' <= MaxTokens, issued <= issued', issued' \in Nat,
         \A x \in doubtful' : x \in doubtful \/ \E t \in Tasks : x = mem[t].refresh,
         \A t \in Tasks : mem'[t] = mem[t] \/ mem'[t].refresh = 0 \/ mem'[t] = file
  PROVE  OwnerInv'
<1>1. /\ TypeOK /\ issued \in Nat /\ doubtful \subseteq Nat
      /\ \A t \in Tasks : mem[t].refresh \in Nat /\ mem[t].refresh <= issued
  BY Fields DEF IInv, TypeOK, TaskInv
<1>2. ASSUME NEW x \in doubtful'
      PROVE  x <= issued'
  <2>1. x \in Nat /\ x <= issued
    BY <1>1 DEF OwnerInv
  <2> QED
    BY <1>1, <2>1
<1>3. ASSUME NEW t \in Tasks, mem'[t].refresh # 0
      PROVE  /\ mem'[t].refresh = file.refresh => mem'[t].flow = file.flow
             /\ \A u \in Tasks : mem'[u].refresh = mem'[t].refresh => mem'[u].flow = mem'[t].flow
  <2>1. mem'[t].refresh = file.refresh => mem'[t].flow = file.flow
    BY <1>3 DEF OwnerInv
  <2>2. ASSUME NEW u \in Tasks, mem'[u].refresh = mem'[t].refresh
        PROVE  mem'[u].flow = mem'[t].flow
    <3>1. CASE mem'[t] = mem[t] /\ mem'[u] = mem[u]
      BY <1>3, <2>2, <3>1 DEF OwnerInv
    <3>2. CASE mem'[t] = file \/ mem'[u] = file
      BY <1>3, <2>2, <3>2 DEF OwnerInv
    <3> QED
      BY <1>3, <2>2, <3>1, <3>2
  <2> QED
    BY <2>1, <2>2
<1> QED
  BY <1>2, <1>3 DEF OwnerInv

\* When the holder of the lock has its answer, and keeps it, so does the token in use.
LEMMA HolderStays ==
  ASSUME IInv, file' = file,
         \A c \in Callers : lock = c /\ pc[c] = "replied" =>
           lock' = c /\ pc'[c] = "replied" /\ mem'[c] = mem[c] /\ reply'[c] = reply[c],
         \A c \in Callers : lock' = c /\ pc'[c] = "replied" => lock = c /\ pc[c] = "replied"
  PROVE  InUse' = InUse
<1>1. CASE lock \in Callers /\ pc[lock] = "replied"
  <2>1. lock' = lock /\ pc'[lock] = "replied" /\ mem'[lock] = mem[lock] /\ reply'[lock] = reply[lock]
    BY <1>1
  <2> QED
    BY <1>1, <2>1 DEF InUse, Renewing, Kept
<1>2. CASE ~(lock \in Callers /\ pc[lock] = "replied")
  <2>1. ~Renewing /\ ~Renewing'
    BY <1>2 DEF Renewing
  <2> QED
    BY <2>1 DEF InUse
<1> QED
  BY <1>1, <1>2

\* When it ends, the token on file is in use again.
LEMMA EndInUse ==
  ASSUME IInv, NEW T \in SUBSET Tasks, NEW S \in SUBSET T, NEW result \in Outcome,
         End(T, S, result), file' = file
  PROVE  \/ InUse' = InUse
         \/ InUse' = file.refresh /\ \E t \in T : pc[t] = "replied" /\ mem[t].refresh = file.refresh
<1>1. EndEffect(T, S, result)
  BY EndFacts DEF IInv
<1>2. Callers \subseteq Tasks /\ Free \notin Callers
  BY NamesAssumption DEF Tasks
<1>3. CASE lock \in T
  <2>1. ~Renewing'
    BY <1>1, <1>2, <1>3 DEF EndEffect, Renewing
  <2> QED
    BY <1>3, <2>1 DEF InUse, Renewing
<1>4. CASE lock \notin T
  <2>1. lock' = lock /\ \A t \in Tasks \ T : pc'[t] = pc[t] /\ mem'[t] = mem[t] /\ reply'[t] = reply[t]
    BY <1>1, <1>4 DEF EndEffect
  <2> QED
    BY <1>2, <1>4, <2>1, HolderStays
<1> QED
  BY <1>3, <1>4

\* The next token is new to everybody.
LEMMA NextIsFresh ==
  ASSUME IInv, OwnerInv, issued < MaxTokens
  PROVE  issued + 1 \in 1..MaxTokens /\ Shared!Fresh(issued + 1)
<1>1. /\ issued \in Nat /\ MaxTokens \in Nat /\ live \subseteq 1..issued /\ doubtful \subseteq Nat
      /\ replayed \subseteq doubtful /\ file.refresh \in Nat /\ file.refresh <= issued
  BY OAuthAssumption, Fields DEF IInv, TypeOK, SingleUse, FileInv
<1>2. InUse \in Nat /\ InUse <= issued
  BY <1>1, KeptIsGood DEF InUse, Renewing, Tasks
<1>3. \A x \in live \cup doubtful \cup replayed \cup {InUse} : x \in Nat /\ x <= issued
  BY <1>1, <1>2 DEF OwnerInv
<1>4. issued + 1 \in 1..MaxTokens /\ issued + 1 \notin live \cup doubtful \cup replayed \cup {InUse}
  BY <1>1, <1>3
<1> QED
  BY <1>4 DEF Shared!Fresh

Quiet == UNCHANGED <<provider, file, live, doubtful, replayed>> /\ InUse' = InUse

LEMMA QuietStutters == Quiet => UNCHANGED Shared!vars
BY DEF Quiet, Shared!vars

\* Answers that are not kept.
LEMMA FailRefines ==
  ASSUME IInv, OwnerInv, UNCHANGED <<provider, file, live, replayed>>, NEW D \in SUBSET Nat,
         doubtful' = doubtful \cup D, \A x \in D : x <= issued /\ (x # 0 => provider.offline),
         InUse' = InUse \/ (InUse' # 0 /\ InUse' \in D)
  PROVE  Shared!Next
<1>1. issued \in Nat /\ issued <= MaxTokens /\ MaxTokens \in Nat
  BY OAuthAssumption, Fields DEF IInv, OwnerInv
<1>2. D \ {0} \in SUBSET (1..MaxTokens)
  BY <1>1
<1>3. Shared!Fail(D \ {0})
  BY DEF Shared!Fail
<1> QED
  BY <1>2, <1>3 DEF Shared!Next

\* The provider is shown a token it has ended: one in doubt, or nothing of note.
LEMMA RefuseRefines ==
  ASSUME IInv, OwnerInv, NEW t \in Tasks, UNCHANGED <<provider, file, live, doubtful>>, InUse' = InUse,
         replayed' = IF t \in Callers /\ ~GrantHolds(t)
                     THEN replayed \cup {mem[t].refresh} ELSE replayed,
         t \in Callers => mem[t].refresh \in live \cup doubtful
  PROVE  Shared!Next \/ UNCHANGED Shared!vars
<1>1. CASE t \in Callers /\ ~GrantHolds(t) /\ mem[t].refresh # 0
  <2>1. mem[t].refresh \in doubtful \ live /\ mem[t].refresh \in Nat /\ mem[t].refresh <= issued
    BY <1>1, OAuthAssumption, Fields DEF GrantHolds, IInv, TaskInv
  <2>2. mem[t].refresh \in 1..MaxTokens
    BY <1>1, <2>1, OAuthAssumption, Fields DEF IInv, OwnerInv
  <2>3. Shared!Refuse(mem[t].refresh)
    BY <1>1, <2>1 DEF Shared!Refuse
  <2> QED
    BY <2>2, <2>3 DEF Shared!Next
<1>2. CASE ~(t \in Callers /\ ~GrantHolds(t) /\ mem[t].refresh # 0)
  <2>1. replayed' \ {0} = replayed \ {0}
    BY <1>2
  <2> QED
    BY <2>1 DEF Shared!vars
<1> QED
  BY <1>1, <1>2

-----------------------------------------------------------------------------
(* Every step maps to a step of Credential or to none.                     *)

Maps == OwnerInv' /\ (Shared!Next \/ UNCHANGED Shared!vars)

\* Steps of tasks that have sent nothing, and of the world.
LEMMA ApartMaps ==
  ASSUME IInv, OwnerInv, UNCHANGED <<provider, file, live, issued, doubtful, replayed>>,
         \A t \in Tasks : mem'[t] = mem[t] \/ mem'[t].refresh = 0 \/ mem'[t] = file,
         \A c \in Callers : lock = c /\ pc[c] = "replied" =>
           lock' = c /\ pc'[c] = "replied" /\ mem'[c] = mem[c] /\ reply'[c] = reply[c],
         \A c \in Callers : lock' = c /\ pc'[c] = "replied" => lock = c /\ pc[c] = "replied"
  PROVE  Maps
<1>1. issued \in Nat /\ issued <= MaxTokens /\ MaxTokens \in Nat
  BY OAuthAssumption, Fields DEF IInv, OwnerInv
<1>2. OwnerInv'
  BY <1>1, OwnersStay
<1>3. InUse' = InUse
  BY HolderStays
<1> QED
  BY <1>2, <1>3, QuietStutters DEF Quiet, Maps

\* A task that ends with no request sent.
LEMMA FinishMaps ==
  ASSUME IInv, OwnerInv, NEW t \in Tasks, NEW result \in Outcome, Finish(t, result),
         UNCHANGED <<provider, file, live, issued, doubtful, replayed>>, pc[t] # "replied"
  PROVE  Maps
<1>1. EndEffect({t}, {}, result) /\ NoFile.refresh = 0
  BY EndFacts, Fields DEF IInv, Finish
<1>2. Callers \subseteq Tasks /\ Free \notin Callers
  BY NamesAssumption DEF Tasks
<1>3. \A u \in Tasks : mem'[u] = mem[u] \/ mem'[u].refresh = 0
  BY <1>1 DEF EndEffect
<1>4. \A c \in Callers : lock = c /\ pc[c] = "replied" =>
        lock' = c /\ pc'[c] = "replied" /\ mem'[c] = mem[c] /\ reply'[c] = reply[c]
  BY <1>1, <1>2 DEF EndEffect
<1>5. \A c \in Callers : lock' = c /\ pc'[c] = "replied" => lock = c /\ pc[c] = "replied"
  BY <1>1, <1>2 DEF EndEffect
<1> QED
  BY <1>3, <1>4, <1>5, ApartMaps

LEMMA BearerMaps ==
  ASSUME IInv, OwnerInv, NEW c \in Callers, Bearer(c) \/ Reload(c)
  PROVE  Maps
<1>1. /\ c \in Tasks /\ TypeOK /\ pc[c] # "replied" /\ "failed" \in Outcome /\ "ok" \in Outcome
      /\ UNCHANGED <<provider, file, live, issued, doubtful, replayed>>
  BY DEF Tasks, IInv, Bearer, Reload, Outcome, fileVars, idp
<1>2. CASE Finish(c, "failed") \/ Finish(c, "ok")
  BY <1>1, <1>2, FinishMaps
<1>3. CASE /\ \/ pc' = [pc EXCEPT ![c] = "waiting"]
              \/ pc' = [pc EXCEPT ![c] = "asking"]
           /\ mem' = [mem EXCEPT ![c] = file]
           /\ UNCHANGED <<lock, reply>>
  <2>1. \A t \in Tasks : mem'[t] = mem[t] \/ mem'[t] = file
    BY <1>1, <1>3 DEF TypeOK
  <2>2. \A d \in Callers : /\ lock = d /\ pc[d] = "replied" =>
                                lock' = d /\ pc'[d] = "replied" /\ mem'[d] = mem[d] /\ reply'[d] = reply[d]
                           /\ lock' = d /\ pc'[d] = "replied" => lock = d /\ pc[d] = "replied"
    BY <1>1, <1>3 DEF TypeOK, Tasks
  <2> QED
    BY <1>1, <2>1, <2>2, ApartMaps
<1> QED
  BY <1>2, <1>3 DEF Bearer, Reload

LEMMA LockMaps ==
  ASSUME IInv, OwnerInv, NEW c \in Callers, Lock(c)
  PROVE  Maps
<1>1. /\ TypeOK /\ Free \notin Callers /\ Callers \subseteq Tasks /\ lock = Free /\ lock' = c
      /\ pc' = [pc EXCEPT ![c] = "locked"]
      /\ UNCHANGED <<provider, file, live, issued, doubtful, replayed, mem, reply>>
  BY NamesAssumption DEF IInv, Tasks, Lock, Goto, fileVars, idp
<1>2. pc'[c] = "locked"
  BY <1>1 DEF TypeOK
<1>3. \A d \in Callers : /\ lock = d /\ pc[d] = "replied" =>
                              lock' = d /\ pc'[d] = "replied" /\ mem'[d] = mem[d] /\ reply'[d] = reply[d]
                         /\ lock' = d /\ pc'[d] = "replied" => lock = d /\ pc[d] = "replied"
  BY <1>1, <1>2
<1> QED
  BY <1>1, <1>3, ApartMaps

LEMMA CallbackMaps ==
  ASSUME IInv, OwnerInv, NEW h \in Handlers, NEW f \in Flows, Callback(h, f)
  PROVE  Maps
<1>1. /\ TypeOK /\ h \in Tasks /\ h \notin Callers /\ pc[h] # "replied" /\ "expired" \in Outcome
      /\ UNCHANGED <<provider, file, live, issued, doubtful, replayed>>
  BY OAuthAssumption DEF IInv, Tasks, Callback, Outcome, fileVars, idp
<1>2. CASE Finish(h, "expired")
  BY <1>1, <1>2, FinishMaps
<1>3. CASE /\ pc' = [pc EXCEPT ![h] = "asking"]
           /\ mem' = [mem EXCEPT ![h] = [flow |-> f, access |-> 0, refresh |-> 0]]
           /\ UNCHANGED <<lock, reply>>
  <2>1. \A t \in Tasks : mem'[t] = mem[t] \/ mem'[t].refresh = 0
    BY <1>1, <1>3 DEF TypeOK
  <2>2. \A c \in Callers : pc'[c] = pc[c] /\ mem'[c] = mem[c] /\ reply'[c] = reply[c]
    BY <1>1, <1>3 DEF TypeOK, Tasks
  <2> QED
    BY <1>1, <1>3, <2>1, <2>2, ApartMaps
<1> QED
  BY <1>2, <1>3 DEF Callback

\* Steps that change no task.
LEMMA WorldMaps ==
  ASSUME IInv, OwnerInv,
         \/ \E f \in Flows : StashPending(f) \/ Age(f)
         \/ \E a \in 1..issued : Expire(a)
         \/ UNCHANGED vars
  PROVE  Maps
<1>1. UNCHANGED <<provider, file, live, issued, doubtful, replayed, lock, pc, mem, reply>>
  BY DEF StashPending, Age, Expire, vars, fileVars, idp, taskVars
<1> QED
  BY <1>1, ApartMaps

\* The client is not accepted.
LEMMA RefuseClientMaps ==
  ASSUME IInv, OwnerInv, NEW t \in Tasks, RefuseClient(t)
  PROVE  Maps
<1>1. /\ pc[t] # "replied" /\ {"credentials", "failed"} \subseteq Outcome
      /\ UNCHANGED <<provider, file, live, issued, doubtful, replayed>>
  BY DEF RefuseClient, Outcome, fileVars, idp
<1>2. CASE Finish(t, "credentials") \/ Finish(t, "failed")
  BY <1>1, <1>2, FinishMaps
<1>3. CASE UNCHANGED <<pc, mem, reply, lock>>
  BY <1>1, <1>3, ApartMaps
<1> QED
  BY <1>2, <1>3 DEF RefuseClient

\* The token request is refused, given up or broken off.
LEMMA RefusalMaps ==
  ASSUME IInv, OwnerInv, NEW t \in Tasks, RefuseGrant(t)
  PROVE  Maps
<1>1. /\ End({t}, {}, "failed") /\ pc[t] = "asking" /\ "failed" \in Outcome
      /\ replayed' = IF t \in Callers /\ ~GrantHolds(t)
                     THEN replayed \cup {mem[t].refresh} ELSE replayed
      /\ UNCHANGED <<provider, file, live, issued, doubtful>>
  BY DEF RefuseGrant, Presented, Finish, Outcome, fileVars
<1>2. /\ issued \in Nat /\ issued <= MaxTokens /\ NoFile.refresh = 0
      /\ t \in Callers => mem[t].refresh \in live \cup doubtful
  BY <1>1, Fields DEF IInv, OwnerInv, CallerInv
<1>3. InUse' = InUse
  BY <1>1, EndInUse, HolderStays
<1>4. OwnerInv'
  <2>1. EndEffect({t}, {}, "failed")
    BY <1>1, EndFacts DEF IInv
  <2>2. \A u \in Tasks : mem'[u] = mem[u] \/ mem'[u].refresh = 0
    BY <1>2, <2>1 DEF EndEffect
  <2> QED
    BY <1>1, <1>2, <2>2, OwnersStay
<1> QED
  BY <1>1, <1>2, <1>3, <1>4, RefuseRefines DEF Maps

\* A grant that is refused and sent again is presented like any other.
LEMMA RetryGrantMaps ==
  ASSUME IInv, OwnerInv, NEW t \in Tasks, RetryGrant(t)
  PROVE  Maps
<1>1. /\ pc[t] = "asking"
      /\ replayed' = IF t \in Callers /\ ~GrantHolds(t)
                     THEN replayed \cup {mem[t].refresh} ELSE replayed
      /\ UNCHANGED <<provider, file, live, issued, doubtful, lock, pc, mem, reply>>
  BY DEF RetryGrant, Presented, fileVars
<1>2. /\ issued \in Nat /\ issued <= MaxTokens
      /\ t \in Callers => mem[t].refresh \in live \cup doubtful
  BY <1>1, Fields DEF IInv, OwnerInv, CallerInv
<1>3. InUse' = InUse
  BY <1>1, HolderStays
<1>4. OwnerInv'
  BY <1>1, <1>2, OwnersStay
<1> QED
  BY <1>1, <1>2, <1>3, <1>4, RefuseRefines DEF Maps

LEMMA FailMaps ==
  ASSUME IInv, OwnerInv, NEW T \in SUBSET Tasks, NEW S \in SUBSET T, End(T, S, "failed"),
         UNCHANGED <<provider, file, live, issued, replayed>>, NEW D \in SUBSET Nat,
         doubtful' = doubtful \cup D, \A x \in D : \E t \in Tasks : x = mem[t].refresh,
         \A t \in T : pc[t] = "replied" => mem[t].refresh \in D
  PROVE  Maps
<1>1. /\ "failed" \in Outcome /\ issued \in Nat /\ issued <= MaxTokens /\ NoFile.refresh = 0
      /\ \A t \in Tasks : mem[t].refresh <= issued
  BY Fields DEF IInv, OwnerInv, TaskInv, Outcome
<1>2. OwnerInv'
  <2>1. EndEffect(T, S, "failed")
    BY <1>1, EndFacts DEF IInv
  <2>2. \A u \in Tasks : mem'[u] = mem[u] \/ mem'[u].refresh = 0
    BY <1>1, <2>1 DEF EndEffect
  <2>3. \A x \in doubtful' : x \in doubtful \/ \E t \in Tasks : x = mem[t].refresh
    OBVIOUS
  <2>4. issued' \in Nat /\ issued' <= MaxTokens /\ issued <= issued'
    BY <1>1
  <2> QED
    BY <2>2, <2>3, <2>4, OwnersStay
<1>3. InUse' = InUse \/ (InUse' # 0 /\ InUse' \in D)
  <2>1. ASSUME NEW t \in T, pc[t] = "replied", mem[t].refresh = file.refresh,
               InUse' = file.refresh
        PROVE  InUse' = InUse \/ (InUse' # 0 /\ InUse' \in D)
    <3>1. CASE file.refresh = 0
      <4>1. \A c \in Callers : pc[c] = "replied" => mem[c].refresh # 0
        BY DEF IInv, CallerInv, Sending
      <4>2. ~Renewing
        BY <3>1, <4>1 DEF Renewing
      <4> QED
        BY <2>1, <4>2 DEF InUse
    <3> QED
      BY <2>1, <3>1
  <2> QED
    BY <1>1, <2>1, EndInUse
<1>4. \A x \in D : x <= issued /\ (x # 0 => provider.offline)
  BY <1>1 DEF IInv, CallerInv, HandlerInv, Tasks
<1> QED
  BY <1>2, <1>3, <1>4, FailRefines DEF Maps

LEMMA GiveUpMaps ==
  ASSUME IInv, OwnerInv, NEW t \in Tasks, GiveUp(t)
  PROVE  Maps
<1>1. End({t}, {t}, "failed") /\ UNCHANGED <<provider, file, live, issued, replayed>>
  BY DEF GiveUp, fileVars, idp
<1> DEFINE D == {mem[t].refresh}
<1>2. /\ D \in SUBSET Nat /\ doubtful' = doubtful \cup D
      /\ \A x \in D : \E u \in Tasks : x = mem[u].refresh
      /\ \A u \in {t} : pc[u] = "replied" => mem[u].refresh \in D
  BY Fields DEF IInv, GiveUp
<1> HIDE DEF D
<1>3. {t} \in SUBSET Tasks /\ {t} \in SUBSET {t}
  OBVIOUS
<1> QED
  BY <1>1, <1>2, <1>3, FailMaps

LEMMA CrashMaps ==
  ASSUME IInv, OwnerInv, NEW p \in Processes, Crash(p)
  PROVE  Maps
<1> DEFINE T == Running(p)
           S == {t \in Running(p) : pc[t] = "asking"}
           D == {mem[t].refresh : t \in {u \in Running(p) : pc[u] \in {"asking", "replied"}}}
<1>1. /\ T \in SUBSET Tasks /\ S \in SUBSET T
      /\ \A x \in D : \E t \in Tasks : x = mem[t].refresh
      /\ \A t \in T : pc[t] = "replied" => mem[t].refresh \in D
  BY DEF Running
<1>2. D \in SUBSET Nat
  BY <1>1, Fields DEF IInv
<1>3. /\ End(T, S, "failed") /\ doubtful' = doubtful \cup D
      /\ UNCHANGED <<provider, file, live, issued, replayed>>
  BY DEF Crash, fileVars, idp
<1> HIDE DEF T, S, D
<1> QED
  BY <1>1, <1>2, <1>3, FailMaps

LEMMA IssueMaps ==
  ASSUME IInv, OwnerInv, NEW t \in Tasks, Issue(t)
  PROVE  Maps
<1> DEFINE n == issued + 1
           o == mem[t].refresh
<1>1. /\ TypeOK /\ pc[t] = "asking" /\ IssueFor(t) /\ issued < MaxTokens /\ mem[t].flow \in Flows
      /\ Callers \subseteq Tasks /\ Callers \cap Handlers = {}
      /\ UNCHANGED <<provider, file, lock, replayed, doubtful, mem>>
  BY OAuthAssumption DEF IInv, TaskInv, Sending, Tasks, Issue, IssueFor, fileVars
<1>2. /\ issued \in Nat /\ issued' = n /\ n \in Nat /\ n <= MaxTokens /\ MaxTokens \in Nat
      /\ live' = IF Renews(t) THEN (live \ {o}) \cup {n} ELSE live
  BY <1>1, OAuthAssumption DEF TypeOK, IssueFor
<1>3. /\ pc'[t] = "replied" /\ reply'[t].refresh = IF Renews(t) THEN n ELSE 0
      /\ \A u \in Tasks \ {t} : pc'[u] = pc[u] /\ reply'[u] = reply[u]
  BY <1>1, <1>2 DEF TypeOK, Issue
<1>4. OwnerInv'
  BY <1>1, <1>2, OwnersStay
<1>5. n \in 1..MaxTokens /\ Shared!Fresh(n)
  BY <1>1, NextIsFresh
<1>6. CASE t \in Handlers
  <2>1. InUse' = InUse
    BY <1>1, <1>3, <1>6, HolderStays
  <2>2. o = 0 /\ 0 \notin live
    BY <1>1, <1>6, Fields DEF IInv, HandlerInv
  <2>3. CASE Renews(t)
    <3>1. Shared!Grant(n)
      BY <1>1, <1>2, <1>5, <1>6, <2>1, <2>2, <2>3 DEF Shared!Grant, Renews
    <3> QED
      BY <1>4, <1>5, <3>1 DEF Maps, Shared!Next
  <2>4. CASE ~Renews(t)
    BY <1>1, <1>2, <1>4, <2>1, <2>4, QuietStutters DEF Quiet, Maps
  <2> QED
    BY <2>3, <2>4
<1>7. CASE t \in Callers
  <2>1. lock = t /\ o \in live /\ o # 0 /\ ~Renewing /\ InUse = file.refresh
    BY <1>1, <1>7, OAuthAssumption
    DEF IssueFor, GrantHolds, IInv, CallerInv, Sending, Renewing, InUse
  <2>2. CASE o = file.refresh
    <3>1. Renewing' /\ InUse' = IF Renews(t) THEN n ELSE o
      BY <1>1, <1>2, <1>3, <1>7, <2>1, <2>2 DEF Renewing, InUse, Kept
    <3>2. CASE Renews(t)
      <4>1. Shared!Renew(n)
        BY <1>1, <1>2, <1>5, <2>1, <2>2, <3>1, <3>2 DEF Shared!Renew, Shared!Replaced
      <4> QED
        BY <1>4, <1>5, <4>1 DEF Maps, Shared!Next
    <3>3. CASE ~Renews(t)
      BY <1>1, <1>2, <1>4, <2>1, <2>2, <3>1, <3>3, QuietStutters DEF Quiet, Maps
    <3> QED
      BY <3>2, <3>3
  <2>3. CASE o # file.refresh
    <3>1. InUse' = InUse
      BY <1>1, <2>1, <2>3 DEF Renewing, InUse
    <3>2. CASE Renews(t)
      <4>1. Shared!RenewAside(o, n)
        BY <1>1, <1>2, <1>5, <2>1, <2>3, <3>1, <3>2 DEF Shared!RenewAside, Shared!Replaced
      <4>2. o \in 1..MaxTokens
        <5>1. live \subseteq 1..issued
          BY <1>1, Fields
        <5>2. \A x \in 1..issued : x \in 1..MaxTokens
          BY <1>2
        <5> QED
          BY <2>1, <5>1, <5>2
      <4> QED
        BY <1>4, <1>5, <4>1, <4>2 DEF Maps, Shared!Next
    <3>3. CASE ~Renews(t)
      BY <1>1, <1>2, <1>4, <3>1, <3>3, QuietStutters DEF Quiet, Maps
    <3> QED
      BY <3>2, <3>3
  <2> QED
    BY <2>2, <2>3
<1> QED
  BY <1>6, <1>7 DEF Tasks

\* An answer nobody waits for any more.
LEMMA IssueLateMaps ==
  ASSUME IInv, OwnerInv, NEW t \in Tasks, IssueLate(t)
  PROVE  Maps
<1> DEFINE n == issued + 1
           o == mem[t].refresh
<1>1. /\ TypeOK /\ t \in late /\ pc[t] = "done" /\ issued \in Nat /\ MaxTokens \in Nat
      /\ issued <= MaxTokens /\ Callers \subseteq Tasks /\ Callers \cap Handlers = {}
      /\ UNCHANGED <<provider, file, lock, doubtful, pc, mem, reply>>
  BY OAuthAssumption DEF IInv, OwnerInv, TaskInv, TypeOK, Tasks, IssueLate, fileVars
<1>2. InUse' = InUse
  BY <1>1 DEF InUse, Renewing, Kept
<1>3. CASE IssueFor(t) /\ UNCHANGED replayed
  <2>1. /\ issued' = n /\ n \in Nat /\ n <= MaxTokens /\ issued < MaxTokens
        /\ live' = IF Renews(t) THEN (live \ {o}) \cup {n} ELSE live
    BY <1>1, <1>3 DEF IssueFor
  <2>2. OwnerInv'
    BY <1>1, <2>1, OwnersStay
  <2>3. n \in 1..MaxTokens /\ Shared!Fresh(n)
    BY <2>1, NextIsFresh
  <2>4. CASE ~Renews(t)
    BY <1>1, <1>2, <1>3, <2>1, <2>2, <2>4, QuietStutters DEF Quiet, Maps
  <2>5. CASE t \in Handlers /\ Renews(t)
    <3>1. o = 0 /\ 0 \notin live
      BY <1>1, <2>5, Fields DEF IInv, HandlerInv
    <3>2. Shared!Grant(n)
      BY <1>1, <1>2, <1>3, <2>1, <2>3, <2>5, <3>1 DEF Shared!Grant, Renews
    <3> QED
      BY <2>2, <2>3, <3>2 DEF Maps, Shared!Next
  <2>6. CASE t \in Callers /\ Renews(t)
    <3>1. o \in live /\ o \in doubtful /\ o # 0
      BY <1>1, <1>3, <2>6, Fields DEF IssueFor, GrantHolds, IInv, CallerInv
    <3>2. Shared!RenewAside(o, n)
      BY <1>1, <1>2, <1>3, <2>1, <2>3, <2>6, <3>1 DEF Shared!RenewAside, Shared!Replaced
    <3>3. o \in 1..MaxTokens
      <4>1. live \subseteq 1..issued
        BY <1>1, Fields
      <4>2. \A x \in 1..issued : x \in 1..MaxTokens
        BY <1>1
      <4> QED
        BY <3>1, <4>1, <4>2
    <3> QED
      BY <2>2, <2>3, <3>2, <3>3 DEF Maps, Shared!Next
  <2> QED
    BY <2>4, <2>5, <2>6 DEF Tasks
<1>4. CASE /\ UNCHANGED <<issued, live, exchanged>>
           /\ replayed' = IF t \in Callers /\ ~GrantHolds(t)
                          THEN replayed \cup {mem[t].refresh} ELSE replayed
  <2>1. OwnerInv'
    BY <1>1, <1>4, OwnersStay
  <2>2. t \in Callers => mem[t].refresh \in live \cup doubtful
    BY <1>1 DEF IInv, CallerInv
  <2> QED
    BY <1>1, <1>2, <1>4, <2>1, <2>2, RefuseRefines DEF Maps
<1> QED
  BY <1>3, <1>4 DEF IssueLate, Presented

\* Saving a refresh of the credential in use changes nothing that can be seen:
\* the token it saves is in use since it was issued.  Another one is adopted.
LEMMA SaveMaps ==
  ASSUME IInv, OwnerInv, NEW t \in Tasks, pc[t] = "replied", Save(t), Finish(t, "ok"),
         UNCHANGED <<provider, live, issued, replayed>>
  PROVE  Maps
<1>1. /\ TypeOK /\ "ok" \in Outcome /\ mem[t].flow \in Flows
      /\ Callers \subseteq Tasks /\ Handlers \subseteq Tasks
      /\ Callers \cap Handlers = {} /\ Free \notin Callers
  BY OAuthAssumption, NamesAssumption DEF IInv, TaskInv, Sending, Outcome, Tasks
<1>2. EndEffect({t}, {}, "ok")
  BY <1>1, EndFacts DEF Finish
<1>3. /\ pc'[t] = "done"
      /\ (mem'[t] = mem[t] \/ mem'[t] = NoFile)
      /\ \A u \in Tasks \ {t} : pc'[u] = pc[u] /\ mem'[u] = mem[u] /\ reply'[u] = reply[u]
      /\ lock' = IF lock = t THEN Free ELSE lock
  BY <1>2 DEF EndEffect
<1>4. /\ file'.flow = mem[t].flow /\ file'.refresh = Kept(t) /\ doubtful' = doubtful
      /\ NoFile.refresh = 0
  BY <1>1, Fields DEF Save
<1>5. /\ Kept(t) \in Nat /\ Kept(t) \in (IF provider.offline THEN (live \cup doubtful) \ {0} ELSE {0})
      /\ issued \in Nat /\ issued <= MaxTokens /\ MaxTokens \in Nat
      /\ Kept(t) <= issued
  <2>1. provider.offline => Kept(t) # 0
    BY OAuthAssumption DEF IInv, CallerInv, HandlerInv, ReplyInv, Renews, Sending, Kept, Tasks
  <2> QED
    BY <2>1, KeptIsGood, OAuthAssumption, Fields DEF IInv, OwnerInv
<1>6. /\ reply[t].refresh # 0 => \A u \in Tasks : mem[u].refresh # reply[t].refresh
      /\ Kept(t) = IF reply[t].refresh = 0 THEN mem[t].refresh ELSE reply[t].refresh
  BY DEF IInv, ReplyInv, Kept
<1>7. \A u \in Tasks : Kept(t) # 0 /\ mem[u].refresh = Kept(t) =>
        mem[t].refresh = Kept(t) /\ mem[u].flow = mem[t].flow
  BY <1>6 DEF OwnerInv
<1>8. OwnerInv'
  <2>1. \A u \in Tasks : mem'[u] = mem[u] \/ mem'[u].refresh = 0
    BY <1>1, <1>3, <1>4
  <2>2. ASSUME NEW u \in Tasks, mem'[u].refresh # 0
        PROVE  /\ mem'[u].refresh = file'.refresh => mem'[u].flow = file'.flow
               /\ \A v \in Tasks : mem'[v].refresh = mem'[u].refresh => mem'[v].flow = mem'[u].flow
    <3>1. mem'[u] = mem[u] /\ mem[u].refresh # 0
      BY <2>1, <2>2
    <3>2. mem'[u].refresh = file'.refresh => mem'[u].flow = file'.flow
      BY <1>4, <1>7, <3>1
    <3>3. \A v \in Tasks : mem'[v].refresh = mem'[u].refresh => mem'[v] = mem[v]
      BY <2>1, <2>2
    <3> QED
      BY <3>1, <3>2, <3>3 DEF OwnerInv
  <2>3. issued' <= MaxTokens /\ \A x \in doubtful' : x <= issued'
    BY <1>4 DEF OwnerInv
  <2> QED
    BY <2>2, <2>3 DEF OwnerInv
<1>9. ~Renewing' /\ InUse' = Kept(t)
  <2>1. CASE lock = t
    BY <1>1, <1>3, <1>4, <2>1 DEF Renewing, InUse
  <2>2. CASE lock # t
    <3>1. t \in Handlers /\ mem[t].refresh = 0
      BY <2>2 DEF IInv, CallerInv, HandlerInv, Tasks
    <3>2. ASSUME lock \in Callers, pc[lock] = "replied"
          PROVE  mem[lock].refresh # Kept(t)
      <4>1. mem[lock].refresh # 0
        BY <3>2 DEF IInv, CallerInv, Sending
      <4> QED
        BY <1>1, <1>6, <3>1, <3>2, <4>1
    <3>3. lock' = lock /\ (lock \in Callers => pc'[lock] = pc[lock] /\ mem'[lock] = mem[lock])
      BY <1>1, <1>3, <2>2
    <3> QED
      BY <1>4, <3>2, <3>3 DEF Renewing, InUse
  <2> QED
    BY <2>1, <2>2
<1>10. CASE Renewing /\ lock = t
  <2>1. mem[t].refresh = file.refresh /\ mem[t].refresh # 0 /\ InUse = Kept(t)
    BY <1>10 DEF Renewing, InUse, IInv, CallerInv, Sending
  <2>2. file'.flow = file.flow
    BY <1>4, <2>1 DEF OwnerInv
  <2> QED
    BY <1>4, <1>8, <1>9, <2>1, <2>2 DEF Maps, Shared!vars
<1>11. CASE ~(Renewing /\ lock = t)
  <2>1. Shared!Adopt(mem[t].flow, Kept(t))
    BY <1>4, <1>5, <1>9 DEF Shared!Adopt
  <2>2. Kept(t) \in (1..MaxTokens) \cup {0}
    BY <1>5
  <2> QED
    BY <1>1, <1>8, <2>1, <2>2 DEF Maps, Shared!Next
<1> QED
  BY <1>10, <1>11

LEMMA StoreMaps ==
  ASSUME IInv, OwnerInv, NEW t \in Tasks, Store(t)
  PROVE  Maps
<1>1. pc[t] = "replied" /\ UNCHANGED <<provider, live, issued, replayed>>
  BY DEF Store, idp
<1>2. CASE Save(t) /\ Finish(t, "ok")
  BY <1>1, <1>2, SaveMaps
<1>3. CASE Unsaved(t) /\ Finish(t, "failed")
  <2> DEFINE D == {mem[t].refresh}
  <2>1. /\ End({t}, {}, "failed") /\ doubtful' = doubtful \cup D /\ file' = file
    BY <1>3 DEF Unsaved, Finish, fileVars
  <2>2. /\ D \in SUBSET Nat /\ {t} \in SUBSET Tasks /\ {} \in SUBSET {t}
        /\ \A x \in D : \E u \in Tasks : x = mem[u].refresh
        /\ \A u \in {t} : pc[u] = "replied" => mem[u].refresh \in D
    BY Fields DEF IInv
  <2> HIDE DEF D
  <2> QED
    BY <1>1, <2>1, <2>2, FailMaps
<1> QED
  BY <1>2, <1>3 DEF Store

LEMMA InitMaps == Init => OwnerInv /\ Shared!Init
<1> SUFFICES ASSUME Init PROVE OwnerInv /\ Shared!Init
  OBVIOUS
<1>1. NoFile.refresh = 0 /\ NoFile.flow = NoFlow /\ Free \notin Callers /\ MaxTokens \in Nat
  BY OAuthAssumption, NamesAssumption DEF NoFile, Tasks
<1>2. \A t \in Tasks : mem[t].refresh = 0
  BY <1>1 DEF Init
<1>3. OwnerInv
  BY <1>1, <1>2 DEF Init, OwnerInv
<1>4. ~Renewing
  BY <1>1 DEF Init, Renewing
<1>5. provider.offline \in BOOLEAN
  <2>1. provider \in ProviderType
    BY OAuthAssumption DEF Init
  <2> QED
    BY <2>1 DEF ProviderType
<1>6. Shared!Init
  BY <1>1, <1>4, <1>5 DEF Init, InUse, Shared!Init
<1> QED
  BY <1>3, <1>6

LEMMA NextMaps == IInv /\ OwnerInv /\ [Next]_vars => Maps
<1> SUFFICES ASSUME IInv, OwnerInv, [Next]_vars PROVE Maps
  OBVIOUS
<1>1. Callers \subseteq Tasks /\ Handlers \subseteq Tasks /\ "failed" \in Outcome
  BY DEF Tasks, Outcome
<1>2. ASSUME NEW t \in Tasks, pc[t] # "replied", Finish(t, "failed"),
             UNCHANGED <<provider, fileVars, idp, doubtful>>
      PROVE  Maps
  BY <1>1, <1>2, FinishMaps DEF fileVars, idp
<1>3. ASSUME NEW c \in Callers, LockFails(c)
      PROVE  Maps
  BY <1>1, <1>2, <1>3 DEF LockFails
<1>4. ASSUME NEW h \in Handlers, Declined(h)
      PROVE  Maps
  BY <1>1, <1>2, <1>4 DEF Declined
<1> QED
  BY <1>3, <1>4, BearerMaps, LockMaps, CallbackMaps, WorldMaps, RefuseClientMaps,
     RefusalMaps, RetryGrantMaps, GiveUpMaps, IssueMaps, IssueLateMaps, StoreMaps, CrashMaps
  DEF Next

\* Calls, callbacks and processes that share the file, with their locks, failures and
\* crashes, behave as one credential that is renewed in one step (Store.Bearer,
\* oauth.go:148-192, serve/oauth.go:145-190).
THEOREM Implements == Spec => ImplementsCredential
<1>1. IInv /\ OwnerInv /\ [Next]_vars => OwnerInv' /\ [Shared!Next]_(Shared!vars)
  BY NextMaps DEF Maps
<1> QED
  BY InitMaps, Inductive, <1>1, PTL DEF Spec, ImplementsCredential, Shared!Spec

\* What is promised of that credential: the token in use is honoured or in doubt, and
\* only a token in doubt is ever replayed.
THEOREM CredentialUsable == ImplementsCredential => []Shared!Usable
<1> DEFINE Inv == Shared!Usable /\ (~provider.offline => live = {})
<1>1. Shared!Init => Inv
  BY DEF Shared!Init, Shared!Usable
<1>2. Inv /\ [Shared!Next]_(Shared!vars) => Inv'
  BY DEF Shared!Usable, Shared!Next, Shared!vars, Shared!Grant, Shared!Adopt, Shared!Renew,
         Shared!RenewAside, Shared!Replaced, Shared!Fail, Shared!Refuse
<1>3. Inv => Shared!Usable
  OBVIOUS
<1> QED
  BY <1>1, <1>2, <1>3, PTL DEF ImplementsCredential, Shared!Spec

=============================================================================
