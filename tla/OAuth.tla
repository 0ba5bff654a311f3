------------------------------- MODULE OAuth -------------------------------
(***************************************************************************)
(* The OAuth credential of one downstream server (stag/oauth, stag/serve/  *)
(* oauth.go).  stag-proxy and stag-serve share one file per server.  Any   *)
(* of them may find the access token near its expiry and refresh it under  *)
(* a file lock (Store.Bearer); stag-serve also replaces the file when a    *)
(* person completes a sign-in (handleOAuthCallback), without that lock.    *)
(* A provider may rotate: it honours a refresh token once.  Processes may  *)
(* stop at any point; the kernel then frees the lock.                      *)
(*                                                                         *)
(* Tokens are numbered in the order the provider issues them; 0 is no      *)
(* token.  A step is a stretch of code with one access to the file, the    *)
(* lock, the provider or the map of pending sign-ins.                      *)
(***************************************************************************)
EXTENDS Naturals, Sequences

CONSTANTS
  Callers,    \* the calls of Bearer that connects may ever make
  Handlers,   \* the requests that browsers may ever make to the callback
  Flows,      \* the sign-ins that may ever be started: their state values
  Processes,  \* the processes that share the directory
  Serve,      \* the one that runs stag-serve
  Home,       \* Home[t]: the process of a call or a callback
  Providers,  \* the kinds of provider and client that are looked at
  MaxTokens,  \* bound: how many token pairs the provider issues
  IOFails     \* may reading, locking or writing a file fail?

Method == {"client_secret_basic", "client_secret_post", "none"}

(* rotates: a refresh answers with a new refresh token and ends the old.   *)
(* offline: a sign-in yields a refresh token.  expires: access tokens have *)
(* an expiry.  accepts: the client authentication the provider takes.      *)
(* secret, advertised: the client's secret and TokenAuthMethod.            *)
ProviderType == [rotates : BOOLEAN, offline : BOOLEAN, expires : BOOLEAN,
                 accepts : SUBSET Method, secret : BOOLEAN,
                 advertised : Method \cup {""}]

Tasks == Callers \cup Handlers

ASSUME OAuthAssumption ==
  /\ Callers \cap Handlers = {}
  /\ Serve \in Processes
  /\ Home \in [Tasks -> Processes]
  /\ \A h \in Handlers : Home[h] = Serve
  /\ Providers \subseteq ProviderType
  /\ MaxTokens \in Nat
  /\ IOFails \in BOOLEAN

NoFlow == "no flow"
Free   == "free"
ASSUME NamesAssumption == NoFlow \notin Flows /\ Free \notin Tasks

Tokens == [access : Nat, refresh : Nat]
State  == [flow : Flows, access : Nat, refresh : Nat]

\* No file, or one without an access token: not authorized.
NoFile == [flow |-> NoFlow, access |-> 0, refresh |-> 0]

VARIABLES
  provider,   \* the provider and the client; never changes
  file,       \* the State on disk, or NoFile
  lock,       \* the call that holds the file lock, or Free
  stale,      \* the access tokens within refreshSkew of their expiry
  issued,     \* how many pairs the provider has issued
  live,       \* the refresh tokens the provider honours
  flow,       \* flow[f]: where the sign-in f is
  pc, mem,    \* where a task is; the State it works from
  tries,      \* tries[t]: how many client authentications it has used
  reply,      \* reply[t]: the Tokens the provider answered with
  outcome,    \* outcome[t]: what it answered, or the last error it goes on from
  late,       \* the tasks that gave up on a request the provider still has
  \* History.
  exchanged,  \* the pairs <<h, f>>: handler h redeemed the code of sign-in f
  replayed,   \* the refresh tokens presented when they were no longer live
  doubtful,   \* the refresh tokens that were sent and not replaced on file
  acked,      \* the sign-in last reported as complete, or NoFlow
  overtaken   \* a refresh was under way when that sign-in was saved

fileVars == <<file, acked, overtaken>>
idp      == <<stale, issued, live, exchanged, replayed>>
taskVars == <<pc, mem, tries, reply, outcome, late>>
vars == <<provider, fileVars, lock, idp, doubtful, flow, taskVars>>

Control == {"idle", "waiting", "locked", "asking", "replied", "done"}
Outcome == {"none", "ok", "expired", "credentials", "failed"}

TypeOK ==
  /\ provider \in Providers
  /\ file \in State \cup {NoFile}
  /\ lock \in Callers \cup {Free}
  /\ stale \subseteq 1..issued
  /\ issued \in Nat
  /\ live \subseteq 1..issued
  /\ flow \in [Flows -> {"new", "pending", "aged", "taken", "lost"}]
  /\ pc \in [Tasks -> Control]
  /\ mem \in [Tasks -> State \cup {NoFile}]
  /\ tries \in [Tasks -> Nat]
  /\ reply \in [Tasks -> Tokens]
  /\ outcome \in [Tasks -> Outcome]
  /\ late \subseteq Tasks
  /\ exchanged \subseteq Handlers \X Flows
  /\ replayed \subseteq Nat
  /\ doubtful \subseteq Nat
  /\ acked \in Flows \cup {NoFlow}
  /\ overtaken \in BOOLEAN

NoTokens == [access |-> 0, refresh |-> 0]

Init ==
  /\ provider \in Providers
  /\ file = NoFile /\ lock = Free
  /\ stale = {} /\ issued = 0 /\ live = {}
  /\ flow = [f \in Flows |-> "new"]
  /\ pc = [t \in Tasks |-> "idle"]
  /\ mem = [t \in Tasks |-> NoFile]
  /\ tries = [t \in Tasks |-> 0]
  /\ reply = [t \in Tasks |-> NoTokens]
  /\ outcome = [t \in Tasks |-> "none"] /\ late = {}
  /\ exchanged = {} /\ replayed = {} /\ doubtful = {}
  /\ acked = NoFlow /\ overtaken = FALSE

Stale(st) == st.access \in stale

Goto(t, from, to) == pc[t] = from /\ pc' = [pc EXCEPT ![t] = to]

\* Deviation: an error path keeps the lock.
End_KeepsLock(T, S, result) ==
  /\ pc' = [t \in Tasks |-> IF t \in T THEN "done" ELSE pc[t]]
  /\ outcome' = [t \in Tasks |-> IF t \in T THEN result ELSE outcome[t]]
  /\ lock' = IF lock \in T /\ result = "ok" THEN Free ELSE lock
  /\ late' = late \cup S
  /\ UNCHANGED <<mem, tries, reply>>

\* Tasks T end; those of S leave a request with the provider.  A call that
\* holds the lock gives it up, and its locals are gone.
End(T, S, result) ==
  /\ pc' = [t \in Tasks |-> IF t \in T THEN "done" ELSE pc[t]]
  /\ outcome' = [t \in Tasks |-> IF t \in T THEN result ELSE outcome[t]]
  /\ lock' = IF lock \in T THEN Free ELSE lock
  /\ mem' = [t \in Tasks |-> IF t \in (T \ S) \cap Callers THEN NoFile ELSE mem[t]]
  /\ tries' = [t \in Tasks |-> IF t \in T \ S THEN 0 ELSE tries[t]]
  /\ reply' = [t \in Tasks |-> IF t \in T THEN NoTokens ELSE reply[t]]
  /\ late' = late \cup S

Finish(t, result) == End({t}, {}, result)

-----------------------------------------------------------------------------
(* Store.Bearer, before the token endpoint.                                *)

\* The first Load, without the lock: a credential that is still good is
\* taken as it is.
Bearer(c) ==
  /\ pc[c] = "idle"
  /\ \/ (file = NoFile \/ IOFails) /\ Finish(c, "failed")
     \/ file # NoFile /\ ~Stale(file) /\ Finish(c, "ok")
     \/ /\ file # NoFile /\ Stale(file)
        /\ pc' = [pc EXCEPT ![c] = "waiting"]
        /\ mem' = [mem EXCEPT ![c] = file]
        /\ UNCHANGED <<lock, tries, reply, outcome, late>>
  /\ UNCHANGED <<provider, fileVars, idp, doubtful, flow>>

\* withLock: flock excludes the other calls, of every process.
Lock(c) ==
  /\ lock = Free /\ Goto(c, "waiting", "locked")
  /\ lock' = c
  /\ UNCHANGED <<provider, fileVars, idp, doubtful, flow, mem, tries, reply, outcome, late>>

\* The lock file cannot be opened or locked.
LockFails(c) ==
  /\ pc[c] = "waiting" /\ IOFails /\ Finish(c, "failed")
  /\ UNCHANGED <<provider, fileVars, idp, doubtful, flow>>

\* Deviation: what was read before waiting for the lock is refreshed.
Reload_Skipped(c) ==
  /\ IF mem[c].refresh = 0 THEN pc[c] = "locked" /\ Finish(c, "failed")
                           ELSE Goto(c, "locked", "asking") /\ UNCHANGED <<lock, mem, tries, reply, outcome, late>>
  /\ UNCHANGED <<provider, fileVars, idp, doubtful, flow>>

\* The State that is refreshed is the one read under the lock.
Reload(c) ==
  /\ pc[c] = "locked"
  /\ \/ (file = NoFile \/ IOFails) /\ Finish(c, "failed")
     \/ file # NoFile /\ ~Stale(file) /\ Finish(c, "ok")
     \/ file # NoFile /\ Stale(file) /\ file.refresh = 0 /\ Finish(c, "failed")
     \/ /\ file # NoFile /\ Stale(file) /\ file.refresh # 0
        /\ pc' = [pc EXCEPT ![c] = "asking"]
        /\ mem' = [mem EXCEPT ![c] = file]
        /\ UNCHANGED <<lock, tries, reply, outcome, late>>
  /\ UNCHANGED <<provider, fileVars, idp, doubtful, flow>>

-----------------------------------------------------------------------------
(* The sign-in, up to the token endpoint.                                  *)

\* stashPending drops the sign-ins that are older than oauthPendingTTL.
StashPending(f) ==
  /\ flow[f] = "new"
  /\ flow' = [g \in Flows |-> IF g = f THEN "pending"
                              ELSE IF flow[g] = "aged" THEN "lost" ELSE flow[g]]
  /\ UNCHANGED <<provider, fileVars, lock, idp, doubtful, taskVars>>

\* oauthPendingTTL passes.
Age(f) ==
  /\ flow[f] = "pending"
  /\ flow' = [flow EXCEPT ![f] = "aged"]
  /\ UNCHANGED <<provider, fileVars, lock, idp, doubtful, taskVars>>

\* The browser arrives with the state of a sign-in that was started.
\* takePending removes the entry it returns, whatever its age.
Callback(h, f) ==
  /\ pc[h] = "idle" /\ flow[f] # "new"
  /\ IF flow[f] \in {"pending", "aged"}
     THEN /\ flow' = [flow EXCEPT ![f] = "taken"]
          /\ pc' = [pc EXCEPT ![h] = "asking"]
          /\ mem' = [mem EXCEPT ![h] = [flow |-> f, access |-> 0, refresh |-> 0]]
          /\ UNCHANGED <<lock, tries, reply, outcome, late>>
     ELSE Finish(h, "expired") /\ UNCHANGED flow
  /\ UNCHANGED <<provider, fileVars, idp, doubtful>>

\* The provider redirects with an error: the sign-in stays pending.
Declined(h) ==
  /\ pc[h] = "idle" /\ Finish(h, "failed")
  /\ UNCHANGED <<provider, fileVars, idp, doubtful, flow>>

-----------------------------------------------------------------------------
(* The token endpoint.                                                     *)
\* Deviation: what the metadata advertise is all that is tried.
AuthOrder_AsAdvertised ==
  IF ~provider.secret THEN <<"none">> ELSE <<provider.advertised>>

\* tokenAuthOrder: the advertised way first, then the other one.
AuthOrder ==
  IF ~provider.secret THEN <<"none">>
  ELSE IF provider.advertised = "client_secret_basic"
       THEN <<"client_secret_basic", "client_secret_post">>
       ELSE <<"client_secret_post", "client_secret_basic">>

Accepted(t) == AuthOrder[tries[t] + 1] \in provider.accepts

\* The code of a sign-in, or the refresh token, is still good.
GrantHolds(t) ==
  IF t \in Handlers THEN \A h \in Handlers : <<h, mem[t].flow>> \notin exchanged
                    ELSE mem[t].refresh \in live

\* The provider refuses the client: the other way is tried, if there is one.
RefuseClient(t) ==
  /\ pc[t] = "asking" /\ ~Accepted(t)
  /\ IF tries[t] + 1 < Len(AuthOrder)
     THEN tries' = [tries EXCEPT ![t] = @ + 1] /\ UNCHANGED <<pc, mem, reply, outcome, lock, late>>
     ELSE Finish(t, IF outcome[t] = "none" THEN "credentials" ELSE "failed")
  /\ UNCHANGED <<provider, fileVars, idp, doubtful, flow>>

\* The provider has seen the refresh token of t again.
Presented(t) ==
  IF t \in Callers /\ ~GrantHolds(t) THEN replayed \cup {mem[t].refresh} ELSE replayed

\* The provider refuses the code or the refresh token, or reports an error.
RefuseGrant(t) ==
  /\ pc[t] = "asking" /\ Finish(t, "failed")
  /\ replayed' = Presented(t)
  /\ UNCHANGED <<provider, fileVars, stale, issued, live, exchanged, doubtful, flow>>

\* If it does so with a 401, the client is taken to be refused, and the grant is
\* sent again in the other way.
RetryGrant(t) ==
  /\ pc[t] = "asking" /\ tries[t] + 1 < Len(AuthOrder)
  /\ tries' = [tries EXCEPT ![t] = @ + 1]
  /\ outcome' = [outcome EXCEPT ![t] = "failed"]
  /\ replayed' = Presented(t)
  /\ UNCHANGED <<provider, fileVars, stale, issued, live, exchanged, doubtful, flow, lock, pc, mem,
                 reply, late>>

\* The client gives up waiting; the provider may have the request or not.
GiveUp(t) ==
  /\ pc[t] = "asking" /\ End({t}, {t}, "failed")
  /\ doubtful' = doubtful \cup {mem[t].refresh}
  /\ UNCHANGED <<provider, fileVars, idp, flow>>

Renews(t) == IF t \in Handlers THEN provider.offline ELSE provider.rotates

\* The provider issues a pair for the grant the task has sent.
IssueFor(t) ==
  /\ Accepted(t) /\ GrantHolds(t) /\ issued < MaxTokens
  /\ issued' = issued + 1
  /\ live' = IF Renews(t) THEN (live \ {mem[t].refresh}) \cup {issued'} ELSE live
  /\ exchanged' = IF t \in Handlers THEN exchanged \cup {<<t, mem[t].flow>>} ELSE exchanged

Issue(t) ==
  /\ pc[t] = "asking" /\ IssueFor(t)
  /\ pc' = [pc EXCEPT ![t] = "replied"]
  /\ reply' = [reply EXCEPT ![t] =
       [access |-> issued', refresh |-> IF Renews(t) THEN issued' ELSE 0]]
  /\ UNCHANGED <<provider, fileVars, lock, stale, replayed, doubtful, flow, mem, tries, outcome, late>>

\* The provider gets to a request nobody waits for any more.
IssueLate(t) ==
  /\ t \in late
  /\ late' = late \ {t}
  /\ \/ IssueFor(t) /\ UNCHANGED replayed
     \/ replayed' = Presented(t) /\ UNCHANGED <<issued, live, exchanged>>
  /\ UNCHANGED <<provider, fileVars, lock, stale, doubtful, flow, pc, mem, tries, reply, outcome>>

-----------------------------------------------------------------------------
(* After the token endpoint.                                               *)

\* Deviation: the answer is stored as it came.
Kept_AsAnswered(t) == reply[t].refresh

\* A refresh that does not rotate keeps the old refresh token.
Kept(t) == IF reply[t].refresh = 0 THEN mem[t].refresh ELSE reply[t].refresh

\* Save: a new file is renamed over the old one.
Save(t) ==
  /\ file' = [flow |-> mem[t].flow, access |-> reply[t].access, refresh |-> Kept(t)]
  /\ IF t \in Handlers
     THEN /\ acked' = mem[t].flow
          /\ overtaken' = \E c \in Callers : pc[c] \in {"asking", "replied"}
     ELSE UNCHANGED <<acked, overtaken>>
  /\ UNCHANGED doubtful

\* Save fails, and so does the call.
Unsaved(t) ==
  /\ doubtful' = doubtful \cup {mem[t].refresh}
  /\ UNCHANGED fileVars

Store(t) ==
  /\ pc[t] = "replied"
  /\ \/ Save(t) /\ Finish(t, "ok")
     \/ IOFails /\ Unsaved(t) /\ Finish(t, "failed")
  /\ UNCHANGED <<provider, idp, flow>>

-----------------------------------------------------------------------------
(* The world.                                                              *)

Expire(a) ==
  /\ provider.expires /\ a \in (1..issued) \ stale
  /\ stale' = stale \cup {a}
  /\ UNCHANGED <<provider, fileVars, lock, issued, live, exchanged, replayed, doubtful, flow, taskVars>>

\* A process stops and is started again: its calls end, the pending sign-ins
\* were in memory, the lock is freed.
Running(p) == {t \in Tasks : Home[t] = p /\ pc[t] \notin {"idle", "done"}}

Crash(p) ==
  LET sent == {t \in Running(p) : pc[t] = "asking"} IN
  /\ End(Running(p), sent, "failed")
  /\ doubtful' = doubtful \cup {mem[t].refresh : t \in {u \in Running(p) : pc[u] \in {"asking", "replied"}}}
  /\ flow' = IF p # Serve THEN flow
             ELSE [f \in Flows |-> IF flow[f] \in {"pending", "aged"} THEN "lost" ELSE flow[f]]
  /\ UNCHANGED <<provider, fileVars, idp>>

TaskStep(t) ==
  \/ t \in Callers /\ (Lock(t) \/ Reload(t))
  \/ RefuseClient(t) \/ RefuseGrant(t) \/ RetryGrant(t) \/ GiveUp(t) \/ Issue(t) \/ Store(t)

Next ==
  \/ \E c \in Callers : Bearer(c)
  \/ \E c \in Callers : Lock(c)
  \/ \E c \in Callers : LockFails(c)
  \/ \E c \in Callers : Reload(c)
  \/ \E f \in Flows : StashPending(f)
  \/ \E f \in Flows : Age(f)
  \/ \E h \in Handlers, f \in Flows : Callback(h, f)
  \/ \E h \in Handlers : Declined(h)
  \/ \E t \in Tasks : RefuseClient(t)
  \/ \E t \in Tasks : RefuseGrant(t)
  \/ \E t \in Tasks : RetryGrant(t)
  \/ \E t \in Tasks : GiveUp(t)
  \/ \E t \in Tasks : Issue(t)
  \/ \E t \in Tasks : IssueLate(t)
  \/ \E t \in Tasks : Store(t)
  \/ \E a \in 1..issued : Expire(a)
  \/ \E p \in Processes : Crash(p)

Spec == Init /\ [][Next]_vars

\* A task that runs keeps running: reads, writes and the token request end (the
\* HTTP client times out after 20 seconds), well or badly, and a waiting call
\* gets a lock that stays free.  No failure to lock is counted on.
FairSpec == Spec /\ \A t \in Tasks : WF_vars(TaskStep(t))

-----------------------------------------------------------------------------
(* Properties.                                                             *)

\* A refresh token is not presented again once the provider has replaced it,
\* unless a call sent it and stopped, or could not store the answer: calls of
\* all processes that find the same stale credential spend it once (the lock
\* and the second Load of Store.Bearer, oauth.go:159-175).
SingleUse == replayed \subseteq doubtful

\* With a provider that grants offline access, the refresh token on file is
\* one the provider honours, or the holder of the lock is about to replace
\* it, again unless a call sent it and stopped: nobody is locked out of a
\* server by refreshing, with rotation or without (oauth.go:180-189).
StaysRefreshable ==
  file # NoFile /\ provider.offline /\ file.refresh \notin doubtful =>
    \/ file.refresh \in live
    \/ \E c \in Callers : /\ lock = c /\ pc[c] = "replied"
                          /\ mem[c].refresh = file.refresh

\* The holder of the lock has the successor of the token on file.
Renewing == lock \in Callers /\ pc[lock] = "replied" /\ mem[lock].refresh = file.refresh

\* Between the answer of the provider and Save, the token in use is in the memory
\* of the holder of the lock.
InUse == IF Renewing THEN Kept(lock) ELSE file.refresh

\* A sign-in sends no refresh token: 0 is never in doubt.
Shared == INSTANCE Credential WITH
  Tokens   <- 1..MaxTokens,
  NoToken  <- 0,
  lasting  <- provider.offline,
  owner    <- file.flow,
  inUse    <- InUse,
  honoured <- live,
  doubtful <- doubtful \ {0},
  replayed <- replayed \ {0}

\* The calls and callbacks of all processes together use one credential that is
\* renewed in one step, whatever they do in between and wherever they stop
\* (Store.Bearer, oauth.go:148-192, serve/oauth.go:145-190).
ImplementsCredential == Shared!Spec

\* The credential of the sign-in that was last reported as complete stays on
\* file, unless a refresh of the earlier one was already past its second Load
\* when it was saved (serve/oauth.go:183, which takes no lock).
SignInSurvives == acked # NoFlow /\ ~overtaken => file.flow = acked

\* The code of a sign-in is presented by one callback only, however often the
\* browser repeats the redirect (takePending, serve/oauth.go:222-230).
CodeOnce ==
  \A g, h \in Handlers :
    mem[g] # NoFile /\ mem[h] # NoFile /\ mem[g].flow = mem[h].flow => g = h

\* A task that got as far as having the client refused, and nothing else, gives
\* up only when the provider takes none of the ways the client could
\* authenticate in, whatever the metadata said (tokenAuthOrder and
\* tokenRequest, oauth.go:460-490).
EveryWayTried ==
  \A t \in Tasks : outcome[t] = "credentials" =>
    provider.accepts \cap (IF provider.secret THEN Method \ {"none"} ELSE {"none"}) = {}

\* Every call of Bearer and every callback returns, whatever the provider, the
\* disk and the other processes do: nobody keeps the lock.
EveryCallReturns == \A t \in Tasks : pc[t] # "idle" ~> pc[t] = "done"

=============================================================================
