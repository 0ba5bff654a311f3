----------------------------- MODULE Credential -----------------------------
(***************************************************************************)
(* What the OAuth client promises of the credential of a server, with no   *)
(* trace of files, locks, processes or the calls that share it: one        *)
(* refresh token is in use, whoever renews it does so in one step, and     *)
(* the provider is never shown a token it has replaced, except one whose   *)
(* renewal was sent and whose answer was not kept.  Such a token is in     *)
(* doubt.                                                                  *)
(***************************************************************************)
CONSTANTS
  Tokens, NoToken,   \* refresh tokens
  Flows, NoFlow      \* sign-ins

VARIABLES
  lasting,    \* does a sign-in come with a refresh token?  Never changes
  owner,      \* the sign-in whose credential is in use
  inUse,      \* its refresh token
  honoured,   \* the refresh tokens the provider honours
  doubtful,   \* the refresh tokens that are in doubt
  replayed    \* the refresh tokens presented when they were no longer honoured

vars == <<lasting, owner, inUse, honoured, doubtful, replayed>>

Init ==
  /\ lasting \in BOOLEAN
  /\ owner = NoFlow /\ inUse = NoToken
  /\ honoured = {} /\ doubtful = {} /\ replayed = {}

Fresh(n) == n \notin honoured \cup doubtful \cup replayed \cup {inUse}

\* The provider answers a sign-in with a refresh token.
Grant(n) ==
  /\ lasting /\ Fresh(n)
  /\ honoured' = honoured \cup {n}
  /\ UNCHANGED <<lasting, owner, inUse, doubtful, replayed>>

\* The credential of a sign-in takes the place of the one in use.
Adopt(f, n) ==
  /\ n \in (IF lasting THEN honoured \cup doubtful ELSE {NoToken})
  /\ owner' = f /\ inUse' = n
  /\ UNCHANGED <<lasting, honoured, doubtful, replayed>>

Replaced(o, n) == (honoured \ {o}) \cup {n}

\* The token in use is replaced, by the provider and by the client at once.
Renew(n) ==
  /\ inUse \in honoured /\ Fresh(n)
  /\ honoured' = Replaced(inUse, n)
  /\ inUse' = n
  /\ UNCHANGED <<lasting, owner, doubtful, replayed>>

\* The provider replaces a token that is not in use any more or in doubt.
RenewAside(o, n) ==
  /\ o \in honoured /\ (o = inUse => o \in doubtful) /\ Fresh(n)
  /\ honoured' = Replaced(o, n)
  /\ UNCHANGED <<lasting, owner, inUse, doubtful, replayed>>

\* The answers to those who sent the tokens D are not kept.  One of the tokens
\* may be in use again.
Fail(D) ==
  /\ D # {} => lasting
  /\ doubtful' = doubtful \cup D
  /\ inUse' \in D \cup {inUse}
  /\ UNCHANGED <<lasting, owner, honoured, replayed>>

\* The provider is shown a token it does not honour.
Refuse(o) ==
  /\ o \in doubtful \ honoured
  /\ replayed' = replayed \cup {o}
  /\ UNCHANGED <<lasting, owner, inUse, honoured, doubtful>>

Next ==
  \/ \E n \in Tokens : Grant(n) \/ Renew(n)
  \/ \E f \in Flows, n \in Tokens \cup {NoToken} : Adopt(f, n)
  \/ \E o, n \in Tokens : RenewAside(o, n)
  \/ \E D \in SUBSET Tokens : Fail(D)
  \/ \E o \in Tokens : Refuse(o)

Spec == Init /\ [][Next]_vars

\* Nobody is locked out but by a failure, and nothing is replayed without one.
Usable ==
  /\ owner # NoFlow /\ lasting => inUse \in honoured \cup doubtful
  /\ ~lasting => inUse = NoToken
  /\ replayed \subseteq doubtful

=============================================================================
