------------------------------ MODULE MCOAuth ------------------------------
(***************************************************************************)
(* Instances of OAuth for TLC.                                             *)
(***************************************************************************)
EXTENDS OAuth, TLC

CONSTANTS c1, c2, c3, h1, h2, serve, proxy

\* One call in stag-serve (discovery), the others in stag-proxy (connects).
HomeTwo == [t \in Tasks |-> IF t \in {c1, h1, h2} THEN serve ELSE proxy]

Basic == "client_secret_basic"
Post  == "client_secret_post"

Rotating == [rotates |-> TRUE, offline |-> TRUE, expires |-> TRUE,
             accepts |-> {"none"}, secret |-> FALSE, advertised |-> ""]

\* A public client and rotation; wrong metadata and no rotation; no offline
\* access, and no way that is accepted.
ProvidersThree ==
  {Rotating,
   [Rotating EXCEPT !.rotates = FALSE, !.secret = TRUE,
                    !.accepts = {Post}, !.advertised = Basic],
   [Rotating EXCEPT !.offline = FALSE, !.secret = TRUE, !.accepts = {"none"}]}

=============================================================================
