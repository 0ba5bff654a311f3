---------------------------- MODULE ReadChannel ----------------------------
(***************************************************************************)
(* The READ channel: the context providers a session is bound to           *)
(* (stag/provider/provider.go, mcpgate/mcpresource.go) and the resources   *)
(* of the connected servers, which the gate serves under its own names     *)
(* (mcpgate.go, downstreamResourceHandler and contextHandler).  A read is  *)
(* never refused: what comes back is labelled and recorded.                *)
(*                                                                         *)
(* A text is a value; a source is what lies behind a provider: a bundle of *)
(* files on disk, a web service, the resources of a server.                *)
(***************************************************************************)
EXTENDS Naturals, FiniteSets, FiniteSetsExt

CONSTANTS
  Providers,      \* the configured providers, each enabled
  Kind,           \* Kind[p]: "http", "static", "mcp_resource", or another
  Host,           \* Host[p]: the server of an mcp_resource provider
  Texts,          \* texts a source may hold
  Length,         \* Length[t]: its length
  Binary,         \* the texts that are not text: the content of a binary resource
  Blank,          \* the empty text
  NoContext,      \* the words of the gate where it has nothing of the source
  MaxBundleBytes,
  MaxQueryLen

ASSUME ReadAssumption ==
  /\ Binary \subseteq Texts /\ Blank \notin Texts /\ NoContext \notin Texts
  /\ \A t \in Texts : Length[t] \in Nat
  /\ MaxBundleBytes \in Nat /\ MaxQueryLen \in Nat

\* An item as a source gives it: with the trust it claims for itself.
Trust  == {"untrusted", "trusted"}
Item   == [text : Texts, trust : Trust]
Source == [up : BOOLEAN, items : SUBSET Item]

Nowhere == [up |-> FALSE, items |-> {}]

\* NewStatic: the bundle is read when the provider is built, and must be
\* readable, fit a context window and not be empty.
BundleFits(src) ==
  src.up /\ src.items # {} /\ SumSet({Length[i.text] : i \in src.items}) <= MaxBundleBytes

\* FromConfig and NewMCPResourceProvider: may the provider be built?
Builds(p, src, connected) ==
  \/ Kind[p] = "http"
  \/ Kind[p] = "static" /\ BundleFits(src)
  \/ Kind[p] = "mcp_resource" /\ Host[p] \in connected

\* A bundle keeps what it held when it was built; the others ask their source.
Held(p, src) == IF Kind[p] = "static" THEN src ELSE Nowhere

\* BoundQuery: the length of the query that reaches the source.
BoundQuery(q) == IF q <= MaxQueryLen THEN q ELSE MaxQueryLen

\* Deviation: the files of a bundle are read again.
Provided_Live(p, held, src) ==
  IF ~src.up THEN {}
  ELSE IF Kind[p] = "mcp_resource" THEN {i \in src.items : i.text \notin Binary}
  ELSE src.items

\* Provide: a bundle and a resource provider ignore the query; a resource that
\* cannot be read is skipped, and so is one without text.
Provided(p, held, src) ==
  IF Kind[p] = "static" THEN held.items
  ELSE IF ~src.up THEN {}
  ELSE IF Kind[p] = "mcp_resource" THEN {i \in src.items : i.text \notin Binary}
  ELSE src.items

ProvideFails(p, src) == Kind[p] = "http" /\ ~src.up

\* Deviation: the trust a source claims is believed.
Gathered_AsClaimed(items) == items

\* Gather: whatever a source claims, its items are untrusted.
Gathered(items) == {[i EXCEPT !.trust = "untrusted"] : i \in items}

\* contextFrame: the label is part of the text that is served and hashed.
Frame(item) == [text |-> item.text, framed |-> TRUE, trust |-> item.trust]

\* contextHandler: what a read of provider p gets from its source.
ServedBy(p, held, src) == {Frame(i) : i \in Gathered(Provided(p, held, src))}

\* What the gate serves in its own name: there was nothing for this query, or
\* the resource could not be read.
Placeholder == [text |-> NoContext, framed |-> FALSE, trust |-> "untrusted"]

OrPlaceholder(contents) == IF contents = {} THEN {Placeholder} ELSE contents

\* HashText of every text of the source that is served.
Attested(contents) ==
  {IF c.text \in Binary THEN [c EXCEPT !.text = Blank] ELSE c : c \in contents}

ReadLeaf(who, nth, name, q, contents, failed) ==
  [session |-> who, name |-> name, nth |-> nth, query |-> BoundQuery(q), truncated |-> q > MaxQueryLen,
   hashes |-> Attested(contents), failed |-> failed]

\* downstreamResourceHandler: the resources of a connected server; binary
\* content has no text to frame.
ServedResource(texts) ==
  {[text |-> t, framed |-> t \notin Binary, trust |-> "untrusted"] : t \in texts}

=============================================================================
