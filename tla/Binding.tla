------------------------------ MODULE Binding ------------------------------
(***************************************************************************)
(* Binding a session (stag/proxy/sessiond, stag/router, mcpgate.fleet,     *)
(* cmd/stag-proxy): the daemon connects the servers that are registered;   *)
(* the dispatcher asks stag-serve for the routes of a recipe or of some    *)
(* tools and posts them to the daemon; the daemon reads the recipes,       *)
(* resolves the routes and mints a token; the agent opens MCP sessions     *)
(* with the token, as often as it likes, calls tools and reads context.    *)
(* Operators edit the configuration meanwhile.                             *)
(*                                                                         *)
(* The decision of one call is atomic here; Gate is about its steps.       *)
(***************************************************************************)
EXTENDS ConfigStore, ReadChannel

CONSTANTS
  Sessions,       \* the bindings dispatchers ever ask for
  Modes,          \* what -require-bounded may be: a subset of BOOLEAN
  Limit,          \* -crossing-budget, 0 if there is none
  Rank,           \* Rank[s]: the place of the name of server s in their order
  ReadLogFails,   \* may the append of a read's leaf fail?
  FirstSource,    \* what the source of each provider holds at the start
  Sources,        \* what it may hold later
  Resources,      \* Resources[s]: what the resources of server s hold
  Queries,        \* the lengths of queries agents make
  MaxCalls,       \* bound on the calls and reads of one session
  MaxOpens,       \* bound on the MCP sessions of one token
  MaxRestarts     \* bound on the restarts of the daemon

\* A provider is read by a URI of the gate's own, so it has no name in common
\* with a server.
ASSUME BindingAssumption ==
  /\ Modes \subseteq BOOLEAN
  /\ {Limit, MaxCalls, MaxOpens, MaxRestarts} \subseteq Nat
  /\ Rank \in [Servers -> Nat] /\ ReadLogFails \in BOOLEAN
  /\ FirstSource \in [Providers -> Source] /\ Sources \subseteq Source /\ Queries \subseteq Nat
  /\ Resources \in [Servers -> SUBSET Texts]
  /\ Providers \cap Servers = {}

VARIABLES
  requireBounded, \* does the daemon refuse recipes without a bound?
  daemon,    \* "waiting" for servers, "connecting", "ready"
  listed,    \* the servers that are still to be connected
  fleet,     \* the connected servers: the tools they had when they were connected
  restarts,
  bind,      \* bind[k]: where the binding of session k is
  specs,     \* specs[k]: the rows that are still to be resolved
  parent,    \* parent[k]: the row in hand and its recipe, if it calls others
  router,    \* router[k]: key -> [gate, policy]
  errors,    \* errors[k]: the keys reported as not bound
  unserved,  \* unserved[k]: those of them the fleet reports
  asked,     \* history: the keys the dispatcher asked for
  fresh,     \* history: the recipes and rows there were while k was being bound
  source,    \* what the source of each provider holds at this moment
  providers, \* providers[k]: the providers that were built: what they hold
  opens,     \* opens[k]: the MCP sessions opened with the token
  spent,     \* spent[k]: the count of the crossing budget
  calls,     \* calls[k]: the calls made so far
  crossings, \* history: the calls forwarded
  leaves,    \* history: how many calls left a leaf in the decision log
  silent,    \* history: the calls that left none
  readLog,   \* the leaves of the read log
  served     \* history: what reads served

fleetVars   == <<daemon, listed, fleet, restarts>>
daemonVars  == <<requireBounded, fleetVars>>
bindVars    == <<bind, specs, parent, router, errors, unserved, asked>>
callVars    == <<spent, crossings, leaves, silent>>
readVars    == <<readLog, served>>
sourceVars  == <<source, providers>>
sessionVars == <<opens, calls, callVars, readVars>>
vars == <<configVars, daemonVars, bindVars, fresh, sourceVars, sessionVars>>

None  == [row |-> "none"]
Empty == [key \in {} |-> None]

Key(row) == <<row.server, row.tool>>

Connected == DOMAIN fleet

\* A route of a session: the arguments that are judged and the policy.
Entry == [gate : SUBSET Args,
          policy : [parts : SUBSET Recipes, passes : SUBSET Args, loose : BOOLEAN,
                    constrains : SUBSET Args]]

TypeOK ==
  /\ ConfigTypeOK
  /\ requireBounded \in BOOLEAN
  /\ daemon \in {"waiting", "connecting", "ready"}
  /\ listed \subseteq Servers
  /\ Connected \subseteq Servers /\ \A s \in Connected : fleet[s] \in Surface
  /\ restarts \in 0 .. MaxRestarts
  /\ bind \in [Sessions -> {"idle", "asked", "building", "bound", "refused", "lost"}]
  /\ specs \in [Sessions -> SUBSET Row]
  /\ parent \in [Sessions -> {None} \cup [row : Row, text : Recipes]]
  /\ DOMAIN router = Sessions
  /\ \A k \in Sessions : DOMAIN router[k] \subseteq Keys /\ router[k] \in [DOMAIN router[k] -> Entry]
  /\ errors \in [Sessions -> SUBSET Keys] /\ unserved \in [Sessions -> SUBSET Keys]
  /\ asked \in [Sessions -> SUBSET Keys]
  /\ fresh \in [Sessions -> SUBSET (Recipes \cup Row)]
  /\ source \in [Providers -> Source]
  /\ DOMAIN providers = Sessions
  /\ \A k \in Sessions : /\ DOMAIN providers[k] \subseteq Providers
                         /\ providers[k] \in [DOMAIN providers[k] -> Source]
  /\ opens \in [Sessions -> 0 .. MaxOpens] /\ calls \in [Sessions -> 0 .. MaxCalls]
  /\ spent \in [Sessions -> Nat] /\ leaves \in [Sessions -> Nat]

SessionInit ==
  /\ opens = [k \in Sessions |-> 0]
  /\ spent = [k \in Sessions |-> 0]
  /\ calls = [k \in Sessions |-> 0]
  /\ crossings = {}
  /\ leaves = [k \in Sessions |-> 0]
  /\ silent = {}
  /\ readLog = {} /\ served = {}

Init ==
  /\ ConfigInit
  /\ requireBounded \in Modes
  /\ daemon = "waiting" /\ listed = {} /\ fleet = Empty /\ restarts = 0
  /\ bind = [k \in Sessions |-> "idle"]
  /\ specs = [k \in Sessions |-> {}]
  /\ parent = [k \in Sessions |-> None]
  /\ router = [k \in Sessions |-> Empty]
  /\ errors = [k \in Sessions |-> {}] /\ unserved = [k \in Sessions |-> {}]
  /\ asked = [k \in Sessions |-> {}]
  /\ fresh = [k \in Sessions |-> {}]
  /\ source = FirstSource
  /\ providers = [k \in Sessions |-> Empty]
  /\ SessionInit

-----------------------------------------------------------------------------
(* awaitFleet.                                                             *)

\* An attempt begins with the servers that are registered and enabled.
ListFleet ==
  /\ daemon = "waiting"
  /\ listed' = {s \in DOMAIN servers : servers[s].enabled}
  /\ daemon' = "connecting"
  /\ UNCHANGED <<configVars, sourceVars, requireBounded, fleet, restarts, bindVars, fresh, sessionVars>>

\* The servers are connected one after the other, in the order of their names.
\* One that cannot be reached is skipped; one that never answers is waited for,
\* and with it the others: the request has no deadline.
Connect(s) ==
  /\ daemon = "connecting" /\ s \in listed /\ \A u \in listed : Rank[s] <= Rank[u]
  /\ live[s] # Mute
  /\ listed' = listed \ {s}
  /\ fleet' = IF live[s] = Down THEN fleet
              ELSE [u \in Connected \cup {s} |-> IF u = s THEN live[s] ELSE fleet[u]]
  /\ UNCHANGED <<configVars, sourceVars, requireBounded, daemon, restarts, bindVars, fresh, sessionVars>>

\* Deviation: it waits without asking again.
FleetDone_Waits ==
  /\ daemon = "connecting" /\ listed = {}
  /\ daemon' = IF Connected = {} THEN daemon ELSE "ready"
  /\ UNCHANGED <<configVars, sourceVars, requireBounded, listed, fleet, restarts, bindVars, fresh, sessionVars>>

\* With one server connected the gate is ready and the fleet is final; with
\* none it tries again.
FleetDone ==
  /\ daemon = "connecting" /\ listed = {}
  /\ daemon' = IF Connected = {} THEN "waiting" ELSE "ready"
  /\ UNCHANGED <<configVars, sourceVars, requireBounded, listed, fleet, restarts, bindVars, fresh, sessionVars>>

\* The daemon restarts: the registry and the connections are gone, and the
\* histories, which are of the sessions that live.
Restart ==
  /\ restarts < MaxRestarts /\ restarts' = restarts + 1
  /\ daemon' = "waiting" /\ listed' = {} /\ fleet' = Empty
  /\ bind' = [k \in Sessions |->
                IF bind[k] \in {"building", "bound"} THEN "lost" ELSE bind[k]]
  /\ specs' = [k \in Sessions |-> IF bind[k] = "building" THEN {} ELSE specs[k]]
  /\ parent' = [k \in Sessions |-> None]
  /\ router' = [k \in Sessions |-> Empty]
  /\ providers' = [k \in Sessions |-> Empty]
  /\ fresh' = [k \in Sessions |-> IF bind'[k] = "lost" THEN {} ELSE fresh[k]]
  /\ opens' = [k \in Sessions |-> 0] /\ spent' = [k \in Sessions |-> 0]
  /\ calls' = [k \in Sessions |-> 0] /\ leaves' = [k \in Sessions |-> 0]
  /\ crossings' = {} /\ silent' = {} /\ readLog' = {} /\ served' = {}
  /\ UNCHANGED <<configVars, source, requireBounded, errors, unserved, asked>>

-----------------------------------------------------------------------------
(* The dispatcher and POST /sessions.                                      *)

Present == {files[n] : n \in {m \in Names : Parses(files[m])}} \cup routes

\* RoutesForRecipe, RoutesForTools: the rows stag-serve lists as valid.
Ask(k) ==
  /\ bind[k] = "idle"
  /\ \E want \in {{r \in ValidRows : r.recipe = n} : n \in Names}
                  \cup {{r \in ValidRows : r.tool \in T} : T \in SUBSET Tools} :
       IF want = {} THEN bind' = [bind EXCEPT ![k] = "refused"] /\ UNCHANGED <<specs, asked, fresh>>
       ELSE /\ bind' = [bind EXCEPT ![k] = "asked"]
            /\ specs' = [specs EXCEPT ![k] = want]
            /\ asked' = [asked EXCEPT ![k] = {Key(r) : r \in want}]
            /\ fresh' = [fresh EXCEPT ![k] = Present]
  /\ UNCHANGED <<configVars, sourceVars, daemonVars, parent, router, errors, unserved, sessionVars>>

\* The daemon takes the request and builds the context providers, dropping
\* those it cannot build; or it answers 503.
Post(k) ==
  /\ bind[k] = "asked"
  /\ IF daemon = "ready"
     THEN /\ bind' = [bind EXCEPT ![k] = "building"]
          /\ providers' = [providers EXCEPT ![k] =
               [p \in {q \in Providers : Builds(q, source[q], Connected)} |-> Held(p, source[p])]]
          /\ UNCHANGED <<specs, fresh>>
     ELSE /\ bind' = [bind EXCEPT ![k] = "refused"]
          /\ specs' = [specs EXCEPT ![k] = {}]
          /\ fresh' = [fresh EXCEPT ![k] = {}]
          /\ UNCHANGED providers
  /\ UNCHANGED <<configVars, source, daemonVars, parent, router, errors, unserved, asked, sessionVars>>

Drop(k, row) ==
  /\ errors' = [errors EXCEPT ![k] = @ \cup {Key(row)}]
  /\ router' = router

\* Deviation: the leakage of the recipe is judged without its sub-recipes.
Admit_ParentOnly(k, row, text, read) ==
  IF requireBounded /\ Unbounded(Policy(text, read), row.gate)
       /\ (text.loose \/ text.passes # {})
  THEN Drop(k, row)
  ELSE /\ router' = [router EXCEPT ![k] =
            [key \in (DOMAIN router[k]) \cup {Key(row)} |->
               IF key = Key(row) THEN [gate |-> row.gate, policy |-> Policy(text, read)]
               ELSE router[k][key]]]
       /\ errors' = errors

\* BuildStrict: the composed recipe is bound unless strict mode refuses it.
Admit(k, row, text, read) ==
  IF requireBounded /\ Unbounded(Policy(text, read), row.gate) THEN Drop(k, row)
  ELSE /\ router' = [router EXCEPT ![k] =
            [key \in (DOMAIN router[k]) \cup {Key(row)} |->
               IF key = Key(row) THEN [gate |-> row.gate, policy |-> Policy(text, read)]
               ELSE router[k][key]]]
       /\ errors' = errors

Building(k) == bind[k] = "building"

\* Deviation: recipes are cached when the daemon starts.
LoadRecipe_Cached(k, row) ==
  /\ Building(k) /\ parent[k] = None /\ row \in specs[k]
  /\ specs' = [specs EXCEPT ![k] = @ \ {row}]
  /\ LET text == FirstFiles[row.recipe] IN
     IF ~Composes(text, FirstFiles) THEN Drop(k, row) ELSE Admit(k, row, text, FirstFiles)
  /\ UNCHANGED <<configVars, sourceVars, daemonVars, bind, parent, unserved, asked, fresh, sessionVars>>

\* The recipe of the next row is read; one that calls others waits for them.
LoadRecipe(k, row) ==
  /\ Building(k) /\ parent[k] = None /\ row \in specs[k]
  /\ specs' = [specs EXCEPT ![k] = @ \ {row}]
  /\ LET text == files[row.recipe] IN
     IF ~Parses(text) THEN Drop(k, row) /\ parent' = parent
     ELSE IF text.calls = {} THEN Admit(k, row, text, files) /\ parent' = parent
     ELSE /\ parent' = [parent EXCEPT ![k] = [row |-> row, text |-> text]]
          /\ UNCHANGED <<router, errors>>
  /\ UNCHANGED <<configVars, sourceVars, daemonVars, bind, unserved, asked, fresh, sessionVars>>

\* The sub-recipes are read.
LoadCalled(k) ==
  /\ Building(k) /\ parent[k] # None
  /\ parent' = [parent EXCEPT ![k] = None]
  /\ IF Composes(parent[k].text, files)
     THEN Admit(k, parent[k].row, parent[k].text, files)
     ELSE Drop(k, parent[k].row)
  /\ UNCHANGED <<configVars, sourceVars, daemonVars, bind, specs, unserved, asked, fresh, sessionVars>>

\* Fleet.Lookup.
Served(key) == key[1] \in Connected /\ fleet[key[1]][key[2]] # Absent

\* Deviation: a route no server serves is dropped without a word.
Register_Silent(k) ==
  /\ Building(k) /\ specs[k] = {} /\ parent[k] = None
  /\ LET kept == {key \in DOMAIN router[k] : Served(key)} IN
     /\ router' = [router EXCEPT ![k] = Restrict(@, kept)]
     /\ UNCHANGED <<errors, unserved>>
     /\ bind' = [bind EXCEPT ![k] = IF kept = {} THEN "refused" ELSE "bound"]
  /\ fresh' = [fresh EXCEPT ![k] = {}]
  /\ UNCHANGED <<configVars, sourceVars, daemonVars, specs, parent, asked, sessionVars>>

\* Create: routes no connected server serves are dropped; what is left is
\* registered under a fresh token, with one budget, and the answer has a line
\* for each route that was dropped.
Register(k) ==
  /\ Building(k) /\ specs[k] = {} /\ parent[k] = None
  /\ LET kept == {key \in DOMAIN router[k] : Served(key)} IN
     /\ router' = [router EXCEPT ![k] = Restrict(@, kept)]
     /\ errors' = [errors EXCEPT ![k] = @ \cup (DOMAIN router[k] \ kept)]
     /\ unserved' = [unserved EXCEPT ![k] = DOMAIN router[k] \ kept]
     /\ bind' = [bind EXCEPT ![k] = IF kept = {} THEN "refused" ELSE "bound"]
  /\ fresh' = [fresh EXCEPT ![k] = {}]
  /\ UNCHANGED <<configVars, sourceVars, daemonVars, specs, parent, asked, sessionVars>>

-----------------------------------------------------------------------------
(* The agent.                                                              *)

\* Deviation: each MCP session has a budget of its own.
Open_NewBudget(k) ==
  /\ bind[k] = "bound" /\ opens[k] < MaxOpens
  /\ opens' = [opens EXCEPT ![k] = @ + 1]
  /\ spent' = [spent EXCEPT ![k] = 0]
  /\ UNCHANGED <<configVars, sourceVars, daemonVars, bindVars, fresh, calls, crossings, leaves, silent, readVars>>

\* An MCP session: a new gating server over the router and the budget of the
\* token.
Open(k) ==
  /\ bind[k] = "bound" /\ opens[k] < MaxOpens
  /\ opens' = [opens EXCEPT ![k] = @ + 1]
  /\ UNCHANGED <<configVars, sourceVars, daemonVars, bindVars, fresh, calls, callVars, readVars>>

Covered(entry) == entry.gate \cup entry.policy.passes

\* NewGatingServer: a tool is offered if its schema has no argument the policy
\* does not account for.  A schema that cannot be read has no arguments.
Offered(k) ==
  {key \in DOMAIN router[k] :
     /\ Served(key)
     /\ LET decl == fleet[key[1]][key[2]]
        IN  decl # Opaque => decl \subseteq Covered(router[k][key])}

Calling(k) ==
  /\ bind[k] = "bound" /\ opens[k] > 0 /\ calls[k] < MaxCalls
  /\ calls' = [calls EXCEPT ![k] = @ + 1]
  /\ UNCHANGED <<configVars, sourceVars, daemonVars, bindVars, fresh, opens>>

Leaf(k) == leaves' = [leaves EXCEPT ![k] = @ + 1]

\* recordUnrouted: a tool that is not routed is refused and recorded.
CallUnrouted(k, key) ==
  /\ Calling(k) /\ key \notin DOMAIN router[k]
  /\ Leaf(k)
  /\ UNCHANGED <<spent, crossings, silent, readVars>>

\* A tool that is routed but not offered: the middleware passes the call on,
\* and the SDK answers that there is no such tool.
CallUnoffered(k, key) ==
  /\ Calling(k) /\ key \in DOMAIN router[k] \ Offered(k)
  /\ silent' = silent \cup {<<k, key>>}
  /\ UNCHANGED <<spent, crossings, leaves, readVars>>

Exhausted(k) == Limit > 0 /\ spent[k] >= Limit

\* The budget is used up, an argument is not accounted for or missing, or the
\* recipe does not allow the call.
CallRefused(k, key) ==
  /\ Calling(k) /\ key \in Offered(k)
  /\ Leaf(k)
  /\ UNCHANGED <<spent, crossings, silent, readVars>>

\* The call may be cleared: every gated argument is there to be judged, and
\* every argument is accounted for.
Clears(k, key, sent) ==
  /\ ~Exhausted(k)
  /\ router[k][key].gate \subseteq sent
  /\ sent \subseteq Covered(router[k][key])

CallForwarded(k, key, sent) ==
  /\ Calling(k) /\ key \in Offered(k) /\ Clears(k, key, sent)
  /\ spent' = [spent EXCEPT ![k] = IF Limit > 0 THEN @ + 1 ELSE @]
  /\ crossings' = crossings \cup {[session |-> k, nth |-> calls[k], key |-> key, sent |-> sent,
                                  entry |-> router[k][key]]}
  /\ Leaf(k)
  /\ UNCHANGED <<silent, readVars>>

-----------------------------------------------------------------------------
(* Reads.                                                                  *)

\* The leaf of the read is appended, which may fail without a word; the agent
\* gets what there is of the source, or the words of the gate.
Answer(k, name, contents, q, failed) ==
  /\ \E logged \in {TRUE, ~ReadLogFails} :
       /\ readLog' = IF logged THEN readLog \cup {ReadLeaf(k, calls[k], name, q, contents, failed)}
                     ELSE readLog
       /\ served' = served \cup {[session |-> k, name |-> name, nth |-> calls[k],
                                  contents |-> OrPlaceholder(contents), logged |-> logged]}
  /\ UNCHANGED callVars

\* contextHandler: the read is recorded, then answered.
ReadContext(k, p, q) ==
  /\ Calling(k) /\ p \in DOMAIN providers[k]
  /\ Answer(k, p, ServedBy(p, providers[k][p], source[p]), q, ProvideFails(p, source[p]))

\* downstreamResourceHandler: the resources of every connected server; a server
\* that never answers is waited for.
ReadResource(k, s) ==
  /\ Calling(k) /\ s \in Connected /\ Resources[s] # {} /\ live[s] # Mute
  /\ Answer(k, s, IF live[s] = Down THEN {} ELSE ServedResource(Resources[s]), 0, live[s] = Down)

\* What a source holds changes.
Change(p) ==
  /\ shifts < MaxShifts /\ shifts' = shifts + 1
  /\ \E now \in Sources \ {source[p]} : source' = [source EXCEPT ![p] = now]
  /\ UNCHANGED <<files, servers, routes, live, task, edits>>
  /\ UNCHANGED <<daemonVars, bindVars, fresh, providers, sessionVars>>

-----------------------------------------------------------------------------

Daemon == ListFleet \/ (\E s \in Servers : Connect(s)) \/ FleetDone

Bind(k) == Post(k) \/ (\E row \in specs[k] : LoadRecipe(k, row)) \/ LoadCalled(k) \/ Register(k)

Agent(k) ==
  \/ Open(k)
  \/ \E key \in Keys : \/ CallUnrouted(k, key) \/ CallUnoffered(k, key) \/ CallRefused(k, key)
                       \/ \E sent \in SUBSET Args : CallForwarded(k, key, sent)
  \/ \E p \in Providers, q \in Queries : ReadContext(k, p, q)
  \/ \E s \in Servers : ReadResource(k, s)

\* What operators write while k is being bound is fresh for k.
Config ==
  /\ ConfigStep
  /\ fresh' = [k \in Sessions |-> IF bind[k] \in {"asked", "building"}
                                  THEN fresh[k] \cup Present' ELSE fresh[k]]
  /\ UNCHANGED <<sourceVars, daemonVars, bindVars, sessionVars>>

Next ==
  \/ Config \/ (\E p \in Providers : Change(p))
  \/ Daemon \/ Restart
  \/ \E k \in Sessions : Ask(k) \/ Bind(k) \/ Agent(k)

Spec == Init /\ [][Next]_vars

\* The daemon keeps trying to connect, and a request that was made is served.
\* Nothing is asked of the servers: while one does not answer, Connect is not
\* enabled, and the daemon owes nothing.
FairSpec ==
  /\ Spec
  /\ WF_vars(Daemon)
  /\ \A k \in Sessions : WF_vars(Bind(k))
  /\ \A a \in Admins : WF_vars(Config /\ Commit(a))

-----------------------------------------------------------------------------
(* Properties.                                                             *)

\* A session is governed by the configuration of the time it was bound: each
\* of its routes, and each recipe and sub-recipe it was composed from, was
\* stored in full at some moment between the dispatcher's request and the
\* daemon's answer, whatever operators were writing (sessiond.go:70-110,
\* router.go:58-113, recipestore.go:155-172).
FreshAtBind ==
  [][\A k \in Sessions : bind[k] = "building" /\ bind'[k] = "bound" =>
       \A key \in DOMAIN router'[k] :
         /\ router'[k][key].policy.parts \subseteq fresh[k]
         /\ \E n \in Names : [server |-> key[1], tool |-> key[2], recipe |-> n,
                             gate |-> router'[k][key].gate] \in fresh[k]]_vars

\* Every argument of a call that is forwarded was judged by a rule or declared
\* as passed through in a recipe of the route, whatever the tool declared when
\* the route was written; and with -require-bounded none was passed through,
\* and of several judged ones each has a rule (routes.go:82-110, router.go:
\* 71-96, proxy.go:348-379).
EveryArgumentAccounted ==
  \A x \in crossings :
    LET passes == UNION {p.passes : p \in x.entry.policy.parts} IN
    /\ x.sent \subseteq x.entry.gate \cup passes
    /\ requireBounded =>
         /\ passes = {} /\ \A p \in x.entry.policy.parts : ~p.loose
         /\ Cardinality(x.sent) > 1 =>
              \A arg \in x.sent : \E p \in x.entry.policy.parts : arg \in p.constrains

\* Opening new MCP sessions with a token does not renew its crossing budget
\* (sessiond.go:44-51).
CapOverReconnects ==
  Limit > 0 => \A k \in Sessions : Cardinality({x \in crossings : x.session = k}) <= Limit

\* routeErrView: a line of the answer.  It has the tool and a text; the server
\* is in the texts of the fleet alone.
Line(k, key) ==
  IF key \in unserved[k] THEN [tool |-> key[2], server |-> key[1]] ELSE [tool |-> key[2]]

\* How often the answer names each tool.
Notice ==
  [k \in Sessions |->
     [t \in Tools |-> IF bind[k] = "bound" THEN Cardinality({key \in errors[k] : Line(k, key).tool = t})
                      ELSE 0]]

\* A partial binding says so: the answer names each tool as often as routes of
\* it that the dispatcher asked for were dropped (sessiond.go:218-227, 257-263).
PartialIsTold ==
  \A k \in Sessions : bind[k] = "bound" =>
    \A t \in Tools :
      Notice[k][t] = Cardinality({key \in asked[k] \ DOMAIN router[k] : key[2] = t})

\* A session as the dispatcher and the agent see it: what the daemon is still
\* building is a request, and there is a contract once it is bound.
Standing ==
  [k \in Sessions |-> CASE bind[k] = "building" -> "asked"
                       [] bind[k] = "lost" -> "over"
                       [] OTHER -> bind[k]]
Agreed ==
  [k \in Sessions |->
     [key \in {x \in DOMAIN router[k] : bind[k] = "bound"} |->
        [judged |-> router[k][key].gate, passed |-> router[k][key].policy.passes]]]
Forwarded == [k \in Sessions |-> Cardinality({x \in crossings : x.session = k})]

Promise == INSTANCE Contract WITH
  Routes <- Keys, ToolOf <- [key \in Keys |-> key[2]], Cap <- Limit, strict <- requireBounded,
  state <- Standing, terms <- Agreed, told <- Notice, used <- Forwarded

\* A session, once bound, is a contract.  The answer says of each tool how many
\* of the routes asked for are not to be had; from then on no edit of a recipe,
\* a route or a server changes what may be called with which arguments; calls
\* are forwarded under it alone and within one budget, however often the agent
\* connects; it ends with the daemon (sessiond.go:44-110, 218-227, 257-263,
\* router.go:58-113, proxy.go:348-379).
ImplementsContract == Promise!Spec

\* If from some time on a server stays registered, enabled and up, and no server
\* leaves a request without an answer, the daemon becomes and stays ready,
\* whether the other servers can be reached or not (main.go, awaitFleet).
StaysUp(s) ==
  <>[](s \in DOMAIN servers /\ servers[s].enabled /\ live[s] \notin {Down, Mute})

GateComesUp ==
  (\E s \in Servers : StaysUp(s)) /\ (\A s \in Servers : <>[](live[s] # Mute))
    => <>[](daemon = "ready")

\* What the agent reads is labelled untrusted, whatever a source claims for its
\* texts, and each text of a source is framed as well, but for binary content;
\* the words of the gate stand alone.  If the append of the leaf succeeds, the
\* log has it; and any leaf there is of the read attests all that was served of
\* the source and nothing else, binary content as the empty text, and holds no
\* more of the query than the bound (mcpgate.go:141-289, provider.go:79-138,
\* main.go:48-52).
ReadsAreAttested ==
  \A r \in served :
    LET attesting == {leaf \in readLog : leaf.session = r.session /\ leaf.nth = r.nth} IN
    /\ \A c \in r.contents : c.trust = "untrusted" /\ (c.text \in Texts \ Binary => c.framed)
    /\ Placeholder \in r.contents => r.contents = {Placeholder}
    /\ r.logged => attesting # {}
    /\ \A leaf \in attesting :
         /\ leaf.name = r.name /\ leaf.query <= MaxQueryLen
         /\ leaf.hashes = Attested(r.contents \ {Placeholder})

\* A bundle is served as it was when the session was bound: two reads of it in
\* one session give the same texts, whatever happens to its files
\* (provider.go:202-231).
BundlesAreVerbatim ==
  \A r, q \in served :
    r.session = q.session /\ r.name = q.name /\ r.name \in Providers /\ Kind[r.name] = "static"
      => r.contents = q.contents

-----------------------------------------------------------------------------
(* What comments say and the code does not keep.                           *)

\* A call of a tool the agent was not offered is recorded, not silently answered
\* (mcpgate.go:55-56, 62-63, 187).
EveryCallRecorded == silent = {}

\* One broken server does not take down the tools of the others: one that stays
\* registered, enabled and up is enough (main.go:229-231).
OneServerSuffices == (\E s \in Servers : StaysUp(s)) => <>[](daemon = "ready")

\* Where two servers have the tool of a route that was dropped, the answer says
\* whose route it was (router.go:25-29).
NoticeIdentifies ==
  \A k \in Sessions : bind[k] = "bound" =>
    \A key \in errors[k] : (\E other \in DOMAIN router[k] : other[2] = key[2])
      => "server" \in DOMAIN Line(k, key)

=============================================================================
