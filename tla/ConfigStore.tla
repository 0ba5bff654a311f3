---------------------------- MODULE ConfigStore ----------------------------
(***************************************************************************)
(* What operators configure and the gate reads: the recipe files           *)
(* (stag/recipestore), the MCP servers and the routes of the config        *)
(* database (stag/store), and the admin API that edits them                *)
(* (stag/serve/routes.go, mcpservers.go, recipes.go).                      *)
(*                                                                         *)
(* A recipe is known by what a binding asks of it: its name, the           *)
(* sub-recipes it calls, the arguments it passes through, whether its own  *)
(* steps release something no rule bounds, and the arguments its rules     *)
(* constrain.  A tool is known by the arguments its schema declares.       *)
(*                                                                         *)
(* A step is a stretch of a handler with one access to the database, one   *)
(* write to a recipe file or one visit to a server.                        *)
(***************************************************************************)
EXTENDS Naturals, FiniteSets, Functions

CONSTANTS
  Servers, Tools, Args,
  Names,      \* names of recipes
  Recipes,    \* the recipes operators ever write
  Missing,    \* no such file
  Torn,       \* a file that is being written does not parse
  Absent,     \* the server does not expose the tool
  Opaque,     \* the schema of the tool cannot be read
  Down,       \* the server cannot be reached
  Mute,       \* the server accepts a connection and never answers
  Admins,     \* the operators
  FirstFiles, FirstServers, FirstRoutes, \* the configuration at the start
  FirstLive,  \* what the servers expose at the start
  Surfaces,   \* what a server may expose while the system runs, Down or Mute
  NewRows,    \* the routes operators may put
  MaxEdits,   \* bound on the requests
  MaxShifts   \* bound on the changes of what the servers expose

Recipe == [name : Names, calls : SUBSET Names, passes : SUBSET Args,
           loose : BOOLEAN, constrains : SUBSET Args, version : Nat]

Decl    == (SUBSET Args) \cup {Absent, Opaque}
Surface == [Tools -> Decl]
Nothing == [t \in Tools |-> Absent]
Keys    == Servers \X Tools
Row     == [server : Servers, tool : Tools, recipe : Names, gate : SUBSET Args]

SameKey(r, q) == r.server = q.server /\ r.tool = q.tool

\* A server and tool have one row.
Keyed(rows) == \A r, q \in rows : SameKey(r, q) => r = q

IsServerTable(srv) ==
  DOMAIN srv \subseteq Servers /\ srv \in [DOMAIN srv -> [tools : Surface, enabled : BOOLEAN]]

ASSUME ConfigAssumption ==
  /\ Recipes \subseteq Recipe
  /\ NewRows \subseteq Row
  /\ Surfaces \subseteq Surface \cup {Down, Mute}
  /\ MaxEdits \in Nat /\ MaxShifts \in Nat

\* What operators have stored when the daemon first starts.
ASSUME FirstAssumption ==
  /\ FirstFiles \in [Names -> Recipes \cup {Missing, Torn}]
  /\ IsServerTable(FirstServers)
  /\ FirstRoutes \subseteq Row /\ Keyed(FirstRoutes)
  /\ FirstLive \in [Servers -> Surface \cup {Down, Mute}]

VARIABLES
  files,    \* the recipe files
  servers,  \* the registered servers: the tools that were discovered, enabled
  routes,   \* the route table: a set of rows, one for a server and tool
  live,     \* what each server exposes at this moment
  task,     \* task[a]: the request of operator a under way
  edits, shifts

configVars == <<files, servers, routes, live, task, edits, shifts>>

Idle == [op |-> "idle"]

Task ==
  {Idle} \cup [op : {"saving"}, text : Recipes] \cup [op : {"routing"}, row : NewRows]
         \cup [op : {"discovering"}, server : Servers, enabled : BOOLEAN, tools : Surface]

ConfigTypeOK ==
  /\ files \in [Names -> Recipes \cup {Missing, Torn}]
  /\ IsServerTable(servers)
  /\ routes \subseteq Row /\ Keyed(routes)
  /\ live \in [Servers -> Surface \cup {Down, Mute}]
  /\ task \in [Admins -> Task]
  /\ edits \in 0 .. MaxEdits /\ shifts \in 0 .. MaxShifts

ConfigInit ==
  /\ files = FirstFiles
  /\ servers = FirstServers
  /\ routes = FirstRoutes
  /\ live = FirstLive
  /\ task = [a \in Admins |-> Idle]
  /\ edits = 0 /\ shifts = 0

-----------------------------------------------------------------------------
(* Composition, as a binding sees it (recipe.Compose).                     *)

Parses(text) == text \notin {Missing, Torn}

\* Compose: a sub-recipe is another recipe that parses and calls none itself.
Composes(text, read) ==
  /\ Parses(text)
  /\ \A c \in text.calls : c # text.name /\ Parses(read[c]) /\ read[c].calls = {}

\* The policy a recipe stands for, with the sub-recipes that were read for it.
\* The slots of a sub-recipe are renamed, so it constrains no argument.
Policy(text, read) ==
  LET parts == {text} \cup {read[c] : c \in text.calls}
  IN  [parts      |-> parts,
       passes     |-> UNION {p.passes : p \in parts},
       loose      |-> \E p \in parts : p.loose,
       constrains |-> text.constrains]

\* RouteFreeText: of several gated arguments, those no rule constrains.
FreeText(policy, gate) == IF Cardinality(gate) > 1 THEN gate \ policy.constrains ELSE {}

\* A route whose calls may carry anything.
Unbounded(policy, gate) ==
  policy.passes # {} \/ policy.loose \/ FreeText(policy, gate) # {}

-----------------------------------------------------------------------------
(* The recipe store.                                                       *)

Start(a) == task[a] = Idle /\ edits < MaxEdits /\ edits' = edits + 1

\* Save: the draft is validated against the files, then os.WriteFile opens the
\* file and empties it ...
SaveRecipe(a, text) ==
  /\ Start(a)
  /\ IF Composes(text, files)
     THEN /\ files' = [files EXCEPT ![text.name] = Torn]
          /\ task' = [task EXCEPT ![a] = [op |-> "saving", text |-> text]]
     ELSE UNCHANGED <<files, task>>
  /\ UNCHANGED <<servers, routes, live, shifts>>

Saving(a, n) == task[a].op = "saving" /\ task[a].text.name = n

\* What the file may hold once a has written its text from the start of it.  If
\* another operator saves the recipe too, one text may be followed by the rest
\* of the other, which does not parse or does as some recipe.  If the file was
\* deleted, what a writes is gone with it, though there may be a new file.
Written(a) ==
  LET text == task[a].text IN
  IF files[text.name] = Missing THEN {Missing}
  ELSE IF files[text.name] = Torn /\ \A o \in Admins \ {a} : ~Saving(o, text.name) THEN {text}
  ELSE {files[text.name], Torn} \cup {r \in Recipes : r.name = text.name}

\* ... and writes it.
WriteRecipe(a) ==
  /\ task[a].op = "saving"
  /\ \E now \in Written(a) : files' = [files EXCEPT ![task[a].text.name] = now]
  /\ task' = [task EXCEPT ![a] = Idle]
  /\ UNCHANGED <<servers, routes, live, edits, shifts>>

DeleteRecipe(a, n) ==
  /\ Start(a)
  /\ files' = [files EXCEPT ![n] = Missing]
  /\ UNCHANGED <<servers, routes, live, task, shifts>>

-----------------------------------------------------------------------------
(* Servers.                                                                *)

\* handleMCPPut: the server is asked for its tools first; one that cannot be
\* reached is stored without tools, one that never answers holds the request up.
DiscoverServer(a, s, on) ==
  /\ Start(a) /\ live[s] # Mute
  /\ task' = [task EXCEPT ![a] = [op |-> "discovering", server |-> s, enabled |-> on,
                                  tools |-> IF live[s] = Down THEN Nothing ELSE live[s]]]
  /\ UNCHANGED <<files, servers, routes, live, shifts>>

\* PutMCPServer: one transaction replaces the row and its tools.
PutServer(a) ==
  /\ task[a].op = "discovering"
  /\ servers' = [s \in (DOMAIN servers) \cup {task[a].server} |->
                   IF s = task[a].server
                   THEN [tools |-> task[a].tools, enabled |-> task[a].enabled]
                   ELSE servers[s]]
  /\ task' = [task EXCEPT ![a] = Idle]
  /\ UNCHANGED <<files, routes, live, edits, shifts>>

\* The routes that name the server stay.
DeleteServer(a, s) ==
  /\ Start(a)
  /\ servers' = Restrict(servers, (DOMAIN servers) \ {s})
  /\ UNCHANGED <<files, routes, live, task, shifts>>

-----------------------------------------------------------------------------
(* Routes.                                                                 *)

Discovered(srv) == {t \in Tools : srv.tools[t] # Absent}

\* What handleRoutePut asks of a route: its server is registered and exposes
\* the tool, as far as that is known; and only a tool that is known to take no
\* arguments may go without a gated one.
RouteAllowed(row) ==
  /\ row.server \in DOMAIN servers
  /\ LET srv == servers[row.server] IN
     /\ Discovered(srv) # {} => row.tool \in Discovered(srv)
     /\ row.gate = {} => srv.tools[row.tool] = {}

CheckRoute(a, row) ==
  /\ Start(a)
  /\ RouteAllowed(row)
  /\ task' = [task EXCEPT ![a] = [op |-> "routing", row |-> row]]
  /\ UNCHANGED <<files, servers, routes, live, shifts>>

\* PutRoute: an upsert.
PutRoute(a) ==
  /\ task[a].op = "routing"
  /\ routes' = {r \in routes : ~SameKey(r, task[a].row)} \cup {task[a].row}
  /\ task' = [task EXCEPT ![a] = Idle]
  /\ UNCHANGED <<files, servers, live, edits, shifts>>

DeleteRoute(a, key) ==
  /\ Start(a)
  /\ routes' = {r \in routes : <<r.server, r.tool>> # key}
  /\ UNCHANGED <<files, servers, live, task, shifts>>

\* handleRouteList: the rows, and of each whether its recipe composes now.
ValidRows == {r \in routes : Composes(files[r.recipe], files)}

-----------------------------------------------------------------------------

\* A server is redeployed, goes down, hangs or comes up.
Shift(s) ==
  /\ shifts < MaxShifts /\ shifts' = shifts + 1
  /\ \E now \in Surfaces \ {live[s]} : live' = [live EXCEPT ![s] = now]
  /\ UNCHANGED <<files, servers, routes, task, edits>>

Edit(a) ==
  \/ \E text \in Recipes : SaveRecipe(a, text)
  \/ \E n \in Names : DeleteRecipe(a, n)
  \/ \E s \in Servers, on \in BOOLEAN : DiscoverServer(a, s, on)
  \/ \E s \in Servers : DeleteServer(a, s)
  \/ \E row \in NewRows : CheckRoute(a, row)
  \/ \E key \in Keys : DeleteRoute(a, key)

Commit(a) == WriteRecipe(a) \/ PutServer(a) \/ PutRoute(a)

ConfigStep == (\E a \in Admins : Edit(a) \/ Commit(a)) \/ \E s \in Servers : Shift(s)

=============================================================================
