--------------------------- MODULE BindingProofs ---------------------------
(***************************************************************************)
(* Proofs about Binding for every configuration, every sequence of edits,  *)
(* any number of sessions, servers and providers, and every limit.         *)
(***************************************************************************)
EXTENDS Binding, FiniteSetTheorems, TLAPS

-----------------------------------------------------------------------------
(* Types.                                                                  *)

\* A request under way has the fields of its kind.
LEMMA TaskFields ==
  ASSUME ConfigTypeOK, NEW a \in Admins
  PROVE  /\ task[a].op = "saving" => task[a].text \in Recipes
         /\ task[a].op = "routing" => task[a].row \in NewRows
         /\ task[a].op = "discovering" =>
              /\ task[a].server \in Servers /\ task[a].enabled \in BOOLEAN
              /\ task[a].tools \in Surface
  BY DEF ConfigTypeOK, Task, Idle

\* A change of the server table that keeps it one.
LEMMA TableWith ==
  ASSUME NEW srv, IsServerTable(srv), NEW s \in Servers,
         NEW row \in [tools : Surface, enabled : BOOLEAN]
  PROVE  IsServerTable([u \in (DOMAIN srv) \cup {s} |-> IF u = s THEN row ELSE srv[u]])
  BY DEF IsServerTable

LEMMA TableWithout ==
  ASSUME NEW srv, IsServerTable(srv), NEW S
  PROVE  IsServerTable(Restrict(srv, (DOMAIN srv) \ S))
  BY DEF IsServerTable, Restrict

LEMMA EditTypeOK ==
  ASSUME ConfigTypeOK, NEW a \in Admins, Edit(a)
  PROVE  ConfigTypeOK'
<1> USE ConfigAssumption DEF ConfigTypeOK, Start
<1>1. CASE \E text \in Recipes : SaveRecipe(a, text)
  <2>1. PICK text \in Recipes : SaveRecipe(a, text)
    BY <1>1
  <2>2. text.name \in Names
    BY DEF Recipe
  <2>3. [op |-> "saving", text |-> text] \in Task
    BY DEF Task
  <2> QED
    BY <2>1, <2>2, <2>3 DEF SaveRecipe
<1>2. CASE \E n \in Names : DeleteRecipe(a, n)
  BY <1>2 DEF DeleteRecipe
<1>3. CASE \E s \in Servers, on \in BOOLEAN : DiscoverServer(a, s, on)
  <2>1. PICK s \in Servers, on \in BOOLEAN : DiscoverServer(a, s, on)
    BY <1>3
  <2>2. Nothing \in Surface
    BY DEF Nothing, Surface, Decl
  <2>3. (IF live[s] = Down THEN Nothing ELSE live[s]) \in Surface
    BY <2>1, <2>2 DEF DiscoverServer
  <2>5. [op |-> "discovering", server |-> s, enabled |-> on,
         tools |-> IF live[s] = Down THEN Nothing ELSE live[s]] \in Task
    BY <2>3 DEF Task
  <2>4. task' \in [Admins -> Task]
    BY <2>1, <2>5 DEF DiscoverServer
  <2> QED
    BY <2>1, <2>4 DEF DiscoverServer
<1>4. CASE \E s \in Servers : DeleteServer(a, s)
  <2>1. PICK s \in Servers : DeleteServer(a, s)
    BY <1>4
  <2>2. IsServerTable(servers')
    BY <2>1, TableWithout DEF DeleteServer
  <2> QED
    BY <2>1, <2>2 DEF DeleteServer
<1>5. CASE \E row \in NewRows : CheckRoute(a, row)
  <2>1. PICK row \in NewRows : CheckRoute(a, row)
    BY <1>5
  <2>2. [op |-> "routing", row |-> row] \in Task
    BY DEF Task
  <2> QED
    BY <2>1, <2>2 DEF CheckRoute
<1>6. CASE \E key \in Keys : DeleteRoute(a, key)
  <2>1. routes' \subseteq routes
    BY <1>6 DEF DeleteRoute
  <2>2. Keyed(routes')
    BY <2>1 DEF Keyed
  <2> QED
    BY <1>6, <2>1, <2>2 DEF DeleteRoute
<1> QED
  BY <1>1, <1>2, <1>3, <1>4, <1>5, <1>6 DEF Edit

LEMMA CommitTypeOK ==
  ASSUME ConfigTypeOK, NEW a \in Admins, Commit(a)
  PROVE  ConfigTypeOK'
<1> USE ConfigAssumption DEF ConfigTypeOK
<1>1. Idle \in Task
  BY DEF Task
<1>2. CASE WriteRecipe(a)
  <2>1. task[a].text \in Recipes
    BY <1>2, TaskFields DEF WriteRecipe
  <2>2. task[a].text.name \in Names
    BY <2>1 DEF Recipe
  <2>3. PICK now \in Written(a) : files' = [files EXCEPT ![task[a].text.name] = now]
    BY <1>2 DEF WriteRecipe
  <2>4. now \in Recipes \cup {Missing, Torn}
    BY <2>1, <2>2 DEF Written
  <2>5. files' \in [Names -> Recipes \cup {Missing, Torn}]
    BY <2>2, <2>3, <2>4
  <2> QED
    BY <1>1, <1>2, <2>5 DEF WriteRecipe
<1>3. CASE PutServer(a)
  <2>1. /\ task[a].server \in Servers
        /\ [tools |-> task[a].tools, enabled |-> task[a].enabled]
             \in [tools : Surface, enabled : BOOLEAN]
    BY <1>3, TaskFields DEF PutServer
  <2>2. IsServerTable(servers')
    <3> DEFINE s   == task[a].server
               row == [tools |-> task[a].tools, enabled |-> task[a].enabled]
    <3>1. servers' = [u \in (DOMAIN servers) \cup {s} |-> IF u = s THEN row ELSE servers[u]]
      BY <1>3 DEF PutServer
    <3> HIDE DEF s, row
    <3> QED
      BY <2>1, <3>1, TableWith DEF s, row
  <2> QED
    BY <1>1, <1>3, <2>2 DEF PutServer
<1>4. CASE PutRoute(a)
  <2>1. task[a].row \in Row
    BY <1>4, TaskFields DEF PutRoute
  <2>2. routes' \subseteq Row
    BY <1>4, <2>1 DEF PutRoute
  <2>3. Keyed(routes')
    <3>1. ASSUME NEW r \in routes', NEW q \in routes', SameKey(r, q)
          PROVE  r = q
      <4>1. CASE r = task[a].row \/ q = task[a].row
        BY <1>4, <3>1, <4>1 DEF PutRoute, SameKey
      <4>2. CASE r # task[a].row /\ q # task[a].row
        <5>1. r \in routes /\ q \in routes
          BY <1>4, <4>2 DEF PutRoute
        <5> QED
          BY <3>1, <5>1 DEF Keyed
      <4> QED
        BY <4>1, <4>2
    <3> QED
      BY <3>1 DEF Keyed
  <2> QED
    BY <1>1, <1>4, <2>2, <2>3 DEF PutRoute
<1> QED
  BY <1>2, <1>3, <1>4 DEF Commit

\* A server and a tool keep one row, and every stored thing its type, whatever
\* operators and servers do.
LEMMA ConfigTypeKept ==
  ASSUME ConfigTypeOK, ConfigStep \/ UNCHANGED configVars
  PROVE  ConfigTypeOK'
<1>1. CASE \E a \in Admins : Edit(a) \/ Commit(a)
  BY <1>1, EditTypeOK, CommitTypeOK
<1>2. ASSUME NEW s \in Servers, Shift(s)
      PROVE  ConfigTypeOK'
  BY <1>2, ConfigAssumption DEF ConfigTypeOK, Shift
<1>3. CASE UNCHANGED configVars
  BY <1>3 DEF configVars, ConfigTypeOK
<1> QED
  BY <1>1, <1>2, <1>3 DEF ConfigStep

LEMMA InitTypeOK == Init => TypeOK
<1> SUFFICES ASSUME Init PROVE TypeOK
  OBVIOUS
<1> USE ConfigAssumption, FirstAssumption, BindingAssumption DEF Init
<1>1. ConfigTypeOK
  BY DEF ConfigInit, ConfigTypeOK, Task
<1>2. fleet = [key \in {} |-> None] /\ Connected = {}
  BY DEF Empty, Connected
<1>3. \A k \in Sessions : DOMAIN router[k] = {} /\ DOMAIN providers[k] = {}
  BY DEF Empty
<1>4. \A k \in Sessions : /\ router[k] \in [DOMAIN router[k] -> Entry]
                         /\ providers[k] \in [DOMAIN providers[k] -> Source]
  BY DEF Empty
<1> QED
  BY <1>1, <1>2, <1>3, <1>4 DEF TypeOK, SessionInit

LEMMA DaemonTypeOK ==
  ASSUME TypeOK, Daemon
  PROVE  TypeOK'
<1>1. CASE ListFleet
  <2>1. listed' \subseteq Servers
    BY <1>1 DEF ListFleet, TypeOK, ConfigTypeOK, IsServerTable
  <2> QED
    BY <1>1, <2>1, ConfigTypeKept
    DEF ListFleet, TypeOK, Connected, bindVars, sourceVars, sessionVars, callVars, readVars
<1>2. ASSUME NEW s \in Servers, Connect(s)
      PROVE  TypeOK'
  <2>1. live[s] \in Surface \cup {Down}
    BY <1>2 DEF Connect, TypeOK, ConfigTypeOK
  <2>2. Connected' \subseteq Servers /\ \A u \in Connected' : fleet'[u] \in Surface
    BY <1>2, <2>1 DEF Connect, TypeOK, Connected
  <2> QED
    BY <1>2, <2>2, ConfigTypeKept
    DEF Connect, TypeOK, Connected, bindVars, sourceVars, sessionVars, callVars, readVars
<1>3. CASE FleetDone
  BY <1>3, ConfigTypeKept
  DEF FleetDone, TypeOK, Connected, bindVars, sourceVars, sessionVars, callVars, readVars
<1> QED
  BY <1>1, <1>2, <1>3 DEF Daemon

LEMMA RestartTypeOK ==
  ASSUME TypeOK, Restart
  PROVE  TypeOK'
<1>1. fleet' = [key \in {} |-> None] /\ Connected' = {}
  BY DEF Restart, Empty, Connected
<1>2. \A k \in Sessions : DOMAIN router'[k] = {} /\ DOMAIN providers'[k] = {}
  BY DEF Restart, Empty
<1>3. \A k \in Sessions : /\ router'[k] \in [DOMAIN router'[k] -> Entry]
                         /\ providers'[k] \in [DOMAIN providers'[k] -> Source]
  BY DEF Restart, Empty
<1>4. ConfigTypeOK'
  BY ConfigTypeKept DEF Restart, TypeOK
<1> QED
  BY <1>1, <1>2, <1>3, <1>4, BindingAssumption DEF Restart, TypeOK

\* What is read of a recipe and its sub-recipes makes an entry of the router.
LEMMA PolicyType ==
  ASSUME TypeOK, NEW text \in Recipes, Composes(text, files)
  PROVE  /\ Policy(text, files).parts \subseteq {files[n] : n \in {m \in Names : Parses(files[m])}} \cup {text}
         /\ Policy(text, files) \in [parts : SUBSET Recipes, passes : SUBSET Args, loose : BOOLEAN,
                                    constrains : SUBSET Args]
<1> DEFINE parts == {text} \cup {files[c] : c \in text.calls}
<1>1. text \in Recipe /\ text.calls \subseteq Names
  BY ConfigAssumption DEF Recipe
<1>2. \A c \in text.calls : Parses(files[c])
  BY DEF Composes
<1>3. \A c \in text.calls : files[c] \in Recipes
  BY <1>1, <1>2 DEF Parses, TypeOK, ConfigTypeOK
<1>4. parts \subseteq Recipes
  BY <1>3
<1>5. \A p \in parts : p.passes \subseteq Args
  BY <1>4, ConfigAssumption DEF Recipe
<1>6. UNION {p.passes : p \in parts} \subseteq Args
  BY <1>5
<1>7. text.constrains \subseteq Args
  BY <1>1 DEF Recipe
<1>8. parts \subseteq {files[n] : n \in {m \in Names : Parses(files[m])}} \cup {text}
  BY <1>1, <1>2
<1> HIDE DEF parts
<1>9. Policy(text, files) = [parts |-> parts, passes |-> UNION {p.passes : p \in parts},
                             loose |-> \E p \in parts : p.loose, constrains |-> text.constrains]
  BY DEF Policy, parts
<1> QED
  BY <1>4, <1>6, <1>7, <1>8, <1>9

\* What becomes of a row keeps the router and the reported keys typed.
LEMMA AdmitType ==
  ASSUME TypeOK, NEW k \in Sessions, NEW row \in Row, NEW text \in Recipes,
         Composes(text, files), Admit(k, row, text, files) \/ Drop(k, row)
  PROVE  /\ DOMAIN router' = Sessions
         /\ \A l \in Sessions : DOMAIN router'[l] \subseteq Keys /\ router'[l] \in [DOMAIN router'[l] -> Entry]
         /\ errors' \in [Sessions -> SUBSET Keys]
<1>1. Key(row) \in Keys
  BY DEF Key, Keys, Row
<1>2. CASE Drop(k, row)
  BY <1>1, <1>2 DEF Drop, TypeOK
<1>3. CASE Admit(k, row, text, files) /\ ~Drop(k, row)
  <2> DEFINE e == [gate |-> row.gate, policy |-> Policy(text, files)]
             now == [key \in (DOMAIN router[k]) \cup {Key(row)} |->
                       IF key = Key(row) THEN e ELSE router[k][key]]
  <2>1. e \in Entry
    BY PolicyType DEF Entry, Row
  <2>2. router' = [router EXCEPT ![k] = now] /\ errors' = errors
    BY <1>3 DEF Admit
  <2> HIDE DEF e
  <2>3. DOMAIN now \subseteq Keys /\ now \in [DOMAIN now -> Entry]
    BY <1>1, <2>1 DEF TypeOK
  <2> HIDE DEF now
  <2> QED
    BY <2>2, <2>3 DEF TypeOK
<1> QED
  BY <1>2, <1>3

LEMMA DropType ==
  ASSUME TypeOK, NEW k \in Sessions, NEW row \in Row, Drop(k, row)
  PROVE  /\ DOMAIN router' = Sessions
         /\ \A l \in Sessions : DOMAIN router'[l] \subseteq Keys /\ router'[l] \in [DOMAIN router'[l] -> Entry]
         /\ errors' \in [Sessions -> SUBSET Keys]
<1>1. Key(row) \in Keys
  BY DEF Key, Keys, Row
<1> QED
  BY <1>1 DEF Drop, TypeOK

LEMMA BindTypeOK ==
  ASSUME TypeOK, NEW k \in Sessions, Bind(k)
  PROVE  TypeOK'
<1> USE DEF daemonVars, fleetVars, sessionVars, callVars, readVars, sourceVars, Connected, Building
<1>1. CASE Post(k)
  <2>1. ConfigTypeOK'
    BY <1>1, ConfigTypeKept DEF Post, TypeOK
  <2>2. /\ DOMAIN providers' = Sessions
        /\ \A l \in Sessions : /\ DOMAIN providers'[l] \subseteq Providers
                               /\ providers'[l] \in [DOMAIN providers'[l] -> Source]
    <3> DEFINE built == [p \in {q \in Providers : Builds(q, source[q], Connected)} |-> Held(p, source[p])]
    <3>1. providers' = [providers EXCEPT ![k] = built] \/ providers' = providers
      BY <1>1 DEF Post
    <3>2. \A p \in Providers : Held(p, source[p]) \in Source
      <4>1. Nowhere \in Source
        BY DEF Nowhere, Source
      <4> QED
        BY <4>1 DEF Held, TypeOK
    <3>3. DOMAIN built \subseteq Providers /\ built \in [DOMAIN built -> Source]
      BY <3>2
    <3> HIDE DEF built
    <3> QED
      BY <3>1, <3>3 DEF TypeOK
  <2> QED
    BY <1>1, <2>1, <2>2 DEF Post, TypeOK
<1>2. ASSUME NEW row \in specs[k], LoadRecipe(k, row)
      PROVE  TypeOK'
  <2>1. ConfigTypeOK'
    BY <1>2, ConfigTypeKept DEF LoadRecipe, TypeOK
  <2>2. row \in Row /\ row.recipe \in Names
    BY <1>2 DEF TypeOK, Row
  <2> DEFINE text == files[row.recipe]
  <2>3. Parses(text) => text \in Recipes
    BY <2>2 DEF Parses, TypeOK, ConfigTypeOK
  <2>4. parent' \in [Sessions -> {None} \cup [row : Row, text : Recipes]]
    BY <1>2, <2>2, <2>3 DEF LoadRecipe, TypeOK
  <2>5. /\ DOMAIN router' = Sessions
        /\ \A l \in Sessions : DOMAIN router'[l] \subseteq Keys /\ router'[l] \in [DOMAIN router'[l] -> Entry]
        /\ errors' \in [Sessions -> SUBSET Keys]
    <3>1. CASE ~Parses(text)
      BY <1>2, <2>2, <3>1, DropType DEF LoadRecipe
    <3>2. CASE Parses(text) /\ text.calls = {}
      BY <1>2, <2>2, <2>3, <3>2, AdmitType DEF LoadRecipe, Composes
    <3>3. CASE Parses(text) /\ text.calls # {}
      BY <1>2, <3>3 DEF LoadRecipe, TypeOK
    <3> QED
      BY <3>1, <3>2, <3>3
  <2> QED
    BY <1>2, <2>1, <2>4, <2>5 DEF LoadRecipe, TypeOK
<1>3. CASE LoadCalled(k)
  <2>1. ConfigTypeOK'
    BY <1>3, ConfigTypeKept DEF LoadCalled, TypeOK
  <2>2. parent[k].row \in Row /\ parent[k].text \in Recipes
    BY <1>3 DEF LoadCalled, TypeOK
  <2>3. /\ DOMAIN router' = Sessions
        /\ \A l \in Sessions : DOMAIN router'[l] \subseteq Keys /\ router'[l] \in [DOMAIN router'[l] -> Entry]
        /\ errors' \in [Sessions -> SUBSET Keys]
    <3>1. CASE Composes(parent[k].text, files)
      BY <1>3, <2>2, <3>1, AdmitType DEF LoadCalled
    <3>2. CASE ~Composes(parent[k].text, files)
      BY <1>3, <2>2, <3>2, DropType DEF LoadCalled
    <3> QED
      BY <3>1, <3>2
  <2> QED
    BY <1>3, <2>1, <2>3 DEF LoadCalled, TypeOK
<1>4. CASE Register(k)
  <2>1. ConfigTypeOK'
    BY <1>4, ConfigTypeKept DEF Register, TypeOK
  <2> DEFINE kept == {key \in DOMAIN router[k] : Served(key)}
  <2>2. Restrict(router[k], kept) \in [kept -> Entry] /\ kept \subseteq Keys
    BY DEF Restrict, TypeOK
  <2>3. router' = [router EXCEPT ![k] = Restrict(router[k], kept)]
    BY <1>4 DEF Register, TypeOK
  <2>4. errors' = [errors EXCEPT ![k] = errors[k] \cup (DOMAIN router[k] \ kept)]
    BY <1>4 DEF Register, TypeOK
  <2>5. bind' \in [Sessions -> {"idle", "asked", "building", "bound", "refused", "lost"}]
    BY <1>4 DEF Register, TypeOK
  <2>6. fresh' \in [Sessions -> SUBSET (Recipes \cup Row)]
    BY <1>4 DEF Register, TypeOK
  <2> HIDE DEF kept
  <2>7. /\ DOMAIN router' = Sessions
        /\ \A l \in Sessions : DOMAIN router'[l] \subseteq Keys /\ router'[l] \in [DOMAIN router'[l] -> Entry]
    BY <2>2, <2>3 DEF TypeOK
  <2>8. errors' \in [Sessions -> SUBSET Keys]
    BY <2>4 DEF TypeOK
  <2>9. unserved' \in [Sessions -> SUBSET Keys]
    BY <1>4 DEF Register, TypeOK
  <2> QED
    BY <1>4, <2>1, <2>5, <2>6, <2>7, <2>8, <2>9 DEF Register, TypeOK
<1> QED
  BY <1>1, <1>2, <1>3, <1>4 DEF Bind

LEMMA AgentTypeOK ==
  ASSUME TypeOK, NEW k \in Sessions, Agent(k)
  PROVE  TypeOK'
<1> USE BindingAssumption
    DEF daemonVars, fleetVars, bindVars, callVars, readVars, sourceVars, Connected
<1>1. CASE Open(k)
  BY <1>1, ConfigTypeKept DEF Open, TypeOK
<1>2. ASSUME Calling(k), spent' \in [Sessions -> Nat], leaves' = leaves \/ Leaf(k)
      PROVE  TypeOK'
  <2>1. ConfigTypeOK'
    BY <1>2, ConfigTypeKept DEF Calling, TypeOK
  <2>2. calls' \in [Sessions -> 0 .. MaxCalls] /\ leaves' \in [Sessions -> Nat]
    BY <1>2 DEF Calling, Leaf, TypeOK
  <2> QED
    BY <1>2, <2>1, <2>2 DEF Calling, TypeOK
<1>3. ASSUME NEW key \in Keys,
             CallUnrouted(k, key) \/ CallUnoffered(k, key) \/ CallRefused(k, key)
      PROVE  TypeOK'
  BY <1>2, <1>3 DEF CallUnrouted, CallUnoffered, CallRefused, TypeOK
<1>4. ASSUME NEW key \in Keys, NEW sent \in SUBSET Args, CallForwarded(k, key, sent)
      PROVE  TypeOK'
  BY <1>2, <1>4 DEF CallForwarded, TypeOK
<1>5. ASSUME NEW name, NEW contents, NEW q, NEW failed,
             Calling(k), Answer(k, name, contents, q, failed)
      PROVE  TypeOK'
  BY <1>2, <1>5 DEF Answer, TypeOK
<1>6. CASE \E p \in Providers, q \in Queries : ReadContext(k, p, q)
  BY <1>5, <1>6 DEF ReadContext
<1>7. CASE \E s \in Servers : ReadResource(k, s)
  BY <1>5, <1>7 DEF ReadResource
<1> QED
  BY <1>1, <1>3, <1>4, <1>6, <1>7 DEF Agent

LEMMA NextTypeOK == TypeOK /\ [Next]_vars => TypeOK'
<1> SUFFICES ASSUME TypeOK, [Next]_vars PROVE TypeOK'
  OBVIOUS
<1> USE DEF daemonVars, fleetVars, bindVars, sessionVars, callVars, readVars, sourceVars, Connected
<1>1. CASE Config
  <2>1. ConfigTypeOK'
    BY <1>1, ConfigTypeKept DEF Config, TypeOK
  <2>2. Present' \subseteq Recipes \cup Row
    BY <2>1 DEF Present, Parses, ConfigTypeOK
  <2>3. fresh' \in [Sessions -> SUBSET (Recipes \cup Row)]
    BY <1>1, <2>2 DEF Config, TypeOK
  <2> QED
    BY <1>1, <2>1, <2>3 DEF Config, TypeOK
<1>2. ASSUME NEW p \in Providers, Change(p)
      PROVE  TypeOK'
  <2>1. ConfigTypeOK'
    BY <1>2, ConfigAssumption DEF Change, TypeOK, ConfigTypeOK
  <2>2. source' \in [Providers -> Source]
    BY <1>2, BindingAssumption DEF Change, TypeOK
  <2> QED
    BY <1>2, <2>1, <2>2 DEF Change, TypeOK
<1>3. CASE Daemon
  BY <1>3, DaemonTypeOK
<1>4. CASE Restart
  BY <1>4, RestartTypeOK
<1>5. ASSUME NEW k \in Sessions, Ask(k)
      PROVE  TypeOK'
  <2>1. ConfigTypeOK'
    BY <1>5, ConfigTypeKept DEF Ask, TypeOK
  <2>2. \A want \in {{r \in ValidRows : r.recipe = n} : n \in Names}
                     \cup {{r \in ValidRows : r.tool \in T} : T \in SUBSET Tools} :
          want \subseteq Row /\ {Key(r) : r \in want} \subseteq Keys
    BY DEF ValidRows, TypeOK, ConfigTypeOK, Key, Keys, Row
  <2>3. Present \subseteq Recipes \cup Row
    BY DEF Present, Parses, TypeOK, ConfigTypeOK
  <2>4. /\ bind' \in [Sessions -> {"idle", "asked", "building", "bound", "refused", "lost"}]
        /\ specs' \in [Sessions -> SUBSET Row]
        /\ asked' \in [Sessions -> SUBSET Keys]
        /\ fresh' \in [Sessions -> SUBSET (Recipes \cup Row)]
    <3>1. PICK want \in {{r \in ValidRows : r.recipe = n} : n \in Names}
                     \cup {{r \in ValidRows : r.tool \in T} : T \in SUBSET Tools} :
            IF want = {} THEN bind' = [bind EXCEPT ![k] = "refused"] /\ UNCHANGED <<specs, asked, fresh>>
            ELSE /\ bind' = [bind EXCEPT ![k] = "asked"]
                 /\ specs' = [specs EXCEPT ![k] = want]
                 /\ asked' = [asked EXCEPT ![k] = {Key(r) : r \in want}]
                 /\ fresh' = [fresh EXCEPT ![k] = Present]
      BY <1>5 DEF Ask
    <3>2. want \subseteq Row /\ {Key(r) : r \in want} \subseteq Keys
      BY <2>2
    <3>3. CASE want = {}
      BY <3>1, <3>3 DEF TypeOK
    <3>4. CASE want # {}
      <4>1. /\ bind' = [bind EXCEPT ![k] = "asked"]
            /\ specs' = [specs EXCEPT ![k] = want]
            /\ asked' = [asked EXCEPT ![k] = {Key(r) : r \in want}]
            /\ fresh' = [fresh EXCEPT ![k] = Present]
        BY <3>1, <3>4
      <4>2. bind' \in [Sessions -> {"idle", "asked", "building", "bound", "refused", "lost"}]
        BY <4>1 DEF TypeOK
      <4>3. specs' \in [Sessions -> SUBSET Row]
        BY <3>2, <4>1 DEF TypeOK
      <4>4. asked' \in [Sessions -> SUBSET Keys]
        BY <3>2, <4>1 DEF TypeOK
      <4>5. fresh' \in [Sessions -> SUBSET (Recipes \cup Row)]
        BY <2>3, <4>1 DEF TypeOK
      <4> QED
        BY <4>2, <4>3, <4>4, <4>5
    <3> QED
      BY <3>3, <3>4
  <2> QED
    BY <1>5, <2>1, <2>4 DEF Ask, TypeOK
<1>6. ASSUME NEW k \in Sessions, Bind(k)
      PROVE  TypeOK'
  BY <1>6, BindTypeOK
<1>7. ASSUME NEW k \in Sessions, Agent(k)
      PROVE  TypeOK'
  BY <1>7, AgentTypeOK
<1>8. CASE UNCHANGED vars
  BY <1>8, ConfigTypeKept DEF vars, TypeOK
<1> QED
  BY <1>1, <1>2, <1>3, <1>4, <1>5, <1>6, <1>7, <1>8 DEF Next

\* What is stored and bound keeps its type: in particular a server and a tool
\* have one route, whatever operators, servers and sessions do.
THEOREM TypeCorrect == Spec => []TypeOK
  BY InitTypeOK, NextTypeOK, PTL DEF Spec

-----------------------------------------------------------------------------
(* What the dispatcher is told.                                            *)

\* The keys of the rows that are not resolved yet.
Unresolved(k) ==
  {Key(r) : r \in specs[k]} \cup (IF parent[k] = None THEN {} ELSE {Key(parent[k].row)})

\* While a session is being bound, what was asked for is still to be resolved,
\* routed or reported.
ToldInv ==
  \A k \in Sessions :
    /\ bind[k] \in {"idle", "asked"} =>
         parent[k] = None /\ DOMAIN router[k] = {} /\ errors[k] = {}
    /\ bind[k] \in {"asked", "building"} =>
         asked[k] = Unresolved(k) \cup DOMAIN router[k] \cup errors[k]
    /\ bind[k] = "bound" => asked[k] = DOMAIN router[k] \cup errors[k]

\* Resolving a row routes or reports its key and touches no other session.
LEMMA AdmitTells ==
  ASSUME TypeOK, NEW k \in Sessions, NEW row \in Row, NEW text,
         Admit(k, row, text, files) \/ Drop(k, row)
  PROVE  /\ DOMAIN router'[k] \cup errors'[k] = DOMAIN router[k] \cup errors[k] \cup {Key(row)}
         /\ \A l \in Sessions \ {k} : router'[l] = router[l] /\ errors'[l] = errors[l]
<1>1. CASE Drop(k, row)
  BY <1>1 DEF Drop, TypeOK
<1>2. CASE Admit(k, row, text, files) /\ ~Drop(k, row)
  <2> DEFINE now == [key \in (DOMAIN router[k]) \cup {Key(row)} |->
                       IF key = Key(row) THEN [gate |-> row.gate, policy |-> Policy(text, files)]
                       ELSE router[k][key]]
  <2>1. router' = [router EXCEPT ![k] = now] /\ errors' = errors
    BY <1>2 DEF Admit
  <2>2. DOMAIN now = (DOMAIN router[k]) \cup {Key(row)}
    OBVIOUS
  <2> HIDE DEF now
  <2> QED
    BY <2>1, <2>2 DEF TypeOK
<1> QED
  BY <1>1, <1>2

LEMMA BindTells ==
  ASSUME TypeOK, ToldInv, NEW k \in Sessions, Bind(k)
  PROVE  ToldInv'
<1>1. CASE Post(k)
  BY <1>1 DEF Post, ToldInv, Unresolved, TypeOK
<1>2. ASSUME NEW row \in specs[k], LoadRecipe(k, row)
      PROVE  ToldInv'
  <2>1. /\ bind[k] = "building" /\ bind' = bind /\ asked' = asked /\ parent[k] = None
        /\ specs' = [specs EXCEPT ![k] = @ \ {row}]
    BY <1>2 DEF LoadRecipe, Building
  <2>2. row \in Row /\ row.recipe \in Names
    BY DEF TypeOK, Row
  <2>3. \A l \in Sessions \ {k} : /\ router'[l] = router[l] /\ errors'[l] = errors[l]
                                  /\ parent'[l] = parent[l] /\ specs'[l] = specs[l]
    BY <1>2, <2>2, AdmitTells DEF LoadRecipe, TypeOK
  <2>4. Unresolved(k)' \cup DOMAIN router'[k] \cup errors'[k]
          = Unresolved(k) \cup DOMAIN router[k] \cup errors[k]
    <3>1. specs'[k] = specs[k] \ {row}
      BY <2>1 DEF TypeOK
    <3> DEFINE waits == Parses(files[row.recipe]) /\ files[row.recipe].calls # {}
    <3>2. CASE ~waits
      <4>1. /\ DOMAIN router'[k] \cup errors'[k] = DOMAIN router[k] \cup errors[k] \cup {Key(row)}
            /\ parent' = parent
        BY <1>2, <2>2, <3>2, AdmitTells DEF LoadRecipe
      <4> QED
        BY <2>1, <3>1, <4>1 DEF Unresolved
    <3>3. CASE waits
      <4>1. /\ parent' = [parent EXCEPT ![k] = [row |-> row, text |-> files[row.recipe]]]
            /\ UNCHANGED <<router, errors>>
        BY <1>2, <3>3 DEF LoadRecipe
      <4>2. parent'[k].row = row /\ parent'[k] # None
        BY <4>1 DEF TypeOK, None
      <4> QED
        BY <2>1, <3>1, <4>1, <4>2 DEF Unresolved
    <3> QED
      BY <3>2, <3>3
  <2> QED
    BY <2>1, <2>3, <2>4 DEF ToldInv, Unresolved
<1>3. CASE LoadCalled(k)
  <2>1. /\ bind[k] = "building" /\ bind' = bind /\ asked' = asked /\ specs' = specs
        /\ parent[k] # None /\ parent' = [parent EXCEPT ![k] = None]
    BY <1>3 DEF LoadCalled, Building
  <2>2. parent[k].row \in Row
    BY <2>1 DEF TypeOK
  <2>3. /\ DOMAIN router'[k] \cup errors'[k] = DOMAIN router[k] \cup errors[k] \cup {Key(parent[k].row)}
        /\ \A l \in Sessions \ {k} : router'[l] = router[l] /\ errors'[l] = errors[l]
    BY <1>3, <2>2, AdmitTells DEF LoadCalled
  <2>4. parent'[k] = None /\ \A l \in Sessions \ {k} : parent'[l] = parent[l]
    BY <2>1 DEF TypeOK
  <2> QED
    BY <2>1, <2>3, <2>4 DEF ToldInv, Unresolved
<1>4. CASE Register(k)
  <2> DEFINE kept == {key \in DOMAIN router[k] : Served(key)}
  <2>1. /\ bind[k] = "building" /\ specs[k] = {} /\ parent[k] = None
        /\ asked' = asked /\ specs' = specs /\ parent' = parent
    BY <1>4 DEF Register, Building
  <2>2. DOMAIN Restrict(router[k], kept) = kept
    BY DEF Restrict
  <2>3. /\ router' = [router EXCEPT ![k] = Restrict(router[k], kept)]
        /\ errors' = [errors EXCEPT ![k] = errors[k] \cup (DOMAIN router[k] \ kept)]
        /\ bind' = [bind EXCEPT ![k] = IF kept = {} THEN "refused" ELSE "bound"]
    BY <1>4 DEF Register
  <2> HIDE DEF kept
  <2>4. asked[k] = DOMAIN router[k] \cup errors[k]
    BY <2>1 DEF ToldInv, Unresolved
  <2>5. kept \subseteq DOMAIN router[k]
    BY DEF kept
  <2>6. DOMAIN router'[k] \cup errors'[k] = asked[k]
    BY <2>2, <2>3, <2>4, <2>5 DEF TypeOK
  <2> QED
    BY <2>1, <2>3, <2>6 DEF ToldInv, Unresolved, TypeOK
<1> QED
  BY <1>1, <1>2, <1>3, <1>4 DEF Bind

LEMMA AgentLeavesBinding ==
  ASSUME NEW k \in Sessions, Agent(k)
  PROVE  /\ UNCHANGED <<configVars, sourceVars, daemonVars, bindVars, fresh>>
         /\ bind[k] = "bound"
<1>1. CASE Open(k)
  BY <1>1 DEF Open
<1>2. CASE Calling(k)
  BY <1>2 DEF Calling
<1> QED
  BY <1>1, <1>2 DEF Agent, CallUnrouted, CallUnoffered, CallRefused, CallForwarded, ReadContext,
                    ReadResource

LEMMA NextTells == TypeOK /\ ToldInv /\ [Next]_vars => ToldInv'
<1> SUFFICES ASSUME TypeOK, ToldInv, [Next]_vars PROVE ToldInv'
  OBVIOUS
<1>1. CASE UNCHANGED bindVars
  BY <1>1 DEF bindVars, ToldInv, Unresolved
<1>2. CASE Config \/ (\E p \in Providers : Change(p)) \/ Daemon \/ UNCHANGED vars
           \/ \E k \in Sessions : Agent(k)
  <2>1. UNCHANGED bindVars
    BY <1>2, AgentLeavesBinding
    DEF Config, Change, Daemon, ListFleet, Connect, FleetDone, vars
  <2> QED
    BY <1>1, <2>1
<1>3. CASE Restart
  BY <1>3 DEF Restart, ToldInv, Unresolved, Empty, TypeOK
<1>4. ASSUME NEW k \in Sessions, Ask(k)
      PROVE  ToldInv'
  BY <1>4 DEF Ask, ToldInv, Unresolved, TypeOK
<1>5. ASSUME NEW k \in Sessions, Bind(k)
      PROVE  ToldInv'
  BY <1>5, BindTells
<1> QED
  BY <1>2, <1>3, <1>4, <1>5 DEF Next

-----------------------------------------------------------------------------
(* What a call may carry.                                                  *)

\* A route of a session: its policy is that of the recipes it was composed from,
\* and has a bound if the daemon wants one.
Sound(entry) ==
  /\ entry.policy.passes = UNION {p.passes : p \in entry.policy.parts}
  /\ entry.policy.loose = \E p \in entry.policy.parts : p.loose
  /\ \A arg \in entry.policy.constrains : \E p \in entry.policy.parts : arg \in p.constrains
  /\ requireBounded => ~Unbounded(entry.policy, entry.gate)

SoundInv ==
  /\ \A k \in Sessions : \A key \in DOMAIN router[k] : Sound(router[k][key])
  /\ \A x \in crossings : /\ Sound(x.entry)
                          /\ x.entry.gate \subseteq x.sent /\ x.sent \subseteq Covered(x.entry)

\* A policy is that of its parts, and strict mode admits only those with a bound.
LEMMA AdmitIsSound ==
  ASSUME TypeOK, NEW k \in Sessions, NEW row \in Row, NEW text,
         \A key \in DOMAIN router[k] : Sound(router[k][key]),
         Admit(k, row, text, files) \/ Drop(k, row)
  PROVE  /\ \A key \in DOMAIN router'[k] : Sound(router'[k][key])
         /\ \A l \in Sessions \ {k} : router'[l] = router[l]
<1>1. CASE Drop(k, row)
  BY <1>1 DEF Drop
<1>2. CASE Admit(k, row, text, files) /\ ~Drop(k, row)
  <2> DEFINE e == [gate |-> row.gate, policy |-> Policy(text, files)]
             now == [key \in (DOMAIN router[k]) \cup {Key(row)} |->
                       IF key = Key(row) THEN e ELSE router[k][key]]
  <2>1. router' = [router EXCEPT ![k] = now]
        /\ ~(requireBounded /\ Unbounded(Policy(text, files), row.gate))
    BY <1>2 DEF Admit
  <2>2. Sound(e)
    <3> DEFINE parts == {text} \cup {files[c] : c \in text.calls}
    <3>1. Policy(text, files) = [parts |-> parts, passes |-> UNION {p.passes : p \in parts},
                                 loose |-> \E p \in parts : p.loose, constrains |-> text.constrains]
      BY DEF Policy
    <3>2. text \in parts
      OBVIOUS
    <3> HIDE DEF parts
    <3>3. e.policy = Policy(text, files) /\ e.gate = row.gate
      OBVIOUS
    <3> HIDE DEF e
    <3>4. /\ e.policy.parts = parts /\ e.policy.passes = UNION {p.passes : p \in parts}
          /\ e.policy.constrains = text.constrains
      BY <3>1, <3>3
    <3>5. e.policy.loose = \E p \in parts : p.loose
      BY <3>1, <3>3
    <3>6. requireBounded => ~Unbounded(e.policy, e.gate)
      BY <2>1, <3>3
    <3>7. \A arg \in e.policy.constrains : \E p \in e.policy.parts : arg \in p.constrains
      BY <3>2, <3>4
    <3> QED
      BY <3>4, <3>5, <3>6, <3>7, Zenon DEF Sound
  <2> HIDE DEF e
  <2>3. \A key \in DOMAIN now : Sound(now[key])
    BY <2>2
  <2> HIDE DEF now
  <2> QED
    BY <2>1, <2>3 DEF TypeOK
<1> QED
  BY <1>1, <1>2

LEMMA BindIsSound ==
  ASSUME TypeOK, SoundInv, NEW k \in Sessions, Bind(k)
  PROVE  \A l \in Sessions : \A key \in DOMAIN router'[l] : Sound(router'[l][key])
<1>1. CASE Post(k)
  BY <1>1 DEF Post, SoundInv
<1>2. ASSUME NEW row \in specs[k], LoadRecipe(k, row)
      PROVE  \A l \in Sessions : \A key \in DOMAIN router'[l] : Sound(router'[l][key])
  <2>1. row \in Row
    BY DEF TypeOK
  <2>2. \/ Admit(k, row, files[row.recipe], files) \/ Drop(k, row)
        \/ router' = router
    BY <1>2 DEF LoadRecipe
  <2> QED
    BY <2>1, <2>2, AdmitIsSound DEF SoundInv
<1>3. CASE LoadCalled(k)
  <2>1. parent[k].row \in Row
    BY <1>3 DEF LoadCalled, TypeOK
  <2>2. Admit(k, parent[k].row, parent[k].text, files) \/ Drop(k, parent[k].row)
    BY <1>3 DEF LoadCalled
  <2> QED
    BY <2>1, <2>2, AdmitIsSound DEF SoundInv
<1>4. CASE Register(k)
  <2> DEFINE kept == {key \in DOMAIN router[k] : Served(key)}
  <2>1. router' = [router EXCEPT ![k] = Restrict(router[k], kept)]
    BY <1>4 DEF Register
  <2>2. /\ DOMAIN Restrict(router[k], kept) \subseteq DOMAIN router[k]
        /\ \A key \in DOMAIN Restrict(router[k], kept) : Restrict(router[k], kept)[key] = router[k][key]
    BY DEF Restrict
  <2> HIDE DEF kept
  <2> QED
    BY <2>1, <2>2 DEF SoundInv, TypeOK
<1> QED
  BY <1>1, <1>2, <1>3, <1>4 DEF Bind

LEMMA NextSound == TypeOK /\ SoundInv /\ [Next]_vars => SoundInv'
<1> SUFFICES ASSUME TypeOK, SoundInv, [Next]_vars PROVE SoundInv'
  OBVIOUS
<1>1. requireBounded' = requireBounded
  BY AgentLeavesBinding
  DEF Next, vars, Config, Change, Daemon, ListFleet, Connect, FleetDone, Restart, Ask, Bind, Post,
      LoadRecipe, LoadCalled, Register, daemonVars
<1>2. \A entry : Sound(entry)' <=> Sound(entry)
  BY <1>1 DEF Sound
<1>3. ASSUME \A k \in Sessions : \A key \in DOMAIN router'[k] : Sound(router'[k][key]),
             UNCHANGED crossings
      PROVE  SoundInv'
  BY <1>2, <1>3 DEF SoundInv, Covered
<1>4. CASE Config \/ (\E p \in Providers : Change(p)) \/ Daemon \/ UNCHANGED vars
           \/ \E k \in Sessions : Ask(k)
  <2>1. UNCHANGED <<router, crossings>>
    BY <1>4 DEF Config, Change, Daemon, ListFleet, Connect, FleetDone, Ask, vars, bindVars,
                sessionVars, callVars
  <2> QED
    BY <1>3, <2>1 DEF SoundInv
<1>5. CASE Restart
  BY <1>5 DEF Restart, SoundInv, Empty
<1>6. ASSUME NEW k \in Sessions, Bind(k)
      PROVE  SoundInv'
  <2>1. UNCHANGED crossings
    BY <1>6 DEF Bind, Post, LoadRecipe, LoadCalled, Register, sessionVars, callVars
  <2> QED
    BY <1>3, <1>6, <2>1, BindIsSound
<1>7. ASSUME NEW k \in Sessions, Agent(k)
      PROVE  SoundInv'
  <2>1. UNCHANGED router
    BY <1>7, AgentLeavesBinding DEF bindVars
  <2>2. CASE UNCHANGED crossings
    BY <1>3, <2>1, <2>2 DEF SoundInv
  <2>3. ASSUME NEW key \in Keys, NEW sent \in SUBSET Args, CallForwarded(k, key, sent)
        PROVE  SoundInv'
    <3> DEFINE x == [session |-> k, nth |-> calls[k], key |-> key, sent |-> sent,
                     entry |-> router[k][key]]
    <3>1. /\ crossings' = crossings \cup {x}
          /\ key \in DOMAIN router[k]
          /\ router[k][key].gate \subseteq sent /\ sent \subseteq Covered(router[k][key])
      BY <2>3 DEF CallForwarded, Offered, Clears
    <3>2. Sound(x.entry) /\ x.entry.gate \subseteq x.sent /\ x.sent \subseteq Covered(x.entry)
      BY <3>1 DEF SoundInv
    <3> HIDE DEF x
    <3> QED
      BY <1>2, <2>1, <3>1, <3>2 DEF SoundInv, Covered
  <2>4. UNCHANGED crossings \/ \E key \in Keys, sent \in SUBSET Args : CallForwarded(k, key, sent)
    BY <1>7 DEF Agent, Open, callVars, CallUnrouted, CallUnoffered, CallRefused, ReadContext,
                ReadResource, Answer
  <2> QED
    BY <2>2, <2>3, <2>4
<1> QED
  BY <1>4, <1>5, <1>6, <1>7 DEF Next

\* Whatever the tool declared and whoever edited the policy meanwhile, every
\* argument of a forwarded call was judged or declared as passed through; and
\* with -require-bounded each is judged, and of several each has a rule.
THEOREM ArgumentsAreAccounted == Spec => []EveryArgumentAccounted
<1>1. Init => SoundInv
  BY DEF Init, SoundInv, SessionInit, Empty
<1>2. SoundInv => EveryArgumentAccounted
  <2> SUFFICES ASSUME SoundInv, NEW x \in crossings
               PROVE  LET passes == UNION {p.passes : p \in x.entry.policy.parts} IN
                      /\ x.sent \subseteq x.entry.gate \cup passes
                      /\ requireBounded =>
                           /\ passes = {} /\ \A p \in x.entry.policy.parts : ~p.loose
                           /\ Cardinality(x.sent) > 1 =>
                                \A arg \in x.sent :
                                  \E p \in x.entry.policy.parts : arg \in p.constrains
    BY DEF EveryArgumentAccounted
  <2>1. /\ Sound(x.entry)
        /\ x.entry.gate \subseteq x.sent /\ x.sent \subseteq Covered(x.entry)
    BY DEF SoundInv
  <2>2. x.sent \subseteq x.entry.gate \cup UNION {p.passes : p \in x.entry.policy.parts}
    BY <2>1 DEF Sound, Covered
  <2>3. CASE requireBounded
    <3>1. /\ x.entry.policy.passes = {} /\ ~x.entry.policy.loose
          /\ FreeText(x.entry.policy, x.entry.gate) = {}
      BY <2>1, <2>3 DEF Sound, Unbounded
    <3>2. UNION {p.passes : p \in x.entry.policy.parts} = {}
      BY <2>1, <3>1 DEF Sound
    <3>3. \A p \in x.entry.policy.parts : ~p.loose
      BY <2>1, <3>1 DEF Sound
    <3>4. x.sent = x.entry.gate
      BY <2>1, <2>2, <3>2
    <3>5. Cardinality(x.sent) > 1 => x.entry.gate \subseteq x.entry.policy.constrains
      BY <3>1, <3>4 DEF FreeText
    <3>6. Cardinality(x.sent) > 1 =>
            \A arg \in x.sent : \E p \in x.entry.policy.parts : arg \in p.constrains
      BY <2>1, <3>4, <3>5 DEF Sound
    <3> QED
      BY <2>2, <3>2, <3>3, <3>6
  <2>4. CASE ~requireBounded
    BY <2>2, <2>4
  <2> QED
    BY <2>3, <2>4
<1> QED
  BY <1>1, <1>2, NextSound, TypeCorrect, PTL DEF Spec

-----------------------------------------------------------------------------
(* The cap.                                                                *)

CrossingsOf(k) == {x \in crossings : x.session = k}

\* The budget of a token counts the calls forwarded under it.
CapInv ==
  Limit > 0 => \A k \in Sessions :
    /\ IsFiniteSet(CrossingsOf(k))
    /\ Cardinality(CrossingsOf(k)) <= spent[k] /\ spent[k] <= Limit

\* The budget and the crossings change only when a call is forwarded or the
\* daemon restarts.
LEMMA CountersKept ==
  ASSUME [Next]_vars, ~Restart,
         \A k \in Sessions, key \in Keys, sent \in SUBSET Args : ~CallForwarded(k, key, sent)
  PROVE  UNCHANGED <<spent, crossings>>
<1>1. CASE \E k \in Sessions : Agent(k)
  BY <1>1 DEF Agent, Open, callVars, CallUnrouted, CallUnoffered, CallRefused, ReadContext,
              ReadResource, Answer
<1>2. CASE \E k \in Sessions : Bind(k)
  BY <1>2 DEF Bind, Post, LoadRecipe, LoadCalled, Register, sessionVars, callVars
<1>3. CASE Daemon
  BY <1>3 DEF Daemon, ListFleet, Connect, FleetDone, sessionVars, callVars
<1> QED
  BY <1>1, <1>2, <1>3 DEF Next, Config, Change, Ask, vars, sessionVars, callVars

LEMMA NextCapped == TypeOK /\ CapInv /\ [Next]_vars => CapInv'
<1> SUFFICES ASSUME TypeOK, CapInv, [Next]_vars, Limit > 0 PROVE CapInv'
  BY DEF CapInv
<1>1. CASE Restart
  <2>1. /\ spent' = [k \in Sessions |-> 0]
        /\ \A k \in Sessions : CrossingsOf(k)' = {}
    BY <1>1 DEF Restart, CrossingsOf
  <2>2. IsFiniteSet({}) /\ Cardinality({}) = 0
    BY FS_EmptySet
  <2>3. \A k \in Sessions : spent'[k] = 0
    BY <2>1
  <2> QED
    BY <2>1, <2>2, <2>3, BindingAssumption DEF CapInv
<1>2. ASSUME NEW k \in Sessions, NEW key \in Keys, NEW sent \in SUBSET Args,
             CallForwarded(k, key, sent)
      PROVE  CapInv'
  <2> DEFINE x == [session |-> k, nth |-> calls[k], key |-> key, sent |-> sent,
                   entry |-> router[k][key]]
  <2>1. /\ crossings' = crossings \cup {x} /\ x.session = k
        /\ spent' = [spent EXCEPT ![k] = @ + 1]
        /\ ~(spent[k] >= Limit)
    BY <1>2 DEF CallForwarded, Clears, Exhausted
  <2> HIDE DEF x
  <2>2. spent[k] \in Nat /\ spent[k] < Limit
    BY <2>1, BindingAssumption DEF TypeOK
  <2>3. \A l \in Sessions : IsFiniteSet(CrossingsOf(l)) /\ Cardinality(CrossingsOf(l)) \in Nat
    BY FS_CardinalityType DEF CapInv
  <2>4. CrossingsOf(k)' = CrossingsOf(k) \cup {x}
    BY <2>1 DEF CrossingsOf
  <2>5. \A l \in Sessions \ {k} : CrossingsOf(l)' = CrossingsOf(l) /\ spent'[l] = spent[l]
    BY <2>1 DEF CrossingsOf, TypeOK
  <2>6. /\ IsFiniteSet(CrossingsOf(k)')
        /\ Cardinality(CrossingsOf(k)') <= Cardinality(CrossingsOf(k)) + 1
    <3>1. /\ IsFiniteSet(CrossingsOf(k) \cup {x})
          /\ \/ Cardinality(CrossingsOf(k) \cup {x}) = Cardinality(CrossingsOf(k)) + 1
             \/ Cardinality(CrossingsOf(k) \cup {x}) = Cardinality(CrossingsOf(k))
      BY <2>3, FS_AddElement
    <3> QED
      BY <2>3, <2>4, <3>1
  <2>7. Cardinality(CrossingsOf(k)') \in Nat
    BY <2>6, FS_CardinalityType
  <2>8. spent'[k] = spent[k] + 1
    BY <2>1 DEF TypeOK
  <2>9. Cardinality(CrossingsOf(k)) <= spent[k]
    BY DEF CapInv
  <2>10. Cardinality(CrossingsOf(k)') <= spent'[k] /\ spent'[k] <= Limit
    BY <2>2, <2>3, <2>6, <2>7, <2>8, <2>9, BindingAssumption
  <2>11. \A l \in Sessions : /\ IsFiniteSet(CrossingsOf(l)')
                             /\ Cardinality(CrossingsOf(l)') <= spent'[l] /\ spent'[l] <= Limit
    BY <2>3, <2>5, <2>6, <2>10 DEF CapInv
  <2> QED
    BY <2>11 DEF CapInv
<1>3. CASE UNCHANGED <<spent, crossings>>
  BY <1>3 DEF CapInv, CrossingsOf
<1> QED
  BY <1>1, <1>2, <1>3, CountersKept

LEMMA InitCapped == Init => CapInv
<1> SUFFICES ASSUME Init PROVE CapInv
  OBVIOUS
<1>1. \A k \in Sessions : CrossingsOf(k) = {} /\ spent[k] = 0
  BY DEF Init, SessionInit, CrossingsOf
<1>2. Limit \in Nat
  BY BindingAssumption
<1> QED
  BY <1>1, <1>2, FS_EmptySet DEF CapInv

\* At most Limit calls of a session cross, in whatever number of MCP sessions.
THEOREM CapOutlivesReconnects == Spec => []CapOverReconnects
<1>1. TypeOK /\ CapInv => CapOverReconnects
  <2> SUFFICES ASSUME TypeOK, CapInv, Limit > 0, NEW k \in Sessions
               PROVE  Cardinality(CrossingsOf(k)) <= Limit
    BY DEF CapOverReconnects, CrossingsOf
  <2>1. Cardinality(CrossingsOf(k)) \in Nat /\ spent[k] \in Nat
    BY FS_CardinalityType DEF CapInv, TypeOK
  <2> QED
    BY <2>1, BindingAssumption DEF CapInv
<1> QED
  BY <1>1, InitCapped, NextCapped, TypeCorrect, PTL DEF Spec

-----------------------------------------------------------------------------
(* Reads.                                                                  *)

\* Reads add to the read log and to what was served; nothing else does.
LEMMA ReadsOnly ==
  ASSUME [Next]_vars, ~Restart,
         \A k \in Sessions, p \in Providers, q \in Queries : ~ReadContext(k, p, q),
         \A k \in Sessions, s \in Servers : ~ReadResource(k, s)
  PROVE  UNCHANGED readVars
<1>1. CASE \E k \in Sessions : Agent(k)
  BY <1>1 DEF Agent, Open, CallUnrouted, CallUnoffered, CallRefused, CallForwarded
<1>2. CASE \E k \in Sessions : Bind(k)
  BY <1>2 DEF Bind, Post, LoadRecipe, LoadCalled, Register, sessionVars
<1>3. CASE Daemon
  BY <1>3 DEF Daemon, ListFleet, Connect, FleetDone, sessionVars
<1> QED
  BY <1>1, <1>2, <1>3 DEF Next, Config, Change, Ask, vars, sessionVars

\* The calls of a session are counted up.
LEMMA CallsGrow ==
  ASSUME TypeOK, [Next]_vars, ~Restart, NEW k \in Sessions
  PROVE  calls'[k] \in Nat /\ calls[k] \in Nat /\ calls[k] <= calls'[k]
<1>1. calls[k] \in Nat
  BY BindingAssumption DEF TypeOK
<1>2. ASSUME NEW l \in Sessions, Agent(l)
      PROVE  calls' = [calls EXCEPT ![l] = @ + 1] \/ calls' = calls
  BY <1>2 DEF Agent, Open, Calling, CallUnrouted, CallUnoffered, CallRefused, CallForwarded,
              ReadContext, ReadResource
<1>3. CASE \E l \in Sessions : Agent(l)
  <2>1. PICK l \in Sessions : calls' = [calls EXCEPT ![l] = @ + 1] \/ calls' = calls
    BY <1>2, <1>3
  <2>2. calls \in [Sessions -> 0 .. MaxCalls]
    BY DEF TypeOK
  <2>3. calls'[k] = calls[k] + 1 \/ calls'[k] = calls[k]
    BY <2>1, <2>2
  <2> QED
    BY <1>1, <2>3
<1>4. CASE \E l \in Sessions : Bind(l)
  <2>1. calls' = calls
    BY <1>4 DEF Bind, Post, LoadRecipe, LoadCalled, Register, sessionVars
  <2> QED
    BY <1>1, <2>1
<1>5. CASE Daemon
  <2>1. calls' = calls
    BY <1>5 DEF Daemon, ListFleet, Connect, FleetDone, sessionVars
  <2> QED
    BY <1>1, <2>1
<1> QED
  BY <1>1, <1>3, <1>4, <1>5 DEF Next, Config, Change, Ask, vars, sessionVars

\* Each read of a session has a place of its own among its calls.
ReadOrder ==
  /\ \A leaf \in readLog :
       leaf.session \in Sessions /\ leaf.nth \in Nat /\ leaf.nth < calls[leaf.session]
  /\ \A r \in served : r.session \in Sessions /\ r.nth \in Nat /\ r.nth < calls[r.session]

\* A text of a source, as the handlers serve it.
Labelled(c) ==
  c.text \in Texts /\ c.trust = "untrusted" /\ (c.text \in Texts \ Binary => c.framed)

\* The words of the gate are served alone, and only if there is nothing else.
LEMMA ServedContents ==
  ASSUME NEW contents, \A c \in contents : Labelled(c)
  PROVE  /\ \A c \in OrPlaceholder(contents) :
              c.trust = "untrusted" /\ (c.text \in Texts \ Binary => c.framed)
         /\ Placeholder \in OrPlaceholder(contents) => OrPlaceholder(contents) = {Placeholder}
         /\ OrPlaceholder(contents) \ {Placeholder} = contents
<1>1. Placeholder.text = NoContext /\ Placeholder.trust = "untrusted"
  BY DEF Placeholder
<1>2. NoContext \notin Texts
  BY ReadAssumption
<1>3. Placeholder \notin contents
  BY <1>1, <1>2 DEF Labelled
<1>4. CASE contents = {}
  BY <1>1, <1>2, <1>4 DEF OrPlaceholder
<1>5. CASE contents # {}
  <2>1. OrPlaceholder(contents) = contents
    BY <1>5 DEF OrPlaceholder
  <2> QED
    BY <1>3, <2>1, Zenon DEF Labelled
<1> QED
  BY <1>4, <1>5

\* A read that is answered.
LEMMA AnswerIsAttested ==
  ASSUME TypeOK, ReadsAreAttested, ReadOrder, NEW k \in Sessions, Calling(k),
         NEW name, NEW contents, NEW q \in Nat, NEW failed, \A c \in contents : Labelled(c),
         Answer(k, name, contents, q, failed)
  PROVE  ReadsAreAttested' /\ ReadOrder'
<1> DEFINE leaf == ReadLeaf(k, calls[k], name, q, contents, failed)
           shown == OrPlaceholder(contents)
<1>1. PICK logged \in {TRUE, ~ReadLogFails} :
        /\ readLog' = IF logged THEN readLog \cup {leaf} ELSE readLog
        /\ served' = served \cup {[session |-> k, name |-> name, nth |-> calls[k],
                                    contents |-> shown, logged |-> logged]}
  BY DEF Answer
<1> DEFINE read == [session |-> k, name |-> name, nth |-> calls[k],
                    contents |-> shown, logged |-> logged]
<1>2. /\ leaf.session = k /\ leaf.name = name /\ leaf.nth = calls[k]
      /\ leaf.query <= MaxQueryLen /\ leaf.hashes = Attested(contents)
  BY ReadAssumption DEF ReadLeaf, BoundQuery
<1> HIDE DEF leaf, shown
<1>3. /\ read.session = k /\ read.name = name /\ read.nth = calls[k]
      /\ read.contents = shown
  OBVIOUS
<1>10. read.logged = logged
  BY Zenon
<1>4. served' = served \cup {read}
  BY <1>1
<1>5. /\ \A c \in shown : c.trust = "untrusted" /\ (c.text \in Texts \ Binary => c.framed)
      /\ Placeholder \in shown => shown = {Placeholder}
      /\ shown \ {Placeholder} = contents
  BY ServedContents DEF shown
<1>6. /\ calls[k] \in Nat /\ calls'[k] = calls[k] + 1
      /\ \A l \in Sessions \ {k} : calls'[l] = calls[l]
  BY BindingAssumption DEF Calling, TypeOK
<1>7. (logged /\ readLog' = readLog \cup {leaf}) \/ (~logged /\ readLog' = readLog)
  BY <1>1
<1> HIDE DEF read
<1>8. ReadOrder'
  <2>1. \A l \in Sessions : \A n \in Nat : n < calls[l] => n < calls'[l]
    BY <1>6 DEF TypeOK
  <2>2. \A l \in readLog' :
          l.session \in Sessions /\ l.nth \in Nat /\ l.nth < calls'[l.session]
    BY <1>2, <1>6, <1>7, <2>1 DEF ReadOrder
  <2>3. \A r \in served' : r.session \in Sessions /\ r.nth \in Nat /\ r.nth < calls'[r.session]
    BY <1>3, <1>4, <1>6, <2>1 DEF ReadOrder
  <2> QED
    BY <2>2, <2>3 DEF ReadOrder
<1>9. ReadsAreAttested'
  <2> SUFFICES ASSUME NEW r \in served'
               PROVE  LET attesting == {l \in readLog' : l.session = r.session /\ l.nth = r.nth} IN
                      /\ \A c \in r.contents :
                           c.trust = "untrusted" /\ (c.text \in Texts \ Binary => c.framed)
                      /\ Placeholder \in r.contents => r.contents = {Placeholder}
                      /\ r.logged => attesting # {}
                      /\ \A l \in attesting :
                           /\ l.name = r.name /\ l.query <= MaxQueryLen
                           /\ l.hashes = Attested(r.contents \ {Placeholder})
    BY DEF ReadsAreAttested
  <2> DEFINE attesting == {l \in readLog' : l.session = r.session /\ l.nth = r.nth}
             before    == {l \in readLog : l.session = r.session /\ l.nth = r.nth}
  <2>1. CASE r = read
    <3>1. before = {}
      BY <1>3, <1>6, <2>1 DEF ReadOrder
    <3>2. (logged /\ attesting = {leaf}) \/ (~logged /\ attesting = {})
      BY <1>2, <1>3, <1>7, <2>1, <3>1
    <3> HIDE DEF attesting
    <3>3. r.logged => attesting # {}
      BY <1>10, <2>1, <3>2, Zenon
    <3>4. \A l \in attesting : l = leaf
      BY <3>2, Zenon
    <3>5. \A l \in attesting : /\ l.name = r.name /\ l.query <= MaxQueryLen
                               /\ l.hashes = Attested(r.contents \ {Placeholder})
      BY <1>2, <1>3, <1>5, <2>1, <3>4
    <3>6. /\ \A c \in r.contents : c.trust = "untrusted" /\ (c.text \in Texts \ Binary => c.framed)
          /\ Placeholder \in r.contents => r.contents = {Placeholder}
      BY <1>3, <1>5, <2>1, Zenon
    <3> QED
      BY <3>3, <3>5, <3>6, Zenon DEF attesting
  <2>2. CASE r \in served /\ r # read
    <3>1. r.session \in Sessions /\ r.nth \in Nat /\ r.nth < calls[r.session]
      BY <2>2 DEF ReadOrder
    <3>2. ~(leaf.session = r.session /\ leaf.nth = r.nth)
      BY <1>2, <1>6, <3>1
    <3>3. attesting = before
      BY <1>7, <3>2
    <3> QED
      BY <2>2, <3>3, Zenon DEF ReadsAreAttested
  <2> QED
    BY <1>4, <2>1, <2>2
<1> QED
  BY <1>8, <1>9

\* What a provider gives is typed.
LEMMA ProvidedType ==
  ASSUME TypeOK, NEW k \in Sessions, NEW p \in DOMAIN providers[k]
  PROVE  Provided(p, providers[k][p], source[p]) \subseteq Item
<1>1. p \in Providers /\ providers[k][p] \in Source /\ source[p] \in Source
  BY DEF TypeOK
<1> QED
  BY <1>1 DEF Provided, Source

LEMMA NextAttested ==
  TypeOK /\ ReadsAreAttested /\ ReadOrder /\ [Next]_vars => ReadsAreAttested' /\ ReadOrder'
<1> SUFFICES ASSUME TypeOK, ReadsAreAttested, ReadOrder, [Next]_vars
             PROVE  ReadsAreAttested' /\ ReadOrder'
  OBVIOUS
<1>1. CASE UNCHANGED readVars /\ ~Restart
  <2>1. ReadsAreAttested'
    BY <1>1 DEF readVars, ReadsAreAttested
  <2>2. \A k \in Sessions : \A n \in Nat : n < calls[k] => n < calls'[k]
    BY <1>1, CallsGrow
  <2>3. ReadOrder'
    BY <1>1, <2>2 DEF readVars, ReadOrder
  <2> QED
    BY <2>1, <2>3
<1>2. CASE Restart
  BY <1>2 DEF Restart, ReadsAreAttested, ReadOrder
<1>3. ASSUME NEW k \in Sessions, NEW p \in Providers, NEW q \in Queries, ReadContext(k, p, q)
      PROVE  ReadsAreAttested' /\ ReadOrder'
  <2> DEFINE items    == Provided(p, providers[k][p], source[p])
             contents == ServedBy(p, providers[k][p], source[p])
             failed   == ProvideFails(p, source[p])
  <2>1. \A c \in contents : Labelled(c)
    <3>1. items \subseteq Item
      BY <1>3, ProvidedType DEF ReadContext
    <3> HIDE DEF items
    <3>2. ASSUME NEW j \in items
          PROVE  Labelled(Frame([j EXCEPT !.trust = "untrusted"]))
      <4>1. /\ [j EXCEPT !.trust = "untrusted"].trust = "untrusted"
            /\ [j EXCEPT !.trust = "untrusted"].text \in Texts
        BY <3>1 DEF Item
      <4>2. \A i : Frame(i).text = i.text /\ Frame(i).trust = i.trust /\ Frame(i).framed
        BY DEF Frame
      <4> QED
        BY <4>1, <4>2, Zenon DEF Labelled
    <3>3. contents = {Frame(i) : i \in Gathered(items)}
      BY DEF ServedBy, items
    <3> QED
      BY <3>2, <3>3, Zenon DEF Gathered
  <2>2. Calling(k) /\ Answer(k, p, contents, q, failed)
    BY <1>3 DEF ReadContext
  <2>3. q \in Nat
    BY BindingAssumption
  <2> HIDE DEF contents, failed
  <2> QED
    BY <2>1, <2>2, <2>3, AnswerIsAttested
<1>4. ASSUME NEW k \in Sessions, NEW s \in Servers, ReadResource(k, s)
      PROVE  ReadsAreAttested' /\ ReadOrder'
  <2> DEFINE contents == IF live[s] = Down THEN {} ELSE ServedResource(Resources[s])
             failed   == live[s] = Down
  <2>1. \A c \in contents : Labelled(c)
    <3>1. Resources[s] \subseteq Texts
      BY BindingAssumption
    <3>2. ASSUME NEW t \in Texts
          PROVE  LET c == [text |-> t, framed |-> t \notin Binary, trust |-> "untrusted"]
                 IN  c.text = t /\ c.trust = "untrusted" /\ (t \notin Binary => c.framed)
      BY Zenon
    <3>3. ASSUME NEW c \in ServedResource(Resources[s])
          PROVE  Labelled(c)
      <4>1. PICK t \in Resources[s] :
              c = [text |-> t, framed |-> t \notin Binary, trust |-> "untrusted"]
        BY Zenon DEF ServedResource
      <4>2. t \in Texts
        BY <3>1
      <4>3. c.text = t /\ c.trust = "untrusted" /\ (t \notin Binary => c.framed)
        BY <3>2, <4>1, <4>2, Zenon
      <4>4. c.text \in Texts \ Binary => c.framed
        <5>1. c.text \in Texts \ Binary => t \notin Binary
          BY <4>3
        <5> QED
          BY <4>3, <5>1, Zenon
      <4> QED
        BY <4>2, <4>3, <4>4, Zenon DEF Labelled
    <3> QED
      BY <3>3, Zenon
  <2>2. Calling(k) /\ Answer(k, s, contents, 0, failed)
    BY <1>4 DEF ReadResource
  <2> HIDE DEF contents, failed
  <2> QED
    BY <2>1, <2>2, AnswerIsAttested
<1> QED
  BY <1>1, <1>2, <1>3, <1>4, ReadsOnly

\* What an agent is given to read is labelled untrusted, and the texts of a source
\* are framed but for binary content; a leaf of the read, which the log has
\* unless the append failed, attests just what was served of the source: for any
\* number of sessions and reads, whatever sources and servers claim and do.
THEOREM ReadsAttested == Spec => []ReadsAreAttested
<1>1. Init => ReadsAreAttested /\ ReadOrder
  BY DEF Init, SessionInit, ReadsAreAttested, ReadOrder
<1> QED
  BY <1>1, NextAttested, TypeCorrect, PTL DEF Spec

\* What a session serves of a bundle is the bundle it was bound with.
BundleInv ==
  \A r \in served :
    r.name \in Providers =>
      /\ r.session \in Sessions /\ bind[r.session] = "bound"
      /\ r.name \in DOMAIN providers[r.session]
      /\ Kind[r.name] = "static" =>
           r.contents =
             OrPlaceholder({Frame(i) : i \in Gathered(providers[r.session][r.name].items)})

LEMMA NextVerbatim == TypeOK /\ BundleInv /\ [Next]_vars => BundleInv'
<1> SUFFICES ASSUME TypeOK, BundleInv, [Next]_vars
             PROVE  BundleInv'
  OBVIOUS
<1>1. CASE Restart
  BY <1>1 DEF Restart, BundleInv
<1>2. ASSUME NEW k \in Sessions, NEW p \in Providers, NEW q \in Queries, ReadContext(k, p, q)
      PROVE  BundleInv'
  <2> DEFINE contents == ServedBy(p, providers[k][p], source[p])
  <2>1. PICK logged \in {TRUE, ~ReadLogFails} :
          served' = served \cup {[session |-> k, name |-> p, nth |-> calls[k],
                                  contents |-> OrPlaceholder(contents), logged |-> logged]}
    BY <1>2 DEF ReadContext, Answer
  <2> DEFINE read == [session |-> k, name |-> p, nth |-> calls[k],
                      contents |-> OrPlaceholder(contents), logged |-> logged]
  <2>4. /\ bind[k] = "bound" /\ UNCHANGED <<bind, providers>>
        /\ p \in DOMAIN providers[k] /\ served' = served \cup {read}
    BY <1>2, <2>1 DEF ReadContext, Calling, sourceVars, bindVars
  <2>2. Kind[p] = "static" =>
          contents = {Frame(i) : i \in Gathered(providers[k][p].items)}
    BY DEF ServedBy, Provided
  <2> HIDE DEF contents
  <2>3. /\ read.session = k /\ read.name = p /\ read.contents = OrPlaceholder(contents)
    OBVIOUS
  <2> HIDE DEF read
  <2> QED
    BY <2>2, <2>3, <2>4 DEF BundleInv
<1>3. ASSUME NEW k \in Sessions, NEW s \in Servers, ReadResource(k, s)
      PROVE  BundleInv'
  <2> DEFINE contents == IF live[s] = Down THEN {} ELSE ServedResource(Resources[s])
             failed   == live[s] = Down
  <2>4. Calling(k) /\ Answer(k, s, contents, 0, failed)
    BY <1>3 DEF ReadResource
  <2> HIDE DEF contents, failed
  <2>5. PICK logged \in {TRUE, ~ReadLogFails} :
          served' = served \cup {[session |-> k, name |-> s, nth |-> calls[k],
                                  contents |-> OrPlaceholder(contents), logged |-> logged]}
    BY <2>4 DEF Answer
  <2> DEFINE read == [session |-> k, name |-> s, nth |-> calls[k],
                      contents |-> OrPlaceholder(contents), logged |-> logged]
  <2>1. UNCHANGED <<bind, providers>> /\ served' = served \cup {read}
    BY <2>4, <2>5 DEF Calling, sourceVars, bindVars
  <2>2. read.name = s
    OBVIOUS
  <2>3. s \notin Providers
    BY BindingAssumption
  <2> HIDE DEF read
  <2> QED
    BY <2>1, <2>2, <2>3 DEF BundleInv
<1>4. CASE UNCHANGED readVars /\ ~Restart
  <2>1. \A k \in Sessions : bind[k] = "bound" => bind'[k] = "bound" /\ providers'[k] = providers[k]
    <3>1. CASE UNCHANGED <<bind, providers>>
      BY <3>1
    <3>2. ASSUME NEW l \in Sessions, Ask(l)
          PROVE  \A k \in Sessions : bind[k] = "bound" => bind'[k] = "bound" /\ providers'[k] = providers[k]
      BY <3>2 DEF Ask, sourceVars, TypeOK
    <3>3. ASSUME NEW l \in Sessions, Post(l)
          PROVE  \A k \in Sessions : bind[k] = "bound" => bind'[k] = "bound" /\ providers'[k] = providers[k]
      BY <3>3 DEF Post, TypeOK
    <3>4. ASSUME NEW l \in Sessions, Register(l)
          PROVE  \A k \in Sessions : bind[k] = "bound" => bind'[k] = "bound" /\ providers'[k] = providers[k]
      BY <3>4 DEF Register, Building, sourceVars, TypeOK
    <3>5. ASSUME NEW l \in Sessions,
                 (\E row \in specs[l] : LoadRecipe(l, row)) \/ LoadCalled(l) \/ Agent(l)
          PROVE  UNCHANGED <<bind, providers>>
      BY <3>5, AgentLeavesBinding DEF LoadRecipe, LoadCalled, sourceVars, bindVars
    <3>6. CASE Config \/ (\E p \in Providers : Change(p)) \/ Daemon \/ UNCHANGED vars
      BY <3>6 DEF Config, Change, Daemon, ListFleet, Connect, FleetDone, sourceVars, bindVars, vars
    <3> QED
      BY <1>4, <3>1, <3>2, <3>3, <3>4, <3>5, <3>6 DEF Next, Bind
  <2>2. served' = served
    BY <1>4 DEF readVars
  <2> QED
    BY <2>1, <2>2 DEF BundleInv
<1> QED
  BY <1>1, <1>2, <1>3, <1>4, ReadsOnly

\* Two reads of one bundle in one session give the same texts.
THEOREM BundlesVerbatim == Spec => []BundlesAreVerbatim
<1>1. Init => BundleInv
  BY DEF Init, SessionInit, BundleInv
<1>2. BundleInv => BundlesAreVerbatim
  BY DEF BundleInv, BundlesAreVerbatim
<1> QED
  BY <1>1, <1>2, NextVerbatim, TypeCorrect, PTL DEF Spec

-----------------------------------------------------------------------------
(* The configuration a session is governed by.                             *)

\* A route whose recipes and row are among those in what.
Stems(key, entry, what) ==
  /\ entry.policy.parts \subseteq what
  /\ \E n \in Names :
       [server |-> key[1], tool |-> key[2], recipe |-> n, gate |-> entry.gate] \in what

\* While a session is being bound, everything that is stored is fresh for it, and
\* so is everything that was read for it.
FreshInv ==
  \A k \in Sessions :
    /\ bind[k] \in {"idle", "asked"} => DOMAIN router[k] = {} /\ parent[k] = None
    /\ bind[k] \in {"asked", "building"} => Present \subseteq fresh[k] /\ specs[k] \subseteq fresh[k]
    /\ bind[k] = "building" =>
         /\ parent[k] # None => parent[k].row \in fresh[k] /\ parent[k].text \in fresh[k]
         /\ \A key \in DOMAIN router[k] : Stems(key, router[k][key], fresh[k])

\* A route that is admitted stems from the row and the recipe in hand and from
\* the recipes there are.
LEMMA AdmitStems ==
  ASSUME TypeOK, NEW k \in Sessions, NEW row \in Row, NEW text \in Recipes, NEW what,
         Composes(text, files), row \in what, text \in what, Present \subseteq what,
         \A key \in DOMAIN router[k] : Stems(key, router[k][key], what),
         Admit(k, row, text, files) \/ Drop(k, row)
  PROVE  /\ \A key \in DOMAIN router'[k] : Stems(key, router'[k][key], what)
         /\ \A l \in Sessions \ {k} : router'[l] = router[l]
<1>1. CASE Drop(k, row)
  BY <1>1 DEF Drop
<1>2. CASE Admit(k, row, text, files) /\ ~Drop(k, row)
  <2> DEFINE e == [gate |-> row.gate, policy |-> Policy(text, files)]
             now == [key \in (DOMAIN router[k]) \cup {Key(row)} |->
                       IF key = Key(row) THEN e ELSE router[k][key]]
  <2>1. router' = [router EXCEPT ![k] = now]
    BY <1>2 DEF Admit
  <2>2. Stems(Key(row), e, what)
    <3>1. Policy(text, files).parts \subseteq what
      BY PolicyType DEF Present
    <3>2. [server |-> Key(row)[1], tool |-> Key(row)[2], recipe |-> row.recipe, gate |-> e.gate] = row
      BY DEF Key, Row
    <3>3. row.recipe \in Names
      BY DEF Row
    <3> QED
      BY <3>1, <3>2, <3>3 DEF Stems
  <2> HIDE DEF e
  <2>3. \A key \in DOMAIN now : Stems(key, now[key], what)
    BY <2>2
  <2> HIDE DEF now
  <2> QED
    BY <2>1, <2>3 DEF TypeOK
<1> QED
  BY <1>1, <1>2

LEMMA BindStems ==
  ASSUME TypeOK, FreshInv, NEW k \in Sessions, Bind(k)
  PROVE  FreshInv'
<1>0. Present' = Present
  BY DEF Bind, Post, LoadRecipe, LoadCalled, Register, Present, Parses, configVars
<1>1. CASE Post(k)
  BY <1>0, <1>1 DEF Post, FreshInv, TypeOK
<1>2. ASSUME NEW row \in specs[k], LoadRecipe(k, row)
      PROVE  FreshInv'
  <2>1. /\ bind[k] = "building" /\ UNCHANGED <<bind, fresh>>
        /\ specs' = [specs EXCEPT ![k] = @ \ {row}]
    BY <1>2 DEF LoadRecipe, Building
  <2>2. row \in Row /\ row.recipe \in Names /\ row \in fresh[k]
    BY <2>1 DEF TypeOK, Row, FreshInv
  <2>3. CASE ~Parses(files[row.recipe])
    <3>1. router' = router /\ parent' = parent
      BY <1>2, <2>3 DEF LoadRecipe, Drop
    <3> QED
      BY <1>0, <2>1, <3>1 DEF FreshInv, TypeOK
  <2>4. CASE Parses(files[row.recipe])
    <3> DEFINE text == files[row.recipe]
    <3>1. text \in Recipes /\ text \in Present
      BY <2>2, <2>4 DEF Parses, Present, TypeOK, ConfigTypeOK
    <3>2. text \in fresh[k] /\ Present \subseteq fresh[k]
      BY <2>1, <3>1 DEF FreshInv
    <3>3. CASE text.calls = {}
      <4>1. Composes(text, files)
        BY <2>4, <3>3 DEF Composes
      <4>2. Admit(k, row, text, files) /\ parent' = parent
        BY <1>2, <2>4, <3>3 DEF LoadRecipe
      <4>3. \A key \in DOMAIN router[k] : Stems(key, router[k][key], fresh[k])
        BY <2>1 DEF FreshInv
      <4> HIDE DEF text
      <4>4. /\ \A key \in DOMAIN router'[k] : Stems(key, router'[k][key], fresh[k])
            /\ \A l \in Sessions \ {k} : router'[l] = router[l]
        BY <2>2, <3>1, <3>2, <4>1, <4>2, <4>3, AdmitStems
      <4> QED
        BY <1>0, <2>1, <4>2, <4>4 DEF FreshInv, TypeOK
    <3>4. CASE text.calls # {}
      <4>1. /\ parent' = [parent EXCEPT ![k] = [row |-> row, text |-> text]]
            /\ router' = router
        BY <1>2, <2>4, <3>4 DEF LoadRecipe
      <4> HIDE DEF text
      <4> QED
        BY <1>0, <2>1, <2>2, <3>2, <4>1 DEF FreshInv, TypeOK
    <3> QED
      BY <3>3, <3>4
  <2> QED
    BY <2>3, <2>4
<1>3. CASE LoadCalled(k)
  <2> DEFINE text == parent[k].text
             row  == parent[k].row
  <2>1. /\ bind[k] = "building" /\ UNCHANGED <<bind, fresh, specs>> /\ parent[k] # None
        /\ parent' = [parent EXCEPT ![k] = None]
    BY <1>3 DEF LoadCalled, Building
  <2>2. /\ row \in Row /\ text \in Recipes /\ row \in fresh[k] /\ text \in fresh[k]
        /\ Present \subseteq fresh[k]
        /\ \A key \in DOMAIN router[k] : Stems(key, router[k][key], fresh[k])
    BY <2>1 DEF TypeOK, FreshInv
  <2>3. \/ Composes(text, files) /\ Admit(k, row, text, files)
        \/ Drop(k, row)
    BY <1>3 DEF LoadCalled
  <2> HIDE DEF text, row
  <2>4. CASE Composes(text, files) /\ Admit(k, row, text, files)
    <3>1. /\ \A key \in DOMAIN router'[k] : Stems(key, router'[k][key], fresh[k])
          /\ \A l \in Sessions \ {k} : router'[l] = router[l]
      BY <2>2, <2>4, AdmitStems
    <3> QED
      BY <1>0, <2>1, <3>1 DEF FreshInv, TypeOK
  <2>5. CASE Drop(k, row)
    <3>1. router' = router
      BY <2>5 DEF Drop
    <3> QED
      BY <1>0, <2>1, <3>1 DEF FreshInv, TypeOK
  <2> QED
    BY <2>3, <2>4, <2>5
<1>4. CASE Register(k)
  <2>1. \E over \in {"refused", "bound"} : bind' = [bind EXCEPT ![k] = over]
    BY <1>4 DEF Register
  <2>2. /\ fresh' = [fresh EXCEPT ![k] = {}] /\ specs' = specs /\ parent' = parent
        /\ \A l \in Sessions \ {k} : router'[l] = router[l]
    BY <1>4 DEF Register, TypeOK
  <2> QED
    BY <1>0, <2>1, <2>2 DEF FreshInv, TypeOK
<1> QED
  BY <1>1, <1>2, <1>3, <1>4 DEF Bind

LEMMA NextFresh == TypeOK /\ FreshInv /\ [Next]_vars => FreshInv'
<1> SUFFICES ASSUME TypeOK, FreshInv, [Next]_vars
             PROVE  FreshInv'
  OBVIOUS
<1>1. CASE Config
  <2>1. UNCHANGED <<bind, specs, parent, router>>
    BY <1>1 DEF Config, bindVars
  <2>2. ASSUME NEW k \in Sessions, bind[k] \in {"asked", "building"}
        PROVE  fresh'[k] = fresh[k] \cup Present'
    BY <1>1, <2>2 DEF Config
  <2>3. ASSUME NEW k \in Sessions, bind[k] = "building", NEW key \in DOMAIN router[k]
        PROVE  Stems(key, router[k][key], fresh'[k])
    BY <2>2, <2>3 DEF FreshInv, Stems
  <2> QED
    BY <2>1, <2>2, <2>3 DEF FreshInv
<1>2. CASE Restart
  <2>1. Present' = Present /\ specs' = [k \in Sessions |-> IF bind[k] = "building" THEN {} ELSE specs[k]]
    BY <1>2 DEF Restart, Present, Parses, configVars
  <2>2. \A k \in Sessions :
          /\ DOMAIN router'[k] = {} /\ parent'[k] = None
          /\ bind'[k] # "building"
          /\ bind'[k] = "asked" => bind[k] = "asked" /\ fresh'[k] = fresh[k] /\ specs'[k] = specs[k]
    BY <1>2, <2>1 DEF Restart, Empty, TypeOK
  <2> QED
    BY <2>1, <2>2 DEF FreshInv
<1>3. ASSUME NEW k \in Sessions, Ask(k)
      PROVE  FreshInv'
  <2>1. Present' = Present /\ UNCHANGED <<router, parent>> /\ bind[k] = "idle"
    BY <1>3 DEF Ask, Present, Parses, configVars
  <2>2. PICK want \in {{r \in ValidRows : r.recipe = n} : n \in Names}
                       \cup {{r \in ValidRows : r.tool \in T} : T \in SUBSET Tools} :
          IF want = {} THEN bind' = [bind EXCEPT ![k] = "refused"] /\ UNCHANGED <<specs, asked, fresh>>
          ELSE /\ bind' = [bind EXCEPT ![k] = "asked"]
               /\ specs' = [specs EXCEPT ![k] = want]
               /\ asked' = [asked EXCEPT ![k] = {Key(r) : r \in want}]
               /\ fresh' = [fresh EXCEPT ![k] = Present]
    BY <1>3 DEF Ask
  <2>3. want \subseteq Present
    BY DEF ValidRows, Present
  <2>4. CASE want = {}
    BY <2>1, <2>2, <2>4 DEF FreshInv, TypeOK
  <2>5. CASE want # {}
    BY <2>1, <2>2, <2>3, <2>5 DEF FreshInv, TypeOK
  <2> QED
    BY <2>4, <2>5
<1>4. ASSUME NEW k \in Sessions, Bind(k)
      PROVE  FreshInv'
  BY <1>4, BindStems
<1>5. CASE (\E p \in Providers : Change(p)) \/ Daemon \/ UNCHANGED vars
           \/ \E k \in Sessions : Agent(k)
  <2>1. UNCHANGED <<bind, specs, parent, router, fresh>> /\ Present' = Present
    BY <1>5, AgentLeavesBinding
    DEF Change, Daemon, ListFleet, Connect, FleetDone, vars, bindVars, configVars, Present, Parses
  <2> QED
    BY <2>1 DEF FreshInv
<1> QED
  BY <1>1, <1>2, <1>3, <1>4, <1>5 DEF Next

\* Whatever operators write while a session is being bound, each of its routes and
\* each recipe it was composed from was stored in full at some moment of that time.
THEOREM BoundFromFreshConfig == Spec => FreshAtBind
<1>1. Init => FreshInv
  BY DEF Init, FreshInv, Empty
<1>2. ASSUME TypeOK, FreshInv, [Next]_vars
      PROVE  [\A k \in Sessions : bind[k] = "building" /\ bind'[k] = "bound" =>
                \A key \in DOMAIN router'[k] :
                  /\ router'[k][key].policy.parts \subseteq fresh[k]
                  /\ \E n \in Names : [server |-> key[1], tool |-> key[2], recipe |-> n,
                                      gate |-> router'[k][key].gate] \in fresh[k]]_vars
  <2> SUFFICES ASSUME NEW k \in Sessions, bind[k] = "building", bind'[k] = "bound",
                      NEW key \in DOMAIN router'[k]
               PROVE  Stems(key, router'[k][key], fresh[k])
    BY DEF Stems
  <2>1. Register(k)
    <3>1. ~UNCHANGED bind /\ ~Restart
      BY DEF Restart, TypeOK
    <3>2. ASSUME NEW l \in Sessions, Ask(l) PROVE FALSE
      <4>1. bind[l] = "idle" /\ \E b \in {"refused", "asked"} : bind' = [bind EXCEPT ![l] = b]
        BY <3>2 DEF Ask
      <4> QED
        BY <1>2, <4>1 DEF TypeOK
    <3>3. ASSUME NEW l \in Sessions, Bind(l) PROVE Register(k)
      <4>1. CASE Post(l)
        <5>1. bind[l] = "asked" /\ \E b \in {"building", "refused"} : bind' = [bind EXCEPT ![l] = b]
          BY <4>1 DEF Post
        <5> QED
          BY <1>2, <5>1 DEF TypeOK
      <4>2. CASE (\E row \in specs[l] : LoadRecipe(l, row)) \/ LoadCalled(l)
        BY <4>2 DEF LoadRecipe, LoadCalled
      <4>3. CASE Register(l)
        <5>1. \E b \in {"bound", "refused"} : bind' = [bind EXCEPT ![l] = b]
          BY <4>3 DEF Register
        <5> QED
          BY <1>2, <4>3, <5>1 DEF TypeOK
      <4> QED
        BY <3>3, <4>1, <4>2, <4>3 DEF Bind
    <3>4. ~Config /\ ~(\E p \in Providers : Change(p)) /\ ~Daemon /\ ~UNCHANGED vars
          /\ ~(\E l \in Sessions : Agent(l))
      BY <3>1, AgentLeavesBinding
      DEF Config, Change, Daemon, ListFleet, Connect, FleetDone, vars, bindVars
    <3> QED
      BY <1>2, <3>1, <3>2, <3>3, <3>4 DEF Next
  <2> DEFINE kept == {u \in DOMAIN router[k] : Served(u)}
  <2>2. router'[k] = Restrict(router[k], kept)
    BY <1>2, <2>1 DEF Register, TypeOK
  <2>3. key \in DOMAIN router[k] /\ router'[k][key] = router[k][key]
    BY <2>2 DEF Restrict
  <2> QED
    BY <1>2, <2>3 DEF FreshInv
<1> QED
  BY <1>1, <1>2, NextFresh, TypeCorrect, PTL DEF Spec, FreshAtBind

-----------------------------------------------------------------------------
(* The contract.                                                           *)

\* The rows that are not resolved yet.
Pending(k) == specs[k] \cup (IF parent[k] = None THEN {} ELSE {parent[k].row})

\* Every row is resolved once: what is pending is neither routed nor reported, and
\* what is routed is not reported.
Once(k) ==
  /\ Keyed(Pending(k))
  /\ parent[k] # None => parent[k].row \notin specs[k]
  /\ \A row \in Pending(k) : Key(row) \notin DOMAIN router[k] \cup errors[k]
  /\ DOMAIN router[k] \cap errors[k] = {}

OnceInv == \A k \in Sessions : bind[k] \in {"asked", "building", "bound"} => Once(k)

\* Resolving a row routes or reports its key, not both.
LEMMA AdmitOnce ==
  ASSUME TypeOK, NEW k \in Sessions, NEW row \in Row, NEW text,
         Admit(k, row, text, files) \/ Drop(k, row),
         Key(row) \notin DOMAIN router[k] \cup errors[k], DOMAIN router[k] \cap errors[k] = {}
  PROVE  DOMAIN router'[k] \cap errors'[k] = {}
<1>1. CASE Drop(k, row)
  BY <1>1 DEF Drop, TypeOK
<1>2. CASE Admit(k, row, text, files) /\ ~Drop(k, row)
  <2> DEFINE now == [key \in (DOMAIN router[k]) \cup {Key(row)} |->
                       IF key = Key(row) THEN [gate |-> row.gate, policy |-> Policy(text, files)]
                       ELSE router[k][key]]
  <2>1. router' = [router EXCEPT ![k] = now] /\ errors' = errors
    BY <1>2 DEF Admit
  <2>2. DOMAIN now = (DOMAIN router[k]) \cup {Key(row)}
    OBVIOUS
  <2> HIDE DEF now
  <2> QED
    BY <2>1, <2>2 DEF TypeOK
<1> QED
  BY <1>1, <1>2

\* A row that is resolved is not pending any more.
LEMMA ResolvedOnce ==
  ASSUME TypeOK, NEW k \in Sessions, Once(k), NEW row \in Pending(k), row \in Row,
         Pending(k)' = Pending(k) \ {row}, parent'[k] = None,
         DOMAIN router'[k] \cup errors'[k] = DOMAIN router[k] \cup errors[k] \cup {Key(row)},
         DOMAIN router'[k] \cap errors'[k] = {}
  PROVE  Once(k)'
<1>1. \A r \in Pending(k) : r # row => Key(r) # Key(row)
  BY DEF Once, Keyed, SameKey, Key
<1>2. Keyed(Pending(k)')
  BY DEF Once, Keyed
<1>3. \A r \in Pending(k)' : Key(r) \notin DOMAIN router'[k] \cup errors'[k]
  BY <1>1 DEF Once
<1> QED
  BY <1>2, <1>3 DEF Once, Keyed, Key

LEMMA BindOnce ==
  ASSUME TypeOK, OnceInv, NEW k \in Sessions, Bind(k)
  PROVE  OnceInv'
<1>1. CASE Post(k)
  <2>1. UNCHANGED <<parent, router, errors>> /\ bind[k] = "asked"
    BY <1>1 DEF Post
  <2>2. \A l \in Sessions : /\ bind'[l] \in {"asked", "building", "bound"} =>
                                bind[l] \in {"asked", "building", "bound"}
                            /\ specs'[l] = specs[l] \/ bind'[l] = "refused"
    BY <1>1 DEF Post, TypeOK
  <2> QED
    BY <2>1, <2>2 DEF OnceInv, Once, Pending, Keyed, Key
<1>2. ASSUME NEW row \in specs[k], LoadRecipe(k, row)
      PROVE  OnceInv'
  <2>1. /\ bind[k] = "building" /\ bind' = bind /\ parent[k] = None
        /\ specs' = [specs EXCEPT ![k] = @ \ {row}]
    BY <1>2 DEF LoadRecipe, Building
  <2>2. row \in Row /\ row \in Pending(k) /\ Once(k)
    BY <2>1 DEF TypeOK, Pending, OnceInv
  <2>3. \A l \in Sessions \ {k} : /\ router'[l] = router[l] /\ errors'[l] = errors[l]
                                  /\ parent'[l] = parent[l] /\ specs'[l] = specs[l]
    BY <1>2, <2>2, AdmitTells DEF LoadRecipe, TypeOK
  <2>4. specs'[k] = specs[k] \ {row}
    BY <2>1 DEF TypeOK
  <2> DEFINE waits == Parses(files[row.recipe]) /\ files[row.recipe].calls # {}
  <2>5. CASE ~waits
    <3>1. parent' = parent
          /\ (Admit(k, row, files[row.recipe], files) \/ Drop(k, row))
      BY <1>2, <2>5 DEF LoadRecipe
    <3>2. /\ DOMAIN router'[k] \cup errors'[k] = DOMAIN router[k] \cup errors[k] \cup {Key(row)}
          /\ DOMAIN router'[k] \cap errors'[k] = {}
      BY <2>2, <3>1, AdmitTells, AdmitOnce DEF Once
    <3>3. Pending(k)' = Pending(k) \ {row} /\ parent'[k] = None
      BY <2>1, <2>4, <3>1 DEF Pending
    <3>4. Once(k)'
      BY <2>2, <3>2, <3>3, ResolvedOnce
    <3> QED
      BY <2>1, <2>3, <3>4 DEF OnceInv, Once, Pending, Keyed, Key
  <2>6. CASE waits
    <3>1. /\ parent' = [parent EXCEPT ![k] = [row |-> row, text |-> files[row.recipe]]]
          /\ UNCHANGED <<router, errors>>
      BY <1>2, <2>6 DEF LoadRecipe
    <3>2. parent'[k].row = row /\ parent'[k] # None
      BY <3>1 DEF TypeOK, None
    <3>3. Pending(k)' = Pending(k)
      BY <2>1, <2>4, <3>2 DEF Pending
    <3>4. Once(k)'
      BY <2>2, <2>4, <3>1, <3>2, <3>3 DEF Once, Keyed, Key
    <3> QED
      BY <2>1, <2>3, <3>4 DEF OnceInv, Once, Pending, Keyed, Key
  <2> QED
    BY <2>5, <2>6
<1>3. CASE LoadCalled(k)
  <2> DEFINE row == parent[k].row
  <2>1. /\ bind[k] = "building" /\ bind' = bind /\ specs' = specs
        /\ parent[k] # None /\ parent' = [parent EXCEPT ![k] = None]
        /\ (Admit(k, row, parent[k].text, files) \/ Drop(k, row))
    BY <1>3 DEF LoadCalled, Building
  <2>2. row \in Row /\ row \in Pending(k) /\ Once(k)
    BY <2>1 DEF TypeOK, Pending, OnceInv
  <2> HIDE DEF row
  <2>3. /\ DOMAIN router'[k] \cup errors'[k] = DOMAIN router[k] \cup errors[k] \cup {Key(row)}
        /\ DOMAIN router'[k] \cap errors'[k] = {}
        /\ \A l \in Sessions \ {k} : router'[l] = router[l] /\ errors'[l] = errors[l]
    BY <2>1, <2>2, AdmitTells, AdmitOnce DEF Once
  <2>4. parent'[k] = None /\ \A l \in Sessions \ {k} : parent'[l] = parent[l]
    BY <2>1 DEF TypeOK
  <2>5. Pending(k)' = Pending(k) \ {row}
    BY <2>1, <2>2, <2>4 DEF Pending, Once, row
  <2>6. Once(k)'
    BY <2>2, <2>3, <2>4, <2>5, ResolvedOnce
  <2> QED
    BY <2>1, <2>3, <2>4, <2>6 DEF OnceInv, Once, Pending, Keyed, Key
<1>4. CASE Register(k)
  <2> DEFINE kept == {key \in DOMAIN router[k] : Served(key)}
  <2>1. /\ bind[k] = "building" /\ specs[k] = {} /\ parent[k] = None
        /\ specs' = specs /\ parent' = parent
        /\ router' = [router EXCEPT ![k] = Restrict(router[k], kept)]
        /\ errors' = [errors EXCEPT ![k] = errors[k] \cup (DOMAIN router[k] \ kept)]
        /\ \A l \in Sessions \ {k} : bind'[l] = bind[l]
    BY <1>4 DEF Register, Building, TypeOK
  <2>2. DOMAIN Restrict(router[k], kept) = kept /\ kept \subseteq DOMAIN router[k]
    BY DEF Restrict
  <2> HIDE DEF kept
  <2>3. /\ DOMAIN router'[k] = kept /\ errors'[k] = errors[k] \cup (DOMAIN router[k] \ kept)
        /\ \A l \in Sessions \ {k} : router'[l] = router[l] /\ errors'[l] = errors[l]
    BY <2>1, <2>2 DEF TypeOK
  <2>4. DOMAIN router'[k] \cap errors'[k] = {}
    BY <2>1, <2>2, <2>3 DEF OnceInv, Once
  <2>5. Pending(k)' = {} /\ parent'[k] = None
    BY <2>1 DEF Pending
  <2>6. Once(k)'
    BY <2>4, <2>5 DEF Once, Keyed
  <2> QED
    BY <2>1, <2>3, <2>6 DEF OnceInv, Once, Pending, Keyed, Key
<1> QED
  BY <1>1, <1>2, <1>3, <1>4 DEF Bind

LEMMA NextOnce == TypeOK /\ ToldInv /\ OnceInv /\ [Next]_vars => OnceInv'
<1> SUFFICES ASSUME TypeOK, ToldInv, OnceInv, [Next]_vars PROVE OnceInv'
  OBVIOUS
<1>1. CASE Config \/ (\E p \in Providers : Change(p)) \/ Daemon \/ UNCHANGED vars
           \/ \E k \in Sessions : Agent(k)
  <2>1. UNCHANGED bindVars
    BY <1>1, AgentLeavesBinding
    DEF Config, Change, Daemon, ListFleet, Connect, FleetDone, vars
  <2> QED
    BY <2>1 DEF bindVars, OnceInv, Once, Pending, Keyed, Key
<1>2. CASE Restart
  <2> SUFFICES ASSUME NEW k \in Sessions, bind'[k] \in {"asked", "building", "bound"}
               PROVE  Once(k)'
    BY DEF OnceInv
  <2>1. bind[k] = "asked" /\ bind'[k] = "asked"
    BY <1>2 DEF Restart, TypeOK
  <2>2. /\ specs'[k] = specs[k] /\ parent'[k] = None /\ router'[k] = Empty /\ errors'[k] = errors[k]
    BY <1>2, <2>1 DEF Restart
  <2>3. parent[k] = None /\ errors[k] = {} /\ DOMAIN router'[k] = {}
    BY <2>1, <2>2 DEF ToldInv, Empty
  <2>4. Pending(k)' = Pending(k) /\ Keyed(Pending(k))
    BY <2>1, <2>2, <2>3 DEF Pending, OnceInv, Once
  <2> QED
    BY <2>2, <2>3, <2>4 DEF Once
<1>3. ASSUME NEW k \in Sessions, Ask(k)
      PROVE  OnceInv'
  <2>1. /\ bind[k] = "idle" /\ UNCHANGED <<parent, router, errors>>
        /\ \A l \in Sessions \ {k} : bind'[l] = bind[l] /\ specs'[l] = specs[l]
    BY <1>3 DEF Ask, TypeOK
  <2>2. parent[k] = None /\ errors[k] = {} /\ DOMAIN router[k] = {}
    BY <2>1 DEF ToldInv
  <2>3. bind'[k] = "refused" \/ specs'[k] \subseteq routes
    BY <1>3 DEF Ask, ValidRows, TypeOK
  <2>4. bind'[k] = "refused" \/ Once(k)'
    <3>1. Keyed(routes)
      BY DEF TypeOK, ConfigTypeOK
    <3> QED
      BY <2>1, <2>2, <2>3, <3>1 DEF Once, Pending, Keyed
  <2> QED
    BY <2>1, <2>4 DEF OnceInv, Once, Pending, Keyed, Key
<1>4. ASSUME NEW k \in Sessions, Bind(k)
      PROVE  OnceInv'
  BY <1>4, BindOnce
<1> QED
  BY <1>1, <1>2, <1>3, <1>4 DEF Next

\* A line names the tool of its route, whoever reports it.
Named(K) == [t \in Tools |-> Cardinality({key \in K : key[2] = t})]

Told ==
  [k \in Sessions |-> IF bind[k] = "bound" THEN Named(errors[k]) ELSE [t \in Tools |-> 0]]

LEMMA NoticeIsTold == Notice = Told /\ Notice' = Told'
<1>1. \A k \in Sessions : \A key : Line(k, key).tool = key[2] /\ Line(k, key)'.tool = key[2]
  BY DEF Line
<1>2. \A k \in Sessions : \A t \in Tools :
        /\ {key \in errors[k] : Line(k, key).tool = t} = {key \in errors[k] : key[2] = t}
        /\ {key \in errors'[k] : Line(k, key)'.tool = t} = {key \in errors'[k] : key[2] = t}
  BY <1>1
<1>3. Notice = Told
  BY <1>2 DEF Notice, Told, Named
<1>4. Notice' = Told'
  BY <1>2 DEF Notice, Told, Named
<1> QED
  BY <1>3, <1>4

\* The answer that binds a session has, for each tool, exactly as many lines as
\* routes to it were asked for and not bound, for any number of sessions bound
\* at once, whatever is edited and restarted meanwhile.  Which server such a
\* route was to it does not say.
THEOREM PartialBindingsAreTold == Spec => []PartialIsTold
<1>1. Init => ToldInv /\ OnceInv
  BY DEF Init, ToldInv, Unresolved, Empty, OnceInv
<1>2. ToldInv /\ OnceInv => PartialIsTold
  <2> SUFFICES ASSUME ToldInv, OnceInv, NEW k \in Sessions, bind[k] = "bound", NEW t \in Tools
               PROVE  Notice[k][t] = Cardinality({key \in asked[k] \ DOMAIN router[k] : key[2] = t})
    BY DEF PartialIsTold
  <2>1. errors[k] = asked[k] \ DOMAIN router[k]
    BY DEF ToldInv, OnceInv, Once
  <2>2. Notice[k][t] = Cardinality({key \in errors[k] : key[2] = t})
    BY NoticeIsTold DEF Told, Named
  <2> QED
    BY <2>1, <2>2
<1> QED
  BY <1>1, <1>2, NextTells, NextOnce, TypeCorrect, PTL DEF Spec

\* The calls forwarded under a contract, each with its place among the calls of its
\* session.
CountInv ==
  \A k \in Sessions :
    /\ IsFiniteSet(CrossingsOf(k))
    /\ \A x \in CrossingsOf(k) : x.nth \in Nat /\ x.nth < calls[k]

LEMMA NextCounted == TypeOK /\ CountInv /\ [Next]_vars => CountInv'
<1> SUFFICES ASSUME TypeOK, CountInv, [Next]_vars PROVE CountInv'
  OBVIOUS
<1>1. CASE Restart
  <2>1. \A k \in Sessions : CrossingsOf(k)' = {}
    BY <1>1 DEF Restart, CrossingsOf
  <2> QED
    BY <2>1, FS_EmptySet DEF CountInv
<1>2. ASSUME NEW k \in Sessions, NEW key \in Keys, NEW sent \in SUBSET Args,
             CallForwarded(k, key, sent)
      PROVE  CountInv'
  <2> DEFINE x == [session |-> k, nth |-> calls[k], key |-> key, sent |-> sent,
                   entry |-> router[k][key]]
  <2>1. /\ crossings' = crossings \cup {x} /\ x.session = k /\ x.nth = calls[k]
        /\ calls' = [calls EXCEPT ![k] = @ + 1]
    BY <1>2 DEF CallForwarded, Calling
  <2> HIDE DEF x
  <2>2. calls[k] \in Nat /\ calls'[k] = calls[k] + 1
    BY <2>1, BindingAssumption DEF TypeOK
  <2>3. CrossingsOf(k)' = CrossingsOf(k) \cup {x}
    BY <2>1 DEF CrossingsOf
  <2>4. \A l \in Sessions \ {k} : CrossingsOf(l)' = CrossingsOf(l) /\ calls'[l] = calls[l]
    BY <2>1 DEF CrossingsOf, TypeOK
  <2>5. IsFiniteSet(CrossingsOf(k)')
    BY <2>3, FS_AddElement DEF CountInv
  <2>6. \A y \in CrossingsOf(k)' : y.nth \in Nat /\ y.nth < calls'[k]
    BY <2>1, <2>2, <2>3 DEF CountInv
  <2> QED
    BY <2>4, <2>5, <2>6 DEF CountInv
<1>3. CASE UNCHANGED crossings /\ ~Restart
  <2>1. \A k \in Sessions : CrossingsOf(k)' = CrossingsOf(k)
    BY <1>3 DEF CrossingsOf
  <2> QED
    BY <1>3, <2>1, CallsGrow DEF CountInv
<1> QED
  BY <1>1, <1>2, <1>3, CountersKept

-----------------------------------------------------------------------------

\* A function of which one value changes.
LEMMA ChangedAt ==
  ASSUME NEW S, NEW F, NEW G, F = [x \in S |-> F[x]], G = [x \in S |-> G[x]],
         NEW k \in S, NEW v, G[k] = v, \A l \in S \ {k} : G[l] = F[l]
  PROVE  G = [F EXCEPT ![k] = v]
OBVIOUS

LEMMA OutsideBySession ==
  /\ Standing = [k \in Sessions |-> Standing[k]] /\ Standing' = [k \in Sessions |-> Standing'[k]]
  /\ Agreed = [k \in Sessions |-> Agreed[k]] /\ Agreed' = [k \in Sessions |-> Agreed'[k]]
  /\ Told = [k \in Sessions |-> Told[k]] /\ Told' = [k \in Sessions |-> Told'[k]]
BY DEF Standing, Agreed, Told

\* The contract counts the routes of a tool as the answer does.
LEMMA CountedByTool ==
  ASSUME NEW K \in SUBSET Keys
  PROVE  Promise!NotToBeHad(K) = Named(K)
<1> DEFINE toolOf == [key \in Keys |-> key[2]]
<1>1. \A t \in Tools : {r \in K : toolOf[r] = t} = {key \in K : key[2] = t}
  OBVIOUS
<1>2. Promise!NotToBeHad(K) = [t \in Tools |-> Cardinality({r \in K : toolOf[r] = t})]
  <2>1. \A S : Promise!Cardinality(S) = Cardinality(S)
    BY DEF Promise!Cardinality, Cardinality
  <2> QED
    BY <2>1 DEF Promise!NotToBeHad
<1> HIDE DEF toolOf
<1>3. \A t \in Tools : Cardinality({r \in K : toolOf[r] = t}) = Cardinality({key \in K : key[2] = t})
  BY <1>1, Zenon
<1> QED
  BY <1>2, <1>3, Zenon DEF Named

\* Nothing is not to be had.
LEMMA NothingMissing == Promise!NotToBeHad({}) = [t \in Tools |-> 0]
<1>1. \A t \in Tools : {key \in {} : key[2] = t} = {}
  OBVIOUS
<1>2. Named({}) = [t \in Tools |-> 0]
  BY <1>1, FS_EmptySet DEF Named
<1> QED
  BY <1>2, CountedByTool

\* What a session looks like depends on no more than this.
LEMMA SameOutside ==
  ASSUME UNCHANGED <<bind, router, errors, asked, requireBounded, crossings>>
  PROVE  UNCHANGED Promise!vars
<1>1. /\ Standing' = Standing /\ Agreed' = Agreed
      /\ Notice' = Notice /\ Forwarded' = Forwarded
  <2>1. Told' = Told
    BY DEF Told
  <2> QED
    BY <2>1, NoticeIsTold DEF Standing, Agreed, Forwarded
<1> QED
  BY <1>1 DEF Promise!vars

LEMMA AskRefines ==
  ASSUME TypeOK, NEW k \in Sessions, Ask(k)
  PROVE  Promise!Next
<1>1. /\ bind[k] = "idle" /\ bind'[k] \in {"asked", "refused"}
      /\ bind' = [bind EXCEPT ![k] = bind'[k]]
      /\ UNCHANGED <<router, errors, requireBounded, crossings>>
  BY DEF Ask, TypeOK, daemonVars, sessionVars, callVars
<1>2. Standing' = [Standing EXCEPT ![k] = bind'[k]] /\ Standing[k] = "idle"
  <2>1. /\ bind'[k] # "building" /\ bind'[k] # "lost"
        /\ \A l \in Sessions \ {k} : bind'[l] = bind[l]
    BY <1>1 DEF TypeOK
  <2>2. Standing'[k] = bind'[k] /\ \A l \in Sessions \ {k} : Standing'[l] = Standing[l]
    BY <2>1 DEF Standing
  <2>3. Standing[k] = "idle"
    BY <1>1 DEF Standing
  <2> QED
    BY <2>2, <2>3 DEF Standing
<1>3. Agreed' = Agreed /\ Notice' = Notice /\ Forwarded' = Forwarded
  <2>1. \A l \in Sessions : bind'[l] = "bound" <=> bind[l] = "bound"
    BY <1>1 DEF TypeOK
  <2>2. \A l \in Sessions : {x \in DOMAIN router'[l] : bind'[l] = "bound"}
                              = {x \in DOMAIN router[l] : bind[l] = "bound"}
    BY <1>1, <2>1
  <2>3. Agreed' = Agreed
    BY <1>1, <2>2 DEF Agreed
  <2>4. Told' = Told
    BY <1>1, <2>1 DEF Told
  <2> QED
    BY <1>1, <2>3, <2>4, NoticeIsTold DEF Forwarded
<1>4. CASE bind'[k] = "refused"
  <2>1. asked' = asked
    BY <1>4 DEF Ask, TypeOK
  <2>2. Promise!Refuse(k)
    BY <1>1, <1>2, <1>3, <1>4, <2>1 DEF Promise!Refuse
  <2> QED
    BY <2>2 DEF Promise!Next
<1>5. CASE bind'[k] = "asked"
  <2>1. PICK want : /\ want # {} /\ want \subseteq ValidRows
                    /\ asked' = [asked EXCEPT ![k] = {Key(r) : r \in want}]
    BY <1>5 DEF Ask, TypeOK
  <2>2. {Key(r) : r \in want} \in SUBSET Keys
    BY <2>1 DEF ValidRows, TypeOK, ConfigTypeOK, Row, Key, Keys
  <2>3. {Key(r) : r \in want} # {}
    BY <2>1
  <2>4. Promise!Ask(k, {Key(r) : r \in want})
    BY <1>1, <1>2, <1>3, <1>5, <2>1, <2>3 DEF Promise!Ask
  <2> QED
    BY <2>2, <2>4 DEF Promise!Next
<1> QED
  BY <1>1, <1>4, <1>5

\* An answer that binds nothing, or none at all.
LEMMA RefuseRefines ==
  ASSUME TypeOK, NEW k \in Sessions, bind[k] \in {"asked", "building"},
         bind' = [bind EXCEPT ![k] = "refused"], \A l \in Sessions \ {k} :
           router'[l] = router[l] /\ errors'[l] = errors[l],
         UNCHANGED <<asked, requireBounded, crossings>>
  PROVE  Promise!Next
<1>1. Standing' = [Standing EXCEPT ![k] = "refused"] /\ Standing[k] = "asked"
  BY DEF Standing, TypeOK
<1>2. \A l \in Sessions : bind'[l] = "bound" <=> bind[l] = "bound"
  BY DEF TypeOK
<1>3. bind[k] # "bound" /\ bind'[k] # "bound"
  BY <1>2
<1>4. Agreed' = Agreed
  <2>1. ASSUME NEW l \in Sessions
        PROVE  [key \in {x \in DOMAIN router'[l] : bind'[l] = "bound"} |->
                  [judged |-> router'[l][key].gate, passed |-> router'[l][key].policy.passes]]
               = [key \in {x \in DOMAIN router[l] : bind[l] = "bound"} |->
                  [judged |-> router[l][key].gate, passed |-> router[l][key].policy.passes]]
    BY <1>2, <1>3
  <2> QED
    BY <2>1 DEF Agreed
<1>5. Notice' = Notice
  <2>1. Told' = Told
    BY <1>2, <1>3 DEF Told
  <2> QED
    BY <2>1, NoticeIsTold
<1>6. Forwarded' = Forwarded
  BY DEF Forwarded
<1>7. Promise!Refuse(k)
  BY <1>1, <1>4, <1>5, <1>6 DEF Promise!Refuse
<1> QED
  BY <1>7 DEF Promise!Next

\* Nothing shows of what the daemon does while it builds.
LEMMA BuildHidden ==
  ASSUME TypeOK, NEW k \in Sessions, bind[k] \in {"asked", "building"},
         bind' = [bind EXCEPT ![k] = "building"], \A l \in Sessions \ {k} :
           router'[l] = router[l] /\ errors'[l] = errors[l],
         UNCHANGED <<asked, requireBounded, crossings>>
  PROVE  UNCHANGED Promise!vars
<1>1. Standing' = Standing
  BY DEF Standing, TypeOK
<1>2. \A l \in Sessions : bind'[l] = "bound" <=> bind[l] = "bound"
  BY DEF TypeOK
<1>3. bind[k] # "bound" /\ bind'[k] # "bound"
  BY <1>2
<1>4. Agreed' = Agreed
  <2>1. ASSUME NEW l \in Sessions
        PROVE  [key \in {x \in DOMAIN router'[l] : bind'[l] = "bound"} |->
                  [judged |-> router'[l][key].gate, passed |-> router'[l][key].policy.passes]]
               = [key \in {x \in DOMAIN router[l] : bind[l] = "bound"} |->
                  [judged |-> router[l][key].gate, passed |-> router[l][key].policy.passes]]
    BY <1>2, <1>3
  <2> QED
    BY <2>1 DEF Agreed
<1>5. Notice' = Notice
  <2>1. Told' = Told
    BY <1>2, <1>3 DEF Told
  <2> QED
    BY <2>1, NoticeIsTold
<1>6. Forwarded' = Forwarded
  BY DEF Forwarded
<1> QED
  BY <1>1, <1>4, <1>5, <1>6 DEF Promise!vars

\* The answer that binds is the contract.
LEMMA RegisterRefines ==
  ASSUME TypeOK, ToldInv, OnceInv, SoundInv, NEW k \in Sessions, Register(k)
  PROVE  Promise!Next
<1> DEFINE kept == {key \in DOMAIN router[k] : Served(key)}
           T == [key \in kept |-> [judged |-> router[k][key].gate,
                                   passed |-> router[k][key].policy.passes]]
<1>1. /\ bind[k] = "building" /\ specs[k] = {} /\ parent[k] = None
      /\ router' = [router EXCEPT ![k] = Restrict(router[k], kept)]
      /\ errors' = [errors EXCEPT ![k] = errors[k] \cup (DOMAIN router[k] \ kept)]
      /\ bind' = [bind EXCEPT ![k] = IF kept = {} THEN "refused" ELSE "bound"]
      /\ UNCHANGED <<asked, requireBounded, crossings>>
  BY DEF Register, Building, daemonVars, sessionVars, callVars
<1>2. /\ DOMAIN Restrict(router[k], kept) = kept /\ kept \subseteq DOMAIN router[k]
      /\ \A key \in kept : Restrict(router[k], kept)[key] = router[k][key]
  BY DEF Restrict
<1>3. \A key \in kept : T[key] = [judged |-> router[k][key].gate,
                                  passed |-> router[k][key].policy.passes]
  OBVIOUS
<1>4. DOMAIN T = kept /\ T = [key \in kept |-> T[key]]
  OBVIOUS
<1>5. \A key \in kept : T[key] \in Promise!Term
  <2> SUFFICES ASSUME NEW key \in kept PROVE T[key] \in Promise!Term
    OBVIOUS
  <2>1. router[k][key] \in Entry
    BY <1>2 DEF TypeOK
  <2> QED
    BY <1>3, <2>1 DEF Entry, Promise!Term
<1> HIDE DEF kept, T
<1>6. \A l \in Sessions \ {k} : router'[l] = router[l] /\ errors'[l] = errors[l] /\ bind'[l] = bind[l]
  BY <1>1 DEF TypeOK
<1>7. CASE kept = {}
  <2>1. bind' = [bind EXCEPT ![k] = "refused"]
    BY <1>1, <1>7
  <2> QED
    BY <1>1, <1>6, <2>1, RefuseRefines
<1>8. CASE kept # {}
  <2>1. /\ bind' = [bind EXCEPT ![k] = "bound"] /\ bind'[k] = "bound"
        /\ router'[k] = Restrict(router[k], kept)
        /\ errors'[k] = errors[k] \cup (DOMAIN router[k] \ kept)
    BY <1>1, <1>8 DEF TypeOK
  <2>2. asked[k] = DOMAIN router[k] \cup errors[k] /\ DOMAIN router[k] \cap errors[k] = {}
    BY <1>1 DEF ToldInv, OnceInv, Once, Unresolved
  <2>3. kept \in SUBSET asked[k] /\ errors'[k] = asked[k] \ kept
    BY <1>2, <2>1, <2>2
  <2>4. requireBounded => \A key \in kept : T[key].passed = {}
    <3> SUFFICES ASSUME requireBounded, NEW key \in kept PROVE T[key].passed = {}
      OBVIOUS
    <3>1. Sound(router[k][key])
      BY <1>2 DEF SoundInv
    <3>2. router[k][key].policy.passes = {}
      BY <3>1 DEF Sound, Unbounded
    <3>3. T[key] = [judged |-> router[k][key].gate, passed |-> router[k][key].policy.passes]
      BY <1>3
    <3> QED
      BY <3>2, <3>3
  <2>5. Standing' = [Standing EXCEPT ![k] = "bound"] /\ Standing[k] = "asked"
    <3>1. Standing[k] = "asked"
      BY <1>1 DEF Standing
    <3>2. Standing'[k] = "bound"
      BY <2>1 DEF Standing
    <3>3. \A l \in Sessions \ {k} : Standing'[l] = Standing[l]
      BY <1>6 DEF Standing
    <3> QED
      BY <3>1, <3>2, <3>3, OutsideBySession, ChangedAt
  <2>6. Notice' = [Notice EXCEPT ![k] = Promise!NotToBeHad(asked[k] \ kept)]
    <3>1. Told'[k] = Named(asked[k] \ kept) /\ \A l \in Sessions \ {k} : Told'[l] = Told[l]
      BY <1>6, <2>1, <2>3 DEF Told, Named
    <3>2. Told' = [Told EXCEPT ![k] = Named(asked[k] \ kept)]
      BY <3>1, OutsideBySession, ChangedAt
    <3>3. asked[k] \ kept \in SUBSET Keys
      BY DEF TypeOK
    <3> QED
      BY <3>2, <3>3, NoticeIsTold, CountedByTool
  <2>7. Agreed' = [Agreed EXCEPT ![k] = T]
    <3>1. Agreed'[k] = T
      <4>1. {x \in DOMAIN router'[k] : bind'[k] = "bound"} = kept
        BY <1>2, <2>1
      <4>2. \A key \in kept : T[key] = [judged |-> router'[k][key].gate,
                                        passed |-> router'[k][key].policy.passes]
        BY <1>2, <1>3, <2>1
      <4>3. Agreed'[k] = [key \in {x \in DOMAIN router'[k] : bind'[k] = "bound"} |->
                            [judged |-> router'[k][key].gate,
                             passed |-> router'[k][key].policy.passes]]
        BY DEF Agreed
      <4>4. Agreed'[k] = [key \in kept |-> [judged |-> router'[k][key].gate,
                                           passed |-> router'[k][key].policy.passes]]
        BY <4>1, <4>3
      <4>5. Agreed'[k] = [key \in kept |-> T[key]]
        BY <4>2, <4>4
      <4> QED
        BY <1>4, <4>5
    <3>2. \A l \in Sessions \ {k} : Agreed'[l] = Agreed[l]
      BY <1>6 DEF Agreed
    <3> QED
      BY <3>1, <3>2, OutsideBySession, ChangedAt
  <2>8. Forwarded' = Forwarded
    BY <1>1 DEF Forwarded
  <2>9. Promise!Agree(k, kept, T)
    BY <1>1, <1>8, <2>4, <2>5, <2>6, <2>7, <2>8 DEF Promise!Agree
  <2>10. T \in [kept -> Promise!Term]
    BY <1>4, <1>5
  <2> QED
    BY <2>3, <2>9, <2>10 DEF Promise!Next
<1> QED
  BY <1>7, <1>8

\* A call that is forwarded is one of the contract.
LEMMA ForwardRefines ==
  ASSUME TypeOK, CapInv, CountInv, NEW k \in Sessions, NEW key \in Keys, NEW sent \in SUBSET Args,
         CallForwarded(k, key, sent)
  PROVE  Promise!Next
<1> DEFINE x == [session |-> k, nth |-> calls[k], key |-> key, sent |-> sent,
                 entry |-> router[k][key]]
<1>1. /\ bind[k] = "bound" /\ key \in DOMAIN router[k] /\ router[k][key].gate \subseteq sent
      /\ sent \subseteq router[k][key].gate \cup router[k][key].policy.passes
      /\ crossings' = crossings \cup {x} /\ x.session = k /\ x.nth = calls[k]
      /\ Limit > 0 => ~(spent[k] >= Limit)
      /\ UNCHANGED <<bind, router, errors, asked, requireBounded>>
  BY DEF CallForwarded, Calling, Offered, Clears, Covered, Exhausted, bindVars, daemonVars
<1> HIDE DEF x
<1>2. Standing' = Standing /\ Agreed' = Agreed /\ Notice' = Notice
  BY <1>1, NoticeIsTold DEF Standing, Agreed, Told
<1>3. Standing[k] = "bound"
  BY <1>1 DEF Standing
<1>4. /\ key \in DOMAIN Agreed[k]
      /\ Agreed[k][key] = [judged |-> router[k][key].gate, passed |-> router[k][key].policy.passes]
  BY <1>1 DEF Agreed
<1>5. x \notin CrossingsOf(k) /\ CrossingsOf(k)' = CrossingsOf(k) \cup {x}
  <2>1. calls[k] \in Nat
    BY BindingAssumption DEF TypeOK
  <2>2. x \notin CrossingsOf(k)
    BY <1>1, <2>1 DEF CountInv
  <2> QED
    BY <1>1, <2>2 DEF CrossingsOf
<1>6. \A l \in Sessions \ {k} : CrossingsOf(l)' = CrossingsOf(l)
  BY <1>1 DEF CrossingsOf
<1>7. IsFiniteSet(CrossingsOf(k)) /\ Cardinality(CrossingsOf(k)) \in Nat
  BY FS_CardinalityType DEF CountInv
<1>8. Cardinality(CrossingsOf(k)') = Cardinality(CrossingsOf(k)) + 1
  BY <1>5, <1>7, FS_AddElement
<1>9. Forwarded = [l \in Sessions |-> Cardinality(CrossingsOf(l))]
  BY DEF Forwarded, CrossingsOf
<1>10. Forwarded' = [l \in Sessions |-> Cardinality(CrossingsOf(l)')]
  BY DEF Forwarded, CrossingsOf
<1>11. Forwarded' = [Forwarded EXCEPT ![k] = @ + 1]
  BY <1>6, <1>8, <1>9, <1>10
<1>12. Limit > 0 => Forwarded[k] < Limit
  <2>1. spent[k] \in Nat /\ Limit \in Nat
    BY BindingAssumption DEF TypeOK
  <2>2. Limit > 0 => Cardinality(CrossingsOf(k)) <= spent[k]
    BY DEF CapInv
  <2> QED
    BY <1>1, <1>7, <1>9, <2>1, <2>2
<1>13. Promise!Forward(k, key, sent)
  BY <1>1, <1>2, <1>3, <1>4, <1>11, <1>12 DEF Promise!Forward
<1> QED
  BY <1>4, <1>13 DEF Promise!Next

\* The daemon dies with its contracts and the requests it was serving.
LEMMA RestartRefines ==
  ASSUME TypeOK, Restart
  PROVE  Promise!Next
<1> DEFINE L == {k \in Sessions : bind[k] = "building"}
<1>1. /\ bind' = [k \in Sessions |-> IF bind[k] \in {"building", "bound"} THEN "lost" ELSE bind[k]]
      /\ UNCHANGED <<asked, requireBounded>> /\ crossings' = {}
      /\ \A k \in Sessions : bind'[k] # "bound"
  BY DEF Restart
<1>2. \A k \in L : Standing[k] = "asked"
  BY DEF Standing
<1>3. Standing' = [k \in Sessions |->
                     IF Standing[k] = "bound" \/ k \in L THEN "over" ELSE Standing[k]]
  BY <1>1 DEF Standing, TypeOK
<1>4. Agreed' = [k \in Sessions |-> Promise!NoTerms]
  <2>1. ASSUME NEW k \in Sessions
        PROVE  [key \in {x \in DOMAIN router'[k] : bind'[k] = "bound"} |->
                  [judged |-> router'[k][key].gate, passed |-> router'[k][key].policy.passes]]
               = Promise!NoTerms
    <3>1. {x \in DOMAIN router'[k] : bind'[k] = "bound"} = {}
      BY <1>1
    <3> QED
      BY <3>1 DEF Promise!NoTerms
  <2> QED
    BY <2>1 DEF Agreed
<1>5. Notice' = [k \in Sessions |-> Promise!NotToBeHad({})]
  <2>1. Told' = [k \in Sessions |-> [t \in Tools |-> 0]]
    BY <1>1 DEF Told
  <2> QED
    BY <2>1, NoticeIsTold, NothingMissing
<1>6. Forwarded' = [k \in Sessions |-> 0]
  <2>1. \A k \in Sessions : {x \in crossings' : x.session = k} = {}
    BY <1>1
  <2> QED
    BY <2>1, FS_EmptySet DEF Forwarded
<1> HIDE DEF L
<1>7. Promise!Die(L)
  BY <1>1, <1>2, <1>3, <1>4, <1>5, <1>6 DEF Promise!Die
<1>8. L \in SUBSET Sessions
  BY DEF L
<1> QED
  BY <1>7, <1>8 DEF Promise!Next

LEMMA BindRefines ==
  ASSUME TypeOK, ToldInv, OnceInv, SoundInv, NEW k \in Sessions, Bind(k)
  PROVE  [Promise!Next]_(Promise!vars)
<1>1. UNCHANGED <<requireBounded, crossings, asked>>
  BY DEF Bind, Post, LoadRecipe, LoadCalled, Register, daemonVars, sessionVars, callVars
<1>2. CASE Post(k)
  <2>1. /\ bind[k] = "asked" /\ UNCHANGED <<router, errors>>
        /\ \/ bind' = [bind EXCEPT ![k] = "building"]
           \/ bind' = [bind EXCEPT ![k] = "refused"]
    BY <1>2 DEF Post
  <2> QED
    BY <1>1, <2>1, BuildHidden, RefuseRefines
<1>3. CASE (\E row \in specs[k] : LoadRecipe(k, row)) \/ LoadCalled(k)
  <2>1. bind[k] = "building" /\ bind' = bind
    BY <1>3 DEF LoadRecipe, LoadCalled, Building
  <2>2. bind' = [bind EXCEPT ![k] = "building"]
    BY <2>1 DEF TypeOK
  <2>3. \A l \in Sessions \ {k} : router'[l] = router[l] /\ errors'[l] = errors[l]
    <3>1. CASE LoadCalled(k)
      <4>1. parent[k].row \in Row
        BY <3>1 DEF LoadCalled, TypeOK
      <4>2. Admit(k, parent[k].row, parent[k].text, files) \/ Drop(k, parent[k].row)
        BY <3>1 DEF LoadCalled
      <4> QED
        BY <4>1, <4>2, AdmitTells
    <3>2. ASSUME NEW row \in specs[k], LoadRecipe(k, row)
          PROVE  \A l \in Sessions \ {k} : router'[l] = router[l] /\ errors'[l] = errors[l]
      <4>1. row \in Row
        BY DEF TypeOK
      <4>2. \/ Admit(k, row, files[row.recipe], files) \/ Drop(k, row)
            \/ UNCHANGED <<router, errors>>
        BY <3>2 DEF LoadRecipe
      <4> QED
        BY <4>1, <4>2, AdmitTells
    <3> QED
      BY <1>3, <3>1, <3>2
  <2> QED
    BY <1>1, <2>1, <2>2, <2>3, BuildHidden
<1>4. CASE Register(k)
  BY <1>4, RegisterRefines
<1> QED
  BY <1>2, <1>3, <1>4 DEF Bind

\* Every step of the binding is a step of the contract or does not show.
LEMMA NextKeepsPromise ==
  TypeOK /\ ToldInv /\ OnceInv /\ SoundInv /\ CapInv /\ CountInv /\ [Next]_vars
    => [Promise!Next]_(Promise!vars)
<1> SUFFICES ASSUME TypeOK, ToldInv, OnceInv, SoundInv, CapInv, CountInv, [Next]_vars
             PROVE  [Promise!Next]_(Promise!vars)
  OBVIOUS
<1>1. CASE Config \/ (\E p \in Providers : Change(p)) \/ Daemon \/ UNCHANGED vars
  <2>1. UNCHANGED <<bind, router, errors, asked, requireBounded, crossings>>
    BY <1>1 DEF Config, Change, Daemon, ListFleet, Connect, FleetDone, vars, bindVars, daemonVars,
                sessionVars, callVars
  <2> QED
    BY <2>1, SameOutside
<1>2. CASE Restart
  BY <1>2, RestartRefines
<1>3. ASSUME NEW k \in Sessions, Ask(k)
      PROVE  Promise!Next
  BY <1>3, AskRefines
<1>4. ASSUME NEW k \in Sessions, Bind(k)
      PROVE  [Promise!Next]_(Promise!vars)
  BY <1>4, BindRefines
<1>5. ASSUME NEW k \in Sessions, Agent(k)
      PROVE  [Promise!Next]_(Promise!vars)
  <2>1. UNCHANGED <<bind, router, errors, asked, requireBounded>>
    BY <1>5, AgentLeavesBinding DEF bindVars, daemonVars
  <2>2. UNCHANGED crossings \/ \E key \in Keys, sent \in SUBSET Args : CallForwarded(k, key, sent)
    BY <1>5 DEF Agent, Open, callVars, CallUnrouted, CallUnoffered, CallRefused, ReadContext,
                ReadResource, Answer
  <2>3. CASE UNCHANGED crossings
    BY <2>1, <2>3, SameOutside
  <2>4. ASSUME NEW key \in Keys, NEW sent \in SUBSET Args, CallForwarded(k, key, sent)
        PROVE  Promise!Next
    BY <2>4, ForwardRefines
  <2> QED
    BY <2>2, <2>3, <2>4
<1> QED
  BY <1>1, <1>2, <1>3, <1>4, <1>5 DEF Next

LEMMA InitRefines == Init => Promise!Init
<1> SUFFICES ASSUME Init PROVE Promise!Init
  OBVIOUS
<1>1. /\ bind = [k \in Sessions |-> "idle"] /\ asked = [k \in Sessions |-> {}]
      /\ crossings = {} /\ requireBounded \in BOOLEAN
  BY BindingAssumption DEF Init, SessionInit
<1>2. Standing = [k \in Sessions |-> "idle"]
  BY <1>1 DEF Standing
<1>3. Notice = [k \in Sessions |-> Promise!NotToBeHad({})]
  <2>1. Told = [k \in Sessions |-> [t \in Tools |-> 0]]
    BY <1>1 DEF Told
  <2> QED
    BY <2>1, NoticeIsTold, NothingMissing
<1>4. Agreed = [k \in Sessions |-> Promise!NoTerms]
  <2>1. ASSUME NEW k \in Sessions
        PROVE  [key \in {x \in DOMAIN router[k] : bind[k] = "bound"} |->
                  [judged |-> router[k][key].gate, passed |-> router[k][key].policy.passes]]
               = Promise!NoTerms
    <3>1. {x \in DOMAIN router[k] : bind[k] = "bound"} = {}
      BY <1>1
    <3> QED
      BY <3>1 DEF Promise!NoTerms
  <2> QED
    BY <2>1 DEF Agreed
<1>5. Forwarded = [k \in Sessions |-> 0]
  <2>1. \A k \in Sessions : {x \in crossings : x.session = k} = {}
    BY <1>1
  <2> QED
    BY <2>1, FS_EmptySet DEF Forwarded
<1> QED
  BY <1>1, <1>2, <1>3, <1>4, <1>5 DEF Promise!Init

\* Whatever is edited, restarted, connected and called, in any number of sessions:
\* the answer to a dispatcher is a contract that counts, tool by tool, the routes
\* asked for that are not to be had, nothing but the death of the daemon changes
\* it, and what is forwarded is forwarded under it and within its cap.
THEOREM BindingKeepsContract == Spec => ImplementsContract
<1>1. Init => ToldInv /\ OnceInv /\ SoundInv /\ CountInv
  <2>1. Init => ToldInv
    BY DEF Init, ToldInv, Unresolved, Empty
  <2>2. Init => OnceInv
    BY DEF Init, OnceInv
  <2>3. Init => SoundInv
    BY DEF Init, SoundInv, SessionInit, Empty
  <2>4. Init => CountInv
    <3>1. Init => \A k \in Sessions : CrossingsOf(k) = {}
      BY DEF Init, SessionInit, CrossingsOf
    <3> QED
      BY <3>1, FS_EmptySet DEF CountInv
  <2> QED
    BY <2>1, <2>2, <2>3, <2>4
<1> QED
  BY <1>1, InitRefines, InitCapped, NextTells, NextOnce, NextSound, NextCapped, NextCounted,
     NextKeepsPromise, TypeCorrect, PTL DEF Spec, ImplementsContract, Promise!Spec

=============================================================================
