# Formal models of StoaGraph

StoaGraph puts a policy gate (`stag-proxy`) between an AI agent and the tools it
may call. The agent proposes a `tools/call`; the gate evaluates a *recipe* over
the gated arguments, and forwards, refuses or escalates the call to a person.
This directory holds TLA+ models of that system, translated from the Go source,
TLC instances that check them, and TLAPS proofs about them.

Paths below are relative to `src/stoa-kernel/` unless they say otherwise.

## Inventory

| Component (source) | State | Operations | What is hard | What makes it correct |
|---|---|---|---|---|
| Crossing budget (`stag/proxy/proxy.go` `CrossingBudget`) | a counter per session token | Reserve, Release | shared by all MCP connections of a session; taken before the decision, given back after | never more than the limit cross; no reservation leaks |
| Approval store (`stag/store/approval.go`, `schema.sql`) | one row per action fingerprint | RecordPending, LookupApproved, Consume, ApproveApproval, DenyApproval | shared by two processes; lookup and consume are two statements; the token of a row never changes | a human decision is used once, a denial sticks |
| Gate (`stag/proxy/proxy.go` `Decide`, `stag/proxy/mcpgate/mcpgate.go`) | routes of a session; a handler per request | gatingHandler, Decide, RecordDenied | handlers interleave; every store and sink call may fail; the daemon may die between two steps | nothing crosses that the recipe (and a person, if it says so) did not allow; one leaf per answer |
| Approval API (`stag/serve/approvals.go`) | none | get, approve, deny, list | approve reads, signs and updates in separate steps | an approve takes effect once, on what the person saw |
| Recipe kernel (`stag/stag.go`, `stag/internal/...`) | slots, position, events of one walk | Eval, EvalArgs | hops, foreach, first failure wins; several combinations of values per call | what is recorded as released was released at a crossing, for its sink; a verdict has its cause |
| Argument paths (`stag/proxy/argpath`, `proxy.go` `gatedValues`, `coverage`) | none | Extract, cartesian, CoverageGaps | arrays fan out; a bound on combinations; a tool's schema changes after its route was written | every gated value of a call is judged, every other argument is declared |
| Recipe language (`stag/recipe/recipe.go`) | none | Parse, lint, Compose | a linter whose promises the walk relies on; sub-recipes spliced behind their parents | a linted recipe never faults; a sub-recipe is entered only by the arm that names it |
| Leakage bound (`stag/recipe/leakage.go`) | none | Leakage, RouteFreeText | computed from the graph, over all paths and loops | it is not less than what a model can choose |
| Session registry and binding (`stag/proxy/sessiond`, `stag/router`) | token -> routes, budget, providers | POST /sessions, Create, open | recipes and routes are edited while they are read one by one; some routes fail, others bind | a session is governed by what was stored when it was bound, and its dispatcher hears how much was dropped |
| Downstream fleet (`stag/proxy/mcpgate/fleet.go`, `discover.go`) | connections | Discover, Lookup | every server may be down at the start, or never answer; they are connected in sequence | ready once a server answers and none leaves a request without an answer |
| Read channel (`stag/provider`, `mcpgate.go`, `mcpresource.go`) | its own log | Gather, contextHandler, downstreamResourceHandler | sources change between two reads and claim trust they do not have; the append of a leaf may fail unnoticed | what the agent reads is labelled, and a leaf attests what was served |
| Recipe store, config store, admin API (`stag/recipestore`, `stag/store`, `stag/serve`) | files, SQLite rows | get, save, delete, put | edits under live sessions, files truncated and then written | a route put is covered and resolves |
| Audit log (`stag/egress`) | a JSONL file, head and seq in memory, a checkpoint | Record/Append, Verify, Resume, Sign, VerifySigned | partial writes, restarts, several writers, edits from outside | a log that verifies is complete; a sealed log is exact |
| OAuth client (`stag/oauth`, `stag/serve/oauth.go`) | a credential file, a file lock, pending sign-ins | Bearer, start, callback | processes share one refresh token that may be single-use; a crash before Save; a callback that takes no lock | no token is spent twice, the credential is not lost: it behaves as one that is renewed in one step |
| Agent orchestrator (`harness/agent`) | turns of a run, the call it holds | the tool loop, the wait for an approval, the replay | timeout against a late approval, a lost answer, a context that ends, a call that has no timeout | the model is told what happened; an approval is spent by the replay or stays |
| Dispatch (`harness/dispatch`) | the event map file | match, the dispatch model, the routes of a decision | the file is truncated while it is read; a model chooses | an event is routed by a saved map; a misroute cannot breach |
| Ingress front door (`harness/ingress`, `cmd/harness-serve`) | an ingress log, running goroutines | attribute, accept, launch | duplicate deliveries, a run launched before its leaf | the log does not lie |
| Control-plane auth, webhook, model clients, skills, local tools, CLIs, dashboard | none that others rely on | I/O | - | not modelled |

Interaction: a webhook or an operator reaches `harness-serve`, which finds the recipe
of the event, asks `stag-serve` for its routes and posts them to the daemon
(`stag-proxy`). The daemon reads the recipes, binds a session and mints a token. The
run's agent opens MCP connections under the token; `sessiond` gives each of them the
session's routes and its one budget; the handler of a call reserves, asks `Decide`,
which walks the recipe, reads and writes the approval store and appends a leaf, and
then refuses or calls the downstream. People act on the same store through
`stag-serve`, another process. The run polls the approval there and replays the call
with the token. Both processes refresh the OAuth credentials of downstream servers.

## Modules

| Module | Models | State and actions against the code |
|---|---|---|
| `CrossingBudget` | `proxy.go:137-174` | `count[s]` is the counter behind the mutex of session s; `Reserve`, `Release` are the methods, atomic because the mutex covers them whole |
| `ApprovalStore` | `store/approval.go` | `row[a]` is the status column of fingerprint a; one operator per SQL statement, atomic because the store has one connection. `grants`, `burns` are history |
| `Gate` | `mcpgate.go` gatingHandler and recordUnrouted, `proxy.go` Decide, `serve/approvals.go`, session creation, restart | `pc[c]` is where the handler of request c is. A step is the longest stretch of code that touches shared state once, so any two statements of two handlers can interleave |
| `Mediation` | nothing: it is the promise | four actions: people grant, requests are cleared, cleared requests cross. `Gate` implements it under `cleared <- {c : verdict[c] = "allow"}` |
| `AuditLog` | `egress.go`, `chain.go`, `sign.go`, start-up in `cmd/stag-proxy/main.go`, `serve.go` handleLog | `lines` and `tail` are the file; `seq[w]`, `head[w]` the memory of process w. `acked`, `sealed`, `edits`, `failures`, `disturbed` are history |
| `RecipeLang` | `stag.go` Recipe, Step and hop; `recipe/recipe.go` parseStep and lint | pure operators: recipes as data, the edges a walk may follow, and `Linted`, one operator per pass of the linter |
| `Kernel` | `stag.go` evalWith and walk, `internal/gate`, `internal/release`, `proxy.go` evalSlots, cartesian, andVerdict | one action per case of the switch in walk; `at` is the loop index, `slots` the map, `loop`, `items`, `elem` the frame of the recursive call of a foreach, `verdict` and `fault` what the walk has returned so far, `todo` the combinations left, `total` the roll-up. `visits` is history |
| `Leakage` | `recipe/leakage.go` | pure operators: what each kind of step adds to the count (`TuplesFrom`), and the walk of the analysis as a function of the step and of what is known there (`Counts`); `ChoicesAreBounded` compares it with what the walk of `Kernel` releases |
| `Compose` | `recipe.go` Compose, inline, splice, namespace | pure operators on recipes in source form; the composed recipes are walked by `Kernel` |
| `ConfigStore` | `recipestore.go`, `store.go`, `serve/routes.go`, `mcpservers.go`, `recipes.go` | `files[n]` is a recipe file, `servers` and `routes` the tables, `live[s]` what a server really exposes, `Down` if it cannot be reached, `Mute` if it accepts the connection and never answers; `task[a]` the request operator a has under way, between its checks and its write |
| `ReadChannel` | `provider.go`, `mcpresource.go`, the resource handlers of `mcpgate.go` | what is built at binding, what a read gathers, frames, hashes and serves, and the words of the gate (`Placeholder`) where there is nothing of the source |
| `Binding` (extends the two) | `sessiond.go`, `router.go`, `fleet.go`, `discover.go`, `wiring.go`, awaitFleet of `main.go` | `bind[k]` is where the binding of session k is, `specs[k]` the rows still to resolve, `router[k]`, `errors[k]` what was dropped, `unserved[k]` the part the fleet reports, `Line` and `Notice` what the answer says of it; `fleet` the connected servers, `listed` those whose turn is to come, in the order of their names (`Rank`); `spent[k]` the budget behind the token |
| `Contract` | nothing: it is the promise | a session is asked for, refused or agreed, calls are forwarded under its terms, the daemon dies. `Binding` implements it: what the daemon is still building is a request, the routes of a bound session are its terms (what is judged and what passes of each), the number of lines of the answer for each tool the notice, the calls forwarded its use |
| `OAuth` | `oauth.go`, `lock_unix.go`, `serve/oauth.go` | `pc[t]` is where a call of Bearer or a callback is, `file` the credential on disk, `mem[t]` the copy a task holds, `lock` the flock, `flow[f]` the map of pending sign-ins; `live` and the ages of tokens belong to the provider. `replayed`, `doubtful`, `acked`, `overtaken` are history |
| `Credential` | nothing: it is the promise | one owner, one refresh token in use; `Renew` replaces it with the provider and the client at once, `Adopt` puts another sign-in in its place, `Fail` puts tokens in doubt. `OAuth` implements it under `inUse <- InUse`: between the answer and Save the token in use is the one in the memory of the holder of the lock |
| `Dispatch` | `eventmap.go`, `dispatch.go`, `wiring.go`, `bindRun` | pure operators: match, follow, gate a proposal, the rows of a decision |
| `FrontDoor` (extends it) | `cmd/harness-serve/ingress.go`, `dispatch.go`, `harness/ingress` | `mapFile` is the file with the length a write has reached, `dpc[r]` where a delivery or console request is, `ingress` the log |
| `Harness` (extends it and `ApprovalStore`) | `agent.go`, `approval.go`, `runIngress` | `pc[r]` is where run r is: connecting and reading the context, thinking, about to call, with the call at the gate (`sent`, `resent`, `releasing`), waiting; `todo[r]` the calls of the turn, the first of which it holds, `waited[r]` and `age[r]` the two clocks, `ledger[r]` what the model was told |
| `MCGate`, `MCAuditLog`, `MCKernel`, `MCOAuth`, `MCHarness`, `MCBinding` | - | the instances for TLC |
| `GateProofs`, `AuditLogProofs`, `KernelProofs`, `RecipeProofs` (extends it), `OAuthProofs`, `HarnessProofs`, `BindingProofs` | - | theorems |
| `SetInduction` | - | two facts about numbers the proofs use: a set of numbers has a least element, and induction over an interval, stated of a set instead of a predicate |

Choices a reader should know of:

- **The verdict of a recipe** is a parameter of a route in `Gate`: one verdict if the
  recipe's `$approved` rule passes, one if not. The walk has no shared state, so
  the step that reads the approval store also gives the verdict.
- **The token of an approval** is a signature of the fingerprint, so it is the same
  each time the action is approved. `presents[c]` says that the request carries it;
  a client can carry it once it has been read (`issued`).
- **Downstream failures**: `Forward` may or may not reach the tool. The leaf was
  written before, so a `forwarded` leaf does not prove a crossing; the converse holds.
- **The sink is best effort**: `Record` and `RecordDenied` may lose the leaf and the
  request goes on, as in the code, when `SinkFails`.
- **A hash** is identified with what it commits to: SHA-256 is taken to be
  collision-free and signatures unforgeable.
- **A failed append** is `RecordFails`: it leaves nothing, a torn line or a line
  without its newline; the next append joins it. A line longer than `maxLeaf`
  (`Oversize`) is appended and acknowledged and makes `Verify` fail.
- **A recipe's step ids** are positions: id 0 is the empty string, a position beyond the
  end an unknown id. The linter makes ids unique; kinds outside the enumeration
  are not representable. A rule is the set of values it releases. So the renaming of
  ids by `Compose` is a shift of positions, and that of slots is the constant `Renamed`;
  sub-recipes are appended in the order of the walk over their sites. An edge of a
  sub-recipe to an unknown id is still one after the renaming, and `finish` refuses the whole;
  `Fits` refuses the sub-recipe (`Closed`). An edge of a *parent* to an unknown id may
  have the form of a renamed one, `s0_x`, and then leads into the sub-recipe: the model has
  it as an edge beyond the end of the parent, and `ChildrenAreTails` is said of parents whose
  own edges stay in the parent.
- **A slot that is missing** has the class `severed`, which is what the walk gives it.
- **Combinations** are walked in any order; the code's order is one of them and no
  property depends on it. Events leave out origin, fields, actor and hash.
- **`Linted`** is the linter without its hygiene warnings and without the uniqueness of
  field names, so it accepts more recipes than the code, and what is shown of linted
  recipes is shown of more.
- **The leakage bound** is the number of tuples, where the code adds base-2 logarithms in
  floating point. It is defined for linted recipes, whose edges go forward; the saturation
  of numeric ranges and the bound on visits are abstracted.
- **A recipe in `ConfigStore`** is what a binding asks of it: name, sub-recipes, arguments
  passed through, arguments constrained, and whether something is released that no rule
  bounds. A file that one operator is writing does not parse; where two save a recipe at once, one
  text may be followed by the rest of the other, which does not parse or does as some recipe (`Written`). The binding reads a recipe and its
  sub-recipes in two steps, the list of routes in one.
- **A call in `Binding`** is decided in one step (`Gate` has its steps), and one read of a
  server reads all its resources. The leaf of a read may fail to be appended (`ReadLogFails`), which the code drops.
- **A line of the answer** (`Line`) has the tool; the server is only in the texts of the fleet.
  `Notice` counts lines by tool, which is all a dispatcher can rely on. `mcp_resource` providers have URIs, every provider is enabled.
- **The gate of `Harness`** is `Gate` reduced to what a run sees: the approval rows and
  whether the call crossed. `ReplayFinds` and `ReplayReleases` are lookup and burn. A call that is at the
  gate when the context ends may still be decided and cross; what the gate does after the run has given
  up on it is put before the giving up. Time is counted in ticks; the clocks of all runs advance together.
- **A 401** from the token endpoint is taken for a refused client, whatever it was about: a grant refused with one is
  sent again in the other way (`RetryGrant`), and the last error is what the call returns.
- **`withLock`** is the Unix one. On other systems (`lock_other.go`) it does nothing, and then
  `SingleUse` does not hold.
- `map` has one source range per definition. Where two functions are the same
  algorithm (`JSONLSink.Record` and `Chain.Append`, `Verify` and `VerifyChain`), each
  is the source of one of the definitions involved.
- Operators with a suffix (`Reserve_...`) whose comment begins with "Deviation" are
  plausible bugs; the specification does not use them. Replacing the definition that
  follows by them breaks the property named in `PROJECT.json` "mutants".

## Runs

| Run | Question | Bounds |
|---|---|---|
| `gate_mixed` | do the budget, the approvals and the abstract boundary hold together, with a failing store, a failing sink and restarts? | 3 sessions that route 2 actions in six different ways (with the approval, without, denied even then, not judged, not routed, open), 3 requests of which 2 overlap, limit 1: the cap, the refusal and an approval shared by sessions all occur |
| `gate_live` | is every request answered and recorded; is a release one-time for a client that keeps one request open, and does a denial stop it? | 4 requests for one approved action, 2 overlapping, a store and a sink that answer |
| `audit_log` | is the chain kept until something disturbs it, does a log that verifies ever lie, and do Verify and the checkpoint catch edits? | 2 processes, 2 records and an oversize one, 2 lines, 2 mishaps of any kind (a failing read or write, an edit, a truncation, a recomputed chain, a damaged checkpoint) at any time, `Seal` at any time |
| `kernel_walk` | is a verdict what the recipe says of every combination, do the linter and Compose keep their promises, is the leakage bound one? | all recipes of 4 steps, the first of which proposes, from 13 to 15 steps of every kind, and parents with one or two sites composed from 4 sub-recipes, of which one composes itself and one has no exit; 5 calls with one or two paths; bounds of 3 elements and 4 combinations, so that both are exceeded |
| `oauth_store` | is a refresh token spent once, is the credential kept, is every way to authenticate tried, also after a grant refused with a 401, does the whole behave as one credential, does everybody return? | 2 callers in two processes, 2 callbacks, 2 sign-ins, 3 token pairs, 3 kinds of provider (rotating and public; not rotating, with wrong metadata; without offline access and with no way it accepts), failing files, crashes at any time |
| `harness_runs` | is an event routed by a saved map, do runs tell the truth, stay within their decision, leave approvals alone, and end? | a webhook and a console request, one save of a shorter map, 3 bodies and 3 proposals (confident, not confident, of a recipe whose row is invalid), 2 actions on two servers with the same tool, a turn, a context of one tick against a wait of two |
| `binding_sessions` | is a session governed by what was stored when it was bound, is what was agreed then a contract until the daemon dies, and what can its agent do with it? | 2 servers with one tool, of which one is down at first, 2 arguments, a recipe that calls another and another text of each, one edit and one change outside (a server redeployed, down or mute, or a source that changes), leaves of reads that may get lost, providers of three kinds, one session opened twice, 2 calls, limit 1, with and without `-require-bounded`, one restart |
| `gate_onetime_overlap`, `kernel_samename`, `kernel_sinkless`, `binding_recorded`, `binding_mute` | violations, below | the smallest instance that shows each |

Why these bounds are enough: the handlers of a session only meet in the budget and
the store, so two overlapping requests show every race of two statements and a third
one the state they leave behind; a second session shows what the shared store lets
through between sessions. In the log a step looks at the last line only and `Verify`
at neighbouring lines, so two lines have a first one, a last one and their link; of two lines either
can be dropped, repeated, swapped, mixed with the other or cut off, a forged or torn line can be followed by a good one,
and two mishaps let an edit meet a failure, or two processes that fork meet a truncation. That edits in the middle of
a longer log are caught is the theorem. Four
steps hold a gate, its segment and an edge into it from before the gate, or a
branch with two arms that meet, or a foreach with a body of two steps, and an
element list of three holds a failing element between two that pass; the leakage of a
longer recipe is a sum and product of such parts. Two callers and a callback are every
pair that can meet at the file, and three pairs of tokens are a sign-in, a refresh by one
process and one by the other or a second sign-in. A run shares only the rows of
approvals and the map file with others, so two runs and one save meet in every way;
the two ticks order the end of the context before, at and after the end of the wait. A
binding reads each row and recipe once, so one edit falls before, between or after
the reads of a recipe and its sub-recipe. One operator edits in the run; that two who save a recipe at once
may leave a mixture of their texts is in the model, and the proofs hold with it. What is proved below holds for every size.
Requests are interchangeable where `SYMMETRY` is used (no liveness there). Every run
says `CHECK_DEADLOCK FALSE`: requests, runs, edits and restarts are finite in number, so a
behaviour ends when all are answered (a log when its bound is reached).

The constants that are only bounds: `MaxInFlight`, `MaxLeaves`, `MaxMishaps`, `MaxEdits`, `MaxShifts`,
`MaxCalls`, `MaxOpens`, `MaxRestarts`, `MaxTokens`, `MaxTurns`, and the sets `Plans`, `Bodies`,
`Proposals`, `Flaky`, `Sources`, `Surfaces`, `NewRows`, `Queries`. `Flaky` names the run
whose polls and calls may get lost at any time; the other one only loses them when its context ends.
`LogFails` is FALSE in `harness_runs`: with TRUE, lost leaves are `AlwaysRecorded`, below.

Type invariants are proved, not run. So are `SessionCap`, which the runs check through
`BudgetExact` and the refinement of `Mediation`, `StaysRefreshable`, which follows from
`ImplementsCredential` and `CredentialUsable`, and `PartialIsTold`, which follows from
`ImplementsContract`: the step that binds gives notice, tool by tool, of as many routes as it leaves out.

### Disagreements between documents and code

- `gate_onetime_overlap`: `schema.sql` promises a one-time release. Two overlapping
  retries read the approval before either burns it and both are forwarded.
- `kernel_samename`: the comment on `evalSlots` says every selected value must clear. Two
  gated paths that end in the same segment (`files[].path`, `renames[].path`) share one slot,
  and only the values of the second are judged.
- `kernel_sinkless`: a comment in `leakage.go` says that an unconstrained single flow is an
  ungated sink and so unbounded. A recipe that proposes a slot and exits has one (empty)
  tuple by `Leakage`, `RouteFreeText` skips routes with one argument, and even
  `-require-bounded` binds it; the call is forwarded with whatever it carries.
- `binding_recorded`: a call of a tool the agent was not offered must be recorded, not
  answered with a silent 404. A tool that is routed but, by a coverage gap, not offered is neither:
  `recordUnrouted` passes it on because it is in the routes, and the SDK has no handler for it.

- `binding_mute`: a comment on `awaitFleet` says that one broken tool server must not take down every
  other tool. Servers are connected one after the other without a deadline (`main.go:77`, `252`), so one that
  accepts the connection and never answers `initialize` or `tools/list` keeps the daemon from the others, and no
  session can be bound.

Stated in the models, without a run:

- `ApproveTakesEffect` (`Gate`): an approve answers `approved` although its conditional update
  found the row already approved, used and consumed (`stag/serve/approvals.go:104`).
- `ResumesTheChain` (`AuditLog`): at start every error of `ReadFile` is taken for an absent log, and
  the process appends a second genesis to a chain it has not verified (`cmd/stag-proxy/main.go:91`).
- `NoticeIdentifies` (`Binding`): `RouteError` carries the server because the tool alone "could not say which of
  two servers' bindings was broken" (`stag/router/router.go:26-28`); `routeErrView` (`sessiond.go:257-263`) answers
  with the tool, the recipe and the text, and the texts of recipe and strict-mode errors have no server.
- `SignedMeansChecked` (`AuditLog`): a checkpoint that does not parse leaves `signed` and `verified`
  set (`stag/serve/serve.go:300`).
- `ParentReadsItsOwn` (`Compose`): the prefix of its names keeps a sub-recipe from colliding with its parent
  (`recipe.go:301`). `nameOK` lets a parent have a name like `s0_x`, `splice` overwrites the ingredient (and
  the rule, which the model does not name) of the parent, and the linter has nothing against it.
- `AlwaysRecorded` (`Harness`): the arrival of an event is to be recorded regardless of disposition; a
  delivery that finds an unreadable map is answered without a leaf (`cmd/harness-serve/ingress.go:62`).

Met while modelling, and in the models as the code has them: a failing `Consume` (its error is
dropped) leaves the approval live, which is why `OneTimeWhenSerial` asks for a store that
answers. Redelivered webhooks are not recognised and launch a second run each. A webhook ignores
`"route": "model"` of its definition, and the orchestrator ignores `routeErrors`, which
`PartialIsTold` says are there. `takePending` accepts a sign-in older than its time to live. A
route with a coverage gap binds with a clean 200. A composed parent with several arguments
constrains none of the slots of its sub-recipes, because they are renamed; with `-require-bounded`
it is refused, which errs on the safe side. The leaf of a binary resource hashes the empty text,
although its comment says it attests the served bytes. A read whose leaf cannot be appended is served all the
same, and the words of the gate for an empty or failed read are not hashed; `ReadsAreAttested` says what is left. Two concurrent puts of a server may lose
one's secret (`stag/serve/mcpservers.go`); secrets are not modelled.

## Fairness

- `Gate`: weak fairness of `Handle(c)` for each request: a handler that has started is run to
  its end by the Go scheduler, the store has a busy timeout, and calls downstream return or
  fail. Nobody owes the gate a request, a decision or a restart. `EveryCallAnswered` needs no
  more: no handler waits for another.
- `Kernel`: weak fairness of `Next`: the evaluation is one loop of one goroutine.
  `EveryCallDecided` then says that the loop ends, for recipes the linter never saw too.
- `OAuth`: weak fairness of each task's steps, without `LockFails`: requests time out after
  20 seconds, files are read or not, and a waiting call gets a lock that stays free. Nobody
  owes a sign-in. `EveryCallReturns` then says that nobody keeps the lock, through crashes too.
- `Harness`: weak fairness of `OwnStep(r)`, of the leaf of a delivery, and of time. An own step is what a run does by
  itself: bind, ask the model, send, poll, give up, and let go once its context has ended. The requests to the daemon, the
  model and the approval queue have timeouts of their own. A call through the gate has none (`agent.go:99`,
  `mcpgate.go:323`), nor have the connection to the gate and the reads before the first turn, so nothing is assumed of the
  gate and the tools (`GateStep`). Nobody owes an approval, a save or a disconnection. `EverythingEnds` then says that the
  run of a webhook ends whatever the others do, because its context does after five minutes. The context of a console
  run is that of its request (`dispatch.go:85`): it ends unless the gate keeps it for ever and nobody closes the console,
  and never waits for ever for a person.
- `Binding`: weak fairness of the daemon's connecting and of each binding, and of an operator's
  request once it was checked. While a server does not answer, `Connect` is not enabled, so nothing is owed. `GateComesUp`
  assumes a server that stays registered, enabled and up from some time on, and that no server leaves a request
  without an answer for ever; the others may be unreachable. Without the second premise it fails (`binding_mute`).

## Proofs

Every theorem is proved for all values of the constants that satisfy the assumptions of its
modules, which TLC evaluates in every run. Each rests on an inductive invariant, because the
properties say something of several steps.

`GateProofs`: `TypeOK`, `BudgetExact`, `SessionCap`, `GrantAccounting`, `MediatedCrossing`,
`DenialSticks`, `OneLeafPerCall`, `BurnsAreReleases`, `OneTimeWhenSerial`, `DeniedWhenSerial` and `ImplementsMediation`, for all sessions,
actions, requests, routes, limits and failures. The invariant is

    IInv == TypeOK /\ ControlInv /\ GrantAccounting /\ BudgetExact /\ CountWithinLimit

`MediatedCrossing` alone is not inductive: a step that crosses needs to know that the
verdict it finds was justified when it was given (`ControlInv`, which ties the position
of a handler to its verdict and to a grant; grants only grow, so the justification
stays true). `SessionCap` needs `BudgetExact`, which says who holds the reservations the
counter counts, and `CountWithinLimit`. `OneLeafPerCall` needs `LeafInv` (no leaf before its place,
the right one after it), `BurnsAreReleases` that those allowed with an approval only become
more (`SpendersGrow`) and that whoever is about to burn is one of them (`BurnInv`). The refinement
follows step by step: the step that gives the verdict `allow` is `Clear` (the reservation it holds
is not yet that of a cleared request, which gives the cap its room), `Approve` is `Grant`, `Forward`
is `Cross`, every other step stutters. Assumptions: `LimitAssumption`, `RoutesAssumption`,
`GateAssumption`.

`OneTimeWhenSerial` and `DeniedWhenSerial` are temporal formulas with a temporal premise, so each is an
invariant that steps keep *while* the premise holds. `OneTimeIfSerial`: while at most one request is in
flight and the store answers, a handler that is past the lookup still finds what it looked up
(`SerialInv`), so the burns of an action count the releases (`BurnsGrow`). `DeniedIfSerial`:
once an action is denied, every request for it that has not crossed is barred (`Barred`):
it is not ahead with the verdict `allow`, and a row that is denied stays denied, so it never will be.

`AuditLogProofs`: `TypeOK`, `VerifiedIsComplete`, `ChainKept`, `SealedIsExact` and `EditsDetected`, for any number of
processes, records and failures. `VerifiedIsComplete` is inductive with `TypeOK`: a prefix
of a verified file verifies, and a line that joins a torn tail never decodes.
`ChainKept` is strengthened to `KeptInv`, which adds that nothing follows the last newline, that at most one
process is up and that it stands at the end of the file; it is kept as long as nothing disturbs, and once something did,
that is remembered (`StillUndisturbed`). `SealedIsExact` rests on
`SealInv`: a checkpoint that reads commits to the records that were signed. `EditsDetected` is a step
property, of edits in place and truncations, not of a recomputed chain: whatever such an edit does, the last line carries the hash of a line there was (`EditKeepsHashes`), and
of two files that verify, the one that ends with a hash of the other is a prefix of it
(`HashGivesPrefix`). Both need that the hash of a line commits to all the records up to it
(`ChainCommits`), by induction on the length.

`KernelProofs`: `TypeOK`, `OrderingsDistinct`, `GuardedThroughGate`, `LintedNeverFaults`, `KernelInvariant`,
`VerdictsHaveCauses` (`EscalatesOnlyDoubt` and `DeniedForCause`) and `EventsAreCrossings`, for all
recipes and calls, from `KernelAssumption`. None is inductive by itself:

- types need `LoopInv`: the next element of a foreach starts where the first did, over an
  edge that was checked only then;
- `OrderingsDistinct` needs a bound, `NextOrdinal`, that every step moves past its own ordinal
  (edges go forward) and that is at most the first ordinal of the next element
  when a path ends;
- `GuardedThroughGate` needs `GuardInv`: wherever the walk stands, and wherever
  the body of the foreach begins, every gate whose segment contains that place was passed on
  this path. A step keeps it because an explicit edge never leads into a segment
  and falling through leads there from the gate or from the segment itself (`HopGuard`);
- `LintedNeverFaults` needs `FlowInv`: the slots that are defined on every path to the place where the
  walk stands are there. The analysis of the linter is a recursive function over the steps; that
  it satisfies its equation is `PassExists`, by induction over the interval of steps, from which a
  step of the walk carries `SlotsAt` from a step to its successors (`SlotsGoOn`);
- `KernelInvariant` and `EscalatesOnlyDoubt` need `VerdictInv`, which reads the verdict so far (`Overall`)
  off the steps taken so far, step by step (`StepVerdict`), and `PickInv`: every combination is
  still to be walked or was;
- `DeniedForCause` needs `CauseInv`, about the walk that is under way, and that the first fault stays;
- `EventsAreCrossings` is kept because the one step that appends an event is a crossing that
  passed (`StepRecords`), and what was released for a slot stays (`ReleaseStays`).

`RecipeProofs`: `ChildrenAreTails` and `ChoicesAreBounded`.

`ChildrenAreTails` holds for every library, front, renaming and number of sites that satisfy
`ComposeAssumption`, whether the linter accepts the whole or not. Its one hypothesis is that the
edges of the parent stay in the parent (above). First the layout of a composed recipe (`LaidOut`, by
induction over the sites): the steps of the parent with the arms of the sites set, then the
sub-recipes one behind the other, each with its edges inside. From it, `OnlyEntrance`: a step of
the walk leads into a sub-recipe from that sub-recipe or over the arm that names it, never by
falling through, because what precedes it ends with an exit. The invariant of the walk is `OrderInv` (the
steps of a path come before the place where it stands) and `TailInv` (a path that stands in a
sub-recipe has entered it so).

`ChoicesAreBounded` holds for every linted recipe and every call, from `KernelAssumption` and
`LeakageAssumption` (what a rule admits is a finite set: a list or a range of 64-bit
integers in `stag`). It compares what one call *did* in all its walks with what the
analysis *counted* without any call, so between the two stands a third thing, the *ways* of a recipe
(`Family`): from a step, with the sets of values that the rules passed so far leave each slot,
the sets of <<element, step, value>> that may still cross. They are defined along the recipe as the
count is, and have no call in them.

- That ways and counts satisfy their equations is `FamilyExists` and its like, by induction from the last step
  back (edges go forward); the rounds of a foreach and the arms of a branch by induction over their number.
- There are at most as many ways as the analysis counts (`GoalAtMost`, from `WaysCounted`, step by
  step): a sink multiplies by what its rule or the last rule on its slot admits (`SinglesAtMost`,
  `PairwiseAtMost`), a branch adds (`UnionAtMost`), a foreach is the geometric series up to the cap. It
  is here that the analysis has to read the *last* constraint of a slot, and drop it when
  the slot is proposed anew or becomes the element of the loop: what is known is a set of values for some
  slots (`Known`), of which the analysis keeps the sizes (`Sizes`).
- A walk keeps to the ways. `OnTrack`: what has crossed so far, joined with any way from the place where
  the walk stands, is a way of the whole recipe, for some knowledge that the slots satisfy; inside a foreach the
  same is said of the elements that are left, from what was known where its body began.
  It needs of `KernelProofs` `GuardInv` (a walk that begins has no visits yet) and `FlowInv` (what a step consumes
  is there; the body comes after its loop), and that the ingredients stay what the recipe made them (`Kept`): a sink with a
  rule shows an authoritative value unread by the rule, and then it is the one value the author wrote.
- A walk that is over keeps its crossings, so once the call is decided the tuples that got through are
  among the ways: `ChoiceInv` is inductive, and the theorem is a comparison of two cardinalities.

`OAuthProofs`: `TypeOK`, `SingleUse`, `StaysRefreshable`, `SignInSurvives`, `CodeOnce`, `EveryWayTried` and
`ImplementsCredential`, for all processes, calls, sign-ins and providers, from `OAuthAssumption` and `NamesAssumption`. The
invariant adds, task by task: a caller that refreshes holds the lock, and what it sends is live or
doubtful (`CallerInv`); an answer that is not stored yet carries a refresh token that is live and
known to nobody else (`ReplyInv`), so that storing it keeps the file good whoever else stored
meanwhile; a handler redeems the sign-in it took out of the map (`HandlerInv`). The refinement
needs `OwnerInv` besides: whoever holds a refresh token holds it for the sign-in that is on file with it,
so that saving its successor leaves the owner alone. Then `Issue` to the holder of the lock is `Renew` and its
`Save` stutters; if a sign-in was saved in between, they are `RenewAside` and `Adopt`; a callback is `Grant`
and `Adopt`; `GiveUp`, `Unsaved` and `Crash` are `Fail`. A failure may put the old token back in use, in
doubt. Of `Credential` itself, `Usable` is proved (`CredentialUsable`).

`HarnessProofs`: `TypeOK`, `RoutedBySavedMap`, `ToldTheTruth`, `ArrivalsAreTold`, `MisrouteContained`,
`SpentOnlyByReplay` and `CutRunsStopActing`, for all deliveries, editors, maps, plans and timeouts, from
`FrontDoorAssumption` and `HarnessAssumption`. The invariant adds `DoorInv` (what parses on file is a
saved map or empty: a write over a longer file does not parse), `StoreInv` (an approved row was
granted), `RunInv` (a session is within the routes of the decision; a replay that was let
through has a grant and an approved or burned row) and `LedgerInv` (the two properties of
the ledger, call by call). `ArrivalsAreTold` needs `ArrivalInv`, which says at each place of a delivery
what its decision is and whether its leaf is there. That a matching definition has a first one is the least element of
a set of numbers (`LeastExists`, from the well-foundedness of the naturals).

`BindingProofs`: `TypeOK`, `FreshAtBind`, `EveryArgumentAccounted`, `CapOverReconnects`, `PartialIsTold`,
`ReadsAreAttested`, `BundlesAreVerbatim` and `ImplementsContract`, for all operators, servers, recipes, sessions and sources,
from `ConfigAssumption`, `FirstAssumption`, `ReadAssumption` and `BindingAssumption`. The invariant has
`ToldInv` (what was asked is unresolved, in hand, routed or reported), `SoundInv` (the policy of a
route is that of the parts it was composed from, in strict mode bounded, and what crossed was
covered), `CapInv` (what crossed is at most what was spent, and that at most the limit),
`BundleInv` (a built bundle is what every read of it served) and `FreshInv` (what is stored now, and
whatever the binding has read, was stored while it was under way).

The refinement of `Contract` needs two more. `OnceInv`: every row asked for is resolved once, because the route
table has one row for a server and a tool, so what is routed is not also reported and the answer can give
notice of *exactly* the rest (`PartialIsTold` alone would allow both). What the dispatcher sees of it are
lines, and `Named`, `Told` and `NoticeIsTold` carry the sets of routes over to the number of lines of each tool (`CountedByTool`). `CountInv`: each call that was forwarded has a
place of its own among the calls of its session, so that one more call is one more use. Then `Register` is
`Agree` or `Refuse`; `Post` refuses or, like the reading of recipes, does not show (`BuildHidden`);
`CallForwarded` is `Forward`; `Restart` is `Die` of the requests that were being built and of all that was bound; what
operators, servers and the agent do otherwise leaves the contract alone (`SameOutside`), which is what a
contract is for.

Only model-checked: `EveryCallAnswered`, `EveryCallDecided`, `EveryCallReturns`, `EverythingEnds`, `GateComesUp`.
They are liveness properties under fairness, which the prover cannot reach. Every other property of the
passing runs is stated by a theorem.

The library's induction theorems take a predicate as a parameter, which the installed provers cannot
instantiate. `IntervalInduction` says the same of a set, which can be given as a set of
numbers that satisfy a formula; the recursive functions of `RecipeLang`, `Compose` and `Leakage` are shown to
exist with it.

## Not modelled, and why

Parsers, formats, HTTP plumbing, the SQLite engine, key files, command lines, the
dashboard, model clients, skills, local tools: I/O or formatting without state the properties
tell apart. The extraction of nested values from JSON (`argpath`): `Kernel` and `Binding` begin with
the values and the names of arguments. A host crash that loses unsynced writes: it has the effect
of the step `Truncate`, which only a checkpoint detects. Two processes that start without a token
file and both generate one (`stag/auth/auth.go:148`): each goes on with its own, the file keeps the last,
and nothing notices, so the code makes no promise to state. The escalation webhook: nothing reads
its result. `SessionBound` of the leakage report: a product of two numbers that are modelled.

## Plan

1. `CrossingBudget`, `ApprovalStore`, `Gate`, `Mediation`, `AuditLog` and their proofs. Done.
2. `RecipeLang`, `Kernel`, `Leakage`, `Compose` and their proofs. Done.
3. `OAuth`, `Dispatch`, `FrontDoor`, `Harness`, `ConfigStore`, `ReadChannel`, `Binding` and their proofs. Done.
4. `Contract`, and that `Binding` implements it. Done.
5. Open: the step-by-step gate of `Gate` in place of the reduced one of `Harness`; `argpath` as
   operators against a reference definition; the secrets of servers.
