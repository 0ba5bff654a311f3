------------------------------ MODULE Dispatch ------------------------------
(***************************************************************************)
(* How an event finds the recipe that will govern it, and the recipe the   *)
(* routes of a session (harness/dispatch).  An event and a predicate are   *)
(* functions from dotted paths to values; a definition of the event map,   *)
(* a route row of GET /api/routes and a decision are records.              *)
(***************************************************************************)
EXTENDS Sequences, Naturals

NoRecipe == "no recipe"
AnyServer == "any server"      \* a wanted tool that does not name its server

(* Definition: [match, recipe, byModel (route is "model"), tools (a set of *)
(*   [server, tool]), attributed (require_attribution)].                   *)
(* Row:        [server, tool, recipe, valid].                              *)
(* Decision:   [mode, recipe, tools].                                      *)

\* Every field of the predicate is found and equal, and there is one.
MatchAll(pred, event) ==
  /\ DOMAIN pred # {}
  /\ \A k \in DOMAIN pred : k \in DOMAIN event /\ event[k] = pred[k]

\* The positions of the definitions that match; the first one wins.
Matching(map, event) == {i \in 1..Len(map) : MatchAll(map[i].match, event)}
FirstOf(I) == CHOOSE i \in I : \A j \in I : i <= j

Nowhere == [mode |-> "none", recipe |-> NoRecipe, tools |-> {}]
Follow(def) == [mode |-> "deterministic", recipe |-> def.recipe, tools |-> def.tools]
Adopt(proposal) == [mode |-> "model", recipe |-> proposal.recipe, tools |-> {}]

\* The recipes the dispatch model may choose from: those with a valid route.
Catalog(rows) == {r.recipe : r \in {row \in rows : row.valid}}

\* The gate on the dispatch model's proposal.
Gate(proposal, valid) ==
  /\ proposal.recipe # NoRecipe
  /\ proposal.recipe \in valid
  /\ proposal.confidence # "low"

(* Dispatcher.Dispatch: the first matching definition, unless it leaves    *)
(* the recipe to the model; then the model's proposal, if a dispatch model *)
(* was selected and the gate lets it pass.                                 *)
DispatchEvent(map, event, asked, proposal, rows) ==
  LET I == Matching(map, event)
  IN  IF I # {} /\ ~map[FirstOf(I)].byModel THEN Follow(map[FirstOf(I)])
      ELSE IF asked /\ Gate(proposal, Catalog(rows)) THEN Adopt(proposal)
      ELSE Nowhere

RoutesForRecipe(recipe, rows) == {row \in rows : row.recipe = recipe /\ row.valid}

\* A bare name takes the tool on every server, a qualified one on its own.
RoutesForTools(tools, rows) ==
  {row \in rows : row.valid /\ \E t \in tools :
                    t.tool = row.tool /\ t.server \in {row.server, AnyServer}}

\* Deviation: every route of the table is offered to the session.
RoutesFor_Everything(dec, rows) == {row \in rows : row.valid}

\* governedRun: the toolset of the definition, or else the recipe's routes.
RoutesFor(dec, rows) ==
  IF dec.tools # {} THEN RoutesForTools(dec.tools, rows)
                    ELSE RoutesForRecipe(dec.recipe, rows)

=============================================================================
