----------------------------- MODULE RecipeLang -----------------------------
(***************************************************************************)
(* Recipes as the kernel receives them (stag/stag.go, Recipe and Step) and *)
(* what the linter promises about them (stag/recipe/recipe.go, parseStep   *)
(* and lint).                                                              *)
(*                                                                         *)
(* A step is known by its position, which stands for its id: an edge to a  *)
(* position beyond the end is an edge to an unknown id, and 0 is no edge.  *)
(* A rule is the set of the values it releases, and a reference to a rule  *)
(* is a set of at most one rule, empty when the step has none.             *)
(***************************************************************************)
EXTENDS Naturals, Sequences

CONSTANTS
  Names,    \* slot names
  Values    \* the strings a slot may hold

Rules == {{}} \cup {{R} : R \in SUBSET Values}

\* ReleaseRule.Release, when the step has a rule.
Releases(rule, v) == \E R \in rule : v \in R

\* The class of a slot that holds nothing is the severed label.
Class == {"untrusted", "caller", "authoritative"}
Slot  == [value : Values, class : Class \cup {"severed"}]
Present(slot) == slot.class # "severed"

\* out is the As of a foreach too, goto the Default of a branch too.
Step == [kind : {"propose", "sink", "gate", "branch", "foreach", "exit"},
         in : Names, out : Names, rule : Rules,
         authoritative : BOOLEAN, escalate : BOOLEAN, goto : Nat,
         cases : Seq([rule : Rules, goto : Nat])]

Recipe == [ingredients : [Names -> Slot], steps : Seq(Step) \ {<<>>}]

-----------------------------------------------------------------------------
(* Edges.                                                                  *)

Edge(steps, i, target) == target \in DOMAIN steps /\ target > i

\* Deviation: the edge may go backwards.
CanHop_Known(steps, i, target) == target = 0 \/ target \in DOMAIN steps

\* hop succeeds: fall through, or a known and strictly later step.
CanHop(steps, i, target) == target = 0 \/ Edge(steps, i, target)

\* Where hop leads.
Landing(i, target) == IF target = 0 THEN i + 1 ELSE target

\* The edges a step spells out.
Targets(st) ==
  {st.cases[k].goto : k \in DOMAIN st.cases} \cup (IF st.goto = 0 THEN {} ELSE {st.goto})

\* Where a walk may go from step i.
Successors(steps, i) ==
  IF steps[i].kind = "exit" THEN {}
  ELSE IF steps[i].kind = "branch" THEN Targets(steps[i])
  ELSE {Landing(i, steps[i].goto)} \cap DOMAIN steps

Predecessors(steps, j) == {i \in DOMAIN steps : j \in Successors(steps, i)}

-----------------------------------------------------------------------------
(* The linter.                                                             *)

Produces(st) == st.kind \in {"propose", "foreach"}
Consumes(st) == st.kind \in {"sink", "gate", "branch", "foreach"}
Ingredients(r) == {x \in Names : Present(r.ingredients[x])}

\* parseStep: what each kind of step may and must have.
StepOK(st) ==
  /\ st.kind \in {"gate", "exit"} => st.goto = 0
  /\ st.kind = "gate" => st.rule # {}
  /\ st.kind = "sink" /\ ~st.authoritative => st.rule = {}
  /\ (st.kind = "branch") = (st.cases # <<>>)
  /\ st.kind = "branch" => st.goto # 0 /\ \A k \in DOMAIN st.cases : st.cases[k].rule # {}

\* Every slot has one producer, which comes before its consumers.
SlotsDeclared(r) ==
  \A j \in DOMAIN r.steps :
    LET earlier == {r.steps[i].out : i \in {k \in 1 .. j - 1 : Produces(r.steps[k])}}
                     \cup Ingredients(r)
    IN  /\ Produces(r.steps[j]) => r.steps[j].out \notin earlier
        /\ Consumes(r.steps[j]) => r.steps[j].in \in earlier

OneForeach(steps) ==
  \A i, j \in DOMAIN steps : steps[i].kind = "foreach" /\ steps[j].kind = "foreach" => i = j

\* A sink that could only refuse has a rule.
NoGuaranteedDeny(r) ==
  \A i \in DOMAIN r.steps :
    r.steps[i].kind = "sink" /\ r.steps[i].authoritative /\ r.steps[i].rule = {}
      => r.ingredients[r.steps[i].in].class = "authoritative"

EdgesForward(steps) ==
  \A i \in DOMAIN steps : \A t \in Targets(steps[i]) : Edge(steps, i, t)

\* Edges go forward, so every step is reached if every step but the first has
\* a predecessor.
AllReachable(steps) == \A j \in DOMAIN steps \ {1} : Predecessors(steps, j) # {}

\* Deviation: one path that defines the slot is enough.
DefinedOn_SomePath(r, defined, j) ==
  IF Predecessors(r.steps, j) = {} THEN Ingredients(r)
  ELSE UNION {defined[i] : i \in Predecessors(r.steps, j)}

\* The slots that are defined on every path to step j, if defined[i] are those
\* that are defined after step i.
DefinedOn(r, defined, j) ==
  IF Predecessors(r.steps, j) = {} THEN Ingredients(r)
  ELSE {x \in Names : \A i \in Predecessors(r.steps, j) : x \in defined[i]}

\* The slots that are defined after step j.
DefinedThrough(r, defined, j) ==
  DefinedOn(r, defined, j) \cup (IF Produces(r.steps[j]) THEN {r.steps[j].out} ELSE {})

\* One pass in the order of the steps.
DefinedAfter(r) ==
  LET defined[j \in DOMAIN r.steps] == DefinedThrough(r, defined, j) IN defined

\* Definite assignment: what a step consumes is defined on every path to it.
DefinitelyAssigned(r) ==
  LET defined == DefinedAfter(r)
  IN  \A j \in DOMAIN r.steps : Consumes(r.steps[j]) => r.steps[j].in \in DefinedOn(r, defined, j)

EndsSegment(st) == st.goto # 0 \/ st.kind \in {"branch", "gate", "exit"}

\* The steps behind gate g that only falling through g can reach.
Segment(steps, g) ==
  {j \in g + 1 .. Len(steps) : \A k \in g + 1 .. j - 1 : ~EndsSegment(steps[k])}

Gates(steps) == {g \in DOMAIN steps : steps[g].kind = "gate"}

\* Deviation: the default edge of a branch is not checked.
GuardsHold_CasesOnly(steps) ==
  \A i \in DOMAIN steps, g \in Gates(steps) :
    \A k \in DOMAIN steps[i].cases : steps[i].cases[k].goto \notin Segment(steps, g)

\* No edge leads into the segment of a gate.
GuardsHold(steps) ==
  \A i \in DOMAIN steps, g \in Gates(steps) : Targets(steps[i]) \cap Segment(steps, g) = {}

\* lint accepts the recipe.
Linted(r) ==
  /\ \A i \in DOMAIN r.steps : StepOK(r.steps[i])
  /\ SlotsDeclared(r)
  /\ OneForeach(r.steps)
  /\ NoGuaranteedDeny(r)
  /\ EdgesForward(r.steps)
  /\ AllReachable(r.steps)
  /\ DefinitelyAssigned(r)
  /\ GuardsHold(r.steps)

=============================================================================
