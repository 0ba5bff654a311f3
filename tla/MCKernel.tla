------------------------------ MODULE MCKernel ------------------------------
(***************************************************************************)
(* Instances of Kernel for TLC: all recipes of four steps from a small     *)
(* vocabulary that begin by proposing slot x, whether the linter accepts   *)
(* them or not, and recipes composed of three.                             *)
(***************************************************************************)
EXTENDS Leakage, Compose, TLC

CONSTANTS x, y, x1, x2, ok, bad, both, long, nothing

MCElements == (both :> <<ok, bad, ok>>) @@ (long :> <<ok, ok, ok, ok>>) @@ (nothing :> <<>>)

OnlyOk == {{ok}}

Nothing == [kind |-> "exit", in |-> x, out |-> x, rule |-> {}, authoritative |-> FALSE,
            escalate |-> FALSE, goto |-> 0, cases |-> <<>>]

ProposeTo(n, t)     == [Nothing EXCEPT !.kind = "propose", !.out = n, !.goto = t]
SinkOf(n, rule, t)  == [Nothing EXCEPT !.kind = "sink", !.in = n, !.rule = rule,
                                       !.authoritative = TRUE, !.goto = t]
BenignSink(n)       == [Nothing EXCEPT !.kind = "sink", !.in = n]
GateOn(n, e)        == [Nothing EXCEPT !.kind = "gate", !.in = n, !.rule = OnlyOk, !.escalate = e]
BranchOn(n, t, d)   == [Nothing EXCEPT !.kind = "branch", !.in = n, !.goto = d,
                                       !.cases = <<[rule |-> OnlyOk, goto |-> t]>>]
ForeachIn(n, as, t) == [Nothing EXCEPT !.kind = "foreach", !.in = n, !.out = as, !.goto = t]

Vocabulary ==
  {ProposeTo(y, 0), ProposeTo(y, 4), SinkOf(x, OnlyOk, 0), SinkOf(y, OnlyOk, 0),
   SinkOf(y, {}, 4), BenignSink(x), GateOn(x, FALSE), GateOn(y, TRUE), BranchOn(x, 3, 4),
   BranchOn(x, 4, 3), ForeachIn(x, y, 0), ForeachIn(x, y, 4), Nothing}

\* Steps the linter refuses: a backward edge, an edge to nowhere.
Odd == {ProposeTo(y, 1), SinkOf(x, OnlyOk, 7)}

Missing == [value |-> bad, class |-> "severed"]

NoIngredients == [n \in Names |-> Missing]
WithIngredient == [NoIngredients EXCEPT ![y] = [value |-> bad, class |-> "authoritative"]]

SmallRecipes ==
  {[ingredients |-> ing, steps |-> <<ProposeTo(x, 0), b, c, d>>] :
     ing \in {NoIngredients, WithIngredient},
     b \in Vocabulary \cup Odd, c \in Vocabulary, d \in Vocabulary \cup Odd}

\* Two sub-recipes, one that composes and one without an exit; parents that lead
\* to them from either arm or both, with an exit at the end or without.
Source(n, steps, sites) ==
  [name |-> n, ingredients |-> NoIngredients, steps |-> steps, sites |-> sites]

To(kase, child) == [step |-> 2, kase |-> kase, child |-> child]

Fork(t, d) == <<ProposeTo(x, 0), BranchOn(x, t, d)>>

MCLibrary ==
  "sinks"    :> Source("sinks", <<ProposeTo(x, 0), SinkOf(x, OnlyOk, 0), Nothing>>, <<>>)
  @@ "forks" :> Source("forks", Fork(3, 4) \o <<SinkOf(x, OnlyOk, 0), Nothing>>, <<>>)
  @@ "composes" :> Source("composes", Fork(0, 3) \o <<Nothing>>, <<To(1, "sinks")>>)
  @@ "open"  :> Source("open", <<ProposeTo(x, 0), BenignSink(x)>>, <<>>)

MCFronts ==
  {Source("top", Fork(0, 0) \o <<last>>, <<To(1, a), To(0, b)>>) :
     a \in DOMAIN MCLibrary, b \in DOMAIN MCLibrary, last \in {Nothing, SinkOf(x, OnlyOk, 0)}}
  \cup {Source("top", Fork(0, 3) \o <<last>>, <<To(1, a)>>) :
          a \in DOMAIN MCLibrary, last \in {Nothing, BenignSink(x)}}

MCRenamed == <<x :> x1, x :> x2>>

MCRecipes == SmallRecipes \cup {c.recipe : c \in Composed}

Single(vs) == [multi |-> FALSE, paths |-> <<[name |-> x, vals |-> vs]>>]
Two(n, vs, m, ws) ==
  [multi |-> TRUE, paths |-> <<[name |-> n, vals |-> vs], [name |-> m, vals |-> ws]>>]

MCCalls == {Single(<<ok, bad, both>>), Single(<<long>>), Single(<<nothing>>),
            Two(x, <<ok>>, y, <<ok, bad>>), Two(x, <<ok, ok>>, y, <<ok, bad, ok>>)}

\* Two paths that end in the same segment: files[].path and renames[].path.
SameName == {Two(x, <<bad>>, x, <<ok>>)}

SinkRecipe ==
  {[ingredients |-> NoIngredients, steps |-> <<ProposeTo(x, 0), SinkOf(x, OnlyOk, 0)>>]}

\* A flow without a sink.
SinklessRecipe ==
  {[ingredients |-> NoIngredients, steps |-> <<ProposeTo(x, 0), Nothing>>]}

=============================================================================
