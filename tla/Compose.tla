------------------------------ MODULE Compose ------------------------------
(***************************************************************************)
(* Composition of recipes (stag/recipe/recipe.go, Compose): a branch of a  *)
(* recipe may lead to a sub-recipe.  The steps of every sub-recipe that is *)
(* referenced are appended to those of its parent, under names of their    *)
(* own, and the result is linted and walked like any recipe.               *)
(*                                                                         *)
(* A recipe in source form, a front, has besides its steps the references  *)
(* to sub-recipes in the order of the document; an arm that leads to a     *)
(* sub-recipe has no edge yet.  Ids are positions, so the ids of a         *)
(* sub-recipe are renamed by moving them behind the steps before it.       *)
(***************************************************************************)
EXTENDS Kernel, SequencesExt

CONSTANTS
  Library,         \* the stored fronts, by name
  Fronts,          \* the fronts of the routes
  Renamed,         \* Renamed[s][n]: slot n of the sub-recipe at site s
  MaxComposeSites

\* A site: arm kase of branch step leads to the recipe child; arm 0 is the default.
Site  == [step : Nat, kase : Nat, child : DOMAIN Library]
RecipeFront == [name : STRING, ingredients : [Names -> Slot], steps : Seq(Step) \ {<<>>},
          sites : Seq(Site)]

\* References are found in the arms of the branch steps of the front.
SitesInPlace(fr) ==
  \A n \in DOMAIN fr.sites :
    LET site == fr.sites[n]
    IN  /\ site.step \in DOMAIN fr.steps /\ fr.steps[site.step].kind = "branch"
        /\ site.kase \in 0 .. Len(fr.steps[site.step].cases)

ASSUME ComposeAssumption ==
  /\ \A n \in DOMAIN Library : Library[n] \in RecipeFront /\ Library[n].name = n
  /\ Fronts \subseteq RecipeFront
  /\ \A fr \in Fronts : SitesInPlace(fr)
  /\ \A s, t \in DOMAIN Renamed : \A x \in DOMAIN Renamed[s], y \in DOMAIN Renamed[t] :
       Renamed[s][x] = Renamed[t][y] => s = t /\ x = y
  /\ MaxComposeSites \in Nat

HasComposition(fr) == fr.sites # <<>>

\* Every edge of a front leads to a step of its own, or is yet to be set.
Closed(fr) == \A i \in DOMAIN fr.steps : Targets(fr.steps[i]) \subseteq 0 .. Len(fr.steps)

\* No path falls off the end.
Sealed(fr) == Last(fr.steps).kind = "exit"

-----------------------------------------------------------------------------
(* namespace.                                                              *)

Moved(target, by) == IF target = 0 THEN 0 ELSE target + by

\* Every edge and every slot of a step; what the step is stays.
MovedStep(st, by, name) ==
  [st EXCEPT !.in = name[st.in], !.out = name[st.out], !.goto = Moved(st.goto, by),
             !.cases = [k \in DOMAIN st.cases |->
                          [st.cases[k] EXCEPT !.goto = Moved(st.cases[k].goto, by)]]]

MovedSteps(steps, by, name) == [i \in DOMAIN steps |-> MovedStep(steps[i], by, name)]

-----------------------------------------------------------------------------
(* inline and splice.                                                      *)

\* The edge of an arm.
Lead(st, kase, target) ==
  IF kase = 0 THEN [st EXCEPT !.goto = target] ELSE [st EXCEPT !.cases[kase].goto = target]

\* What makes a reference fail: the recipe itself, a child that is not there,
\* composes or does not end with an exit.  The renamed edges of a child that is not
\* closed lead nowhere, and the whole is refused.
Fits(fr, site) ==
  /\ site.child # fr.name
  /\ ~HasComposition(Library[site.child])
  /\ Sealed(Library[site.child])
  /\ Closed(Library[site.child])

\* The sub-recipe of the nth site is appended, and its arm leads to its first
\* step.  An ingredient of the sub-recipe becomes one of the whole.
Splice(r, fr, n) ==
  LET site  == fr.sites[n]
      child == Library[site.child]
      name  == Renamed[n]
      by    == Len(r.steps)
      arm   == [r.steps EXCEPT ![site.step] = Lead(@, site.kase, by + 1)]
      old(x) == CHOOSE y \in DOMAIN name : name[y] = x
  IN  [steps       |-> arm \o MovedSteps(child.steps, by, name),
       ingredients |-> [x \in Names |->
          IF \E y \in DOMAIN name : name[y] = x /\ Present(child.ingredients[y])
          THEN child.ingredients[old(x)] ELSE r.ingredients[x]]]

\* Deviation: a parent that does not end with an exit may compose.
MayCompose_Unsealed(fr) ==
  /\ Len(fr.sites) <= MaxComposeSites
  /\ \A n \in DOMAIN fr.sites : Fits(fr, fr.sites[n])

MayCompose(fr) ==
  /\ HasComposition(fr) => Sealed(fr)
  /\ Len(fr.sites) <= MaxComposeSites
  /\ \A n \in DOMAIN fr.sites : Fits(fr, fr.sites[n])

\* The front with the sub-recipes of its first n sites.
Whole(fr) ==
  LET whole[n \in 0 .. Len(fr.sites)] ==
        IF n = 0 THEN [steps |-> fr.steps, ingredients |-> fr.ingredients]
        ELSE Splice(whole[n - 1], fr, n)
  IN  whole

\* The composed recipe, before finish lints it.
Inlined(fr) == Whole(fr)[Len(fr.sites)]

\* The steps of the sub-recipe at site n.
Span(fr, n) == Len(Whole(fr)[n - 1].steps) + 1 .. Len(Whole(fr)[n].steps)

\* The fronts that may be composed, each with what it becomes.
Composed ==
  {[front |-> fr, recipe |-> Inlined(fr)] : fr \in {f \in Fronts : MayCompose(f)}}

-----------------------------------------------------------------------------
(* Properties.                                                             *)

\* The step of the arm that leads to a sub-recipe, taken because of that arm.
NamedBy(w, site) ==
  /\ w.step = site.step
  /\ site.kase # 0 => Releases(Steps[site.step].cases[site.kase].rule, w.slot.value)

\* A walk never enters a sub-recipe but through the arm that names it, and then
\* stays there (recipe.go:189-191, 198-204, 223-260): what a path did before a
\* step of a sub-recipe is steps of that sub-recipe, or steps of the parent up to
\* the branch, which chose it.
ChildrenAreTails ==
  \A c \in Composed : recipe = c.recipe /\ Closed(c.front) =>
    \A v \in visits, n \in DOMAIN c.front.sites : v.step \in Span(c.front, n) =>
      LET path == {w \in visits : OnPathTo(w, v) /\ w.step <= v.step}
          site == c.front.sites[n]
      IN  /\ \A w \in path : w.step \in Span(c.front, n) \/ w.step <= site.step
          /\ \E w \in path : NamedBy(w, site)

-----------------------------------------------------------------------------
(* What a comment promises and the code does not keep.                     *)

\* A sub-recipe cannot collide with its parent (the comment of namespace,
\* recipe.go:301-302): a step of the parent that reads an ingredient the parent
\* declares reads it as it was declared.
ParentReadsItsOwn ==
  \A c \in Composed : recipe = c.recipe /\ Linted(recipe) =>
    \A v \in visits :
      LET own == c.front.ingredients[Steps[v.step].in]
      IN  v.step <= Len(c.front.steps) /\ Consumes(Steps[v.step]) /\ Present(own) =>
            v.slot.class = own.class

=============================================================================
