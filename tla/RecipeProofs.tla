---------------------------- MODULE RecipeProofs ----------------------------
(***************************************************************************)
(* Theorems about what the module stag/recipe makes of a recipe before a   *)
(* call is walked, for all recipes and calls.                              *)
(*                                                                         *)
(* Composition: a sub-recipe is a tail; a walk enters its steps through    *)
(* the arm that names it and does not leave them.                          *)
(*                                                                         *)
(* The choice channel: what crosses in the walks of a call is no more than *)
(* the analysis counts.                                                    *)
(***************************************************************************)
EXTENDS Compose, Leakage, KernelProofs, FiniteSetTheorems


-----------------------------------------------------------------------------
(* Lists, known by their length and elements.                              *)

List(s) == Len(s) \in Nat /\ s = [i \in 1 .. Len(s) |-> s[i]]

LEMMA SequencesAreLists ==
  ASSUME NEW S, NEW s \in Seq(S)
  PROVE  List(s)
BY DEF List

LEMMA ListOfLength ==
  ASSUME NEW s, NEW n \in Nat, s = [i \in 1 .. n |-> s[i]]
  PROVE  List(s) /\ Len(s) = n
<1> DEFINE S == {s[i] : i \in 1 .. n}
<1>1. s \in [1 .. n -> S]
  OBVIOUS
<1>2. s \in Seq(S) /\ Len(s) = n
  BY <1>1
<1> QED
  BY <1>2 DEF List

LEMMA Joined ==
  ASSUME NEW s, NEW t, List(s), List(t)
  PROVE  /\ List(s \o t) /\ Len(s \o t) = Len(s) + Len(t)
         /\ \A i \in 1 .. Len(s) : (s \o t)[i] = s[i]
         /\ \A i \in 1 .. Len(t) : (s \o t)[Len(s) + i] = t[i]
<1> DEFINE S == {s[i] : i \in 1 .. Len(s)} \cup {t[i] : i \in 1 .. Len(t)}
<1>1. s \in [1 .. Len(s) -> S] /\ t \in [1 .. Len(t) -> S]
  BY DEF List
<1>2. s \in Seq(S) /\ t \in Seq(S)
  BY <1>1 DEF List
<1> HIDE DEF S
<1>3. s \o t \in Seq(S) /\ Len(s \o t) = Len(s) + Len(t)
  BY <1>2
<1>4. \A i \in 1 .. Len(s) : (s \o t)[i] = s[i]
  BY <1>2
<1>5. \A i \in 1 .. Len(t) : (s \o t)[Len(s) + i] = t[i]
  BY <1>2
<1> QED
  BY <1>3, <1>4, <1>5, SequencesAreLists

-----------------------------------------------------------------------------
(* The expansion, site by site.                                            *)

\* The expansion of a front exists, and each of its stages is got from the one
\* before.
LEMMA WholeExists ==
  ASSUME NEW fr, NEW N \in Nat
  PROVE  \E f : f = [n \in 0 .. N |->
                       IF n = 0 THEN [steps |-> fr.steps, ingredients |-> fr.ingredients]
                       ELSE Splice(f[n - 1], fr, n)]
<1> DEFINE Stage(f, n) == IF n = 0 THEN [steps |-> fr.steps, ingredients |-> fr.ingredients]
                          ELSE Splice(f[n - 1], fr, n)
           Good(f, m) == f = [n \in 0 .. m |-> Stage(f, n)]
           S == {m \in 0 .. N : \E f : Good(f, m)}
<1>1. 0 \in S
  <2> DEFINE f == [n \in 0 .. 0 |-> [steps |-> fr.steps, ingredients |-> fr.ingredients]]
  <2>1. \A n \in 0 .. 0 : n = 0
    OBVIOUS
  <2>2. Good(f, 0)
    BY <2>1
  <2> HIDE DEF Good, f
  <2> QED
    BY <2>2
<1>2. ASSUME NEW m \in 0 .. N - 1, m \in S
      PROVE  m + 1 \in S
  <2>1. PICK f : Good(f, m)
    BY <1>2
  <2> DEFINE g == [n \in 0 .. m + 1 |-> Stage(f, n)]
  <2>2. \A n \in 0 .. m : f[n] = Stage(f, n)
    BY <2>1
  <2>3. \A n \in 0 .. m : g[n] = f[n]
    BY <2>2
  <2>4. ASSUME NEW n \in 0 .. m + 1
        PROVE  Stage(f, n) = Stage(g, n)
    <3> HIDE DEF g
    <3>1. n # 0 => n - 1 \in 0 .. m
      OBVIOUS
    <3> QED
      BY <2>3, <3>1
  <2> HIDE DEF Stage
  <2>5. Good(g, m + 1)
    BY <2>4
  <2>6. m + 1 \in 0 .. N
    OBVIOUS
  <2> QED
    BY <2>5, <2>6
<1>3. \A m \in 0 .. N : m \in S
  <2> HIDE DEF S
  <2> QED
    BY <1>1, <1>2, IntervalInduction
<1>4. N \in S
  BY <1>3
<1> QED
  BY <1>4

LEMMA WholeDef ==
  ASSUME NEW fr \in RecipeFront
  PROVE  /\ Len(fr.sites) \in Nat /\ DOMAIN fr.sites = 1 .. Len(fr.sites)
         /\ Whole(fr)[0] = [steps |-> fr.steps, ingredients |-> fr.ingredients]
         /\ \A n \in 1 .. Len(fr.sites) : Whole(fr)[n] = Splice(Whole(fr)[n - 1], fr, n)
<1>1. Len(fr.sites) \in Nat /\ DOMAIN fr.sites = 1 .. Len(fr.sites)
  BY DEF RecipeFront
<1> DEFINE Expands(f) == f = [n \in 0 .. Len(fr.sites) |->
                                IF n = 0
                                THEN [steps |-> fr.steps, ingredients |-> fr.ingredients]
                                ELSE Splice(f[n - 1], fr, n)]
<1>2. \E f : Expands(f)
  BY <1>1, WholeExists
<1>3. Whole(fr) = CHOOSE f : Expands(f)
  BY DEF Whole
<1>4. Expands(Whole(fr))
  <2> HIDE DEF Expands
  <2> QED
    BY <1>2, <1>3
<1> HIDE DEF Whole
<1>5. Whole(fr) = [n \in 0 .. Len(fr.sites) |->
                     IF n = 0 THEN [steps |-> fr.steps, ingredients |-> fr.ingredients]
                     ELSE Splice(Whole(fr)[n - 1], fr, n)]
  BY <1>4
<1> QED
  BY <1>1, <1>5

-----------------------------------------------------------------------------
(* What a splice does to the steps.                                        *)

Stage(fr, n) == Whole(fr)[n].steps
Size(fr, n)  == Len(Stage(fr, n))
Child(fr, n) == Library[fr.sites[n].child]

\* The step a sub-recipe begins with.
Entry(fr, n) == Size(fr, n - 1) + 1

LEMMA SpanDef ==
  ASSUME NEW fr, NEW n
  PROVE  Span(fr, n) = Entry(fr, n) .. Size(fr, n)
BY DEF Span, Entry, Size, Stage

LEMMA ChildFacts ==
  ASSUME NEW fr \in RecipeFront, NEW n \in 1 .. Len(fr.sites)
  PROVE  /\ fr.sites[n] \in Site /\ fr.sites[n].kase \in Nat
         /\ Child(fr, n).steps \in Seq(Step)
         /\ Len(Child(fr, n).steps) \in Nat \ {0}
<1>1. fr.sites \in Seq(Site)
  BY DEF RecipeFront
<1>2. fr.sites[n] \in Site
  BY <1>1
<1>3. fr.sites[n].kase \in Nat /\ fr.sites[n].child \in DOMAIN Library
  BY <1>2 DEF Site
<1>4. Child(fr, n) \in RecipeFront
  BY <1>3, ComposeAssumption DEF Child
<1>5. Child(fr, n).steps \in Seq(Step) \ {<<>>}
  BY <1>4 DEF RecipeFront
<1> QED
  BY <1>2, <1>3, <1>5

LEMMA SpliceSteps ==
  ASSUME NEW fr \in RecipeFront, NEW n \in 1 .. Len(fr.sites), List(Stage(fr, n - 1))
  PROVE  /\ List(Stage(fr, n))
         /\ Size(fr, n) = Size(fr, n - 1) + Len(Child(fr, n).steps)
         /\ \A i \in 1 .. Size(fr, n - 1) :
              Stage(fr, n)[i] = IF i = fr.sites[n].step
                                THEN Lead(Stage(fr, n - 1)[i], fr.sites[n].kase, Entry(fr, n))
                                ELSE Stage(fr, n - 1)[i]
         /\ \A i \in 1 .. Len(Child(fr, n).steps) :
              Stage(fr, n)[Size(fr, n - 1) + i]
                = MovedStep(Child(fr, n).steps[i], Size(fr, n - 1), Renamed[n])
<1> DEFINE old   == Stage(fr, n - 1)
           by    == Len(old)
           child == Child(fr, n).steps
           arm   == [old EXCEPT ![fr.sites[n].step] = Lead(@, fr.sites[n].kase, by + 1)]
           moved == MovedSteps(child, by, Renamed[n])
<1>1. Stage(fr, n) = arm \o moved
  <2>1. Whole(fr)[n] = Splice(Whole(fr)[n - 1], fr, n)
    BY WholeDef
  <2>2. \A r : Splice(r, fr, n).steps
                = [r.steps EXCEPT ![fr.sites[n].step] = Lead(@, fr.sites[n].kase, Len(r.steps) + 1)]
                    \o MovedSteps(Child(fr, n).steps, Len(r.steps), Renamed[n])
    BY DEF Splice, Child
  <2> QED
    BY <2>1, <2>2 DEF Stage
<1>2. /\ by \in Nat /\ old = [i \in 1 .. by |-> old[i]] /\ by = Size(fr, n - 1)
      /\ Len(child) \in Nat /\ DOMAIN child = 1 .. Len(child)
  BY ChildFacts DEF List, Size
<1> HIDE DEF old, by, child
<1>3. /\ arm = [i \in 1 .. by |-> arm[i]]
      /\ \A i \in 1 .. by : arm[i] = IF i = fr.sites[n].step
                                    THEN Lead(old[i], fr.sites[n].kase, by + 1) ELSE old[i]
  BY <1>2
<1>4. /\ moved = [i \in 1 .. Len(child) |-> moved[i]]
      /\ \A i \in 1 .. Len(child) : moved[i] = MovedStep(child[i], by, Renamed[n])
  BY <1>2 DEF MovedSteps
<1> HIDE DEF arm, moved
<1>5. List(arm) /\ Len(arm) = by /\ List(moved) /\ Len(moved) = Len(child)
  BY <1>2, <1>3, <1>4, ListOfLength
<1>6. /\ List(arm \o moved) /\ Len(arm \o moved) = by + Len(child)
      /\ \A i \in 1 .. by : (arm \o moved)[i] = arm[i]
      /\ \A i \in 1 .. Len(child) : (arm \o moved)[by + i] = moved[i]
  <2>1. /\ List(arm \o moved) /\ Len(arm \o moved) = Len(arm) + Len(moved)
        /\ \A i \in 1 .. Len(arm) : (arm \o moved)[i] = arm[i]
        /\ \A i \in 1 .. Len(moved) : (arm \o moved)[Len(arm) + i] = moved[i]
    BY <1>5, Joined
  <2> QED
    BY <1>5, <2>1
<1>7. Size(fr, n) = Size(fr, n - 1) + Len(child)
  BY <1>1, <1>2, <1>6 DEF Size
<1>8. Entry(fr, n) = by + 1
  BY <1>2 DEF Entry
<1>9. \A i \in 1 .. Size(fr, n - 1) :
         Stage(fr, n)[i] = IF i = fr.sites[n].step
                           THEN Lead(Stage(fr, n - 1)[i], fr.sites[n].kase, Entry(fr, n))
                           ELSE Stage(fr, n - 1)[i]
  BY <1>1, <1>2, <1>3, <1>6, <1>8 DEF old
<1>10. \A i \in 1 .. Len(Child(fr, n).steps) :
         Stage(fr, n)[Size(fr, n - 1) + i]
           = MovedStep(Child(fr, n).steps[i], Size(fr, n - 1), Renamed[n])
  BY <1>1, <1>2, <1>4, <1>6 DEF child
<1> QED
  BY <1>1, <1>6, <1>7, <1>9, <1>10 DEF child

\* An arm that is led elsewhere changes nothing else of its step.
LEMMA LeadFacts ==
  ASSUME NEW st \in Step, NEW kase \in Nat, NEW target \in Nat
  PROVE  /\ Lead(st, kase, target) \in Step
         /\ Lead(st, kase, target).kind = st.kind
         /\ kase = 0 => Lead(st, kase, target).goto = target
         /\ kase # 0 => Lead(st, kase, target).goto = st.goto
         /\ DOMAIN Lead(st, kase, target).cases = DOMAIN st.cases
         /\ kase \in DOMAIN st.cases => Lead(st, kase, target).cases[kase].goto = target
<1> DEFINE Arm == [rule : Rules, goto : Nat]
<1>1. st.cases \in Seq(Arm) /\ st.goto \in Nat
  BY DEF Step
<1>2. CASE kase = 0
  <2>1. Lead(st, kase, target) = [st EXCEPT !.goto = target]
    BY <1>2 DEF Lead
  <2>2. [st EXCEPT !.goto = target] \in Step
    BY DEF Step
  <2> QED
    BY <1>1, <1>2, <2>1, <2>2 DEF Step
<1>3. CASE kase # 0
  <2> DEFINE cs == [st.cases EXCEPT ![kase].goto = target]
  <2>1. Lead(st, kase, target) = [st EXCEPT !.cases = cs]
    BY <1>3 DEF Lead, Step
  <2>2. /\ DOMAIN cs = DOMAIN st.cases
        /\ \A k \in DOMAIN st.cases :
             cs[k] = IF k = kase THEN [st.cases[k] EXCEPT !.goto = target] ELSE st.cases[k]
    OBVIOUS
  <2>3. \A k \in DOMAIN st.cases : st.cases[k] \in Arm
    BY <1>1, ElementOf
  <2>4. \A k \in DOMAIN st.cases :
          cs[k] \in Arm /\ cs[k].goto = IF k = kase THEN target ELSE st.cases[k].goto
    BY <2>2, <2>3
  <2>5. Len(st.cases) \in Nat /\ DOMAIN st.cases = 1 .. Len(st.cases)
    BY <1>1
  <2>6. cs \in [1 .. Len(st.cases) -> Arm]
    <3> HIDE DEF Arm
    <3>1. cs = [k \in DOMAIN st.cases |-> cs[k]]
      OBVIOUS
    <3> HIDE DEF cs
    <3> QED
      BY <2>2, <2>4, <2>5, <3>1
  <2> HIDE DEF cs
  <2>7. cs \in Seq(Arm)
    <3> HIDE DEF Arm
    <3> QED
      BY <2>5, <2>6
  <2>8. [st EXCEPT !.cases = cs] \in Step
    BY <2>7 DEF Step
  <2>9. [st EXCEPT !.cases = cs].cases = cs /\ [st EXCEPT !.cases = cs].kind = st.kind
        /\ [st EXCEPT !.cases = cs].goto = st.goto
    BY DEF Step
  <2> QED
    BY <1>3, <2>1, <2>2, <2>4, <2>8, <2>9
<1> QED
  BY <1>2, <1>3

\* A step that is moved is of its kind, and leads where its edges are moved.
LEMMA MovedFacts ==
  ASSUME NEW st \in Step, NEW by \in Nat, NEW name
  PROVE  /\ MovedStep(st, by, name).kind = st.kind
         /\ Targets(MovedStep(st, by, name)) = {Moved(t, by) : t \in Targets(st)}
<1> DEFINE cs == [k \in DOMAIN st.cases |->
                    [st.cases[k] EXCEPT !.goto = Moved(st.cases[k].goto, by)]]
           mv == MovedStep(st, by, name)
<1>1. mv.kind = st.kind /\ mv.goto = Moved(st.goto, by) /\ mv.cases = cs
  <2>1. mv = [st EXCEPT !.in = name[st.in], !.out = name[st.out], !.goto = Moved(st.goto, by),
                        !.cases = cs]
    BY DEF MovedStep
  <2> HIDE DEF mv, cs
  <2> QED
    BY <2>1 DEF Step
<1>2. \A k \in DOMAIN st.cases : cs[k].goto = Moved(st.cases[k].goto, by)
  <2> TAKE k \in DOMAIN st.cases
  <2>1. st.cases \in Seq([rule : Rules, goto : Nat])
    BY DEF Step
  <2>2. st.cases[k] \in [rule : Rules, goto : Nat]
    BY <2>1, ElementOf
  <2> QED
    BY <2>2
<1>3. st.goto \in Nat
  BY DEF Step
<1>4. mv.goto = 0 <=> st.goto = 0
  BY <1>1, <1>3 DEF Moved
<1>5. DOMAIN cs = DOMAIN st.cases
  OBVIOUS
<1> HIDE DEF mv, cs
<1>6. {mv.cases[k].goto : k \in DOMAIN mv.cases}
        = {Moved(st.cases[k].goto, by) : k \in DOMAIN st.cases}
  BY <1>1, <1>2, <1>5
<1>7. Targets(mv) = {Moved(t, by) : t \in Targets(st)}
  BY <1>1, <1>4, <1>6 DEF Targets
<1> QED
  BY <1>1, <1>7 DEF mv

-----------------------------------------------------------------------------
(* The layout of the expansion.                                            *)

\* Where arm k of step i of the front may lead: into the front, or to the entry of
\* the sub-recipe of a site that names the arm.
Aims(fr, n, i, k) ==
  0 .. Len(fr.steps)
    \cup {Entry(fr, m) : m \in {l \in 1 .. n : fr.sites[l].step = i /\ fr.sites[l].kase = k}}

ParentStep(fr, n, i) ==
  LET st == Stage(fr, n)[i]
  IN  /\ st \in Step /\ st.kind = fr.steps[i].kind
      /\ st.goto \in Aims(fr, n, i, 0)
      /\ \A k \in DOMAIN st.cases : st.cases[k].goto \in Aims(fr, n, i, k)

\* The sub-recipe at site m leads nowhere else, and ends with an exit.
ChildInPlace(fr, n, m) ==
  /\ Size(fr, m - 1) \in Nat /\ Size(fr, m) \in Nat
  /\ Len(fr.steps) <= Size(fr, m - 1) /\ Size(fr, m - 1) < Size(fr, m)
  /\ Size(fr, m) <= Size(fr, n)
  /\ \A i \in Span(fr, m) : Targets(Stage(fr, n)[i]) \subseteq {0} \cup Span(fr, m)
  /\ Stage(fr, n)[Size(fr, m)].kind = "exit"

Laid(fr, n) ==
  /\ List(Stage(fr, n)) /\ Len(fr.steps) <= Size(fr, n)
  /\ \A i \in 1 .. Len(fr.steps) : ParentStep(fr, n, i)
  /\ \A m \in 1 .. n : ChildInPlace(fr, n, m)

\* A front that the theorems are about.
Fitting(fr) ==
  /\ fr \in RecipeFront /\ SitesInPlace(fr) /\ Closed(fr)
  /\ \A n \in DOMAIN fr.sites : Fits(fr, fr.sites[n])

LEMMA LaidAtFirst ==
  ASSUME NEW fr, Fitting(fr)
  PROVE  Laid(fr, 0)
<1>0. fr \in RecipeFront
  BY DEF Fitting
<1>1. Stage(fr, 0) = fr.steps /\ fr.steps \in Seq(Step) /\ Len(fr.steps) \in Nat
  <2>1. fr.steps \in Seq(Step) /\ Len(fr.steps) \in Nat
    BY <1>0 DEF RecipeFront
  <2>2. Whole(fr)[0].steps = fr.steps
    <3>1. Whole(fr)[0] = [steps |-> fr.steps, ingredients |-> fr.ingredients]
      BY <1>0, WholeDef
    <3> QED
      BY <3>1
  <2> QED
    BY <2>1, <2>2 DEF Stage
<1>2. List(Stage(fr, 0)) /\ Size(fr, 0) = Len(fr.steps)
  BY <1>1, SequencesAreLists DEF Size
<1>3. ASSUME NEW i \in 1 .. Len(fr.steps)
      PROVE  ParentStep(fr, 0, i)
  <2>1. fr.steps[i] \in Step /\ fr.steps[i].goto \in Nat
    <3>1. fr.steps[i] \in Step
      BY <1>1
    <3> QED
      BY <3>1 DEF Step
  <2>2. Targets(fr.steps[i]) \subseteq 0 .. Len(fr.steps)
    BY <1>1 DEF Fitting, Closed
  <2>3. fr.steps[i].goto \in 0 .. Len(fr.steps)
    BY <1>1, <2>1, <2>2 DEF Targets
  <2>4. \A k \in DOMAIN fr.steps[i].cases : fr.steps[i].cases[k].goto \in 0 .. Len(fr.steps)
    BY <2>2 DEF Targets
  <2> QED
    BY <1>1, <2>1, <2>3, <2>4 DEF ParentStep, Aims
<1> QED
  BY <1>1, <1>2, <1>3 DEF Laid

LEMMA LeadsElsewhere ==
  ASSUME NEW st \in Step, NEW kase \in Nat, NEW target \in Nat,
         NEW k \in DOMAIN st.cases, k # kase
  PROVE  Lead(st, kase, target).cases[k] = st.cases[k]
<1>1. CASE kase = 0
  <2>1. Lead(st, kase, target) = [st EXCEPT !.goto = target]
    BY <1>1 DEF Lead
  <2> QED
    BY <2>1 DEF Step
<1>2. CASE kase # 0
  <2> DEFINE cs == [st.cases EXCEPT ![kase].goto = target]
  <2>1. Lead(st, kase, target) = [st EXCEPT !.cases = cs]
    BY <1>2 DEF Lead, Step
  <2>2. cs[k] = st.cases[k]
    OBVIOUS
  <2> HIDE DEF cs
  <2> QED
    BY <2>1, <2>2 DEF Step
<1> QED
  BY <1>1, <1>2

\* An arm of a step that is led to an entry.
LEMMA LedArms ==
  ASSUME NEW fr, NEW n, NEW i, NEW st \in Step, NEW kase \in Nat, NEW e \in Nat,
         st.goto \in Aims(fr, n, i, 0),
         \A k \in DOMAIN st.cases : st.cases[k].goto \in Aims(fr, n, i, k),
         e \in Aims(fr, n, i, kase)
  PROVE  /\ Lead(st, kase, e) \in Step /\ Lead(st, kase, e).kind = st.kind
         /\ Lead(st, kase, e).goto \in Aims(fr, n, i, 0)
         /\ \A k \in DOMAIN Lead(st, kase, e).cases :
              Lead(st, kase, e).cases[k].goto \in Aims(fr, n, i, k)
<1>1. Lead(st, kase, e) \in Step /\ Lead(st, kase, e).kind = st.kind
  BY LeadFacts
<1>2. Lead(st, kase, e).goto \in Aims(fr, n, i, 0)
  <2>1. CASE kase = 0
    <3>1. Lead(st, kase, e).goto = e
      BY <2>1, LeadFacts
    <3> QED
      BY <2>1, <3>1
  <2>2. CASE kase # 0
    <3>1. Lead(st, kase, e).goto = st.goto
      BY <2>2, LeadFacts
    <3> QED
      BY <3>1
  <2> QED
    BY <2>1, <2>2
<1>3. DOMAIN Lead(st, kase, e).cases = DOMAIN st.cases
  BY LeadFacts
<1>4. ASSUME NEW k \in DOMAIN st.cases
      PROVE  Lead(st, kase, e).cases[k].goto \in Aims(fr, n, i, k)
  <2>1. CASE k = kase
    <3>1. Lead(st, kase, e).cases[kase].goto = e
      BY <2>1, LeadFacts
    <3> QED
      BY <2>1, <3>1
  <2>2. CASE k # kase
    <3>1. Lead(st, kase, e).cases[k].goto = st.cases[k].goto
      BY <2>2, LeadsElsewhere
    <3> QED
      BY <3>1
  <2> QED
    BY <2>1, <2>2
<1> QED
  BY <1>1, <1>2, <1>3, <1>4

\* The steps of the front keep their layout when a sub-recipe is appended.
LEMMA ParentStays ==
  ASSUME NEW fr, Fitting(fr), NEW n \in 1 .. Len(fr.sites), Laid(fr, n - 1),
         NEW i \in 1 .. Len(fr.steps)
  PROVE  ParentStep(fr, n, i)
<1> DEFINE st == Stage(fr, n - 1)[i]
<1>0. fr \in RecipeFront
  BY DEF Fitting
<1>1. /\ st \in Step /\ st.kind = fr.steps[i].kind /\ st.goto \in Aims(fr, n - 1, i, 0)
      /\ \A k \in DOMAIN st.cases : st.cases[k].goto \in Aims(fr, n - 1, i, k)
  BY DEF Laid, ParentStep
<1>2. Len(fr.sites) \in Nat /\ Len(fr.steps) \in Nat
  BY <1>0, WholeDef DEF RecipeFront
<1>3. Size(fr, n - 1) \in Nat /\ i \in 1 .. Size(fr, n - 1)
  BY <1>2 DEF Laid, List, Size
<1>4. Stage(fr, n)[i] = IF i = fr.sites[n].step
                        THEN Lead(st, fr.sites[n].kase, Entry(fr, n)) ELSE st
  BY <1>0, <1>3, SpliceSteps DEF Laid
<1>5. \A k : Aims(fr, n - 1, i, k) \subseteq Aims(fr, n, i, k)
  BY <1>2 DEF Aims
<1> HIDE DEF st
<1>6. CASE i # fr.sites[n].step
  BY <1>1, <1>4, <1>5, <1>6 DEF ParentStep
<1>7. CASE i = fr.sites[n].step
  <2>1. fr.sites[n].kase \in Nat
    BY <1>0, ChildFacts
  <2>2. Entry(fr, n) \in Nat
    BY <1>3 DEF Entry
  <2>3. Entry(fr, n) \in Aims(fr, n, i, fr.sites[n].kase)
    BY <1>2, <1>7 DEF Aims
  <2>4. Stage(fr, n)[i] = Lead(st, fr.sites[n].kase, Entry(fr, n))
    BY <1>4, <1>7
  <2>5. /\ st.goto \in Aims(fr, n, i, 0)
        /\ \A k \in DOMAIN st.cases : st.cases[k].goto \in Aims(fr, n, i, k)
    BY <1>1, <1>5
  <2> DEFINE new == Lead(st, fr.sites[n].kase, Entry(fr, n))
  <2>6. /\ new \in Step /\ new.kind = st.kind
        /\ new.goto \in Aims(fr, n, i, 0)
        /\ \A k \in DOMAIN new.cases : new.cases[k].goto \in Aims(fr, n, i, k)
    BY <1>1, <2>1, <2>2, <2>3, <2>5, LedArms
  <2> HIDE DEF new
  <2> QED
    BY <1>1, <2>4, <2>6 DEF ParentStep, new
<1> QED
  BY <1>6, <1>7

LEMMA InBetween ==
  ASSUME NEW p \in Nat, NEW a \in Nat, NEW b \in Nat, NEW c \in Nat, NEW i \in Nat,
         p <= a, a < i, i <= b, b <= c
  PROVE  i \in 1 .. c /\ p < i
OBVIOUS

\* The sub-recipes that are there keep theirs.
LEMMA ChildStays ==
  ASSUME NEW fr, Fitting(fr), NEW n \in 1 .. Len(fr.sites), Laid(fr, n - 1),
         NEW m \in 1 .. n - 1
  PROVE  ChildInPlace(fr, n, m)
<1>0. fr \in RecipeFront /\ fr.sites[n].step \in 1 .. Len(fr.steps) /\ Len(fr.steps) \in Nat
  BY WholeDef DEF Fitting, SitesInPlace, RecipeFront
<1>1. ChildInPlace(fr, n - 1, m)
  BY DEF Laid
<1>2. /\ Size(fr, n) = Size(fr, n - 1) + Len(Child(fr, n).steps)
      /\ Len(Child(fr, n).steps) \in Nat /\ Size(fr, n - 1) \in Nat
  BY <1>0, SpliceSteps, ChildFacts DEF Laid, List, Size
<1>3. \A i \in Span(fr, m) : /\ i \in 1 .. Size(fr, n - 1) /\ i # fr.sites[n].step
                             /\ Stage(fr, n)[i] = Stage(fr, n - 1)[i]
  <2> TAKE i \in Span(fr, m)
  <2>1. /\ i \in Size(fr, m - 1) + 1 .. Size(fr, m) /\ Size(fr, m) <= Size(fr, n - 1)
        /\ Size(fr, m - 1) \in Nat /\ Size(fr, m) \in Nat /\ Len(fr.steps) <= Size(fr, m - 1)
    BY <1>1, SpanDef DEF ChildInPlace, Entry
  <2>2. i \in Nat /\ Size(fr, m - 1) < i /\ i <= Size(fr, m)
    BY <2>1
  <2>3. i \in 1 .. Size(fr, n - 1) /\ Len(fr.steps) < i
    BY <1>0, <1>2, <2>1, <2>2, InBetween
  <2>4. fr.sites[n].step \in Nat /\ fr.sites[n].step <= Len(fr.steps)
    BY <1>0
  <2>5. i # fr.sites[n].step
    BY <1>0, <2>2, <2>3, <2>4
  <2> QED
    BY <1>0, <2>3, <2>5, SpliceSteps DEF Laid
<1>4. Size(fr, m) \in Span(fr, m)
  BY <1>1, SpanDef DEF ChildInPlace, Entry
<1>5. Size(fr, m) <= Size(fr, n)
  BY <1>1, <1>2 DEF ChildInPlace
<1> QED
  BY <1>1, <1>3, <1>4, <1>5 DEF ChildInPlace

\* The sub-recipe that is appended is in place.
LEMMA ChildComes ==
  ASSUME NEW fr, Fitting(fr), NEW n \in 1 .. Len(fr.sites), Laid(fr, n - 1)
  PROVE  ChildInPlace(fr, n, n)
<1> DEFINE by == Size(fr, n - 1)
           child == Child(fr, n).steps
<1>0. fr \in RecipeFront
  BY DEF Fitting
<1>1. by \in Nat /\ Len(fr.steps) <= by
  BY DEF Laid, List, Size
<1>2. child \in Seq(Step) /\ Len(child) \in Nat \ {0} /\ DOMAIN child = 1 .. Len(child)
  BY <1>0, ChildFacts
<1>3. Sealed(Child(fr, n)) /\ Closed(Child(fr, n))
  BY <1>0, WholeDef DEF Fitting, Fits, Child
<1>4. /\ Size(fr, n) = by + Len(child)
      /\ \A i \in 1 .. Len(child) : Stage(fr, n)[by + i] = MovedStep(child[i], by, Renamed[n])
  BY <1>0, SpliceSteps DEF Laid
<1>5. \A i \in 1 .. Len(child) :
        /\ Stage(fr, n)[by + i].kind = child[i].kind
        /\ Targets(Stage(fr, n)[by + i]) = {Moved(t, by) : t \in Targets(child[i])}
  <2> TAKE i \in 1 .. Len(child)
  <2>1. child[i] \in Step
    BY <1>2
  <2> HIDE DEF by, child
  <2> QED
    BY <1>1, <1>4, <2>1, MovedFacts
<1>6. child[Len(child)].kind = "exit"
  BY <1>3 DEF Sealed, Last
<1>7. Span(fr, n) = by + 1 .. by + Len(child)
  BY <1>4, SpanDef DEF Entry
<1>8. ASSUME NEW i \in Span(fr, n)
      PROVE  Targets(Stage(fr, n)[i]) \subseteq {0} \cup Span(fr, n)
  <2> DEFINE k == i - by
  <2>1. k \in 1 .. Len(child) /\ i = by + k
    BY <1>1, <1>2, <1>7
  <2>2. Targets(child[k]) \subseteq 0 .. Len(child)
    BY <1>2, <1>3, <2>1 DEF Closed
  <2>3. \A t \in 0 .. Len(child) : Moved(t, by) \in {0} \cup Span(fr, n)
    BY <1>1, <1>2, <1>7 DEF Moved
  <2>4. Targets(Stage(fr, n)[i]) = {Moved(t, by) : t \in Targets(child[k])}
    BY <1>5, <2>1
  <2> HIDE DEF k, by, child
  <2> QED
    BY <2>2, <2>3, <2>4
<1>9. Stage(fr, n)[Size(fr, n)].kind = "exit"
  BY <1>2, <1>4, <1>5, <1>6
<1> QED
  BY <1>1, <1>2, <1>4, <1>8, <1>9 DEF ChildInPlace

LEMMA LaidOut ==
  ASSUME NEW fr, Fitting(fr)
  PROVE  \A n \in 0 .. Len(fr.sites) : Laid(fr, n)
<1> DEFINE N == Len(fr.sites)
           S == {n \in 0 .. N : Laid(fr, n)}
<1>1. N \in Nat /\ Len(fr.steps) \in Nat
  BY WholeDef DEF Fitting, RecipeFront
<1>2. 0 \in S
  BY <1>1, LaidAtFirst
<1>3. ASSUME NEW m \in 0 .. N - 1, m \in S
      PROVE  m + 1 \in S
  <2> DEFINE n == m + 1
  <2>1. n \in 1 .. N /\ n - 1 = m /\ Laid(fr, n - 1)
    BY <1>1, <1>3
  <2> HIDE DEF n
  <2>2. /\ List(Stage(fr, n)) /\ Size(fr, n) = Size(fr, n - 1) + Len(Child(fr, n).steps)
        /\ Len(Child(fr, n).steps) \in Nat /\ Size(fr, n - 1) \in Nat
        /\ Len(fr.steps) <= Size(fr, n - 1)
    BY <2>1, SpliceSteps, ChildFacts DEF Fitting, Laid, List, Size
  <2>3. Len(fr.steps) <= Size(fr, n)
    BY <1>1, <2>2
  <2>4. \A i \in 1 .. Len(fr.steps) : ParentStep(fr, n, i)
    BY <2>1, ParentStays
  <2>5. \A k \in 1 .. n : ChildInPlace(fr, n, k)
    <3> TAKE k \in 1 .. n
    <3>1. k = n \/ k \in 1 .. n - 1
      BY <1>1, <2>1
    <3> QED
      BY <2>1, <3>1, ChildStays, ChildComes
  <2> QED
    BY <2>1, <2>2, <2>3, <2>4, <2>5 DEF Laid, n
<1> HIDE DEF S
<1>4. \A n \in 0 .. N : n \in S
  BY <1>1, <1>2, <1>3, IntervalInduction
<1> QED
  BY <1>4 DEF S

-----------------------------------------------------------------------------
(* The only way into a sub-recipe.                                         *)

LEMMA SizesAscend ==
  ASSUME NEW fr, Fitting(fr)
  PROVE  /\ Len(fr.sites) \in Nat /\ Len(fr.steps) \in Nat \ {0}
         /\ \A n \in 0 .. Len(fr.sites) : Size(fr, n) \in Nat /\ Len(fr.steps) <= Size(fr, n)
         /\ Size(fr, 0) = Len(fr.steps)
         /\ \A n \in 1 .. Len(fr.sites) : Size(fr, n - 1) < Size(fr, n)
         /\ \A m, n \in 1 .. Len(fr.sites) : m < n => Size(fr, m) <= Size(fr, n - 1)
<1>0. fr \in RecipeFront
  BY DEF Fitting
<1>1. Len(fr.sites) \in Nat
  BY <1>0, WholeDef
<1>2. Len(fr.steps) \in Nat \ {0} /\ fr.steps \in Seq(Step)
  <2>1. fr.steps \in Seq(Step) \ {<<>>}
    BY <1>0 DEF RecipeFront
  <2> QED
    BY <2>1
<1>3. \A n \in 0 .. Len(fr.sites) : Laid(fr, n)
  BY LaidOut
<1>4. \A n \in 0 .. Len(fr.sites) : Size(fr, n) \in Nat /\ Len(fr.steps) <= Size(fr, n)
  BY <1>3 DEF Laid, List, Size
<1>5. Size(fr, 0) = Len(fr.steps)
  <2>1. Whole(fr)[0] = [steps |-> fr.steps, ingredients |-> fr.ingredients]
    BY <1>0, WholeDef
  <2> QED
    BY <2>1 DEF Size, Stage
<1>6. ASSUME NEW n \in 1 .. Len(fr.sites)
      PROVE  Size(fr, n - 1) < Size(fr, n)
  <2>1. Laid(fr, n) /\ n \in 1 .. n
    BY <1>1, <1>3
  <2>2. ChildInPlace(fr, n, n)
    BY <2>1 DEF Laid
  <2> QED
    BY <2>2 DEF ChildInPlace
<1>7. ASSUME NEW m \in 1 .. Len(fr.sites), NEW n \in 1 .. Len(fr.sites), m < n
      PROVE  Size(fr, m) <= Size(fr, n - 1)
  <2>1. Laid(fr, n - 1) /\ m \in 1 .. n - 1
    BY <1>1, <1>3, <1>7
  <2>2. ChildInPlace(fr, n - 1, m)
    BY <2>1 DEF Laid
  <2> QED
    BY <2>2 DEF ChildInPlace
<1> QED
  BY <1>1, <1>2, <1>4, <1>5, <1>6, <1>7

\* Every step is one of the front or of a sub-recipe.
LEMMA StepsCovered ==
  ASSUME NEW fr, Fitting(fr)
  PROVE  \A n \in 0 .. Len(fr.sites) : \A i \in 1 .. Size(fr, n) :
           i \in 1 .. Len(fr.steps) \/ \E m \in 1 .. n : i \in Span(fr, m)
<1> DEFINE N == Len(fr.sites)
           Covered(n) == \A i \in 1 .. Size(fr, n) :
                           i \in 1 .. Len(fr.steps) \/ \E m \in 1 .. n : i \in Span(fr, m)
           S == {n \in 0 .. N : Covered(n)}
<1>1. /\ N \in Nat /\ Size(fr, 0) = Len(fr.steps)
      /\ \A n \in 0 .. N : Size(fr, n) \in Nat
  BY SizesAscend
<1>2. 0 \in S
  BY <1>1
<1>3. ASSUME NEW n \in 0 .. N - 1, n \in S
      PROVE  n + 1 \in S
  <2>1. n + 1 \in 0 .. N /\ Covered(n) /\ Size(fr, n) \in Nat /\ Size(fr, n + 1) \in Nat
    BY <1>1, <1>3
  <2>2. Span(fr, n + 1) = Size(fr, n) + 1 .. Size(fr, n + 1)
    <3>1. n + 1 - 1 = n
      BY <1>1
    <3>2. Entry(fr, n + 1) = Size(fr, n) + 1
      BY <3>1 DEF Entry
    <3> QED
      BY <3>2, SpanDef
  <2>3. ASSUME NEW i \in 1 .. Size(fr, n + 1)
        PROVE  i \in 1 .. Len(fr.steps) \/ \E m \in 1 .. n + 1 : i \in Span(fr, m)
    <3>1. CASE i \in 1 .. Size(fr, n)
      <4>1. \A m \in 1 .. n : m \in 1 .. n + 1
        BY <1>1
      <4> QED
        BY <2>1, <3>1, <4>1
    <3>2. CASE i \notin 1 .. Size(fr, n)
      <4>1. i \in Span(fr, n + 1)
        BY <2>1, <2>2, <3>2
      <4>2. n + 1 \in 1 .. n + 1
        BY <1>1
      <4> QED
        BY <4>1, <4>2
    <3> QED
      BY <3>1, <3>2
  <2>4. Covered(n + 1)
    BY <2>3
  <2> HIDE DEF Covered
  <2> QED
    BY <2>1, <2>4
<1>4. \A n \in 0 .. N : n \in S
  <2> HIDE DEF S
  <2> QED
    BY <1>1, <1>2, <1>3, IntervalInduction
<1> QED
  BY <1>4

\* Where a sub-recipe begins and ends, and that no two overlap.
LEMMA SpanFacts ==
  ASSUME NEW fr, Fitting(fr), NEW n \in 1 .. Len(fr.sites), NEW j \in Span(fr, n)
  PROVE  /\ j \in Nat /\ Len(fr.steps) < j /\ j \in Entry(fr, n) .. Size(fr, n)
         /\ Entry(fr, n) \in Nat
         /\ \A m \in 1 .. Len(fr.sites) :
              /\ j \in Span(fr, m) => m = n
              /\ j = Entry(fr, m) => m = n
<1>1. /\ Len(fr.sites) \in Nat /\ Len(fr.steps) \in Nat
      /\ \A k \in 0 .. Len(fr.sites) : Size(fr, k) \in Nat /\ Len(fr.steps) <= Size(fr, k)
      /\ \A k \in 1 .. Len(fr.sites) : Size(fr, k - 1) < Size(fr, k)
      /\ \A k, l \in 1 .. Len(fr.sites) : k < l => Size(fr, k) <= Size(fr, l - 1)
  BY SizesAscend
<1>2. Size(fr, n - 1) \in Nat /\ Len(fr.steps) <= Size(fr, n - 1) /\ Size(fr, n) \in Nat
  BY <1>1
<1>3. j \in Size(fr, n - 1) + 1 .. Size(fr, n)
  BY SpanDef DEF Entry
<1>4. ASSUME NEW m \in 1 .. Len(fr.sites), j \in Size(fr, m - 1) + 1 .. Size(fr, m)
      PROVE  m = n
  <2>1. Size(fr, m - 1) \in Nat /\ Size(fr, m) \in Nat
    BY <1>1
  <2>2. ~(m < n)
    BY <1>1, <1>2, <1>3, <1>4, <2>1
  <2>3. ~(n < m)
    BY <1>1, <1>2, <1>3, <1>4, <2>1
  <2> QED
    BY <1>1, <2>2, <2>3
<1>5. ASSUME NEW m \in 1 .. Len(fr.sites)
      PROVE  /\ j \in Span(fr, m) => m = n
             /\ j = Entry(fr, m) => m = n
  <2>1. Size(fr, m - 1) \in Nat /\ Size(fr, m) \in Nat /\ Size(fr, m - 1) < Size(fr, m)
    BY <1>1
  <2>2. j = Entry(fr, m) => j \in Size(fr, m - 1) + 1 .. Size(fr, m)
    BY <2>1 DEF Entry
  <2>3. j \in Span(fr, m) => j \in Size(fr, m - 1) + 1 .. Size(fr, m)
    BY SpanDef DEF Entry
  <2> QED
    BY <1>4, <2>2, <2>3
<1> QED
  BY <1>2, <1>3, <1>5 DEF Entry

\* If step i leads to j, it is the step of site n, over the arm of the site.
LeadsBySite(fr, n, i, j) ==
  LET st   == Stage(fr, Len(fr.sites))[i]
      site == fr.sites[n]
  IN  /\ st.goto = j => i = site.step /\ site.kase = 0
      /\ \A k \in DOMAIN st.cases : st.cases[k].goto = j => i = site.step /\ site.kase = k
      /\ st.kind # "exit" => i + 1 # j

\* A step outside of a sub-recipe that leads into it is the step of its site, and
\* does so by the arm of its site.
LEMMA OnlyEntrance ==
  ASSUME NEW fr, Fitting(fr), Sealed(fr), NEW n \in 1 .. Len(fr.sites),
         NEW i \in 1 .. Size(fr, Len(fr.sites)), NEW j \in Span(fr, n), i \notin Span(fr, n)
  PROVE  LeadsBySite(fr, n, i, j)
<1> DEFINE N == Len(fr.sites)
           st == Stage(fr, N)[i]
           site == fr.sites[n]
<1>1. /\ N \in Nat /\ Len(fr.steps) \in Nat \ {0} /\ N \in 0 .. N
      /\ Laid(fr, N)
  BY SizesAscend, LaidOut
<1>2. /\ j \in Nat /\ Len(fr.steps) < j /\ j \in Entry(fr, n) .. Size(fr, n)
      /\ Entry(fr, n) \in Nat
      /\ \A m \in 1 .. N : (j \in Span(fr, m) => m = n) /\ (j = Entry(fr, m) => m = n)
  BY SpanFacts
<1>3. /\ \A k \in 0 .. N : Size(fr, k) \in Nat /\ Len(fr.steps) <= Size(fr, k)
      /\ \A k, l \in 1 .. N : k < l => Size(fr, k) <= Size(fr, l - 1)
  BY SizesAscend
<1>4. CASE i \in 1 .. Len(fr.steps)
  <2>1. /\ st.kind = fr.steps[i].kind /\ st.goto \in Aims(fr, N, i, 0)
        /\ \A k \in DOMAIN st.cases : st.cases[k].goto \in Aims(fr, N, i, k)
    BY <1>1, <1>4 DEF Laid, ParentStep
  <2>2. \A k : j \in Aims(fr, N, i, k) => i = site.step /\ site.kase = k
    BY <1>1, <1>2 DEF Aims
  <2>3. i + 1 = j => i = Len(fr.steps)
    BY <1>1, <1>2, <1>4
  <2>4. fr.steps[Len(fr.steps)].kind = "exit"
    BY DEF Sealed, Last
  <2> QED
    BY <2>1, <2>2, <2>3, <2>4 DEF LeadsBySite
<1>5. ASSUME NEW m \in 1 .. N, i \in Span(fr, m)
      PROVE  /\ st.goto # j
             /\ \A k \in DOMAIN st.cases : st.cases[k].goto # j
             /\ st.kind # "exit" => i + 1 # j
  <2>1. /\ Targets(st) \subseteq {0} \cup Span(fr, m)
        /\ Stage(fr, N)[Size(fr, m)].kind = "exit"
    BY <1>1, <1>5 DEF Laid, ChildInPlace
  <2>2. m # n /\ j \notin Span(fr, m) /\ j # 0
    BY <1>1, <1>2, <1>5
  <2>3. j \notin Targets(st)
    BY <2>1, <2>2
  <2>4. st.goto # j /\ \A k \in DOMAIN st.cases : st.cases[k].goto # j
    BY <2>2, <2>3 DEF Targets
  <2>5. ASSUME i + 1 = j
        PROVE  i = Size(fr, m)
    <3>1. i \in Entry(fr, m) .. Size(fr, m) /\ Size(fr, m) \in Nat /\ Size(fr, m - 1) \in Nat
      <4>1. m \in 0 .. N /\ m - 1 \in 0 .. N
        BY <1>1
      <4>2. i \in Entry(fr, m) .. Size(fr, m)
        BY <1>5, SpanDef
      <4> QED
        BY <1>3, <4>1, <4>2
    <3>2. Size(fr, n - 1) \in Nat /\ Size(fr, n) \in Nat
      BY <1>1, <1>3
    <3>3. CASE m < n
      <4>1. Size(fr, m) <= Size(fr, n - 1)
        BY <1>3, <3>3
      <4> QED
        BY <1>2, <2>5, <3>1, <3>2, <4>1 DEF Entry
    <3>4. CASE n < m
      <4>1. Size(fr, n) <= Size(fr, m - 1)
        BY <1>3, <3>4
      <4> QED
        BY <1>2, <2>5, <3>1, <3>2, <4>1 DEF Entry
    <3> QED
      BY <1>1, <2>2, <3>3, <3>4
  <2> QED
    BY <2>1, <2>4, <2>5
<1>6. i \in 1 .. Len(fr.steps) \/ \E m \in 1 .. N : i \in Span(fr, m)
  BY <1>1, StepsCovered
<1> QED
  BY <1>4, <1>5, <1>6 DEF LeadsBySite

-----------------------------------------------------------------------------
(* A path goes forward.                                                    *)

\* What the steps of the current path say of where it is: they come before it, and
\* the foreach it is in was met outside of any.
OrderInv ==
  /\ \A v \in visits : v.pick \in todo => phase = "walk" /\ v.pick = pick
  /\ phase = "walk" /\ loop = 0 =>
       \A v \in visits : v.pick = pick => v.loop = 0 /\ (at \in DOMAIN Steps => v.step < at)
  /\ phase = "walk" /\ loop # 0 =>
       /\ Steps[loop].kind = "foreach"
       /\ at \in DOMAIN Steps => loop < at
       /\ \E f \in visits : f.pick = pick /\ f.step = loop /\ f.loop = 0
       /\ \A v \in visits : v.pick = pick =>
            /\ v.loop = 0 => v.step <= loop
            /\ v.loop # 0 => loop < v.step /\ v.elem <= elem
            /\ v.loop # 0 /\ v.elem = elem /\ at \in DOMAIN Steps => v.step < at

LEMMA VisitTypes ==
  ASSUME TypeOK
  PROVE  /\ Steps \in Seq(Step) /\ Len(Steps) \in Nat /\ DOMAIN Steps = 1 .. Len(Steps)
         /\ loop \in 0 .. Len(Steps) /\ elem \in Nat
         /\ \A v \in visits : v.step \in 1 .. Len(Steps) /\ v.elem \in Nat
<1>1. Steps \in Seq(Step) /\ Len(Steps) \in Nat /\ DOMAIN Steps = 1 .. Len(Steps)
  BY DEF TypeOK, Recipe, Steps
<1>2. loop \in 0 .. Len(Steps) /\ elem \in Nat
  BY DEF TypeOK
<1>3. \A v \in visits : v.step \in DOMAIN Steps /\ v.elem \in Nat
  BY DEF TypeOK
<1> QED
  BY <1>1, <1>2, <1>3

LEMMA StepOrderInv == TypeInv /\ OrderInv /\ StepTaken => OrderInv'
<1> SUFFICES ASSUME TypeInv, OrderInv, StepTaken
             PROVE  OrderInv'
  OBVIOUS
<1>1. /\ phase = "walk" /\ at \in DOMAIN Steps /\ Steps' = Steps
      /\ phase' = phase /\ todo' = todo /\ pick' = pick
      /\ visits' = visits \cup {Visit}
      /\ elem' = elem
      /\ loop' = loop \/ (Foreach /\ loop = 0 /\ loop' = at)
  BY StepFacts
<1>2. Visit.pick = pick /\ Visit.loop = loop /\ Visit.elem = elem /\ Visit.step = at
  BY DEF Visit
<1>3. /\ DOMAIN Steps = 1 .. Len(Steps) /\ Len(Steps) \in Nat
      /\ loop \in 0 .. Len(Steps) /\ elem \in Nat /\ at \in 1 .. Len(Steps)
      /\ \A v \in visits : v.step \in 1 .. Len(Steps) /\ v.elem \in Nat
  BY <1>1, VisitTypes DEF TypeInv
<1>4. at' = 0 \/ at' \in at + 1 .. Len(Steps) + 1
  BY <1>1, StepFacts, HopsForward
<1>5. \A v \in visits' : v.pick \in todo' => phase' = "walk" /\ v.pick = pick'
  BY <1>1, <1>2 DEF OrderInv
<1>6. at' \in DOMAIN Steps' => at < at'
  BY <1>1, <1>3, <1>4
<1>7. CASE loop = 0 /\ loop' = 0
  <2>1. \A v \in visits : v.pick = pick => v.loop = 0 /\ v.step < at
    BY <1>1, <1>7 DEF OrderInv
  <2>2. \A v \in visits' : v.pick = pick' =>
           v.loop = 0 /\ (at' \in DOMAIN Steps' => v.step < at')
    BY <1>1, <1>2, <1>3, <1>4, <1>6, <1>7, <2>1
  <2> QED
    BY <1>5, <1>7, <2>2 DEF OrderInv
<1>8. CASE Foreach /\ loop = 0 /\ loop' = at
  <2>1. \A v \in visits : v.pick = pick => v.loop = 0 /\ v.step < at
    BY <1>1, <1>8 DEF OrderInv
  <2>2. Steps'[loop'].kind = "foreach"
    BY <1>1, <1>8 DEF Foreach, Taking, Here
  <2>3. \E f \in visits' : f.pick = pick' /\ f.step = loop' /\ f.loop = 0
    BY <1>1, <1>2, <1>8
  <2>4. \A v \in visits' : v.pick = pick' => v.loop = 0 /\ v.step <= loop'
    BY <1>1, <1>2, <1>3, <1>8, <2>1
  <2>5. loop' # 0 /\ (at' \in DOMAIN Steps' => loop' < at')
    BY <1>3, <1>6, <1>8
  <2> QED
    BY <1>5, <2>2, <2>3, <2>4, <2>5 DEF OrderInv
<1>9. CASE loop # 0 /\ loop' = loop
  <2>1. /\ Steps[loop].kind = "foreach" /\ loop < at
        /\ \E f \in visits : f.pick = pick /\ f.step = loop /\ f.loop = 0
        /\ \A v \in visits : v.pick = pick =>
             /\ v.loop = 0 => v.step <= loop
             /\ v.loop # 0 => loop < v.step /\ v.elem <= elem
             /\ v.loop # 0 /\ v.elem = elem => v.step < at
    BY <1>1, <1>9 DEF OrderInv
  <2>2. \E f \in visits' : f.pick = pick' /\ f.step = loop' /\ f.loop = 0
    BY <1>1, <1>9, <2>1
  <2>3. at' \in DOMAIN Steps' => loop' < at'
    BY <1>1, <1>3, <1>4, <1>6, <1>9, <2>1
  <2>4. ASSUME NEW v \in visits', v.pick = pick'
        PROVE  /\ v.loop = 0 => v.step <= loop'
               /\ v.loop # 0 => loop' < v.step /\ v.elem <= elem'
               /\ v.loop # 0 /\ v.elem = elem' /\ at' \in DOMAIN Steps' => v.step < at'
    <3>1. CASE v \in visits
      <4>1. /\ v.loop = 0 => v.step <= loop
            /\ v.loop # 0 => loop < v.step /\ v.elem <= elem
            /\ v.loop # 0 /\ v.elem = elem => v.step < at
        BY <1>1, <2>1, <2>4, <3>1
      <4>2. v.step \in Nat
        BY <1>3, <3>1
      <4> QED
        BY <1>1, <1>3, <1>4, <1>6, <1>9, <4>1, <4>2
    <3>2. CASE v = Visit
      BY <1>1, <1>2, <1>3, <1>6, <1>9, <2>1, <3>2
    <3> QED
      BY <1>1, <3>1, <3>2
  <2> QED
    BY <1>1, <1>5, <1>9, <2>1, <2>2, <2>3, <2>4 DEF OrderInv
<1> QED
  BY <1>1, <1>7, <1>8, <1>9

LEMMA NextOrderInv == TypeInv /\ OrderInv /\ [Next]_vars => OrderInv'
<1> SUFFICES ASSUME TypeInv, OrderInv, [Next]_vars
             PROVE  OrderInv'
  OBVIOUS
<1>1. CASE StepTaken
  BY <1>1, StepOrderInv
<1>2. CASE NextElement
  <2>1. /\ phase = "walk" /\ loop # 0 /\ loop' = loop /\ Steps' = Steps /\ elem' = elem + 1
        /\ phase' = phase /\ todo' = todo /\ pick' = pick /\ visits' = visits
        /\ at' = Landing(loop, Steps[loop].goto)
    BY <1>2 DEF NextElement, MoreElements, callVars, Steps
  <2>2. /\ Steps \in Seq(Step) /\ Len(Steps) \in Nat /\ DOMAIN Steps = 1 .. Len(Steps)
        /\ loop \in DOMAIN Steps /\ elem \in Nat
        /\ \A v \in visits : v.step \in 1 .. Len(Steps) /\ v.elem \in Nat
    BY <2>1, VisitTypes DEF TypeInv
  <2>3. loop' < at'
    <3>1. Steps[loop].goto \in Nat
      <4>1. Steps[loop] \in Step
        BY <2>2, ElementOf
      <4> QED
        BY <4>1 DEF Step
    <3>2. CanHop(Steps, loop, Steps[loop].goto)
      BY <2>1 DEF TypeInv, LoopInv
    <3>3. at' \in loop + 1 .. Len(Steps) + 1
      BY <2>1, <2>2, <3>1, <3>2, HopForward
    <3> QED
      BY <2>1, <2>2, <3>3
  <2>4. /\ Steps[loop].kind = "foreach"
        /\ \E f \in visits : f.pick = pick /\ f.step = loop /\ f.loop = 0
        /\ \A v \in visits : v.pick = pick =>
             /\ v.loop = 0 => v.step <= loop
             /\ v.loop # 0 => loop < v.step /\ v.elem <= elem
    BY <2>1 DEF OrderInv
  <2>5. \A v \in visits : v.pick = pick =>
             /\ v.loop # 0 => v.elem <= elem' /\ v.elem # elem'
    BY <2>1, <2>2, <2>4
  <2>6. \A v \in visits' : v.pick \in todo' => phase' = "walk" /\ v.pick = pick'
    BY <2>1 DEF OrderInv
  <2> QED
    BY <2>1, <2>3, <2>4, <2>5, <2>6 DEF OrderInv
<1>3. CASE EndWalk
  BY <1>3 DEF EndWalk, OrderInv
<1>4. CASE RefuseTooMany
  BY <1>4 DEF RefuseTooMany, OrderInv
<1>5. ASSUME NEW p \in todo, Begin(p)
      PROVE  OrderInv'
  <2>1. \A v \in visits : v.pick # p /\ v.pick \notin todo
    BY <1>5 DEF Begin, OrderInv
  <2> QED
    BY <1>5, <2>1 DEF Begin, OrderInv
<1>6. CASE UNCHANGED vars
  BY <1>6 DEF vars, callVars, walkVars, loopVars, OrderInv, Steps
<1> QED
  BY <1>1, <1>2, <1>3, <1>4, <1>5, <1>6, NextCases

-----------------------------------------------------------------------------
(* Sub-recipes are tails.                                                  *)

\* The recipe that is walked is the expansion of a front.
Composing(fr) ==
  /\ Fitting(fr) /\ (HasComposition(fr) => Sealed(fr))
  /\ Steps = Stage(fr, Len(fr.sites))

\* These steps of a path led into the sub-recipe at site n.
Entered(fr, n, path) ==
  /\ \A w \in path : w.step \in Span(fr, n) \/ w.step <= fr.sites[n].step
  /\ \E w \in path : NamedBy(w, fr.sites[n])

\* The steps of the walk so far that are on the path of element e.
Before(e) == {w \in visits : w.pick = pick /\ (w.loop = 0 \/ w.elem = e)}

PathOf(v) == {w \in visits : OnPathTo(w, v) /\ w.step <= v.step}

TailInv(fr) ==
  \A n \in DOMAIN fr.sites :
    /\ \A v \in visits : v.step \in Span(fr, n) => Entered(fr, n, PathOf(v))
    /\ phase = "walk" /\ at \in Span(fr, n) => Entered(fr, n, Before(elem))

\* How a path goes on.
LEMMA GoesOn ==
  ASSUME TypeInv, StepTaken, at' \in DOMAIN Steps
  PROVE  /\ Here.kind # "exit"
         /\ \/ at' = Here.goto
            \/ at' = at + 1
            \/ \E k \in DOMAIN Here.cases :
                 at' = Here.cases[k].goto /\ Releases(Here.cases[k].rule, Subject.value)
<1>1. TypeOK /\ at \in DOMAIN Steps /\ at' # 0
  <2>1. at \in DOMAIN Steps /\ TypeOK
    BY StepFacts DEF TypeInv
  <2> QED
    BY <2>1, Taken
<1>2. CASE Branch
  <2> DEFINE hits  == {k \in DOMAIN Here.cases : Releases(Here.cases[k].rule, Subject.value)}
             first == {k \in hits : \A j \in hits : k <= j}
  <2>1. at' = BranchTarget /\ Here.kind = "branch"
    BY <1>1, <1>2 DEF Branch, Fault, Taking
  <2>2. CASE first = {}
    BY <2>1, <2>2 DEF BranchTarget
  <2>3. CASE first # {}
    <3>1. PICK k \in first : at' = Here.cases[k].goto
      BY <2>1, <2>3 DEF BranchTarget
    <3> QED
      BY <2>1, <3>1
  <2> QED
    BY <2>2, <2>3
<1>3. CASE Propose \/ Sink \/ GatePasses \/ Foreach
  <2>1. Here.kind # "exit"
    BY <1>3 DEF Propose, Sink, GatePasses, Foreach, Taking
  <2>2. at' = Landing(at, Here.goto)
    BY <1>1, <1>3 DEF Propose, Sink, GatePasses, Foreach, Follow, Fault
  <2> QED
    BY <2>1, <2>2 DEF Landing
<1>4. CASE GateFails \/ Exit \/ RefuseForeach
  BY <1>1, <1>4 DEF GateFails, Exit, RefuseForeach, Halt, Fault
<1> QED
  BY <1>2, <1>3, <1>4 DEF StepTaken

\* The steps of a sub-recipe are steps of the whole.
LEMMA InSteps ==
  ASSUME NEW fr, Fitting(fr), NEW n \in 1 .. Len(fr.sites), NEW j \in Span(fr, n)
  PROVE  j \in 1 .. Size(fr, Len(fr.sites))
<1> DEFINE N == Len(fr.sites)
<1>1. N \in Nat /\ Laid(fr, N) /\ Len(fr.steps) \in Nat /\ Size(fr, N) \in Nat
  BY LaidOut, SizesAscend
<1>2. Size(fr, n) \in Nat /\ Size(fr, n) <= Size(fr, N)
  BY <1>1 DEF Laid, ChildInPlace
<1>3. j \in Nat /\ Len(fr.steps) < j /\ j \in Entry(fr, n) .. Size(fr, n) /\ Entry(fr, n) \in Nat
  BY SpanFacts
<1> QED
  BY <1>1, <1>2, <1>3

\* A path that is led from outside into a sub-recipe, by step w, has entered it.
LEMMA Entering ==
  ASSUME NEW fr, Composing(fr), TypeOK, NEW n \in DOMAIN fr.sites, NEW path, NEW w \in path,
         w.step \in DOMAIN Steps, w.step \notin Span(fr, n),
         \A u \in path : u.step <= w.step,
         NEW j \in Span(fr, n), Steps[w.step].kind # "exit",
         \/ j = Steps[w.step].goto
         \/ j = w.step + 1
         \/ \E k \in DOMAIN Steps[w.step].cases :
              /\ j = Steps[w.step].cases[k].goto
              /\ Releases(Steps[w.step].cases[k].rule, w.slot.value)
  PROVE  Entered(fr, n, path)
<1> DEFINE i == w.step
           site == fr.sites[n]
<1>0. /\ fr \in RecipeFront /\ Fitting(fr) /\ Steps = Stage(fr, Len(fr.sites))
  BY DEF Composing, Fitting
<1>1. n \in 1 .. Len(fr.sites)
  BY <1>0, WholeDef
<1>2. Sealed(fr)
  <2>1. fr.sites # <<>>
    BY <1>0, <1>1 DEF RecipeFront
  <2> QED
    BY <2>1 DEF Composing, HasComposition
<1>3. i \in 1 .. Size(fr, Len(fr.sites))
  BY <1>0, VisitTypes DEF Size
<1>a. w.step \notin Span(fr, n) /\ j \in Span(fr, n)
  OBVIOUS
<1>4. /\ Steps[i].goto = j => i = site.step /\ site.kase = 0
      /\ \A k \in DOMAIN Steps[i].cases :
           Steps[i].cases[k].goto = j => i = site.step /\ site.kase = k
      /\ Steps[i].kind # "exit" => i + 1 # j
  <2> DEFINE st == Stage(fr, Len(fr.sites))[i]
  <2>1. /\ st.goto = j => i = site.step /\ site.kase = 0
        /\ \A k \in DOMAIN st.cases : st.cases[k].goto = j => i = site.step /\ site.kase = k
        /\ st.kind # "exit" => i + 1 # j
    <3>1. Fitting(fr) /\ i \notin Span(fr, n) /\ j \in Span(fr, n)
      BY <1>0, <1>a
    <3> HIDE DEF i
    <3>2. LeadsBySite(fr, n, i, j)
      BY <1>1, <1>2, <1>3, <3>1, OnlyEntrance, Zenon
    <3> QED
      BY <3>2 DEF LeadsBySite
  <2>2. Steps[i] = st
    BY <1>0
  <2> HIDE DEF i, st, site
  <2> QED
    BY <2>1, <2>2, Zenon
<1>5. i = site.step /\ (site.kase # 0 => Releases(Steps[i].cases[site.kase].rule, w.slot.value))
  BY <1>4
<1>6. NamedBy(w, site)
  BY <1>5 DEF NamedBy
<1> QED
  BY <1>5, <1>6 DEF Entered

\* What holds of a path holds when a step of the sub-recipe is added.
LEMMA EnteredGrows ==
  ASSUME NEW fr, NEW n, NEW path, Entered(fr, n, path), NEW v, v.step \in Span(fr, n),
         NEW longer, longer \subseteq path \cup {v}, path \subseteq longer
  PROVE  Entered(fr, n, longer)
BY DEF Entered

LEMMA StepTailInv ==
  ASSUME NEW fr, Composing(fr), TypeInv, OrderInv, TailInv(fr), StepTaken
  PROVE  TailInv(fr)'
<1>1. /\ phase = "walk" /\ at \in DOMAIN Steps /\ Steps' = Steps
      /\ phase' = phase /\ pick' = pick /\ visits' = visits \cup {Visit}
      /\ elem' = elem
  BY StepFacts
<1>2. /\ Visit.pick = pick /\ Visit.loop = loop /\ Visit.elem = elem /\ Visit.step = at
      /\ Visit.slot = Subject
  BY DEF Visit
<1>3. /\ DOMAIN Steps = 1 .. Len(Steps) /\ Len(Steps) \in Nat
      /\ loop \in 0 .. Len(Steps) /\ elem \in Nat /\ at \in 1 .. Len(Steps)
      /\ \A v \in visits : v.step \in 1 .. Len(Steps) /\ v.elem \in Nat
  BY <1>1, VisitTypes DEF TypeInv
<1>4. loop = 0 => elem = 0
  BY DEF TypeInv, LoopInv
\* The steps so far come before this one.
<1>5. \A w \in Before(elem) : w.step < at
  <2> TAKE w \in Before(elem)
  <2>1. w \in visits /\ w.pick = pick /\ (w.loop = 0 \/ w.elem = elem)
    BY DEF Before
  <2>2. CASE loop = 0
    BY <1>1, <2>1, <2>2 DEF OrderInv
  <2>3. CASE loop # 0
    <3>1. /\ loop < at
          /\ w.loop = 0 => w.step <= loop
          /\ w.loop # 0 /\ w.elem = elem => w.step < at
      BY <1>1, <2>1, <2>3 DEF OrderInv
    <3> QED
      BY <1>3, <2>1, <3>1
  <2> QED
    BY <2>2, <2>3
\* This step is on no path of a step before it.
<1>6. \A v \in visits : ~(OnPathTo(Visit, v) /\ at <= v.step)
  <2> SUFFICES ASSUME NEW v \in visits, v.pick = pick, loop = 0 \/ elem = v.elem, at <= v.step
               PROVE  FALSE
    BY <1>2 DEF OnPathTo
  <2>1. CASE loop = 0
    <3>1. v.step < at
      BY <1>1, <2>1 DEF OrderInv
    <3> QED
      BY <1>3, <3>1
  <2>2. CASE loop # 0
    <3>1. /\ loop < at
          /\ v.loop = 0 => v.step <= loop
          /\ v.loop # 0 /\ v.elem = elem => v.step < at
      BY <1>1, <2>2 DEF OrderInv
    <3> QED
      BY <1>3, <2>2, <3>1
  <2> QED
    BY <2>1, <2>2
<1>7. \A w, site : NamedBy(w, site)' = NamedBy(w, site)
  BY <1>1 DEF NamedBy
<1>8. \A n, path : Entered(fr, n, path)' = Entered(fr, n, path)
  BY <1>7 DEF Entered
<1>9. Before(elem)' = Before(elem) \cup {Visit}
  BY <1>1, <1>2 DEF Before
<1>10. ASSUME NEW n \in DOMAIN fr.sites, NEW v \in visits', v.step \in Span(fr, n)
       PROVE  Entered(fr, n, PathOf(v)')
  <2>1. CASE v \in visits
    <3>1. PathOf(v)' = PathOf(v)
      BY <1>1, <1>2, <1>6, <2>1 DEF PathOf, OnPathTo
    <3> QED
      BY <1>10, <2>1, <3>1 DEF TailInv
  <2>2. CASE v = Visit
    <3>1. Entered(fr, n, Before(elem))
      BY <1>1, <1>2, <1>10, <2>2 DEF TailInv
    <3>2. PathOf(v)' = Before(elem) \cup {Visit}
      <4>1. \A w \in visits : OnPathTo(w, Visit) <=> w \in Before(elem)
        BY <1>2 DEF OnPathTo, Before
      <4>2. OnPathTo(Visit, Visit) /\ Visit.step <= Visit.step
        BY <1>2, <1>3 DEF OnPathTo
      <4>3. \A w \in Before(elem) : w \in visits /\ w.step <= Visit.step
        <5> TAKE w \in Before(elem)
        <5>1. w \in visits /\ w.step < at
          BY <1>5 DEF Before
        <5> QED
          BY <1>2, <1>3, <5>1
      <4>4. PathOf(v)' = {w \in visits \cup {Visit} : OnPathTo(w, Visit) /\ w.step <= Visit.step}
        BY <1>1, <2>2 DEF PathOf, OnPathTo
      <4> QED
        BY <4>1, <4>2, <4>3, <4>4
    <3> QED
      BY <1>10, <2>2, <3>1, <3>2, EnteredGrows
  <2> QED
    BY <1>1, <2>1, <2>2
<1>11. ASSUME NEW n \in DOMAIN fr.sites, at' \in Span(fr, n)
       PROVE  Entered(fr, n, Before(elem)')
  <2>1. CASE at \in Span(fr, n)
    <3>1. Entered(fr, n, Before(elem))
      BY <1>1, <2>1 DEF TailInv
    <3> QED
      BY <1>2, <1>9, <2>1, <3>1, EnteredGrows
  <2>2. CASE at \notin Span(fr, n)
    <3>1. at' \in DOMAIN Steps
      <4>1. n \in 1 .. Len(fr.sites) /\ Fitting(fr) /\ Steps = Stage(fr, Len(fr.sites))
        BY WholeDef DEF Composing, Fitting
      <4>2. at' \in 1 .. Size(fr, Len(fr.sites))
        BY <4>1, <1>11, InSteps
      <4> QED
        BY <1>3, <4>1, <4>2 DEF Size
    <3>2. /\ Steps[at].kind # "exit"
          /\ \/ at' = Steps[at].goto
             \/ at' = at + 1
             \/ \E k \in DOMAIN Steps[at].cases :
                  /\ at' = Steps[at].cases[k].goto
                  /\ Releases(Steps[at].cases[k].rule, Subject.value)
      BY <3>1, GoesOn DEF Here
    <3>3. \A u \in Before(elem) \cup {Visit} : u.step <= Visit.step
      <4> TAKE u \in Before(elem) \cup {Visit}
      <4>1. CASE u = Visit
        BY <1>2, <1>3, <4>1
      <4>2. CASE u \in Before(elem)
        <5>1. u \in visits /\ u.step < at
          BY <1>5, <4>2 DEF Before
        <5> QED
          BY <1>2, <1>3, <5>1
      <4> QED
        BY <4>1, <4>2
    <3> DEFINE path == Before(elem) \cup {Visit}
               j == at'
               v == Visit
    <3>4. /\ v \in path /\ v.step = at /\ v.slot = Subject
          /\ \A u \in path : u.step <= v.step
          /\ TypeOK /\ j \in Span(fr, n)
      BY <1>2, <1>11, <3>3 DEF TypeInv
    <3>5. /\ Steps[v.step].kind # "exit"
          /\ \/ j = Steps[v.step].goto
             \/ j = v.step + 1
             \/ \E k \in DOMAIN Steps[v.step].cases :
                  /\ j = Steps[v.step].cases[k].goto
                  /\ Releases(Steps[v.step].cases[k].rule, v.slot.value)
      BY <3>2, <3>4
    <3> HIDE DEF path, j, v
    <3>6. Entered(fr, n, path)
      BY <1>1, <2>2, <3>4, <3>5, Entering
    <3> QED
      BY <1>9, <3>6 DEF path
  <2> QED
    BY <2>1, <2>2
<1> QED
  BY <1>1, <1>8, <1>10, <1>11 DEF TailInv

\* The path of the next element begins as that of the foreach.
LEMMA ElementTailInv ==
  ASSUME NEW fr, Composing(fr), TypeInv, OrderInv, TailInv(fr), NextElement
  PROVE  TailInv(fr)'
<1>1. /\ phase = "walk" /\ loop # 0 /\ loop' = loop /\ Steps' = Steps /\ elem' = elem + 1
      /\ phase' = phase /\ pick' = pick /\ visits' = visits
      /\ at' = Landing(loop, Steps[loop].goto)
  BY DEF NextElement, MoreElements, callVars, Steps
<1>2. /\ DOMAIN Steps = 1 .. Len(Steps) /\ Len(Steps) \in Nat
      /\ loop \in 0 .. Len(Steps) /\ elem \in Nat
      /\ \A v \in visits : v.step \in 1 .. Len(Steps) /\ v.elem \in Nat
  BY VisitTypes DEF TypeInv
<1>3. PICK f \in visits : f.pick = pick /\ f.step = loop /\ f.loop = 0
  BY <1>1 DEF OrderInv
<1>4. /\ Steps[loop].kind = "foreach"
      /\ \A v \in visits : v.pick = pick =>
           /\ v.loop = 0 => v.step <= loop
           /\ v.loop # 0 => loop < v.step /\ v.elem <= elem
  BY <1>1 DEF OrderInv
\* No step has been taken for the next element.
<1>5. Before(elem)' = {w \in visits : w.pick = pick /\ w.loop = 0}
  <2>1. ASSUME NEW w \in visits, w.pick = pick
        PROVE  w.loop = 0 \/ w.elem # elem + 1
    <3>1. w.loop # 0 => w.elem <= elem
      BY <1>4, <2>1
    <3>2. w.elem \in Nat
      BY <1>2
    <3> QED
      BY <1>2, <3>1, <3>2
  <2> QED
    BY <1>1, <2>1 DEF Before
<1>6. PathOf(f) = Before(elem)'
  <2>1. ASSUME NEW w \in visits
        PROVE  OnPathTo(w, f) /\ w.step <= f.step <=> w.pick = pick /\ w.loop = 0
    <3>1. w.pick = pick => /\ w.loop = 0 => w.step <= loop
                           /\ w.loop # 0 => loop < w.step
      BY <1>4
    <3>2. w.step \in Nat /\ loop \in Nat
      BY <1>2
    <3> QED
      BY <1>3, <3>1, <3>2 DEF OnPathTo
  <2> QED
    BY <1>5, <2>1 DEF PathOf
<1>7. \A n, path : Entered(fr, n, path)' = Entered(fr, n, path)
  BY <1>1 DEF Entered, NamedBy
<1>8. \A v : PathOf(v)' = PathOf(v)
  BY <1>1 DEF PathOf, OnPathTo
<1>9. ASSUME NEW n \in DOMAIN fr.sites, at' \in Span(fr, n)
      PROVE  Entered(fr, n, Before(elem)')
  <2>1. CASE loop \in Span(fr, n)
    BY <1>3, <1>6, <2>1 DEF TailInv
  <2>2. CASE loop \notin Span(fr, n)
    <3>1. at' = Steps[loop].goto \/ at' = loop + 1
      BY <1>1 DEF Landing
    <3> DEFINE path == PathOf(f)
               j == at'
    <3>2. /\ f \in path /\ \A u \in path : u.step <= f.step
          /\ TypeOK /\ j \in Span(fr, n)
      BY <1>2, <1>3, <1>9 DEF TypeInv, PathOf, OnPathTo
    <3>3. /\ f.step \in DOMAIN Steps /\ f.step \notin Span(fr, n)
          /\ Steps[f.step].kind # "exit"
          /\ j = Steps[f.step].goto \/ j = f.step + 1
      BY <1>2, <1>3, <1>4, <2>2, <3>1
    <3> HIDE DEF path, j
    <3>4. Entered(fr, n, path)
      BY <3>2, <3>3, Entering
    <3> QED
      BY <1>6, <3>4 DEF path
  <2> QED
    BY <2>1, <2>2
<1>10. \A n \in DOMAIN fr.sites : \A v \in visits' :
         v.step \in Span(fr, n) => Entered(fr, n, PathOf(v)')
  BY <1>1, <1>8 DEF TailInv
<1> QED
  BY <1>7, <1>9, <1>10 DEF TailInv

LEMMA NextTailInv ==
  ASSUME NEW fr, Composing(fr), TypeInv, OrderInv, TailInv(fr), [Next]_vars
  PROVE  TailInv(fr)'
<1>1. CASE StepTaken
  BY <1>1, StepTailInv
<1>2. CASE NextElement
  BY <1>2, ElementTailInv
<1>3. ASSUME recipe' = recipe, visits' = visits,
             phase' # "walk" \/ \A n \in DOMAIN fr.sites : at' \notin Span(fr, n)
      PROVE  TailInv(fr)'
  <2>1. \A n, v : Entered(fr, n, PathOf(v))' = Entered(fr, n, PathOf(v))
    BY <1>3 DEF Entered, NamedBy, Steps, PathOf, OnPathTo
  <2> QED
    BY <1>3, <2>1 DEF TailInv
<1>4. CASE EndWalk
  BY <1>3, <1>4 DEF EndWalk, callVars
<1>5. CASE RefuseTooMany
  BY <1>3, <1>5 DEF RefuseTooMany, callVars
<1>6. ASSUME NEW p \in todo, Begin(p)
      PROVE  TailInv(fr)'
  <2>1. recipe' = recipe /\ visits' = visits /\ at' = 1
    BY <1>6 DEF Begin, callVars
  <2>2. \A n \in DOMAIN fr.sites : 1 \notin Span(fr, n)
    <3> SUFFICES ASSUME NEW n \in DOMAIN fr.sites, 1 \in Span(fr, n)
                 PROVE  FALSE
      OBVIOUS
    <3>1. Fitting(fr) /\ n \in 1 .. Len(fr.sites)
      BY WholeDef DEF Composing, Fitting
    <3>2. Len(fr.steps) < 1 /\ Len(fr.steps) \in Nat \ {0}
      BY <3>1, SpanFacts, SizesAscend
    <3> QED
      BY <3>2
  <2> QED
    BY <1>3, <2>1, <2>2
<1>7. CASE UNCHANGED vars
  <2>1. /\ recipe' = recipe /\ visits' = visits /\ phase' = phase /\ at' = at /\ elem' = elem
        /\ pick' = pick
    BY <1>7 DEF vars, callVars, walkVars, loopVars
  <2>2. /\ \A n, v : Entered(fr, n, PathOf(v))' = Entered(fr, n, PathOf(v))
        /\ \A n : Entered(fr, n, Before(elem))' = Entered(fr, n, Before(elem))
    BY <2>1 DEF Entered, NamedBy, Steps, PathOf, OnPathTo, Before
  <2> QED
    BY <2>1, <2>2 DEF TailInv
<1> QED
  BY <1>1, <1>2, <1>4, <1>5, <1>6, <1>7, NextCases

\* A recipe that is composed of a front is its expansion.
LEMMA ComposedFacts ==
  ASSUME NEW c \in Composed, recipe = c.recipe, Closed(c.front)
  PROVE  Composing(c.front)
<1>1. PICK fr \in Fronts : MayCompose(fr) /\ c = [front |-> fr, recipe |-> Inlined(fr)]
  BY DEF Composed
<1>2. c.front = fr /\ c.recipe = Inlined(fr)
  BY <1>1
<1>3. fr \in RecipeFront /\ SitesInPlace(fr)
  BY ComposeAssumption
<1>4. Fitting(fr) /\ (HasComposition(fr) => Sealed(fr))
  BY <1>1, <1>2, <1>3 DEF MayCompose, Fitting
<1>5. Steps = Stage(fr, Len(fr.sites))
  BY <1>2 DEF Steps, Stage, Inlined
<1> QED
  BY <1>2, <1>4, <1>5 DEF Composing

TailsInv == \A c \in Composed : recipe = c.recipe /\ Closed(c.front) => TailInv(c.front)

\* A walk enters a sub-recipe only through the arm that names it, and does not
\* leave it.
THEOREM SubrecipesAreTails == Spec => []ChildrenAreTails
<1>1. Init => OrderInv /\ TailsInv
  <2>1. Init => OrderInv
    BY DEF Init, OrderInv
  <2>2. Init => TailsInv
    BY DEF Init, TailsInv, TailInv
  <2> QED
    BY <2>1, <2>2
<1>2. TypeInv /\ OrderInv /\ TailsInv /\ [Next]_vars => TailsInv'
  <2> SUFFICES ASSUME TypeInv, OrderInv, TailsInv, [Next]_vars,
                      NEW c \in Composed, recipe' = c.recipe, Closed(c.front)
               PROVE  TailInv(c.front)'
    BY DEF TailsInv
  <2>1. recipe' = recipe
    BY StepFacts, NextCases DEF NextElement, EndWalk, RefuseTooMany, Begin, vars, callVars
  <2>2. Composing(c.front) /\ TailInv(c.front)
    BY <2>1, ComposedFacts DEF TailsInv
  <2> QED
    BY <2>2, NextTailInv
<1>3. TailsInv => ChildrenAreTails
  BY DEF TailsInv, TailInv, ChildrenAreTails, Entered, PathOf
<1> QED
  BY <1>1, <1>2, <1>3, InitTypeInv, NextTypeInv, NextOrderInv, PTL DEF Spec


-----------------------------------------------------------------------------
(* Counting.                                                               *)

\* A set with at most k elements.
AtMost(S, k) == IsFiniteSet(S) /\ Cardinality(S) <= k

\* Every way on of the first set, followed by one of the second.
Pairwise(A, B) == {p[1] \cup p[2] : p \in A \X B}

LEMMA ProductGrows ==
  ASSUME NEW x \in Nat, NEW y \in Nat, NEW a \in Nat, NEW b \in Nat, x <= a, y <= b
  PROVE  x * y <= a * b
<1>1. PICK c \in Nat : a = x + c
  <2>1. a - x \in Nat /\ a = x + (a - x)
    OBVIOUS
  <2> QED
    BY <2>1
<1>2. PICK d \in Nat : b = y + d
  <2>1. b - y \in Nat /\ b = y + (b - y)
    OBVIOUS
  <2> QED
    BY <2>1
<1>3. a * b = x * y + x * d + c * y + c * d
  BY <1>1, <1>2
<1>4. x * d \in Nat /\ c * y \in Nat /\ c * d \in Nat /\ x * y \in Nat
  BY Product
<1> QED
  BY <1>3, <1>4

LEMMA AtMostType ==
  ASSUME NEW S, NEW k \in Nat, AtMost(S, k)
  PROVE  Cardinality(S) \in Nat
BY FS_CardinalityType DEF AtMost

LEMMA FewerAtMost ==
  ASSUME NEW S, NEW T \in SUBSET S, NEW k \in Nat, AtMost(S, k)
  PROVE  AtMost(T, k)
<1>1. IsFiniteSet(T) /\ Cardinality(T) <= Cardinality(S)
  BY FS_Subset DEF AtMost
<1>2. Cardinality(T) \in Nat /\ Cardinality(S) \in Nat
  BY <1>1, FS_CardinalityType DEF AtMost
<1> QED
  BY <1>1, <1>2 DEF AtMost

LEMMA PairwiseAtMost ==
  ASSUME NEW A, NEW B, NEW a \in Nat, NEW b \in Nat, AtMost(A, a), AtMost(B, b)
  PROVE  AtMost(Pairwise(A, B), a * b)
<1> DEFINE f == [p \in A \X B |-> p[1] \cup p[2]]
<1>1. f \in Surjection(A \X B, Pairwise(A, B))
  BY DEF Surjection, Pairwise
<1>2. IsFiniteSet(A \X B) /\ Cardinality(A \X B) = Cardinality(A) * Cardinality(B)
  BY FS_Product DEF AtMost
<1>3. IsFiniteSet(Pairwise(A, B)) /\ Cardinality(Pairwise(A, B)) <= Cardinality(A \X B)
  BY <1>1, <1>2, FS_Surjection
<1>4. Cardinality(A) \in Nat /\ Cardinality(B) \in Nat /\ Cardinality(Pairwise(A, B)) \in Nat
  BY <1>3, FS_CardinalityType DEF AtMost
<1>5. Cardinality(A) * Cardinality(B) <= a * b
  BY <1>4, ProductGrows DEF AtMost
<1>6. Cardinality(A) * Cardinality(B) \in Nat /\ a * b \in Nat
  BY <1>4, Product
<1> QED
  BY <1>2, <1>3, <1>4, <1>5, <1>6 DEF AtMost

LEMMA UnionAtMost ==
  ASSUME NEW A, NEW B, NEW a \in Nat, NEW b \in Nat, AtMost(A, a), AtMost(B, b)
  PROVE  AtMost(A \cup B, a + b)
<1>1. /\ IsFiniteSet(A \cup B)
      /\ Cardinality(A \cup B) = Cardinality(A) + Cardinality(B) - Cardinality(A \cap B)
  BY FS_Union DEF AtMost
<1>2. IsFiniteSet(A \cap B)
  BY FS_Intersection DEF AtMost
<1>3. Cardinality(A) \in Nat /\ Cardinality(B) \in Nat /\ Cardinality(A \cap B) \in Nat
  BY <1>2, FS_CardinalityType DEF AtMost
<1> QED
  BY <1>1, <1>3 DEF AtMost

\* What crosses at a sink: one of the values it shows.
Singles(A, e, i) == {{<<e, i, v>>} : v \in A}

LEMMA SinglesAtMost ==
  ASSUME NEW A, NEW e, NEW i, NEW a \in Nat, AtMost(A, a)
  PROVE  AtMost(Singles(A, e, i), a)
<1> DEFINE f == [v \in A |-> {<<e, i, v>>}]
<1>1. f \in Surjection(A, Singles(A, e, i))
  BY DEF Surjection, Singles
<1>2. IsFiniteSet(Singles(A, e, i)) /\ Cardinality(Singles(A, e, i)) <= Cardinality(A)
  BY <1>1, FS_Surjection DEF AtMost
<1>3. Cardinality(A) \in Nat /\ Cardinality(Singles(A, e, i)) \in Nat
  BY <1>2, FS_CardinalityType DEF AtMost
<1> QED
  BY <1>2, <1>3 DEF AtMost

LEMMA OneAtMost ==
  ASSUME NEW x, NEW k \in Nat, k >= 1
  PROVE  AtMost({x}, k)
BY FS_Singleton DEF AtMost

-----------------------------------------------------------------------------
(* Recursion.                                                              *)

\* A function of the numbers up to m that is given by a first value and by what
\* makes of each value the next.
Iterates(f, k, R, b, h) ==
  /\ f \in [0 .. k -> R] /\ f[0] = b
  /\ \A t \in 1 .. k : f[t] = h[t][f[t - 1]]

LEMMA RecursionExists ==
  ASSUME NEW m \in Nat, NEW R, NEW b \in R, NEW h \in [1 .. m -> [R -> R]]
  PROVE  \E f : Iterates(f, m, R, b, h)
<1> DEFINE Good(f, k) == Iterates(f, k, R, b, h)
           S == {k \in 0 .. m : \E f : Good(f, k)}
<1>1. 0 \in S
  <2>1. Good([t \in 0 .. 0 |-> b], 0)
    BY DEF Iterates
  <2>2. 0 \in 0 .. m
    OBVIOUS
  <2> HIDE DEF Good
  <2> QED
    BY <2>1, <2>2
<1>2. ASSUME NEW k \in 0 .. m - 1, k \in S
      PROVE  k + 1 \in S
  <2>1. PICK f : Good(f, k)
    BY <1>2
  <2> DEFINE g == [t \in 0 .. k + 1 |-> IF t = k + 1 THEN h[k + 1][f[k]] ELSE f[t]]
  <2>2. k \in Nat /\ k + 1 \in 1 .. m /\ k + 1 \in 0 .. m
    OBVIOUS
  <2>3. f[k] \in R /\ h[k + 1][f[k]] \in R
    BY <2>1, <2>2 DEF Iterates
  <2>4. g \in [0 .. k + 1 -> R]
    BY <2>1, <2>2, <2>3 DEF Iterates
  <2>5. g[0] = b
    BY <2>1, <2>2 DEF Iterates
  <2>6. ASSUME NEW t \in 1 .. k + 1
        PROVE  g[t] = h[t][g[t - 1]]
    <3>1. t - 1 \in 0 .. k /\ t - 1 # k + 1 /\ t \in 0 .. k + 1
      BY <2>2
    <3>2. g[t - 1] = f[t - 1]
      BY <3>1, <2>2
    <3>3. CASE t = k + 1
      BY <3>1, <3>2, <3>3, <2>2
    <3>4. CASE t # k + 1
      <4>1. t \in 1 .. k
        BY <3>4, <2>2
      <4> QED
        BY <2>1, <3>2, <3>1, <3>4, <4>1 DEF Iterates
    <3> QED
      BY <3>3, <3>4
  <2>7. Good(g, k + 1)
    <3> HIDE DEF g
    <3> QED
      BY <2>4, <2>5, <2>6 DEF Iterates
  <2> HIDE DEF Good
  <2> QED
    BY <2>2, <2>7
<1>3. \A k \in 0 .. m : k \in S
  <2> HIDE DEF S
  <2> QED
    BY <1>1, <1>2, IntervalInduction
<1>4. m \in S
  BY <1>3
<1> QED
  BY <1>4

\* The tuples of a loop.
LEMMA GeometricSum ==
  ASSUME NEW k \in Nat, NEW m \in Nat
  PROVE  \E s \in [0 .. m -> Nat] : /\ s[0] = 1 /\ \A t \in 1 .. m : s[t] = 1 + k * s[t - 1]
                                  /\ Geometric(k, m) = s[m]
<1> DEFINE N(s) == 1 + k * s
           Sum(f) == f = [t \in 0 .. m |-> IF t = 0 THEN 1 ELSE N(f[t - 1])]
           h == [t \in 1 .. m |-> [s \in Nat |-> N(s)]]
           g == CHOOSE f : Sum(f)
<1>1. \A s \in Nat : N(s) \in Nat
  BY Product
<1>2. Geometric(k, m) = g[m]
  BY DEF Geometric
<1>3. \A s : N(s) = 1 + k * s
  OBVIOUS
<1> HIDE DEF N
<1>4. h \in [1 .. m -> [Nat -> Nat]]
  BY <1>1
<1>5. PICK f : Iterates(f, m, Nat, 1, h)
  <2> HIDE DEF h
  <2>1. 1 \in Nat
    OBVIOUS
  <2> QED
    BY <1>4, <2>1, RecursionExists, Zenon
<1>6. f \in [0 .. m -> Nat] /\ f[0] = 1
  BY <1>5 DEF Iterates
<1>7. \A t \in 1 .. m : f[t] = N(f[t - 1])
  <2>1. \A t \in 1 .. m : t - 1 \in 0 .. m /\ f[t] = h[t][f[t - 1]]
    <3> HIDE DEF h
    <3> QED
      BY <1>5 DEF Iterates
  <2> QED
    BY <1>6, <2>1
<1>8. Sum(g)
  <2>1. \A t \in 0 .. m : f[t] = IF t = 0 THEN 1 ELSE N(f[t - 1])
    BY <1>6, <1>7
  <2>2. Sum(f)
    BY <1>6, <2>1
  <2> HIDE DEF Sum
  <2> QED
    BY <2>2
<1> HIDE DEF g
<1>9. g[0] = 1 /\ \A t \in 1 .. m : g[t] = N(g[t - 1])
  BY <1>8
<1>10. \A t \in 0 .. m : g[t] \in Nat
  <2> DEFINE I == {t \in 0 .. m : g[t] \in Nat}
  <2>1. 0 \in I
    BY <1>9
  <2>2. ASSUME NEW t \in 0 .. m - 1, t \in I
        PROVE  t + 1 \in I
    <3>1. t + 1 \in 0 .. m /\ t + 1 \in 1 .. m /\ t + 1 - 1 = t /\ g[t] \in Nat
      BY <2>2
    <3>2. g[t + 1] = N(g[t + 1 - 1])
      BY <3>1, <1>9
    <3>3. g[t + 1] \in Nat
      BY <3>1, <3>2, <1>1
    <3> QED
      BY <3>1, <3>3
  <2>3. \A t \in 0 .. m : t \in I
    <3> HIDE DEF I
    <3> QED
      BY <2>1, <2>2, IntervalInduction
  <2> QED
    BY <2>3
<1>11. g \in [0 .. m -> Nat]
  BY <1>8, <1>10
<1>12. \A t \in 1 .. m : g[t] = 1 + k * g[t - 1]
  BY <1>3, <1>9, Zenon
<1> QED
  BY <1>2, <1>9, <1>11, <1>12

Count == [bounded : BOOLEAN, tuples : Nat]

\* What an arm of a branch adds.
Weight(st, arm, k) == IF k \in Arms(st) THEN arm[k].tuples ELSE 0

\* The sums of what the arms add, up to each arm.
SumsTo(s, m, st, arm) ==
  /\ s \in [0 .. m -> Nat] /\ s[0] = Weight(st, arm, 0)
  /\ \A t \in 1 .. m : s[t] = s[t - 1] + Weight(st, arm, t)

AllBounded(st, arm) == \A k \in Arms(st) : arm[k].bounded

\* The tuples of a branch.
LEMMA BranchesSum ==
  ASSUME NEW st, NEW arm, Len(st.cases) \in Nat, \A k \in Arms(st) : arm[k].tuples \in Nat
  PROVE  /\ Branches(st, arm) \in Count
         /\ Branches(st, arm).bounded = AllBounded(st, arm)
         /\ \E s : SumsTo(s, Len(st.cases), st, arm) /\ Branches(st, arm).tuples = s[Len(st.cases)]
<1> DEFINE m == Len(st.cases)
           B == \A k \in Arms(st) : arm[k].bounded
           W(k) == Weight(st, arm, k)
           Sum(f) == f = [k \in 0 .. m |-> (IF k = 0 THEN 0 ELSE f[k - 1]) + W(k)]
           h == [t \in 1 .. m |-> [s \in Nat |-> s + W(t)]]
           g == CHOOSE f : Sum(f)
<1>1. \A k : W(k) \in Nat
  BY DEF Weight
<1>2. Branches(st, arm) = [bounded |-> B, tuples |-> g[m]] /\ B \in BOOLEAN
  BY DEF Branches, Weight
<1> HIDE DEF W
<1>3. h \in [1 .. m -> [Nat -> Nat]]
  BY <1>1
<1>4. PICK f : Iterates(f, m, Nat, W(0), h)
  <2> HIDE DEF h
  <2> QED
    BY <1>1, <1>3, RecursionExists, Zenon
<1>5. f \in [0 .. m -> Nat] /\ f[0] = W(0)
  BY <1>4 DEF Iterates
<1>6. \A t \in 1 .. m : f[t] = f[t - 1] + W(t)
  <2>1. \A t \in 1 .. m : t - 1 \in 0 .. m /\ f[t] = h[t][f[t - 1]]
    <3> HIDE DEF h
    <3> QED
      BY <1>4 DEF Iterates
  <2> QED
    BY <1>5, <2>1
<1>7. Sum(g)
  <2>1. \A t \in 0 .. m : f[t] = (IF t = 0 THEN 0 ELSE f[t - 1]) + W(t)
    BY <1>1, <1>5, <1>6
  <2>2. Sum(f)
    BY <1>5, <2>1
  <2> HIDE DEF Sum
  <2> QED
    BY <2>2
<1> HIDE DEF g
<1>8. g[0] = W(0) /\ \A t \in 1 .. m : g[t] = g[t - 1] + W(t)
  <2>1. \A t \in 0 .. m : g[t] = (IF t = 0 THEN 0 ELSE g[t - 1]) + W(t)
    BY <1>7
  <2>2. g[0] = 0 + W(0)
    BY <2>1
  <2>3. g[0] = W(0)
    BY <1>1, <2>2
  <2>4. \A t \in 1 .. m : t \in 0 .. m /\ t # 0
    OBVIOUS
  <2> QED
    BY <2>1, <2>3, <2>4
<1>9. \A t \in 0 .. m : g[t] \in Nat
  <2> DEFINE I == {t \in 0 .. m : g[t] \in Nat}
  <2>1. 0 \in I
    BY <1>1, <1>8
  <2>2. ASSUME NEW t \in 0 .. m - 1, t \in I
        PROVE  t + 1 \in I
    <3>1. t + 1 \in 0 .. m /\ t + 1 \in 1 .. m /\ t + 1 - 1 = t /\ g[t] \in Nat
      BY <2>2
    <3>2. g[t + 1] = g[t + 1 - 1] + W(t + 1)
      BY <3>1, <1>8
    <3>3. g[t + 1] \in Nat
      BY <3>1, <3>2, <1>1
    <3> QED
      BY <3>1, <3>3
  <2>3. \A t \in 0 .. m : t \in I
    <3> HIDE DEF I
    <3> QED
      BY <2>1, <2>2, IntervalInduction
  <2> QED
    BY <2>3
<1>10. g \in [0 .. m -> Nat]
  BY <1>7, <1>9
<1>11. g[m] \in Nat
  BY <1>9
<1>12. /\ Branches(st, arm) \in Count /\ Branches(st, arm).bounded = B
       /\ Branches(st, arm).tuples = g[m]
  <2> HIDE DEF B
  <2> QED
    BY <1>2, <1>11 DEF Count
<1>13. SumsTo(g, m, st, arm)
  BY <1>8, <1>10 DEF W, SumsTo
<1> QED
  BY <1>12, <1>13 DEF AllBounded

-----------------------------------------------------------------------------
(* What is known on a path: of some slots, the values they may hold.       *)

FinCons ==
  {con \in UNION {[S -> SUBSET Values] : S \in SUBSET Names} :
     \A x \in DOMAIN con : IsFiniteSet(con[x])}

Sizes(con) == [x \in Names |-> IF x \in DOMAIN con THEN Cardinality(con[x]) ELSE -1]

Without(con, n) == [x \in DOMAIN con \ {n} |-> con[x]]

With(con, n, rule) ==
  IF rule = {} THEN con
  ELSE [x \in DOMAIN con \cup {n} |-> IF x = n THEN UNION rule ELSE con[x]]

LEMMA FinConsFacts ==
  ASSUME NEW con \in FinCons
  PROVE  /\ DOMAIN con \subseteq Names /\ con = [x \in DOMAIN con |-> con[x]]
         /\ \A x \in DOMAIN con : con[x] \subseteq Values /\ IsFiniteSet(con[x])
                                  /\ Cardinality(con[x]) \in Nat
<1>1. PICK S \in SUBSET Names : con \in [S -> SUBSET Values]
  BY DEF FinCons
<1>2. \A x \in DOMAIN con : IsFiniteSet(con[x])
  BY DEF FinCons
<1>3. \A x \in DOMAIN con : Cardinality(con[x]) \in Nat
  BY <1>2, FS_CardinalityType
<1> QED
  BY <1>1, <1>2, <1>3

LEMMA InFinCons ==
  ASSUME NEW S \in SUBSET Names, NEW con \in [S -> SUBSET Values],
         \A x \in S : IsFiniteSet(con[x])
  PROVE  con \in FinCons
BY DEF FinCons

LEMMA SizesDef ==
  ASSUME NEW con
  PROVE  /\ Sizes(con) = [x \in Names |-> Sizes(con)[x]]
         /\ \A x \in Names : Sizes(con)[x] = IF x \in DOMAIN con THEN Cardinality(con[x]) ELSE -1
BY DEF Sizes

LEMMA SizesType ==
  ASSUME NEW con \in FinCons
  PROVE  Sizes(con) \in Constraints
BY FinConsFacts DEF Sizes, Constraints

LEMMA WithoutSlot ==
  ASSUME NEW con \in FinCons, NEW n \in Names
  PROVE  /\ Without(con, n) \in FinCons
         /\ DOMAIN Without(con, n) = DOMAIN con \ {n}
         /\ \A x \in DOMAIN con \ {n} : Without(con, n)[x] = con[x]
         /\ Sizes(Without(con, n)) = Freed(Sizes(con), n)
<1>1. /\ DOMAIN Without(con, n) = DOMAIN con \ {n}
      /\ \A x \in DOMAIN con \ {n} : Without(con, n)[x] = con[x]
  BY DEF Without
<1>2. Without(con, n) \in FinCons
  <2>1. DOMAIN con \ {n} \in SUBSET Names
    BY FinConsFacts
  <2>2. Without(con, n) \in [DOMAIN con \ {n} -> SUBSET Values]
    BY FinConsFacts DEF Without
  <2>3. \A x \in DOMAIN con \ {n} : IsFiniteSet(Without(con, n)[x])
    BY <1>1, FinConsFacts
  <2> QED
    BY <2>1, <2>2, <2>3, InFinCons
<1>3. Sizes(Without(con, n)) = Freed(Sizes(con), n)
  <2> DEFINE c == Without(con, n)
  <2>1. Sizes(c)[n] = -1 /\ \A x \in Names : x # n => Sizes(c)[x] = Sizes(con)[x]
    BY <1>1, SizesDef
  <2>2. Sizes(c) = Freed(Sizes(con), n)
    <3> HIDE DEF c
    <3> QED
      BY <2>1, SizesDef DEF Freed
  <2> QED
    BY <2>2
<1> QED
  BY <1>1, <1>2, <1>3

\* A reference to a rule whose values can be counted.
Countable(rule) == rule \in Rules /\ \A R \in rule : IsFiniteSet(R)

LEMMA RuleFacts ==
  ASSUME NEW rule, Countable(rule)
  PROVE  /\ UNION rule \subseteq Values /\ IsFiniteSet(UNION rule)
         /\ RuleChoices(rule) \in Nat /\ AtMost(UNION rule, RuleChoices(rule))
         /\ \A v : Releases(rule, v) => v \in UNION rule
<1>1. UNION rule \subseteq Values
  BY DEF Countable, Rules
<1>2. IsFiniteSet(UNION rule)
  <2>1. CASE rule = {}
    BY <2>1, FS_EmptySet
  <2>2. CASE \E R \in SUBSET Values : rule = {R}
    BY <2>2 DEF Countable
  <2> QED
    BY <2>1, <2>2 DEF Countable, Rules
<1>3. Cardinality(UNION rule) \in Nat
  BY <1>2, FS_CardinalityType
<1> QED
  BY <1>1, <1>2, <1>3 DEF RuleChoices, AtMost, Releases

LEMMA WithRule ==
  ASSUME NEW con \in FinCons, NEW n \in Names, NEW rule, Countable(rule)
  PROVE  /\ With(con, n, rule) \in FinCons
         /\ DOMAIN With(con, n, rule) \subseteq DOMAIN con \cup {n}
         /\ \A x \in DOMAIN With(con, n, rule) :
              IF rule # {} /\ x = n THEN With(con, n, rule)[x] = UNION rule
              ELSE x \in DOMAIN con /\ With(con, n, rule)[x] = con[x]
         /\ Sizes(With(con, n, rule)) = Learned(Sizes(con), n, rule)
<1>1. CASE rule = {}
  BY <1>1 DEF With, Learned
<1>2. CASE rule # {}
  <2> DEFINE D == DOMAIN con \cup {n}
             c == With(con, n, rule)
  <2>1. c = [x \in D |-> IF x = n THEN UNION rule ELSE con[x]]
    BY <1>2 DEF With
  <2> HIDE DEF c
  <2>2. D \in SUBSET Names
    BY FinConsFacts
  <2>3. c \in [D -> SUBSET Values]
    BY <2>1, FinConsFacts, RuleFacts
  <2>4. \A x \in D : IsFiniteSet(c[x])
    BY <2>1, FinConsFacts, RuleFacts
  <2>5. c \in FinCons
    BY <2>2, <2>3, <2>4, InFinCons
  <2>6. Sizes(c) = Learned(Sizes(con), n, rule)
    <3>1. \A x \in Names : Sizes(c)[x] = IF x \in DOMAIN c THEN Cardinality(c[x]) ELSE -1
      BY SizesDef
    <3>2. \A x \in Names : Sizes(con)[x] = IF x \in DOMAIN con THEN Cardinality(con[x]) ELSE -1
      BY SizesDef
    <3>3. /\ \A x \in Names : x \in DOMAIN c <=> x \in DOMAIN con \/ x = n
          /\ c[n] = UNION rule /\ \A x \in DOMAIN con : x # n => c[x] = con[x]
      BY <2>1
    <3>4. Sizes(c)[n] = RuleChoices(rule)
      BY <3>1, <3>3 DEF RuleChoices
    <3>5. \A x \in Names : x # n => Sizes(c)[x] = Sizes(con)[x]
      BY <3>1, <3>2, <3>3
    <3>6. Sizes(c) = [Sizes(con) EXCEPT ![n] = RuleChoices(rule)]
      BY <3>4, <3>5, SizesDef
    <3> QED
      BY <1>2, <3>6 DEF Learned
  <2>7. DOMAIN c = D /\ \A x \in D : c[x] = IF x = n THEN UNION rule ELSE con[x]
    BY <2>1
  <2>8. \A x \in DOMAIN c : IF rule # {} /\ x = n THEN c[x] = UNION rule
                            ELSE x \in DOMAIN con /\ c[x] = con[x]
    BY <1>2, <2>7
  <2> QED
    BY <2>5, <2>6, <2>7, <2>8 DEF c
<1> QED
  BY <1>1, <1>2

-----------------------------------------------------------------------------
(* The graph of a linted recipe.                                           *)

\* A linted recipe whose rules can be counted.
Sound(r) ==
  /\ r \in Recipe /\ Linted(r)
  /\ \A i \in DOMAIN r.steps :
       /\ \A R \in r.steps[i].rule : IsFiniteSet(R)
       /\ \A k \in DOMAIN r.steps[i].cases : \A R \in r.steps[i].cases[k].rule : IsFiniteSet(R)

\* Where an arm leads, and what releases it; arm 0 is the default.
ArmStep(st, k) == IF k = 0 THEN st.goto ELSE st.cases[k].goto
ArmRule(st, k) == IF k = 0 THEN {} ELSE st.cases[k].rule

LEMMA StepsOf ==
  ASSUME NEW r, Sound(r)
  PROVE  /\ r.steps \in Seq(Step) /\ Len(r.steps) \in Nat \ {0} /\ DOMAIN r.steps = 1 .. Len(r.steps)
         /\ r.ingredients \in [Names -> Slot]
BY DEF Sound, Recipe

LEMMA StepOf ==
  ASSUME NEW r, Sound(r), NEW i \in DOMAIN r.steps
  PROVE  /\ r.steps[i] \in Step /\ r.steps[i].in \in Names /\ r.steps[i].out \in Names
         /\ r.steps[i].goto \in Nat
         /\ Countable(r.steps[i].rule)
         /\ r.steps[i].cases \in Seq([rule : Rules, goto : Nat])
         /\ Len(r.steps[i].cases) \in Nat /\ DOMAIN r.steps[i].cases = 1 .. Len(r.steps[i].cases)
<1>1. r.steps[i] \in Step
  BY StepsOf, ElementOf
<1>2. r.steps[i].rule \in Rules /\ r.steps[i].cases \in Seq([rule : Rules, goto : Nat])
  BY <1>1 DEF Step
<1>3. Countable(r.steps[i].rule)
  BY <1>2 DEF Sound, Countable
<1> QED
  BY <1>1, <1>2, <1>3 DEF Step

LEMMA NextOf ==
  ASSUME NEW r, Sound(r), NEW i \in DOMAIN r.steps
  PROVE  /\ NextStep(r.steps, i) = Landing(i, r.steps[i].goto)
         /\ NextStep(r.steps, i) \in i + 1 .. Len(r.steps) + 1
<1>1. /\ Len(r.steps) \in Nat /\ i \in 1 .. Len(r.steps) /\ r.steps[i].goto \in Nat
      /\ DOMAIN r.steps = 1 .. Len(r.steps)
  BY StepsOf, StepOf
<1>2. r.steps[i].goto # 0 => r.steps[i].goto \in Targets(r.steps[i])
  BY DEF Targets
<1>3. \A t \in Targets(r.steps[i]) : Edge(r.steps, i, t)
  BY DEF Sound, Linted, EdgesForward
<1>4. r.steps[i].goto # 0 => r.steps[i].goto \in i + 1 .. Len(r.steps)
  BY <1>1, <1>2, <1>3 DEF Edge
<1> QED
  BY <1>1, <1>4 DEF NextStep, Landing

LEMMA ArmsOf ==
  ASSUME NEW r, Sound(r), NEW i \in DOMAIN r.steps, r.steps[i].kind = "branch"
  PROVE  /\ Arms(r.steps[i]) = 0 .. Len(r.steps[i].cases)
         /\ \A k \in 0 .. Len(r.steps[i].cases) :
              /\ ArmStep(r.steps[i], k) \in i + 1 .. Len(r.steps) + 1
              /\ Countable(ArmRule(r.steps[i], k))
<1> DEFINE st == r.steps[i]
           n == Len(r.steps)
<1>1. /\ n \in Nat /\ i \in 1 .. n /\ st.goto \in Nat /\ DOMAIN r.steps = 1 .. n
      /\ Len(st.cases) \in Nat /\ DOMAIN st.cases = 1 .. Len(st.cases)
      /\ st.cases \in Seq([rule : Rules, goto : Nat])
  BY StepsOf, StepOf
<1>2. st.goto # 0
  BY DEF Sound, Linted, StepOK
<1>3. \A t \in Targets(st) : t \in i + 1 .. n
  <2>1. \A t \in Targets(st) : Edge(r.steps, i, t)
    BY DEF Sound, Linted, EdgesForward
  <2> QED
    BY <1>1, <2>1 DEF Edge
<1>4. st.goto \in i + 1 .. n
  BY <1>2, <1>3 DEF Targets
<1>5. ASSUME NEW k \in DOMAIN st.cases
      PROVE  st.cases[k].goto \in i + 1 .. n /\ st.cases[k].goto # 0 /\ Countable(st.cases[k].rule)
  <2>1. st.cases[k].goto \in i + 1 .. n
    BY <1>3 DEF Targets
  <2>2. st.cases[k] \in [rule : Rules, goto : Nat]
    BY <1>1, ElementOf
  <2>3. \A R \in st.cases[k].rule : IsFiniteSet(R)
    BY DEF Sound
  <2> QED
    BY <1>1, <2>1, <2>2, <2>3 DEF Countable
<1>6. Arms(st) = 0 .. Len(st.cases)
  BY <1>1, <1>2, <1>5 DEF Arms
<1>7. Countable({})
  BY DEF Countable, Rules
<1>8. ASSUME NEW k \in 0 .. Len(st.cases)
      PROVE  ArmStep(st, k) \in i + 1 .. n + 1 /\ Countable(ArmRule(st, k))
  <2>1. CASE k = 0
    BY <1>1, <1>4, <1>7, <2>1 DEF ArmStep, ArmRule
  <2>2. CASE k # 0
    <3>1. k \in DOMAIN st.cases
      BY <1>1, <2>2
    <3> HIDE DEF st
    <3> QED
      BY <1>1, <1>5, <2>2, <3>1 DEF ArmStep, ArmRule
  <2> QED
    BY <2>1, <2>2
<1> QED
  BY <1>6, <1>8

LEMMA KindOf ==
  ASSUME NEW r, Sound(r), NEW i \in DOMAIN r.steps
  PROVE  r.steps[i].kind \in {"propose", "sink", "gate", "branch", "foreach", "exit"}
BY StepOf DEF Step

-----------------------------------------------------------------------------
(* The walk of the analysis.                                               *)

LEMMA ArmCount ==
  ASSUME NEW st, NEW walk, NEW cons, NEW k \in 0 .. Len(st.cases)
  PROVE  ArmCounts(st, walk, cons)[k] = walk[ArmStep(st, k)][Learned(cons, st.in, ArmRule(st, k))]
<1>1. CASE k = 0
  BY <1>1 DEF ArmCounts, ArmStep, ArmRule, Learned
<1>2. CASE k # 0
  BY <1>2 DEF ArmCounts, ArmStep, ArmRule
<1> QED
  BY <1>1, <1>2

LEMMA TuplesAtEnd ==
  ASSUME NEW r, NEW walk, NEW cons, Len(r.steps) \in Nat
  PROVE  TuplesFrom(r, walk, Len(r.steps) + 1, cons) = One
<1>1. Len(r.steps) + 1 > Len(r.steps)
  OBVIOUS
<1> QED
  BY <1>1, Zenon DEF TuplesFrom

LEMMA TuplesAt ==
  ASSUME NEW r, Sound(r), NEW i \in DOMAIN r.steps, NEW walk, NEW cons
  PROVE  LET st == r.steps[i]
             nx == NextStep(r.steps, i)
             tu == TuplesFrom(r, walk, i, cons)
         IN  /\ st.kind = "exit" => tu = One
             /\ st.kind = "propose" => tu = walk[nx][Freed(cons, st.out)]
             /\ st.kind = "gate" => tu = walk[nx][Learned(cons, st.in, st.rule)]
             /\ st.kind = "sink" =>
                  /\ SinkBounded(st, cons) => tu = Times(SinkChoices(st, cons), walk[nx][cons])
                  /\ ~SinkBounded(st, cons) => tu = [bounded |-> FALSE, tuples |-> 1]
             /\ st.kind = "branch" => tu = Branches(st, ArmCounts(st, walk, cons))
             /\ st.kind = "foreach" => tu = Looped(walk[nx][Freed(cons, st.out)])
<1>1. ~(i > Len(r.steps))
  BY StepsOf
<1> DEFINE st == r.steps[i]
<1>2. CASE st.kind = "exit"
  BY <1>1, <1>2, Zenon DEF TuplesFrom
<1>3. CASE st.kind = "propose"
  BY <1>1, <1>3, Zenon DEF TuplesFrom
<1>4. CASE st.kind = "gate"
  BY <1>1, <1>4, Zenon DEF TuplesFrom
<1>5. CASE st.kind = "sink"
  BY <1>1, <1>5, Zenon DEF TuplesFrom
<1>6. CASE st.kind = "branch"
  BY <1>1, <1>6, Zenon DEF TuplesFrom
<1>7. CASE st.kind = "foreach"
  BY <1>1, <1>7, Zenon DEF TuplesFrom
<1> QED
  BY <1>2, <1>3, <1>4, <1>5, <1>6, <1>7, KindOf

Agree(r, f, g, i) == \A j \in i + 1 .. Len(r.steps) + 1 : f[j] = g[j]

\* What the walk counts at step i depends only on the steps after it.
LEMMA SameAfter ==
  ASSUME NEW r, Sound(r), NEW i \in 1 .. Len(r.steps) + 1, NEW f, NEW g,
         Agree(r, f, g, i), NEW cons
  PROVE  TuplesFrom(r, f, i, cons) = TuplesFrom(r, g, i, cons)
<1> DEFINE n  == Len(r.steps)
           st == r.steps[i]
           nx == NextStep(r.steps, i)
<1>1. n \in Nat /\ DOMAIN r.steps = 1 .. n
  BY StepsOf
<1>2. CASE i = n + 1
  BY <1>1, <1>2, TuplesAtEnd
<1>3. CASE i # n + 1
  <2>1. i \in DOMAIN r.steps
    BY <1>1, <1>3
  <2>2. f[nx] = g[nx]
    BY <2>1, NextOf DEF Agree
  <2>3. CASE st.kind = "branch"
    <3>1. \A k \in 0 .. Len(st.cases) : ArmCounts(st, f, cons)[k] = ArmCounts(st, g, cons)[k]
      <4> TAKE k \in 0 .. Len(st.cases)
      <4>1. f[ArmStep(st, k)] = g[ArmStep(st, k)]
        BY <2>1, <2>3, ArmsOf DEF Agree
      <4> QED
        BY <4>1, <2>1, ArmCount
    <3>2. ArmCounts(st, f, cons) = ArmCounts(st, g, cons)
      <4>1. \A w : ArmCounts(st, w, cons) = [k \in 0 .. Len(st.cases) |-> ArmCounts(st, w, cons)[k]]
        BY DEF ArmCounts
      <4> QED
        BY <3>1, <4>1
    <3> QED
      BY <2>1, <2>3, <3>2, TuplesAt
  <2>4. CASE st.kind \in {"propose", "gate", "sink", "foreach", "exit"}
    <3> HIDE DEF nx
    <3>1. \A c : f[nx][c] = g[nx][c]
      BY <2>2
    <3> HIDE DEF nx
    <3>2. CASE st.kind = "propose"
      BY <2>1, <3>1, <3>2, TuplesAt DEF nx
    <3>3. CASE st.kind = "gate"
      BY <2>1, <3>1, <3>3, TuplesAt DEF nx
    <3>4. CASE st.kind = "sink"
      <4>1. \A w : /\ SinkBounded(st, cons) =>
                        TuplesFrom(r, w, i, cons) = Times(SinkChoices(st, cons), w[nx][cons])
                   /\ ~SinkBounded(st, cons) =>
                        TuplesFrom(r, w, i, cons) = [bounded |-> FALSE, tuples |-> 1]
        BY <2>1, <3>4, TuplesAt DEF nx
      <4>2. Times(SinkChoices(st, cons), f[nx][cons]) = Times(SinkChoices(st, cons), g[nx][cons])
        BY <3>1
      <4> QED
        BY <4>1, <4>2, Zenon
    <3>5. CASE st.kind = "foreach"
      BY <2>1, <3>1, <3>5, TuplesAt DEF nx
    <3>6. CASE st.kind = "exit"
      BY <2>1, <3>6, TuplesAt
    <3> QED
      BY <2>4, <3>2, <3>3, <3>4, <3>5, <3>6
  <2> QED
    BY <2>1, <2>3, <2>4, KindOf
<1> QED
  BY <1>2, <1>3

\* The walk has a result, which counts at each step what follows it.
LEMMA CountsDef ==
  ASSUME NEW r, Sound(r)
  PROVE  \A i \in 1 .. Len(r.steps) + 1 :
           Counts(r)[i] = [cons \in Constraints |-> TuplesFrom(r, Counts(r), i, cons)]
<1> DEFINE n == Len(r.steps)
           Good(f, a) ==
             f = [i \in a .. n + 1 |-> [cons \in Constraints |-> TuplesFrom(r, f, i, cons)]]
           S == {m \in 0 .. n + 1 : \E f : Good(f, n + 2 - m)}
<1>1. n \in Nat
  BY StepsOf
<1>2. 0 \in S
  <2> DEFINE f == [i \in n + 2 .. n + 1 |-> {}]
  <2>1. Good(f, n + 2 - 0)
    BY <1>1
  <2>2. 0 \in 0 .. n + 1
    BY <1>1
  <2> HIDE DEF Good, f
  <2> QED
    BY <2>1, <2>2
<1>3. ASSUME NEW m \in 0 .. n, m \in S
      PROVE  m + 1 \in S
  <2>1. PICK f : Good(f, n + 2 - m)
    BY <1>3
  <2> DEFINE a == n + 2 - m
             g == [i \in a - 1 .. n + 1 |-> [cons \in Constraints |-> TuplesFrom(r, f, i, cons)]]
  <2>2. a \in 2 .. n + 2 /\ a - 1 \in 1 .. n + 1 /\ n + 2 - (m + 1) = a - 1 /\ m + 1 \in 0 .. n + 1
    BY <1>1
  <2>3. Good(f, a)
    BY <2>1
  <2> HIDE DEF a
  <2>4. \A i \in a .. n + 1 : f[i] = g[i]
    BY <1>1, <2>2, <2>3
  <2>5. ASSUME NEW i \in a - 1 .. n + 1, NEW cons
        PROVE  TuplesFrom(r, f, i, cons) = TuplesFrom(r, g, i, cons)
    <3> HIDE DEF g
    <3>1. i \in 1 .. n + 1 /\ \A j \in i + 1 .. n + 1 : j \in a .. n + 1
      BY <1>1, <2>2
    <3>2. Agree(r, f, g, i)
      BY <2>4, <3>1 DEF Agree
    <3> QED
      BY <3>1, <3>2, SameAfter
  <2>6. Good(g, a - 1)
    BY <2>5, Zenon
  <2> HIDE DEF Good, g
  <2> QED
    BY <2>2, <2>6
<1>4. \A m \in 0 .. n + 1 : m \in S
  <2> HIDE DEF S
  <2>1. n + 1 \in Nat /\ 0 \in Nat
    BY <1>1
  <2>2. \A m \in 0 .. (n + 1) - 1 : m \in S => m + 1 \in S
    BY <1>1, <1>3
  <2> QED
    BY <1>2, <2>1, <2>2, IntervalInduction
<1>5. \E f : Good(f, 1)
  <2>1. n + 1 \in S
    BY <1>1, <1>4
  <2>2. n + 2 - (n + 1) = 1
    BY <1>1
  <2> HIDE DEF Good
  <2> QED
    BY <2>1, <2>2
<1>6. Good(Counts(r), 1)
  BY <1>5, Zenon DEF Counts
<1> QED
  BY <1>6

LEMMA CountAt ==
  ASSUME NEW r, Sound(r), NEW i \in 1 .. Len(r.steps) + 1, NEW cons \in Constraints
  PROVE  Counts(r)[i][cons] = TuplesFrom(r, Counts(r), i, cons)
BY CountsDef

LEMMA DownInduction ==
  ASSUME NEW b \in Nat, NEW S,
         \A i \in 1 .. b : (\A j \in i + 1 .. b : j \in S) => i \in S
  PROVE  \A i \in 1 .. b : i \in S
<1> DEFINE T == {m \in 0 .. b : \A j \in b + 1 - m .. b : j \in S}
<1>1. 0 \in T
  OBVIOUS
<1>2. ASSUME NEW m \in 0 .. b - 1, m \in T
      PROVE  m + 1 \in T
  <2>1. m + 1 \in 0 .. b /\ b - m \in 1 .. b /\ b + 1 - (m + 1) = b - m
    OBVIOUS
  <2>2. \A j \in (b - m) + 1 .. b : j \in S
    BY <1>2
  <2>3. b - m \in S
    BY <2>1, <2>2
  <2>4. \A j \in b - m .. b : j = b - m \/ j \in (b - m) + 1 .. b
    OBVIOUS
  <2>5. \A j \in b - m .. b : j \in S
    BY <2>2, <2>3, <2>4
  <2> QED
    BY <2>1, <2>5
<1>3. \A m \in 0 .. b : m \in T
  <2> HIDE DEF T
  <2> QED
    BY <1>1, <1>2, IntervalInduction
<1>4. b \in T /\ b + 1 - b = 1
  BY <1>3
<1> QED
  BY <1>4

LEMMA ConstraintsStay ==
  ASSUME NEW cons \in Constraints, NEW n \in Names
  PROVE  /\ Freed(cons, n) \in Constraints
         /\ \A rule : Countable(rule) => Learned(cons, n, rule) \in Constraints
<1>1. Freed(cons, n) \in Constraints
  BY Updated DEF Freed, Constraints
<1>2. ASSUME NEW rule, Countable(rule)
      PROVE  Learned(cons, n, rule) \in Constraints
  <2>1. RuleChoices(rule) \in Nat \cup {-1}
    BY <1>2, RuleFacts
  <2> QED
    BY <2>1, Updated DEF Learned, Constraints
<1> QED
  BY <1>1, <1>2

LEMMA ChoicesType ==
  ASSUME NEW r, Sound(r), NEW i \in DOMAIN r.steps, NEW cons \in Constraints,
         SinkBounded(r.steps[i], cons)
  PROVE  SinkChoices(r.steps[i], cons) \in Nat
<1>1. cons[r.steps[i].in] \in Nat \cup {-1}
  BY StepOf DEF Constraints
<1>2. RuleChoices(r.steps[i].rule) \in Nat
  BY StepOf, RuleFacts
<1>3. CASE r.steps[i].rule # {}
  BY <1>2, <1>3 DEF SinkChoices
<1>4. CASE r.steps[i].rule = {}
  BY <1>1, <1>4 DEF SinkChoices, SinkBounded
<1> QED
  BY <1>3, <1>4

LEMMA GeometricType ==
  ASSUME NEW k \in Nat
  PROVE  Geometric(k, ForeachCap) \in Nat
<1>1. ForeachCap \in Nat
  BY KernelAssumption
<1>2. PICK s \in [0 .. ForeachCap -> Nat] : Geometric(k, ForeachCap) = s[ForeachCap]
  BY <1>1, GeometricSum
<1> QED
  BY <1>1, <1>2

LEMMA CountType ==
  ASSUME NEW c \in Count
  PROVE  /\ \A k \in Nat : Times(k, c) \in Count /\ Times(k, c).bounded = c.bounded
                           /\ Times(k, c).tuples = k * c.tuples
         /\ Looped(c) \in Count /\ Looped(c).bounded = c.bounded
         /\ Looped(c).tuples = Geometric(c.tuples, ForeachCap)
<1>1. c.bounded \in BOOLEAN /\ c.tuples \in Nat
  BY DEF Count
<1>2. \A k \in Nat : k * c.tuples \in Nat
  BY <1>1, Product
<1>3. Geometric(c.tuples, ForeachCap) \in Nat
  BY <1>1, GeometricType
<1> QED
  BY <1>1, <1>2, <1>3 DEF Times, Looped, Count

LEMMA TuplesType ==
  ASSUME NEW r, Sound(r), NEW i \in 1 .. Len(r.steps) + 1, NEW w,
         \A j \in i + 1 .. Len(r.steps) + 1 : w[j] \in [Constraints -> Count],
         NEW cons \in Constraints
  PROVE  TuplesFrom(r, w, i, cons) \in Count
<1> DEFINE n  == Len(r.steps)
           st == r.steps[i]
           nx == NextStep(r.steps, i)
           tu == TuplesFrom(r, w, i, cons)
<1>1. n \in Nat /\ DOMAIN r.steps = 1 .. n
  BY StepsOf
<1>2. One \in Count /\ [bounded |-> FALSE, tuples |-> 1] \in Count
  BY DEF One, Count
<1>3. CASE i = n + 1
  BY <1>1, <1>2, <1>3, TuplesAtEnd
<1>4. CASE i # n + 1
  <2>1. i \in DOMAIN r.steps
    BY <1>1, <1>4
  <2>2. st.in \in Names /\ st.out \in Names /\ Countable(st.rule)
    BY <2>1, StepOf
  <2>3. \A c \in Constraints : w[nx][c] \in Count
    <3>1. w[nx] \in [Constraints -> Count]
      BY <2>1, NextOf
    <3> QED
      BY <3>1
  <2>4. /\ Freed(cons, st.out) \in Constraints
        /\ Learned(cons, st.in, st.rule) \in Constraints
    BY <2>2, ConstraintsStay
  <2>5. CASE st.kind = "branch"
    <3>1. ASSUME NEW k \in Arms(st)
          PROVE  ArmCounts(st, w, cons)[k].tuples \in Nat
      <4>1. k \in 0 .. Len(st.cases)
        BY <2>1, <2>5, ArmsOf
      <4>2. w[ArmStep(st, k)] \in [Constraints -> Count] /\ Countable(ArmRule(st, k))
        BY <2>1, <2>5, <4>1, ArmsOf
      <4>3. Learned(cons, st.in, ArmRule(st, k)) \in Constraints
        BY <2>2, <4>2, ConstraintsStay
      <4>4. ArmCounts(st, w, cons)[k] \in Count
        BY <4>1, <4>2, <4>3, ArmCount
      <4> QED
        BY <4>4 DEF Count
    <3>2. Len(st.cases) \in Nat
      BY <2>1, StepOf
    <3>3. Branches(st, ArmCounts(st, w, cons)) \in Count
      BY <3>1, <3>2, BranchesSum
    <3> QED
      BY <2>1, <2>5, <3>3, TuplesAt
  <2>6. CASE st.kind = "propose"
    BY <2>1, <2>3, <2>4, <2>6, TuplesAt
  <2>7. CASE st.kind = "gate"
    BY <2>1, <2>3, <2>4, <2>7, TuplesAt
  <2>8. CASE st.kind = "sink"
    <3>1. CASE SinkBounded(st, cons)
      <4>1. SinkChoices(st, cons) \in Nat
        BY <2>1, <3>1, ChoicesType
      <4>2. Times(SinkChoices(st, cons), w[nx][cons]) \in Count
        BY <4>1, <2>3, CountType
      <4>3. tu = Times(SinkChoices(st, cons), w[nx][cons])
        BY <2>1, <2>8, <3>1, TuplesAt
      <4> QED
        BY <4>2, <4>3
    <3>2. CASE ~SinkBounded(st, cons)
      <4>1. tu = [bounded |-> FALSE, tuples |-> 1]
        BY <2>1, <2>8, <3>2, TuplesAt
      <4> QED
        BY <4>1, <1>2
    <3> QED
      BY <3>1, <3>2
  <2>9. CASE st.kind = "foreach"
    <3> DEFINE c == w[nx][Freed(cons, st.out)]
    <3>1. c \in Count
      BY <2>3, <2>4
    <3> HIDE DEF c
    <3>2. Looped(c) \in Count
      BY <3>1, CountType
    <3> QED
      BY <2>1, <2>9, <3>2, TuplesAt DEF c
  <2>10. CASE st.kind = "exit"
    BY <2>1, <2>10, <1>2, TuplesAt
  <2> QED
    BY <2>1, <2>5, <2>6, <2>7, <2>8, <2>9, <2>10, KindOf
<1> QED
  BY <1>3, <1>4

\* What the walk counts is a number.
LEMMA CountsType ==
  ASSUME NEW r, Sound(r)
  PROVE  \A i \in 1 .. Len(r.steps) + 1 : Counts(r)[i] \in [Constraints -> Count]
<1> DEFINE b == Len(r.steps) + 1
           S == {i \in 1 .. b : Counts(r)[i] \in [Constraints -> Count]}
<1>1. b \in Nat
  BY StepsOf
<1>2. ASSUME NEW i \in 1 .. b, \A j \in i + 1 .. b : j \in S
      PROVE  i \in S
  <2>1. \A j \in i + 1 .. b : Counts(r)[j] \in [Constraints -> Count]
    BY <1>2
  <2>2. \A cons \in Constraints : TuplesFrom(r, Counts(r), i, cons) \in Count
    BY <2>1, TuplesType
  <2>3. Counts(r)[i] = [cons \in Constraints |-> TuplesFrom(r, Counts(r), i, cons)]
    BY CountsDef
  <2> QED
    BY <2>2, <2>3
<1>3. \A i \in 1 .. b : i \in S
  <2> HIDE DEF S, b
  <2> QED
    BY <1>1, <1>2, DownInduction
<1> QED
  BY <1>3

-----------------------------------------------------------------------------
(* The ways on: from each step, with what is known there, the sets of      *)
(* values that may cross for an element, each with where it crosses.       *)

Crossing == Nat \X Nat \X Values
Ways == SUBSET (SUBSET Crossing)

\* The ways of a loop from the element e on, of at most t rounds.
IsRounds(g, bodies) ==
  /\ g \in [0 .. ForeachCap -> [Nat -> Ways]]
  /\ \A e \in Nat : g[0][e] = {{}}
  /\ \A t \in 1 .. ForeachCap, e \in Nat :
       g[t][e] = {{}} \cup Pairwise(bodies[e], g[t - 1][e + 1])

Rounds(bodies) == CHOOSE g : IsRounds(g, bodies)

LEMMA InPairwise ==
  ASSUME NEW A, NEW B, NEW a \in A, NEW b \in B
  PROVE  a \cup b \in Pairwise(A, B)
<1>1. <<a, b>> \in A \X B
  OBVIOUS
<1> QED
  BY <1>1 DEF Pairwise

LEMMA PairwiseType ==
  ASSUME NEW A \in Ways, NEW B \in Ways
  PROVE  Pairwise(A, B) \in Ways
BY DEF Pairwise, Ways

LEMMA NoneType == {{}} \in Ways
BY DEF Ways

LEMMA NoneAtMost == AtMost({{}}, 1)
<1>1. IsFiniteSet({{}}) /\ Cardinality({{}}) = 1
  BY FS_Singleton, Zenon
<1> QED
  BY <1>1 DEF AtMost

LEMMA RoundsExist ==
  ASSUME NEW bodies \in [Nat -> Ways]
  PROVE  IsRounds(Rounds(bodies), bodies)
<1> DEFINE R == [Nat -> Ways]
           none == [e \in Nat |-> {{}}]
           H(s) == [e \in Nat |-> {{}} \cup Pairwise(bodies[e], s[e + 1])]
           h == [t \in 1 .. ForeachCap |-> [s \in R |-> H(s)]]
<1>1. ForeachCap \in Nat
  BY KernelAssumption
<1>2. none \in R
  BY NoneType
<1>3. ASSUME NEW s \in R
      PROVE  H(s) \in R
  <2>1. ASSUME NEW e \in Nat
        PROVE  {{}} \cup Pairwise(bodies[e], s[e + 1]) \in Ways
    <3>1. bodies[e] \in Ways /\ s[e + 1] \in Ways
      OBVIOUS
    <3>2. Pairwise(bodies[e], s[e + 1]) \in Ways
      BY <3>1, PairwiseType
    <3> QED
      BY <3>2, NoneType DEF Ways
  <2> QED
    BY <2>1
<1>4. \A s \in R, e \in Nat : H(s)[e] = {{}} \cup Pairwise(bodies[e], s[e + 1])
  OBVIOUS
<1> HIDE DEF H
<1>5. h \in [1 .. ForeachCap -> [R -> R]]
  <2> HIDE DEF R
  <2> QED
    BY <1>3
<1>6. PICK g : Iterates(g, ForeachCap, R, none, h)
  <2> HIDE DEF R, h, none
  <2> QED
    BY <1>1, <1>2, <1>5, RecursionExists, Zenon
<1>7. g \in [0 .. ForeachCap -> R] /\ g[0] = none
  <2> HIDE DEF R, h, none
  <2> QED
    BY <1>6 DEF Iterates
<1>8. ASSUME NEW t \in 1 .. ForeachCap, NEW e \in Nat
      PROVE  g[t][e] = {{}} \cup Pairwise(bodies[e], g[t - 1][e + 1])
  <2>1. t - 1 \in 0 .. ForeachCap
    BY <1>1
  <2>2. g[t - 1] \in R
    BY <1>7, <2>1
  <2>3. g[t] = h[t][g[t - 1]]
    <3> HIDE DEF R, h, none
    <3> QED
      BY <1>6 DEF Iterates
  <2>4. g[t] = H(g[t - 1])
    <3> HIDE DEF R
    <3> QED
      BY <2>2, <2>3
  <2> HIDE DEF R
  <2> QED
    BY <1>4, <2>2, <2>4
<1>9. IsRounds(g, bodies)
  BY <1>7, <1>8 DEF IsRounds
<1> QED
  BY <1>9, Zenon DEF Rounds

\* A loop has at most the ways that logGeom counts.
LEMMA RoundsAtMost ==
  ASSUME NEW bodies \in [Nat -> Ways], NEW k \in Nat, \A e \in Nat : AtMost(bodies[e], k)
  PROVE  \A e \in Nat : AtMost(Rounds(bodies)[ForeachCap][e], Geometric(k, ForeachCap))
<1> DEFINE g == Rounds(bodies)
<1>1. ForeachCap \in Nat
  BY KernelAssumption
<1>2. IsRounds(g, bodies)
  BY RoundsExist
<1> HIDE DEF g
<1>3. PICK s \in [0 .. ForeachCap -> Nat] :
        /\ s[0] = 1 /\ \A t \in 1 .. ForeachCap : s[t] = 1 + k * s[t - 1]
        /\ Geometric(k, ForeachCap) = s[ForeachCap]
  BY <1>1, GeometricSum
<1> DEFINE S == {t \in 0 .. ForeachCap : \A e \in Nat : AtMost(g[t][e], s[t])}
<1>4. 0 \in S
  <2>1. s[0] = 1 /\ 0 \in 0 .. ForeachCap
    BY <1>1, <1>3
  <2>2. \A e \in Nat : g[0][e] = {{}}
    BY <1>2 DEF IsRounds
  <2> QED
    BY <2>1, <2>2, NoneAtMost
<1>5. ASSUME NEW t \in 0 .. ForeachCap - 1, t \in S
      PROVE  t + 1 \in S
  <2>1. t + 1 \in 1 .. ForeachCap /\ t + 1 \in 0 .. ForeachCap /\ t + 1 - 1 = t /\ s[t] \in Nat
    BY <1>1
  <2>2. s[t + 1] = 1 + k * s[t]
    BY <1>3, <2>1
  <2>3. k * s[t] \in Nat
    BY <2>1, Product
  <2>4. ASSUME NEW e \in Nat
        PROVE  AtMost(g[t + 1][e], s[t + 1])
    <3>1. g[t + 1][e] = {{}} \cup Pairwise(bodies[e], g[t][e + 1])
      BY <1>2, <2>1 DEF IsRounds
    <3>2. AtMost(bodies[e], k) /\ AtMost(g[t][e + 1], s[t])
      BY <1>5
    <3>3. AtMost(Pairwise(bodies[e], g[t][e + 1]), k * s[t])
      BY <2>1, <3>2, PairwiseAtMost
    <3>4. AtMost({{}}, 1)
      BY NoneAtMost
    <3>5. AtMost({{}} \cup Pairwise(bodies[e], g[t][e + 1]), 1 + k * s[t])
      BY <2>3, <3>3, <3>4, UnionAtMost
    <3> QED
      BY <2>2, <3>1, <3>5
  <2> QED
    BY <2>1, <2>4
<1>6. \A t \in 0 .. ForeachCap : t \in S
  <2> HIDE DEF S
  <2> QED
    BY <1>1, <1>4, <1>5, IntervalInduction
<1>7. \A e \in Nat : AtMost(g[ForeachCap][e], s[ForeachCap])
  BY <1>1, <1>6
<1> QED
  BY <1>3, <1>7 DEF g

\* The values that may show at sink i: an ingredient of the recipe's author is the
\* one it is.
Shown(r, i, con) ==
  LET st == r.steps[i]
  IN  IF st.rule # {}
      THEN IF r.ingredients[st.in].class = "authoritative" THEN {r.ingredients[st.in].value}
           ELSE UNION st.rule
      ELSE IF st.in \in DOMAIN con THEN con[st.in] ELSE Values

\* The bodies of a loop at step i, by element.
Bodies(r, fam, i, con) ==
  [e \in Nat |-> fam[NextStep(r.steps, i)][Without(con, r.steps[i].out)][e]]

ArmWays(r, fam, i, con, e, k) ==
  fam[ArmStep(r.steps[i], k)][With(con, r.steps[i].in, ArmRule(r.steps[i], k))][e]

AllArms(r, fam, i, con, e) ==
  UNION {ArmWays(r, fam, i, con, e, k) : k \in 0 .. Len(r.steps[i].cases)}

\* Nothing more crosses.
Ended == {{}}

WaysFrom(r, fam, i, con, e) ==
  LET st == r.steps[i]
      nx == NextStep(r.steps, i)
  IN  IF i > Len(r.steps) THEN Ended
      ELSE CASE st.kind = "exit" -> Ended
             [] st.kind = "propose" -> fam[nx][Without(con, st.out)][e]
             [] st.kind = "gate" -> fam[nx][With(con, st.in, st.rule)][e]
             [] st.kind = "sink" ->
                  Pairwise(Singles(Shown(r, i, con), e, i), fam[nx][con][e])
             [] st.kind = "branch" -> AllArms(r, fam, i, con, e)
             [] st.kind = "foreach" -> Rounds(Bodies(r, fam, i, con))[ForeachCap][0]

LEMMA WaysAtEnd ==
  ASSUME NEW r, NEW fam, NEW con, NEW e, Len(r.steps) \in Nat
  PROVE  WaysFrom(r, fam, Len(r.steps) + 1, con, e) = Ended
<1>1. Len(r.steps) + 1 > Len(r.steps)
  OBVIOUS
<1> QED
  BY <1>1, Zenon DEF WaysFrom

LEMMA WaysAt ==
  ASSUME NEW r, Sound(r), NEW i \in DOMAIN r.steps, NEW fam, NEW con, NEW e
  PROVE  LET st == r.steps[i]
             nx == NextStep(r.steps, i)
             wa == WaysFrom(r, fam, i, con, e)
         IN  /\ st.kind = "exit" => wa = Ended
             /\ st.kind = "propose" => wa = fam[nx][Without(con, st.out)][e]
             /\ st.kind = "gate" => wa = fam[nx][With(con, st.in, st.rule)][e]
             /\ st.kind = "sink" => wa = Pairwise(Singles(Shown(r, i, con), e, i), fam[nx][con][e])
             /\ st.kind = "branch" => wa = AllArms(r, fam, i, con, e)
             /\ st.kind = "foreach" => wa = Rounds(Bodies(r, fam, i, con))[ForeachCap][0]
<1>1. ~(i > Len(r.steps))
  BY StepsOf
<1> DEFINE st == r.steps[i]
<1>2. CASE st.kind = "exit"
  BY <1>1, <1>2, Zenon DEF WaysFrom
<1>3. CASE st.kind = "propose"
  BY <1>1, <1>3, Zenon DEF WaysFrom
<1>4. CASE st.kind = "gate"
  BY <1>1, <1>4, Zenon DEF WaysFrom
<1>5. CASE st.kind = "sink"
  BY <1>1, <1>5, Zenon DEF WaysFrom
<1>6. CASE st.kind = "branch"
  BY <1>1, <1>6, Zenon DEF WaysFrom
<1>7. CASE st.kind = "foreach"
  BY <1>1, <1>7, Zenon DEF WaysFrom
<1> QED
  BY <1>2, <1>3, <1>4, <1>5, <1>6, <1>7, KindOf

\* The ways on from step i depend only on the ways from the steps after it.
LEMMA SameWays ==
  ASSUME NEW r, Sound(r), NEW i \in 1 .. Len(r.steps) + 1, NEW f, NEW g,
         Agree(r, f, g, i), NEW con, NEW e
  PROVE  WaysFrom(r, f, i, con, e) = WaysFrom(r, g, i, con, e)
<1> DEFINE n  == Len(r.steps)
           st == r.steps[i]
           nx == NextStep(r.steps, i)
<1>1. n \in Nat /\ DOMAIN r.steps = 1 .. n
  BY StepsOf
<1>2. CASE i = n + 1
  BY <1>1, <1>2, WaysAtEnd
<1>3. CASE i # n + 1
  <2>1. i \in DOMAIN r.steps
    BY <1>1, <1>3
  <2>2. f[nx] = g[nx]
    BY <2>1, NextOf DEF Agree
  <2>3. CASE st.kind = "branch"
    <3>1. \A k \in 0 .. Len(st.cases) : ArmWays(r, f, i, con, e, k) = ArmWays(r, g, i, con, e, k)
      <4> TAKE k \in 0 .. Len(st.cases)
      <4>1. f[ArmStep(st, k)] = g[ArmStep(st, k)]
        BY <2>1, <2>3, ArmsOf DEF Agree
      <4> QED
        BY <4>1 DEF ArmWays
    <3>2. AllArms(r, f, i, con, e) = AllArms(r, g, i, con, e)
      BY <3>1 DEF AllArms
    <3> QED
      BY <2>1, <2>3, <3>2, WaysAt
  <2>4. CASE st.kind \in {"propose", "gate", "sink", "foreach", "exit"}
    <3> HIDE DEF nx
    <3>1. \A c : f[nx][c][e] = g[nx][c][e]
      BY <2>2
    <3>2. CASE st.kind = "propose"
      BY <2>1, <3>1, <3>2, WaysAt DEF nx
    <3>3. CASE st.kind = "gate"
      BY <2>1, <3>1, <3>3, WaysAt DEF nx
    <3>4. CASE st.kind = "sink"
      BY <2>1, <3>1, <3>4, WaysAt DEF nx
    <3>5. CASE st.kind = "foreach"
      <4>1. Bodies(r, f, i, con) = Bodies(r, g, i, con)
        BY <2>2 DEF Bodies, nx
      <4> QED
        BY <2>1, <4>1, <3>5, WaysAt
    <3>6. CASE st.kind = "exit"
      BY <2>1, <3>6, WaysAt
    <3> QED
      BY <2>4, <3>2, <3>3, <3>4, <3>5, <3>6
  <2> QED
    BY <2>1, <2>3, <2>4, KindOf
<1> QED
  BY <1>2, <1>3

\* The ways are no more than the analysis counts.
Counted(r, i, con, ways) ==
  Counts(r)[i][Sizes(con)].bounded => AtMost(ways, Counts(r)[i][Sizes(con)].tuples)

FamAt(r, fam, j) ==
  /\ fam[j] \in [FinCons -> [Nat -> Ways]]
  /\ \A con \in FinCons, e \in Nat : Counted(r, j, con, fam[j][con][e])

LEMMA FamWays ==
  ASSUME NEW r, NEW fam, NEW j, FamAt(r, fam, j), NEW con \in FinCons, NEW e \in Nat
  PROVE  fam[j][con][e] \in Ways /\ Counted(r, j, con, fam[j][con][e])
BY DEF FamAt

LEMMA CountIn ==
  ASSUME NEW r, Sound(r), NEW i \in 1 .. Len(r.steps) + 1, NEW con \in FinCons
  PROVE  /\ Counts(r)[i][Sizes(con)] \in Count
         /\ Counts(r)[i][Sizes(con)].tuples \in Nat
         /\ Counts(r)[i][Sizes(con)] = TuplesFrom(r, Counts(r), i, Sizes(con))
<1>1. Sizes(con) \in Constraints
  BY SizesType
<1>2. Counts(r)[i][Sizes(con)] \in Count
  BY <1>1, CountsType
<1> QED
  BY <1>1, <1>2, CountAt DEF Count

LEMMA ShownFacts ==
  ASSUME NEW r, Sound(r), NEW i \in DOMAIN r.steps, NEW con \in FinCons
  PROVE  /\ Shown(r, i, con) \subseteq Values
         /\ SinkBounded(r.steps[i], Sizes(con)) =>
              AtMost(Shown(r, i, con), SinkChoices(r.steps[i], Sizes(con)))
<1> DEFINE st == r.steps[i]
<1>1. st.in \in Names /\ Countable(st.rule)
  BY StepOf
<1>2. Sizes(con) \in Constraints
  BY SizesType
<1>3. Sizes(con)[st.in] = IF st.in \in DOMAIN con THEN Cardinality(con[st.in]) ELSE -1
  BY <1>1, SizesDef
<1>4. CASE st.rule # {}
  <2>1. RuleChoices(st.rule) \in Nat /\ AtMost(UNION st.rule, RuleChoices(st.rule))
        /\ UNION st.rule \subseteq Values
    BY <1>1, RuleFacts
  <2>2. SinkChoices(st, Sizes(con)) = IF RuleChoices(st.rule) > 1 THEN RuleChoices(st.rule) ELSE 1
    BY <1>4 DEF SinkChoices
  <2>3. /\ SinkChoices(st, Sizes(con)) \in Nat /\ SinkChoices(st, Sizes(con)) >= 1
        /\ RuleChoices(st.rule) <= SinkChoices(st, Sizes(con))
    BY <2>1, <2>2
  <2>4. CASE r.ingredients[st.in].class = "authoritative"
    <3>1. Shown(r, i, con) = {r.ingredients[st.in].value}
      BY <1>4, <2>4 DEF Shown
    <3>2. r.ingredients[st.in].value \in Values
      <4>1. r.ingredients[st.in] \in Slot
        BY <1>1, StepsOf
      <4> QED
        BY <4>1 DEF Slot
    <3> QED
      BY <2>3, <3>1, <3>2, OneAtMost
  <2>5. CASE r.ingredients[st.in].class # "authoritative"
    <3>1. Shown(r, i, con) = UNION st.rule
      BY <1>4, <2>5 DEF Shown
    <3>2. Cardinality(UNION st.rule) \in Nat
      BY <2>1, AtMostType
    <3>3. AtMost(UNION st.rule, SinkChoices(st, Sizes(con)))
      BY <2>1, <2>3, <3>2 DEF AtMost
    <3> QED
      BY <2>1, <3>1, <3>3
  <2> QED
    BY <2>4, <2>5
<1>5. CASE st.rule = {}
  <2>1. CASE st.in \in DOMAIN con
    <3>1. Shown(r, i, con) = con[st.in]
      BY <1>5, <2>1 DEF Shown
    <3>2. con[st.in] \subseteq Values /\ IsFiniteSet(con[st.in]) /\ Cardinality(con[st.in]) \in Nat
      BY <2>1, FinConsFacts
    <3> DEFINE c == Cardinality(con[st.in])
    <3>3. SinkChoices(st, Sizes(con)) = IF c > 1 THEN c ELSE 1
      BY <1>3, <1>5, <2>1 DEF SinkChoices
    <3>4. c <= SinkChoices(st, Sizes(con))
      <4> HIDE DEF c
      <4>1. c \in Nat
        BY <3>2 DEF c
      <4> QED
        BY <3>3, <4>1
    <3> QED
      BY <3>1, <3>2, <3>4 DEF AtMost
  <2>2. CASE st.in \notin DOMAIN con
    <3>1. Shown(r, i, con) = Values
      BY <1>5, <2>2 DEF Shown
    <3>2. ~SinkBounded(st, Sizes(con))
      BY <1>3, <1>5, <2>2 DEF SinkBounded
    <3> QED
      BY <3>1, <3>2
  <2> QED
    BY <2>1, <2>2
<1> QED
  BY <1>4, <1>5

AllOf(a, m) == UNION {a[k] : k \in 0 .. m}

\* What the arms of a branch add up to bounds the ways through it.
LEMMA ArmsAtMost ==
  ASSUME NEW m \in Nat, NEW s \in [0 .. m -> Nat], NEW w, NEW a,
         \A k \in 0 .. m : w[k] \in Nat /\ AtMost(a[k], w[k]),
         s[0] = w[0], \A t \in 1 .. m : s[t] = s[t - 1] + w[t]
  PROVE  AtMost(AllOf(a, m), s[m])
<1> DEFINE U(t) == AllOf(a, t)
           S == {t \in 0 .. m : AtMost(U(t), s[t])}
<1>1. 0 \in S
  <2>1. U(0) = a[0]
    BY DEF AllOf
  <2> HIDE DEF U
  <2> QED
    BY <2>1
<1>2. ASSUME NEW t \in 0 .. m - 1, t \in S
      PROVE  t + 1 \in S
  <2>1. t + 1 \in 1 .. m /\ t + 1 \in 0 .. m /\ t \in 0 .. m /\ t + 1 - 1 = t
    OBVIOUS
  <2>2. U(t + 1) = U(t) \cup a[t + 1]
    <3>1. \A k : k \in 0 .. t + 1 <=> k \in 0 .. t \/ k = t + 1
      BY <2>1
    <3> QED
      BY <3>1 DEF AllOf
  <2> HIDE DEF U
  <2>3. AtMost(U(t), s[t]) /\ AtMost(a[t + 1], w[t + 1]) /\ w[t + 1] \in Nat /\ s[t] \in Nat
    BY <1>2, <2>1
  <2>4. AtMost(U(t) \cup a[t + 1], s[t] + w[t + 1])
    BY <2>3, UnionAtMost
  <2>5. s[t + 1] = s[t] + w[t + 1]
    BY <2>1
  <2> QED
    BY <2>1, <2>2, <2>4, <2>5
<1>3. \A t \in 0 .. m : t \in S
  <2> HIDE DEF S
  <2> QED
    BY <1>1, <1>2, IntervalInduction
<1> QED
  BY <1>3

LEMMA SinglesType ==
  ASSUME NEW A \in SUBSET Values, NEW e \in Nat, NEW i \in Nat
  PROVE  Singles(A, e, i) \in Ways
BY DEF Singles, Ways, Crossing

LEMMA EndedFacts == Ended \in Ways /\ AtMost(Ended, 1)
BY NoneType, NoneAtMost DEF Ended

AreBodies(b, r, fam, i, con) ==
  /\ b \in [Nat -> Ways]
  /\ \A e \in Nat : b[e] = fam[NextStep(r.steps, i)][Without(con, r.steps[i].out)][e]

LEMMA BodiesType ==
  ASSUME NEW r, Sound(r), NEW i \in DOMAIN r.steps, NEW fam, FamAt(r, fam, NextStep(r.steps, i)),
         NEW con \in FinCons
  PROVE  AreBodies(Bodies(r, fam, i, con), r, fam, i, con)
<1> DEFINE nx == NextStep(r.steps, i)
           c == Without(con, r.steps[i].out)
<1>1. c \in FinCons
  BY StepOf, WithoutSlot
<1>2. \A e \in Nat : fam[nx][c][e] \in Ways
  <2> HIDE DEF c, nx
  <2> QED
    BY <1>1, FamWays DEF nx
<1>3. Bodies(r, fam, i, con) = [e \in Nat |-> fam[nx][c][e]]
  BY DEF Bodies
<1> QED
  BY <1>2, <1>3 DEF AreBodies

LEMMA RoundsType ==
  ASSUME NEW bodies \in [Nat -> Ways], NEW t \in 0 .. ForeachCap, NEW e \in Nat
  PROVE  Rounds(bodies)[t][e] \in Ways
<1> DEFINE g == Rounds(bodies)
<1>1. IsRounds(g, bodies)
  BY RoundsExist
<1> HIDE DEF g
<1>2. g[t][e] \in Ways
  BY <1>1 DEF IsRounds
<1> QED
  BY <1>2 DEF g

\* The ways on from step i are sets of crossings, and as few as the analysis
\* counts, if those from the steps after it are.
LEMMA WaysCounted ==
  ASSUME NEW r, Sound(r), NEW i \in 1 .. Len(r.steps) + 1, NEW fam,
         \A j \in i + 1 .. Len(r.steps) + 1 : FamAt(r, fam, j),
         NEW con \in FinCons, NEW e \in Nat
  PROVE  /\ WaysFrom(r, fam, i, con, e) \in Ways
         /\ Counted(r, i, con, WaysFrom(r, fam, i, con, e))
<1> DEFINE n  == Len(r.steps)
           st == r.steps[i]
           nx == NextStep(r.steps, i)
           wa == WaysFrom(r, fam, i, con, e)
           w  == Counts(r)
           cons == Sizes(con)
<1> SUFFICES wa \in Ways /\ Counted(r, i, con, wa)
  OBVIOUS
<1>1. n \in Nat /\ DOMAIN r.steps = 1 .. n
  BY StepsOf
<1>2. w[i][cons] = TuplesFrom(r, w, i, cons)
  BY CountIn
<1>3. ASSUME wa = Ended, TuplesFrom(r, w, i, cons) = One
      PROVE  wa \in Ways /\ Counted(r, i, con, wa)
  <2>1. w[i][cons].tuples = 1
    BY <1>2, <1>3 DEF One
  <2> QED
    BY <1>3, <2>1, EndedFacts DEF Counted
<1>4. CASE i = n + 1
  <2>1. wa = Ended
    BY <1>1, <1>4, WaysAtEnd
  <2>2. TuplesFrom(r, w, i, cons) = One
    BY <1>1, <1>4, TuplesAtEnd
  <2> QED
    BY <1>3, <2>1, <2>2
<1>5. CASE i # n + 1
  <2>1. i \in DOMAIN r.steps /\ i \in Nat
    BY <1>1, <1>5
  <2>2. st.in \in Names /\ st.out \in Names /\ Countable(st.rule)
    BY <2>1, StepOf
  <2>3. FamAt(r, fam, nx) /\ nx \in 1 .. n + 1
    BY <1>1, <2>1, NextOf
  <2>4. CASE st.kind = "exit"
    <3>1. wa = Ended
      BY <2>1, <2>4, WaysAt
    <3>2. TuplesFrom(r, w, i, cons) = One
      BY <2>1, <2>4, TuplesAt
    <3> QED
      BY <1>3, <3>1, <3>2
  <2>5. ASSUME NEW c \in FinCons, wa = fam[nx][c][e], TuplesFrom(r, w, i, cons) = w[nx][Sizes(c)]
        PROVE  wa \in Ways /\ Counted(r, i, con, wa)
    <3>1. fam[nx][c][e] \in Ways /\ Counted(r, nx, c, fam[nx][c][e])
      BY <2>3, FamWays
    <3>2. w[i][cons] = w[nx][Sizes(c)]
      BY <1>2, <2>5
    <3> HIDE DEF w, nx, wa, cons
    <3> QED
      BY <2>5, <3>1, <3>2 DEF Counted, w, cons
  <2>6. CASE st.kind = "propose"
    <3> DEFINE c == Without(con, st.out)
    <3>1. c \in FinCons /\ Sizes(c) = Freed(cons, st.out)
      BY <2>2, WithoutSlot
    <3>2. wa = fam[nx][c][e]
      BY <2>1, <2>6, WaysAt
    <3>3. TuplesFrom(r, w, i, cons) = w[nx][Freed(cons, st.out)]
      BY <2>1, <2>6, TuplesAt
    <3> HIDE DEF c, w, nx, wa, cons
    <3> QED
      BY <2>5, <3>1, <3>2, <3>3
  <2>7. CASE st.kind = "gate"
    <3> DEFINE c == With(con, st.in, st.rule)
    <3>1. c \in FinCons /\ Sizes(c) = Learned(cons, st.in, st.rule)
      BY <2>2, WithRule
    <3>2. wa = fam[nx][c][e]
      BY <2>1, <2>7, WaysAt
    <3>3. TuplesFrom(r, w, i, cons) = w[nx][Learned(cons, st.in, st.rule)]
      BY <2>1, <2>7, TuplesAt
    <3> HIDE DEF c, w, nx, wa, cons
    <3> QED
      BY <2>5, <3>1, <3>2, <3>3
  <2>8. CASE st.kind = "sink"
    <3> DEFINE A == Shown(r, i, con)
               F == fam[nx][con][e]
    <3>1. wa = Pairwise(Singles(A, e, i), F)
      BY <2>1, <2>8, WaysAt
    <3>2. F \in Ways /\ Counted(r, nx, con, F)
      BY <2>3, FamWays
    <3>3. Singles(A, e, i) \in Ways
      BY <2>1, ShownFacts, SinglesType
    <3>4. wa \in Ways
      BY <3>1, <3>2, <3>3, PairwiseType
    <3>5. CASE SinkBounded(st, cons)
      <4> DEFINE k == SinkChoices(st, cons)
      <4>1. k \in Nat /\ AtMost(A, k)
        BY <2>1, <3>5, ShownFacts, ChoicesType, SizesType
      <4>2. AtMost(Singles(A, e, i), k)
        BY <4>1, SinglesAtMost
      <4>3. w[nx][cons] \in Count /\ w[nx][cons].tuples \in Nat
        BY <2>3, CountIn
      <4>4. w[i][cons] = Times(k, w[nx][cons])
        BY <1>2, <2>1, <2>8, <3>5, TuplesAt
      <4> HIDE DEF k, w, nx, A, F, cons, wa
      <4> DEFINE on == w[nx][cons]
      <4>5. /\ w[i][cons].bounded = w[nx][cons].bounded
            /\ w[i][cons].tuples = k * w[nx][cons].tuples
        <5> HIDE DEF on
        <5>1. Times(k, on).bounded = on.bounded /\ Times(k, on).tuples = k * on.tuples
          BY <4>1, <4>3, CountType DEF on
        <5> QED
          BY <4>4, <5>1 DEF on
      <4> HIDE DEF on
      <4>6. w[nx][cons].bounded => AtMost(F, w[nx][cons].tuples)
        BY <3>2 DEF Counted, w, cons
      <4>7. w[i][cons].bounded => AtMost(wa, w[i][cons].tuples)
        BY <3>1, <4>1, <4>2, <4>3, <4>5, <4>6, PairwiseAtMost
      <4> QED
        BY <3>4, <4>7 DEF Counted, w, cons
    <3>6. CASE ~SinkBounded(st, cons)
      <4>1. w[i][cons] = [bounded |-> FALSE, tuples |-> 1]
        BY <1>2, <2>1, <2>8, <3>6, TuplesAt
      <4>2. ~w[i][cons].bounded
        BY <4>1
      <4> QED
        BY <3>4, <4>2 DEF Counted
    <3> QED
      BY <3>5, <3>6
  <2>9. CASE st.kind = "branch"
    <3> DEFINE m == Len(st.cases)
               arm == ArmCounts(st, w, cons)
               a == [k \in 0 .. m |-> ArmWays(r, fam, i, con, e, k)]
               wt == [k \in 0 .. m |-> arm[k].tuples]
    <3>1. m \in Nat /\ Arms(st) = 0 .. m
      BY <2>1, <2>9, StepOf, ArmsOf
    <3>2. ASSUME NEW k \in 0 .. m
          PROVE  /\ a[k] \in Ways /\ arm[k].tuples \in Nat
                 /\ arm[k].bounded => AtMost(a[k], arm[k].tuples)
      <4> DEFINE c == With(con, st.in, ArmRule(st, k))
                 j == ArmStep(st, k)
      <4>1. j \in i + 1 .. n + 1 /\ Countable(ArmRule(st, k))
        BY <2>1, <2>9, ArmsOf
      <4>2. j \in 1 .. n + 1 /\ FamAt(r, fam, j)
        BY <1>1, <4>1
      <4>3. c \in FinCons /\ Sizes(c) = Learned(cons, st.in, ArmRule(st, k))
        BY <2>2, <4>1, WithRule
      <4>4. arm[k] = w[j][Sizes(c)]
        BY <4>3, ArmCount
      <4>5. a[k] = fam[j][c][e]
        BY DEF ArmWays
      <4> HIDE DEF c, j, w, cons, a, arm
      <4>6. fam[j][c][e] \in Ways /\ Counted(r, j, c, fam[j][c][e])
        BY <4>2, <4>3, FamWays
      <4>7. w[j][Sizes(c)].tuples \in Nat
        BY <4>2, <4>3, CountIn DEF w
      <4> QED
        BY <4>4, <4>5, <4>6, <4>7 DEF Counted, w
    <3>3. wa = AllOf(a, m)
      <4>1. wa = AllArms(r, fam, i, con, e)
        BY <2>1, <2>9, WaysAt
      <4> QED
        BY <4>1 DEF AllArms, AllOf
    <3>4. wa \in Ways
      <4>1. \A k \in 0 .. m : a[k] \in Ways
        BY <3>2
      <4> HIDE DEF a, wa
      <4> QED
        BY <3>3, <4>1 DEF Ways, AllOf
    <3>5. w[i][cons] = Branches(st, arm)
      BY <1>2, <2>1, <2>9, TuplesAt
    <3> HIDE DEF a, arm, w, cons, wa
    <3>6. \A k \in Arms(st) : arm[k].tuples \in Nat
      BY <3>1, <3>2
    <3>7. /\ w[i][cons].bounded = AllBounded(st, arm)
          /\ \E s : SumsTo(s, m, st, arm) /\ w[i][cons].tuples = s[m]
      BY <3>1, <3>5, <3>6, BranchesSum
    <3>8. PICK s : SumsTo(s, m, st, arm) /\ w[i][cons].tuples = s[m]
      BY <3>7
    <3>9. \A k \in 0 .. m : Weight(st, arm, k) = wt[k]
      BY <3>1 DEF Weight
    <3>10. ASSUME w[i][cons].bounded
           PROVE  AtMost(wa, w[i][cons].tuples)
      <4>1. \A k \in 0 .. m : arm[k].bounded
        BY <3>1, <3>7, <3>10 DEF AllBounded
      <4>2. \A k \in 0 .. m : wt[k] \in Nat /\ AtMost(a[k], wt[k])
        BY <3>2, <4>1
      <4>3. s[0] = wt[0] /\ \A t \in 1 .. m : s[t] = s[t - 1] + wt[t]
        <5>1. 0 \in 0 .. m /\ \A t \in 1 .. m : t \in 0 .. m
          BY <3>1
        <5> HIDE DEF wt, m
        <5> QED
          BY <5>1, <3>8, <3>9 DEF SumsTo
      <4>4. s \in [0 .. m -> Nat]
        BY <3>8 DEF SumsTo
      <4> HIDE DEF wt, m
      <4>5. AtMost(AllOf(a, m), s[m])
        BY <3>1, <4>2, <4>3, <4>4, ArmsAtMost
      <4> QED
        BY <3>3, <3>8, <4>5
    <3> QED
      BY <3>4, <3>10 DEF Counted, w, cons
  <2>10. CASE st.kind = "foreach"
    <3> DEFINE b == Bodies(r, fam, i, con)
               c == Without(con, st.out)
    <3>1. wa = Rounds(b)[ForeachCap][0]
      BY <2>1, <2>10, WaysAt
    <3>2. b \in [Nat -> Ways] /\ \A x \in Nat : b[x] = fam[nx][c][x]
      <4>1. FamAt(r, fam, NextStep(r.steps, i))
        BY <2>3
      <4>2. AreBodies(b, r, fam, i, con)
        BY <2>1, <4>1, BodiesType
      <4> QED
        BY <4>2 DEF AreBodies
    <3>3. c \in FinCons /\ Sizes(c) = Freed(cons, st.out)
      BY <2>2, WithoutSlot
    <3>4. w[i][cons] = Looped(w[nx][Sizes(c)])
      BY <1>2, <2>1, <2>10, <3>3, TuplesAt
    <3>5. w[nx][Sizes(c)] \in Count /\ w[nx][Sizes(c)].tuples \in Nat
      BY <2>3, <3>3, CountIn
    <3> HIDE DEF b, c, w, cons, wa, nx
    <3>6. wa \in Ways
      <4>1. ForeachCap \in 0 .. ForeachCap
        BY KernelAssumption
      <4> QED
        BY <3>1, <3>2, <4>1, RoundsType
    <3>7. /\ w[i][cons].bounded = w[nx][Sizes(c)].bounded
          /\ w[i][cons].tuples = Geometric(w[nx][Sizes(c)].tuples, ForeachCap)
      BY <3>4, <3>5, CountType
    <3>8. ASSUME w[i][cons].bounded
          PROVE  AtMost(wa, w[i][cons].tuples)
      <4>1. \A x \in Nat : AtMost(b[x], w[nx][Sizes(c)].tuples)
        <5> TAKE x \in Nat
        <5>1. Counted(r, nx, c, fam[nx][c][x])
          BY <2>3, <3>3, FamWays
        <5> QED
          BY <3>2, <3>7, <3>8, <5>1 DEF Counted, w
      <4>2. AtMost(Rounds(b)[ForeachCap][0], Geometric(w[nx][Sizes(c)].tuples, ForeachCap))
        BY <3>2, <3>5, <4>1, RoundsAtMost
      <4> QED
        BY <3>1, <3>7, <4>2
    <3> QED
      BY <3>6, <3>8 DEF Counted, w, cons
  <2> QED
    BY <2>1, <2>4, <2>6, <2>7, <2>8, <2>9, <2>10, KindOf
<1> QED
  BY <1>4, <1>5

\* A family of ways: at each step what goes on from there.
IsFamily(r, fam) ==
  \A i \in 1 .. Len(r.steps) + 1 :
    /\ FamAt(r, fam, i)
    /\ \A con \in FinCons, e \in Nat : fam[i][con][e] = WaysFrom(r, fam, i, con, e)

Family(r) == CHOOSE fam : IsFamily(r, fam)

LEMMA FamilyExists ==
  ASSUME NEW r, Sound(r)
  PROVE  IsFamily(r, Family(r))
<1> DEFINE n == Len(r.steps)
           Good(f, a) == \A i \in a .. n + 1 :
                           /\ FamAt(r, f, i)
                           /\ \A con \in FinCons, e \in Nat : f[i][con][e] = WaysFrom(r, f, i, con, e)
           S == {m \in 0 .. n + 1 : \E f : Good(f, n + 2 - m)}
<1>1. n \in Nat
  BY StepsOf
<1>2. 0 \in S
  <2>1. Good({}, n + 2 - 0)
    BY <1>1
  <2>2. 0 \in 0 .. n + 1
    BY <1>1
  <2> HIDE DEF Good
  <2> QED
    BY <2>1, <2>2
<1>3. ASSUME NEW m \in 0 .. n, m \in S
      PROVE  m + 1 \in S
  <2>1. PICK f : Good(f, n + 2 - m)
    BY <1>3
  <2> DEFINE a == n + 2 - m
             new == [con \in FinCons |-> [e \in Nat |-> WaysFrom(r, f, a - 1, con, e)]]
             g == [i \in a - 1 .. n + 1 |-> IF i = a - 1 THEN new ELSE f[i]]
  <2>2. a \in 2 .. n + 2 /\ a - 1 \in 1 .. n + 1 /\ n + 2 - (m + 1) = a - 1 /\ m + 1 \in 0 .. n + 1
    BY <1>1
  <2>3. Good(f, a)
    BY <2>1
  <2> HIDE DEF a, new
  <2>4. /\ \A i \in a .. n + 1 : f[i] = g[i]
        /\ g[a - 1] = new
    BY <1>1, <2>2
  <2> HIDE DEF g
  <2>5. ASSUME NEW i \in a - 1 .. n + 1, NEW con, NEW e
        PROVE  WaysFrom(r, f, i, con, e) = WaysFrom(r, g, i, con, e)
    <3>1. i \in 1 .. n + 1 /\ \A j \in i + 1 .. n + 1 : j \in a .. n + 1
      BY <1>1, <2>2
    <3>2. Agree(r, f, g, i)
      BY <2>4, <3>1 DEF Agree
    <3> QED
      BY <3>1, <3>2, SameWays
  <2>6. ASSUME NEW con \in FinCons, NEW e \in Nat
        PROVE  /\ WaysFrom(r, f, a - 1, con, e) \in Ways
               /\ Counted(r, a - 1, con, WaysFrom(r, f, a - 1, con, e))
               /\ new[con][e] = WaysFrom(r, f, a - 1, con, e)
    <3>1. \A j \in (a - 1) + 1 .. n + 1 : FamAt(r, f, j)
      BY <1>1, <2>2, <2>3
    <3>2. new[con][e] = WaysFrom(r, f, a - 1, con, e)
      BY DEF new
    <3> QED
      BY <2>2, <3>1, <3>2, WaysCounted
  <2>7. FamAt(r, g, a - 1)
    <3>1. new \in [FinCons -> [Nat -> Ways]]
      BY <2>6 DEF new
    <3> QED
      BY <2>4, <2>6, <3>1 DEF FamAt
  <2>8. ASSUME NEW i \in a - 1 .. n + 1
        PROVE  /\ FamAt(r, g, i)
               /\ \A con \in FinCons, e \in Nat : g[i][con][e] = WaysFrom(r, g, i, con, e)
    <3>1. CASE i = a - 1
      <4>1. \A con \in FinCons, e \in Nat : g[i][con][e] = WaysFrom(r, f, i, con, e)
        BY <2>4, <2>6, <3>1
      <4> QED
        BY <2>5, <2>7, <3>1, <4>1
    <3>2. CASE i # a - 1
      <4>1. i \in a .. n + 1
        BY <1>1, <2>2, <3>2
      <4>2. FamAt(r, f, i) /\ \A con \in FinCons, e \in Nat : f[i][con][e] = WaysFrom(r, f, i, con, e)
        BY <2>3, <4>1
      <4>3. g[i] = f[i]
        BY <2>4, <4>1
      <4>4. FamAt(r, g, i)
        BY <4>2, <4>3 DEF FamAt
      <4> QED
        BY <2>5, <4>2, <4>3, <4>4
    <3> QED
      BY <3>1, <3>2
  <2>9. Good(g, a - 1)
    BY <2>8
  <2> HIDE DEF Good
  <2> QED
    BY <2>2, <2>9
<1>4. \A m \in 0 .. n + 1 : m \in S
  <2> HIDE DEF S
  <2>1. n + 1 \in Nat /\ 0 \in Nat
    BY <1>1
  <2>2. \A m \in 0 .. (n + 1) - 1 : m \in S => m + 1 \in S
    BY <1>1, <1>3
  <2> QED
    BY <1>2, <2>1, <2>2, IntervalInduction
<1>5. \E f : Good(f, 1)
  <2>1. n + 1 \in S
    <3> HIDE DEF S
    <3> QED
      BY <1>1, <1>4
  <2>2. n + 2 - (n + 1) = 1
    BY <1>1
  <2> HIDE DEF Good
  <2> QED
    BY <2>1, <2>2
<1>6. \E fam : IsFamily(r, fam)
  BY <1>5 DEF IsFamily
<1> QED
  BY <1>6, Zenon DEF Family

LEMMA FamilyAt ==
  ASSUME NEW r, Sound(r), NEW i \in 1 .. Len(r.steps) + 1, NEW con \in FinCons, NEW e \in Nat
  PROVE  /\ FamAt(r, Family(r), i)
         /\ Family(r)[i][con][e] = WaysFrom(r, Family(r), i, con, e)
         /\ Counted(r, i, con, Family(r)[i][con][e])
<1> DEFINE fam == Family(r)
<1>1. IsFamily(r, fam)
  BY FamilyExists
<1> HIDE DEF fam
<1>2. FamAt(r, fam, i) /\ fam[i][con][e] = WaysFrom(r, fam, i, con, e)
  BY <1>1 DEF IsFamily
<1>3. Counted(r, i, con, fam[i][con][e])
  BY <1>2, FamWays
<1> QED
  BY <1>2, <1>3 DEF fam

\* Nothing is known when a call begins.
Nothing == [x \in {} |-> {}]

\* The ways of a whole call.
Goal(r) == Family(r)[1][Nothing][0]

LEMMA NothingFacts ==
  /\ Nothing \in FinCons /\ DOMAIN Nothing = {}
  /\ Sizes(Nothing) = [x \in Names |-> -1]
<1>1. DOMAIN Nothing = {}
  BY DEF Nothing
<1>2. Nothing \in [{} -> SUBSET Values]
  BY DEF Nothing
<1>3. {} \in SUBSET Names /\ \A x \in {} : IsFiniteSet(Nothing[x])
  OBVIOUS
<1>4. Nothing \in FinCons
  BY <1>2, <1>3, InFinCons
<1> QED
  BY <1>1, <1>4 DEF Sizes

LEMMA GoalAtMost ==
  ASSUME NEW r, Sound(r), Leakage(r).bounded
  PROVE  Leakage(r).tuples \in Nat /\ AtMost(Goal(r), Leakage(r).tuples)
<1>1. 1 \in 1 .. Len(r.steps) + 1 /\ 0 \in Nat
  BY StepsOf
<1>2. Counted(r, 1, Nothing, Goal(r))
  BY <1>1, FamilyAt, NothingFacts DEF Goal
<1>3. Leakage(r) = Counts(r)[1][Sizes(Nothing)]
  BY NothingFacts DEF Leakage
<1>4. Counts(r)[1][Sizes(Nothing)].tuples \in Nat
  BY <1>1, CountIn, NothingFacts
<1> QED
  BY <1>2, <1>3, <1>4 DEF Counted

-----------------------------------------------------------------------------
(* What a call does, against the ways.                                     *)

\* The slots that are filled before step j.
Earlier(r, j) ==
  {r.steps[i].out : i \in {k \in 1 .. j - 1 : Produces(r.steps[k])}} \cup Ingredients(r)

\* A slot has one producer, which comes before its consumers.
LEMMA EarlierFacts ==
  ASSUME NEW r, Sound(r), NEW j \in DOMAIN r.steps
  PROVE  /\ Produces(r.steps[j]) => r.steps[j].out \notin Earlier(r, j)
         /\ Consumes(r.steps[j]) => r.steps[j].in \in Earlier(r, j)
         /\ \A k \in j .. Len(r.steps) + 1 : Earlier(r, j) \subseteq Earlier(r, k)
         /\ Ingredients(r) \subseteq Earlier(r, j)
<1>1. SlotsDeclared(r)
  BY DEF Sound, Linted
<1>2. /\ Produces(r.steps[j]) => r.steps[j].out \notin Earlier(r, j)
      /\ Consumes(r.steps[j]) => r.steps[j].in \in Earlier(r, j)
  BY <1>1 DEF SlotsDeclared, Earlier
<1>3. Len(r.steps) \in Nat /\ j \in 1 .. Len(r.steps)
  BY StepsOf
<1>4. ASSUME NEW k \in j .. Len(r.steps) + 1
      PROVE  Earlier(r, j) \subseteq Earlier(r, k)
  <2>1. \A i \in 1 .. j - 1 : i \in 1 .. k - 1
    BY <1>3
  <2> QED
    BY <2>1 DEF Earlier
<1>5. Ingredients(r) \subseteq Earlier(r, j)
  BY DEF Earlier
<1> QED
  BY <1>2, <1>4, <1>5

\* Nothing in what step v saw stops the call.
Clear(v) == ~FailsGate(v) /\ (Crosses(v) => Releases(Steps[v.step].rule, v.slot.value))

AllClear(p) == \A v \in visits : v.pick = p => Clear(v)

\* What is known when the walk is at step j, and is so.
Known(con, j) ==
  /\ con \in FinCons
  /\ \A x \in DOMAIN con : slots[x].value \in con[x]
  /\ DOMAIN con \subseteq Earlier(recipe, j)

\* The ways of the elements that are left, if base was known at the loop.
Left(base) == Rounds(Bodies(recipe, Family(recipe), loop, base))[ForeachCap - elem - 1][elem + 1]

\* The ways on from where the walk is.
Ahead(con) == IF at = 0 THEN Ended ELSE Family(recipe)[at][con][elem]

\* However this walk goes on, what crosses in it is one of the ways of the call.
OnTrack ==
  \E con, rest :
    /\ {} \in rest
    /\ at # 0 => Known(con, at)
    /\ MoreElements => \E base : Known(base, loop) /\ rest = Left(base)
    /\ \A t \in Ahead(con), g \in rest : Crossed(pick) \cup t \cup g \in Goal(recipe)

\* The ingredients stay, and no other slot is authoritative.
Kept ==
  \A x \in Names :
    /\ x \in Ingredients(recipe) => slots[x] = recipe.ingredients[x]
    /\ slots[x].class = "authoritative" => x \in Ingredients(recipe)

ChoiceInv ==
  /\ recipe \in Recipes
  /\ phase = "walk" => pick \in todo
  /\ Linted(recipe) /\ fault = "none" =>
       /\ phase = "decided" => todo = {}
       /\ phase = "walk" => Kept
       /\ phase = "walk" /\ loop # 0 => Len(items) <= ForeachCap
       /\ phase = "walk" /\ AllClear(pick) => OnTrack
       /\ \A p \in Picks(call) \ todo : AllClear(p) => Crossed(p) \in Goal(recipe)

LEMMA SoundNow ==
  ASSUME TypeOK, ChoiceInv, Linted(recipe)
  PROVE  Sound(recipe) /\ Steps = recipe.steps
<1>1. recipe \in Recipe /\ recipe \in Recipes
  BY DEF TypeOK, ChoiceInv
<1>2. \A i \in DOMAIN recipe.steps :
        /\ \A R \in recipe.steps[i].rule : IsFiniteSet(R)
        /\ \A k \in DOMAIN recipe.steps[i].cases :
             \A R \in recipe.steps[i].cases[k].rule : IsFiniteSet(R)
  BY <1>1, LeakageAssumption
<1> QED
  BY <1>1, <1>2 DEF Sound, Steps

\* What crosses at the step the walk is at.
Now == IF Here.kind = "sink" THEN {<<elem, at, Subject.value>>} ELSE {}

LEMMA CrossedStep ==
  ASSUME TypeInv, StepTaken
  PROVE  /\ Crossed(pick)' = Crossed(pick) \cup Now
         /\ \A p : p # pick => Crossed(p)' = Crossed(p)
         /\ \A p : AllClear(p)' => AllClear(p)
         /\ AllClear(pick)' => Clear(Visit)
<1>1. visits' = visits \cup {Visit} /\ Steps' = Steps /\ pick' = pick
  BY StepFacts
<1>2. Visit.pick = pick /\ Visit.elem = elem /\ Visit.step = at /\ Visit.slot = Subject
  BY DEF Visit
<1>3. \A v : Clear(v)' <=> Clear(v)
  BY <1>1 DEF Clear, FailsGate, Crosses
<1>4. \A p : AllClear(p)' => AllClear(p)
  BY <1>1, <1>3 DEF AllClear
<1>5. AllClear(pick)' => Clear(Visit)
  BY <1>1, <1>2, <1>3 DEF AllClear
<1>6. ASSUME NEW p, p # pick
      PROVE  Crossed(p)' = Crossed(p)
  BY <1>1, <1>2, <1>6 DEF Crossed
<1>7. Crossed(pick)' = Crossed(pick) \cup Now
  <2>1. Crossed(pick)' = {<<v.elem, v.step, v.slot.value>> :
                            v \in {w \in visits \cup {Visit} : w.pick = pick /\ Steps[w.step].kind = "sink"}}
    BY <1>1 DEF Crossed
  <2>2. CASE Here.kind = "sink"
    <3>1. {w \in visits \cup {Visit} : w.pick = pick /\ Steps[w.step].kind = "sink"}
            = {w \in visits : w.pick = pick /\ Steps[w.step].kind = "sink"} \cup {Visit}
      BY <1>2, <2>2 DEF Here
    <3> QED
      BY <1>2, <2>1, <2>2, <3>1 DEF Crossed, Now
  <2>3. CASE Here.kind # "sink"
    <3>1. {w \in visits \cup {Visit} : w.pick = pick /\ Steps[w.step].kind = "sink"}
            = {w \in visits : w.pick = pick /\ Steps[w.step].kind = "sink"}
      BY <1>2, <2>3 DEF Here
    <3> QED
      BY <2>1, <2>3, <3>1 DEF Crossed, Now
  <2> QED
    BY <2>2, <2>3
<1> QED
  BY <1>4, <1>5, <1>6, <1>7

\* What is so of every step of a linted recipe.
Going ==
  /\ TypeInv /\ FlowInv /\ ChoiceInv /\ Linted(recipe) /\ StepTaken
  /\ fault = "none" /\ fault' = "none"

LEMMA GoingFacts ==
  ASSUME Going
  PROVE  /\ Sound(recipe) /\ Steps = recipe.steps /\ recipe' = recipe /\ Len(Steps) \in Nat
         /\ at \in DOMAIN Steps /\ at \in 1 .. Len(Steps) /\ at \in 1 .. Len(Steps) + 1
         /\ phase = "walk" /\ elem' = elem /\ elem \in Nat
         /\ Here = recipe.steps[at] /\ Here.in \in Names /\ Here.out \in Names
         /\ Subject \in Slot /\ slots \in [Names -> Slot]
         /\ CanHop(Steps, at, Here.goto) /\ StepOK(Here)
         /\ NextStep(recipe.steps, at) = Landing(at, Here.goto)
         /\ Landing(at, Here.goto) \in at + 1 .. Len(Steps) + 1
<1>1. TypeOK /\ Linted(recipe) /\ ChoiceInv
  BY DEF Going, TypeInv
<1>2. at \in DOMAIN Steps /\ phase = "walk" /\ elem' = elem /\ recipe' = recipe
  BY StepFacts DEF Going
<1>3. Sound(recipe) /\ Steps = recipe.steps
  BY <1>1, SoundNow
<1>4. Here \in Step /\ Subject \in Slot /\ at \in 1 .. Len(Steps) /\ Len(Steps) \in Nat
  BY <1>1, <1>2, Taken
<1>5. Here.in \in Names /\ Here.out \in Names
  BY <1>4 DEF Step
<1>6. CanHop(Steps, at, Here.goto) /\ StepOK(Here)
  BY <1>1, <1>2, LintOfStep DEF Here
<1>7. Here = recipe.steps[at]
  BY <1>3 DEF Here
<1>8. /\ NextStep(recipe.steps, at) = Landing(at, Here.goto)
      /\ NextStep(recipe.steps, at) \in at + 1 .. Len(Steps) + 1
  BY <1>2, <1>3, <1>7, NextOf
<1>9. elem \in Nat /\ slots \in [Names -> Slot]
  BY <1>1 DEF TypeOK
<1> QED
  BY <1>2, <1>3, <1>4, <1>5, <1>6, <1>7, <1>8, <1>9

\* A step changes only the slot it produces.
LEMMA OnlyProduced ==
  ASSUME Going
  PROVE  /\ \A x \in Names :
              slots'[x] = slots[x] \/ (Produces(Here) /\ x = Here.out /\ slots'[x].class = "untrusted")
         /\ \A x \in Earlier(recipe, at) : slots'[x] = slots[x]
<1>1. slots \in [Names -> Slot] /\ Here.out \in Names
  BY GoingFacts
<1>2. \A v : Untrusted(v).class = "untrusted"
  BY DEF Untrusted
<1>3. \/ slots' = slots
      \/ Produces(Here) /\ \E v : slots' = [slots EXCEPT ![Here.out] = Untrusted(v)]
  <2>1. StepTaken
    BY DEF Going
  <2>2. CASE Propose
    BY <2>2 DEF Propose, Taking, Produces
  <2>3. CASE Foreach
    BY <2>3 DEF Foreach, Taking, Produces
  <2>4. CASE RefuseForeach
    BY <2>4 DEF RefuseForeach
  <2>5. CASE Sink \/ GatePasses \/ GateFails \/ Branch \/ Exit
    BY <2>5 DEF Sink, GatePasses, GateFails, Branch, Exit
  <2> QED
    BY <2>1, <2>2, <2>3, <2>4, <2>5 DEF StepTaken
<1>4. \A x \in Names :
        slots'[x] = slots[x] \/ (Produces(Here) /\ x = Here.out /\ slots'[x].class = "untrusted")
  <2>1. CASE slots' = slots
    BY <2>1
  <2>2. ASSUME Produces(Here), NEW v, slots' = [slots EXCEPT ![Here.out] = Untrusted(v)]
        PROVE  \A x \in Names : slots'[x] = slots[x] \/ (x = Here.out /\ slots'[x].class = "untrusted")
    BY <1>1, <1>2, <2>2
  <2> QED
    BY <1>3, <2>1, <2>2
<1>5. Produces(Here) => Here.out \notin Earlier(recipe, at)
  BY GoingFacts, EarlierFacts
<1>6. Earlier(recipe, at) \subseteq Names
  <2>1. Sound(recipe) /\ DOMAIN recipe.steps = 1 .. Len(recipe.steps) /\ Len(recipe.steps) \in Nat
        /\ at \in 1 .. Len(recipe.steps)
    BY GoingFacts, StepsOf
  <2>2. \A i \in 1 .. at - 1 : i \in DOMAIN recipe.steps
    BY <2>1
  <2>3. \A i \in 1 .. at - 1 : recipe.steps[i].out \in Names
    BY <2>1, <2>2, StepOf
  <2> QED
    BY <2>3 DEF Earlier, Ingredients
<1> QED
  BY <1>4, <1>5, <1>6

\* What was known before step j is known after the step the walk takes, which is
\* j or a later one.
LEMMA KnownStays ==
  ASSUME Going, NEW j \in 1 .. at, NEW base, Known(base, j)
  PROVE  Known(base, j)'
<1>1. j \in DOMAIN recipe.steps /\ at \in j .. Len(recipe.steps) + 1
  BY GoingFacts, StepsOf
<1>2. Earlier(recipe, j) \subseteq Earlier(recipe, at)
  BY <1>1, GoingFacts, EarlierFacts
<1>3. \A x \in DOMAIN base : slots'[x] = slots[x]
  BY <1>2, OnlyProduced DEF Known
<1> QED
  BY <1>3, GoingFacts DEF Known

\* The ingredients stay.
LEMMA KeptStays ==
  ASSUME Going
  PROVE  Kept'
<1>1. Kept
  BY GoingFacts DEF Going, ChoiceInv
<1>2. \A x \in Ingredients(recipe) : slots'[x] = slots[x]
  BY GoingFacts, EarlierFacts, OnlyProduced
<1>3. \A x \in Names : slots'[x] = slots[x] \/ slots'[x].class = "untrusted"
  BY OnlyProduced
<1> QED
  BY <1>1, <1>2, <1>3, GoingFacts DEF Kept

\* The walk goes on to one of the ways that were ahead.
WayOn(con) ==
  \E c : /\ at' # 0 => Known(c, at)'
         /\ \A t \in Ahead(c)' : Now \cup t \in Ahead(con)

\* Where a walk goes on, the ways are those of the family.
LEMMA AheadThere ==
  ASSUME Going, at' # 0, NEW c
  PROVE  Ahead(c)' = Family(recipe)[at'][c][elem]
BY GoingFacts DEF Ahead

LEMMA AheadHere ==
  ASSUME Going, NEW con \in FinCons
  PROVE  Ahead(con) = WaysFrom(recipe, Family(recipe), at, con, elem)
<1>1. at # 0
  BY GoingFacts
<1>2. Ahead(con) = Family(recipe)[at][con][elem]
  BY <1>1 DEF Ahead
<1> QED
  BY <1>2, GoingFacts, FamilyAt

\* It is enough to know c where the walk goes.
LEMMA WayOnTo ==
  ASSUME Going, NEW con, NEW c \in FinCons, at' \in at + 1 .. Len(Steps) + 1,
         \A x \in DOMAIN c : slots'[x].value \in c[x],
         DOMAIN c \subseteq Earlier(recipe, at'),
         \A t \in Family(recipe)[at'][c][elem] : Now \cup t \in Ahead(con)
  PROVE  WayOn(con)
<1>1. at' # 0
  BY GoingFacts
<1>2. Known(c, at)'
  BY GoingFacts DEF Known
<1>3. \A t \in Ahead(c)' : Now \cup t \in Ahead(con)
  BY <1>1, AheadThere
<1> QED
  BY <1>2, <1>3 DEF WayOn

LEMMA NoCrossing ==
  ASSUME Here.kind # "sink"
  PROVE  \A t : Now \cup t = t
BY DEF Now

LEMMA ProposeGoesOn ==
  ASSUME Going, Propose, NEW con, Known(con, at)
  PROVE  WayOn(con)
<1> DEFINE c == Without(con, Here.out)
<1>1. Here.kind = "propose" /\ at' = Landing(at, Here.goto)
  BY GoingFacts DEF Propose, Taking, Follow
<1>2. con \in FinCons /\ \A x \in DOMAIN con : slots[x].value \in con[x]
  BY DEF Known
<1>3. c \in FinCons /\ DOMAIN c = DOMAIN con \ {Here.out} /\ \A x \in DOMAIN c : c[x] = con[x]
  BY <1>2, GoingFacts, WithoutSlot
<1>4. Ahead(con) = Family(recipe)[at'][c][elem]
  BY <1>1, <1>2, AheadHere, WaysAt, GoingFacts
<1>5. \A x \in DOMAIN con : slots'[x] = slots[x]
  BY OnlyProduced DEF Known
<1>6. DOMAIN con \subseteq Earlier(recipe, at')
  BY <1>1, GoingFacts, EarlierFacts DEF Known
<1>7. at' \in at + 1 .. Len(Steps) + 1
  BY <1>1, GoingFacts
<1>8. \A t : Now \cup t = t
  BY <1>1, NoCrossing
<1> HIDE DEF c
<1>9. \A x \in DOMAIN c : slots'[x].value \in c[x]
  BY <1>2, <1>3, <1>5
<1>10. DOMAIN c \subseteq Earlier(recipe, at')
  BY <1>3, <1>6
<1>11. \A t \in Family(recipe)[at'][c][elem] : Now \cup t \in Ahead(con)
  BY <1>4, <1>8
<1> QED
  BY <1>3, <1>7, <1>9, <1>10, <1>11, WayOnTo

\* A rule that released the value of a slot says what it may be.
LEMMA LearnedGoesOn ==
  ASSUME Going, NEW con, Known(con, at), NEW rule, Countable(rule),
         rule = {} \/ Releases(rule, Subject.value),
         slots' = slots, Consumes(Here), Here.kind # "sink", at' \in at + 1 .. Len(Steps) + 1,
         Family(recipe)[at'][With(con, Here.in, rule)][elem] \subseteq Ahead(con)
  PROVE  WayOn(con)
<1> DEFINE c == With(con, Here.in, rule)
<1>1. con \in FinCons /\ Here.in \in Names
  BY GoingFacts DEF Known
<1>2. /\ c \in FinCons /\ DOMAIN c \subseteq DOMAIN con \cup {Here.in}
      /\ \A x \in DOMAIN c : IF rule # {} /\ x = Here.in THEN c[x] = UNION rule
                             ELSE x \in DOMAIN con /\ c[x] = con[x]
  BY <1>1, WithRule
<1>3. rule # {} => Subject.value \in UNION rule
  BY RuleFacts
<1>4. Subject = slots[Here.in]
  BY DEF Subject
<1> HIDE DEF c
<1>5. \A x \in DOMAIN c : slots'[x].value \in c[x]
  BY <1>2, <1>3, <1>4 DEF Known
<1>6. DOMAIN c \subseteq Earlier(recipe, at)
  BY <1>2, GoingFacts, EarlierFacts DEF Known
<1>7. Earlier(recipe, at) \subseteq Earlier(recipe, at')
  BY GoingFacts, EarlierFacts
<1>8. \A t \in Family(recipe)[at'][c][elem] : Now \cup t \in Ahead(con)
  BY NoCrossing DEF c
<1> QED
  BY <1>2, <1>5, <1>6, <1>7, <1>8, WayOnTo

LEMMA GateGoesOn ==
  ASSUME Going, GatePasses, NEW con, Known(con, at)
  PROVE  WayOn(con)
<1>1. Here.kind = "gate" /\ at' = Landing(at, Here.goto) /\ slots' = slots
  BY GoingFacts DEF GatePasses, Taking, Follow
<1>2. Releases(Here.rule, Subject.value) /\ Countable(Here.rule)
  BY GoingFacts, StepOf DEF GatePasses, Released
<1>3. Consumes(Here) /\ Here.kind # "sink"
  BY <1>1 DEF Consumes
<1>4. at' \in at + 1 .. Len(Steps) + 1
  BY <1>1, GoingFacts
<1>5. con \in FinCons
  BY DEF Known
<1>6. Ahead(con) = Family(recipe)[at'][With(con, Here.in, Here.rule)][elem]
  BY <1>1, <1>5, AheadHere, WaysAt, GoingFacts
<1>7. Family(recipe)[at'][With(con, Here.in, Here.rule)][elem] \subseteq Ahead(con)
  BY <1>6
<1> QED
  BY <1>1, <1>2, <1>3, <1>4, <1>7, LearnedGoesOn

\* A branch takes one of its arms.
LEMMA BranchArm ==
  ASSUME Going, Branch
  PROVE  \E k \in 0 .. Len(Here.cases) :
           /\ at' = ArmStep(Here, k)
           /\ ArmRule(Here, k) = {} \/ Releases(ArmRule(Here, k), Subject.value)
<1> DEFINE hits  == {k \in DOMAIN Here.cases : Releases(Here.cases[k].rule, Subject.value)}
           first == {k \in hits : \A j \in hits : k <= j}
           k0 == CHOOSE k \in first : TRUE
<1>1. at' = BranchTarget
  BY DEF Going, Branch, Fault
<1>2. Len(Here.cases) \in Nat /\ DOMAIN Here.cases = 1 .. Len(Here.cases)
  BY GoingFacts, StepOf
<1>3. CASE first = {}
  <2>1. at' = ArmStep(Here, 0) /\ ArmRule(Here, 0) = {}
    BY <1>1, <1>3 DEF BranchTarget, ArmStep, ArmRule
  <2> QED
    BY <1>2, <2>1
<1>4. CASE first # {}
  <2>1. at' = Here.cases[k0].goto
    BY <1>1, <1>4 DEF BranchTarget
  <2>2. k0 \in DOMAIN Here.cases /\ Releases(Here.cases[k0].rule, Subject.value)
    BY <1>4
  <2> HIDE DEF k0, hits, first
  <2>3. k0 \in 0 .. Len(Here.cases) /\ k0 # 0
    BY <1>2, <2>2
  <2>4. at' = ArmStep(Here, k0) /\ ArmRule(Here, k0) = Here.cases[k0].rule
    BY <2>1, <2>3 DEF ArmStep, ArmRule
  <2> QED
    BY <2>2, <2>3, <2>4
<1> QED
  BY <1>3, <1>4

LEMMA BranchGoesOn ==
  ASSUME Going, Branch, NEW con, Known(con, at)
  PROVE  WayOn(con)
<1>1. Here.kind = "branch" /\ slots' = slots
  BY DEF Branch, Taking
<1>2. PICK k \in 0 .. Len(Here.cases) :
        /\ at' = ArmStep(Here, k)
        /\ ArmRule(Here, k) = {} \/ Releases(ArmRule(Here, k), Subject.value)
  BY BranchArm
<1>3. ArmStep(Here, k) \in at + 1 .. Len(Steps) + 1 /\ Countable(ArmRule(Here, k))
  BY <1>1, GoingFacts, ArmsOf
<1>4. con \in FinCons
  BY DEF Known
<1>5. Ahead(con) = AllArms(recipe, Family(recipe), at, con, elem)
  BY <1>1, <1>4, AheadHere, WaysAt, GoingFacts
<1>6. ArmWays(recipe, Family(recipe), at, con, elem, k) \subseteq Ahead(con)
  BY <1>5, GoingFacts DEF AllArms
<1>7. Family(recipe)[at'][With(con, Here.in, ArmRule(Here, k))][elem] \subseteq Ahead(con)
  BY <1>2, <1>6, GoingFacts DEF ArmWays
<1>8. Consumes(Here) /\ Here.kind # "sink"
  BY <1>1 DEF Consumes
<1> QED
  BY <1>1, <1>2, <1>3, <1>7, <1>8, LearnedGoesOn

\* What shows at a sink that nothing stops is counted there.
LEMMA ShownNow ==
  ASSUME Going, Here.kind = "sink", Clear(Visit), NEW con, Known(con, at)
  PROVE  Subject.value \in Shown(recipe, at, con)
<1>1. /\ Sound(recipe) /\ Here = recipe.steps[at] /\ Here.in \in Names /\ StepOK(Here)
      /\ Subject = slots[Here.in] /\ Subject \in Slot /\ slots \in [Names -> Slot]
      /\ Here \in Step
  BY GoingFacts, StepOf DEF Subject
<1>2. Kept
  BY GoingFacts DEF Going, ChoiceInv
<1>3. Crosses(Visit) => Releases(Here.rule, Subject.value)
  BY DEF Clear, Visit, Here
<1>4. CASE Here.rule # {}
  <2>1. Here.authoritative
    BY <1>1, <1>4 DEF StepOK, Step
  <2>2. CASE recipe.ingredients[Here.in].class = "authoritative"
    <3>1. Here.in \in Ingredients(recipe)
      BY <1>1, <2>2 DEF Ingredients, Present
    <3>2. Subject = recipe.ingredients[Here.in]
      BY <1>1, <1>2, <3>1 DEF Kept
    <3> QED
      BY <1>1, <1>4, <2>2, <3>2 DEF Shown
  <2>3. CASE recipe.ingredients[Here.in].class # "authoritative"
    <3>1. Subject.class # "authoritative"
      BY <1>1, <1>2, <2>3 DEF Kept
    <3>2. Releases(Here.rule, Subject.value)
      BY <1>3, <2>1, <3>1 DEF Crosses, Visit, Here
    <3>3. Subject.value \in UNION Here.rule
      BY <3>2 DEF Releases
    <3> QED
      BY <1>1, <1>4, <2>3, <3>3 DEF Shown
  <2> QED
    BY <2>2, <2>3
<1>5. CASE Here.rule = {}
  <2>1. Subject.value \in Values
    BY <1>1 DEF Slot
  <2> QED
    BY <1>1, <1>5, <2>1 DEF Shown, Known
<1> QED
  BY <1>4, <1>5

LEMMA SinkGoesOn ==
  ASSUME Going, Sink, Clear(Visit), NEW con, Known(con, at)
  PROVE  WayOn(con)
<1> DEFINE A == Shown(recipe, at, con)
           F == Family(recipe)[at'][con][elem]
<1>1. Here.kind = "sink" /\ at' = Landing(at, Here.goto) /\ slots' = slots
  BY GoingFacts DEF Sink, Taking, Follow
<1>2. con \in FinCons /\ \A x \in DOMAIN con : slots'[x].value \in con[x]
  BY <1>1 DEF Known
<1>3. Subject.value \in A
  BY <1>1, ShownNow
<1>4. Ahead(con) = Pairwise(Singles(A, elem, at), F)
  BY <1>1, <1>2, AheadHere, WaysAt, GoingFacts
<1>5. Now \in Singles(A, elem, at)
  BY <1>1, <1>3 DEF Now, Singles
<1>6. at' \in at + 1 .. Len(Steps) + 1
  BY <1>1, GoingFacts
<1>7. DOMAIN con \subseteq Earlier(recipe, at')
  BY <1>6, GoingFacts, EarlierFacts DEF Known
<1> HIDE DEF A, F
<1>8. \A t \in F : Now \cup t \in Ahead(con)
  BY <1>4, <1>5, InPairwise
<1>9. \A t \in Family(recipe)[at'][con][elem] : Now \cup t \in Ahead(con)
  BY <1>8 DEF F
<1> QED
  BY <1>2, <1>6, <1>7, <1>9, WayOnTo

LEMMA ExitGoesOn ==
  ASSUME Going, Exit, NEW con, Known(con, at)
  PROVE  WayOn(con)
<1>1. Here.kind = "exit" /\ at' = 0
  BY DEF Exit, Taking, Halt
<1>2. con \in FinCons
  BY DEF Known
<1>3. Ahead(con) = Ended
  BY <1>1, <1>2, AheadHere, WaysAt, GoingFacts
<1>4. Ahead(con)' = Ended
  BY <1>1 DEF Ahead
<1>5. \A t : Now \cup t = t
  BY <1>1, NoCrossing
<1> QED
  BY <1>1, <1>3, <1>4, <1>5 DEF WayOn

-----------------------------------------------------------------------------
(* Every step of a walk keeps to the ways.                                 *)

\* A step that does not begin a loop.
LEMMA StepOnTrack ==
  ASSUME Going, ~Foreach, OnTrack, Clear(Visit)
  PROVE  OnTrack'
<1>1. PICK con, rest :
        /\ {} \in rest
        /\ at # 0 => Known(con, at)
        /\ MoreElements => \E base : Known(base, loop) /\ rest = Left(base)
        /\ \A t \in Ahead(con), g \in rest : Crossed(pick) \cup t \cup g \in Goal(recipe)
  BY DEF OnTrack
<1>2. Known(con, at)
  BY <1>1, GoingFacts
<1>3. WayOn(con)
  <2>1. StepTaken
    BY DEF Going
  <2>2. CASE GateFails
    <3>1. FailsGate(Visit)
      BY <2>2 DEF GateFails, Taking, FailsGate, Released, Visit, Here
    <3> QED
      BY <3>1 DEF Clear
  <2>3. CASE RefuseForeach
    BY <2>3 DEF RefuseForeach, Fault, Going
  <2> QED
    BY <1>2, <2>1, <2>2, <2>3, ProposeGoesOn, GateGoesOn, BranchGoesOn, SinkGoesOn, ExitGoesOn
       DEF StepTaken
<1>4. PICK c : /\ at' # 0 => Known(c, at)'
               /\ \A t \in Ahead(c)' : Now \cup t \in Ahead(con)
  BY <1>3 DEF WayOn
<1>5. loop' = loop /\ items' = items /\ elem' = elem /\ pick' = pick /\ recipe' = recipe
  <2>1. loopVars' = loopVars
    BY DEF Going, StepTaken, Propose, Sink, GatePasses, GateFails, Branch, Exit, RefuseForeach
  <2> QED
    BY <2>1, StepFacts DEF loopVars, Going
<1>6. ASSUME MoreElements'
      PROVE  \E base : Known(base, loop)' /\ rest = Left(base)'
  <2>1. MoreElements
    BY <1>5, <1>6 DEF MoreElements
  <2>2. PICK base : Known(base, loop) /\ rest = Left(base)
    BY <1>1, <2>1
  <2>3. loop \in 1 .. at
    <3>1. loop # 0 /\ loop \in 0 .. Len(Steps)
      BY <2>1 DEF MoreElements, Going, TypeInv, TypeOK
    <3>2. at > loop
      BY <3>1, GoingFacts DEF Going, FlowInv
    <3> QED
      BY <3>1, <3>2, GoingFacts
  <2>4. Known(base, loop)'
    <3>1. PICK i : i = loop
      OBVIOUS
    <3>2. Known(base, i)'
      BY <2>2, <2>3, <3>1, KnownStays
    <3> QED
      BY <1>5, <3>1, <3>2 DEF Known
  <2>5. Left(base)' = Left(base)
    BY <1>5 DEF Left
  <2> QED
    BY <2>2, <2>4, <2>5
<1>7. ASSUME NEW t \in Ahead(c)', NEW g \in rest
      PROVE  Crossed(pick)' \cup t \cup g \in Goal(recipe)
  <2>1. Crossed(pick)' = Crossed(pick) \cup Now
    BY CrossedStep DEF Going
  <2>2. Crossed(pick) \cup (Now \cup t) \cup g \in Goal(recipe)
    BY <1>1, <1>4
  <2>3. (Crossed(pick) \cup Now) \cup t \cup g = Crossed(pick) \cup (Now \cup t) \cup g
    OBVIOUS
  <2> QED
    BY <2>1, <2>2, <2>3
<1> QED
  BY <1>1, <1>4, <1>5, <1>6, <1>7 DEF OnTrack

LEMMA RoundsFacts ==
  ASSUME NEW bodies \in [Nat -> Ways], NEW e \in Nat
  PROVE  /\ \A t \in 0 .. ForeachCap : {} \in Rounds(bodies)[t][e]
         /\ \A t \in 1 .. ForeachCap : \A a \in bodies[e], g \in Rounds(bodies)[t - 1][e + 1] :
              a \cup g \in Rounds(bodies)[t][e]
<1> DEFINE r == Rounds(bodies)
<1>1. IsRounds(r, bodies)
  BY RoundsExist
<1> HIDE DEF r
<1>2. \A t \in 1 .. ForeachCap : r[t][e] = {{}} \cup Pairwise(bodies[e], r[t - 1][e + 1])
  BY <1>1 DEF IsRounds
<1>3. r[0][e] = {{}}
  BY <1>1 DEF IsRounds
<1>4. ASSUME NEW t \in 0 .. ForeachCap
      PROVE  {} \in r[t][e]
  <2>1. CASE t = 0
    BY <1>3, <2>1
  <2>2. CASE t # 0
    <3>1. t \in 1 .. ForeachCap
      BY <2>2, KernelAssumption
    <3>2. r[t][e] = {{}} \cup Pairwise(bodies[e], r[t - 1][e + 1])
      BY <1>2, <3>1
    <3> QED
      BY <3>2
  <2> QED
    BY <2>1, <2>2
<1>5. ASSUME NEW t \in 1 .. ForeachCap, NEW a \in bodies[e], NEW g \in r[t - 1][e + 1]
      PROVE  a \cup g \in r[t][e]
  <2>1. a \cup g \in Pairwise(bodies[e], r[t - 1][e + 1])
    BY InPairwise
  <2> QED
    BY <1>2, <2>1
<1> QED
  BY <1>4, <1>5 DEF r

\* A loop begins with one way of its body and goes on with those of the elements
\* that are left.
LEMMA ForeachOnTrack ==
  ASSUME Going, Foreach, OnTrack
  PROVE  OnTrack' /\ Len(items') <= ForeachCap
<1>1. PICK con, rest :
        /\ {} \in rest
        /\ at # 0 => Known(con, at)
        /\ \A t \in Ahead(con), g \in rest : Crossed(pick) \cup t \cup g \in Goal(recipe)
  BY DEF OnTrack
<1>0. PICK c : c = Without(con, Here.out)
  OBVIOUS
<1> DEFINE b == Bodies(recipe, Family(recipe), at, con)
           nx == Landing(at, Here.goto)
<1>2. Known(con, at) /\ con \in FinCons
  BY <1>1, GoingFacts DEF Known
<1>3. /\ Here.kind = "foreach" /\ loop = 0 /\ loop' = at /\ elem' = 0
      /\ Len(items') <= ForeachCap /\ items' \in Seq(Values) /\ Len(items') \in Nat
  <2>1. /\ Here.kind = "foreach" /\ ForeachTrouble = "none" /\ loop' = at /\ elem' = 0
        /\ items' = Elements[Subject.value]
    BY DEF Foreach, Taking
  <2>2. /\ loop = 0 /\ Subject.value \in DOMAIN Elements
        /\ ~(Len(Elements[Subject.value]) > ForeachCap)
    BY <2>1 DEF ForeachTrouble
  <2>3. items' \in Seq(Values) /\ ForeachCap \in Nat
    BY <2>1, <2>2, KernelAssumption
  <2>4. Len(items') \in Nat
    BY <2>3
  <2>5. Len(items') <= ForeachCap
    BY <2>1, <2>2, <2>3, <2>4
  <2> QED
    BY <2>1, <2>2, <2>3, <2>4, <2>5
<1>4. elem = 0 /\ at # 0 /\ elem' = elem
  BY <1>3, GoingFacts DEF Going, TypeInv, LoopInv
<1>5. Ahead(con) = Rounds(b)[ForeachCap][0]
  BY <1>2, <1>3, AheadHere, WaysAt, GoingFacts
<1>6. \A t \in Rounds(b)[ForeachCap][0] : Crossed(pick) \cup t \in Goal(recipe)
  <2> HIDE DEF b
  <2>1. \A t : Crossed(pick) \cup t \cup {} = Crossed(pick) \cup t
    OBVIOUS
  <2> QED
    BY <1>1, <1>5, <2>1
<1>7. c \in FinCons /\ DOMAIN c = DOMAIN con \ {Here.out} /\ \A x \in DOMAIN c : c[x] = con[x]
  BY <1>2, <1>0, GoingFacts, WithoutSlot
<1>8. nx \in at + 1 .. Len(Steps) + 1 /\ nx \in 1 .. Len(Steps) + 1
  BY GoingFacts
<1>9. b \in [Nat -> Ways] /\ b[0] = Family(recipe)[nx][c][0]
  <2>1. FamAt(recipe, Family(recipe), nx)
    BY <1>2, <1>8, FamilyAt, GoingFacts
  <2>2. AreBodies(b, recipe, Family(recipe), at, con)
    BY <1>2, <2>1, BodiesType, GoingFacts
  <2> HIDE DEF b
  <2> QED
    BY <1>0, <2>2, GoingFacts DEF AreBodies
<1>10. Crossed(pick)' = Crossed(pick) /\ recipe' = recipe
  <2>1. Now = {}
    BY <1>3 DEF Now
  <2> QED
    BY <2>1, CrossedStep, GoingFacts DEF Going
<1>11. ForeachCap \in Nat /\ ForeachCap \in 0 .. ForeachCap
  BY KernelAssumption
<1> HIDE DEF b, nx
<1>12. CASE items' = <<>>
  <2>1. at' = 0
    BY <1>12 DEF Foreach
  <2>2. Ahead(con)' = Ended /\ {} \in Ended
    BY <2>1 DEF Ahead, Ended
  <2>3. ~MoreElements'
    BY <1>3, <1>12 DEF MoreElements
  <2>4. {} \in Rounds(b)[ForeachCap][0]
    BY <1>9, <1>11, RoundsFacts
  <2>5. \A t \in Ended, g \in Ended : Crossed(pick) \cup t \cup g = Crossed(pick) \cup {}
    BY DEF Ended
  <2>6. \A t \in Ahead(con)', g \in Ended : Crossed(pick)' \cup t \cup g \in Goal(recipe')
    BY <1>6, <1>10, <2>2, <2>4, <2>5
  <2>7. OnTrack'
    BY <2>1, <2>2, <2>3, <2>6 DEF OnTrack
  <2> QED
    BY <1>3, <2>7
<1>13. CASE items' # <<>>
  <2> DEFINE left == Rounds(b)[ForeachCap - 1][1]
  <2>1. at' = nx
    BY <1>13 DEF Foreach, nx
  <2>2. Len(items') # 0
    BY <1>3, <1>13
  <2>3. ForeachCap \in 1 .. ForeachCap /\ ForeachCap - 1 \in 0 .. ForeachCap
    BY <1>3, <1>11, <2>2
  <2>4. Known(c, at)'
    <3>1. \A x \in DOMAIN con : slots'[x] = slots[x]
      BY <1>2, OnlyProduced DEF Known
    <3>2. DOMAIN con \subseteq Earlier(recipe, nx)
      BY <1>2, <1>8, GoingFacts, EarlierFacts DEF Known
    <3> QED
      BY <1>2, <1>7, <1>10, <2>1, <3>1, <3>2 DEF Known
  <2>5. Known(con, loop)'
    <3>1. at \in 1 .. at
      BY GoingFacts
    <3> QED
      BY <1>2, <1>3, <3>1, KnownStays DEF Known
  <2>6. left = Left(con)'
    <3>1. ForeachCap - elem' - 1 = ForeachCap - 1 /\ elem' + 1 = 1
      BY <1>3, <1>11
    <3> QED
      BY <1>3, <1>10, <3>1 DEF Left, b
  <2>7. {} \in left
    BY <1>9, <2>3, RoundsFacts
  <2>8. ASSUME NEW t \in Ahead(c)', NEW g \in left
        PROVE  Crossed(pick)' \cup t \cup g \in Goal(recipe)
    <3>1. t \in b[0]
      <4>1. at' # 0
        BY <1>8, <2>1, GoingFacts
      <4>2. Ahead(c)' = Family(recipe)[nx][c][0]
        BY <2>1, <4>1, <1>4, AheadThere
      <4> QED
        BY <1>9, <4>2
    <3>2. t \cup g \in Rounds(b)[ForeachCap][0]
      <4>1. 0 + 1 = 1 /\ 0 \in Nat
        OBVIOUS
      <4> QED
        BY <1>9, <2>3, <3>1, <4>1, RoundsFacts
    <3>3. Crossed(pick) \cup t \cup g = Crossed(pick) \cup (t \cup g)
      OBVIOUS
    <3> QED
      BY <1>6, <1>10, <3>2, <3>3
  <2> HIDE DEF left
  <2>9. OnTrack'
    BY <1>10, <2>4, <2>5, <2>6, <2>7, <2>8 DEF OnTrack
  <2> QED
    BY <1>3, <2>9
<1> QED
  BY <1>12, <1>13

\* The next element takes one of the ways that were left.
LEMMA NextOnTrack ==
  ASSUME TypeInv, FlowInv, ChoiceInv, Linted(recipe), fault = "none", NextElement
  PROVE  Kept' /\ (OnTrack => OnTrack')
<1> DEFINE st == recipe.steps[loop]
           nx == Landing(loop, st.goto)
<1>1. /\ phase = "walk" /\ loop # 0 /\ elem + 1 < Len(items) /\ elem' = elem + 1
      /\ UNCHANGED <<recipe, loop, items, pick, visits>>
      /\ at' = Landing(loop, Steps[loop].goto)
      /\ slots' = [slots EXCEPT ![Steps[loop].out] = Untrusted(items[elem + 2])]
      /\ PathEnded
  BY DEF NextElement, MoreElements, callVars
<1>2. Sound(recipe) /\ Steps = recipe.steps
  BY SoundNow DEF TypeInv
<1>3. /\ loop \in DOMAIN recipe.steps /\ loop \in 1 .. Len(recipe.steps)
      /\ Len(recipe.steps) \in Nat /\ elem \in Nat /\ items \in Seq(Values)
      /\ slots \in [Names -> Slot] /\ at \in 0 .. Len(recipe.steps) + 1
  BY <1>1, <1>2, StepsOf DEF TypeInv, TypeOK
<1>4. st.kind = "foreach" /\ st.out \in Names
  BY <1>1, <1>2, <1>3, StepOf DEF FlowInv
<1>5. /\ nx \in loop + 1 .. Len(recipe.steps) + 1 /\ nx \in 1 .. Len(recipe.steps) + 1
      /\ nx = NextStep(recipe.steps, loop) /\ at' = nx /\ at' # 0
  <2>1. nx = NextStep(recipe.steps, loop) /\ at' = nx
    BY <1>1, <1>2, <1>3, NextOf
  <2>2. nx \in loop + 1 .. Len(recipe.steps) + 1
    BY <1>2, <1>3, <2>1, NextOf
  <2> HIDE DEF nx
  <2> QED
    BY <1>3, <2>1, <2>2
<1>6. st.out \notin Earlier(recipe, loop)
  BY <1>2, <1>3, <1>4, EarlierFacts DEF Produces
<1>7. \A x \in Names : slots'[x] = slots[x] \/ (x = st.out /\ slots'[x].class = "untrusted")
  BY <1>1, <1>2, <1>3, <1>4 DEF Untrusted
<1>8. /\ Earlier(recipe, loop) \subseteq Earlier(recipe, nx)
      /\ Ingredients(recipe) \subseteq Earlier(recipe, loop)
  <2>1. nx \in loop .. Len(recipe.steps) + 1
    BY <1>3, <1>5
  <2> QED
    BY <1>2, <1>3, <2>1, EarlierFacts
<1> HIDE DEF st, nx
<1>9. Kept'
  <2>1. Kept
    BY <1>1 DEF ChoiceInv
  <2>2. \A x \in Ingredients(recipe) : x \in Names /\ slots'[x] = slots[x]
    BY <1>6, <1>7, <1>8 DEF Ingredients
  <2> QED
    BY <1>1, <1>7, <2>1, <2>2 DEF Kept
<1>10. ASSUME OnTrack
       PROVE  OnTrack'
  <2>1. PICK con, rest :
          /\ {} \in rest
          /\ MoreElements => \E base : Known(base, loop) /\ rest = Left(base)
          /\ \A t \in Ahead(con), g \in rest : Crossed(pick) \cup t \cup g \in Goal(recipe)
          /\ at # 0 => Known(con, at)
    BY <1>10 DEF OnTrack
  <2>2. PICK base : Known(base, loop) /\ rest = Left(base)
    BY <2>1 DEF NextElement
  <2>0. PICK c : c = Without(base, st.out)
    OBVIOUS
  <2> DEFINE b == Bodies(recipe, Family(recipe), loop, base)
             n == ForeachCap - elem - 1
             left == Rounds(b)[n - 1][elem + 2]
  <2>3. base \in FinCons
    BY <2>2 DEF Known
  <2>4. c \in FinCons /\ DOMAIN c = DOMAIN base \ {st.out} /\ \A x \in DOMAIN c : c[x] = base[x]
    BY <1>4, <2>3, <2>0, WithoutSlot
  <2>5. /\ n \in 1 .. ForeachCap /\ n - 1 \in 0 .. ForeachCap
        /\ elem + 1 \in Nat /\ elem + 2 \in Nat /\ elem + 1 + 1 = elem + 2
    <3>1. Len(items) \in Nat /\ Len(items) <= ForeachCap
      BY <1>1, <1>3 DEF ChoiceInv
    <3> QED
      BY <1>1, <1>3, <3>1, KernelAssumption
  <2>6. b \in [Nat -> Ways] /\ b[elem + 1] = Family(recipe)[nx][c][elem + 1]
    <3>1. FamAt(recipe, Family(recipe), NextStep(recipe.steps, loop))
      BY <1>2, <1>3, <1>5, <2>3, FamilyAt
    <3>2. AreBodies(b, recipe, Family(recipe), loop, base)
      BY <1>2, <1>3, <2>3, <3>1, BodiesType
    <3> HIDE DEF b
    <3> QED
      BY <1>5, <2>5, <2>0, <3>2 DEF AreBodies, st
  <2>7. {} \in Ahead(con)
    <3>1. CASE at = 0
      BY <3>1 DEF Ahead, Ended
    <3>2. CASE at # 0
      <4>1. at = Len(recipe.steps) + 1
        BY <1>1, <1>2, <1>3, <3>2, StepsOf DEF PathEnded
      <4>2. con \in FinCons
        BY <2>1, <3>2 DEF Known
      <4>3. at \in 1 .. Len(recipe.steps) + 1
        BY <1>3, <4>1
      <4>4. Ahead(con) = WaysFrom(recipe, Family(recipe), at, con, elem)
        BY <1>2, <1>3, <3>2, <4>2, <4>3, FamilyAt DEF Ahead
      <4>5. Ahead(con) = Ended
        BY <1>3, <4>1, <4>4, WaysAtEnd
      <4> QED
        BY <4>5 DEF Ended
    <3> QED
      BY <3>1, <3>2
  <2>8. rest = Rounds(b)[n][elem + 1]
    BY <2>2 DEF Left
  <2>9. Left(base)' = left
    <3>1. ForeachCap - (elem + 1) - 1 = n - 1
      BY <1>3, KernelAssumption
    <3> QED
      BY <1>1, <2>5, <3>1 DEF Left
  <2> HIDE DEF b, n
  <2>10. Known(base, loop)' /\ Known(c, at)'
    <3>1. \A x \in DOMAIN base : x \in Names /\ slots'[x] = slots[x]
      BY <1>6, <1>7, <2>2, <2>3, FinConsFacts DEF Known
    <3> QED
      BY <1>1, <1>5, <1>8, <2>2, <2>4, <3>1 DEF Known
  <2>11. {} \in left
    BY <2>5, <2>6, RoundsFacts
  <2>12. ASSUME NEW t \in Ahead(c)', NEW g \in left
         PROVE  Crossed(pick)' \cup t \cup g \in Goal(recipe)
    <3>1. t \in b[elem + 1]
      BY <1>1, <1>5, <2>6 DEF Ahead
    <3>2. g \in Rounds(b)[n - 1][(elem + 1) + 1]
      BY <2>5
    <3>3. t \cup g \in rest
      BY <2>5, <2>6, <2>8, <3>1, <3>2, RoundsFacts
    <3>4. Crossed(pick) \cup {} \cup (t \cup g) \in Goal(recipe)
      BY <2>1, <2>7, <3>3
    <3>5. Crossed(pick)' = Crossed(pick)
      BY <1>1 DEF Crossed, Steps
    <3>6. Crossed(pick) \cup {} \cup (t \cup g) = Crossed(pick) \cup t \cup g
      OBVIOUS
    <3> QED
      BY <3>4, <3>5, <3>6
  <2> HIDE DEF left
  <2> QED
    BY <1>1, <2>9, <2>10, <2>11, <2>12 DEF OnTrack
<1> QED
  BY <1>9, <1>10

-----------------------------------------------------------------------------
(* The invariant.                                                          *)

LEMMA StepChoiceInv ==
  ASSUME TypeInv, FlowInv, ChoiceInv, StepTaken
  PROVE  ChoiceInv'
<1>1. /\ recipe' = recipe /\ call' = call /\ Steps' = Steps /\ phase = "walk" /\ phase' = "walk"
      /\ todo' = todo /\ pick' = pick
  BY StepFacts
<1>2. recipe' \in Recipes /\ (phase' = "walk" => pick' \in todo')
  BY <1>1 DEF ChoiceInv
<1> SUFFICES ASSUME Linted(recipe), fault' = "none"
             PROVE  /\ Kept'
                    /\ loop' # 0 => Len(items') <= ForeachCap
                    /\ AllClear(pick)' => OnTrack'
                    /\ \A p \in Picks(call) \ todo : AllClear(p)' => Crossed(p)' \in Goal(recipe)
  BY <1>1, <1>2 DEF ChoiceInv
<1>3. fault = "none"
  <2>1. [Next]_vars
    BY DEF StepTaken, Next
  <2> QED
    BY <2>1, FaultStays
<1>4. Going
  BY <1>3 DEF Going
<1>5. AllClear(pick)' => AllClear(pick) /\ Clear(Visit)
  BY CrossedStep, <1>1
<1>6. AllClear(pick) => OnTrack
  BY <1>1, <1>3 DEF ChoiceInv
<1>7. AllClear(pick)' => OnTrack'
  BY <1>4, <1>5, <1>6, StepOnTrack, ForeachOnTrack
<1>8. loop' # 0 => Len(items') <= ForeachCap
  <2>1. CASE Foreach
    <3>1. ForeachTrouble = "none" /\ items' = Elements[Subject.value]
      BY <2>1 DEF Foreach
    <3>2. Subject.value \in DOMAIN Elements /\ ~(Len(Elements[Subject.value]) > ForeachCap)
      BY <3>1 DEF ForeachTrouble
    <3>3. Len(items') \in Nat /\ ForeachCap \in Nat
      BY <3>1, <3>2, KernelAssumption
    <3> QED
      BY <3>1, <3>2, <3>3
  <2>2. CASE ~Foreach
    <3>1. loopVars' = loopVars
      BY <2>2 DEF StepTaken, Propose, Sink, GatePasses, GateFails, Branch, Exit, RefuseForeach
    <3> QED
      BY <1>1, <1>3, <3>1 DEF loopVars, ChoiceInv
  <2> QED
    BY <2>1, <2>2
<1>9. ASSUME NEW p \in Picks(call) \ todo, AllClear(p)'
      PROVE  Crossed(p)' \in Goal(recipe)
  <2>1. p # pick
    BY <1>1 DEF ChoiceInv
  <2>2. AllClear(p) /\ Crossed(p)' = Crossed(p)
    BY <1>9, <2>1, CrossedStep
  <2> QED
    BY <1>3, <2>2 DEF ChoiceInv
<1> QED
  BY <1>4, <1>7, <1>8, <1>9, KeptStays

\* What is left alone by the actions that take no step.
LEMMA SameCrossings ==
  ASSUME Steps' = Steps, visits' = visits
  PROVE  \A p : (AllClear(p)' <=> AllClear(p)) /\ Crossed(p)' = Crossed(p)
<1>1. \A v : Clear(v)' <=> Clear(v)
  BY DEF Clear, FailsGate, Crosses
<1> QED
  BY <1>1 DEF AllClear, Crossed

LEMMA BeginOnTrack ==
  ASSUME TypeInv, GuardInv, ChoiceInv, Linted(recipe), NEW p \in todo, Begin(p)
  PROVE  Kept' /\ OnTrack'
<1>1. /\ phase = "ready" /\ pick' = p /\ slots' = recipe.ingredients /\ at' = 1 /\ loop' = 0
      /\ elem' = 0 /\ recipe' = recipe /\ visits' = visits /\ Steps' = Steps
  BY DEF Begin, callVars, Steps
<1>2. Kept'
  BY <1>1 DEF Kept, Ingredients, Present
<1>3. Crossed(pick)' = {}
  <2>1. \A v \in visits : v.pick # p
    BY <1>1 DEF GuardInv
  <2> QED
    BY <1>1, <2>1 DEF Crossed
<1>4. Known(Nothing, at)'
  BY NothingFacts DEF Known
<1>5. ~MoreElements'
  BY <1>1 DEF MoreElements
<1>6. Ahead(Nothing)' = Goal(recipe)
  BY <1>1 DEF Ahead, Goal
<1>7. \A t \in Ahead(Nothing)', g \in Ended : Crossed(pick)' \cup t \cup g \in Goal(recipe')
  <2>1. \A t, g : g \in Ended => {} \cup t \cup g = t
    BY DEF Ended
  <2> QED
    BY <1>1, <1>3, <1>6, <2>1
<1>8. {} \in Ended
  BY DEF Ended
<1>9. OnTrack'
  BY <1>4, <1>5, <1>7, <1>8 DEF OnTrack
<1> QED
  BY <1>2, <1>9

\* At the end of a walk what crossed in it is one of the ways.
LEMMA EndOnTrack ==
  ASSUME TypeInv, ChoiceInv, Linted(recipe), PathEnded, OnTrack
  PROVE  Crossed(pick) \in Goal(recipe)
<1>1. PICK con, rest :
        /\ {} \in rest
        /\ at # 0 => Known(con, at)
        /\ \A t \in Ahead(con), g \in rest : Crossed(pick) \cup t \cup g \in Goal(recipe)
  BY DEF OnTrack
<1>2. Sound(recipe) /\ Steps = recipe.steps
  BY SoundNow DEF TypeInv
<1>3. at \in 0 .. Len(recipe.steps) + 1 /\ Len(recipe.steps) \in Nat /\ elem \in Nat
  BY <1>2, StepsOf DEF TypeInv, TypeOK
<1>4. {} \in Ahead(con)
  <2>1. CASE at = 0
    BY <2>1 DEF Ahead, Ended
  <2>2. CASE at # 0
    <3>1. at = Len(recipe.steps) + 1
      BY <1>2, <1>3, <2>2, StepsOf DEF PathEnded
    <3>2. con \in FinCons
      BY <1>1, <2>2 DEF Known
    <3>3. at \in 1 .. Len(recipe.steps) + 1
      BY <1>3, <3>1
    <3>4. Ahead(con) = WaysFrom(recipe, Family(recipe), at, con, elem)
      BY <1>2, <1>3, <2>2, <3>2, <3>3, FamilyAt DEF Ahead
    <3>5. Ahead(con) = Ended
      BY <1>3, <3>1, <3>4, WaysAtEnd
    <3> QED
      BY <3>5 DEF Ended
  <2> QED
    BY <2>1, <2>2
<1>5. Crossed(pick) \cup {} \cup {} \in Goal(recipe)
  BY <1>1, <1>4
<1>6. Crossed(pick) \cup {} \cup {} = Crossed(pick)
  OBVIOUS
<1> QED
  BY <1>5, <1>6

LEMMA NextChoiceInv == TypeInv /\ FlowInv /\ GuardInv /\ ChoiceInv /\ [Next]_vars => ChoiceInv'
<1> SUFFICES ASSUME TypeInv, FlowInv, GuardInv, ChoiceInv, [Next]_vars
             PROVE  ChoiceInv'
  OBVIOUS
<1>1. CASE StepTaken
  BY <1>1, StepChoiceInv
<1>2. CASE NextElement
  <2>1. /\ phase = "walk" /\ phase' = phase /\ Steps' = Steps
        /\ UNCHANGED <<recipe, call, todo, pick, loop, items, fault, visits>>
    BY <1>2 DEF NextElement, callVars, Steps
  <2>2. Linted(recipe) /\ fault = "none" => Kept' /\ (OnTrack => OnTrack')
    BY <1>2, NextOnTrack
  <2>3. \A p : (AllClear(p)' <=> AllClear(p)) /\ Crossed(p)' = Crossed(p)
    BY <2>1, SameCrossings
  <2>4. AllClear(pick)' <=> AllClear(pick)
    BY <2>1 DEF AllClear, Clear, FailsGate, Crosses
  <2> QED
    BY <2>1, <2>2, <2>3, <2>4 DEF ChoiceInv
<1>3. CASE EndWalk
  <2>1. /\ phase = "walk" /\ PathEnded /\ Steps' = Steps /\ todo' = todo \ {pick}
        /\ phase' = IF todo' = {} THEN "decided" ELSE "ready"
        /\ UNCHANGED <<recipe, call, pick, fault, visits>>
    BY <1>3 DEF EndWalk, callVars, Steps
  <2>2. \A p : (AllClear(p)' <=> AllClear(p)) /\ Crossed(p)' = Crossed(p)
    BY <2>1, SameCrossings
  <2>3. ASSUME Linted(recipe), fault = "none", NEW p \in Picks(call) \ (todo \ {pick}), AllClear(p)
        PROVE  Crossed(p) \in Goal(recipe)
    <3>1. CASE p = pick
      <4>1. OnTrack
        BY <2>1, <2>3, <3>1 DEF ChoiceInv
      <4> QED
        BY <2>1, <2>3, <3>1, <4>1, EndOnTrack
    <3>2. CASE p # pick
      BY <2>3, <3>2 DEF ChoiceInv
    <3> QED
      BY <3>1, <3>2
  <2>4. Linted(recipe) /\ fault = "none" =>
          \A p \in Picks(call) \ (todo \ {pick}) : AllClear(p)' => Crossed(p)' \in Goal(recipe)
    BY <2>2, <2>3
  <2>5. phase' # "walk" /\ (phase' = "decided" => todo' = {})
    BY <2>1
  <2> QED
    BY <2>1, <2>4, <2>5 DEF ChoiceInv
<1>4. CASE RefuseTooMany
  <2>1. phase' = "decided" /\ fault' = "bound" /\ recipe' = recipe
    BY <1>4 DEF RefuseTooMany, callVars
  <2> QED
    BY <2>1 DEF ChoiceInv
<1>5. ASSUME NEW p \in todo, Begin(p)
      PROVE  ChoiceInv'
  <2>1. /\ phase = "ready" /\ phase' = "walk" /\ Steps' = Steps /\ pick' = p /\ loop' = 0
        /\ UNCHANGED <<recipe, call, todo, fault, visits>>
    BY <1>5 DEF Begin, callVars, Steps
  <2>2. \A q : (AllClear(q)' <=> AllClear(q)) /\ Crossed(q)' = Crossed(q)
    BY <2>1, SameCrossings
  <2>3. Linted(recipe) => Kept' /\ OnTrack'
    BY <1>5, BeginOnTrack
  <2> QED
    BY <2>1, <2>2, <2>3 DEF ChoiceInv
<1>6. CASE UNCHANGED vars
  <2>1. /\ Steps' = Steps
        /\ UNCHANGED <<recipe, call, phase, todo, pick, slots, at, loop, items, elem, fault, visits>>
    BY <1>6 DEF vars, callVars, walkVars, loopVars, Steps
  <2>2. \A p : (AllClear(p)' <=> AllClear(p)) /\ Crossed(p)' = Crossed(p)
    BY <2>1, SameCrossings
  <2>3. (AllClear(pick)' <=> AllClear(pick)) /\ Crossed(pick)' = Crossed(pick)
    BY <2>1 DEF AllClear, Clear, FailsGate, Crosses, Crossed
  <2>4. Kept' = Kept
    BY <2>1 DEF Kept
  <2>5. OnTrack' = OnTrack
    <3>1. \A c : /\ Ahead(c)' = Ahead(c) /\ Left(c)' = Left(c)
                 /\ (Known(c, at)' <=> Known(c, at)) /\ (Known(c, loop)' <=> Known(c, loop))
      BY <2>1 DEF Ahead, Left, Known
    <3>2. MoreElements' <=> MoreElements
      BY <2>1 DEF MoreElements
    <3> QED
      BY <2>1, <2>3, <3>1, <3>2 DEF OnTrack
  <2> QED
    BY <2>1, <2>2, <2>3, <2>4, <2>5 DEF ChoiceInv
<1> QED
  BY <1>1, <1>2, <1>3, <1>4, <1>5, <1>6, NextCases

\* The walks of a decided call that nothing stopped are ways of its recipe.
LEMMA BoundedWhenDecided ==
  ASSUME TypeInv, ChoiceInv
  PROVE  ChoicesAreBounded
<1> DEFINE T == {Crossed(p) : p \in {q \in Picks(call) : Cleared(q)}}
<1> SUFFICES ASSUME phase = "decided", fault = "none", Linted(recipe), Leakage(recipe).bounded
             PROVE  Cardinality(T) <= Leakage(recipe).tuples
  BY DEF ChoicesAreBounded
<1>1. \A p : Cleared(p) => AllClear(p)
  BY DEF Cleared, AllClear, Clear, ReleasedAt
<1>2. todo = {} /\ \A p \in Picks(call) : AllClear(p) => Crossed(p) \in Goal(recipe)
  BY DEF ChoiceInv
<1>3. T \in SUBSET Goal(recipe)
  BY <1>1, <1>2
<1>4. Leakage(recipe).tuples \in Nat /\ AtMost(Goal(recipe), Leakage(recipe).tuples)
  BY SoundNow, GoalAtMost DEF TypeInv
<1> HIDE DEF T
<1>5. AtMost(T, Leakage(recipe).tuples)
  BY <1>3, <1>4, FewerAtMost
<1> QED
  BY <1>5 DEF AtMost

\* The bound of the choice channel is a bound, for every linted recipe and every
\* call: what crosses in the walks that nothing stopped is no more tuples than
\* the analysis counts (leakage.go).
THEOREM BoundIsABound == Spec => []ChoicesAreBounded
<1>1. Init => FlowInv /\ GuardInv /\ ChoiceInv
  <2>1. Init => FlowInv
    BY DEF Init, FlowInv
  <2>2. Init => GuardInv
    BY DEF Init, GuardInv, GuardedThroughGate
  <2>3. Init => ChoiceInv
    BY DEF Init, ChoiceInv
  <2> QED
    BY <2>1, <2>2, <2>3
<1>2. TypeInv /\ ChoiceInv => ChoicesAreBounded
  BY BoundedWhenDecided
<1> QED
  BY <1>1, <1>2, InitTypeInv, NextTypeInv, NextFlowInv, NextGuardInv, NextChoiceInv, PTL DEF Spec

=============================================================================
