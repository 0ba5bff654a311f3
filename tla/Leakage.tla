------------------------------ MODULE Leakage ------------------------------
(***************************************************************************)
(* The choice channel (stag/recipe/leakage.go): how many different calls a *)
(* model can get through a recipe by choosing among what the recipe        *)
(* admits.  The code computes the base-2 logarithm of the number in        *)
(* floating point; here it is the number.                                  *)
(***************************************************************************)
EXTENDS Kernel, Integers

\* The admitted values of a rule are counted: a set and a range are finite.
ASSUME LeakageAssumption ==
  \A r \in Recipes : \A i \in DOMAIN r.steps :
    /\ \A R \in r.steps[i].rule : IsFiniteSet(R)
    /\ \A k \in DOMAIN r.steps[i].cases : \A R \in r.steps[i].cases[k].rule : IsFiniteSet(R)

\* What is known of the slots on a path: how many values a rule leaves each, or
\* -1 of a slot nothing constrains.
Constraints == [Names -> Nat \cup {-1}]

Freed(cons, n) == [cons EXCEPT ![n] = -1]

\* ruleChoices, of a reference to a rule that is there.
RuleChoices(rule) == Cardinality(UNION rule)

\* A gate or a case without a rule constrains nothing.
Learned(cons, n, rule) == IF rule = {} THEN cons ELSE [cons EXCEPT ![n] = RuleChoices(rule)]

\* sinkChoices: by the rule of the sink, or by what constrained its slot before.
\* An empty rule counts as one value.
SinkBounded(st, cons) == st.rule # {} \/ cons[st.in] >= 0
SinkChoices(st, cons) ==
  LET k == IF st.rule # {} THEN RuleChoices(st.rule) ELSE cons[st.in]
  IN  IF k > 1 THEN k ELSE 1

\* next.  The position after the last step stands for the end of the call.
NextStep(steps, i) == IF steps[i].goto \in DOMAIN steps THEN steps[i].goto ELSE i + 1

\* logGeom: the tuples of up to m rounds with k choices each.
Geometric(k, m) ==
  LET sum[t \in 0 .. m] == IF t = 0 THEN 1 ELSE 1 + k * sum[t - 1] IN sum[m]

\* The ways a branch may go: arm 0 is the default.
Arms(st) == {k \in DOMAIN st.cases : st.cases[k].goto # 0} \cup (IF st.goto = 0 THEN {} ELSE {0})

\* Deviation: a branch is counted by its default.
Branches_Default(st, arm) == arm[0]

\* log2SumExp: the caller of a branch may take any arm.
Branches(st, arm) ==
  LET sum[k \in 0 .. Len(st.cases)] ==
        (IF k = 0 THEN 0 ELSE sum[k - 1]) + (IF k \in Arms(st) THEN arm[k].tuples ELSE 0)
  IN  [bounded |-> \A k \in Arms(st) : arm[k].bounded, tuples |-> sum[Len(st.cases)]]

\* What each way counts: the value matched the rule of the case.
ArmCounts(st, walk, cons) ==
  [k \in 0 .. Len(st.cases) |->
     IF k = 0 THEN walk[st.goto][cons]
     ELSE walk[st.cases[k].goto][Learned(cons, st.in, st.cases[k].rule)]]

\* One empty tuple; a sink multiplies what follows, a loop repeats it.
One == [bounded |-> TRUE, tuples |-> 1]
Times(k, count) == [bounded |-> count.bounded, tuples |-> k * count.tuples]
Looped(count) == [bounded |-> count.bounded, tuples |-> Geometric(count.tuples, ForeachCap)]

\* What the walk counts from step i on, if walk[j] counts from the steps j after it.
TuplesFrom(r, walk, i, cons) ==
  LET st    == r.steps[i]
      on(c) == walk[NextStep(r.steps, i)][c]
  IN  IF i > Len(r.steps) THEN One
      ELSE CASE st.kind = "exit" -> One
             [] st.kind = "propose" -> on(Freed(cons, st.out))
             [] st.kind = "gate" -> on(Learned(cons, st.in, st.rule))
             [] st.kind = "sink" ->
                  IF SinkBounded(st, cons)
                  THEN Times(SinkChoices(st, cons), on(cons))
                  ELSE [bounded |-> FALSE, tuples |-> 1]
             [] st.kind = "branch" -> Branches(st, ArmCounts(st, walk, cons))
             [] st.kind = "foreach" -> Looped(on(Freed(cons, st.out)))

\* The walk, from every step and with everything that may be known there.
Counts(r) ==
  LET walk[i \in 1 .. Len(r.steps) + 1] == [cons \in Constraints |-> TuplesFrom(r, walk, i, cons)]
  IN  walk

\* Leakage: is every value that crosses bounded, and the number of tuples of
\* values that may cross in one call.
Leakage(r) == Counts(r)[1][[x \in Names |-> -1]]

-----------------------------------------------------------------------------
(* What the bound promises.                                                *)

\* Walk p met nothing that stops the call.
Cleared(p) ==
  \A v \in visits : v.pick = p => ~FailsGate(v) /\ (Crosses(v) => ReleasedAt(v))

\* What crossed in walk p: the value at every sink, for every element.
Crossed(p) ==
  {<<v.elem, v.step, v.slot.value>> :
     v \in {w \in visits : w.pick = p /\ Steps[w.step].kind = "sink"}}

\* The bound is a bound (leakage.go:3-33): the calls of a linted recipe that get
\* through, over all the values a call offers, show no more different tuples
\* of values at its sinks than the bound says.
ChoicesAreBounded ==
  phase = "decided" /\ fault = "none" /\ Linted(recipe) =>
    LET bound == Leakage(recipe) IN
    bound.bounded => Cardinality({Crossed(p) : p \in {q \in Picks(call) : Cleared(q)}}) <= bound.tuples

\* What leakage.go:14-16 and 68-71 promise and the code does not keep: the bound
\* counts the values that are forwarded, and a flow of one argument that
\* nothing constrains is unbounded.  The value is forwarded whether or not the
\* path it takes has a sink.
ForwardedAreBounded ==
  phase = "decided" /\ fault = "none" /\ Linted(recipe) /\ ~call.multi =>
    LET bound == Leakage(recipe)
        vals  == call.paths[1].vals
    IN  bound.bounded =>
          Cardinality({vals[p[1]] : p \in {q \in Picks(call) : Cleared(q)}}) <= bound.tuples

=============================================================================
