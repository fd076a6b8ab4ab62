------------------------------- MODULE StudyPlan -------------------------------
(***************************************************************************)
(* build_study_plan: the weeks until the examination, the stage each week  *)
(* is in, the hours of a week for each subject, and the contents of the    *)
(* weeks.  Pure functions of the user state and the catalogue.             *)
(*                                                                         *)
(* Accuracies are in tenths and hours in hundredths, as the plan rounds    *)
(* them.  What the code computes in floating point before it rounds is     *)
(* exact here, as a fraction; where the exact value lies half-way between  *)
(* two hundredths, which of the two the float rounds to is an input.       *)
(***************************************************************************)
EXTENDS Integers, Sequences, FiniteSets, SequencesExt, FiniteSetsExt, Functions

CONSTANT MaxWeeks       \* DEFAULT_MAX_WEEKS

StudyPlanAssumption == MaxWeeks \in Nat \ {0}

Total(f) == FoldFunction(+, 0, f)
CeilDiv(a, b) == (a + b - 1) \div b

-----------------------------------------------------------------------------
(* Stages                                                                  *)

\* STAGE_ORDER by number: intro, post_lecture, objective_entry,
\* past_exam_rotation, mock_exam, final.
Stages == 1 .. 6
Rotation == 4
MockExam == 5
Final == 6
Teaching == 1 .. 3
StageWeight == <<1, 2, 3, 4, 2, 1>>

\* Mutant: a week that has only begun is not counted.
FullWeeks(days) == Max({1, Min({MaxWeeks, days \div 7})})

TotalWeeks(days) == Max({1, Min({MaxWeeks, CeilDiv(days, 7)})})

\* _distribute_stage_weeks.  When weeks are short the last stages are kept, one week
\* each; else each stage has one, and the others are shared out by weight, those left
\* over by the largest remainder, of equal ones to the later stage.
StageWeeks(current, total) ==
    LET stages == current .. Final
        n == Cardinality(stages)
        W == Total([s \in stages |-> StageWeight[s]])
        raw == [s \in stages |-> (total - n) * StageWeight[s]]
        count == [s \in stages |-> 1 + raw[s] \div W]
        ahead(s) == {t \in stages : \/ raw[t] % W > raw[s] % W
                                    \/ raw[t] % W = raw[s] % W /\ t > s}
    IN  IF total <= n
        THEN [s \in Final - total + 1 .. Final |-> 1]
        ELSE [s \in stages |->
                 count[s] + IF Cardinality(ahead(s)) < total - Total(count) THEN 1 ELSE 0]

\* The stage of each week, in order.
WeekStages(weeks) ==
    [k \in 1 .. Total(weeks) |->
        CHOOSE s \in DOMAIN weeks :
            LET before == SumFunctionOnSet(weeks, {t \in DOMAIN weeks : t < s})
            IN  before < k /\ k <= before + weeks[s]]

\* _days_range: the days before the examination.
DaysRange(days, k) ==
    LET from == Max({days - 7 * (k - 1), 0})
    IN  [from |-> from, to |-> Max({from - 6, 0})]

-----------------------------------------------------------------------------
(* Hours                                                                   *)

FailRisk == 4
Stable == 7

\* Mutant: the boost of a failing subject is that of all others.
BoostOthers(a) == IF a >= Stable THEN 0 ELSE 10 - a + IF a < FailRisk THEN 0 ELSE 5

\* _subject_weight, in tenths.
SubjectWeight(a) == IF a >= Stable THEN 0 ELSE 10 - a + IF a < FailRisk THEN 5 ELSE 0

\* The pool is shared out equally when nobody has weight.
Weights(acc) ==
    LET w == [i \in DOMAIN acc |-> SubjectWeight(acc[i])]
    IN  IF Total(w) = 0 THEN [i \in DOMAIN acc |-> 1] ELSE w

\* Steps 1 to 3 of _allocate_subject_hours, as fractions of the week, part[i] / unit.
\* With n subjects, each has 1/20 and the weights share out the other (20 - n)/20;
\* a failing one is raised to 3/20, which the others give of what they have above
\* 1/20, in proportion, as far as that goes.
Shares(acc) ==
    LET w == Weights(acc)
        W == Total(w)
        base == [i \in DOMAIN acc |-> W + (20 - Len(acc)) * w[i]]       \* of 20 W
        raised == [i \in DOMAIN acc |-> IF acc[i] < FailRisk THEN Max({base[i], 3 * W})
                                                               ELSE base[i]]
        needed == Total(raised) - Total(base)
        spare == SumFunctionOnSet([i \in DOMAIN acc |-> base[i] - W],
                                  {i \in DOMAIN acc : acc[i] >= FailRisk})
        K == Max({spare, 1})
        left == Max({spare - needed, 0})
    IN  [unit |-> 20 * W * K,
         part |-> [i \in DOMAIN acc |-> IF acc[i] < FailRisk THEN raised[i] * K
                                        ELSE W * K + (base[i] - W) * left]]

\* round(_, 2) of part[i] / unit of the week; those of "up" are rounded up from
\* half-way.
Halfway(sh, week) == {i \in DOMAIN sh.part : 2 * ((week * sh.part[i]) % sh.unit) = sh.unit}
Rounded(sh, week, up) ==
    [i \in DOMAIN sh.part |->
        LET x == week * sh.part[i]
        IN  x \div sh.unit + IF 2 * (x % sh.unit) > sh.unit \/ i \in up THEN 1 ELSE 0]

Largest(h) == CHOOSE i \in DOMAIN h : \A j \in DOMAIN h : h[j] < h[i] \/ (h[j] = h[i] /\ i <= j)

\* Step 4: what is left over goes to, or comes from, the largest.
Repaired(h, week) == [h EXCEPT ![Largest(h)] = @ + week - Total(h)]

\* Negative hours are cut off and the others scaled to the week.
Scaled(h) == LET c == [i \in DOMAIN h |-> Max({h[i], 0})] IN [unit |-> Total(c), part |-> c]

\* The weeks _allocate_subject_hours may answer: none is negative, in the end.
Allocations(acc, week) ==
    LET sh == Shares(acc)
        first == {Repaired(Rounded(sh, week, up), week) : up \in SUBSET Halfway(sh, week)}
        again(h) == LET sc == Scaled(h)
                    IN  {LET g == Repaired(Rounded(sc, week, up), week)
                         IN  [i \in DOMAIN g |-> Max({g[i], 0})] : up \in SUBSET Halfway(sc, week)}
    IN  IF week = 0 THEN {[i \in DOMAIN acc |-> 0]}
        ELSE UNION {IF \E i \in DOMAIN h : h[i] < 0 THEN again(h) ELSE {h} : h \in first}

\* _fallback_plan: five subjects, and the first takes what is left over.
FallbackHours(week) ==
    LET each == (2 * week + 5) \div 10
    IN  [i \in 1 .. 5 |-> IF i = 1 THEN week - 4 * each ELSE each]

-----------------------------------------------------------------------------
(* Contents                                                                *)

\* Mutant: a week takes no more than the number of whole shares.
FloorTutorials(stages, k, m) ==
    LET weeks == {j \in DOMAIN stages : stages[j] \in Teaching}
        each == Max({1, m \div Max({Cardinality(weeks), 1})})
    IN  IF k \notin weeks THEN {}
        ELSE {t \in 1 .. m : CeilDiv(t, each) = Cardinality({j \in weeks : j <= k})}

\* _assign_week_content: the tutorials of a subject that has m of them, in week k.
Tutorials(stages, k, m) ==
    LET weeks == {j \in DOMAIN stages : stages[j] \in Teaching}
        each == CeilDiv(m, Cardinality(weeks))
    IN  IF k \notin weeks THEN {}
        ELSE {t \in 1 .. m : CeilDiv(t, each) = Cardinality({j \in weeks : j <= k})}

\* The year of the real examination of week k, of "years" of them from the oldest on;
\* none in the other stages.
ExamYear(stages, k, years) ==
    CASE years = 0 -> {}
      [] stages[k] = Rotation /\ years > 0 ->
            {(Cardinality({j \in 1 .. k - 1 : stages[j] = Rotation}) % years) + 1}
      [] stages[k] = MockExam /\ years > 0 -> {years}
      [] OTHER -> {}
=============================================================================
