------------------------------- MODULE Guidance -------------------------------
(***************************************************************************)
(* prescribe(): the problems to solve and to skip, and the study plan, for *)
(* one user state.  The state of the user is in "input"; a prescription is *)
(* what Recommend and Plan make of it.                                     *)
(***************************************************************************)
EXTENDS StudyPlan, Recommend

CONSTANT Inputs     \* the requests that are looked at

GuidanceAssumption ==
    \A in \in Inputs :
        /\ in.days \in Nat /\ in.week \in Nat /\ in.stage \in Stages
        /\ in.nSolve \in Nat /\ in.nSkip \in Nat
        /\ in.tutorials \in Nat /\ in.years \in Nat
        /\ Len(in.user) \in 0 .. 8     \* the API refuses a subject that is given twice
        /\ DOMAIN in.user = 1 .. Len(in.user)
        /\ \A i \in DOMAIN in.user : in.user[i].acc \in 0 .. 10
        /\ \A i, j \in DOMAIN in.user : in.user[i].subject = in.user[j].subject => i = j
        /\ Len(in.problems) \in Nat /\ DOMAIN in.problems = 1 .. Len(in.problems)
        /\ \A p \in DOMAIN in.problems : in.problems[p].subject \in Int

VARIABLES
    input,
    solve, skip,        \* problems_to_solve and problems_to_skip, by number
    stages,             \* the stage of each week
    days,               \* days_range of each week
    tutorials, year,    \* focus_content of each week
    hours,              \* subject_allocation, of any week
    pc

problems == <<solve, skip>>
plan == <<stages, days, tutorials, year, hours>>
vars == <<input, problems, plan, pc>>

Init ==
    /\ input \in Inputs
    /\ solve = <<>> /\ skip = <<>>
    /\ stages = <<>> /\ days = <<>> /\ tutorials = <<>> /\ year = <<>> /\ hours = <<>>
    /\ pc = "recommend"

\* There is nothing to skip for a user without subject states.
Recommend ==
    /\ pc = "recommend"
    /\ solve' = ToSolve(input.user, input.problems, input.nSolve)
    /\ skip' = ToSkip(input.user, input.problems, solve', input.nSkip)
    /\ pc' = "plan"
    /\ UNCHANGED <<input, plan>>

Accuracies == [i \in DOMAIN input.user |-> input.user[i].acc]

\* build_study_plan
Plan ==
    /\ pc = "plan" /\ input.user # <<>>
    /\ stages' = WeekStages(StageWeeks(input.stage, TotalWeeks(input.days)))
    /\ days' = [k \in DOMAIN stages' |-> DaysRange(input.days, k)]
    /\ tutorials' = [k \in DOMAIN stages' |-> Tutorials(stages', k, input.tutorials)]
    /\ year' = [k \in DOMAIN stages' |-> ExamYear(stages', k, input.years)]
    /\ hours' \in Allocations(Accuracies, input.week)
    /\ pc' = "done"
    /\ UNCHANGED <<input, problems>>

\* _fallback_plan: a week without contents, in the stage the user is in.
FallbackPlan ==
    /\ pc = "plan" /\ input.user = <<>>
    /\ stages' = <<input.stage>>
    /\ days' = <<DaysRange(input.days, 1)>>
    /\ tutorials' = <<{}>> /\ year' = <<{}>>
    /\ hours' = FallbackHours(input.week)
    /\ pc' = "done"
    /\ UNCHANGED <<input, problems>>

Done == pc = "done" /\ UNCHANGED vars

Next == Recommend \/ Plan \/ FallbackPlan \/ Done

Spec == Init /\ [][Next]_vars

-----------------------------------------------------------------------------
(* Properties                                                              *)

Planned == pc = "done" /\ input.user # <<>>
Weeks(s) == {k \in DOMAIN stages : stages[k] = s}

\* The weeks follow on each other from today; none of them begins after the
\* examination, and they reach it unless max_weeks cuts them off.  The stages keep
\* their order up to the final one, a stage is left out only with all before it and
\* when weeks are short, and with weeks to spare each gets what its weight entitles
\* it to, to less than a week.
WeeksLeadToExam ==
    Planned =>
        LET n == Len(stages)
            left == input.stage .. Final
            W == SumFunctionOnSet(StageWeight, left)
        IN  /\ n \in 1 .. MaxWeeks
            /\ days[1].from = input.days
            /\ \A k \in 2 .. n : days[k].from = days[k - 1].to - 1 /\ days[k].from > 0
            /\ input.days <= 7 * MaxWeeks => days[n].to <= 1
            /\ stages[n] = Final
            /\ \A k \in 2 .. n : stages[k] - stages[k - 1] \in {0, 1}
            /\ stages[1] = input.stage \/ n < Cardinality(left)
            /\ n >= Cardinality(left) =>
                  \A s \in left :
                      LET more == W * (Cardinality(Weeks(s)) - 1)
                          fair == StageWeight[s] * (n - Cardinality(left))
                      IN  more > fair - W /\ more < fair + W

\* Every tutorial is in one week if any week is for teaching, and none is in a week
\* that is not or before one with a lower number; the years of the examination take
\* turns, from the oldest on.
ContentOnce ==
    Planned =>
        /\ \A t \in 1 .. input.tutorials :
              LET in == {k \in DOMAIN stages : t \in tutorials[k]}
              IN  IF \E k \in DOMAIN stages : stages[k] \in Teaching
                  THEN Cardinality(in) = 1 /\ \A k \in in : stages[k] \in Teaching
                  ELSE in = {}
        /\ \A j, k \in DOMAIN stages : j < k =>
              \A t \in tutorials[j], u \in tutorials[k] : t < u
        /\ LET times(y) == Cardinality({k \in Weeks(Rotation) : y \in year[k]})
           IN  \A y, z \in 1 .. input.years : y <= z => times(y) - times(z) \in {0, 1}

\* What rounding may make of n equal shares of a week, in hundredths of an hour.
Slack == Len(input.user)

\* The hours of a week of n subjects are those the user has, and none is negative,
\* unless the week is so short that rounding them alone takes more than there is.
\* Then the sum may be too large, by less than what n roundings add, and only without
\* subject states may the first subject get less than nothing.  With up to six
\* subjects (the examination has five), and to the rounding of the week:
\*   - a failing subject has the 15% of its floor, and every subject 5%;
\*   - a weaker subject has no less than a stronger one;
\*   - had the user been better in a subject, it would have no more.
HoursFollowWeakness ==
    pc = "done" =>
        /\ LET n == Len(hours) IN
           /\ 2 * (Total(hours) - input.week) \in 0 .. n
           /\ input.week = 0 \/ 2 * input.week >= n * (n - 1) => Total(hours) = input.week
           /\ input.user # <<>> \/ 2 * input.week >= n * (n - 1) =>
                 \A i \in DOMAIN hours : hours[i] >= 0
        /\ input.user # <<>> /\ Len(input.user) <= 6 =>
              \A i \in DOMAIN input.user :
                  LET a == Accuracies[i] IN
                  /\ 20 * (hours[i] + Slack) >= (IF a < FailRisk THEN 3 ELSE 1) * input.week
                  /\ \A j \in DOMAIN input.user :
                        a < Accuracies[j] => hours[i] + Slack >= hours[j]
                  /\ \A b \in {4, 7} :
                        a < b => \A h \in Allocations([Accuracies EXCEPT ![i] = b], input.week) :
                                     h[i] <= hours[i] + 2 * Slack

FailingProblem(p) ==
    LET s == input.problems[p].subject
    IN  s \in Subjects(input.user) /\ StateOf(input.user, s).acc < Failing

\* Of two problems that were both attempted, or both not, one of a failing subject
\* comes before one of another, whatever else is in favour of that one.  A user of
\* whom nothing is known gets as many of each subject, as far as there are any.
FailingFirst ==
    pc # "recommend" =>
        /\ \A p, q \in DOMAIN input.problems :
              /\ FailingProblem(p) /\ ~FailingProblem(q)
              /\ input.problems[p].seen = input.problems[q].seen
              /\ \E j \in DOMAIN solve : solve[j] = q
              => \E i, j \in DOMAIN solve : i < j /\ solve[i] = p /\ solve[j] = q
        /\ input.user = <<>> =>
              LET of(s) == {p \in DOMAIN input.problems : input.problems[p].subject = s}
                  chosen(s) == of(s) \cap Range(solve)
              IN  \A p, q \in DOMAIN input.problems :
                      LET s == input.problems[p].subject
                          t == input.problems[q].subject
                      IN  chosen(s) = of(s) \/ Cardinality(chosen(s)) + 1 >= Cardinality(chosen(t))

\* The two engines agree, although each has a threshold of its own for a subject
\* that is stable: a problem to skip is not one to solve, and its subject has no more
\* than the 5% that keep it from being forgotten, unless all subjects are stable.
SkipsAreMaintained ==
    pc = "done" =>
        /\ Range(skip) \cap Range(solve) = {}
        /\ \A i \in DOMAIN input.user :
              /\ \E p \in Range(skip) : input.problems[p].subject = input.user[i].subject
              /\ \E j \in DOMAIN input.user : input.user[j].acc < Stable
              => 20 * (hours[i] - Slack) <= input.week
=============================================================================
