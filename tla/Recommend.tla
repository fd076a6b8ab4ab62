------------------------------- MODULE Recommend -------------------------------
(***************************************************************************)
(* recommend_problems: which problems to solve next, and which to skip.    *)
(* Pure functions of the user state, the problems and what was attempted.  *)
(*                                                                         *)
(* A problem is a record: its subject, whether one of the user's weak      *)
(* concepts matches its tags (text, an input), whether it was attempted,   *)
(* and whether it is short.  Problems are numbered in the order of their   *)
(* ids.  Scores and accuracies are in tenths.                              *)
(***************************************************************************)
EXTENDS Containers, SequencesExt

\* Mutant: what would pass may be skipped.
SkippableAtPass == 6

\* The least accuracy in tenths that is not below 0.75.
Skippable == 8
Failing == 4

Subjects(user) == {user[i].subject : i \in DOMAIN user}
StateOf(user, s) == CHOOSE st \in Range(user) : st.subject = s

\* Mutant: every weak concept that matches is counted.
ScoreTwice(user, p) ==
    IF p.subject \notin Subjects(user) THEN IF p.seen THEN 0 ELSE 5
    ELSE LET st == StateOf(user, p.subject)
         IN  10 - st.acc
             + (IF st.acc < Failing THEN 15 ELSE 0)
             + (IF p.matched THEN 16 ELSE 0)
             - (IF p.seen THEN 5 ELSE 0)
             + (IF p.short /\ st.hurried THEN 2 ELSE 0)

\* _score_item
Score(user, p) ==
    IF p.subject \notin Subjects(user) THEN IF p.seen THEN 0 ELSE 5
    ELSE LET st == StateOf(user, p.subject)
         IN  10 - st.acc
             + (IF st.acc < Failing THEN 15 ELSE 0)
             + (IF p.matched THEN 8 ELSE 0)
             - (IF p.seen THEN 5 ELSE 0)
             + (IF p.short /\ st.hurried THEN 2 ELSE 0)

\* The members of S in the order of Before.
Sorted(S, Before(_, _)) == Ranked(S, {c \in S \X S : Before(c[1], c[2])})

\* The best scores, of equal ones the first problem.
ByScore(user, problems, n) ==
    LET score == [p \in DOMAIN problems |-> Score(user, problems[p])]
        before(p, q) == score[p] > score[q] \/ (score[p] = score[q] /\ p < q)
    IN  FirstOf(Sorted(DOMAIN problems, before), n)

\* _balanced_solve_entries: one problem of each subject in turn.
InTurn(problems, n) ==
    LET round == [p \in DOMAIN problems |->
            Cardinality({q \in DOMAIN problems : q < p /\ problems[q].subject = problems[p].subject})]
        before(p, q) == \/ round[p] < round[q]
                        \/ round[p] = round[q] /\ problems[p].subject < problems[q].subject
    IN  FirstOf(Sorted(DOMAIN problems, before), n)

\* A user without any subject state gets problems of every subject.
ToSolve(user, problems, n) ==
    IF user = <<>> THEN InTurn(problems, n) ELSE ByScore(user, problems, n)

\* _skip_entries: of the stable subjects, the most stable first, what is not to be
\* solved.
ToSkip(user, problems, solve, n) ==
    LET acc(p) == StateOf(user, problems[p].subject).acc
        candidates == {p \in DOMAIN problems :
                          /\ problems[p].subject \in Subjects(user) /\ acc(p) >= Skippable
                          /\ \A i \in DOMAIN solve : solve[i] # p}
        before(p, q) == acc(p) > acc(q) \/ (acc(p) = acc(q) /\ p < q)
    IN  FirstOf(Sorted(candidates, before), n)
=============================================================================
