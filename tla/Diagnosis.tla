------------------------------- MODULE Diagnosis -------------------------------
(***************************************************************************)
(* The loop of a learner: POST /logs records answers, POST                 *)
(* /user-state/refresh makes a state of all of them (aggregate.py) and     *)
(* prescribes by it (prescribe.py).                                        *)
(*                                                                         *)
(* A log is one of Kinds: [problem, correct, slow (over the problem's      *)
(* skip_threshold_seconds), tags (mistake_categories)].  The code only     *)
(* counts logs, so those of a learner are a bag of kinds.  Rates are       *)
(* fractions <<part, whole>>, exact where the code rounds to four          *)
(* decimals.  Tags and concepts are numbered in alphabetical order.        *)
(***************************************************************************)
EXTENDS Integers, Sequences, FiniteSets, SequencesExt, FiniteSetsExt, Functions

CONSTANTS
    Problems,       \* by id: [subject, concept, timed, tags]
    Kinds,
    Histories,      \* the logs a learner may have at first
    MaxLogs,        \* bound on the logs after that
    Contexts,       \* of a refresh: [days, stage], the stage None if it is to be inferred
    Rules,          \* decision rules by number, best confidence first
    TimePressure, ConceptGap,   \* two of the tags
    Known,          \* subjects.py: SUBJECTS
    Groups,         \* and GROUPS, a function to sets of subjects
    None

DiagnosisAssumption ==
    /\ IsFiniteSet(Kinds)
    /\ Histories \subseteq [Kinds -> Nat]
    /\ IsFiniteSet(DOMAIN Rules)
    /\ \A c \in Contexts : c.stage \in 1 .. 6 \cup {None}

VARIABLES
    logs,       \* how many of each kind
    added,      \* logs since the start
    rx,         \* the last prescription: [logs, context, state, ...]
    before      \* history: the one it has replaced, if that was for the same context,
                \* until the logs change

vars == <<logs, added, rx, before>>

Total(f) == FoldFunction(+, 0, f)
Of(bag, P(_)) == SumFunctionOnSet(bag, {k \in Kinds : P(k)})

Init ==
    /\ logs \in Histories
    /\ added = 0
    /\ rx = None /\ before = None
-----------------------------------------------------------------------------
(* aggregate.py *)

Subject(k) == Problems[k.problem].subject
Concept(k) == Problems[k.problem].concept

\* part / whole < percent / 100; a rate of nothing is 0.
Below(rate, percent) == rate[2] = 0 \/ 100 * rate[1] < percent * rate[2]

\* Mutant: right answers of the subject among the answers in all subjects.
AccuracyAmongAll(bag, s) == <<Of(bag, LAMBDA k : Subject(k) = s /\ k.correct), Total(bag)>>

Accuracy(bag, s) ==
    <<Of(bag, LAMBDA k : Subject(k) = s /\ k.correct), Of(bag, LAMBDA k : Subject(k) = s)>>

Overrun(bag, s) ==
    <<Of(bag, LAMBDA k : Subject(k) = s /\ Problems[k.problem].timed /\ k.slow),
      Of(bag, LAMBDA k : Subject(k) = s /\ Problems[k.problem].timed)>>

\* The concepts of the problems of s that were answered, and the rate of right answers.
_aggregate_concept_mastery(bag, s) ==
    LET with == {k \in Kinds : bag[k] > 0 /\ Subject(k) = s /\ Concept(k) # None}
    IN  [c \in {Concept(k) : k \in with} |->
            <<Of(bag, LAMBDA k : k \in with /\ Concept(k) = c /\ k.correct),
              Of(bag, LAMBDA k : k \in with /\ Concept(k) = c)>>]

\* The elements of S in the order of less, which is strict and total.
Ordered(S, less(_, _)) ==
    [i \in 1 .. Cardinality(S) |-> CHOOSE x \in S : Cardinality({y \in S : less(y, x)}) = i - 1]

AtMost(seq, n) == SubSeq(seq, 1, Min({n, Len(seq)}))

\* The tags of the learner, those given most often first; two that behaviour suggests
\* take the places that are left of three.
_combine_risk_tags(counts, overrun, mastery) ==
    LET explicit == AtMost(Ordered(DOMAIN counts,
                        LAMBDA a, b : counts[a] > counts[b] \/ (counts[a] = counts[b] /\ a < b)), 3)
        inferred == SelectSeq(<<TimePressure, ConceptGap>>, LAMBDA t :
                        /\ t \notin Range(explicit)
                        /\ \/ t = TimePressure /\ ~Below(overrun, 30)
                           \/ t = ConceptGap /\ \E c \in DOMAIN mastery : Below(mastery[c], 40))
    IN  AtMost(explicit \o inferred, 3)

TagCounts(bag, s) ==
    LET with == {k \in Kinds : bag[k] > 0 /\ Subject(k) = s}
    IN  [t \in UNION {k.tags : k \in with} |-> Of(bag, LAMBDA k : k \in with /\ t \in k.tags)]

aggregate_subject_state(bag, s) ==
    LET overrun == Overrun(bag, s)
        mastery == _aggregate_concept_mastery(bag, s)
    IN  [accuracy |-> Accuracy(bag, s), overrun |-> overrun, mastery |-> mastery,
         tags |-> _combine_risk_tags(TagCounts(bag, s), overrun, mastery)]

\* The stages in their order, by number: intro, post_lecture, objective_entry,
\* past_exam_rotation, mock_exam, final.
\* Mutant: few logs and a low accuracy are needed to be held back.
infer_stage_of_both(n, correct) ==
    CASE n = 0 -> 1
      [] n \in 1 .. 29 -> 2
      [] n >= 30 /\ n < 80 /\ Below(<<correct, n>>, 50) -> 3
      [] n >= 30 /\ n < 200 /\ Below(<<correct, n>>, 62) -> 4
      [] n >= 30 /\ n < 400 /\ Below(<<correct, n>>, 72) -> 5
      [] OTHER -> 6

infer_current_stage(n, correct) ==
    CASE n = 0 -> 1
      [] n \in 1 .. 29 -> 2
      [] n >= 30 /\ (n < 80 \/ Below(<<correct, n>>, 50)) -> 3
      [] n >= 80 /\ ~Below(<<correct, n>>, 50) /\ (n < 200 \/ Below(<<correct, n>>, 62)) -> 4
      [] n >= 200 /\ ~Below(<<correct, n>>, 62) /\ (n < 400 \/ Below(<<correct, n>>, 72)) -> 5
      [] OTHER -> 6

\* Only subjects that are registered; the stage is inferred from all logs.
aggregate_user_state(bag, context) ==
    [stage |-> IF context.stage # None THEN context.stage
               ELSE infer_current_stage(Total(bag), Of(bag, LAMBDA k : k.correct)),
     days |-> context.days,
     subjects |-> [s \in {Subject(k) : k \in {j \in Kinds : bag[j] > 0}} \cap Known |->
                      aggregate_subject_state(bag, s)]]
-----------------------------------------------------------------------------
(* prescribe.py *)

matches_rule_subject(rs, subjects) ==
    \/ rs = "general"
    \/ rs \in DOMAIN Groups /\ Groups[rs] \subseteq subjects
    \/ rs \in Known /\ rs \in subjects

_user_risk_tags(state) == UNION {Range(state.subjects[s].tags) : s \in DOMAIN state.subjects}

\* What a rule does not ask for is given.
_matches(rule, state) ==
    /\ rule.stages = {} \/ state.stage \in rule.stages
    /\ rule.subjects = {} \/ \E rs \in rule.subjects : matches_rule_subject(rs, DOMAIN state.subjects)
    /\ rule.tags = {} \/ rule.tags \cap _user_risk_tags(state) # {}

Matched(state) == {r \in DOMAIN Rules : _matches(Rules[r], state)}

\* The subject of a task: that of the rule if it is one, and of the learner.
primary_subject(rule, state) ==
    LET singles == rule.subjects \cap Known \cap DOMAIN state.subjects
    IN  IF Cardinality(singles) = 1 THEN CHOOSE s \in singles : TRUE ELSE "mixed"

_estimated_minutes(count) == CASE count >= 10 -> 60 [] count \in 3 .. 9 -> 45 [] OTHER -> 30

\* The mean of the rates is below one half.
Gaps(mastery) ==
    LET concepts == DOMAIN mastery
        whole == FoldFunction(LAMBDA a, b : a * b, 1, [c \in concepts |-> mastery[c][2]])
        sum == Total([c \in concepts |-> (mastery[c][1] * whole) \div mastery[c][2]])
    IN  mastery # <<>> /\ 2 * sum < Cardinality(concepts) * whole

\* What the state of a subject adds to the risk.
SubjectRisk(st) ==
    (IF Below(st.accuracy, 40) THEN 20 ELSE 0)
    + (IF 100 * st.overrun[1] > 30 * st.overrun[2] THEN 15 ELSE 0)
    + (IF Gaps(st.mastery) THEN 15 ELSE 0)

_risk_score(state, matched) ==
    Min({100,
         Total([s \in DOMAIN state.subjects |-> SubjectRisk(state.subjects[s])])
         + (CASE state.days < 30 -> 25 [] state.days \in 30 .. 59 -> 10 [] OTHER -> 0)
         + (CASE Cardinality(matched) >= 5 -> 20 [] Cardinality(matched) \in 3 .. 4 -> 10 [] OTHER -> 0)})

RiskLevel(score) == CASE score >= 50 -> 3 [] score \in 25 .. 49 -> 2 [] OTHER -> 1

\* The tasks of the day: one for each rule, in the order of their confidence, and one
\* to gather logs if there is none.
_daily_tasks(state, matched) ==
    IF matched = {} THEN <<[rule |-> None, subject |-> "mixed", minutes |-> 60]>>
    ELSE [i \in 1 .. Cardinality(matched) |->
            LET r == Ordered(matched, <)[i]
            IN  [rule |-> r, subject |-> primary_subject(Rules[r], state),
                 minutes |-> _estimated_minutes(Rules[r].count)]]

prescribe(bag, context) ==
    LET state == aggregate_user_state(bag, context)
        matched == Matched(state)
        score == _risk_score(state, matched)
    IN  [logs |-> bag, context |-> context, state |-> state, matched |-> matched,
         score |-> score, level |-> RiskLevel(score), tasks |-> _daily_tasks(state, matched)]
-----------------------------------------------------------------------------
(* The handlers *)

\* POST /logs takes answers to problems that are known only.
AddLog(k) ==
    /\ added < MaxLogs
    /\ k.problem \in DOMAIN Problems
    /\ logs' = [logs EXCEPT ![k] = @ + 1]
    /\ added' = added + 1
    /\ before' = None
    /\ UNCHANGED rx

ClearLogs ==
    /\ Total(logs) > 0
    /\ logs' = [k \in Kinds |-> 0]
    /\ before' = None
    /\ UNCHANGED <<added, rx>>

\* POST /user-state/refresh, refused without logs.
Refresh ==
    /\ Total(logs) > 0
    /\ \E c \in Contexts :
          /\ rx' = prescribe(logs, c)
          /\ before' = CASE rx' = rx -> before
                       [] rx' # rx /\ rx # None -> IF rx.context = c THEN rx ELSE None
                       [] OTHER -> None
    /\ UNCHANGED <<logs, added>>

Next == (\E k \in Kinds : AddLog(k)) \/ ClearLogs \/ Refresh

Spec == Init /\ [][Next]_vars
-----------------------------------------------------------------------------
(* Properties *)

\* The weaker of the amount of logs and of their accuracy decides the stage: nobody is
\* in a stage that one of the two does not allow, nor held back when both allow more.
\* A stage that the learner names is kept.
StageIsEarned ==
    rx # None =>
        LET n == Total(rx.logs)
            right == Of(rx.logs, LAMBDA k : k.correct)
            byAmount == Cardinality({m \in {1, 30, 80, 200, 400} : n >= m}) + 1
            byAccuracy == 3 + Cardinality({p \in {50, 62, 72} : 100 * right >= p * n})
        IN  IF rx.context.stage # None THEN rx.state.stage = rx.context.stage
            ELSE rx.state.stage = IF n < 30 THEN byAmount ELSE Min({byAmount, byAccuracy})

Clean(k) == k.tags = {} /\ Subject(k) \in Known

\* Since the prescription before, with the same days and stage, only answers of this
\* kind were added, in subjects there were answers in already.
OnlyAdded(P(_)) ==
    /\ rx # None /\ before # None
    /\ rx.logs # before.logs
    /\ \A k \in Kinds : rx.logs[k] >= before.logs[k]
    /\ \A k \in Kinds : rx.logs[k] > before.logs[k] =>
          Clean(k) /\ P(k) /\ Subject(k) \in DOMAIN before.state.subjects

\* Practice that goes well is never held against the learner: with right and quick
\* answers only, no subject becomes a greater risk, the stage does not fall, and the
\* score is no higher unless more rules apply.  With wrong and slow ones only, it is
\* never less.
RiskFollowsAnswers ==
    LET risk(p, s) == SubjectRisk(p.state.subjects[s])
        subjects == DOMAIN before.state.subjects
        few(p) == Cardinality(p.matched) IN
    /\ OnlyAdded(LAMBDA k : k.correct /\ ~k.slow) =>
          /\ \A s \in subjects : risk(rx, s) <= risk(before, s)
          /\ rx.state.stage >= before.state.stage
          /\ few(rx) <= few(before) => rx.level <= before.level
    /\ OnlyAdded(LAMBDA k : ~k.correct /\ (k.slow \/ ~Problems[k.problem].timed)) =>
          /\ \A s \in subjects : risk(rx, s) >= risk(before, s)
          /\ few(rx) >= few(before) => rx.level >= before.level
=============================================================================
