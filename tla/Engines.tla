-------------------------------- MODULE Engines --------------------------------
(***************************************************************************)
(* The engines of the server, the rules of the solver and the benchmark    *)
(* that runs it.  They are computations that share no variable: one of     *)
(* them runs in a behaviour, and those that do not have no state.          *)
(***************************************************************************)
EXTENDS LearningPath, Planning

CONSTANTS
    MILLION, LossMaking,
    Problems, Kinds, Histories, MaxLogs, Contexts, Rules, TimePressure, ConceptGap, Known, Groups,
    Commands, Environments, Banks, Texts

VARIABLES
    part,
    question, tried, result, topic, twist, pure,
    logs, added, rx, before,
    bank, command, environment, solver, scores, answers, report, benchPc

Solve == INSTANCE MCReasonedRules
Learner == INSTANCE Diagnosis
Bench == INSTANCE Benchmark WITH pc <- benchPc

rules == <<question, tried, result, topic, twist, pure>>
state == <<logs, added, rx, before>>
bench == <<bank, command, environment, solver, scores, answers, report, benchPc>>
allVars == <<part, vars, plan, rules, state, bench>>

ASSUME EnginesAssumption ==
    /\ LearningPathAssumption
    /\ Learner!DiagnosisAssumption
    /\ Bench!BenchmarkAssumption

-----------------------------------------------------------------------------
NoTrace ==
    /\ prereq = None /\ match = None /\ maxDepth = None /\ weak = None /\ unmatched = None
    /\ roots = None /\ depth = None /\ goal = None /\ via = None /\ queue = None
    /\ current = None /\ todo = None /\ path = None /\ pc = None
NoPlan ==
    /\ request = None /\ solve = None /\ skip = None /\ stages = None /\ days = None
    /\ tutorials = None /\ year = None /\ hours = None /\ planPc = None
NoRules ==
    question = None /\ tried = None /\ result = None /\ topic = None /\ twist = None /\ pure = None
NoState == logs = None /\ added = None /\ rx = None /\ before = None
NoBench ==
    /\ bank = None /\ command = None /\ environment = None /\ solver = None
    /\ scores = None /\ answers = None /\ report = None /\ benchPc = None

EnginesInit ==
    /\ part \in {"path", "plan", "rules", "diagnosis", "benchmark"}
    /\ IF part = "path" THEN Init ELSE NoTrace
    /\ IF part = "plan" THEN Guide!Init ELSE NoPlan
    /\ IF part = "rules" THEN Solve!Init ELSE NoRules
    /\ IF part = "diagnosis" THEN Learner!Init ELSE NoState
    /\ IF part = "benchmark" THEN Bench!Init ELSE NoBench

EnginesNext ==
    \/ part = "path" /\ Next /\ UNCHANGED <<part, plan, rules, state, bench>>
    \/ part = "plan" /\ Guide!Next /\ UNCHANGED <<part, vars, rules, state, bench>>
    \/ part = "rules" /\ Solve!Next /\ UNCHANGED <<part, vars, plan, state, bench>>
    \/ part = "diagnosis" /\ Learner!Next /\ UNCHANGED <<part, vars, plan, rules, bench>>
    \/ part = "benchmark" /\ Bench!Next /\ UNCHANGED <<part, vars, plan, rules, state>>

EnginesSpec == EnginesInit /\ [][EnginesNext]_allVars

-----------------------------------------------------------------------------
(* Properties                                                              *)

\* build_learning_path: the depth of a term is its distance from what the learner is
\* weak at, its "why" is true, and nothing on the path is there for nothing.
PathServesLearner ==
    part = "path" => TypeOK /\ DepthIsDistance /\ WhyIsTrue /\ PathServesRoots

\* The search ends on any graph of terms, cycles included.
PathTerminates == part = "path" => Terminates

\* build_study_plan: the weeks reach the examination, every tutorial is in one of them,
\* and the weaker subject has the more hours.
PlanFitsLearner ==
    part = "plan" => Guide!WeeksLeadToExam /\ Guide!ContentOnce /\ Guide!HoursFollowWeakness

\* recommend_problems: failing subjects first, and what is to be skipped is not to be
\* solved and has no more than the hours that keep it from being forgotten.
PracticeFitsLearner == part = "plan" => Guide!FailingFirst /\ Guide!SkipsAreMaintained

\* reasoned.py: a rule leaves a question alone rather than answer it wrongly, and a
\* reviewed answer is found again by its text.
NeverWrong == part = "rules" => Solve!NeverWrong /\ Solve!BankFollowsText

\* reasoned.py: the order of the rules does not matter, and a question of a kind the
\* solver knows is answered by the rule made for it.
RuleMatchIsExact == part = "rules" => Solve!OrderDoesNotMatter /\ Solve!OwnRuleAnswers

\* aggregate.py: the weaker of the amount of logs and of their accuracy decides the
\* stage a learner is in.
StageIsEarned == part = "diagnosis" => Learner!StageIsEarned

\* prescribe.py: practice that goes well is never held against the learner, and
\* practice that does not is never to their credit.
RiskFollowsAnswers == part = "diagnosis" => Learner!RiskFollowsAnswers

\* runner.py: the report agrees with what was asked and answered.
ReportIsTrue == part = "benchmark" => Bench!ReportIsTrue

\* ensemble.py: no answer has more votes than the one that is given.
EnsembleFollowsVotes == part = "benchmark" => Bench!EnsembleFollowsVotes

\* solver.py: a solver that was named is the solver that is asked.
MembersAreNamed == part = "benchmark" => Bench!MembersAreNamed
=============================================================================
