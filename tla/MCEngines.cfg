SPECIFICATION MCFairSpec
CONSTANTS
    l1 = l1
    l2 = l2
    None = None
    Terms <- ThreeTerms
    Missing <- Undefined
    Labels <- TwoLabels
    MaxPrereqs = 2
    MaxDepth = 2
    MaxWeeks = 20
    Inputs <- Requests
    MILLION = 1
    LossMaking = FALSE
    Problems <- LoggedProblems
    Kinds <- LogKinds
    Histories <- LogHistories
    MaxLogs = 2
    Contexts <- RefreshContexts
    Rules <- DecisionRules
    TimePressure = 5
    ConceptGap = 1
    Known <- TwoSubjects
    Groups <- SubjectGroups
    Banks <- QuestionBanks
    Commands <- CommandLines
    Environments <- EnvironmentSettings
    Texts <- WrittenTexts
INVARIANTS
    PathServesLearner
    PlanFitsLearner
    PracticeFitsLearner
    NeverWrong
    RuleMatchIsExact
    StageIsEarned
    RiskFollowsAnswers
    ReportIsTrue
    EnsembleFollowsVotes
PROPERTIES
    PathTerminates
CHECK_DEADLOCK FALSE
