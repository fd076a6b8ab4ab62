SPECIFICATION FairSpec
CONSTANTS
    Running = {"pipeline", "generator", "glossary", "explainer", "parser"}
    Kills = TRUE
    SourceOrder <- TheSources
    AssetOrder <- TheAssets
    Bodies <- ThePages
    Inputs <- TheInputs
    Invocations <- TheInvocations
    MaxSignals = 3
    MaxRuns = 2
    Runs = {g1, g2}
    Specs <- TheSpecs
    SUBJECTS = {"tax", "accounting"}
    Matched = {"tax", "accounting"}
    Batches <- TheBatches
    Patches <- ThePatches
    CrossChecked = {g1}
    MaxRetries = 1
    MaxNumber = 3
    Forms <- TheForms
    Phases <- ThePhases
    Drafts <- TheDrafts
    Targets <- TheTargets
    Queries <- TheQueries
    TopK = 3
    N = 4
    Papers <- ThePapers
    Questions <- ExamQuestions
    MaxTexts = 2
    MaxErrors = 2
    g1 = g1
    g2 = g2
    None = None
INVARIANTS
    StatusHasDocument
    
    StoredKeysAreChecked
    WrittenStays
    DefinitionsAreFound
    GateHolds
    
PROPERTIES
    CommitsKeepEvidence
    CompletedRunAgrees
    RunsEnd
CHECK_DEADLOCK FALSE
