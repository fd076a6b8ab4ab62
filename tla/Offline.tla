------------------------------- MODULE Offline -------------------------------
(***************************************************************************)
(* What operators run next to the server: the content pipeline, the        *)
(* generation of evaluation questions, the glossary, the explanations of   *)
(* real questions and the parser of examination papers.  They share no     *)
(* file: one of them runs in a behaviour, and the others have no state, or *)
(* stay at the initial one.                                                *)
(***************************************************************************)
EXTENDS Explanations, Integers, FiniteSets, TLC

CONSTANTS
    Running,          \* what may run
    SourceOrder, AssetOrder, Bodies, Inputs, Invocations, MaxSignals, MaxRuns,
    Runs, Specs, SUBJECTS, Matched, Batches, Patches, CrossChecked, MaxRetries, MaxNumber,
    Forms, Phases, Drafts, Targets, Queries, TopK,
    N, Papers

VARIABLES
    part,
    input, db, tx, pub, run, runs,
    questions, generation, raced,
    terms, edges, seeding, builtOf, hits,
    paper, parsed, recovered, served

pipeline == <<input, db, tx, pub, run, runs>>
generator == <<questions, generation, raced>>
glossary == <<terms, edges, seeding, builtOf, hits>>
parser == <<paper, parsed, recovered, served>>
allVars == <<part, pipeline, generator, glossary, vars, parser>>

Pipeline == INSTANCE ContentPipeline WITH MayKill <- Kills
Generator == INSTANCE EvalGeneration WITH files <- questions, run <- generation
Glossary == INSTANCE TermGraph
Parser == INSTANCE ExamPapers

ASSUME OfflineAssumption ==
    /\ ExplanationsAssumption
    /\ Generator!GenerationAssumption
    /\ Pipeline!PipelineAssumption
    /\ Glossary!GlossaryAssumption

-----------------------------------------------------------------------------
NoPipeline ==
    /\ input = None /\ db = None /\ tx = None /\ pub = None /\ run = None /\ runs = None
NoGlossary == terms = None /\ edges = None /\ seeding = None /\ builtOf = None /\ hits = None
NoParser == paper = None /\ parsed = None /\ recovered = None /\ served = None

OfflineInit ==
    /\ part \in Running
    /\ IF part = "pipeline" THEN Pipeline!Init ELSE NoPipeline
    /\ Generator!Init
    /\ IF part = "glossary" THEN Glossary!Init ELSE NoGlossary
    /\ Init
    /\ IF part = "parser" THEN Parser!Init ELSE NoParser

OfflineNext ==
    \/ part = "pipeline" /\ Pipeline!Next /\ UNCHANGED <<part, generator, glossary, vars, parser>>
    \/ part = "generator" /\ Generator!Next /\ UNCHANGED <<part, pipeline, glossary, vars, parser>>
    \/ part = "glossary" /\ Glossary!Next /\ UNCHANGED <<part, pipeline, generator, vars, parser>>
    \/ part = "explainer" /\ Next /\ UNCHANGED <<part, pipeline, generator, glossary, parser>>
    \/ part = "parser" /\ Parser!Next /\ UNCHANGED <<part, pipeline, generator, glossary, vars>>

OfflineSpec == OfflineInit /\ [][OfflineNext]_allVars

FairSpec ==
    OfflineSpec /\ \A g \in Runs : WF_<<questions, generation>>(part = "generator" /\ Generator!Step(g))
-----------------------------------------------------------------------------
\* cpa_data_pipeline.py: a status of a source rests on a document that is stored.
StatusHasDocument == part = "pipeline" => Pipeline!StatusHasDocument

\* cpa_data_pipeline.py: a rule rests on the signals it was made of.
RulesRestOnSignals == part = "pipeline" => Pipeline!RulesRestOnSignals

\* cpa_data_pipeline.py: no commit loses what was collected before.
CommitsKeepEvidence == [][part = "pipeline" => Pipeline!KeepsEvidence]_pipeline

\* cpa_data_pipeline.py: a run of all commands leaves tables and files that agree with
\* the input, whatever a run before it has left behind.
CompletedRunAgrees == [][part = "pipeline" => Pipeline!RunAgrees]_pipeline

\* generate_eval_set.py: the key of a stored question is the one that was checked.
StoredKeysAreChecked == Generator!StoredKeysAreChecked

\* writer.py: what a run has reported as written is there.
WrittenStays == Generator!WrittenStays

\* run_plan: a run ends, unless a subject names no file and has two questions.
RunsEnd == Generator!RunsEnd

\* writer.py: write_question ends.
WritesEnd == Generator!WritesEnd

\* build_term_graph.py and term_index.py: a term that a question names is found.
DefinitionsAreFound == part = "glossary" => Glossary!DefinitionsAreFound

\* parse_real_exams.py: a question that is not flagged is the one on the paper.
UnflaggedIsThePaper == part = "parser" => Parser!UnflaggedIsThePaper
=============================================================================
