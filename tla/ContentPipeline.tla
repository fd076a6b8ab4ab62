-------------------------- MODULE ContentPipeline --------------------------
(***************************************************************************)
(* The content pipeline, scripts/cpa_data_pipeline.py: an operator runs     *)
(* lists of commands that read the seed files, fetch pages, and write one   *)
(* SQLite file and four JSON files.  Every command commits once, at its     *)
(* end; the JSON files are written after the commit they describe.  A run   *)
(* may end anywhere (an exception no handler catches, a killed process):    *)
(* what its connection had not committed is gone, what it had written to    *)
(* files stays.                                                            *)
(*                                                                         *)
(* A sentence is the set of the keywords it contains, a page (a body) the   *)
(* sequence of its sentences.                                              *)
(***************************************************************************)
EXTENDS Naturals, Sequences, FiniteSets, SequencesExt, Functions, Containers

CONSTANTS
    SourceOrder,  \* the rows of the sources file, by priority
    AssetOrder,   \* the rows of the exam assets file, by priority
    Bodies,       \* the pages a fetch may return
    Inputs,       \* the states of the seed files
    Invocations,  \* the command lines: [commands, limit, store_text]
    MaxSignals,   \* --max-signals-per-document
    MayKill,      \* whether the process may be killed
    MaxRuns,      \* bound on the number of runs
    None

\* Orders, pages and command lines are lists; a row of the assets file has the columns
\* that decide its job.
PipelineAssumption ==
    /\ SourceOrder \in Seq(Range(SourceOrder)) /\ AssetOrder \in Seq(Range(AssetOrder))
    /\ \A body \in Bodies : body \in Seq(Range(body))
    /\ MaxSignals \in Nat
    /\ \A inv \in Invocations : inv.limit \in Nat
    /\ \A in \in Inputs : \A a \in DOMAIN in.assets :
          {"asset_kind", "rights_policy"} \subseteq DOMAIN in.assets[a]

VARIABLES
    input,   \* the seed files
    db,      \* the committed tables
    tx,      \* the tables as the running connection sees them
    pub,     \* the JSON files
    run,     \* the running invocation: steps to do, rows to fetch, options
    runs     \* number of runs started

vars == <<input, db, tx, pub, run, runs>>

-----------------------------------------------------------------------------
(* Signals: what extraction makes of a sentence.                            *)

phase_for(s) ==
    CASE "lecture" \in s                          -> "lecture"
      [] s \cap {"objective", "solving"} # {}     -> "objective_entry"
      [] s \cap {"past_exam", "rotation"} # {}    -> "rotation"
      [] s \cap {"mock_exam", "exam_room"} # {}   -> "mock_exam"
      [] "last_days" \in s                        -> "final"
      [] OTHER                                    -> "general"

subject_for(s) ==
    LET accounting == s \cap {"accounting", "cost"} # {}
        tax        == s \cap {"tax", "corporate_tax", "verbal"} # {}
    IN  CASE accounting /\ tax -> "accounting_tax"
          [] accounting        -> "accounting"
          [] tax               -> "tax"
          [] OTHER             -> "general"

summarize_signal(s) ==
    CASE "objective" \in s                  -> {"objective"}
      [] "past_exam" \in s                  -> {"past_exam", "rotation"}
      [] {"tax", "verbal"} \subseteq s      -> {"tax", "verbal"}
      [] {"accounting", "tax"} \subseteq s  -> {"accounting", "tax", "time"}
      [] "accounting" \in s                 -> {"accounting"}
      [] "tax" \in s                        -> {"tax", "volatile"}
      [] "mock_exam" \in s                  -> {"mock_exam"}
      [] OTHER                              -> {"strategy"}

Keywords == {"accounting", "tax", "objective", "past_exam", "rotation",
             "mock_exam", "time", "strategy", "volatile", "verbal", "lecture"}

\* A sentence with two keywords, the first time it is read.
extract_signals_from_text(body) ==
    LET hits  == {i \in DOMAIN body : Cardinality(body[i] \cap Keywords) >= 2}
        fresh == {i \in hits : \A j \in 1 .. i - 1 : body[j] # body[i]}
        found == Selected([i \in DOMAIN body |-> i], fresh)
        kept  == FirstOf(found, MaxSignals)
        signal(s) == [anchor  |-> s,
                      value   |-> summarize_signal(s),
                      subject |-> subject_for(s),
                      phase   |-> phase_for(s)]
    IN  [i \in DOMAIN kept |-> signal(body[kept[i]])]

NoRule == "none"

classify_rule(sig) ==
    CASE "objective" \in sig.value \/ sig.phase = "objective_entry"
            -> "objective_entry_timing"
      [] sig.subject = "accounting_tax"
            -> "accounting_tax_core_focus"
      [] "past_exam" \in sig.value \/ sig.phase = "rotation"
            -> "past_exam_rotation"
      [] sig.subject = "tax" /\ sig.value \cap {"verbal", "volatile"} # {}
            -> "tax_verbal_recall"
      [] "time" \in sig.value \/ sig.phase = "mock_exam"
            -> "time_efficiency_guardrail"
      [] OTHER -> NoRule

-----------------------------------------------------------------------------
(* Rights.                                                                  *)

BLOCKED_RIGHTS_POLICIES ==
    {"permission_required", "rights_check_required", "license_required"}

TRAINING_REVIEW_POLICIES ==
    {"train_allowed_after_review", "train_after_rights_review"}

PROBLEM_SOLUTION_RIGHTS_ALLOWLIST ==
    {"original_sample", "synthetic_seed", "rights_cleared_past_exam"}

\* Mutant: the guardrail is gone and the file decides.
policy_of_the_file(a) ==
    IF a.source_type = "internal" /\ a.rights_policy = "owned_generated_content"
      THEN "train_allowed_after_review" ELSE a.training_policy

effective_training_policy(a) ==
    IF a.rights_policy \in BLOCKED_RIGHTS_POLICIES
      THEN "do_not_train_until_permission"
    ELSE IF a.source_type = "internal"
            /\ a.rights_policy = "owned_generated_content"
      THEN "train_allowed_after_review"
    ELSE a.training_policy

job_type(a) ==
    CASE a.asset_kind \in {"question", "question_answer"}
                                    -> "problem_parse_and_solve"
      [] a.asset_kind = "answer"      -> "answer_key_alignment"
      [] a.asset_kind = "explanation" -> "explanation_ingestion_or_generation"
      [] OTHER                        -> "asset_review"

job_status(a) ==
    LET policy == effective_training_policy(a)
    IN  IF a.source_type = "internal" /\ policy = "train_allowed_after_review"
          THEN "queued_generation"
        ELSE IF policy \in TRAINING_REVIEW_POLICIES
          THEN "queued_rights_review"
        ELSE "blocked"

-----------------------------------------------------------------------------
(* The tables.                                                              *)

Empty == [x \in {} |-> x]

Upsert(table, rows) ==   \* INSERT ... ON CONFLICT DO UPDATE, row by row
    [x \in DOMAIN table \cup DOMAIN rows |->
        IF x \in DOMAIN rows THEN rows[x] ELSE table[x]]

InsertOrIgnore(table, rows) ==   \* INSERT OR IGNORE
    [x \in DOMAIN table \cup DOMAIN rows |->
        IF x \in DOMAIN table THEN table[x] ELSE rows[x]]

EmptyTables ==
    [sources   |-> Empty,  \* url -> rights_policy
     status    |-> Empty,  \* collection_status, processing_status
     documents |-> <<>>,   \* documents and asset_documents
     signals   |-> <<>>,
     rules     |-> Empty,  \* rule_key -> source_signal_count
     links     |-> {},     \* rule_signal_links
     subjects  |-> {},
     targets   |-> Empty,  \* acquisition_targets: id -> rights_policy
     tutorials |-> Empty,  \* tutorial_id -> subject_id
     maps      |-> {},     \* problem_solution_maps: question ids
     assets    |-> Empty,
     jobs      |-> Empty,  \* <<asset_id, job_type>> -> status
     runs      |-> 0]      \* ingestion_runs

stats(t) ==
    [sources   |-> Cardinality(DOMAIN t.sources),
     documents |-> Cardinality({i \in DOMAIN t.documents : t.documents[i].kind = "fetched"}),
     signals   |-> Len(t.signals),
     rules     |-> t.rules,
     subjects  |-> Cardinality(t.subjects),
     targets   |-> Cardinality(DOMAIN t.targets),
     tutorials |-> Cardinality(DOMAIN t.tutorials),
     maps      |-> Cardinality(t.maps),
     statuses  |-> t.status,
     trainable |-> {j \in DOMAIN t.jobs :
                       t.jobs[j] \in {"queued_rights_review", "queued_generation"}}]

-----------------------------------------------------------------------------
(* A run: the commands of the command line, each as the steps of its        *)
(* branch of main(), then manifest and run record.                          *)

Steps(command) ==
    CASE command = "seed"      -> <<"seed_sources">>
      [] command = "ontology"  -> <<"seed_exam_ontology", "seed_acquisition_targets">>
      [] command = "tutorials" -> <<"seed_exam_ontology", "seed_subject_tutorials",
                                    "publish_tutorials">>
      [] command = "problem-solutions" ->
             <<"seed_exam_ontology", "seed_subject_tutorials", "publish_tutorials",
               "seed_problem_solution_maps", "publish_maps">>
      [] command = "exam-assets" ->
             <<"seed_past_exam_assets", "fetch_assets", "seed_problem_learning_jobs">>
      [] command = "fetch"     -> <<"fetch_sources">>
      [] command = "extract"   -> <<"extract_signals">>
      [] command = "rules"     -> <<"build_strategy_rules">>
      [] OTHER                 -> <<>>   \* init and stats write nothing

All == <<"init", "seed", "ontology", "tutorials", "problem-solutions",
         "exam-assets", "fetch", "extract", "rules", "stats">>

Program(commands) ==
    LET cmds == IF "all" \in Range(commands) THEN All ELSE commands
    IN  FlattenSeq([i \in DOMAIN cmds |-> Steps(cmds[i])])
          \o <<"write_manifest", "write_public_manifest", "record_run">>

Idle == [todo |-> <<>>, queue |-> <<>>, limit |-> 0, store_text |-> FALSE,
         all |-> FALSE]

Start(inv) ==
    /\ run = Idle
    /\ runs < MaxRuns
    /\ runs' = runs + 1
    /\ run' = [todo       |-> Program(inv.commands),
               queue      |-> <<>>,
               limit      |-> inv.limit,
               store_text |-> inv.store_text,
               all        |-> "all" \in Range(inv.commands)]
    /\ tx' = db
    /\ UNCHANGED <<input, db, pub>>

EditSeeds ==   \* between runs, by hand
    /\ run = Idle
    /\ runs \in 1 .. MaxRuns - 1
    /\ input' \in Inputs \ {input}
    /\ UNCHANGED <<db, tx, pub, run, runs>>

At(step) == run.todo # <<>> /\ Head(run.todo) = step

Advance == run' = [run EXCEPT !.todo = Tail(@)]

CommitAs(tables) ==   \* the statements of a step and its conn.commit()
    /\ tx' = tables
    /\ db' = tables
    /\ Advance
    /\ UNCHANGED <<input, pub, runs>>

seed_sources ==
    /\ At("seed_sources")
    /\ CommitAs([tx EXCEPT
           !.sources = InsertOrIgnore(@, input.sources),
           !.status  = InsertOrIgnore(@, [s \in DOMAIN input.sources |-> "seeded"])])

seed_exam_ontology ==
    /\ At("seed_exam_ontology")
    /\ CommitAs([tx EXCEPT !.subjects = @ \cup input.subjects])

seed_acquisition_targets ==
    /\ At("seed_acquisition_targets")
    /\ CommitAs([tx EXCEPT !.targets = Upsert(@, input.targets)])

seed_subject_tutorials ==   \* the three DELETEs, the INSERTs, one commit
    /\ At("seed_subject_tutorials")
    /\ Range(input.tutorials) \subseteq tx.subjects   \* the foreign key
    /\ CommitAs([tx EXCEPT !.tutorials = input.tutorials])

safe_problems ==
    {q \in DOMAIN input.questions :
        input.questions[q] \in PROBLEM_SOLUTION_RIGHTS_ALLOWLIST}

seed_problem_solution_maps ==
    /\ At("seed_problem_solution_maps")
    /\ CommitAs([tx EXCEPT !.maps = safe_problems])

Publish(step, file, content) ==
    /\ At(step)
    /\ pub' = [pub EXCEPT ![file] = content]
    /\ Advance
    /\ UNCHANGED <<input, db, tx, runs>>

publish_tutorials == Publish("publish_tutorials", "tutorials", input.tutorials)

publish_maps == Publish("publish_maps", "maps", safe_problems)

write_manifest == Publish("write_manifest", "manifest", stats(tx))

write_public_manifest ==
    Publish("write_public_manifest", "public_manifest", pub.manifest)

record_run ==
    /\ At("record_run")
    /\ db' = [tx EXCEPT !.runs = @ + 1]
    /\ tx' = db'
    /\ run' = Idle
    /\ UNCHANGED <<input, pub, runs>>

seed_past_exam_assets ==   \* an upsert that keeps processing_status
    /\ At("seed_past_exam_assets")
    /\ LET row(a) == [input.assets[a] EXCEPT
                        !.training_policy = effective_training_policy(input.assets[a])]
           rows   == [a \in DOMAIN input.assets |-> row(a)]
       IN CommitAs([tx EXCEPT
              !.assets = Upsert(@, rows),
              !.status = InsertOrIgnore(@, [a \in DOMAIN rows |-> "registered"])])

\* Mutant: the table is emptied before it is filled.
refill_problem_learning_jobs ==
    /\ At("seed_problem_learning_jobs")
    /\ LET job(a) == <<a, job_type(tx.assets[a])>>
       IN CommitAs([tx EXCEPT !.jobs =
              [j \in {job(a) : a \in DOMAIN tx.assets} |-> job_status(tx.assets[j[1]])]])

seed_problem_learning_jobs ==
    /\ At("seed_problem_learning_jobs")
    /\ LET job(a) == <<a, job_type(tx.assets[a])>>
           rows   == [j \in {job(a) : a \in DOMAIN tx.assets} |-> job_status(tx.assets[j[1]])]
       IN CommitAs([tx EXCEPT !.jobs = Upsert(@, rows)])

-----------------------------------------------------------------------------
(* The two fetch loops: one page per iteration, one commit at the end.      *)

Limited(rows) ==
    IF run.limit = 0 \/ Len(rows) <= run.limit THEN rows
    ELSE SubSeq(rows, 1, run.limit)

BeginFetch(step, loop, rows) ==
    /\ At(step)
    /\ run' = [run EXCEPT !.todo = <<loop>> \o Tail(@), !.queue = Limited(rows)]
    /\ UNCHANGED <<input, db, tx, pub, runs>>

fetch_sources ==
    BeginFetch("fetch_sources", "fetching_sources",
               Selected(SourceOrder, DOMAIN tx.sources))

fetch_past_exam_asset_metadata ==
    BeginFetch("fetch_assets", "fetching_assets",
               Selected(AssetOrder, {a \in DOMAIN tx.assets :
                                         tx.assets[a].fetch_policy = "metadata_page"}))

\* Mutant: content_hash alone is unique, not source_id with it.
RecordNewPage(doc, status) ==
    /\ LET known == \E d \in Range(tx.documents) :
                       doc.kind = "fetched" /\ d.body = doc.body
       IN tx' = [tx EXCEPT
                   !.documents = IF known THEN @ ELSE Append(@, doc),
                   !.status[doc.of] = status]
    /\ run' = [run EXCEPT !.queue = Tail(@)]
    /\ UNCHANGED <<input, db, pub, runs>>

\* One iteration: a document and the row's status.  A page is known by its hash,
\* which the row of a fetch that failed does not have.
Record(doc, status) ==
    /\ LET known == /\ doc.kind = "fetched"
                    /\ \E d \in Range(tx.documents) :
                          d.kind = "fetched" /\ d.of = doc.of /\ d.body = doc.body
       IN tx' = [tx EXCEPT
                   !.documents = IF known THEN @ ELSE Append(@, doc),
                   !.status[doc.of] = status]
    /\ run' = [run EXCEPT !.queue = Tail(@)]
    /\ UNCHANGED <<input, db, pub, runs>>

Failed(x, kind) == [of |-> x, kind |-> kind, body |-> <<>>, text |-> FALSE]

FetchSource ==   \* robots.txt forbids, a caught error, or a page
    /\ At("fetching_sources") /\ run.queue # <<>>
    /\ LET s == Head(run.queue)
       IN \/ Record(Failed(s, "robots"), "robots_disallowed")
          \/ Record(Failed(s, "failed"), "fetch_failed")
          \/ \E b \in Bodies :
                Record([of |-> s, kind |-> "fetched", body |-> b,
                        text |-> run.store_text
                                 \/ tx.sources[s] = "internal_analysis_only"],
                       "fetched")

FetchAsset ==
    /\ At("fetching_assets") /\ run.queue # <<>>
    /\ LET a == Head(run.queue)
       IN \/ Record(Failed(a, "robots"), "robots_disallowed")
          \/ Record(Failed(a, "failed"), "fetch_failed")
          \/ \E b \in Bodies, attachments \in BOOLEAN :
                Record([of |-> a, kind |-> "fetched", body |-> b, text |-> FALSE],
                       IF attachments THEN "metadata_fetched_with_attachments"
                                      ELSE "metadata_fetched")

EndFetch ==
    /\ At("fetching_sources") \/ At("fetching_assets")
    /\ run.queue = <<>>
    /\ CommitAs(tx)

-----------------------------------------------------------------------------
\* Mutant: documents that have been read are read again.
extract_signals_again ==
    /\ At("extract_signals")
    /\ LET found(d) == LET sigs == extract_signals_from_text(tx.documents[d].body)
                       IN  [i \in DOMAIN sigs |-> [document |-> d, signal |-> sigs[i]]]
       IN CommitAs([tx EXCEPT !.signals = @ \o FlattenSeq(
              [d \in DOMAIN tx.documents |->
                  IF tx.documents[d].text THEN found(d) ELSE <<>>])])

extract_signals ==
    /\ At("extract_signals")
    /\ LET unread(d) == /\ tx.documents[d].kind = "fetched"
                        /\ tx.documents[d].text
                        /\ \A i \in DOMAIN tx.signals : tx.signals[i].document # d
           found(d)  == LET sigs == extract_signals_from_text(tx.documents[d].body)
                        IN  [i \in DOMAIN sigs |-> [document |-> d, signal |-> sigs[i]]]
       IN CommitAs([tx EXCEPT !.signals = @ \o FlattenSeq(
              [d \in DOMAIN tx.documents |-> IF unread(d) THEN found(d) ELSE <<>>])])

build_strategy_rules ==
    /\ At("build_strategy_rules")
    /\ LET rule(i)  == classify_rule(tx.signals[i].signal)
           group(k) == {i \in DOMAIN tx.signals : rule(i) = k}
           keys     == {rule(i) : i \in DOMAIN tx.signals} \ {NoRule}
       IN CommitAs([tx EXCEPT
              !.rules = Upsert(@, [k \in keys |-> Cardinality(group(k))]),
              !.links = @ \cup UNION {{k} \X group(k) : k \in keys}])

(* A run that does not reach its end: conn.close() without a commit.        *)

Abandon ==
    /\ run' = Idle
    /\ tx' = db
    /\ UNCHANGED <<input, db, pub, runs>>

IntegrityError ==   \* a tutorial of a subject the ontology does not have
    /\ At("seed_subject_tutorials")
    /\ ~(Range(input.tutorials) \subseteq tx.subjects)
    /\ Abandon

FetchRaises ==   \* an exception the loop does not name, IncompleteRead say
    /\ At("fetching_sources") \/ At("fetching_assets")
    /\ run.queue # <<>>
    /\ Abandon

Killed == MayKill /\ run # Idle /\ Abandon

-----------------------------------------------------------------------------
Init ==
    /\ input \in Inputs
    /\ db = EmptyTables
    /\ tx = EmptyTables
    /\ pub = [f \in {"tutorials", "maps", "manifest", "public_manifest"} |-> None]
    /\ run = Idle
    /\ runs = 0

Finished == run = Idle /\ runs = MaxRuns /\ UNCHANGED vars

Next ==
    \/ \E inv \in Invocations : Start(inv)
    \/ EditSeeds
    \/ seed_sources \/ seed_exam_ontology \/ seed_acquisition_targets
    \/ seed_subject_tutorials \/ publish_tutorials
    \/ seed_problem_solution_maps \/ publish_maps
    \/ seed_past_exam_assets \/ seed_problem_learning_jobs
    \/ fetch_sources \/ fetch_past_exam_asset_metadata
    \/ FetchSource \/ FetchAsset \/ EndFetch
    \/ extract_signals \/ build_strategy_rules
    \/ write_manifest \/ write_public_manifest \/ record_run
    \/ IntegrityError \/ FetchRaises \/ Killed
    \/ Finished

Spec == Init /\ [][Next]_vars

-----------------------------------------------------------------------------
(* Properties.                                                              *)

\* The status of a source or an asset is backed by a document of that
\* outcome, whichever runs ended where: the loops of fetch_sources and
\* fetch_past_exam_asset_metadata never commit one without the other, and a
\* page that INSERT OR IGNORE drops is already there.
StatusHasDocument ==
    \A x \in DOMAIN db.status :
        LET kinds == {d.kind : d \in {e \in Range(db.documents) : e.of = x}}
        IN  CASE db.status[x] = "robots_disallowed"         -> "robots" \in kinds
              [] db.status[x] = "fetch_failed"              -> "failed" \in kinds
              [] db.status[x] \in {"seeded", "registered"}  -> kinds = {}
              [] OTHER                                      -> "fetched" \in kinds

\* No signal of a document is extracted twice, however often extraction is
\* run again or cut off, and the count of a strategy rule is the number of
\* signals it is linked to, all of them signals the rule is about.
RulesRestOnSignals ==
    /\ IsInjective(db.signals)
    /\ \A k \in DOMAIN db.rules :
          db.rules[k] = Cardinality({l \in db.links : l[1] = k})
    /\ \A l \in db.links :
          /\ l[1] \in DOMAIN db.rules
          /\ l[2] \in DOMAIN db.signals
          /\ classify_rule(db.signals[l[2]].signal) = l[1]

\* No commit takes away what earlier runs collected (documents, signals,
\* links, jobs, sources, subjects), and the two tables that are deleted and
\* filled again change only to the whole of the present input.
KeepsEvidence ==
    /\ IsPrefix(db.documents, db'.documents)
    /\ IsPrefix(db.signals, db'.signals)
    /\ db.links \subseteq db'.links
    /\ DOMAIN db.jobs \subseteq DOMAIN db'.jobs
    /\ Restrict(db'.sources, DOMAIN db.sources) = db.sources
    /\ db.subjects \subseteq db'.subjects
    /\ db'.tutorials # db.tutorials => db'.tutorials = input.tutorials
    /\ db'.maps # db.maps => db'.maps = safe_problems

CommitsKeepEvidence == [][KeepsEvidence]_db

\* When `all` has run to its end the tables, the four files and the seed
\* files agree: tutorials and maps are those of the input, in table and file;
\* both manifests describe the tables; every stored text that has signals has
\* been read; the job of an asset's kind is blocked wherever the rights in the
\* file do not permit training.
Agreement ==
    /\ db.tutorials = input.tutorials /\ pub.tutorials = input.tutorials
    /\ db.maps = safe_problems /\ pub.maps = safe_problems
    /\ pub.manifest = stats(db) /\ pub.public_manifest = stats(db)
    /\ DOMAIN input.sources \subseteq DOMAIN db.sources
    /\ \A d \in DOMAIN db.documents :
          db.documents[d].text /\ extract_signals_from_text(db.documents[d].body) # <<>>
             => \E i \in DOMAIN db.signals : db.signals[i].document = d
    /\ \A a \in DOMAIN input.assets :
          LET job == <<a, job_type(input.assets[a])>>
          IN  /\ job \in DOMAIN db.jobs
              /\ input.assets[a].rights_policy \in BLOCKED_RIGHTS_POLICIES
                    => db.jobs[job] = "blocked"

RunAgrees == run.all /\ db'.runs > db.runs => Agreement'

CompletedRunAgrees == [][RunAgrees]_vars
=============================================================================
