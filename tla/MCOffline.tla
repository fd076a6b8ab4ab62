------------------------------ MODULE MCOffline ------------------------------
(***************************************************************************)
(* Offline for TLC: the seed files, the replies of models, the terms and   *)
(* the papers of a small instance.                                         *)
(***************************************************************************)
EXTENDS Offline

CONSTANTS g1, g2

-----------------------------------------------------------------------------
(* The pipeline: two sources, two assets, a page.  The input is edited    *)
(* between runs: an asset changes its kind and loses its rights, a         *)
(* question loses its rights, a tutorial moves to a subject that the       *)
(* ontology does not have.                                                 *)

StoryPage == << {"accounting", "tax"}, {"rotation", "past_exam"},
                {"accounting", "tax"}, {"lecture"} >>

Asset(kind, rights, policy, type, fetch) ==
    [asset_kind |-> kind, rights_policy |-> rights, training_policy |-> policy,
     source_type |-> type, fetch_policy |-> fetch]

Own == Asset("explanation", "owned_generated_content", "train_allowed_after_review",
             "internal", "internal_queue")

First ==
    [sources   |-> [story |-> "internal_analysis_only", statistics |-> "metadata_only"],
     subjects  |-> {"tax"},
     targets   |-> [law |-> "public_law_text_with_attribution"],
     tutorials |-> [t1 |-> "tax"],
     questions |-> [q1 |-> "synthetic_seed", q2 |-> "permission_required"],
     assets    |-> [official |-> Asset("question", "official_download_check_required",
                                       "train_after_rights_review", "official",
                                       "metadata_page"),
                    own |-> Own]]

Changed ==
    [First EXCEPT
        !.subjects  = {"tax", "law"},
        !.tutorials = [t1 |-> "tax", t2 |-> "law"],
        !.questions = [q1 |-> "rights_check_required", q2 |-> "synthetic_seed"],
        !.assets.official = Asset("explanation", "permission_required",
                                  "train_after_rights_review", "academy_public_page",
                                  "metadata_page")]

Broken == [First EXCEPT !.tutorials = [t1 |-> "economics"]]

TheSources == <<"story", "statistics">>
TheAssets == <<"official", "own">>
ThePages == {StoryPage}
TheInputs == {First, Changed, Broken}
TheInvocations ==
    {[commands |-> <<"all">>, limit |-> 0, store_text |-> FALSE],
     [commands |-> <<"fetch", "extract", "rules">>, limit |-> 1, store_text |-> TRUE]}

-----------------------------------------------------------------------------
(* Questions whose key and answer disagree, that miss a field, have null   *)
(* in one, or a subject that names no file; two runs of the generator.     *)

A == <<"a", 0>>
B == <<"b", 0>>
B2 == <<"b", 1>>
C == <<"c", 0>>

Asked(c, k) == [choices |-> c, correct_choice |-> k]
Sure(c, k, t) == Asked(c, k) @@ [correct_answer |-> t]

TheBatches ==
    {<<[correct_choice |-> 0], Sure(<<B, A>>, 0, C)>>,
     <<Asked(<<B, A>>, 0) @@ [subject |-> "odd"], Sure(<<A, B>>, 0, B2)>>,
     <<Asked(<<A, B>>, 0) @@ [subject |-> None, flagged_questionable |-> TRUE]>>}

Planned(s, n) == [parts |-> 4, subject |-> s, unit |-> "unit", difficulty |-> "mid", count |-> n]

TheSpecs == g1 :> {<<Planned("tax", 2)>>} @@ g2 :> {<<Planned("tax", 1)>>, <<Planned("history", 1)>>}
ThePatches == {[choices |-> <<B, A>>, correct_choice |-> 1, subject |-> "tax"]}

-----------------------------------------------------------------------------
(* The glossary: aliases that contain each other, a confusable term that   *)
(* nobody wrote, a form of one character.                                  *)

Form(a, n, t) == [ascii |-> a, length |-> n, tokens |-> t]
TheForms == "NPV" :> Form(TRUE, 3, {1}) @@ "PV" :> Form(TRUE, 2, {2}) @@ "present value" :> Form(FALSE, 4, {3})
      @@ "net present value" :> Form(FALSE, 5, {4, 5}) @@ "IRR" :> Form(TRUE, 3, {6}) @@ "d" :> Form(FALSE, 1, {})
Apart(f) == [form |-> f, apart |-> TRUE]
Within(f) == [form |-> f, apart |-> FALSE]
TheDrafts == "npv" :> [forms |-> {"NPV", "net present value"}, confusable |-> {"irr"}, prerequisites |-> {"pv"}]
       @@ "pv" :> [forms |-> {"PV", "present value", "d"}, confusable |-> {}, prerequisites |-> {}]
       @@ "irr" :> [forms |-> {"IRR"}, confusable |-> {"npv", "mirr"}, prerequisites |-> {"npv"}]
Target(k, s, kw, x) == [kind |-> k, subject |-> s, keywords |-> kw, text |-> x]
TheTargets == << Target("rag_chunk", "finance", {"NPV"}, {Apart("NPV"), Apart("net present value"), Within("present value")}),
              Target("rag_chunk", "general", {}, {Apart("PV"), Within("d")}),
              Target("rag_chunk", "tax", {"present value"}, {Apart("present value")}),
              Target("rag_chunk", "finance", {}, {Within("IRR"), Within("NPV"), Apart("IRR")}),
              Target("problem", "finance", {"NPV"}, {Apart("PV")}),
              Target("tutorial", "finance", {}, {Apart("IRR")}) >>
TheQueries == {[text |-> x, tokens |-> t, subject |-> s] :
              x \in {{}, {Apart("PV")}, {Within("PV"), Apart("NPV")}, {Apart("net present value"), Within("present value")}, {Apart("IRR"), Within("d")}},
              t \in {{}, {10, 11}}, s \in {"finance", "tax"}}
ThePhases == "phase2" :> <<"npv", "pv">> @@ "phase4" :> <<"irr">>

-----------------------------------------------------------------------------
ExamQuestions == <<"q1", "q2">>

-----------------------------------------------------------------------------
(* Papers of four questions with circled lists and shared data, and one    *)
(* disturbance: the line that starts a question was lost, or lines of one  *)
(* text look like the start of a question.                                 *)

Quiet == [of \in 0 .. 4 \cup {100} |-> <<>>]
Base == [lost |-> {}, decoys |-> Quiet, lists |-> [q \in 1 .. 4 |-> 0], shared |-> 0, lossy |-> {2}]
Lists == {Base.lists} \cup {[Base.lists EXCEPT ![q] = k] : q \in 2 .. 3, k \in {2, 5}}
DecoyRuns == {<<1>>, <<2>>, <<4>>, <<1, 2>>, <<1, 2, 3>>, <<3, 4>>}
Noises == {[lost |-> l, decoys |-> Quiet] : l \in {{}} \cup {{q} : q \in 1 .. 4}}
      \cup {[lost |-> {}, decoys |-> [Quiet EXCEPT ![of] = d]] : of \in DOMAIN Quiet, d \in DecoyRuns}
ThePapers == {[lost |-> e.lost, decoys |-> e.decoys, lists |-> l, shared |-> s, lossy |-> {2}] :
                e \in Noises, l \in Lists, s \in {0, 2}}
=============================================================================
