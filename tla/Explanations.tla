------------------------------ MODULE Explanations ------------------------------
(***************************************************************************)
(* Explanations of real examination questions: explain_gen/generator.py    *)
(* has a language model solve each question and stores what it wrote,      *)
(* explain_gen/judge.py has another one judge the reasoning, and the API   *)
(* server shows the texts by both files (real_exams.py).                   *)
(*                                                                         *)
(* Every text has a number.  The two batches may run at the same time, and *)
(* be killed; a file that is being written is then torn.                   *)
(***************************************************************************)
EXTENDS Naturals, Sequences, Functions

CONSTANTS
    Questions,      \* in the order of a batch
    MaxTexts,       \* bound on the texts that are written
    MaxErrors,      \* consecutive errors that end a batch
    Kills,          \* whether a batch may be killed
    None

VARIABLES
    explanations,   \* the files: [text, status], of text 0 when torn
    judgments,      \* [of, verdict]
    batch,          \* the two batches: [todo, skip, errors, seen, result], or None
    texts,          \* texts written so far
    shown,          \* what the server has loaded at its start: [entries, judged, rewritten]
    answered,       \* history: the texts a model has answered with, and how
    rewritten       \* history: questions whose explanation was written over or deleted

files == <<explanations, judgments>>
history == <<answered, rewritten>>
vars == <<files, batch, texts, shown, history>>

All == Range(Questions)
Explanation ==
    [text : Nat,
     status : {"verified_answer_match", "answer_parse_failed", "answer_mismatch", "torn"}]
Judgment == [of : Nat, verdict : {"pass", "fail", "judge_parse_failed", "unsure", "torn"}]
Torn == [text |-> 0, status |-> "torn"]
TornJudgment == [of |-> 0, verdict |-> "torn"]

Jobs(seen, result) == [todo : Seq(All), skip : BOOLEAN, errors : Nat, seen : seen,
                       result : result \cup {None}]
Explaining == Jobs({None}, Explanation)
Judging == Jobs([All -> Explanation \cup {None}], Judgment)

ExplanationsAssumption ==
    /\ Questions \in Seq(All) /\ Questions # <<>>
    /\ None \notin Explanation \cup Judgment \cup Explaining \cup Judging

TypeOK ==
    /\ explanations \in [All -> Explanation \cup {None}]
    /\ judgments \in [All -> Judgment \cup {None}]
    /\ batch \in [explain : Explaining \cup {None}, judge : Judging \cup {None}]
    /\ \A b \in {"explain", "judge"} : batch[b] # None => batch[b].todo # <<>>
    /\ texts \in Nat

Init ==
    /\ explanations = [q \in All |-> None] /\ judgments = [q \in All |-> None]
    /\ batch = [explain |-> None, judge |-> None]
    /\ texts = 0 /\ shown = None
    /\ answered = {} /\ rewritten = {}

Batch(todo, skip, seen) == [todo |-> todo, skip |-> skip, errors |-> 0, seen |-> seen, result |-> None]

\* A batch is over when nothing is left to do.
Become(b, job) == batch' = [batch EXCEPT ![b] = IF job.todo = <<>> THEN None ELSE job]
Passed(job) == [job EXCEPT !.todo = Tail(@), !.result = None]

\* Any exception of a model: nothing is stored, and after MaxErrors in a row the batch
\* ends.
Failed(b) ==
    LET job == batch[b]
    IN  batch' = [batch EXCEPT ![b] =
                     IF job.errors + 1 >= MaxErrors \/ Tail(job.todo) = <<>> THEN None
                     ELSE [Passed(job) EXCEPT !.errors = @ + 1]]
-----------------------------------------------------------------------------
(* generator.py *)

\* The status after at most two attempts: the first right answer ends them, the last
\* answer decides else, and an attempt that raises an exception says nothing.
generate_explanation(first, second) ==
    LET last == IF first = "right" \/ second = "raised" THEN first ELSE second
    IN  CASE last = "right" -> "verified_answer_match"
          [] last = "unparsed" -> "answer_parse_failed"
          [] last = "wrong" -> "answer_mismatch"
          [] last = "raised" -> "backend_error"

StartExplaining ==
    /\ batch.explain = None
    /\ \E skip \in BOOLEAN : batch' = [batch EXCEPT !.explain = Batch(Questions, skip, None)]
    /\ UNCHANGED <<files, texts, shown, history>>

Waiting(b) == batch[b] # None /\ batch[b].result = None

\* skip_existing: a file, be it torn, is work done.
SkipExplained ==
    /\ Waiting("explain")
    /\ batch.explain.skip /\ explanations[Head(batch.explain.todo)] # None
    /\ Become("explain", Passed(batch.explain))
    /\ UNCHANGED <<files, texts, shown, history>>

\* Mutant: an error is stored as any other outcome, as it once was.
ExplainStoringErrors ==
    /\ Waiting("explain") /\ texts < MaxTexts
    /\ ~(batch.explain.skip /\ explanations[Head(batch.explain.todo)] # None)
    /\ \E first, second \in {"raised", "unparsed", "wrong", "right"} :
          LET status == generate_explanation(first, second)
          IN  /\ batch' = [batch EXCEPT !.explain.errors = 0,
                                        !.explain.result = [text |-> texts + 1, status |-> status]]
              /\ answered' = IF status = "backend_error" THEN answered
                             ELSE answered \cup {<<texts + 1, status = "verified_answer_match">>}
    /\ texts' = texts + 1
    /\ UNCHANGED <<files, shown, rewritten>>

Explain ==
    /\ Waiting("explain") /\ texts < MaxTexts
    /\ ~(batch.explain.skip /\ explanations[Head(batch.explain.todo)] # None)
    /\ \E first, second \in {"raised", "unparsed", "wrong", "right"} :
          LET status == generate_explanation(first, second)
          IN  IF status = "backend_error" THEN Failed("explain") /\ UNCHANGED <<texts, answered>>
              ELSE /\ batch' = [batch EXCEPT !.explain.errors = 0,
                                             !.explain.result = [text |-> texts + 1, status |-> status]]
                   /\ texts' = texts + 1
                   /\ answered' = answered \cup {<<texts + 1, status = "verified_answer_match">>}
    /\ UNCHANGED <<files, shown, rewritten>>

StoreExplanation ==
    /\ batch.explain # None /\ batch.explain.result # None
    /\ LET q == Head(batch.explain.todo)
       IN  /\ explanations' = [explanations EXCEPT ![q] = batch.explain.result]
           /\ rewritten' = IF explanations[q] = None THEN rewritten ELSE rewritten \cup {q}
    /\ Become("explain", Passed(batch.explain))
    /\ UNCHANGED <<judgments, texts, shown, answered>>
-----------------------------------------------------------------------------
(* judge.py *)

\* The explanations are loaded at the start: one torn file and there is no batch.  Those
\* with the right answer are judged.
Verified(e) == e # None /\ e.status = "verified_answer_match"

StartJudging ==
    /\ batch.judge = None
    /\ \A q \in All : explanations[q] # Torn
    /\ \E q \in All : Verified(explanations[q])
    /\ batch' = [batch EXCEPT !.judge = Batch(Questions, TRUE, explanations)]
    /\ UNCHANGED <<files, texts, shown, history>>

ToJudge(job) == Verified(job.seen[Head(job.todo)]) /\ judgments[Head(job.todo)] = None

SkipJudged ==
    /\ Waiting("judge") /\ ~ToJudge(batch.judge)
    /\ Become("judge", Passed(batch.judge))
    /\ UNCHANGED <<files, texts, shown, history>>

\* An answer that is no JSON is stored as such; a verdict may be any word.
Judge ==
    /\ Waiting("judge")
    /\ ToJudge(batch.judge)
    /\ \E answer \in {"raised", "pass", "fail", "judge_parse_failed", "unsure"} :
          IF answer = "raised" THEN Failed("judge")
          ELSE batch' = [batch EXCEPT !.judge.errors = 0, !.judge.result =
                            [of |-> batch.judge.seen[Head(batch.judge.todo)].text, verdict |-> answer]]
    /\ UNCHANGED <<files, texts, shown, history>>

StoreJudgment ==
    /\ batch.judge # None /\ batch.judge.result # None
    /\ judgments' = [judgments EXCEPT ![Head(batch.judge.todo)] = batch.judge.result]
    /\ Become("judge", Passed(batch.judge))
    /\ UNCHANGED <<explanations, texts, shown, history>>

\* Killed while it waits for a model, or while it writes a file.
Kill(b) ==
    /\ Kills /\ batch[b] # None
    /\ batch' = [batch EXCEPT ![b] = None]
    /\ LET q == Head(batch[b].todo)
           written(f, torn) == \/ UNCHANGED f
                               \/ batch[b].result # None /\ f' = [f EXCEPT ![q] = torn]
       IN  CASE b = "explain" -> written(explanations, Torn) /\ UNCHANGED judgments
             [] b = "judge" -> written(judgments, TornJudgment) /\ UNCHANGED explanations
    /\ UNCHANGED <<texts, shown, history>>

\* What is to be written again is deleted by hand.
Delete(q) ==
    /\ explanations[q] # None
    /\ explanations' = [explanations EXCEPT ![q] = None]
    /\ rewritten' = rewritten \cup {q}
    /\ UNCHANGED <<judgments, batch, texts, shown, answered>>
-----------------------------------------------------------------------------
(* real_exams.py, at the start of the server *)

\* Mutant: only a text that a judge has rejected for its answer is held back.
kind_without_rejection(e, j) ==
    CASE ~Verified(e) -> "none"
      [] Verified(e) /\ j # None /\ j.verdict = "pass" -> "verified"
      [] OTHER -> "unreviewed"

Kind(e, j) ==
    CASE ~Verified(e) -> "none"
      [] Verified(e) /\ j # None /\ j.verdict = "pass" -> "verified"
      [] Verified(e) /\ j # None /\ j.verdict = "fail" -> "rejected"
      [] OTHER -> "unreviewed"

build_practice_entry(e, j) ==
    LET kind == Kind(e, j)
    IN  [kind |-> kind, body |-> IF kind \in {"verified", "unreviewed"} THEN e.text ELSE None]

\* A torn file and the server does not start.
StartServer ==
    /\ \A q \in All : explanations[q] # Torn /\ judgments[q] # TornJudgment
    /\ shown' = [entries |-> [q \in All |-> build_practice_entry(explanations[q], judgments[q])],
                 judged |-> judgments, rewritten |-> rewritten]
    /\ UNCHANGED <<files, batch, texts, history>>

Next ==
    \/ StartExplaining \/ SkipExplained \/ Explain \/ StoreExplanation
    \/ StartJudging \/ SkipJudged \/ Judge \/ StoreJudgment
    \/ \E b \in {"explain", "judge"} : Kill(b)
    \/ \E q \in All : Delete(q)
    \/ StartServer

Spec == Init /\ [][Next]_vars
-----------------------------------------------------------------------------
Entry(q) == shown.entries[q]

\* The server shows a text only if a model has answered the question rightly with it;
\* one that was never written over is "verified" only by the verdict of a judge on that
\* very text, and is not shown if that verdict was against it.  A file stands for an
\* answer: an outage of the model leaves none, so that a later batch asks again.
GateHolds ==
    /\ TypeOK
    /\ \A q \in All :
          explanations[q] \notin {None, Torn} =>
              <<explanations[q].text, Verified(explanations[q])>> \in answered
    /\ shown # None => \A q \in All :
          /\ Entry(q).body # None => <<Entry(q).body, TRUE>> \in answered
          /\ q \notin shown.rewritten /\ Entry(q).body # None /\ shown.judged[q] # None =>
                 /\ shown.judged[q].of = Entry(q).body
                 /\ Entry(q).kind = "verified" <=> shown.judged[q].verdict = "pass"
                 /\ shown.judged[q].verdict # "fail"

\* What build_practice_entry says of its kinds: "verified" is a right answer that a
\* judge has passed.
LabelIsTrue ==
    shown # None => \A q \in All :
        Entry(q).kind = "verified" => shown.judged[q].of = Entry(q).body
=============================================================================
