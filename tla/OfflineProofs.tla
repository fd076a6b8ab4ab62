---------------------------- MODULE OfflineProofs ----------------------------
(***************************************************************************)
(* Theorems about what runs next to the server: the explanations, the      *)
(* generation of questions, the content pipeline and the glossary, for any *)
(* seed files, terms, pages, command lines, replies of models and numbers  *)
(* of runs, and runs that are killed anywhere.                             *)
(***************************************************************************)
EXTENDS Offline, ContainersProofs

-----------------------------------------------------------------------------
(* The explanations.                                                       *)


(* The inductive invariant, in named parts.                                *)

Written(q) == explanations[q] \notin {None, Torn}

\* A file, and a text that is about to become one, is an answer of a model.
FilesAreAnswers ==
    /\ \A q \in All : Written(q) => <<explanations[q].text, Verified(explanations[q])>> \in answered
    /\ batch.explain # None /\ batch.explain.result # None =>
          <<batch.explain.result.text, batch.explain.result.status = "verified_answer_match">> \in answered

\* A batch of judgments still sees the explanations, but for those that were written
\* over since; the verdict in its hand is on the text it has seen.
SeesFiles ==
    batch.judge # None =>
        /\ \A q \in All \ rewritten :
              batch.judge.seen[q] # None => explanations[q] \in {batch.judge.seen[q], Torn}
        /\ batch.judge.result # None =>
              LET q == Head(batch.judge.todo)
              IN  batch.judge.seen[q] # None /\ batch.judge.result.of = batch.judge.seen[q].text

\* A stored verdict is on the text of the file, unless that was written over.
VerdictsFit ==
    \A q \in All \ rewritten :
        judgments[q] \notin {None, TornJudgment} =>
            /\ explanations[q] # None
            /\ Written(q) => judgments[q].of = explanations[q].text

\* What the second part of GateHolds says of the page.
Gate ==
    shown # None => \A q \in All :
        /\ Entry(q).body # None => <<Entry(q).body, TRUE>> \in answered
        /\ q \notin shown.rewritten /\ Entry(q).body # None /\ shown.judged[q] # None =>
               /\ shown.judged[q].of = Entry(q).body
               /\ Entry(q).kind = "verified" <=> shown.judged[q].verdict = "pass"
               /\ shown.judged[q].verdict # "fail"

IInv == TypeOK /\ FilesAreAnswers /\ SeesFiles /\ VerdictsFit /\ Gate

-----------------------------------------------------------------------------
(* Jobs.                                                                   *)

LEMMA TornTypes == Torn \in Explanation /\ TornJudgment \in Judgment
  BY DEF Torn, TornJudgment, Explanation, Judgment

\* What is next in a batch is one of the questions.
LEMMA HeadIsQuestion ==
  ASSUME TypeOK, NEW b \in {"explain", "judge"}, batch[b] # None
  PROVE  Head(batch[b].todo) \in All
  <1>1. batch[b].todo \in Seq(All) /\ batch[b].todo # <<>>
    BY DEF TypeOK, Explaining, Judging, Jobs
  <1> QED
    BY <1>1

\* Going on leaves what a batch has seen, and nothing in its hand.
LEMMA PassedJob ==
  ASSUME NEW S, NEW R, NEW job \in Jobs(S, R), job.todo # <<>>
  PROVE  /\ Passed(job) \in Jobs(S, R) /\ Passed(job).result = None
         /\ Passed(job).seen = job.seen /\ Passed(job).todo = Tail(job.todo)
         /\ Passed(job).errors = job.errors
  <1>1. PICK t : t = Tail(job.todo)
    OBVIOUS
  <1>2. t \in Seq(All)
    BY <1>1 DEF Jobs
  <1>3. Passed(job) = [job EXCEPT !.todo = t, !.result = None]
    BY <1>1 DEF Passed
  <1> HIDE DEF Passed
  <1>4. /\ Passed(job).todo = t /\ Passed(job).result = None /\ Passed(job).seen = job.seen
        /\ Passed(job).errors = job.errors
    BY <1>3 DEF Jobs
  <1>5. Passed(job) \in Jobs(S, R)
    BY <1>2, <1>3 DEF Jobs
  <1> QED
    BY <1>1, <1>4, <1>5

\* What the end of an iteration does to the batches: b goes on with nothing in its hand, or
\* ends, and the other one stays.
Moved(b) ==
    /\ batch' \in [explain : Explaining \cup {None}, judge : Judging \cup {None}]
    /\ batch'[b] # None => /\ batch[b] # None /\ batch'[b].todo # <<>> /\ batch'[b].result = None
                           /\ batch'[b].seen = batch[b].seen
    /\ \A c \in {"explain", "judge"} \ {b} : batch'[c] = batch[c]

LEMMA BatchKinds ==
  ASSUME TypeOK
  PROVE  /\ batch.explain # None => batch.explain \in Jobs({None}, Explanation)
         /\ batch.judge # None => batch.judge \in Jobs([All -> Explanation \cup {None}], Judgment)
         /\ \A b \in {"explain", "judge"} : batch[b] # None => batch[b].todo # <<>>
  BY DEF TypeOK, Explaining, Judging

LEMMA BecomePassed ==
  ASSUME ExplanationsAssumption, TypeOK, NEW b \in {"explain", "judge"}, batch[b] # None,
         Become(b, Passed(batch[b]))
  PROVE  Moved(b)
  <1> DEFINE job == Passed(batch[b])
  <1>1. batch' = [batch EXCEPT ![b] = IF job.todo = <<>> THEN None ELSE job]
    BY DEF Become
  <1>2. job.result = None /\ job.seen = batch[b].seen
    BY BatchKinds, PassedJob
  <1>3. /\ b = "explain" => job \in Explaining
        /\ b = "judge" => job \in Judging
    BY BatchKinds, PassedJob DEF Explaining, Judging
  <1> HIDE DEF job
  <1> QED
    BY <1>1, <1>2, <1>3 DEF TypeOK, Moved

LEMMA FailedMoves ==
  ASSUME ExplanationsAssumption, TypeOK, NEW b \in {"explain", "judge"}, batch[b] # None, Failed(b)
  PROVE  Moved(b)
  <1> DEFINE job == [Passed(batch[b]) EXCEPT !.errors = @ + 1]
  <1>1. CASE batch' = [batch EXCEPT ![b] = None]
    BY <1>1 DEF TypeOK, Moved
  <1>2. CASE batch' = [batch EXCEPT ![b] = job] /\ Tail(batch[b].todo) # <<>>
    <2>1. \A S, R : batch[b] \in Jobs(S, R) =>
             job \in Jobs(S, R) /\ job.result = None /\ job.seen = batch[b].seen
                 /\ job.todo = Tail(batch[b].todo)
      <3>1. SUFFICES ASSUME NEW S, NEW R, batch[b] \in Jobs(S, R)
                     PROVE  job \in Jobs(S, R) /\ job.result = None /\ job.seen = batch[b].seen
                               /\ job.todo = Tail(batch[b].todo)
        OBVIOUS
      <3> DEFINE p == Passed(batch[b])
      <3>2. /\ Passed(batch[b]) \in Jobs(S, R) /\ Passed(batch[b]).result = None
            /\ Passed(batch[b]).seen = batch[b].seen /\ Passed(batch[b]).todo = Tail(batch[b].todo)
        BY <3>1, BatchKinds, PassedJob
      <3>3. PICK e \in Nat : e = p.errors + 1
        BY <3>2 DEF Jobs
      <3>4. job = [p EXCEPT !.errors = e] /\ p \in Jobs(S, R)
        BY <3>2, <3>3
      <3> HIDE DEF job, p
      <3>5. job.result = p.result /\ job.seen = p.seen /\ job.todo = p.todo
        BY <3>4 DEF Jobs
      <3>6. job \in Jobs(S, R)
        BY <3>4 DEF Jobs
      <3> QED
        BY <3>2, <3>5, <3>6 DEF p
    <2>2. /\ b = "explain" => job \in Explaining
          /\ b = "judge" => job \in Judging
          /\ job.result = None /\ job.seen = batch[b].seen /\ job.todo = Tail(batch[b].todo)
      BY <2>1, BatchKinds DEF Explaining, Judging
    <2> HIDE DEF job
    <2> QED
      BY <1>2, <2>2 DEF TypeOK, Moved
  <1> QED
    BY <1>1, <1>2 DEF Failed

\* Such a step leaves the invariant as it is, if it changes nothing else.
LEMMA MovedStep ==
  ASSUME ExplanationsAssumption, IInv, NEW b \in {"explain", "judge"}, Moved(b),
         UNCHANGED <<files, shown, rewritten>>, texts' \in Nat, answered \subseteq answered'
  PROVE  IInv'
  <1>1. TypeOK'
    BY DEF IInv, TypeOK, Moved, files
  <1>2. FilesAreAnswers'
    BY DEF IInv, FilesAreAnswers, Written, Verified, Moved, files
  <1>3. SeesFiles'
    BY DEF IInv, SeesFiles, Moved, files
  <1>4. VerdictsFit' /\ Gate'
    BY DEF IInv, VerdictsFit, Gate, Written, Entry, files
  <1> QED
    BY <1>1, <1>2, <1>3, <1>4 DEF IInv

-----------------------------------------------------------------------------
(* Batches of explanations.                                                *)

LEMMA InitIInv == ASSUME ExplanationsAssumption, Init PROVE IInv
  BY DEF Init, IInv, TypeOK, FilesAreAnswers, SeesFiles, VerdictsFit, Gate, Written

\* A new batch has nothing in its hand.
LEMMA NewBatch ==
  ASSUME ExplanationsAssumption, NEW skip \in BOOLEAN, NEW S, NEW R, NEW seen \in S
  PROVE  LET job == Batch(Questions, skip, seen)
         IN  job \in Jobs(S, R) /\ job.todo # <<>> /\ job.result = None /\ job.seen = seen
  BY DEF ExplanationsAssumption, Batch, Jobs

LEMMA StartExplainingStep ==
  ASSUME ExplanationsAssumption, IInv, StartExplaining
  PROVE  IInv'
  <1>1. PICK skip \in BOOLEAN : batch' = [batch EXCEPT !.explain = Batch(Questions, skip, None)]
    BY DEF StartExplaining
  <1>2. PICK job : job = Batch(Questions, skip, None)
    OBVIOUS
  <1>3. job \in Explaining /\ job.todo # <<>> /\ job.result = None
    BY <1>2, NewBatch DEF Explaining
  <1>4. batch' = [batch EXCEPT !.explain = job]
    BY <1>1, <1>2
  <1>5. TypeOK'
    BY <1>3, <1>4 DEF StartExplaining, files, IInv, TypeOK
  <1>6. (FilesAreAnswers /\ SeesFiles /\ VerdictsFit /\ Gate)'
    BY <1>3, <1>4 DEF StartExplaining, files, history, IInv, TypeOK, FilesAreAnswers, SeesFiles,
                      VerdictsFit, Gate, Written, Verified, Entry
  <1> QED
    BY <1>5, <1>6 DEF IInv

LEMMA SkipExplainedStep ==
  ASSUME ExplanationsAssumption, IInv, SkipExplained
  PROVE  IInv'
  <1>1. Moved("explain")
    BY BecomePassed DEF IInv, SkipExplained, Waiting
  <1> QED
    BY <1>1, MovedStep DEF SkipExplained, history, IInv, TypeOK

LEMMA ExplainStep ==
  ASSUME ExplanationsAssumption, IInv, Explain
  PROVE  IInv'
  <1>1. PICK first \in {"raised", "unparsed", "wrong", "right"},
             second \in {"raised", "unparsed", "wrong", "right"} :
           LET status == generate_explanation(first, second)
           IN  IF status = "backend_error" THEN Failed("explain") /\ UNCHANGED <<texts, answered>>
               ELSE /\ batch' = [batch EXCEPT !.explain.errors = 0,
                                              !.explain.result = [text |-> texts + 1, status |-> status]]
                    /\ texts' = texts + 1
                    /\ answered' = answered \cup {<<texts + 1, status = "verified_answer_match">>}
    BY DEF Explain
  <1>2. PICK status : status = generate_explanation(first, second)
    OBVIOUS
  <1>3. status \in {"verified_answer_match", "answer_parse_failed", "answer_mismatch", "backend_error"}
    BY <1>2 DEF generate_explanation
  <1>4. CASE status = "backend_error"
    <2>1. Moved("explain")
      BY <1>1, <1>2, <1>4, FailedMoves DEF IInv, Explain, Waiting
    <2> QED
      BY <1>1, <1>2, <1>4, <2>1, MovedStep DEF Explain, IInv, TypeOK
  <1>5. CASE status # "backend_error"
    <2>1. PICK file : file = [text |-> texts + 1, status |-> status]
      OBVIOUS
    <2>2. /\ file \in Explanation /\ file.text = texts + 1 /\ file.status = status
          /\ texts + 1 \in Nat /\ file # None
      BY <1>3, <1>5, <2>1 DEF IInv, TypeOK, Explanation, ExplanationsAssumption
    <2>3. /\ batch' = [batch EXCEPT !.explain = [batch.explain EXCEPT !.errors = 0, !.result = file]]
          /\ texts' = texts + 1
          /\ answered' = answered \cup {<<file.text, file.status = "verified_answer_match">>}
      BY <1>1, <1>2, <1>5, <2>1, <2>2
    <2>4. PICK job : job = [batch.explain EXCEPT !.errors = 0, !.result = file]
      OBVIOUS
    <2>5. batch.explain \in Jobs({None}, Explanation) /\ batch.explain.todo # <<>>
      BY BatchKinds DEF Explain, Waiting, IInv
    <2>6. job \in Explaining
      BY <2>2, <2>4, <2>5 DEF Explaining, Jobs
    <2>7. job.todo # <<>> /\ job.result = file
      BY <2>4, <2>5 DEF Jobs
    <2>8. batch' = [batch EXCEPT !.explain = job]
      BY <2>3, <2>4
    <2>9. TypeOK'
      BY <2>2, <2>3, <2>6, <2>7, <2>8 DEF Explain, files, IInv, TypeOK
    <2>10. FilesAreAnswers'
      BY <2>3, <2>7, <2>8 DEF Explain, files, IInv, TypeOK, FilesAreAnswers, Written, Verified
    <2>11. (SeesFiles /\ VerdictsFit /\ Gate)'
      BY <2>3, <2>8 DEF Explain, files, IInv, TypeOK, SeesFiles, VerdictsFit, Gate, Written, Entry
    <2> QED
      BY <2>9, <2>10, <2>11 DEF IInv
  <1> QED
    BY <1>4, <1>5

LEMMA StoreExplanationStep ==
  ASSUME ExplanationsAssumption, IInv, StoreExplanation
  PROVE  IInv'
  <1> DEFINE q == Head(batch.explain.todo)
             file == batch.explain.result
  <1>1. q \in All /\ file \in Explanation /\ file # None
    BY HeadIsQuestion, BatchKinds DEF StoreExplanation, IInv, Jobs
  <1>2. Moved("explain")
    BY BecomePassed DEF IInv, StoreExplanation
  <1>3. /\ explanations' = [explanations EXCEPT ![q] = file]
        /\ rewritten' = IF explanations[q] = None THEN rewritten ELSE rewritten \cup {q}
        /\ UNCHANGED <<judgments, texts, shown, answered>>
    BY DEF StoreExplanation
  <1>4. <<file.text, file.status = "verified_answer_match">> \in answered
    BY DEF StoreExplanation, IInv, FilesAreAnswers
  <1> HIDE DEF q, file
  <1>5. explanations'[q] = file /\ \A x \in All \ {q} : explanations'[x] = explanations[x]
    BY <1>1, <1>3 DEF IInv, TypeOK
  <1>6. TypeOK'
    BY <1>1, <1>2, <1>3 DEF IInv, TypeOK, Moved
  <1>7. FilesAreAnswers'
    BY <1>1, <1>2, <1>3, <1>4, <1>5 DEF IInv, FilesAreAnswers, Written, Verified, Moved
  <1>8. batch'.judge = batch.judge
    BY <1>2 DEF Moved
  <1>9. SeesFiles'
    BY <1>1, <1>3, <1>5, <1>8 DEF IInv, SeesFiles, ExplanationsAssumption, Torn, Explanation
  <1>10. VerdictsFit' /\ Gate'
    BY <1>1, <1>3, <1>5, ZenonT(60) DEF IInv, VerdictsFit, Gate, Written, Entry
  <1> QED
    BY <1>6, <1>7, <1>9, <1>10 DEF IInv

LEMMA DeleteStep ==
  ASSUME ExplanationsAssumption, IInv, NEW q \in All, Delete(q)
  PROVE  IInv'
  <1>1. explanations'[q] = None /\ \A x \in All \ {q} : explanations'[x] = explanations[x]
    BY DEF Delete, IInv, TypeOK
  <1>2. TypeOK'
    BY DEF Delete, IInv, TypeOK
  <1>3. FilesAreAnswers'
    BY <1>1 DEF Delete, IInv, FilesAreAnswers, Written, Verified
  <1>4. rewritten' = rewritten \cup {q} /\ UNCHANGED <<judgments, batch, shown, answered>>
    BY DEF Delete
  <1>5. SeesFiles'
    BY <1>1, <1>4 DEF IInv, SeesFiles
  <1>6. VerdictsFit'
    BY <1>1, <1>4 DEF IInv, VerdictsFit, Written
  <1>7. Gate'
    BY <1>4 DEF IInv, Gate, Entry
  <1> QED
    BY <1>2, <1>3, <1>5, <1>6, <1>7 DEF IInv

-----------------------------------------------------------------------------
(* Batches of judgments.                                                   *)

LEMMA StartJudgingStep ==
  ASSUME ExplanationsAssumption, IInv, StartJudging
  PROVE  IInv'
  <1>1. PICK job : job = Batch(Questions, TRUE, explanations)
    OBVIOUS
  <1>2. /\ job \in Judging
        /\ job.todo # <<>> /\ job.result = None /\ job.seen = explanations
    BY <1>1, NewBatch DEF Judging, IInv, TypeOK
  <1>3. batch' = [batch EXCEPT !.judge = job]
    BY <1>1 DEF StartJudging
  <1>4. TypeOK'
    BY <1>2, <1>3 DEF StartJudging, files, IInv, TypeOK
  <1>5. (FilesAreAnswers /\ SeesFiles /\ VerdictsFit /\ Gate)'
    BY <1>2, <1>3, ZenonT(60) DEF StartJudging, files, history, IInv, TypeOK, FilesAreAnswers, SeesFiles,
                      VerdictsFit, Gate, Written, Verified, Entry
  <1> QED
    BY <1>4, <1>5 DEF IInv

LEMMA SkipJudgedStep ==
  ASSUME ExplanationsAssumption, IInv, SkipJudged
  PROVE  IInv'
  <1>1. Moved("judge")
    BY BecomePassed DEF IInv, SkipJudged, Waiting
  <1> QED
    BY <1>1, MovedStep DEF SkipJudged, history, IInv, TypeOK

LEMMA JudgeStep ==
  ASSUME ExplanationsAssumption, IInv, Judge
  PROVE  IInv'
  <1>1. PICK answer \in {"raised", "pass", "fail", "judge_parse_failed", "unsure"} :
           IF answer = "raised" THEN Failed("judge")
           ELSE batch' = [batch EXCEPT !.judge.errors = 0, !.judge.result =
                             [of |-> batch.judge.seen[Head(batch.judge.todo)].text, verdict |-> answer]]
    BY DEF Judge
  <1>2. CASE answer = "raised"
    <2>1. Moved("judge")
      BY <1>1, <1>2, FailedMoves DEF IInv, Judge, Waiting
    <2> QED
      BY <2>1, MovedStep DEF Judge, history, IInv, TypeOK
  <1>3. CASE answer # "raised"
    <2>1. PICK q : q = Head(batch.judge.todo)
      OBVIOUS
    <2>2. /\ batch.judge \in Jobs([All -> Explanation \cup {None}], Judgment)
          /\ batch.judge.todo # <<>> /\ q \in All
      BY <2>1, BatchKinds, HeadIsQuestion DEF Judge, Waiting, IInv
    <2>3. batch.judge.seen[q] \in Explanation /\ batch.judge.seen[q] # None
      BY <2>1, <2>2 DEF Judge, ToJudge, Verified, Jobs
    <2>4. PICK verdict : verdict = [of |-> batch.judge.seen[q].text, verdict |-> answer]
      OBVIOUS
    <2>5. verdict \in Judgment /\ verdict.of = batch.judge.seen[q].text /\ verdict # None
      BY <1>3, <2>3, <2>4 DEF Judgment, Explanation, ExplanationsAssumption
    <2>6. PICK job : job = [batch.judge EXCEPT !.errors = 0, !.result = verdict]
      OBVIOUS
    <2>7. job \in Judging
      BY <2>2, <2>5, <2>6 DEF Judging, Jobs
    <2>8. /\ job.todo = batch.judge.todo /\ job.seen = batch.judge.seen /\ job.result = verdict
      BY <2>2, <2>6 DEF Jobs
    <2>9. batch' = [batch EXCEPT !.judge = job]
      BY <1>1, <1>3, <2>1, <2>4, <2>6
    <2>10. TypeOK'
      BY <2>2, <2>7, <2>8, <2>9 DEF Judge, files, IInv, TypeOK
    <2>11. SeesFiles'
      BY <2>1, <2>2, <2>3, <2>5, <2>8, <2>9 DEF Judge, Waiting, files, history, IInv, TypeOK, SeesFiles
    <2>12. (FilesAreAnswers /\ VerdictsFit /\ Gate)'
      BY <2>9 DEF Judge, files, history, IInv, TypeOK, FilesAreAnswers, VerdictsFit, Gate, Written,
                  Verified, Entry
    <2> QED
      BY <2>10, <2>11, <2>12 DEF IInv
  <1> QED
    BY <1>2, <1>3

\* The verdict is on the text of the file, unless that was written over since the batch
\* has loaded it.
LEMMA StoreJudgmentStep ==
  ASSUME ExplanationsAssumption, IInv, StoreJudgment
  PROVE  IInv'
  <1> DEFINE q == Head(batch.judge.todo)
             verdict == batch.judge.result
  <1>1. q \in All /\ verdict \in Judgment /\ verdict # None
    BY HeadIsQuestion, BatchKinds DEF StoreJudgment, IInv, Jobs
  <1>2. Moved("judge")
    BY BecomePassed DEF IInv, StoreJudgment
  <1>3. /\ judgments' = [judgments EXCEPT ![q] = verdict]
        /\ UNCHANGED <<explanations, texts, shown, answered, rewritten>>
    BY DEF StoreJudgment, history
  <1>4. /\ q \notin rewritten => explanations[q] \in {batch.judge.seen[q], Torn}
        /\ verdict.of = batch.judge.seen[q].text
    BY <1>1 DEF StoreJudgment, IInv, SeesFiles
  <1> HIDE DEF verdict
  <1>5. q \notin rewritten =>
           /\ explanations[q] # None
           /\ Written(q) => verdict.of = explanations[q].text
    <2>1. Torn # None /\ (StoreJudgment => batch.judge.seen[q] # None)
      BY TornTypes DEF ExplanationsAssumption, IInv, SeesFiles, StoreJudgment
    <2> QED
      BY <1>4, <2>1 DEF Written
  <1> HIDE DEF q
  <1>6. judgments'[q] = verdict /\ \A x \in All \ {q} : judgments'[x] = judgments[x]
    BY <1>1, <1>3 DEF IInv, TypeOK
  <1>7. TypeOK'
    BY <1>1, <1>2, <1>3 DEF IInv, TypeOK, Moved
  <1>8. VerdictsFit'
    BY <1>3, <1>5, <1>6 DEF IInv, VerdictsFit, Written
  <1>9. (FilesAreAnswers /\ SeesFiles /\ Gate)'
    BY <1>2, <1>3 DEF IInv, FilesAreAnswers, SeesFiles, Gate, Written, Verified, Entry, Moved
  <1> QED
    BY <1>7, <1>8, <1>9 DEF IInv

LEMMA KillStep ==
  ASSUME ExplanationsAssumption, IInv, NEW b \in {"explain", "judge"}, Kill(b)
  PROVE  IInv'
  <1> DEFINE q == Head(batch[b].todo)
  <1>1. q \in All
    BY HeadIsQuestion DEF Kill, IInv
  <1>2. Moved(b) /\ batch'[b] = None
    BY DEF Kill, IInv, TypeOK, Moved
  <1>3. /\ explanations' \in {explanations, [explanations EXCEPT ![q] = Torn]}
        /\ judgments' \in {judgments, [judgments EXCEPT ![q] = TornJudgment]}
        /\ UNCHANGED <<texts, shown, answered, rewritten>>
    BY DEF Kill, history
  <1> HIDE DEF q
  <1>4. /\ \A x \in All : explanations'[x] \in {explanations[x], Torn}
        /\ \A x \in All : judgments'[x] \in {judgments[x], TornJudgment}
    BY <1>1, <1>3 DEF IInv, TypeOK
  <1>5. TypeOK'
    BY <1>1, <1>2, <1>3, TornTypes DEF IInv, TypeOK, Moved
  <1>6. Torn # None /\ TornJudgment # None
    BY TornTypes DEF ExplanationsAssumption
  <1>7. FilesAreAnswers'
    BY <1>2, <1>3, <1>4 DEF IInv, FilesAreAnswers, Written, Verified, Moved
  <1>8. SeesFiles'
    BY <1>2, <1>3, <1>4 DEF IInv, SeesFiles, Moved
  <1>9. VerdictsFit'
    BY <1>3, <1>4, <1>6 DEF IInv, VerdictsFit, Written
  <1>10. Gate'
    BY <1>3 DEF IInv, Gate, Entry
  <1> QED
    BY <1>5, <1>7, <1>8, <1>9, <1>10 DEF IInv

-----------------------------------------------------------------------------
(* The server.                                                             *)

\* What build_practice_entry makes of a file and a judgment.
LEMMA EntryOf ==
  ASSUME NEW e, NEW j, build_practice_entry(e, j).body # None
  PROVE  /\ Verified(e) /\ build_practice_entry(e, j).body = e.text
         /\ j # None => /\ build_practice_entry(e, j).kind = "verified" <=> j.verdict = "pass"
                        /\ j.verdict # "fail"
  BY DEF build_practice_entry, Kind, Verified

LEMMA StartServerStep ==
  ASSUME ExplanationsAssumption, IInv, StartServer
  PROVE  IInv'
  <1>1. /\ shown' = [entries |-> [q \in All |-> build_practice_entry(explanations[q], judgments[q])],
                     judged |-> judgments, rewritten |-> rewritten]
        /\ UNCHANGED <<explanations, judgments, batch, texts, answered, rewritten>>
        /\ \A q \in All : explanations[q] # Torn /\ judgments[q] # TornJudgment
    BY DEF StartServer, files, history
  <1>2. ASSUME NEW q \in All
        PROVE  (/\ Entry(q).body # None => <<Entry(q).body, TRUE>> \in answered
                /\ q \notin shown.rewritten /\ Entry(q).body # None /\ shown.judged[q] # None =>
                      /\ shown.judged[q].of = Entry(q).body
                      /\ Entry(q).kind = "verified" <=> shown.judged[q].verdict = "pass"
                      /\ shown.judged[q].verdict # "fail")'
    <2>1. /\ Entry(q)' = build_practice_entry(explanations[q], judgments[q])
          /\ shown'.judged = judgments /\ shown'.rewritten = rewritten
      BY <1>1 DEF Entry
    <2>2. CASE Entry(q)'.body = None
      BY <2>2
    <2>3. CASE Entry(q)'.body # None
      <3>1. /\ Verified(explanations[q]) /\ Entry(q)'.body = explanations[q].text
            /\ judgments[q] # None =>
                  /\ Entry(q)'.kind = "verified" <=> judgments[q].verdict = "pass"
                  /\ judgments[q].verdict # "fail"
        BY <2>1, <2>3, EntryOf
      <3>2. Written(q)
        BY <1>1, <3>1 DEF Written, Verified
      <3>3. <<explanations[q].text, TRUE>> \in answered
        BY <3>1, <3>2 DEF IInv, FilesAreAnswers
      <3>4. q \notin rewritten /\ judgments[q] # None => judgments[q].of = explanations[q].text
        BY <1>1, <3>2 DEF IInv, VerdictsFit
      <3> QED
        BY <1>1, <2>1, <3>1, <3>3, <3>4
    <2> QED
      BY <2>2, <2>3
  <1>3. Gate'
    BY <1>2 DEF Gate
  <1>4. (TypeOK /\ FilesAreAnswers /\ SeesFiles /\ VerdictsFit)'
    BY <1>1 DEF IInv, TypeOK, FilesAreAnswers, SeesFiles, VerdictsFit, Written, Verified
  <1> QED
    BY <1>3, <1>4 DEF IInv

-----------------------------------------------------------------------------
(* The theorem.                                                            *)

LEMMA NextIInv == ASSUME ExplanationsAssumption, IInv, [Next]_vars PROVE IInv'
  <1>1. CASE Next
    BY <1>1, StartExplainingStep, SkipExplainedStep, ExplainStep, StoreExplanationStep, DeleteStep,
       StartJudgingStep, SkipJudgedStep, JudgeStep, StoreJudgmentStep, KillStep, StartServerStep
       DEF Next
  <1>2. CASE UNCHANGED vars
    BY <1>2 DEF vars, files, history, IInv, TypeOK, FilesAreAnswers, SeesFiles, VerdictsFit, Gate,
                Written, Verified, Entry
  <1> QED
    BY <1>1, <1>2

\* What the batches know of the files, whenever they are killed.
THEOREM ExplanationsInvariance ==
  ASSUME ExplanationsAssumption
  PROVE  Spec => []IInv
  BY InitIInv, NextIInv, PTL DEF Spec

\* real_exams.py: whenever the server starts, whatever batches were killed or ran at the
\* same time, a text is shown only if it is a right answer; and the verdict it is shown
\* with was given on it, unless the text was written over.
THEOREM OnlyAnswersAreShown ==
  ASSUME ExplanationsAssumption
  PROVE  Spec => []GateHolds
  <1>1. IInv => GateHolds
    BY DEF IInv, FilesAreAnswers, Gate, GateHolds, Written
  <1> QED
    BY <1>1, ExplanationsInvariance, PTL

-----------------------------------------------------------------------------
(* The generation of evaluation questions.                                 *)

LEMMA MinIsMember ==
  ASSUME NEW S, S \subseteq Nat, S # {}
  PROVE  Generator!Min(S) \in S
  <1>1. PICK m \in S : \A n \in S : m <= n
    BY LeastNumber
  <1> QED
    BY <1>1 DEF Generator!Min

Items == [subject : SUBJECTS, count : Nat \ {0}]

\* What the model may write that generate_batch keeps, and what is made of it.
Replies == {q \in UNION {Range(batch_) : batch_ \in Batches} : Generator!Usable(q)}
Produced == {Generator!_hydrate(Generator!reconcile_correct_choice(q), i) : q \in Replies, i \in Items}

LEMMA ProducedKeys ==
  ASSUME Generator!GenerationAssumption, NEW q \in Produced
  PROVE  /\ {"choices", "correct_choice"} \subseteq DOMAIN q
         /\ DOMAIN q \cap {"shown", "chosen"} = {}
         /\ Generator!KeyNamesAnswer(q)
  <1>1. PICK p \in Replies, i \in Items :
           q = Generator!_hydrate(Generator!reconcile_correct_choice(p), i)
    BY DEF Produced
  <1>2. /\ {"choices", "correct_choice"} \subseteq DOMAIN p
        /\ DOMAIN p \cap {"shown", "chosen"} = {}
        /\ p.choices \in Seq(Range(p.choices))
        /\ ~ Generator!Dropped(p)
    <2>1. PICK b \in Batches : p \in Range(b)
      BY DEF Replies
    <2>2. Generator!Usable(p)
      BY DEF Replies
    <2>3. "choices" \in DOMAIN p /\ p.choices # None
      BY <2>2 DEF Generator!Usable, Generator!Get, Generator!Fields
    <2>4. Range(b) = Generator!Range(b) /\ Range(p.choices) = Generator!Range(p.choices)
      BY DEF Range, Generator!Range
    <2> QED
      BY <2>1, <2>2, <2>3, <2>4 DEF Generator!GenerationAssumption, Generator!Usable, Generator!Fields
  <1> DEFINE s == Generator!reconcile_correct_choice(p)
  <1>3. /\ DOMAIN s = DOMAIN p
        /\ Generator!KeyNamesAnswer(s)
    <2>1. CASE Generator!Get(p, "correct_answer") = None
      BY <2>1 DEF Generator!reconcile_correct_choice, Generator!KeyNamesAnswer
    <2>2. CASE Generator!Get(p, "correct_answer") # None
      <3> DEFINE same == {j \in DOMAIN p.choices :
                            Generator!_norm_choice(p.choices[j]) = Generator!_norm_choice(p.correct_answer)}
      <3>1. "correct_answer" \in DOMAIN p /\ Generator!Get(p, "correct_answer") = p.correct_answer
        BY <2>2 DEF Generator!Get, Generator!Fields
      <3>2. same # {}
        BY <1>2, <2>2, <3>1 DEF Generator!Dropped, Generator!Listed
      <3>3. same \subseteq Nat
        BY <1>2
      <3>4. Generator!Min(same) \in same
        <4> HIDE DEF same
        <4> QED BY <3>2, <3>3, MinIsMember
      <3>5. s = [p EXCEPT !.correct_choice = Generator!Min(same) - 1]
        BY <2>2, <3>1 DEF Generator!reconcile_correct_choice, Generator!IndexOf
      <3> HIDE DEF s
      <3>6. /\ DOMAIN s = DOMAIN p /\ s.choices = p.choices /\ s.correct_answer = p.correct_answer
            /\ s.correct_choice = Generator!Min(same) - 1
        BY <3>5, <3>1, <1>2
      <3>7. s.correct_choice + 1 = Generator!Min(same)
        <4> DEFINE n == Generator!Min(same)
        <4>1. n \in Nat /\ s.correct_choice = n - 1
          BY <3>3, <3>4, <3>6
        <4> HIDE DEF n
        <4>2. s.correct_choice + 1 = n
          BY <4>1
        <4> QED BY <4>2 DEF n
      <3> QED
        BY <3>1, <3>4, <3>6, <3>7 DEF Generator!KeyNamesAnswer, Generator!Get, Generator!Fields
    <2> QED
      BY <2>1, <2>2
  <1> DEFINE h == Generator!Over(s, [subject |-> i.subject])
  <1>4. q = Generator!Over([review_status |-> "ai_draft"], h)
    BY <1>1 DEF Generator!_hydrate
  <1>5. DOMAIN h = DOMAIN p \cup {"subject"} /\ \A f \in DOMAIN p : h[f] = s[f]
    <2> HIDE DEF s
    <2> QED BY <1>3 DEF Generator!Over
  <1>6. /\ DOMAIN q = {"review_status", "subject"} \cup DOMAIN p
        /\ \A f \in DOMAIN p : f # "review_status" => q[f] = s[f]
    <2> HIDE DEF s, h
    <2> QED BY <1>4, <1>5 DEF Generator!Over
  <1> HIDE DEF s, h
  <1>7. Generator!Get(q, "correct_answer") = Generator!Get(s, "correct_answer")
    BY <1>3, <1>6 DEF Generator!Get, Generator!Fields
  <1>8. Generator!Get(s, "correct_answer") # None => "correct_answer" \in DOMAIN p
    BY <1>3 DEF Generator!Get, Generator!Fields
  <1> QED
    BY <1>2, <1>3, <1>6, <1>7, <1>8 DEF Generator!KeyNamesAnswer


LEMMA UsableAreProduced ==
  ASSUME Generator!GenerationAssumption, NEW list \in Batches, NEW i \in Items
  PROVE  Generator!UsableQuestions(list, i) \in Seq(Produced)
  <1> DEFINE usable == {q \in Range(list) : Generator!Usable(q)}
             used == Selected(list, usable)
  <1>1. Range(list) = Generator!Range(list)
    BY DEF Range, Generator!Range
  <1>2. list \in Seq(Range(list))
    BY <1>1 DEF Generator!GenerationAssumption
  <1>3. used \in Seq(Range(list) \cap usable)
    <2> HIDE DEF usable
    <2> QED BY <1>2, SelectedIsSubsequence
  <1>4. Range(list) \cap usable \subseteq Replies
    BY DEF Replies
  <1>5. used \in Seq(Replies)
    <2> HIDE DEF used, usable
    <2> QED BY <1>3, <1>4
  <1>6. Generator!UsableQuestions(list, i) =
          [k \in DOMAIN used |-> Generator!_hydrate(Generator!reconcile_correct_choice(used[k]), i)]
    BY <1>1 DEF Generator!UsableQuestions, Generator!Selected, Selected
  <1> HIDE DEF used, usable
  <1>7. \A k \in DOMAIN used :
          Generator!_hydrate(Generator!reconcile_correct_choice(used[k]), i) \in Produced
    BY <1>5 DEF Produced
  <1>8. DOMAIN used = 1 .. Len(used) /\ Len(used) \in Nat
    BY <1>5
  <1> DEFINE e(k) == Generator!_hydrate(Generator!reconcile_correct_choice(used[k]), i)
  <1>9. [k \in 1 .. Len(used) |-> e(k)] \in Seq(Produced)
    <2>1. \A k \in 1 .. Len(used) : e(k) \in Produced
      BY <1>7, <1>8
    <2> HIDE DEF e
    <2> QED BY <2>1, <1>8
  <1> QED
    BY <1>6, <1>8, <1>9

-----------------------------------------------------------------------------
(* The state of a run.                                                     *)

WritingPcs == {"number", "exists", "touch", "open", "dump"}
GenerationPcs == {"idle", "generate", "review", "solve"} \cup WritingPcs \cup Generator!Ended

\* What StoredKeysAreChecked says of a question.
KeyChecked(q) ==
    /\ "choices" \in DOMAIN q
    /\ q.review_status = "ai_draft_verified" => Generator!KeyNamesAnswer(q)
    /\ Generator!KeyWasChosen(q)

GenerationOK(x) ==
    /\ DOMAIN x = DOMAIN Generator!Idle
    /\ x.pc \in GenerationPcs
    /\ x.plan \in Seq(Items) /\ x.queue \in Seq(Produced)
    /\ x.pc \notin Generator!Ended \cup {"idle"} => x.plan # <<>>
    /\ x.pc \in {"review", "solve"} \cup WritingPcs => x.queue # <<>>
    /\ x.pc \in {"review", "solve"} => x.question \in Produced
    /\ x.pc = "solve" => x.patch \in Patches \cup {<<>>}
    /\ x.pc \in WritingPcs => KeyChecked(x.question)

GenerationType == DOMAIN generation = Runs /\ \A r \in Runs : GenerationOK(generation[r])

FilesChecked == \A n \in DOMAIN questions : questions[n] # Generator!Torn => KeyChecked(questions[n])

\* run[r] = {**run[r], **fields}
LEMMA ToOK ==
  ASSUME GenerationType, NEW r \in Runs, NEW fields, Generator!To(r, fields),
         GenerationOK(Generator!Over(fields, generation[r]))
  PROVE  GenerationType'
  BY DEF GenerationType, Generator!To

LEMMA AbortOK ==
  ASSUME NEW r \in Runs, GenerationOK(generation[r])
  PROVE  GenerationOK(Generator!Over(Generator!Abort(r), generation[r]))
  <1> DEFINE y == Generator!Over(Generator!Abort(r), generation[r])
  <1>1. /\ DOMAIN y = DOMAIN Generator!Idle
        /\ y.pc = "aborted" /\ y.plan = <<>> /\ y.queue = <<>>
    BY DEF GenerationOK, Generator!Over, Generator!Abort, Generator!Idle
  <1> HIDE DEF y
  <1>2. GenerationOK(y)
    BY <1>1 DEF GenerationOK, GenerationPcs, WritingPcs, Generator!Ended
  <1> QED
    BY <1>2 DEF y

LEMMA TailOfPlan ==
  ASSUME NEW S, NEW p \in Seq(S), p # <<>>
  PROVE  Tail(p) \in Seq(S) /\ (Len(p) # 1 => Tail(p) # <<>>)
  <1>1. Tail(p) \in Seq(S) /\ Len(Tail(p)) = Len(p) - 1 /\ Len(p) \in Nat
    OBVIOUS
  <1>2. PICK t : t = Tail(p)
    OBVIOUS
  <1>3. t \in Seq(S) /\ Len(t) = Len(p) - 1
    BY <1>1, <1>2, Zenon
  <1>4. Len(p) # 1 => t # <<>>
    BY <1>1, <1>3
  <1> QED
    BY <1>1, <1>2, <1>4

\* On to the next question, or to the next item.
LEMMA AdvanceOK ==
  ASSUME NEW r \in Runs, GenerationOK(generation[r]), generation[r].plan # <<>>,
         NEW rest \in Seq(Produced), NEW x, GenerationOK(x),
         x.plan = generation[r].plan
  PROVE  GenerationOK(Generator!Over(Generator!Advance(r, rest), x))
  <1> DEFINE y == Generator!Over(Generator!Advance(r, rest), x)
  <1>1. DOMAIN x = DOMAIN Generator!Idle /\ x.plan \in Seq(Items) /\ x.plan # <<>> /\ x.queue \in Seq(Produced)
    BY DEF GenerationOK
  <1>2. CASE rest # <<>>
    <2>1. /\ DOMAIN y = DOMAIN Generator!Idle
          /\ y.pc = "review" /\ y.plan = x.plan /\ y.queue = rest /\ y.question = Head(rest)
      BY <1>1, <1>2 DEF Generator!Over, Generator!Advance, Generator!Idle
    <2>2. Head(rest) \in Produced
      BY <1>2
    <2> HIDE DEF y
    <2>3. GenerationOK(y)
      BY <1>1, <1>2, <2>1, <2>2 DEF GenerationOK, GenerationPcs, WritingPcs, Generator!Ended
    <2> QED
      BY <2>3 DEF y
  <1>3. CASE rest = <<>>
    <2>1. /\ DOMAIN y = DOMAIN Generator!Idle
          /\ y.pc = IF Len(x.plan) = 1 THEN "done" ELSE "generate"
          /\ y.plan = Tail(x.plan) /\ y.queue = <<>>
      BY <1>1, <1>3 DEF Generator!Over, Generator!Advance, Generator!Idle
    <2>2. Tail(x.plan) \in Seq(Items) /\ (Len(x.plan) # 1 => Tail(x.plan) # <<>>)
      BY <1>1, TailOfPlan
    <2> HIDE DEF y
    <2>3. GenerationOK(y)
      BY <2>1, <2>2 DEF GenerationOK, GenerationPcs, WritingPcs, Generator!Ended
    <2> QED
      BY <2>3 DEF y
  <1> QED
    BY <1>2, <1>3


-----------------------------------------------------------------------------
(* Every step of a run keeps that.                                         *)

\* The question after the checks, with nothing in hand: write_question.
LEMMA WriteOK ==
  ASSUME NEW r \in Runs, GenerationOK(generation[r]),
         generation[r].pc \in {"review", "solve"},
         NEW q, NEW patch, NEW flag \in BOOLEAN,
         patch = <<>> => Generator!KeyNamesAnswer(q),
         {"choices", "correct_choice"} \subseteq DOMAIN q,
         "shown" \notin DOMAIN patch,
         "shown" \in DOMAIN q /\ ~flag =>
             /\ q.shown = Generator!Over(patch, q).choices
             /\ q.chosen = Generator!Over(patch, q).correct_choice
             /\ "chosen" \in DOMAIN q /\ "chosen" \notin DOMAIN patch
  PROVE  GenerationOK(Generator!Over(Generator!Write(q, patch, flag), generation[r]))
  <1> DEFINE body == Generator!Over(patch, q)
             status == IF patch = <<>> THEN "ai_draft_verified" ELSE "ai_draft_revised"
             questionable == flag \/ Generator!Get(q, "flagged_questionable") = TRUE
             merged == Generator!Over([review_status |-> status, flagged_questionable |-> questionable], body)
             y == Generator!Over(Generator!Write(q, patch, flag), generation[r])
  <1>1. /\ DOMAIN body = DOMAIN patch \cup DOMAIN q
        /\ \A f \in DOMAIN patch : body[f] = patch[f]
        /\ \A f \in DOMAIN q \ DOMAIN patch : body[f] = q[f]
    BY DEF Generator!Over
  <1>2. /\ DOMAIN merged = {"review_status", "flagged_questionable"} \cup DOMAIN body
        /\ merged.review_status = status /\ merged.flagged_questionable = questionable
        /\ \A f \in DOMAIN body : f \notin {"review_status", "flagged_questionable"} => merged[f] = body[f]
    <2> HIDE DEF body, status, questionable
    <2> QED BY SMTT(60) DEF Generator!Over
  <1>3. /\ DOMAIN y = DOMAIN Generator!Idle
        /\ y.pc \in {"aborted", "number"} /\ y.question = merged
        /\ y.plan = generation[r].plan /\ y.queue = generation[r].queue
    BY DEF GenerationOK, Generator!Idle, Generator!Over, Generator!Write, Generator!Revised
  <1>4. KeyChecked(merged)
    <2> HIDE DEF body, merged, y
    <2>1. "choices" \in DOMAIN merged /\ merged.choices = body.choices /\ merged.correct_choice = body.correct_choice
      BY <1>1, <1>2
    <2>2. ASSUME merged.review_status = "ai_draft_verified" PROVE Generator!KeyNamesAnswer(merged)
      <3>1. patch = <<>>
        BY <2>2, <1>2
      <3>2. DOMAIN patch = {}
        BY <3>1
      <3>3. DOMAIN body = DOMAIN q /\ \A f \in DOMAIN q : body[f] = q[f]
        BY <3>2, <1>1
      <3>4. Generator!Get(merged, "correct_answer") = Generator!Get(q, "correct_answer")
        BY <3>3, <1>2 DEF Generator!Get, Generator!Fields
      <3>5. Generator!Get(q, "correct_answer") # None => merged.correct_answer = q.correct_answer
        BY <3>3, <1>2 DEF Generator!Get, Generator!Fields
      <3>6. merged.choices = q.choices /\ merged.correct_choice = q.correct_choice
        BY <2>1, <3>3
      <3> QED
        BY <3>1, <3>4, <3>5, <3>6 DEF Generator!KeyNamesAnswer
    <2>3. Generator!KeyWasChosen(merged)
      <3> SUFFICES ASSUME "shown" \in DOMAIN merged, ~ merged.flagged_questionable
                   PROVE  merged.shown = merged.choices /\ merged.chosen = merged.correct_choice
        BY DEF Generator!KeyWasChosen, Generator!Fields
      <3>1. "shown" \in DOMAIN q
        BY <1>1, <1>2
      <3>2. ~ flag
        BY <1>2
      <3> HIDE DEF status, questionable
      <3>3. merged.shown = q.shown /\ merged.chosen = q.chosen
        BY <3>1, <3>2, <1>1, <1>2
      <3> QED
        BY <2>1, <3>1, <3>2, <3>3 DEF body
    <2> QED
      BY <2>1, <2>2, <2>3 DEF KeyChecked
  <1> HIDE DEF y, merged
  <1>5. GenerationOK(y)
    BY <1>3, <1>4 DEF GenerationOK, GenerationPcs, WritingPcs, Generator!Ended
  <1> QED
    BY <1>5 DEF y

LEMMA StartOK ==
  ASSUME Generator!GenerationAssumption, GenerationType, NEW r \in Runs, Generator!Start(r)
  PROVE  GenerationType'
  <1>1. PICK spec \in Specs[r] :
          Generator!To(r, IF Generator!ParseError(spec) THEN [pc |-> "usage"]
                          ELSE [pc |-> "generate", plan |-> Generator!parse_items(spec)])
    BY DEF Generator!Start
  <1>2. GenerationOK(generation[r])
    BY DEF GenerationType
  <1>3. CASE Generator!ParseError(spec)
    <2> DEFINE y == Generator!Over([pc |-> "usage"], generation[r])
    <2>1. /\ DOMAIN y = DOMAIN Generator!Idle /\ y.pc = "usage"
          /\ y.plan = generation[r].plan /\ y.queue = generation[r].queue
      BY <1>2 DEF GenerationOK, Generator!Over, Generator!Idle
    <2> HIDE DEF y
    <2>2. GenerationOK(y)
      BY <1>2, <2>1 DEF GenerationOK, GenerationPcs, WritingPcs, Generator!Ended
    <2> QED
      BY <1>1, <1>3, <2>2, ToOK DEF y
  <1>4. CASE ~ Generator!ParseError(spec)
    <2> DEFINE plan == Generator!parse_items(spec)
               y == Generator!Over([pc |-> "generate", plan |-> plan], generation[r])
    <2>1. spec \in Seq(Generator!Range(spec)) /\ spec # <<>>
      BY <1>4 DEF Generator!GenerationAssumption, Generator!ParseError
    <2>2. \A i \in DOMAIN spec : Generator!GenItem(spec[i]) \in Items
      BY <1>4 DEF Generator!ParseError, Generator!WellFormed, Generator!GenItem, Items
    <2>3. plan \in Seq(Items) /\ plan # <<>>
      <3>1. DOMAIN spec = 1 .. Len(spec) /\ Len(spec) \in Nat \ {0}
        BY <2>1
      <3> DEFINE e(i) == Generator!GenItem(spec[i])
      <3>2. plan = [i \in 1 .. Len(spec) |-> e(i)]
        BY <3>1 DEF Generator!parse_items
      <3>3. \A i \in 1 .. Len(spec) : e(i) \in Items
        BY <2>2, <3>1
      <3> HIDE DEF e, plan
      <3>4. plan \in Seq(Items)
        BY <3>1, <3>2, <3>3
      <3>5. Len(plan) = Len(spec)
        BY <3>1, <3>2
      <3> QED BY <3>1, <3>4, <3>5
    <2> HIDE DEF plan
    <2>4. /\ DOMAIN y = DOMAIN Generator!Idle /\ y.pc = "generate"
          /\ y.plan = plan /\ y.queue = generation[r].queue
      BY <1>2 DEF GenerationOK, Generator!Over, Generator!Idle
    <2> HIDE DEF y
    <2>5. GenerationOK(y)
      BY <1>2, <2>3, <2>4 DEF GenerationOK, GenerationPcs, WritingPcs, Generator!Ended
    <2> QED
      BY <1>1, <1>4, <2>5, ToOK DEF y, plan
  <1> QED
    BY <1>3, <1>4


LEMMA CallFailsOK ==
  ASSUME GenerationType, NEW r \in Runs, Generator!Overloaded(r) \/ Generator!Raises(r) \/ Generator!Kill(r)
  PROVE  GenerationType'
  <1>1. GenerationOK(generation[r])
    BY DEF GenerationType
  <1>2. CASE Generator!To(r, Generator!Abort(r))
    BY <1>1, <1>2, AbortOK, ToOK
  <1>3. CASE /\ generation[r].pc \in {"generate", "review"}
             /\ Generator!To(r, [calls |-> generation[r].calls + 1])
    <2> DEFINE y == Generator!Over([calls |-> generation[r].calls + 1], generation[r])
    <2>1. /\ DOMAIN y = DOMAIN Generator!Idle
          /\ y.pc = generation[r].pc /\ y.plan = generation[r].plan /\ y.queue = generation[r].queue
          /\ y.question = generation[r].question
      BY <1>1 DEF GenerationOK, Generator!Over, Generator!Idle
    <2> HIDE DEF y
    <2>2. GenerationOK(y)
      BY <1>1, <1>3, <2>1 DEF GenerationOK, WritingPcs
    <2> QED
      BY <1>3, <2>2, ToOK DEF y
  <1> QED
    BY <1>2, <1>3 DEF Generator!Overloaded, Generator!Raises, Generator!Kill

LEMMA StartOfSeq ==
  ASSUME NEW S, NEW s \in Seq(S), NEW n \in Nat, n <= Len(s)
  PROVE  SubSeq(s, 1, n) \in Seq(S)
  OBVIOUS

LEMMA GenerateOK ==
  ASSUME Generator!GenerationAssumption, GenerationType, NEW r \in Runs, Generator!generate_batch(r)
  PROVE  GenerationType'
  <1>1. GenerationOK(generation[r]) /\ generation[r].pc = "generate"
    BY DEF GenerationType, Generator!generate_batch
  <1>2. generation[r].plan \in Seq(Items) /\ generation[r].plan # <<>>
    BY <1>1 DEF GenerationOK, Generator!Ended
  <1> DEFINE item == Head(generation[r].plan)
  <1>3. item \in Items
    BY <1>2
  <1>4. PICK list \in Batches :
          LET found == Generator!UsableQuestions(list, item)
              taken == SubSeq(found, 1, Generator!Min({item.count, Len(found)}))
          IN  Generator!To(r, CASE found # <<>> -> Generator!Advance(r, taken)
                                [] found = <<>> /\ generation[r].tries = 0 -> [tries |-> 1, calls |-> 0]
                                [] OTHER -> Generator!Advance(r, <<>>))
    BY DEF Generator!generate_batch
  <1> DEFINE found == Generator!UsableQuestions(list, item)
             taken == SubSeq(found, 1, Generator!Min({item.count, Len(found)}))
  <1>5. found \in Seq(Produced)
    BY <1>3, UsableAreProduced
  <1>6. taken \in Seq(Produced)
    <2> DEFINE pair == {item.count, Len(found)}
    <2>1. pair \subseteq Nat /\ pair # {}
      BY <1>3, <1>5 DEF Items
    <2>2. \A k \in pair : Generator!Min(pair) <= k
      <3>1. PICK m \in pair : \A k \in pair : m <= k
        BY <2>1, LeastNumber
      <3> HIDE DEF pair
      <3> QED BY <3>1 DEF Generator!Min
    <2>3. Generator!Min(pair) \in pair
      <3> HIDE DEF pair
      <3> QED BY <2>1, MinIsMember
    <2>4. Generator!Min(pair) \in Nat /\ Generator!Min(pair) <= Len(found)
      BY <2>1, <2>2, <2>3
    <2> HIDE DEF found
    <2> QED
      BY <1>5, <2>4, StartOfSeq
  <1>7. CASE Generator!To(r, Generator!Advance(r, taken))
    <2> HIDE DEF taken
    <2> QED BY <1>1, <1>2, <1>6, <1>7, AdvanceOK, ToOK
  <1>8. CASE Generator!To(r, Generator!Advance(r, <<>>))
    <2>1. <<>> \in Seq(Produced)
      OBVIOUS
    <2> QED BY <1>1, <1>2, <1>8, <2>1, AdvanceOK, ToOK
  <1>9. CASE Generator!To(r, [tries |-> 1, calls |-> 0])
    <2> DEFINE y == Generator!Over([tries |-> 1, calls |-> 0], generation[r])
    <2>1. /\ DOMAIN y = DOMAIN Generator!Idle
          /\ y.pc = generation[r].pc /\ y.plan = generation[r].plan /\ y.queue = generation[r].queue
      BY <1>1 DEF GenerationOK, Generator!Over, Generator!Idle
    <2> HIDE DEF y
    <2>2. GenerationOK(y)
      BY <1>1, <2>1 DEF GenerationOK, WritingPcs
    <2> QED
      BY <1>9, <2>2, ToOK DEF y
  <1> HIDE DEF taken, found
  <1>10. Generator!To(r, CASE found # <<>> -> Generator!Advance(r, taken)
                           [] found = <<>> /\ generation[r].tries = 0 -> [tries |-> 1, calls |-> 0]
                           [] OTHER -> Generator!Advance(r, <<>>))
    BY <1>4 DEF found, taken
  <1>11. CASE found # <<>>
    BY <1>7, <1>10, <1>11
  <1>12. CASE found = <<>> /\ generation[r].tries = 0
    BY <1>9, <1>10, <1>12
  <1>13. CASE found = <<>> /\ generation[r].tries # 0
    BY <1>8, <1>10, <1>13
  <1> QED
    BY <1>11, <1>12, <1>13

LEMMA ReviewOK ==
  ASSUME Generator!GenerationAssumption, GenerationType, NEW r \in Runs,
         Generator!Reject(r) \/ Generator!Accept(r)
  PROVE  GenerationType'
  <1>1. GenerationOK(generation[r]) /\ generation[r].pc = "review"
    BY DEF GenerationType, Generator!Reject, Generator!Accept
  <1>2. /\ generation[r].plan # <<>> /\ generation[r].question \in Produced
        /\ generation[r].queue \in Seq(Produced) /\ generation[r].queue # <<>>
    BY <1>1 DEF GenerationOK, Generator!Ended
  <1>3. CASE Generator!Reject(r)
    <2>1. Tail(generation[r].queue) \in Seq(Produced)
      BY <1>2
    <2>2. Generator!To(r, Generator!Advance(r, Tail(generation[r].queue)))
      BY <1>3 DEF Generator!Reject
    <2> QED BY <1>1, <1>2, <2>1, <2>2, AdvanceOK, ToOK
  <1>4. CASE Generator!Accept(r)
    <2>1. PICK patch \in Patches \cup {<<>>} :
            Generator!To(r, IF r \in CrossChecked THEN [pc |-> "solve", patch |-> patch]
                            ELSE Generator!Write(generation[r].question, patch, FALSE))
      BY <1>4 DEF Generator!Accept
    <2>2. CASE r \in CrossChecked
      <3> DEFINE y == Generator!Over([pc |-> "solve", patch |-> patch], generation[r])
      <3>1. /\ DOMAIN y = DOMAIN Generator!Idle /\ y.pc = "solve" /\ y.patch = patch
            /\ y.plan = generation[r].plan /\ y.queue = generation[r].queue
            /\ y.question = generation[r].question
        BY <1>1 DEF GenerationOK, Generator!Over, Generator!Idle
      <3> HIDE DEF y
      <3>2. GenerationOK(y)
        BY <1>1, <3>1 DEF GenerationOK, GenerationPcs, WritingPcs, Generator!Ended
      <3> QED
        BY <2>1, <2>2, <3>2, ToOK DEF y
    <2>3. CASE r \notin CrossChecked
      <3> DEFINE q == generation[r].question
      <3>1. /\ {"choices", "correct_choice"} \subseteq DOMAIN q
            /\ "shown" \notin DOMAIN q
            /\ Generator!KeyNamesAnswer(q)
        BY <1>2, ProducedKeys
      <3>2. "shown" \notin DOMAIN patch
        BY <2>1 DEF Generator!GenerationAssumption
      <3> HIDE DEF q
      <3>3. GenerationOK(Generator!Over(Generator!Write(q, patch, FALSE), generation[r]))
        BY <1>1, <3>1, <3>2, WriteOK
      <3> QED
        BY <2>1, <2>3, <3>3, ToOK DEF q
    <2> QED
      BY <2>2, <2>3
  <1> QED
    BY <1>3, <1>4

LEMMA CrossCheckOK ==
  ASSUME Generator!GenerationAssumption, GenerationType, NEW r \in Runs,
         Generator!cross_check_question(r)
  PROVE  GenerationType'
  <1> DEFINE q == generation[r].question
             patch == generation[r].patch
             body == Generator!Over(patch, q)
  <1>1. GenerationOK(generation[r]) /\ generation[r].pc = "solve"
    BY DEF GenerationType, Generator!cross_check_question
  <1>2. q \in Produced /\ patch \in Patches \cup {<<>>}
    BY <1>1 DEF GenerationOK
  <1>3. PICK chosen \in -1 .. Len(body.choices) - 1 :
          Generator!To(r, Generator!Write(
            Generator!Over([shown |-> body.choices, chosen |-> chosen], q), patch,
            ~ (chosen >= 0 /\ chosen = body.correct_choice)))
    BY DEF Generator!cross_check_question, Generator!target, Generator!Revised
  <1> DEFINE seen == Generator!Over([shown |-> body.choices, chosen |-> chosen], q)
             flag == ~ (chosen >= 0 /\ chosen = body.correct_choice)
  <1>4. /\ {"choices", "correct_choice"} \subseteq DOMAIN q
        /\ DOMAIN q \cap {"shown", "chosen"} = {}
        /\ Generator!KeyNamesAnswer(q)
    BY <1>2, ProducedKeys
  <1>5. "shown" \notin DOMAIN patch /\ "chosen" \notin DOMAIN patch
    BY <1>2 DEF Generator!GenerationAssumption
  <1> HIDE DEF q, patch
  <1>6. /\ DOMAIN seen = {"shown", "chosen"} \cup DOMAIN q
        /\ seen.shown = body.choices /\ seen.chosen = chosen
        /\ \A f \in DOMAIN q : seen[f] = q[f]
    <2> HIDE DEF body
    <2> QED BY <1>4 DEF Generator!Over
  <1>7. patch = <<>> => Generator!KeyNamesAnswer(seen)
    <2> HIDE DEF seen
    <2>1. Generator!Get(seen, "correct_answer") = Generator!Get(q, "correct_answer")
      BY <1>6 DEF Generator!Get, Generator!Fields
    <2>2. Generator!Get(q, "correct_answer") # None => seen.correct_answer = q.correct_answer
      BY <1>6 DEF Generator!Get, Generator!Fields
    <2> QED
      BY <1>4, <1>6, <2>1, <2>2 DEF Generator!KeyNamesAnswer
  <1>8. Generator!Over(patch, seen).choices = body.choices /\
        Generator!Over(patch, seen).correct_choice = body.correct_choice
    <2> HIDE DEF seen
    <2> QED BY <1>4, <1>6 DEF Generator!Over
  <1>9. flag \in BOOLEAN /\ (~ flag => chosen = body.correct_choice)
    OBVIOUS
  <1> HIDE DEF body, seen, flag
  <1>10. GenerationOK(Generator!Over(Generator!Write(seen, patch, flag), generation[r]))
    BY <1>1, <1>4, <1>5, <1>6, <1>7, <1>8, <1>9, WriteOK
  <1> QED
    BY <1>3, <1>10, ToOK DEF seen, flag

\* Within write_question only the label and the number change.
LEMMA WritingOK ==
  ASSUME GenerationType, NEW r \in Runs, generation[r].pc \in WritingPcs,
         NEW fields, Generator!To(r, fields), DOMAIN fields \subseteq {"pc", "number"},
         "pc" \in DOMAIN fields => fields.pc \in WritingPcs
  PROVE  GenerationType'
  <1> DEFINE y == Generator!Over(fields, generation[r])
  <1>1. GenerationOK(generation[r])
    BY DEF GenerationType
  <1>2. /\ DOMAIN y = DOMAIN Generator!Idle /\ y.pc \in WritingPcs
        /\ y.plan = generation[r].plan /\ y.queue = generation[r].queue
        /\ y.question = generation[r].question
    BY <1>1 DEF GenerationOK, Generator!Over, Generator!Idle
  <1> HIDE DEF y
  <1>3. GenerationOK(y)
    BY <1>1, <1>2 DEF GenerationOK, GenerationPcs, WritingPcs, Generator!Ended
  <1> QED
    BY <1>3, ToOK DEF y


LEMMA OverApart ==
  ASSUME NEW f, NEW g, NEW h, DOMAIN f \cap DOMAIN g = {}
  PROVE  Generator!Over(Generator!Over(f, g), h) = Generator!Over(g, Generator!Over(f, h))
  <1> DEFINE fg == Generator!Over(f, g)
             fh == Generator!Over(f, h)
             all == DOMAIN f \cup DOMAIN g \cup DOMAIN h
             value(x) == IF x \in DOMAIN f THEN f[x] ELSE IF x \in DOMAIN g THEN g[x] ELSE h[x]
  <1>1. DOMAIN fg = DOMAIN f \cup DOMAIN g
        /\ \A x \in DOMAIN fg : fg[x] = IF x \in DOMAIN f THEN f[x] ELSE g[x]
    BY DEF Generator!Over
  <1>2. DOMAIN fh = DOMAIN f \cup DOMAIN h
        /\ \A x \in DOMAIN fh : fh[x] = IF x \in DOMAIN f THEN f[x] ELSE h[x]
    BY DEF Generator!Over
  <1> HIDE DEF fg, fh
  <1>3. Generator!Over(fg, h) = [x \in all |-> value(x)]
    BY <1>1 DEF Generator!Over
  <1>4. Generator!Over(g, fh) = [x \in all |-> value(x)]
    BY <1>2 DEF Generator!Over
  <1> QED
    BY <1>3, <1>4 DEF fg, fh

LEMMA GenerationTypeStep ==
  ASSUME Generator!GenerationAssumption, GenerationType, NEW r \in Runs,
         Generator!Step(r) \/ Generator!Kill(r)
  PROVE  GenerationType'
  <1>1. CASE Generator!Number(r)
    <2> DEFINE fields == [pc |-> "exists", number |-> Generator!next_question_id(Generator!Subject(r))]
    <2>1. Generator!To(r, fields) /\ generation[r].pc \in WritingPcs
      BY <1>1 DEF Generator!Number, WritingPcs
    <2>2. DOMAIN fields = {"pc", "number"} /\ fields.pc \in WritingPcs
      BY DEF WritingPcs
    <2> HIDE DEF fields
    <2> QED
      BY <2>1, <2>2, WritingOK
  <1>2. CASE Generator!Exists(r) \/ Generator!Touch(r) \/ Generator!Open(r)
    <2>1. PICK p \in {"open", "touch", "number", "dump"} : Generator!To(r, [pc |-> p])
      BY <1>2 DEF Generator!Exists, Generator!Touch, Generator!Open
    <2>2. generation[r].pc \in WritingPcs
      BY <1>2 DEF Generator!Exists, Generator!Touch, Generator!Open, WritingPcs
    <2> DEFINE fields == [pc |-> p]
    <2>3. DOMAIN fields = {"pc"} /\ fields.pc \in WritingPcs
      BY DEF WritingPcs
    <2>4. Generator!To(r, fields)
      BY <2>1
    <2> HIDE DEF fields
    <2> QED
      BY <2>2, <2>3, <2>4, WritingOK
  <1>3. CASE Generator!Dump(r)
    <2> DEFINE x == generation[r]
               rest == Tail(x.queue)
               entry == <<Generator!Name(r), x.question>>
               log == [written |-> Append(x.written, entry)]
               y == Generator!Over(log, x)
    <2>1. GenerationOK(x) /\ x.pc = "dump"
      BY <1>3 DEF GenerationType, Generator!Dump
    <2>2. Generator!To(r, Generator!Over(log, Generator!Advance(r, rest)))
      BY <1>3 DEF Generator!Dump
    <2>3. x.plan # <<>> /\ x.queue \in Seq(Produced) /\ x.queue # <<>>
      BY <2>1 DEF GenerationOK, Generator!Ended, WritingPcs
    <2>4. rest \in Seq(Produced)
      BY <2>3
    <2> HIDE DEF rest, log
    <2>5. /\ DOMAIN log = {"written"} /\ DOMAIN y = DOMAIN Generator!Idle
          /\ y.pc = x.pc /\ y.plan = x.plan /\ y.queue = x.queue /\ y.question = x.question
      BY <2>1 DEF GenerationOK, Generator!Over, Generator!Idle, log
    <2>6. Generator!Over(Generator!Over(log, Generator!Advance(r, rest)), x)
            = Generator!Over(Generator!Advance(r, rest), y)
      <3>1. DOMAIN log \cap DOMAIN Generator!Advance(r, rest) = {}
        BY <2>5 DEF Generator!Advance
      <3> HIDE DEF x
      <3> QED
        BY <3>1, OverApart
    <2>7. GenerationOK(y)
      <3> HIDE DEF y
      <3> QED BY <2>1, <2>5 DEF GenerationOK, WritingPcs
    <2>8. y.plan = generation[r].plan
      BY <2>5
    <2>9. GenerationOK(Generator!Over(Generator!Advance(r, rest), y))
      <3> HIDE DEF y
      <3> QED BY <2>1, <2>3, <2>4, <2>7, <2>8, AdvanceOK
    <2> HIDE DEF y, x
    <2> QED
      BY <2>2, <2>6, <2>9, ToOK DEF x
  <1> QED
    BY <1>1, <1>2, <1>3, StartOK, CallFailsOK, GenerateOK, ReviewOK, CrossCheckOK DEF Generator!Step

LEMMA FilesCheckedStep ==
  ASSUME GenerationType, FilesChecked, NEW r \in Runs, Generator!Step(r) \/ Generator!Kill(r)
  PROVE  FilesChecked'
  <1>1. CASE UNCHANGED questions
    BY <1>1 DEF FilesChecked
  <1>2. ASSUME NEW content, questions' = Generator!Put(r, content),
               content # Generator!Torn => KeyChecked(content)
        PROVE  FilesChecked'
    BY <1>2 DEF FilesChecked, Generator!Put, Generator!Over
  <1>3. CASE Generator!Touch(r) \/ Generator!Open(r)
    BY <1>1, <1>2, <1>3 DEF Generator!Touch, Generator!Open
  <1>4. CASE Generator!Dump(r)
    <2>1. KeyChecked(generation[r].question)
      BY <1>4 DEF Generator!Dump, GenerationType, GenerationOK, WritingPcs
    <2> QED
      BY <1>2, <1>4, <2>1 DEF Generator!Dump
  <1> QED
    BY <1>1, <1>3, <1>4 DEF Generator!Step, Generator!Kill, Generator!Start, Generator!Overloaded, Generator!Raises,
       Generator!generate_batch, Generator!Reject, Generator!Accept, Generator!cross_check_question,
       Generator!Number, Generator!Exists


-----------------------------------------------------------------------------
(* What a run has written stays, while no two look for a number of one     *)
(* subject together: the file that one of them has opened is its own.      *)

Written1(r) == Range(generation[r].written)

Claims ==
    /\ \A r \in Runs : generation[r].written \in Seq(Written1(r))
    /\ Generator!Race => raced
    /\ ~ raced =>
          /\ \A r \in Runs : generation[r].pc = "open" => Generator!Name(r) \notin DOMAIN questions
          /\ \A r \in Runs : generation[r].pc = "dump" =>
                /\ Generator!Name(r) \in DOMAIN questions
                /\ questions[Generator!Name(r)] = Generator!Torn
          /\ \A r, s \in Runs : r # s /\ generation[r].pc = "dump" /\ generation[s].pc = "dump" =>
                Generator!Name(r) # Generator!Name(s)
          /\ \A r \in Runs : \A w \in Written1(r) :
                w[1] \in DOMAIN questions /\ questions[w[1]] = w[2] /\ w[2] # Generator!Torn

\* A step of r leaves the others alone.
LEMMA OthersStay ==
  ASSUME GenerationType, NEW r \in Runs, NEW fields, Generator!To(r, fields)
  PROVE  /\ generation'[r] = Generator!Over(fields, generation[r])
         /\ \A s \in Runs \ {r} : generation'[s] = generation[s] /\ Generator!Name(s)' = Generator!Name(s)
  <1>1. generation'[r] = Generator!Over(fields, generation[r])
    BY DEF GenerationType, Generator!To
  <1>2. \A s \in Runs \ {r} : generation'[s] = generation[s]
    BY DEF GenerationType, Generator!To
  <1> QED
    BY <1>1, <1>2 DEF Generator!Name, Generator!Subject

Quiet(r) ==
    /\ UNCHANGED questions
    /\ \E fields : Generator!To(r, fields)
    /\ generation'[r].written = generation[r].written
    /\ generation'[r].pc \notin {"open", "dump"}

\* Most steps of a run touch no file and do not bring it to open() or to the dump.
LEMMA QuietStep ==
  ASSUME GenerationType, NEW r \in Runs,
         \/ Generator!Start(r) \/ Generator!Overloaded(r) \/ Generator!Raises(r) \/ Generator!Kill(r)
         \/ Generator!generate_batch(r) \/ Generator!Reject(r) \/ Generator!Accept(r)
         \/ Generator!cross_check_question(r) \/ Generator!Number(r)
  PROVE  Quiet(r)
  <1> USE DEF Generator!Idle
  <1>1. GenerationOK(generation[r])
    BY DEF GenerationType
  <1>2. ASSUME NEW fields, Generator!To(r, fields), UNCHANGED questions,
               "written" \in DOMAIN fields => fields.written = generation[r].written,
               "pc" \in DOMAIN fields => fields.pc \notin {"open", "dump"},
               "pc" \notin DOMAIN fields => generation[r].pc \notin {"open", "dump"}
        PROVE  Quiet(r)
    <2>1. generation'[r] = Generator!Over(fields, generation[r])
      BY <1>2, OthersStay
    <2>2. {"written", "pc"} \subseteq DOMAIN generation[r]
      BY <1>1 DEF GenerationOK
    <2> QED
      BY <1>2, <2>1, <2>2 DEF Generator!Over, Quiet
  <1>3. CASE Generator!Start(r)
    <2>1. PICK spec \in Specs[r] :
            Generator!To(r, IF Generator!ParseError(spec) THEN [pc |-> "usage"]
                            ELSE [pc |-> "generate", plan |-> Generator!parse_items(spec)])
      BY <1>3 DEF Generator!Start
    <2> DEFINE fields == IF Generator!ParseError(spec) THEN [pc |-> "usage"]
                         ELSE [pc |-> "generate", plan |-> Generator!parse_items(spec)]
    <2>2. DOMAIN fields \subseteq {"pc", "plan"} /\ "pc" \in DOMAIN fields /\ fields.pc \in {"usage", "generate"}
      OBVIOUS
    <2>3. Generator!To(r, fields)
      BY <2>1
    <2> HIDE DEF fields
    <2> QED
      BY <1>2, <1>3, <2>2, <2>3 DEF Generator!Start
  <1>4. CASE Generator!Overloaded(r) \/ Generator!Raises(r) \/ Generator!Kill(r)
    <2>1. CASE Generator!To(r, Generator!Abort(r))
      <3> DEFINE fields == Generator!Abort(r)
      <3>1. fields.written = generation[r].written /\ fields.pc = "aborted" /\ "pc" \in DOMAIN fields
        BY DEF Generator!Abort
      <3>2. UNCHANGED questions
        BY <1>4 DEF Generator!Overloaded, Generator!Raises, Generator!Kill
      <3> HIDE DEF fields
      <3>3. Generator!To(r, fields)
        BY <2>1 DEF fields
      <3> QED
        BY <1>2, <3>1, <3>2, <3>3
    <2>2. CASE Generator!Overloaded(r) /\ Generator!To(r, [calls |-> generation[r].calls + 1])
      <3> DEFINE fields == [calls |-> generation[r].calls + 1]
      <3>1. DOMAIN fields = {"calls"}
        OBVIOUS
      <3>2. UNCHANGED questions /\ generation[r].pc \notin {"open", "dump"}
        BY <2>2 DEF Generator!Overloaded
      <3> HIDE DEF fields
      <3>3. Generator!To(r, fields)
        BY <2>2 DEF fields
      <3> QED
        BY <1>2, <3>1, <3>2, <3>3
    <2> QED
      BY <1>4, <2>1, <2>2 DEF Generator!Overloaded, Generator!Raises, Generator!Kill
  <1>5. ASSUME NEW rest, Generator!To(r, Generator!Advance(r, rest)), UNCHANGED questions
        PROVE  Quiet(r)
    <2> DEFINE fields == Generator!Advance(r, rest)
    <2>1. "written" \notin DOMAIN fields /\ "pc" \in DOMAIN fields /\ fields.pc \in {"review", "done", "generate"}
      BY DEF Generator!Advance
    <2>2. Generator!To(r, fields)
      BY <1>5
    <2> HIDE DEF fields
    <2> QED
      BY <1>2, <1>5, <2>1, <2>2
  <1>6. CASE Generator!generate_batch(r)
    <2>1. UNCHANGED questions /\ generation[r].pc = "generate"
      BY <1>6 DEF Generator!generate_batch
    <2>2. PICK list \in Batches :
            LET found == Generator!UsableQuestions(list, Head(generation[r].plan))
                taken == SubSeq(found, 1, Generator!Min({Head(generation[r].plan).count, Len(found)}))
            IN  Generator!To(r, CASE found # <<>> -> Generator!Advance(r, taken)
                                  [] found = <<>> /\ generation[r].tries = 0 -> [tries |-> 1, calls |-> 0]
                                  [] OTHER -> Generator!Advance(r, <<>>))
      BY <1>6 DEF Generator!generate_batch
    <2> DEFINE found == Generator!UsableQuestions(list, Head(generation[r].plan))
               taken == SubSeq(found, 1, Generator!Min({Head(generation[r].plan).count, Len(found)}))
               again == [tries |-> 1, calls |-> 0]
    <2>3. Generator!To(r, CASE found # <<>> -> Generator!Advance(r, taken)
                            [] found = <<>> /\ generation[r].tries = 0 -> again
                            [] OTHER -> Generator!Advance(r, <<>>))
      BY <2>2
    <2>4. DOMAIN again = {"tries", "calls"}
      OBVIOUS
    <2> HIDE DEF found, taken, again
    <2>5. CASE found # <<>>
      <3>1. Generator!To(r, Generator!Advance(r, taken))
        BY <2>3, <2>5
      <3> QED BY <1>5, <2>1, <3>1
    <2>6. CASE found = <<>> /\ generation[r].tries = 0
      <3>1. Generator!To(r, again)
        BY <2>3, <2>6
      <3> QED BY <1>2, <2>1, <2>4, <3>1
    <2>7. CASE found = <<>> /\ generation[r].tries # 0
      <3>1. Generator!To(r, Generator!Advance(r, <<>>))
        BY <2>3, <2>7
      <3> QED BY <1>5, <2>1, <3>1
    <2> QED
      BY <2>5, <2>6, <2>7
  <1>7. CASE Generator!Reject(r)
    BY <1>5, <1>7 DEF Generator!Reject
  <1>8. ASSUME NEW q, NEW patch, NEW flag, Generator!To(r, Generator!Write(q, patch, flag)), UNCHANGED questions
        PROVE  Quiet(r)
    <2> DEFINE fields == Generator!Write(q, patch, flag)
    <2>1. "written" \notin DOMAIN fields /\ "pc" \in DOMAIN fields /\ fields.pc \in {"aborted", "number"}
      BY DEF Generator!Write
    <2>2. Generator!To(r, fields)
      BY <1>8
    <2> HIDE DEF fields
    <2> QED
      BY <1>2, <1>8, <2>1, <2>2
  <1>9. CASE Generator!Accept(r)
    <2>1. PICK patch \in Patches \cup {<<>>} :
            Generator!To(r, IF r \in CrossChecked THEN [pc |-> "solve", patch |-> patch]
                            ELSE Generator!Write(generation[r].question, patch, FALSE))
      BY <1>9 DEF Generator!Accept
    <2>2. CASE r \in CrossChecked
      <3> DEFINE fields == [pc |-> "solve", patch |-> patch]
      <3>1. DOMAIN fields = {"pc", "patch"} /\ fields.pc = "solve" /\ Generator!To(r, fields)
        BY <2>1, <2>2
      <3> HIDE DEF fields
      <3> QED
        BY <1>2, <1>9, <3>1 DEF Generator!Accept
    <2>3. CASE r \notin CrossChecked
      BY <1>8, <1>9, <2>1, <2>3 DEF Generator!Accept
    <2> QED
      BY <2>2, <2>3
  <1>10. CASE Generator!cross_check_question(r)
    BY <1>8, <1>10 DEF Generator!cross_check_question
  <1>11. CASE Generator!Number(r)
    <2> DEFINE fields == [pc |-> "exists", number |-> Generator!next_question_id(Generator!Subject(r))]
    <2>1. DOMAIN fields = {"pc", "number"} /\ fields.pc = "exists" /\ Generator!To(r, fields)
      BY <1>11 DEF Generator!Number
    <2> HIDE DEF fields
    <2> QED
      BY <1>2, <1>11, <2>1 DEF Generator!Number
  <1> QED
    BY <1>3, <1>4, <1>6, <1>7, <1>9, <1>10, <1>11


LEMMA ClaimsStep ==
  ASSUME GenerationType, Claims, NEW r \in Runs, Generator!Step(r) \/ Generator!Kill(r),
         raced' = (raced \/ Generator!Race')
  PROVE  Claims'
  <1> DEFINE Holds == /\ \A s \in Runs : generation'[s].written \in Seq(Written1(s)')
                      /\ ~ raced' => /\ \A s \in Runs : generation'[s].pc = "open" => Generator!Name(s)' \notin DOMAIN questions'
                                     /\ \A s \in Runs : generation'[s].pc = "dump" =>
                                           /\ Generator!Name(s)' \in DOMAIN questions'
                                           /\ questions'[Generator!Name(s)'] = Generator!Torn
                                     /\ \A s, t \in Runs :
                                           s # t /\ generation'[s].pc = "dump" /\ generation'[t].pc = "dump" =>
                                              Generator!Name(s)' # Generator!Name(t)'
                                     /\ \A s \in Runs : \A w \in Written1(s)' :
                                           w[1] \in DOMAIN questions' /\ questions'[w[1]] = w[2] /\ w[2] # Generator!Torn
  <1>1. Holds => Claims'
    BY DEF Claims
  <1>2. ~ raced' => ~ raced /\ ~ Generator!Race
    BY DEF Claims
  <1>3. GenerationOK(generation[r])
    BY DEF GenerationType
  <1>4. Generator!Torn = <<>>
    BY DEF Generator!Torn
  <1>5. CASE Quiet(r)
    <2>1. \A s \in Runs \ {r} : generation'[s] = generation[s] /\ Generator!Name(s)' = Generator!Name(s)
      BY <1>5, OthersStay DEF Quiet
    <2>2. \A s \in Runs : Written1(s)' = Written1(s) /\ generation'[s].written = generation[s].written
      BY <1>5, <2>1 DEF Quiet, Written1, Range
    <2>3. UNCHANGED questions /\ generation'[r].pc \notin {"open", "dump"}
      BY <1>5 DEF Quiet
    <2>4. Holds
      BY <1>2, <2>1, <2>2, <2>3 DEF Claims
    <2> QED
      BY <1>1, <2>4
  \* exists(), touch() and open(): the run's question and number stay.
  <1>6. ASSUME NEW p \in WritingPcs, Generator!To(r, [pc |-> p])
        PROVE  /\ generation'[r].pc = p
               /\ \A s \in Runs : Generator!Name(s)' = Generator!Name(s)
               /\ \A s \in Runs : Written1(s)' = Written1(s) /\ generation'[s].written = generation[s].written
               /\ \A s \in Runs \ {r} : generation'[s] = generation[s]
    <2> DEFINE fields == [pc |-> p]
    <2>1. DOMAIN fields = {"pc"} /\ fields.pc = p /\ Generator!To(r, fields)
      BY <1>6
    <2> HIDE DEF fields
    <2>2. generation'[r] = Generator!Over(fields, generation[r])
          /\ \A s \in Runs \ {r} : generation'[s] = generation[s] /\ Generator!Name(s)' = Generator!Name(s)
      BY <2>1, OthersStay
    <2>3. /\ generation'[r].pc = p /\ generation'[r].written = generation[r].written
          /\ generation'[r].question = generation[r].question /\ generation'[r].number = generation[r].number
      BY <1>3, <2>1, <2>2 DEF GenerationOK, Generator!Idle, Generator!Over
    <2>4. Generator!Name(r)' = Generator!Name(r)
      BY <2>3 DEF Generator!Name, Generator!Subject
    <2> QED
      BY <2>2, <2>3, <2>4 DEF Written1, Range
  <1>7. CASE Generator!Exists(r)
    <2>1. PICK p \in {"open", "touch"} :
            Generator!To(r, [pc |-> p]) /\ (p = "open" => Generator!Name(r) \notin DOMAIN questions)
      BY <1>7 DEF Generator!Exists, Generator!There
    <2>2. UNCHANGED questions /\ p \in WritingPcs
      BY <1>7 DEF Generator!Exists, WritingPcs
    <2>3. Holds
      BY <1>2, <1>6, <2>1, <2>2 DEF Claims
    <2> QED
      BY <1>1, <2>3
  \* Another run that has found the same name free is looking at the same time.
  <1>8. ASSUME ~ raced', Generator!Looking(r), NEW s \in Runs \ {r}, generation[s].pc = "open"
        PROVE  Generator!Name(s) # Generator!Name(r)
    BY <1>2, <1>8 DEF Generator!Race, Generator!Looking, Generator!Name
  <1>9. CASE Generator!Touch(r)
    <2>1. Generator!To(r, [pc |-> "number"]) /\ "number" \in WritingPcs /\ Generator!Looking(r)
      BY <1>9 DEF Generator!Touch, WritingPcs, Generator!Looking
    <2>2. /\ DOMAIN questions' \subseteq DOMAIN questions \cup {Generator!Name(r)}
          /\ DOMAIN questions \subseteq DOMAIN questions'
          /\ \A n \in DOMAIN questions : questions'[n] = questions[n]
      BY <1>9 DEF Generator!Touch, Generator!Put, Generator!Over, Generator!There
    <2>3. Holds
      BY <1>2, <1>6, <1>8, <2>1, <2>2 DEF Claims
    <2> QED
      BY <1>1, <2>3
  <1>10. CASE Generator!Open(r)
    <2>1. Generator!To(r, [pc |-> "dump"]) /\ "dump" \in WritingPcs /\ Generator!Looking(r) /\ generation[r].pc = "open"
      BY <1>10 DEF Generator!Open, WritingPcs, Generator!Looking
    <2>2. /\ DOMAIN questions' = DOMAIN questions \cup {Generator!Name(r)}
          /\ questions'[Generator!Name(r)] = Generator!Torn
          /\ \A n \in DOMAIN questions : n # Generator!Name(r) => questions'[n] = questions[n]
      BY <1>10 DEF Generator!Open, Generator!Put, Generator!Over
    <2>3. ~ raced' => Generator!Name(r) \notin DOMAIN questions
      BY <1>2, <2>1 DEF Claims
    <2>4. ASSUME ~ raced', NEW s \in Runs, NEW w \in Written1(s) PROVE w[1] # Generator!Name(r)
      BY <1>2, <2>3, <2>4 DEF Claims
    <2>5. Holds
      BY <1>2, <1>6, <1>8, <2>1, <2>2, <2>3, <2>4 DEF Claims
    <2> QED
      BY <1>1, <2>5
  <1>11. CASE Generator!Dump(r)
    <2> DEFINE x == generation[r]
               q == x.question
               entry == <<Generator!Name(r), q>>
               log == [written |-> Append(x.written, entry)]
               adv == Generator!Advance(r, Tail(x.queue))
    <2>1. Generator!To(r, Generator!Over(log, adv)) /\ x.pc = "dump"
      BY <1>11 DEF Generator!Dump
    <2>2. /\ DOMAIN questions' = DOMAIN questions \cup {Generator!Name(r)}
          /\ questions'[Generator!Name(r)] = q
          /\ \A n \in DOMAIN questions : n # Generator!Name(r) => questions'[n] = questions[n]
      BY <1>11 DEF Generator!Dump, Generator!Put, Generator!Over
    <2>3. "choices" \in DOMAIN q
      BY <1>3, <2>1 DEF GenerationOK, WritingPcs, KeyChecked
    <2>4. q # Generator!Torn
      BY <1>4, <2>3
    <2>5. "written" \notin DOMAIN adv /\ "pc" \in DOMAIN adv /\ adv.pc \in {"review", "done", "generate"}
      BY DEF Generator!Advance
    <2> HIDE DEF adv
    <2>6. generation'[r] = Generator!Over(Generator!Over(log, adv), x)
          /\ \A s \in Runs \ {r} : generation'[s] = generation[s] /\ Generator!Name(s)' = Generator!Name(s)
      BY <2>1, OthersStay
    <2>7. generation'[r].written = Append(x.written, entry) /\ generation'[r].pc \notin {"open", "dump"}
      <3> HIDE DEF entry, x
      <3> QED BY <2>5, <2>6 DEF Generator!Over
    <2>8. /\ generation'[r].written \in Seq(Written1(r)')
          /\ Written1(r)' = Written1(r) \cup {entry}
      <3>1. x.written \in Seq(Written1(r))
        BY DEF Claims
      <3> DEFINE l == x.written
                 k == Append(l, entry)
      <3> HIDE DEF entry
      <3>2. \A S : l \in Seq(S) => /\ k \in Seq(S \cup {entry})
                                   /\ Len(k) = Len(l) + 1 /\ Len(l) \in Nat
                                   /\ \A i \in 1 .. Len(l) : k[i] = l[i]
                                   /\ k[Len(l) + 1] = entry
        <4> HIDE DEF l
        <4> QED OBVIOUS
      <3>3. /\ k \in Seq(Written1(r) \cup {entry})
            /\ Len(k) = Len(l) + 1 /\ Len(l) \in Nat
            /\ \A i \in 1 .. Len(l) : k[i] = l[i]
            /\ k[Len(l) + 1] = entry
        BY <3>1, <3>2
      <3>4. DOMAIN l = 1 .. Len(l) /\ DOMAIN k = 1 .. Len(k)
        BY <3>1, <3>3
      <3>5. Range(k) = Range(l) \cup {entry}
        <4> HIDE DEF l, k
        <4> QED BY <3>3, <3>4 DEF Range
      <3> HIDE DEF k
      <3>6. Written1(r)' = Range(k) /\ Written1(r) = Range(l)
        BY <2>7 DEF Written1, k
      <3> HIDE DEF l
      <3> QED
        BY <2>7, <3>3, <3>5, <3>6 DEF k, l
    <2>9. \A s \in Runs \ {r} : Written1(s)' = Written1(s)
      BY <2>6 DEF Written1, Range
    <2>10. ASSUME ~ raced'
           PROVE  /\ Generator!Name(r) \in DOMAIN questions
                  /\ questions[Generator!Name(r)] = Generator!Torn
                  /\ \A s \in Runs : \A w \in Written1(s) : w[1] # Generator!Name(r)
                  /\ \A s \in Runs \ {r} : generation[s].pc = "dump" => Generator!Name(s) # Generator!Name(r)
      BY <1>2, <2>1, <2>10 DEF Claims
    <2>11. entry[1] = Generator!Name(r) /\ entry[2] = q
      OBVIOUS
    <2> HIDE DEF entry, q, x, log
    <2>12. \A s \in Runs : generation'[s].written \in Seq(Written1(s)')
      <3>1. \A s \in Runs \ {r} : generation'[s].written \in Seq(Written1(s)')
        BY <2>6, <2>9 DEF Claims
      <3> QED
        BY <2>8, <3>1
    <2>13. ASSUME ~ raced', NEW s \in Runs, generation'[s].pc = "open"
           PROVE  Generator!Name(s)' \notin DOMAIN questions'
      <3>1. s # r /\ generation'[s] = generation[s] /\ Generator!Name(s)' = Generator!Name(s)
        BY <2>6, <2>7, <2>13
      <3>2. Generator!Name(s) \notin DOMAIN questions
        BY <1>2, <2>13, <3>1 DEF Claims
      <3> QED
        BY <2>2, <2>10, <2>13, <3>1, <3>2
    <2>14. ASSUME ~ raced', NEW s \in Runs, generation'[s].pc = "dump"
           PROVE  /\ s # r /\ generation[s].pc = "dump" /\ Generator!Name(s)' = Generator!Name(s)
                  /\ Generator!Name(s) \in DOMAIN questions'
                  /\ questions'[Generator!Name(s)] = Generator!Torn
      <3>1. s # r /\ generation'[s] = generation[s] /\ Generator!Name(s)' = Generator!Name(s)
        BY <2>6, <2>7, <2>14
      <3>2. /\ Generator!Name(s) \in DOMAIN questions
            /\ questions[Generator!Name(s)] = Generator!Torn
        BY <1>2, <2>14, <3>1 DEF Claims
      <3>3. Generator!Name(s) # Generator!Name(r)
        BY <2>10, <2>14, <3>1
      <3> QED
        BY <2>2, <2>14, <3>1, <3>2, <3>3
    <2>15. ASSUME ~ raced', NEW s \in Runs, NEW t \in Runs, s # t,
                  generation'[s].pc = "dump", generation'[t].pc = "dump"
           PROVE  Generator!Name(s)' # Generator!Name(t)'
      BY <1>2, <2>14, <2>15 DEF Claims
    <2>16. ASSUME ~ raced', NEW s \in Runs, NEW w \in Written1(s)'
           PROVE  w[1] \in DOMAIN questions' /\ questions'[w[1]] = w[2] /\ w[2] # Generator!Torn
      <3>1. CASE w = entry
        BY <2>2, <2>4, <2>11, <3>1
      <3>2. CASE w # entry
        <4>1. w \in Written1(s)
          BY <2>8, <2>9, <2>16, <3>2
        <4>2. w[1] \in DOMAIN questions /\ questions[w[1]] = w[2] /\ w[2] # Generator!Torn
          BY <1>2, <2>16, <4>1 DEF Claims
        <4>3. w[1] # Generator!Name(r)
          BY <2>10, <2>16, <4>1
        <4> QED
          BY <2>2, <4>2, <4>3
      <3> QED
        BY <3>1, <3>2
    <2>17. Holds
      BY <2>12, <2>13, <2>14, <2>15, <2>16
    <2> QED
      BY <1>1, <2>17
  <1> QED
    BY <1>5, <1>7, <1>9, <1>10, <1>11, QuietStep DEF Generator!Step, Quiet


-----------------------------------------------------------------------------
GeneratorInv == GenerationType /\ FilesChecked /\ Claims

LEMMA GeneratorInit ==
  ASSUME Generator!Init
  PROVE  GeneratorInv
  <1>1. \A r \in Runs : generation[r] = Generator!Idle
    BY DEF Generator!Init
  <1>2. GenerationOK(Generator!Idle)
    BY DEF GenerationOK, GenerationPcs, WritingPcs, Generator!Ended, Generator!Idle
  <1>3. GenerationType
    BY <1>1, <1>2 DEF GenerationType, Generator!Init
  <1>4. FilesChecked
    BY DEF FilesChecked, Generator!Init
  <1>5. \A r \in Runs : /\ generation[r].written = <<>> /\ Written1(r) = {}
                        /\ generation[r].pc = "idle"
    BY <1>1 DEF Generator!Idle, Written1, Range
  <1>6. Claims
    <2>1. <<>> \in Seq({})
      OBVIOUS
    <2>2. \A r \in Runs : generation[r].written \in Seq(Written1(r))
      BY <1>5, <2>1, Zenon
    <2>3. ~ Generator!Race
      BY <1>5 DEF Generator!Race, Generator!Looking
    <2>4. \A r \in Runs : generation[r].pc \notin {"open", "dump"} /\ Written1(r) = {}
      BY <1>5
    <2> QED
      BY <2>2, <2>3, <2>4, Zenon DEF Claims
  <1> QED
    BY <1>3, <1>4, <1>6 DEF GeneratorInv

LEMMA GeneratorStep ==
  ASSUME Generator!GenerationAssumption, GeneratorInv, Generator!Next
  PROVE  GeneratorInv'
  <1>1. PICK r \in Runs : Generator!Step(r) \/ Generator!Kill(r)
    BY DEF Generator!Next
  <1>2. raced' = (raced \/ Generator!Race')
    BY DEF Generator!Next
  <1> QED
    BY <1>1, <1>2, GenerationTypeStep, FilesCheckedStep, ClaimsStep DEF GeneratorInv

LEMMA GeneratorStays ==
  ASSUME GeneratorInv, UNCHANGED generator
  PROVE  GeneratorInv'
  <1>1. \A r : Written1(r)' = Written1(r) /\ Generator!Name(r)' = Generator!Name(r)
    BY DEF generator, Written1, Range, Generator!Name, Generator!Subject
  <1>2. GenerationType' /\ FilesChecked'
    BY DEF GeneratorInv, generator, GenerationType, FilesChecked
  <1>3. Generator!Race' = Generator!Race
    BY DEF generator, Generator!Race, Generator!Looking, Generator!Subject
  <1>4. Claims'
    BY <1>1, <1>3 DEF GeneratorInv, generator, Claims
  <1> QED
    BY <1>2, <1>4 DEF GeneratorInv

LEMMA GeneratorInvariant == OfflineSpec => []GeneratorInv
  <1>1. OfflineInit => GeneratorInv
    BY GeneratorInit DEF OfflineInit
  <1>2. GeneratorInv /\ [OfflineNext]_allVars => GeneratorInv'
    <2> SUFFICES ASSUME GeneratorInv, [OfflineNext]_allVars PROVE GeneratorInv'
      OBVIOUS
    <2>1. Generator!Next \/ UNCHANGED generator
      BY DEF OfflineNext, allVars
    <2> QED
      BY <2>1, GeneratorStep, GeneratorStays, OfflineAssumption DEF OfflineAssumption
  <1> QED
    BY <1>1, <1>2, PTL DEF OfflineSpec

\* The part of the explanations is that of Explanations: its theorem holds offline.
THEOREM OfflineKeepsExplanations == OfflineSpec => Spec
  <1>1. OfflineInit => Init
    BY DEF OfflineInit
  <1>2. [OfflineNext]_allVars => [Next]_vars
    BY DEF OfflineNext, allVars
  <1> QED
    BY <1>1, <1>2, PTL DEF OfflineSpec, Spec

\* generate_eval_set.py: whatever the models reply, however many runs write and
\* whenever they are killed, the key of a stored question is the one that was checked.
THEOREM StoredKeysAreCheckedHolds == OfflineSpec => []StoredKeysAreChecked
  <1>1. GeneratorInv => StoredKeysAreChecked
    BY DEF GeneratorInv, FilesChecked, KeyChecked, StoredKeysAreChecked, Generator!StoredKeysAreChecked
  <1> QED
    BY <1>1, GeneratorInvariant, PTL

\* writer.py: as long as no two runs look for a number of one subject at the same
\* time, what each of them has reported as written is there.
THEOREM WrittenStaysHolds == OfflineSpec => []WrittenStays
  <1>1. ASSUME GeneratorInv PROVE WrittenStays
    <2>1. ASSUME ~ raced, NEW r \in Runs, NEW i \in DOMAIN generation[r].written
          PROVE  /\ generation[r].written[i][1] \in DOMAIN questions
                 /\ questions[generation[r].written[i][1]] = generation[r].written[i][2]
      <3>1. generation[r].written[i] \in Written1(r)
        BY DEF Written1, Range
      <3> QED
        BY <1>1, <2>1, <3>1 DEF GeneratorInv, Claims
    <2> QED
      BY <2>1 DEF WrittenStays, Generator!WrittenStays, Generator!There
  <1> QED
    BY <1>1, GeneratorInvariant, PTL


-----------------------------------------------------------------------------
(* The content pipeline.                                                   *)

\* The signals of a page differ in their anchors.
LEMMA ExtractedApart ==
  ASSUME MaxSignals \in Nat, NEW body, IsList(body)
  PROVE  /\ IsList(Pipeline!extract_signals_from_text(body))
         /\ IsInjective(Pipeline!extract_signals_from_text(body))
  <1> DEFINE twice == {i \in DOMAIN body : Pipeline!Cardinality(body[i] \cap Pipeline!Keywords) >= 2}
             fresh == {i \in twice : \A j \in 1 .. i - 1 : body[j] # body[i]}
             numbers == [i \in DOMAIN body |-> i]
             found == Selected(numbers, fresh)
             n == IF Len(found) < MaxSignals THEN Len(found) ELSE MaxSignals
             kept == SubSeq(found, 1, n)
             signal(s) == [anchor  |-> s,
                           value   |-> Pipeline!summarize_signal(s),
                           subject |-> Pipeline!subject_for(s),
                           phase   |-> Pipeline!phase_for(s)]
             sigs == [i \in DOMAIN kept |-> signal(body[kept[i]])]
  <1>1. Pipeline!extract_signals_from_text(body) = sigs
    BY DEF Pipeline!extract_signals_from_text, Pipeline!FirstOf, FirstOf, Pipeline!Selected, Selected
  <1>2. DOMAIN body = 1 .. Len(body) /\ Len(body) \in Nat
    BY ListFacts
  <1>3. numbers \in Seq(Nat)
    <2>1. numbers = [i \in 1 .. Len(body) |-> i]
      BY <1>2
    <2> HIDE DEF numbers
    <2> QED BY <1>2, <2>1
  <1>4. Len(numbers) = Len(body)
    BY <1>2
  <1>5. \A i, j \in fresh : body[i] = body[j] => i = j
    <2>1. \A i, j \in fresh : i < j => body[i] # body[j]
      BY <1>2
    <2>2. \A i, j \in fresh : i < j \/ j < i \/ i = j
      BY <1>2
    <2> HIDE DEF fresh
    <2> QED BY <2>1, <2>2
  <1> HIDE DEF fresh, twice
  <1>6. found \in Seq(Nat \cap fresh)
    <2> HIDE DEF numbers
    <2> QED BY <1>3, SelectedIsSubsequence
  <1>7. \A i, j \in 1 .. Len(found) : found[i] = found[j] => i = j
    <2>1. PICK at : SelectedAt(at, numbers, fresh)
      <3> HIDE DEF numbers, found
      <3> QED BY <1>3, SelectedIsSubsequence
    <2>2. \A k \in 1 .. Len(found) : at[k] \in 1 .. Len(body)
      BY <1>4, <2>1 DEF SelectedAt
    <2>3. \A k \in 1 .. Len(found) : found[k] = at[k]
      BY <1>2, <2>1, <2>2 DEF SelectedAt
    <2>4. Len(found) \in Nat
      <3> HIDE DEF found
      <3> QED BY <1>6
    <2> HIDE DEF found, numbers
    <2>5. \A j, k \in 1 .. Len(found) : j < k => at[j] < at[k]
      BY <2>1 DEF SelectedAt, found
    <2>6. \A j, k \in 1 .. Len(found) : at[j] = at[k] => j = k
      BY <2>2, <2>4, <2>5
    <2> QED BY <2>3, <2>6
  <1> HIDE DEF found, numbers
  <1>8. n \in Nat /\ n <= Len(found) /\ Len(found) \in Nat
    BY <1>6
  <1>9. kept \in Seq(Nat \cap fresh) /\ Len(kept) = n /\ \A i \in 1 .. n : kept[i] = found[i]
    <2> HIDE DEF n
    <2> QED BY <1>6, <1>8
  <1> HIDE DEF kept, n
  <1>10. DOMAIN kept = 1 .. n /\ \A i \in 1 .. n : kept[i] \in fresh
    BY <1>9
  <1>11. IsList(sigs)
    <2> DEFINE U == {signal(body[i]) : i \in fresh}
    <2>1. \A i \in 1 .. n : signal(body[kept[i]]) \in U
      BY <1>10
    <2>2. sigs = [i \in 1 .. n |-> signal(body[kept[i]])]
      BY <1>10
    <2> HIDE DEF U, signal, sigs
    <2>3. sigs \in Seq(U)
      BY <1>8, <2>1, <2>2
    <2> QED BY <2>3, ListOf
  <1>12. IsInjective(sigs)
    <2>1. ASSUME NEW i \in 1 .. n, NEW j \in 1 .. n, sigs[i] = sigs[j] PROVE i = j
      <3>1. sigs[i].anchor = body[kept[i]] /\ sigs[j].anchor = body[kept[j]]
        BY <1>10
      <3>2. kept[i] = kept[j]
        BY <1>5, <1>10, <2>1, <3>1
      <3>3. found[i] = found[j] /\ i \in 1 .. Len(found) /\ j \in 1 .. Len(found)
        BY <1>8, <1>9, <3>2
      <3> QED BY <1>7, <3>3
    <2>2. DOMAIN sigs = 1 .. n
      BY <1>10
    <2> HIDE DEF sigs
    <2> QED BY <2>1, <2>2 DEF IsInjective
  <1> QED
    BY <1>1, <1>11, <1>12


\* What StatusHasDocument says of a row, over any tables.
Has(t, x, kind) == \E d \in Range(t.documents) : d.of = x /\ d.kind = kind

Backed(t, x) ==
    /\ t.status[x] = "robots_disallowed" => Has(t, x, "robots")
    /\ t.status[x] = "fetch_failed" => Has(t, x, "failed")
    /\ t.status[x] \in {"seeded", "registered"} => \A d \in Range(t.documents) : d.of # x
    /\ t.status[x] \notin {"robots_disallowed", "fetch_failed", "seeded", "registered"} => Has(t, x, "fetched")

DocumentsOK(t) ==
    /\ IsList(t.documents)
    /\ \A d \in Range(t.documents) :
          d.of \in DOMAIN t.status /\ IsList(d.body) /\ (d.text => d.kind = "fetched")
    /\ DOMAIN t.sources \cup DOMAIN t.assets \subseteq DOMAIN t.status
    /\ \A x \in DOMAIN t.status : Backed(t, x)

LEMMA DocumentsKept ==
  ASSUME NEW t, NEW u, DocumentsOK(t),
         u.documents = t.documents, u.status = t.status,
         u.sources = t.sources, u.assets = t.assets
  PROVE  DocumentsOK(u)
  BY DEF DocumentsOK, Backed, Has

\* seed_sources, seed_past_exam_assets
LEMMA DocumentsSeeded ==
  ASSUME NEW t, NEW u, DocumentsOK(t), NEW D, NEW status \in {"seeded", "registered"},
         u.documents = t.documents,
         u.status = Pipeline!InsertOrIgnore(t.status, [x \in D |-> status]),
         DOMAIN u.sources \cup DOMAIN u.assets \subseteq DOMAIN t.status \cup D
  PROVE  DocumentsOK(u)
  <1>1. /\ DOMAIN u.status = DOMAIN t.status \cup D
        /\ \A x \in DOMAIN t.status : u.status[x] = t.status[x]
        /\ \A x \in DOMAIN u.status \ DOMAIN t.status : u.status[x] = status
    BY DEF Pipeline!InsertOrIgnore
  <1>2. ASSUME NEW x \in DOMAIN u.status PROVE Backed(u, x)
    <2>1. CASE x \in DOMAIN t.status
      BY <1>1, <2>1 DEF DocumentsOK, Backed, Has
    <2>2. CASE x \notin DOMAIN t.status
      <3>1. u.status[x] \in {"seeded", "registered"}
        BY <1>1, <2>2
      <3>2. \A d \in Range(u.documents) : d.of # x
        BY <2>2 DEF DocumentsOK
      <3> QED
        BY <3>1, <3>2 DEF Backed
    <2> QED
      BY <2>1, <2>2
  <1> QED
    BY <1>1, <1>2 DEF DocumentsOK

\* One turn of a loop that fetches: the document and the status are of one outcome.
Outcome(kind, status) ==
    \/ kind = "robots" /\ status = "robots_disallowed"
    \/ kind = "failed" /\ status = "fetch_failed"
    \/ /\ kind = "fetched"
       /\ status \in {"fetched", "metadata_fetched", "metadata_fetched_with_attachments"}

LEMMA DocumentsRecorded ==
  ASSUME NEW t, NEW u, DocumentsOK(t), NEW doc, NEW status,
         Outcome(doc.kind, status), doc.of \in DOMAIN t.status, IsList(doc.body),
         doc.text => doc.kind = "fetched",
         \/ u.documents = Append(t.documents, doc)
         \/ /\ u.documents = t.documents /\ doc.kind = "fetched"
            /\ \E d \in Range(t.documents) : d.kind = "fetched" /\ d.of = doc.of,
         u.status = [t.status EXCEPT ![doc.of] = status],
         u.sources = t.sources, u.assets = t.assets
  PROVE  DocumentsOK(u)
  <1>1. IsList(t.documents)
    BY DEF DocumentsOK
  <1>2. /\ IsList(u.documents) /\ Range(t.documents) \subseteq Range(u.documents)
        /\ \A d \in Range(u.documents) \ Range(t.documents) : d = doc
        /\ Has(u, doc.of, doc.kind)
    <2>1. CASE u.documents = Append(t.documents, doc)
      BY <1>1, <2>1, Appended DEF Has
    <2>2. CASE u.documents = t.documents /\ doc.kind = "fetched"
               /\ \E d \in Range(t.documents) : d.kind = "fetched" /\ d.of = doc.of
      BY <1>1, <2>2 DEF Has
    <2> QED
      BY <2>1, <2>2
  <1>3. /\ DOMAIN u.status = DOMAIN t.status /\ u.status[doc.of] = status
        /\ \A x \in DOMAIN t.status : x # doc.of => u.status[x] = t.status[x]
    OBVIOUS
  <1>4. ASSUME NEW x \in DOMAIN u.status PROVE Backed(u, x)
    <2>1. CASE x = doc.of
      BY <1>2, <1>3, <2>1 DEF Backed, Outcome
    <2>2. CASE x # doc.of
      <3>1. Backed(t, x) /\ u.status[x] = t.status[x]
        BY <1>3, <2>2 DEF DocumentsOK
      <3>2. \A k : Has(t, x, k) => Has(u, x, k)
        BY <1>2 DEF Has
      <3>3. (\A d \in Range(t.documents) : d.of # x) => \A d \in Range(u.documents) : d.of # x
        BY <1>2, <2>2
      <3> QED
        BY <3>1, <3>2, <3>3 DEF Backed
    <2> QED
      BY <2>1, <2>2
  <1> QED
    BY <1>2, <1>3, <1>4 DEF DocumentsOK

\* What RulesRestOnSignals says, over any tables.
RulesOK(t) ==
    /\ IsList(t.signals) /\ IsInjective(t.signals)
    /\ \A k \in DOMAIN t.rules : t.rules[k] = Cardinality({l \in t.links : l[1] = k})
    /\ \A l \in t.links :
          /\ l = <<l[1], l[2]>>
          /\ l[1] \in DOMAIN t.rules /\ l[2] \in DOMAIN t.signals
          /\ Pipeline!classify_rule(t.signals[l[2]].signal) = l[1]

LEMMA RulesKept ==
  ASSUME NEW t, NEW u, RulesOK(t), u.signals = t.signals, u.rules = t.rules, u.links = t.links
  PROVE  RulesOK(u)
  BY DEF RulesOK

\* Signals of pages that had none are added.
LEMMA RulesExtracted ==
  ASSUME NEW t, NEW u, RulesOK(t), NEW new, IsList(new), IsInjective(new),
         Range(new) \cap Range(t.signals) = {},
         u.signals = t.signals \o new, u.rules = t.rules, u.links = t.links
  PROVE  RulesOK(u)
  <1> DEFINE s == t.signals
             g == u.signals
  <1>1. IsList(s) /\ IsInjective(s)
    BY DEF RulesOK
  <1>2. DOMAIN s = 1 .. Len(s) /\ DOMAIN new = 1 .. Len(new) /\ Len(s) \in Nat /\ Len(new) \in Nat
    BY <1>1, ListFacts
  <1>3. /\ IsList(g) /\ DOMAIN g = 1 .. Len(s) + Len(new)
        /\ \A i \in 1 .. Len(s) : g[i] = s[i]
        /\ \A i \in 1 .. Len(s) + Len(new) : i > Len(s) => i - Len(s) \in 1 .. Len(new) /\ g[i] = new[i - Len(s)]
    BY <1>1, Joined
  <1> HIDE DEF g
  <1>4. IsInjective(g)
    <2>1. ASSUME NEW i \in DOMAIN g, NEW j \in DOMAIN g, g[i] = g[j] PROVE i = j
      <3>1. \A k \in DOMAIN g : k \in 1 .. Len(s) \/ k > Len(s)
        BY <1>2, <1>3
      <3>2. \A k \in 1 .. Len(s) : g[k] \in Range(s)
        BY <1>2, <1>3 DEF Range
      <3>3. \A k \in DOMAIN g : k > Len(s) => g[k] \in Range(new)
        BY <1>2, <1>3 DEF Range
      <3>4. CASE i \in 1 .. Len(s) /\ j \in 1 .. Len(s)
        BY <1>1, <1>2, <1>3, <2>1, <3>4 DEF IsInjective
      <3>5. CASE i > Len(s) /\ j > Len(s)
        <4>1. /\ i - Len(s) \in DOMAIN new /\ j - Len(s) \in DOMAIN new
              /\ new[i - Len(s)] = new[j - Len(s)]
          BY <1>2, <1>3, <2>1, <3>5
        <4>2. i - Len(s) = j - Len(s)
          BY <4>1 DEF IsInjective
        <4> QED
          BY <1>2, <1>3, <4>2
      <3> QED
        BY <2>1, <3>1, <3>2, <3>3, <3>4, <3>5
    <2> QED
      BY <2>1 DEF IsInjective
  <1>5. \A i \in DOMAIN s : i \in DOMAIN g /\ g[i] = s[i]
    BY <1>2, <1>3
  <1> QED
    BY <1>3, <1>4, <1>5, ZenonT(60) DEF g, RulesOK

\* {k} \X group has as many elements as group.
LEMMA PairsCounted ==
  ASSUME NEW k, NEW G, IsFiniteSet(G)
  PROVE  Cardinality({k} \X G) = Cardinality(G)
  <1> DEFINE pair == [x \in G |-> <<k, x>>]
  <1>1. pair \in Bijection(G, {k} \X G)
    BY DEF Bijection, Injection, Surjection, IsInjective
  <1>2. ExistsBijection(G, {k} \X G)
    BY <1>1 DEF ExistsBijection
  <1> QED
    BY <1>2, FS_Bijection


LEMMA Cardinalities == \A S : Pipeline!Cardinality(S) = Cardinality(S)
  BY DEF Pipeline!Cardinality, Cardinality

\* build_strategy_rules: the links of a rule are then all its signals.
LEMMA RulesBuilt ==
  ASSUME NEW t, NEW u, RulesOK(t), u.signals = t.signals,
         NEW rule, \A i \in DOMAIN t.signals : rule[i] = Pipeline!classify_rule(t.signals[i].signal),
         NEW keys, NEW group, \A k \in keys : group[k] = {i \in DOMAIN t.signals : rule[i] = k},
         \A i \in DOMAIN t.signals : rule[i] \in keys \cup {Pipeline!NoRule},
         Pipeline!NoRule \notin keys,
         u.rules = Pipeline!Upsert(t.rules, [k \in keys |-> Pipeline!Cardinality(group[k])]),
         u.links = t.links \cup UNION {{k} \X group[k] : k \in keys}
  PROVE  RulesOK(u)
  <1>1. /\ DOMAIN u.rules = DOMAIN t.rules \cup keys
        /\ \A k \in keys : u.rules[k] = Cardinality(group[k])
        /\ \A k \in DOMAIN t.rules \ keys : u.rules[k] = t.rules[k]
    BY Cardinalities DEF Pipeline!Upsert
  <1>2. ASSUME NEW l \in u.links
        PROVE  /\ l = <<l[1], l[2]>>
               /\ l[1] \in DOMAIN u.rules /\ l[2] \in DOMAIN u.signals
               /\ Pipeline!classify_rule(u.signals[l[2]].signal) = l[1]
    <2>1. CASE l \in t.links
      BY <1>1, <2>1 DEF RulesOK
    <2>2. CASE l \notin t.links
      <3>1. PICK k \in keys : l \in {k} \X group[k]
        BY <2>2
      <3>2. l = <<l[1], l[2]>> /\ l[1] = k /\ l[2] \in DOMAIN t.signals /\ rule[l[2]] = k
        BY <3>1
      <3> QED
        BY <1>1, <3>2
    <2> QED
      BY <2>1, <2>2
  <1>3. ASSUME NEW k \in DOMAIN u.rules
        PROVE  u.rules[k] = Cardinality({l \in u.links : l[1] = k})
    <2>1. CASE k \in keys
      <3>1. {l \in u.links : l[1] = k} = {k} \X group[k]
        <4>1. ASSUME NEW l \in u.links, l[1] = k PROVE l \in {k} \X group[k]
          <5>1. l = <<l[1], l[2]>> /\ l[2] \in DOMAIN t.signals /\ rule[l[2]] = k
            BY <1>2, <4>1
          <5>2. l[2] \in group[k]
            BY <2>1, <5>1
          <5> QED
            BY <4>1, <5>1, <5>2
        <4>2. ASSUME NEW l \in {k} \X group[k] PROVE l \in u.links /\ l[1] = k
          BY <2>1, <4>2
        <4> QED
          BY <4>1, <4>2
      <3>2. IsFiniteSet(group[k])
        <4>1. DOMAIN t.signals = 1 .. Len(t.signals) /\ Len(t.signals) \in Nat
          BY ListFacts DEF RulesOK
        <4>2. IsFiniteSet(1 .. Len(t.signals))
          BY <4>1, FS_Interval
        <4>3. group[k] \in SUBSET (1 .. Len(t.signals))
          BY <2>1, <4>1
        <4> QED
          BY <4>2, <4>3, FS_Subset
      <3>3. Cardinality({k} \X group[k]) = Cardinality(group[k])
        BY <3>2, PairsCounted
      <3>4. Cardinality({l \in u.links : l[1] = k}) = Cardinality({k} \X group[k])
        BY <3>1
      <3> QED
        BY <1>1, <2>1, <3>3, <3>4
    <2>2. CASE k \notin keys
      <3>1. {l \in u.links : l[1] = k} = {l \in t.links : l[1] = k}
        <4>1. ASSUME NEW l \in u.links, l[1] = k PROVE l \in t.links
          BY <2>2, <4>1
        <4> QED
          BY <4>1
      <3>2. k \in DOMAIN t.rules
        BY <1>1, <2>2
      <3> QED
        BY <1>1, <2>2, <3>1, <3>2 DEF RulesOK
    <2> QED
      BY <2>1, <2>2
  <1> QED
    BY <1>2, <1>3 DEF RulesOK

-----------------------------------------------------------------------------
Tables == {"sources", "status", "documents", "signals", "rules", "links", "subjects",
           "targets", "tutorials", "maps", "assets", "jobs", "runs"}

TablesOK(t) ==
    /\ DOMAIN t = Tables
    /\ t.sources = [x \in DOMAIN t.sources |-> t.sources[x]]
    /\ DocumentsOK(t)
    /\ RulesOK(t)

\* u has what t has collected.
Keeps(t, u) ==
    /\ IsPrefix(t.documents, u.documents)
    /\ IsPrefix(t.signals, u.signals)
    /\ t.links \subseteq u.links
    /\ DOMAIN t.jobs \subseteq DOMAIN u.jobs
    /\ DOMAIN t.status \subseteq DOMAIN u.status
    /\ DOMAIN t.sources \subseteq DOMAIN u.sources
    /\ \A x \in DOMAIN t.sources : u.sources[x] = t.sources[x]
    /\ t.subjects \subseteq u.subjects
    /\ u.tutorials # t.tutorials => u.tutorials = input.tutorials
    /\ u.maps # t.maps => u.maps = Pipeline!safe_problems

\* The connection is ahead of the file by the documents of a loop that fetches.
Ahead ==
    /\ \A f \in Tables \ {"documents", "status"} : tx[f] = db[f]
    /\ IsPrefix(db.documents, tx.documents)
    /\ DOMAIN db.status \subseteq DOMAIN tx.status

Queue == IsList(run.queue) /\ Range(run.queue) \subseteq DOMAIN tx.status

PipelineInv ==
    /\ TablesOK(db) /\ TablesOK(tx) /\ Ahead
    /\ DOMAIN run = DOMAIN Pipeline!Idle /\ run.limit \in Nat /\ Queue

LEMMA PrefixOfItself ==
  ASSUME NEW s, IsList(s)
  PROVE  IsPrefix(s, s)
  BY PrefixFacts, ListFacts

LEMMA KeepsAhead ==
  ASSUME TablesOK(db), TablesOK(tx), Ahead, NEW u, TablesOK(u), Keeps(tx, u)
  PROVE  Keeps(db, u)
  <1>1. /\ tx.signals = db.signals /\ tx.links = db.links /\ tx.jobs = db.jobs
        /\ tx.sources = db.sources /\ tx.subjects = db.subjects
        /\ tx.tutorials = db.tutorials /\ tx.maps = db.maps
    BY DEF Ahead, Tables
  <1>2. IsPrefix(db.documents, u.documents)
    <2>1. IsList(db.documents) /\ IsList(tx.documents) /\ IsList(u.documents)
      BY DEF TablesOK, DocumentsOK
    <2>2. /\ Len(db.documents) <= Len(tx.documents)
          /\ \A i \in 1 .. Len(db.documents) : db.documents[i] = tx.documents[i]
      BY <2>1, PrefixFacts DEF Ahead
    <2>3. /\ Len(tx.documents) <= Len(u.documents)
          /\ \A i \in 1 .. Len(tx.documents) : tx.documents[i] = u.documents[i]
      BY <2>1, PrefixFacts DEF Keeps
    <2>4. Len(db.documents) \in Nat /\ Len(tx.documents) \in Nat /\ Len(u.documents) \in Nat
      BY <2>1, ListFacts
    <2>5. /\ Len(db.documents) <= Len(u.documents)
          /\ \A i \in 1 .. Len(db.documents) : db.documents[i] = u.documents[i]
      BY <2>2, <2>3, <2>4
    <2> QED
      BY <2>1, <2>5, PrefixFacts
  <1>3. DOMAIN db.status \subseteq DOMAIN u.status
    BY DEF Ahead, Keeps
  <1> QED
    BY <1>1, <1>2, <1>3 DEF Keeps

\* A commit that loses nothing.
LEMMA Evidence ==
  ASSUME TablesOK(db), Keeps(db, db')
  PROVE  Pipeline!KeepsEvidence
  <1>1. Pipeline!Restrict(db'.sources, DOMAIN db.sources) = db.sources
    BY DEF Keeps, TablesOK, Pipeline!Restrict
  <1>2. \A s, t : Pipeline!IsPrefix(s, t) <=> IsPrefix(s, t)
    BY DEF Pipeline!IsPrefix, IsPrefix
  <1> QED
    BY <1>1, <1>2 DEF Keeps, Pipeline!KeepsEvidence

LEMMA Committed ==
  ASSUME PipelineInv, NEW u, TablesOK(u), Keeps(tx, u), db' = u, tx' = u,
         run'.queue = run.queue \/ run'.queue = <<>>,
         DOMAIN run' = DOMAIN run, run'.limit \in Nat
  PROVE  PipelineInv' /\ Pipeline!KeepsEvidence
  <1>1. Keeps(db, u)
    BY KeepsAhead DEF PipelineInv
  <1>2. Pipeline!KeepsEvidence
    BY <1>1, Evidence DEF PipelineInv
  <1>3. Ahead'
    BY PrefixOfItself DEF Ahead, TablesOK, DocumentsOK
  <1>4. Queue'
    <2>1. CASE run'.queue = run.queue
      BY <2>1 DEF PipelineInv, Queue, Keeps
    <2>2. CASE run'.queue = <<>>
      <3>1. IsList(<<>>) /\ Range(<<>>) = {}
        <4>1. Range(<<>>) = {}
          BY DEF Range
        <4>2. <<>> \in Seq({})
          OBVIOUS
        <4> QED BY <4>1, <4>2 DEF IsList
      <3> QED BY <2>2, <3>1 DEF Queue
    <2> QED BY <2>1, <2>2
  <1> QED
    BY <1>2, <1>3, <1>4 DEF PipelineInv, TablesOK


LEMMA CommitOK ==
  ASSUME PipelineInv, NEW u, Pipeline!CommitAs(u), TablesOK(u), Keeps(tx, u)
  PROVE  PipelineInv' /\ Pipeline!KeepsEvidence
  <1>1. db' = u /\ tx' = u /\ run' = [run EXCEPT !.todo = Tail(run.todo)]
    BY DEF Pipeline!CommitAs, Pipeline!Advance
  <1>2. DOMAIN run' = DOMAIN run /\ run'.queue = run.queue /\ run'.limit = run.limit
    BY <1>1 DEF PipelineInv, Pipeline!Idle
  <1> QED
    BY <1>1, <1>2, Committed DEF PipelineInv

\* Tables next to the documents, the signals and the rules.
LEMMA BesideOK ==
  ASSUME TablesOK(tx), NEW u, DOMAIN u = Tables,
         u.sources = tx.sources, u.status = tx.status, u.documents = tx.documents, u.assets = tx.assets,
         u.signals = tx.signals, u.rules = tx.rules, u.links = tx.links,
         tx.subjects \subseteq u.subjects, DOMAIN tx.jobs \subseteq DOMAIN u.jobs,
         u.tutorials # tx.tutorials => u.tutorials = input.tutorials,
         u.maps # tx.maps => u.maps = Pipeline!safe_problems
  PROVE  TablesOK(u) /\ Keeps(tx, u)
  <1>1. DocumentsOK(u) /\ RulesOK(u)
    BY DocumentsKept, RulesKept DEF TablesOK
  <1>2. IsPrefix(tx.documents, u.documents) /\ IsPrefix(tx.signals, u.signals)
    BY PrefixOfItself DEF TablesOK, DocumentsOK, RulesOK
  <1> QED
    BY <1>1, <1>2 DEF TablesOK, Keeps

LEMMA SeedOK ==
  ASSUME PipelineInv,
         \/ Pipeline!seed_exam_ontology \/ Pipeline!seed_acquisition_targets
         \/ Pipeline!seed_subject_tutorials \/ Pipeline!seed_problem_solution_maps
         \/ Pipeline!seed_problem_learning_jobs
  PROVE  PipelineInv' /\ Pipeline!KeepsEvidence
  <1>1. TablesOK(tx) /\ DOMAIN tx = Tables
    BY DEF PipelineInv, TablesOK
  <1>2. CASE Pipeline!seed_exam_ontology
    <2> DEFINE u == [tx EXCEPT !.subjects = tx.subjects \cup input.subjects]
    <2>1. Pipeline!CommitAs(u)
      BY <1>2 DEF Pipeline!seed_exam_ontology
    <2>2. DOMAIN u = Tables /\ tx.subjects \subseteq u.subjects /\ \A f \in Tables \ {"subjects"} : u[f] = tx[f]
      BY <1>1 DEF Tables
    <2> HIDE DEF u
    <2> QED
      BY <1>1, <2>1, <2>2, BesideOK, CommitOK DEF Tables
  <1>3. CASE Pipeline!seed_acquisition_targets
    <2> DEFINE u == [tx EXCEPT !.targets = Pipeline!Upsert(tx.targets, input.targets)]
    <2>1. Pipeline!CommitAs(u)
      BY <1>3 DEF Pipeline!seed_acquisition_targets
    <2>2. DOMAIN u = Tables /\ \A f \in Tables \ {"targets"} : u[f] = tx[f]
      BY <1>1 DEF Tables
    <2> HIDE DEF u
    <2> QED
      BY <1>1, <2>1, <2>2, BesideOK, CommitOK DEF Tables
  <1>4. CASE Pipeline!seed_subject_tutorials
    <2> DEFINE u == [tx EXCEPT !.tutorials = input.tutorials]
    <2>1. Pipeline!CommitAs(u)
      BY <1>4 DEF Pipeline!seed_subject_tutorials
    <2>2. DOMAIN u = Tables /\ u.tutorials = input.tutorials /\ \A f \in Tables \ {"tutorials"} : u[f] = tx[f]
      BY <1>1 DEF Tables
    <2> HIDE DEF u
    <2> QED
      BY <1>1, <2>1, <2>2, BesideOK, CommitOK DEF Tables
  <1>5. CASE Pipeline!seed_problem_solution_maps
    <2> DEFINE u == [tx EXCEPT !.maps = Pipeline!safe_problems]
    <2>1. Pipeline!CommitAs(u)
      BY <1>5 DEF Pipeline!seed_problem_solution_maps
    <2>2. DOMAIN u = Tables /\ u.maps = Pipeline!safe_problems /\ \A f \in Tables \ {"maps"} : u[f] = tx[f]
      BY <1>1 DEF Tables
    <2> HIDE DEF u
    <2> QED
      BY <1>1, <2>1, <2>2, BesideOK, CommitOK DEF Tables
  <1>6. CASE Pipeline!seed_problem_learning_jobs
    <2>1. PICK rows : Pipeline!CommitAs([tx EXCEPT !.jobs = Pipeline!Upsert(tx.jobs, rows)])
      BY <1>6 DEF Pipeline!seed_problem_learning_jobs
    <2> DEFINE u == [tx EXCEPT !.jobs = Pipeline!Upsert(tx.jobs, rows)]
    <2>2. DOMAIN u = Tables /\ u.jobs = Pipeline!Upsert(tx.jobs, rows) /\ \A f \in Tables \ {"jobs"} : u[f] = tx[f]
      BY <1>1 DEF Tables
    <2>3. DOMAIN tx.jobs \subseteq DOMAIN u.jobs
      BY <2>2 DEF Pipeline!Upsert
    <2>4. Pipeline!CommitAs(u)
      BY <2>1
    <2> HIDE DEF u
    <2> QED
      BY <1>1, <2>2, <2>3, <2>4, BesideOK, CommitOK DEF Tables
  <1> QED
    BY <1>2, <1>3, <1>4, <1>5, <1>6

\* Sources and assets come in with a status of their own.
LEMMA RowsSeededOK ==
  ASSUME PipelineInv, Pipeline!seed_sources \/ Pipeline!seed_past_exam_assets
  PROVE  PipelineInv' /\ Pipeline!KeepsEvidence
  <1>1. /\ TablesOK(tx) /\ DOMAIN tx = Tables /\ DocumentsOK(tx) /\ RulesOK(tx)
        /\ DOMAIN tx.sources \cup DOMAIN tx.assets \subseteq DOMAIN tx.status
    BY DEF PipelineInv, TablesOK, DocumentsOK
  <1>2. ASSUME NEW u, DOMAIN u = Tables, Pipeline!CommitAs(u), NEW D, NEW status \in {"seeded", "registered"},
               u.status = Pipeline!InsertOrIgnore(tx.status, [x \in D |-> status]),
               DOMAIN u.sources \cup DOMAIN u.assets \subseteq DOMAIN tx.status \cup D,
               u.sources = [x \in DOMAIN u.sources |-> u.sources[x]],
               DOMAIN tx.sources \subseteq DOMAIN u.sources,
               \A x \in DOMAIN tx.sources : u.sources[x] = tx.sources[x],
               \A f \in Tables \ {"sources", "assets", "status"} : u[f] = tx[f]
        PROVE  PipelineInv' /\ Pipeline!KeepsEvidence
    <2>1. /\ u.documents = tx.documents /\ u.signals = tx.signals /\ u.rules = tx.rules /\ u.links = tx.links
          /\ u.subjects = tx.subjects /\ u.jobs = tx.jobs /\ u.tutorials = tx.tutorials /\ u.maps = tx.maps
      BY <1>2 DEF Tables
    <2>2. DocumentsOK(u)
      BY <1>1, <1>2, <2>1, DocumentsSeeded
    <2>3. RulesOK(u)
      BY <1>1, <2>1, RulesKept
    <2>4. IsPrefix(tx.documents, u.documents) /\ IsPrefix(tx.signals, u.signals)
      BY <1>1, <2>1, PrefixOfItself DEF DocumentsOK, RulesOK
    <2>5. DOMAIN tx.status \subseteq DOMAIN u.status
      BY <1>2 DEF Pipeline!InsertOrIgnore
    <2>6. TablesOK(u) /\ Keeps(tx, u)
      BY <1>2, <2>1, <2>2, <2>3, <2>4, <2>5 DEF TablesOK, Keeps
    <2> QED
      BY <1>2, <2>6, CommitOK
  <1>3. CASE Pipeline!seed_sources
    <2> DEFINE D == DOMAIN input.sources
               u == [tx EXCEPT !.sources = Pipeline!InsertOrIgnore(tx.sources, input.sources),
                               !.status = Pipeline!InsertOrIgnore(tx.status, [s \in D |-> "seeded"])]
    <2>1. Pipeline!CommitAs(u)
      BY <1>3 DEF Pipeline!seed_sources
    <2>2. /\ DOMAIN u = Tables
          /\ u.sources = Pipeline!InsertOrIgnore(tx.sources, input.sources)
          /\ u.status = Pipeline!InsertOrIgnore(tx.status, [s \in D |-> "seeded"])
          /\ \A f \in Tables \ {"sources", "status"} : u[f] = tx[f]
      BY <1>1 DEF Tables
    <2>3. u.assets = tx.assets
      BY <2>2 DEF Tables
    <2> HIDE DEF u
    <2>4. /\ DOMAIN u.sources = DOMAIN tx.sources \cup D
          /\ u.sources = [x \in DOMAIN u.sources |-> u.sources[x]]
          /\ \A x \in DOMAIN tx.sources : u.sources[x] = tx.sources[x]
      BY <2>2 DEF Pipeline!InsertOrIgnore
    <2> HIDE DEF D
    <2>5. /\ DOMAIN u.sources \cup DOMAIN u.assets \subseteq DOMAIN tx.status \cup D
          /\ DOMAIN tx.sources \subseteq DOMAIN u.sources
          /\ \A f \in Tables \ {"sources", "assets", "status"} : u[f] = tx[f]
      BY <1>1, <2>2, <2>3, <2>4
    <2>6. "seeded" \in {"seeded", "registered"}
      OBVIOUS
    <2> QED
      BY <1>2, <2>1, <2>2, <2>4, <2>5, <2>6, Zenon
  <1>4. CASE Pipeline!seed_past_exam_assets
    <2> DEFINE row(a) == [input.assets[a] EXCEPT
                            !.training_policy = Pipeline!effective_training_policy(input.assets[a])]
               rows == [a \in DOMAIN input.assets |-> row(a)]
               D == DOMAIN rows
               u == [tx EXCEPT !.assets = Pipeline!Upsert(tx.assets, rows),
                               !.status = Pipeline!InsertOrIgnore(tx.status, [a \in D |-> "registered"])]
    <2>1. Pipeline!CommitAs(u)
      BY <1>4 DEF Pipeline!seed_past_exam_assets
    <2> HIDE DEF rows
    <2>2. /\ DOMAIN u = Tables
          /\ u.assets = Pipeline!Upsert(tx.assets, rows)
          /\ u.status = Pipeline!InsertOrIgnore(tx.status, [a \in D |-> "registered"])
          /\ \A f \in Tables \ {"assets", "status"} : u[f] = tx[f]
      BY <1>1 DEF Tables
    <2>3. u.sources = tx.sources
      BY <2>2 DEF Tables
    <2> HIDE DEF u
    <2>4. DOMAIN u.assets = DOMAIN tx.assets \cup D
      BY <2>2 DEF Pipeline!Upsert
    <2>5. u.sources = [x \in DOMAIN u.sources |-> u.sources[x]]
      BY <1>1, <2>3 DEF TablesOK
    <2> HIDE DEF D
    <2> QED
      BY <1>1, <1>2, <2>1, <2>2, <2>3, <2>4, <2>5
  <1> QED
    BY <1>3, <1>4


LEMMA NothingLost ==
  ASSUME NEW t, TablesOK(t)
  PROVE  Keeps(t, t)
  BY PrefixOfItself DEF Keeps, TablesOK, DocumentsOK, RulesOK

LEMMA EndFetchOK ==
  ASSUME PipelineInv, Pipeline!EndFetch
  PROVE  PipelineInv' /\ Pipeline!KeepsEvidence
  BY CommitOK, NothingLost DEF PipelineInv, Pipeline!EndFetch

\* w has signals of every stored text of a page that has some.
ReadIn(w) ==
    \A d \in DOMAIN tx.documents :
        /\ tx.documents[d].kind = "fetched" /\ tx.documents[d].text
        /\ Pipeline!extract_signals_from_text(tx.documents[d].body) # <<>>
        => \E i \in DOMAIN w.signals : w.signals[i].document = d

LEMMA ExtractOK ==
  ASSUME Pipeline!PipelineAssumption, PipelineInv, Pipeline!extract_signals
  PROVE  /\ PipelineInv' /\ Pipeline!KeepsEvidence
         /\ \E w : Pipeline!CommitAs(w) /\ (\A f \in Tables \ {"signals"} : w[f] = tx[f]) /\ ReadIn(w)
  <1> DEFINE docs == tx.documents
             sigs(d) == Pipeline!extract_signals_from_text(docs[d].body)
             found(d) == [i \in DOMAIN sigs(d) |-> [document |-> d, signal |-> sigs(d)[i]]]
             unread(d) == /\ docs[d].kind = "fetched" /\ docs[d].text
                          /\ \A i \in DOMAIN tx.signals : tx.signals[i].document # d
             ss == [d \in DOMAIN docs |-> IF unread(d) THEN found(d) ELSE <<>>]
             new == FlattenSeq(ss)
             u == [tx EXCEPT !.signals = tx.signals \o new]
  <1>1. Pipeline!CommitAs(u)
    <2>1. Pipeline!CommitAs([tx EXCEPT !.signals = tx.signals \o Pipeline!FlattenSeq(ss)])
      BY DEF Pipeline!extract_signals
    <2>2. Pipeline!FlattenSeq(ss) = new
      <3> HIDE DEF ss
      <3> QED BY DEF Pipeline!FlattenSeq, FlattenSeq
    <2> HIDE DEF ss, new
    <2> QED
      BY <2>1, <2>2
  <1>2. TablesOK(tx) /\ DOMAIN tx = Tables /\ DocumentsOK(tx) /\ RulesOK(tx)
    BY DEF PipelineInv, TablesOK
  <1>3. /\ DOMAIN u = Tables /\ u.signals = tx.signals \o new
        /\ \A f \in Tables \ {"signals"} : u[f] = tx[f]
    <2> HIDE DEF new
    <2> QED BY <1>2 DEF Tables
  <1> HIDE DEF u
  <1>4. ASSUME NEW d \in DOMAIN docs
        PROVE  /\ IsList(found(d)) /\ IsInjective(found(d))
               /\ \A e \in Range(found(d)) : e.document = d
               /\ sigs(d) # <<>> => Range(found(d)) # {}
    <2>1. IsList(docs[d].body)
      <3>1. docs[d] \in Range(docs)
        BY DEF Range
      <3> QED BY <1>2, <3>1 DEF DocumentsOK
    <2>2. MaxSignals \in Nat
      BY DEF Pipeline!PipelineAssumption
    <2> DEFINE s == sigs(d)
    <2>3. IsList(s) /\ IsInjective(s)
      BY <2>1, <2>2, ExtractedApart
    <2> HIDE DEF s
    <2>4. DOMAIN s = 1 .. Len(s) /\ Len(s) \in Nat
      BY <2>3, ListFacts
    <2> DEFINE f == [i \in DOMAIN s |-> [document |-> d, signal |-> s[i]]]
    <2>5. IsList(f)
      <3> DEFINE U == {[document |-> d, signal |-> s[i]] : i \in DOMAIN s}
      <3>1. \A i \in 1 .. Len(s) : [document |-> d, signal |-> s[i]] \in U
        BY <2>4
      <3>2. f = [i \in 1 .. Len(s) |-> [document |-> d, signal |-> s[i]]]
        BY <2>4
      <3> HIDE DEF U, f
      <3>3. f \in Seq(U)
        BY <2>4, <3>1, <3>2
      <3> QED BY <3>3, ListOf
    <2>6. \A i \in DOMAIN f : f[i].document = d /\ f[i].signal = s[i] /\ i \in DOMAIN s
      OBVIOUS
    <2>7. found(d) = f
      BY DEF s
    <2> HIDE DEF f
    <2>8. IsInjective(f)
      BY <2>3, <2>6 DEF IsInjective
    <2>9. \A e \in Range(f) : e.document = d
      BY <2>6 DEF Range
    <2>10. s # <<>> => Range(f) # {}
      <3>1. s # <<>> => 1 \in DOMAIN s
        <4>1. s \in Seq(Range(s))
          BY <2>3 DEF IsList
        <4> QED BY <2>4, <4>1
      <3>2. 1 \in DOMAIN s => f[1] \in Range(f)
        BY <2>6 DEF Range, f
      <3> QED BY <3>1, <3>2
    <2> QED
      BY <2>5, <2>7, <2>8, <2>9, <2>10 DEF s
  <1> HIDE DEF found
  <1>5. IsList(<<>>) /\ Range(<<>>) = {} /\ IsInjective(<<>>)
    <2>1. Range(<<>>) = {} /\ IsInjective(<<>>)
      BY DEF Range, IsInjective
    <2>2. <<>> \in Seq({})
      OBVIOUS
    <2> QED BY <2>1, <2>2 DEF IsList
  <1>6. /\ DOMAIN ss = DOMAIN docs
        /\ \A d \in DOMAIN ss : /\ IsList(ss[d]) /\ IsInjective(ss[d])
                                /\ \A e \in Range(ss[d]) : e.document = d /\ unread(d)
                                /\ unread(d) /\ sigs(d) # <<>> => Range(ss[d]) # {}
    <2>1. ASSUME NEW d \in DOMAIN docs
          PROVE  /\ IsList(ss[d]) /\ IsInjective(ss[d])
                 /\ \A e \in Range(ss[d]) : e.document = d /\ unread(d)
                 /\ unread(d) /\ sigs(d) # <<>> => Range(ss[d]) # {}
      <3>1. CASE unread(d)
        <4>1. ss[d] = found(d)
          BY <3>1
        <4> HIDE DEF ss, sigs
        <4>2. IsList(ss[d]) /\ IsInjective(ss[d]) /\ \A e \in Range(ss[d]) : e.document = d
          BY <1>4, <4>1
        <4>3. sigs(d) # <<>> => Range(ss[d]) # {}
          BY <1>4, <4>1
        <4> HIDE DEF unread
        <4> QED BY <3>1, <4>2, <4>3
      <3>2. CASE ~ unread(d)
        <4>1. ss[d] = <<>>
          BY <3>2
        <4> HIDE DEF ss, sigs, unread
        <4> QED BY <1>5, <3>2, <4>1
      <3> QED BY <3>1, <3>2
    <2> QED BY <2>1
  <1>7. IsList(ss)
    <2>1. DOMAIN docs = 1 .. Len(docs) /\ Len(docs) \in Nat
      BY <1>2, ListFacts DEF DocumentsOK
    <2> DEFINE U == {ss[d] : d \in DOMAIN docs}
    <2>2. ss = [d \in 1 .. Len(docs) |-> ss[d]] /\ \A d \in 1 .. Len(docs) : ss[d] \in U
      BY <2>1
    <2> HIDE DEF U, ss
    <2>3. [d \in 1 .. Len(docs) |-> ss[d]] \in Seq(U)
      BY <2>1, <2>2
    <2> QED BY <2>2, <2>3, ListOf
  <1> HIDE DEF ss, sigs
  <1>8. \A c, d \in DOMAIN ss : c # d => Range(ss[c]) \cap Range(ss[d]) = {}
    BY <1>6
  <1>9. /\ IsList(new) /\ IsInjective(new)
        /\ Range(new) = UNION {Range(ss[d]) : d \in DOMAIN ss}
    BY <1>6, <1>7, <1>8, Flattened
  <1> HIDE DEF new
  <1>10. Range(new) \cap Range(tx.signals) = {}
    <2>1. \A e \in Range(new) : \A i \in DOMAIN tx.signals : tx.signals[i].document # e.document
      BY <1>6, <1>9
    <2> QED
      BY <2>1 DEF Range
  <1>11. /\ u.rules = tx.rules /\ u.links = tx.links
         /\ u.documents = tx.documents /\ u.status = tx.status /\ u.sources = tx.sources /\ u.assets = tx.assets
         /\ u.subjects = tx.subjects /\ u.jobs = tx.jobs /\ u.tutorials = tx.tutorials /\ u.maps = tx.maps
    BY <1>3 DEF Tables
  <1>12. RulesOK(u)
    BY <1>2, <1>3, <1>9, <1>10, <1>11, RulesExtracted
  <1>13. DocumentsOK(u)
    BY <1>2, <1>11, DocumentsKept
  <1>14. IsPrefix(tx.signals, u.signals) /\ IsPrefix(tx.documents, u.documents)
    <2>1. IsList(tx.signals) /\ IsList(u.signals)
      BY <1>2, <1>12 DEF RulesOK
    <2>2. /\ Len(tx.signals) \in Nat /\ Len(new) \in Nat
          /\ DOMAIN u.signals = 1 .. Len(tx.signals) + Len(new)
          /\ \A i \in 1 .. Len(tx.signals) : u.signals[i] = tx.signals[i]
      BY <1>3, <1>9, <2>1, Joined
    <2>3. DOMAIN u.signals = 1 .. Len(u.signals) /\ Len(u.signals) \in Nat
      BY <2>1, ListFacts
    <2>4. Len(u.signals) >= Len(tx.signals)
      BY <2>2, <2>3
    <2>5. IsPrefix(tx.signals, u.signals)
      BY <2>1, <2>2, <2>3, <2>4, PrefixFacts
    <2> QED
      BY <1>2, <1>11, <2>5, PrefixOfItself DEF DocumentsOK
  <1>15. TablesOK(u) /\ Keeps(tx, u)
    BY <1>2, <1>3, <1>11, <1>12, <1>13, <1>14 DEF TablesOK, Keeps
  <1>16. ASSUME NEW d \in DOMAIN docs, docs[d].kind = "fetched", docs[d].text,
                Pipeline!extract_signals_from_text(docs[d].body) # <<>>
         PROVE  \E i \in DOMAIN u.signals : u.signals[i].document = d
    <2>1. IsList(tx.signals) /\ DOMAIN tx.signals = 1 .. Len(tx.signals) /\ Len(tx.signals) \in Nat
      BY <1>2, ListFacts DEF RulesOK
    <2>2. DOMAIN new = 1 .. Len(new) /\ Len(new) \in Nat
      BY <1>9, ListFacts
    <2>3. /\ DOMAIN u.signals = 1 .. Len(tx.signals) + Len(new)
          /\ \A i \in 1 .. Len(tx.signals) : u.signals[i] = tx.signals[i]
          /\ \A i \in 1 .. Len(new) : u.signals[Len(tx.signals) + i] = new[i]
      BY <1>3, <1>9, <2>1, Joined, SMTT(60)
    <2>4. CASE unread(d)
      <3>1. Range(ss[d]) # {}
        BY <1>6, <1>16, <2>4 DEF sigs
      <3>2. PICK e \in Range(new) : e.document = d
        BY <1>6, <1>9, <3>1
      <3>3. PICK i \in DOMAIN new : new[i] = e
        BY <3>2 DEF Range
      <3>4. Len(tx.signals) + i \in DOMAIN u.signals
        BY <2>1, <2>2, <2>3, <3>3
      <3> QED BY <2>2, <2>3, <3>2, <3>3, <3>4
    <2>5. CASE ~ unread(d)
      <3>1. PICK i \in DOMAIN tx.signals : tx.signals[i].document = d
        BY <1>16, <2>5
      <3>2. i \in DOMAIN u.signals
        BY <2>1, <2>2, <2>3, <3>1
      <3> QED BY <2>1, <2>3, <3>1, <3>2
    <2> QED BY <2>4, <2>5
  <1>17. PipelineInv' /\ Pipeline!KeepsEvidence
    BY <1>1, <1>15, CommitOK
  <1>18. ReadIn(u)
    BY <1>16 DEF ReadIn
  <1> QED
    BY <1>1, <1>3, <1>17, <1>18, Zenon

LEMMA BuildOK ==
  ASSUME PipelineInv, Pipeline!build_strategy_rules
  PROVE  PipelineInv' /\ Pipeline!KeepsEvidence
  <1> DEFINE D == DOMAIN tx.signals
             rule == [i \in D |-> Pipeline!classify_rule(tx.signals[i].signal)]
             keys == {rule[i] : i \in D} \ {Pipeline!NoRule}
             group == [k \in keys |-> {i \in D : rule[i] = k}]
             u == [tx EXCEPT !.rules = Pipeline!Upsert(tx.rules, [k \in keys |-> Pipeline!Cardinality(group[k])]),
                             !.links = tx.links \cup UNION {{k} \X group[k] : k \in keys}]
  <1>1. Pipeline!CommitAs(u)
    <2> DEFINE rule0(i) == Pipeline!classify_rule(tx.signals[i].signal)
               group0(k) == {i \in DOMAIN tx.signals : rule0(i) = k}
               keys0 == {rule0(i) : i \in DOMAIN tx.signals} \ {Pipeline!NoRule}
    <2>1. Pipeline!CommitAs([tx EXCEPT
              !.rules = Pipeline!Upsert(tx.rules, [k \in keys0 |-> Pipeline!Cardinality(group0(k))]),
              !.links = tx.links \cup UNION {{k} \X group0(k) : k \in keys0}])
      BY DEF Pipeline!build_strategy_rules
    <2>2. \A i \in D : rule[i] = rule0(i)
      OBVIOUS
    <2>3. keys = keys0
      BY <2>2
    <2>4. \A k \in keys : group[k] = group0(k)
      <3>1. \A k \in keys : group[k] = {i \in D : rule[i] = k}
        OBVIOUS
      <3> HIDE DEF rule, group, keys
      <3> QED BY <2>2, <3>1
    <2> HIDE DEF group0, group, keys, keys0, rule, rule0
    <2>5. [k \in keys0 |-> Pipeline!Cardinality(group0(k))] = [k \in keys |-> Pipeline!Cardinality(group[k])]
      BY <2>3, <2>4
    <2>6. UNION {{k} \X group0(k) : k \in keys0} = UNION {{k} \X group[k] : k \in keys}
      BY <2>3, <2>4
    <2> QED
      BY <2>1, <2>5, <2>6
  <1>2. TablesOK(tx) /\ DOMAIN tx = Tables /\ DocumentsOK(tx) /\ RulesOK(tx)
    BY DEF PipelineInv, TablesOK
  <1>3. /\ \A i \in D : rule[i] = Pipeline!classify_rule(tx.signals[i].signal)
        /\ \A k \in keys : group[k] = {i \in D : rule[i] = k}
        /\ \A i \in D : rule[i] \in keys \cup {Pipeline!NoRule}
        /\ Pipeline!NoRule \notin keys
    OBVIOUS
  <1> HIDE DEF rule, keys, group
  <1>4. /\ DOMAIN u = Tables
        /\ u.rules = Pipeline!Upsert(tx.rules, [k \in keys |-> Pipeline!Cardinality(group[k])])
        /\ u.links = tx.links \cup UNION {{k} \X group[k] : k \in keys}
        /\ \A f \in Tables \ {"rules", "links"} : u[f] = tx[f]
    BY <1>2 DEF Tables
  <1> HIDE DEF u
  <1>5. /\ u.signals = tx.signals
        /\ u.documents = tx.documents /\ u.status = tx.status /\ u.sources = tx.sources /\ u.assets = tx.assets
        /\ u.subjects = tx.subjects /\ u.jobs = tx.jobs /\ u.tutorials = tx.tutorials /\ u.maps = tx.maps
    BY <1>4 DEF Tables
  <1>6. RulesOK(u)
    BY <1>2, <1>3, <1>4, <1>5, RulesBuilt
  <1>7. DocumentsOK(u)
    BY <1>2, <1>5, DocumentsKept
  <1>8. IsPrefix(tx.signals, u.signals) /\ IsPrefix(tx.documents, u.documents)
    BY <1>2, <1>5, PrefixOfItself DEF DocumentsOK, RulesOK
  <1>9. TablesOK(u) /\ Keeps(tx, u)
    BY <1>2, <1>4, <1>5, <1>6, <1>7, <1>8 DEF TablesOK, Keeps
  <1> QED
    BY <1>1, <1>9, CommitOK


\* Steps of the loops that fetch: the file stays as it is.
LEMMA RecordOK ==
  ASSUME PipelineInv, NEW doc, NEW status, Pipeline!Record(doc, status),
         Outcome(doc.kind, status), doc.of \in Range(run.queue), IsList(doc.body), doc.text => doc.kind = "fetched",
         run.queue # <<>>
  PROVE  PipelineInv' /\ UNCHANGED db
  <1>1. TablesOK(tx) /\ DOMAIN tx = Tables /\ DocumentsOK(tx) /\ RulesOK(tx) /\ IsList(tx.documents)
    BY DEF PipelineInv, TablesOK, DocumentsOK
  <1> DEFINE known == /\ doc.kind = "fetched"
                      /\ \E d \in Range(tx.documents) : d.kind = "fetched" /\ d.of = doc.of /\ d.body = doc.body
             docs == IF known THEN tx.documents ELSE Append(tx.documents, doc)
  <1>2. /\ tx' = [tx EXCEPT !.documents = docs, !.status[doc.of] = status]
        /\ run' = [run EXCEPT !.queue = Tail(run.queue)]
        /\ UNCHANGED <<input, db, pub, runs>>
    BY DEF Pipeline!Record, Pipeline!Range, Range
  <1>3. \/ docs = Append(tx.documents, doc)
        \/ /\ docs = tx.documents /\ doc.kind = "fetched"
           /\ \E d \in Range(tx.documents) : d.kind = "fetched" /\ d.of = doc.of
    OBVIOUS
  <1> HIDE DEF docs, known
  <1>4. /\ DOMAIN tx' = Tables /\ tx'.documents = docs /\ tx'.status = [tx.status EXCEPT ![doc.of] = status]
        /\ \A f \in Tables \ {"documents", "status"} : tx'[f] = tx[f]
    BY <1>1, <1>2 DEF Tables
  <1>5. /\ tx'.sources = tx.sources /\ tx'.assets = tx.assets
        /\ tx'.signals = tx.signals /\ tx'.rules = tx.rules /\ tx'.links = tx.links
    BY <1>4 DEF Tables
  <1>6. doc.of \in DOMAIN tx.status
    BY DEF PipelineInv, Queue
  <1>7. DocumentsOK(tx')
    BY <1>1, <1>3, <1>4, <1>5, <1>6, DocumentsRecorded
  <1>8. RulesOK(tx')
    BY <1>1, <1>5, RulesKept
  <1>9. TablesOK(tx')
    BY <1>1, <1>4, <1>5, <1>7, <1>8 DEF TablesOK
  <1>10. DOMAIN tx'.status = DOMAIN tx.status
    BY <1>4
  <1>11. IsPrefix(db.documents, tx'.documents)
    <2>1. IsList(db.documents) /\ IsList(tx'.documents) /\ IsPrefix(db.documents, tx.documents)
      BY <1>7 DEF PipelineInv, TablesOK, DocumentsOK, Ahead
    <2>2. /\ Len(tx.documents) <= Len(tx'.documents)
          /\ \A i \in 1 .. Len(tx.documents) : tx'.documents[i] = tx.documents[i]
      <3>1. CASE docs = Append(tx.documents, doc)
        BY <1>1, <1>4, <3>1, Appended
      <3>2. CASE docs = tx.documents
        BY <1>1, <1>4, <3>2, ListFacts
      <3> QED BY <1>3, <3>1, <3>2
    <2>3. Len(db.documents) \in Nat /\ Len(tx.documents) \in Nat /\ Len(tx'.documents) \in Nat
      BY <1>1, <2>1, ListFacts
    <2>4. /\ Len(db.documents) <= Len(tx.documents)
          /\ \A i \in 1 .. Len(db.documents) : db.documents[i] = tx.documents[i]
      BY <1>1, <2>1, PrefixFacts
    <2>5. /\ Len(db.documents) <= Len(tx'.documents)
          /\ \A i \in 1 .. Len(db.documents) : db.documents[i] = tx'.documents[i]
      BY <2>2, <2>3, <2>4
    <2> QED BY <2>1, <2>5, PrefixFacts
  <1>12. Ahead'
    BY <1>2, <1>4, <1>10, <1>11 DEF PipelineInv, Ahead
  <1>13. /\ DOMAIN run' = DOMAIN Pipeline!Idle /\ run'.limit = run.limit
         /\ run'.queue = Tail(run.queue)
    BY <1>2 DEF PipelineInv, Pipeline!Idle
  <1>14. IsList(Tail(run.queue)) /\ Range(Tail(run.queue)) \subseteq Range(run.queue)
    BY TailOfList DEF PipelineInv, Queue
  <1>15. Queue'
    BY <1>10, <1>13, <1>14 DEF PipelineInv, Queue
  <1> QED
    BY <1>2, <1>9, <1>12, <1>13, <1>15 DEF PipelineInv

LEMMA FetchOK ==
  ASSUME Pipeline!PipelineAssumption, PipelineInv, Pipeline!FetchSource \/ Pipeline!FetchAsset
  PROVE  PipelineInv' /\ UNCHANGED db
  <1> DEFINE x == Head(run.queue)
  <1>1. run.queue # <<>>
    BY DEF Pipeline!FetchSource, Pipeline!FetchAsset
  <1>2. x \in Range(run.queue)
    BY <1>1, HeadOfList DEF PipelineInv, Queue
  <1>3. \A b \in Bodies : IsList(b)
    BY DEF Pipeline!PipelineAssumption, IsList, Pipeline!Range, Range
  <1> HIDE DEF x
  <1>4. IsList(<<>>)
    BY NothingIsAList
  <1>5. ASSUME NEW kind \in {"robots", "failed"}, NEW status, Outcome(kind, status),
               Pipeline!Record(Pipeline!Failed(x, kind), status)
        PROVE  PipelineInv' /\ UNCHANGED db
    <2> DEFINE doc == Pipeline!Failed(x, kind)
    <2>1. doc.of = x /\ doc.kind = kind /\ doc.body = <<>> /\ ~ doc.text
      BY DEF Pipeline!Failed
    <2> HIDE DEF doc
    <2>2. Pipeline!Record(doc, status)
      BY <1>5 DEF doc
    <2> QED
      BY <1>1, <1>2, <1>4, <1>5, <2>1, <2>2, RecordOK
  <1>6. ASSUME NEW b \in Bodies, NEW text, NEW status, Outcome("fetched", status),
               Pipeline!Record([of |-> x, kind |-> "fetched", body |-> b, text |-> text], status)
        PROVE  PipelineInv' /\ UNCHANGED db
    <2> DEFINE doc == [of |-> x, kind |-> "fetched", body |-> b, text |-> text]
    <2>1. doc.of = x /\ doc.kind = "fetched" /\ doc.body = b
      OBVIOUS
    <2> HIDE DEF doc
    <2>2. Pipeline!Record(doc, status)
      BY <1>6 DEF doc
    <2> QED
      BY <1>1, <1>2, <1>3, <1>6, <2>1, <2>2, RecordOK
  <1>7. CASE Pipeline!FetchSource
    <2> DEFINE text == run.store_text \/ tx.sources[x] = "internal_analysis_only"
    <2>1. \/ Pipeline!Record(Pipeline!Failed(x, "robots"), "robots_disallowed")
          \/ Pipeline!Record(Pipeline!Failed(x, "failed"), "fetch_failed")
          \/ \E b \in Bodies :
                Pipeline!Record([of |-> x, kind |-> "fetched", body |-> b, text |-> text], "fetched")
      BY <1>7 DEF Pipeline!FetchSource, x
    <2> HIDE DEF text
    <2> QED
      BY <1>5, <1>6, <2>1 DEF Outcome
  <1>8. CASE Pipeline!FetchAsset
    <2>1. \/ Pipeline!Record(Pipeline!Failed(x, "robots"), "robots_disallowed")
          \/ Pipeline!Record(Pipeline!Failed(x, "failed"), "fetch_failed")
          \/ \E b \in Bodies, attachments \in BOOLEAN :
                Pipeline!Record([of |-> x, kind |-> "fetched", body |-> b, text |-> FALSE],
                                IF attachments THEN "metadata_fetched_with_attachments" ELSE "metadata_fetched")
      BY <1>8 DEF Pipeline!FetchAsset, x
    <2> QED
      BY <1>5, <1>6, <2>1 DEF Outcome
  <1> QED
    BY <1>7, <1>8

LEMMA BeginOK ==
  ASSUME Pipeline!PipelineAssumption, PipelineInv,
         Pipeline!fetch_sources \/ Pipeline!fetch_past_exam_asset_metadata
  PROVE  PipelineInv' /\ UNCHANGED db
  <1>1. IsList(SourceOrder) /\ IsList(AssetOrder)
    BY DEF Pipeline!PipelineAssumption, IsList, Pipeline!Range, Range
  <1>2. ASSUME NEW step, NEW loop, NEW order, IsList(order), NEW T, T \subseteq DOMAIN tx.status,
               Pipeline!BeginFetch(step, loop, Pipeline!Selected(order, T))
        PROVE  PipelineInv' /\ UNCHANGED db
    <2> DEFINE rows == Selected(order, T)
               q == Pipeline!Limited(rows)
    <2>1. Pipeline!Selected(order, T) = rows
      BY DEF Pipeline!Selected, Selected
    <2>2. /\ UNCHANGED <<db, tx>>
          /\ run' = [run EXCEPT !.todo = <<loop>> \o Tail(run.todo), !.queue = q]
      <3> HIDE DEF rows
      <3> QED BY <1>2, <2>1 DEF Pipeline!BeginFetch
    <2>3. rows \in Seq(T)
      <3> DEFINE R == Range(order)
      <3>1. order \in Seq(R)
        BY <1>2 DEF IsList
      <3> HIDE DEF R
      <3>2. rows \in Seq(R \cap T)
        BY <3>1, SelectedIsSubsequence
      <3> HIDE DEF rows
      <3> QED BY <3>2
    <2> HIDE DEF rows
    <2>4. q \in Seq(T)
      BY <2>3 DEF Pipeline!Limited, PipelineInv
    <2> HIDE DEF q
    <2>5. DOMAIN run' = DOMAIN run /\ run'.queue = q /\ run'.limit = run.limit
      BY <2>2 DEF PipelineInv, Pipeline!Idle
    <2>6. IsList(q)
      BY <2>4, ListOf
    <2>7. Range(q) \subseteq T
      BY <2>4 DEF Range
    <2> QED
      BY <1>2, <2>2, <2>5, <2>6, <2>7 DEF PipelineInv, Ahead, Queue
  <1>3. DOMAIN tx.sources \subseteq DOMAIN tx.status /\ DOMAIN tx.assets \subseteq DOMAIN tx.status
    BY DEF PipelineInv, TablesOK, DocumentsOK
  <1>4. CASE Pipeline!fetch_sources
    BY <1>1, <1>2, <1>3, <1>4 DEF Pipeline!fetch_sources
  <1>5. CASE Pipeline!fetch_past_exam_asset_metadata
    <2> DEFINE T == {a \in DOMAIN tx.assets : tx.assets[a].fetch_policy = "metadata_page"}
    <2>1. Pipeline!BeginFetch("fetch_assets", "fetching_assets", Pipeline!Selected(AssetOrder, T))
      BY <1>5 DEF Pipeline!fetch_past_exam_asset_metadata
    <2>2. T \subseteq DOMAIN tx.status
      BY <1>3
    <2> HIDE DEF T
    <2> QED
      BY <1>1, <1>2, <2>1, <2>2
  <1> QED
    BY <1>4, <1>5


\* Steps that leave the tables alone or go back to the file.
LEMMA AsideOK ==
  ASSUME PipelineInv, UNCHANGED db, tx' \in {tx, db}, DOMAIN run' = DOMAIN run, run'.limit \in Nat,
         run'.queue = <<>> \/ (run'.queue = run.queue /\ tx' = tx)
  PROVE  PipelineInv'
  <1>1. TablesOK(db') /\ TablesOK(tx')
    BY DEF PipelineInv
  <1>2. IsPrefix(db.documents, db.documents)
    BY PrefixOfItself DEF PipelineInv, TablesOK, DocumentsOK
  <1>3. Ahead'
    BY <1>2 DEF PipelineInv, Ahead
  <1>4. Queue'
    BY NothingIsAList DEF PipelineInv, Queue
  <1> QED
    BY <1>1, <1>3, <1>4 DEF PipelineInv

LEMMA RecordRunOK ==
  ASSUME PipelineInv, Pipeline!record_run
  PROVE  PipelineInv' /\ Pipeline!KeepsEvidence
  <1> DEFINE u == [tx EXCEPT !.runs = tx.runs + 1]
  <1>1. db' = u /\ tx' = u /\ run' = Pipeline!Idle
    BY DEF Pipeline!record_run
  <1>2. TablesOK(tx) /\ DOMAIN tx = Tables
    BY DEF PipelineInv, TablesOK
  <1>3. DOMAIN u = Tables /\ \A f \in Tables \ {"runs"} : u[f] = tx[f]
    BY <1>2 DEF Tables
  <1> HIDE DEF u
  <1>4. TablesOK(u) /\ Keeps(tx, u)
    BY <1>2, <1>3, BesideOK DEF Tables
  <1>5. run'.queue = <<>> /\ DOMAIN run' = DOMAIN run /\ run'.limit \in Nat
    BY <1>1 DEF PipelineInv, Pipeline!Idle
  <1> QED
    BY <1>1, <1>4, <1>5, Committed

LEMMA AsidesOK ==
  ASSUME Pipeline!PipelineAssumption, PipelineInv,
         \/ \E inv \in Invocations : Pipeline!Start(inv)
         \/ Pipeline!EditSeeds \/ Pipeline!publish_tutorials \/ Pipeline!publish_maps
         \/ Pipeline!write_manifest \/ Pipeline!write_public_manifest
         \/ Pipeline!IntegrityError \/ Pipeline!FetchRaises \/ Pipeline!Killed \/ Pipeline!Finished
  PROVE  PipelineInv' /\ UNCHANGED db
  <1>1. CASE \E inv \in Invocations : Pipeline!Start(inv)
    <2>1. PICK inv \in Invocations : Pipeline!Start(inv)
      BY <1>1
    <2>2. inv.limit \in Nat
      BY DEF Pipeline!PipelineAssumption
    <2>3. /\ UNCHANGED db /\ tx' = db
          /\ DOMAIN run' = DOMAIN Pipeline!Idle /\ run'.queue = <<>> /\ run'.limit = inv.limit
      BY <2>1 DEF Pipeline!Start, Pipeline!Idle
    <2> QED
      BY <2>2, <2>3, AsideOK DEF PipelineInv
  <1>2. CASE Pipeline!EditSeeds \/ Pipeline!Finished
    <2>1. UNCHANGED <<db, tx, run>>
      BY <1>2 DEF Pipeline!EditSeeds, Pipeline!Finished, Pipeline!vars
    <2> QED
      BY <2>1, AsideOK DEF PipelineInv
  <1>3. ASSUME NEW step, NEW file, NEW content, Pipeline!Publish(step, file, content)
        PROVE  PipelineInv' /\ UNCHANGED db
    <2>1. UNCHANGED <<db, tx>> /\ run' = [run EXCEPT !.todo = Tail(run.todo)]
      BY <1>3 DEF Pipeline!Publish, Pipeline!Advance
    <2>2. DOMAIN run' = DOMAIN run /\ run'.queue = run.queue /\ run'.limit = run.limit
      BY <2>1 DEF PipelineInv, Pipeline!Idle
    <2> QED
      BY <2>1, <2>2, AsideOK DEF PipelineInv
  <1>4. CASE Pipeline!publish_tutorials \/ Pipeline!publish_maps
             \/ Pipeline!write_manifest \/ Pipeline!write_public_manifest
    BY <1>3, <1>4 DEF Pipeline!publish_tutorials, Pipeline!publish_maps,
       Pipeline!write_manifest, Pipeline!write_public_manifest
  <1>5. CASE Pipeline!IntegrityError \/ Pipeline!FetchRaises \/ Pipeline!Killed
    <2>1. UNCHANGED db /\ tx' = db /\ run' = Pipeline!Idle
      BY <1>5 DEF Pipeline!IntegrityError, Pipeline!FetchRaises, Pipeline!Killed, Pipeline!Abandon
    <2>2. DOMAIN run' = DOMAIN run /\ run'.queue = <<>> /\ run'.limit \in Nat
      BY <2>1 DEF PipelineInv, Pipeline!Idle
    <2> QED
      BY <2>1, <2>2, AsideOK
  <1> QED
    BY <1>1, <1>2, <1>4, <1>5

LEMMA PipelineInit ==
  ASSUME Pipeline!Init
  PROVE  PipelineInv
  <1> DEFINE t == Pipeline!EmptyTables
  <1>1. db = t /\ tx = t /\ run = Pipeline!Idle
    BY DEF Pipeline!Init
  <1>2. /\ DOMAIN t = Tables
        /\ DOMAIN t.sources = {} /\ DOMAIN t.status = {} /\ DOMAIN t.assets = {} /\ DOMAIN t.rules = {}
        /\ t.documents = <<>> /\ t.signals = <<>> /\ t.links = {}
    BY DEF Pipeline!EmptyTables, Pipeline!Empty, Tables
  <1>3. t.sources = [x \in DOMAIN t.sources |-> t.sources[x]]
    BY DEF Pipeline!EmptyTables, Pipeline!Empty
  <1> HIDE DEF t
  <1>4. DocumentsOK(t)
    BY <1>2, NothingIsAList DEF DocumentsOK
  <1>5. IsInjective(<<>>)
    BY DEF IsInjective
  <1>6. RulesOK(t)
    BY <1>2, <1>5, NothingIsAList DEF RulesOK
  <1>7. TablesOK(t)
    BY <1>2, <1>3, <1>4, <1>6 DEF TablesOK
  <1>8. IsPrefix(t.documents, t.documents)
    BY <1>2, NothingIsAList, PrefixOfItself
  <1>9. /\ DOMAIN run = DOMAIN Pipeline!Idle /\ run.limit \in Nat /\ run.queue = <<>>
    BY <1>1 DEF Pipeline!Idle
  <1> QED
    BY <1>1, <1>7, <1>8, <1>9, NothingIsAList DEF PipelineInv, Ahead, Queue

LEMMA PipelineStep ==
  ASSUME Pipeline!PipelineAssumption, PipelineInv, Pipeline!Next
  PROVE  PipelineInv' /\ Pipeline!KeepsEvidence
  <1>1. ASSUME PipelineInv', UNCHANGED db PROVE Pipeline!KeepsEvidence
    <2>1. Keeps(db, db')
      BY <1>1, NothingLost DEF PipelineInv
    <2> QED
      BY <2>1, Evidence DEF PipelineInv
  <1> QED
    BY <1>1, SeedOK, RowsSeededOK, EndFetchOK, ExtractOK, BuildOK, FetchOK, BeginOK, RecordRunOK, AsidesOK
       DEF Pipeline!Next

LEMMA PipelineInvariant == OfflineSpec => [](part = "pipeline" => PipelineInv)
  <1>1. OfflineInit => (part = "pipeline" => PipelineInv)
    BY PipelineInit DEF OfflineInit
  <1>2. (part = "pipeline" => PipelineInv) /\ [OfflineNext]_allVars => (part = "pipeline" => PipelineInv)'
    <2> SUFFICES ASSUME part = "pipeline" => PipelineInv, [OfflineNext]_allVars, part' = "pipeline"
                 PROVE  PipelineInv'
      OBVIOUS
    <2>1. CASE Pipeline!Next /\ part = "pipeline"
      BY <2>1, PipelineStep, OfflineAssumption DEF OfflineAssumption
    <2>2. CASE UNCHANGED pipeline /\ part = "pipeline"
      BY <2>2 DEF pipeline, PipelineInv, TablesOK, DocumentsOK, RulesOK, Backed, Has, Ahead, Queue, Pipeline!Idle
    <2> QED
      BY <2>1, <2>2 DEF OfflineNext, allVars
  <1> QED
    BY <1>1, <1>2, PTL DEF OfflineSpec

\* cpa_data_pipeline.py: whichever runs ended where, the status of a source or an asset
\* is backed by a document of that outcome.
THEOREM StatusHasDocumentHolds == OfflineSpec => []StatusHasDocument
  <1>1. ASSUME PipelineInv PROVE Pipeline!StatusHasDocument
    <2>1. ASSUME NEW x \in DOMAIN db.status
          PROVE  LET kinds == {d.kind : d \in {e \in Pipeline!Range(db.documents) : e.of = x}}
                 IN  CASE db.status[x] = "robots_disallowed"         -> "robots" \in kinds
                       [] db.status[x] = "fetch_failed"              -> "failed" \in kinds
                       [] db.status[x] \in {"seeded", "registered"}  -> kinds = {}
                       [] OTHER                                      -> "fetched" \in kinds
      <3> DEFINE kinds == {d.kind : d \in {e \in Pipeline!Range(db.documents) : e.of = x}}
      <3>1. \A k : k \in kinds <=> Has(db, x, k)
        BY DEF Has, Pipeline!Range, Range
      <3>2. (\A d \in Range(db.documents) : d.of # x) => kinds = {}
        BY DEF Pipeline!Range, Range
      <3>3. Backed(db, x)
        BY <1>1, <2>1 DEF PipelineInv, TablesOK, DocumentsOK
      <3> HIDE DEF kinds
      <3>4. CASE db.status[x] = "robots_disallowed" /\ "robots" \in kinds
        BY <3>4 DEF kinds
      <3>5. CASE db.status[x] = "fetch_failed" /\ "failed" \in kinds
        BY <3>5 DEF kinds
      <3>6. CASE db.status[x] \in {"seeded", "registered"} /\ kinds = {}
        BY <3>6 DEF kinds
      <3>7. CASE /\ db.status[x] \notin {"robots_disallowed", "fetch_failed", "seeded", "registered"}
                 /\ "fetched" \in kinds
        BY <3>7 DEF kinds
      <3> QED
        BY <3>1, <3>2, <3>3, <3>4, <3>5, <3>6, <3>7 DEF Backed
    <2> QED
      BY <2>1 DEF Pipeline!StatusHasDocument
  <1>2. (part = "pipeline" => PipelineInv) => StatusHasDocument
    BY <1>1 DEF StatusHasDocument
  <1> QED
    BY <1>2, PipelineInvariant, PTL

\* cpa_data_pipeline.py: no signal is extracted twice, and the count of a rule is the
\* number of the signals it is linked to, which are all signals that it is about.
THEOREM RulesRestOnSignalsHolds == OfflineSpec => []RulesRestOnSignals
  <1>1. ASSUME PipelineInv PROVE Pipeline!RulesRestOnSignals
    <2>1. RulesOK(db)
      BY <1>1 DEF PipelineInv, TablesOK
    <2>2. Pipeline!IsInjective(db.signals)
      BY <2>1 DEF RulesOK, IsInjective, Pipeline!IsInjective
    <2> QED
      BY <2>1, <2>2, Cardinalities DEF RulesOK, Pipeline!RulesRestOnSignals
  <1>2. (part = "pipeline" => PipelineInv) => RulesRestOnSignals
    BY <1>1 DEF RulesRestOnSignals
  <1> QED
    BY <1>2, PipelineInvariant, PTL

\* cpa_data_pipeline.py: no commit takes away what was collected before it.
THEOREM CommitsKeepEvidenceHolds == OfflineSpec => CommitsKeepEvidence
  <1>1. (part = "pipeline" => PipelineInv) /\ [OfflineNext]_allVars
          => [part = "pipeline" => Pipeline!KeepsEvidence]_pipeline
    <2> SUFFICES ASSUME part = "pipeline" => PipelineInv, [OfflineNext]_allVars,
                        part = "pipeline", ~ UNCHANGED pipeline
                 PROVE  Pipeline!KeepsEvidence
      OBVIOUS
    <2>1. Pipeline!Next
      BY DEF OfflineNext, allVars
    <2> QED
      BY <2>1, PipelineStep, OfflineAssumption DEF OfflineAssumption
  <1> QED
    BY <1>1, PipelineInvariant, PTL DEF OfflineSpec, CommitsKeepEvidence

-----------------------------------------------------------------------------
(* A run of all commands, from its start to its record.                    *)

\* The steps of all commands, in order.
Order ==
    <<"seed_sources", "seed_exam_ontology", "seed_acquisition_targets",
      "seed_exam_ontology", "seed_subject_tutorials", "publish_tutorials",
      "seed_exam_ontology", "seed_subject_tutorials", "publish_tutorials",
      "seed_problem_solution_maps", "publish_maps",
      "seed_past_exam_assets", "fetch_assets", "seed_problem_learning_jobs",
      "fetch_sources", "extract_signals", "build_strategy_rules",
      "write_manifest", "write_public_manifest", "record_run">>

\* A loop takes the place of the step that begins it.
Waits(p, step) ==
    \/ step = Order[p]
    \/ p = 13 /\ step = "fetching_assets"
    \/ p = 15 /\ step = "fetching_sources"

Position == 21 - Len(run.todo)

StepsInOrder ==
    /\ IsList(run.todo) /\ Len(run.todo) \in 1 .. 20
    /\ Waits(Position, run.todo[1])
    /\ \A i \in 2 .. Len(run.todo) : run.todo[i] = Order[Position + i - 1]

Safe(in) == {q \in DOMAIN in.questions : in.questions[q] \in Pipeline!PROBLEM_SOLUTION_RIGHTS_ALLOWLIST}

SourcesIn(t, in) == DOMAIN in.sources \subseteq DOMAIN t.sources

AssetsIn(t, in) ==
    \A a \in DOMAIN in.assets :
        /\ a \in DOMAIN t.assets
        /\ t.assets[a].asset_kind = in.assets[a].asset_kind
        /\ t.assets[a].rights_policy = in.assets[a].rights_policy

JobsIn(t, in) ==
    \A a \in DOMAIN in.assets :
        LET job == <<a, Pipeline!job_type(in.assets[a])>>
        IN  /\ job \in DOMAIN t.jobs
            /\ in.assets[a].rights_policy \in Pipeline!BLOCKED_RIGHTS_POLICIES => t.jobs[job] = "blocked"

AllRead(t) ==
    \A d \in DOMAIN t.documents :
        t.documents[d].text /\ Pipeline!extract_signals_from_text(t.documents[d].body) # <<>>
            => \E i \in DOMAIN t.signals : t.signals[i].document = d

\* What the steps before the p-th have done, which no later one undoes.
DoneBefore(p, t, f, in) ==
    /\ p > 1 => SourcesIn(t, in)
    /\ p > 5 => t.tutorials = in.tutorials
    /\ p > 6 => f.tutorials = in.tutorials
    /\ p > 10 => t.maps = Safe(in)
    /\ p > 11 => f.maps = Safe(in)
    /\ p > 12 => AssetsIn(t, in)
    /\ p > 14 => JobsIn(t, in)
    /\ p > 16 => AllRead(t)
    /\ p > 18 => f.manifest = Pipeline!stats(t)
    /\ p > 19 => f.public_manifest = Pipeline!stats(t)

RunInv ==
    /\ input \in Inputs
    /\ DOMAIN pub = {"tutorials", "maps", "manifest", "public_manifest"}
    /\ db.runs \in Nat
    /\ run.all => StepsInOrder /\ DoneBefore(Position, tx, pub, input)

-----------------------------------------------------------------------------
Upto(s, n) == IsList(s) /\ Len(s) = n /\ \A i \in 1 .. n : s[i] = Order[i]

LEMMA JoinedUpto ==
  ASSUME NEW n \in Nat, NEW s, Upto(s, n), NEW t, IsList(t), NEW m \in Nat, Len(t) = m,
         \A i \in 1 .. m : t[i] = Order[n + i]
  PROVE  Upto(s \o t, n + m)
  <1> DEFINE u == s \o t
  <1>1. /\ IsList(u) /\ DOMAIN u = 1 .. n + m
        /\ \A i \in 1 .. n : u[i] = s[i]
        /\ \A i \in 1 .. n + m : i > n => i - n \in 1 .. m /\ u[i] = t[i - n]
    BY Joined DEF Upto
  <1> HIDE DEF u
  <1>2. Len(u) = n + m
    BY <1>1, ListFacts
  <1>3. ASSUME NEW i \in 1 .. n + m PROVE u[i] = Order[i]
    <2>1. CASE i <= n
      BY <1>1, <2>1 DEF Upto
    <2>2. CASE i > n
      BY <1>1, <2>2
    <2> QED BY <2>1, <2>2
  <1> QED BY <1>1, <1>2, <1>3 DEF Upto, u

LEMMA OneTwoThree ==
  ASSUME NEW a, NEW b, NEW c
  PROVE  /\ IsList(<<a>>) /\ Len(<<a>>) = 1 /\ <<a>>[1] = a
         /\ IsList(<<a, b>>) /\ Len(<<a, b>>) = 2 /\ <<a, b>>[1] = a /\ <<a, b>>[2] = b
         /\ IsList(<<a, b, c>>) /\ Len(<<a, b, c>>) = 3 /\ <<a, b, c>>[1] = a /\ <<a, b, c>>[2] = b /\ <<a, b, c>>[3] = c
  <1>1. <<a>> \in Seq({a}) /\ <<a, b>> \in Seq({a, b}) /\ <<a, b, c>> \in Seq({a, b, c})
    OBVIOUS
  <1>2. IsList(<<a>>)
    BY <1>1, ListOf
  <1>3. IsList(<<a, b>>)
    BY <1>1, ListOf
  <1>4. IsList(<<a, b, c>>)
    BY <1>1, ListOf
  <1> QED BY <1>2, <1>3, <1>4

LEMMA Five ==
  ASSUME NEW a, NEW b, NEW c, NEW d, NEW e
  PROVE  LET s == <<a, b, c, d, e>>
         IN  IsList(s) /\ Len(s) = 5 /\ s[1] = a /\ s[2] = b /\ s[3] = c /\ s[4] = d /\ s[5] = e
  <1>1. <<a, b, c, d, e>> \in Seq({a, b, c, d, e})
    OBVIOUS
  <1>2. IsList(<<a, b, c, d, e>>)
    BY <1>1, ListOf
  <1> QED BY <1>2

\* The command line `all`.
LEMMA ProgramOfAll ==
  ASSUME NEW commands, "all" \in Pipeline!Range(commands)
  PROVE  Upto(Pipeline!Program(commands), 20)
  <1> DEFINE ss == [i \in DOMAIN Pipeline!All |-> Pipeline!Steps(Pipeline!All[i])]
             last == <<"write_manifest", "write_public_manifest", "record_run">>
  <1>1. Pipeline!Program(commands) = FlattenSeq(ss) \o last
    <2>1. Pipeline!Program(commands) = Pipeline!FlattenSeq(ss) \o last
      BY DEF Pipeline!Program
    <2> HIDE DEF ss
    <2>2. Pipeline!FlattenSeq(ss) = FlattenSeq(ss)
      BY DEF Pipeline!FlattenSeq, FlattenSeq
    <2> QED BY <2>1, <2>2
  <1>2. DOMAIN ss = 1 .. 10
    BY DEF Pipeline!All
  <1>3. /\ ss[1] = <<>> /\ ss[10] = <<>>
        /\ ss[2] = <<"seed_sources">>
        /\ ss[3] = <<"seed_exam_ontology", "seed_acquisition_targets">>
        /\ ss[4] = <<"seed_exam_ontology", "seed_subject_tutorials", "publish_tutorials">>
        /\ ss[5] = <<"seed_exam_ontology", "seed_subject_tutorials", "publish_tutorials",
                     "seed_problem_solution_maps", "publish_maps">>
        /\ ss[6] = <<"seed_past_exam_assets", "fetch_assets", "seed_problem_learning_jobs">>
        /\ ss[7] = <<"fetch_sources">> /\ ss[8] = <<"extract_signals">> /\ ss[9] = <<"build_strategy_rules">>
    BY DEF Pipeline!All, Pipeline!Steps
  <1>4. Len(ss) = 10
    <2> DEFINE U == {ss[i] : i \in 1 .. 10}
    <2>1. ss = [i \in 1 .. 10 |-> ss[i]] /\ \A i \in 1 .. 10 : ss[i] \in U
      BY <1>2
    <2> HIDE DEF ss, U
    <2>2. [i \in 1 .. 10 |-> ss[i]] \in Seq(U)
      BY <2>1
    <2>3. ss \in Seq(U)
      BY <2>1, <2>2
    <2> QED BY <1>2, <2>3
  <1> HIDE DEF ss, last
  <1>5. PICK f : FlatTo(f, ss, 10) /\ FlattenSeq(ss) = f[10]
    <2>1. Len(ss) \in Nat /\ Len(ss) # 0
      BY <1>4
    <2>2. \E f : FlatTo(f, ss, Len(ss)) /\ FlattenSeq(ss) = f[Len(ss)]
      BY <2>1, FlattenedIsLast
    <2> QED BY <1>4, <2>2
  <1> DEFINE Joins(i, j) == f[i] = f[j] \o ss[i]
  <1>6. /\ f[1] = ss[1]
        /\ \A i \in 2 .. 10 : \A j \in 1 .. 9 : j = i - 1 => Joins(i, j)
    <2>1. f = [i \in 1 .. 10 |-> IF i = 1 THEN ss[i] ELSE f[i - 1] \o ss[i]]
      BY <1>5 DEF FlatTo
    <2>2. f[1] = ss[1]
      BY <2>1
    <2>3. ASSUME NEW i \in 2 .. 10, NEW j \in 1 .. 9, j = i - 1 PROVE f[i] = f[j] \o ss[i]
      <3>1. f[i] = f[i - 1] \o ss[i]
        <4>1. i \in 1 .. 10 /\ i # 1
          OBVIOUS
        <4> DEFINE v(k) == IF k = 1 THEN ss[k] ELSE f[k - 1] \o ss[k]
        <4>2. f = [k \in 1 .. 10 |-> v(k)]
          BY <2>1
        <4>3. v(i) = f[i - 1] \o ss[i]
          BY <4>1
        <4> HIDE DEF v
        <4> QED BY <4>1, <4>2, <4>3
      <3> QED BY <2>3, <3>1
    <2> QED BY <2>2, <2>3
  <1>7. /\ f[2] = f[1] \o ss[2] /\ f[3] = f[2] \o ss[3] /\ f[4] = f[3] \o ss[4] /\ f[5] = f[4] \o ss[5]
        /\ f[6] = f[5] \o ss[6] /\ f[7] = f[6] \o ss[7] /\ f[8] = f[7] \o ss[8] /\ f[9] = f[8] \o ss[9]
        /\ f[10] = f[9] \o ss[10]
    <2> HIDE DEF Joins
    <2>1. /\ Joins(2, 1) /\ Joins(3, 2) /\ Joins(4, 3) /\ Joins(5, 4) /\ Joins(6, 5)
          /\ Joins(7, 6) /\ Joins(8, 7) /\ Joins(9, 8) /\ Joins(10, 9)
      BY <1>6
    <2> QED BY <2>1, Zenon DEF Joins
  <1> HIDE DEF Joins
  <1>8. IsList(<<>>) /\ Len(<<>>) = 0
    BY NothingIsAList
  <1>9. ASSUME NEW n \in Nat, NEW s, Upto(s, n), NEW a, Order[n + 1] = a PROVE Upto(s \o <<a>>, n + 1)
    <2>1. \A i \in 1 .. 1 : <<a>>[i] = Order[n + i]
      BY <1>9
    <2>2. IsList(<<a>>) /\ Len(<<a>>) = 1
      BY OneTwoThree
    <2> QED BY <1>9, <2>1, <2>2, JoinedUpto
  <1>10. Upto(f[1], 0)
    BY <1>3, <1>6, <1>8 DEF Upto
  <1>11. Upto(f[2], 1)
    BY <1>3, <1>7, <1>9, <1>10 DEF Order
  <1>12. Upto(f[3], 3)
    <2> DEFINE t == <<"seed_exam_ontology", "seed_acquisition_targets">>
    <2>1. IsList(t) /\ Len(t) = 2
      BY OneTwoThree
    <2>2. \A i \in 1 .. 2 : t[i] = Order[1 + i]
      BY DEF Order
    <2> HIDE DEF t
    <2>3. Upto(f[2] \o t, 1 + 2)
      BY <1>11, <2>1, <2>2, JoinedUpto
    <2> QED BY <1>3, <1>7, <2>3 DEF t
  <1>13. Upto(f[4], 6)
    <2> DEFINE t == <<"seed_exam_ontology", "seed_subject_tutorials", "publish_tutorials">>
    <2>1. IsList(t) /\ Len(t) = 3
      BY OneTwoThree
    <2>2. \A i \in 1 .. 3 : t[i] = Order[3 + i]
      BY DEF Order
    <2> HIDE DEF t
    <2>3. Upto(f[3] \o t, 3 + 3)
      BY <1>12, <2>1, <2>2, JoinedUpto
    <2> QED BY <1>3, <1>7, <2>3 DEF t
  <1>14. Upto(f[5], 11)
    <2> DEFINE t == <<"seed_exam_ontology", "seed_subject_tutorials", "publish_tutorials",
                      "seed_problem_solution_maps", "publish_maps">>
    <2>1. IsList(t) /\ Len(t) = 5
      BY Five
    <2>2. \A i \in 1 .. 5 : t[i] = Order[6 + i]
      BY DEF Order
    <2> HIDE DEF t
    <2>3. Upto(f[4] \o t, 6 + 5)
      BY <1>13, <2>1, <2>2, JoinedUpto
    <2> QED BY <1>3, <1>7, <2>3 DEF t
  <1>15. Upto(f[6], 14)
    <2> DEFINE t == <<"seed_past_exam_assets", "fetch_assets", "seed_problem_learning_jobs">>
    <2>1. IsList(t) /\ Len(t) = 3
      BY OneTwoThree
    <2>2. \A i \in 1 .. 3 : t[i] = Order[11 + i]
      BY DEF Order
    <2> HIDE DEF t
    <2>3. Upto(f[5] \o t, 11 + 3)
      BY <1>14, <2>1, <2>2, JoinedUpto
    <2> QED BY <1>3, <1>7, <2>3 DEF t
  <1>16. Upto(f[7], 15)
    BY <1>3, <1>7, <1>9, <1>15 DEF Order
  <1>17. Upto(f[8], 16)
    BY <1>3, <1>7, <1>9, <1>16 DEF Order
  <1>18. Upto(f[9], 17)
    BY <1>3, <1>7, <1>9, <1>17 DEF Order
  <1>19. Upto(f[10], 17)
    <2>1. Upto(f[9] \o <<>>, 17 + 0)
      BY <1>8, <1>18, JoinedUpto
    <2> QED BY <1>3, <1>7, <2>1
  <1>20. Upto(f[10] \o last, 17 + 3)
    <2>1. IsList(last) /\ Len(last) = 3
      BY OneTwoThree DEF last
    <2>2. \A i \in 1 .. 3 : last[i] = Order[17 + i]
      BY DEF Order, last
    <2> QED BY <1>19, <2>1, <2>2, JoinedUpto
  <1> QED BY <1>1, <1>5, <1>20

-----------------------------------------------------------------------------
LEMMA Places ==
  ASSUME NEW p \in 1 .. 20, NEW step, Waits(p, step)
  PROVE  /\ step = "seed_sources" <=> p = 1
         /\ step = "seed_exam_ontology" <=> p \in {2, 4, 7}
         /\ step = "seed_acquisition_targets" <=> p = 3
         /\ step = "seed_subject_tutorials" <=> p \in {5, 8}
         /\ step = "publish_tutorials" <=> p \in {6, 9}
         /\ step = "seed_problem_solution_maps" <=> p = 10
         /\ step = "publish_maps" <=> p = 11
         /\ step = "seed_past_exam_assets" <=> p = 12
         /\ step \in {"fetch_assets", "fetching_assets"} <=> p = 13
         /\ step = "seed_problem_learning_jobs" <=> p = 14
         /\ step \in {"fetch_sources", "fetching_sources"} <=> p = 15
         /\ step = "extract_signals" <=> p = 16
         /\ step = "build_strategy_rules" <=> p = 17
         /\ step = "write_manifest" <=> p = 18
         /\ step = "write_public_manifest" <=> p = 19
         /\ step = "record_run" <=> p = 20
  <1>1. /\ Order[1] = "seed_sources" /\ Order[2] = "seed_exam_ontology" /\ Order[3] = "seed_acquisition_targets"
        /\ Order[4] = "seed_exam_ontology" /\ Order[5] = "seed_subject_tutorials" /\ Order[6] = "publish_tutorials"
        /\ Order[7] = "seed_exam_ontology" /\ Order[8] = "seed_subject_tutorials" /\ Order[9] = "publish_tutorials"
        /\ Order[10] = "seed_problem_solution_maps" /\ Order[11] = "publish_maps"
        /\ Order[12] = "seed_past_exam_assets" /\ Order[13] = "fetch_assets" /\ Order[14] = "seed_problem_learning_jobs"
        /\ Order[15] = "fetch_sources" /\ Order[16] = "extract_signals" /\ Order[17] = "build_strategy_rules"
        /\ Order[18] = "write_manifest" /\ Order[19] = "write_public_manifest" /\ Order[20] = "record_run"
    BY DEF Order
  <1>2. p \in {1, 2, 3, 4, 5, 6, 7, 8, 9, 10, 11, 12, 13, 14, 15, 16, 17, 18, 19, 20}
    OBVIOUS
  <1>3. CASE p \in {1, 2, 3, 4, 5}
    BY <1>1, <1>3 DEF Waits
  <1>4. CASE p \in {6, 7, 8, 9, 10}
    BY <1>1, <1>4 DEF Waits
  <1>5. CASE p \in {11, 12, 13, 14, 15}
    BY <1>1, <1>5 DEF Waits
  <1>6. CASE p \in {16, 17, 18, 19, 20}
    BY <1>1, <1>6 DEF Waits
  <1> QED BY <1>2, <1>3, <1>4, <1>5, <1>6

\* The next step of a run is at a place of its own.
LEMMA AtPlace ==
  ASSUME PipelineInv, RunInv, run.all, NEW step, Pipeline!At(step)
  PROVE  Position \in 1 .. 20 /\ Waits(Position, step) /\ DoneBefore(Position, tx, pub, input)
  <1>1. IsList(run.todo) /\ Len(run.todo) \in 1 .. 20 /\ Waits(Position, run.todo[1]) /\ DoneBefore(Position, tx, pub, input)
    BY DEF RunInv, StepsInOrder
  <1>2. Head(run.todo) = run.todo[1] /\ Head(run.todo) = step
    BY DEF Pipeline!At
  <1>3. Position \in 1 .. 20
    <2>1. PICK n : n = Len(run.todo)
      OBVIOUS
    <2>2. n \in 1 .. 20
      BY <1>1, <2>1
    <2>3. Position = 21 - n
      BY <2>1 DEF Position
    <2> QED BY <2>2, <2>3
  <1> QED BY <1>1, <1>2, <1>3

LEMMA Advances ==
  ASSUME PipelineInv, RunInv, run.all, NEW step, Pipeline!At(step), step # "record_run", Pipeline!Advance
  PROVE  StepsInOrder' /\ Position' = Position + 1
  <1>1. PICK q : q = run.todo
    OBVIOUS
  <1>2. PICK p : p = Position
    OBVIOUS
  <1>3. p \in 1 .. 20 /\ Waits(p, step)
    BY <1>2, AtPlace
  <1>4. p # 20
    BY <1>3, Places
  <1>5. PICK n : n = Len(q)
    OBVIOUS
  <1>6. IsList(q) /\ n \in 1 .. 20 /\ \A i \in 2 .. n : q[i] = Order[p + i - 1]
    BY <1>1, <1>2, <1>5 DEF RunInv, StepsInOrder
  <1>7. p = 21 - n
    BY <1>1, <1>2, <1>5 DEF Position
  <1>8. n \in 2 .. 20
    <2>1. n \in 1 .. 20
      BY <1>6
    <2> QED BY <1>3, <1>4, <1>7, <2>1
  <1>9. PICK t : t = Tail(q)
    OBVIOUS
  <1>10. run'.todo = t
    BY <1>1, <1>9 DEF PipelineInv, Pipeline!Advance, Pipeline!Idle
  <1>11. IsList(t) /\ Len(t) = n - 1 /\ \A i \in 1 .. n - 1 : t[i] = q[i + 1]
    <2>1. PICK R : R = Range(q)
      OBVIOUS
    <2>2. q \in Seq(R)
      BY <1>6, <2>1 DEF IsList
    <2>3. q # <<>>
      BY <1>5, <1>8, <2>2
    <2>4. IsList(t)
      BY <1>6, <1>9, <2>3, TailOfList
    <2> QED BY <1>5, <1>8, <1>9, <2>2, <2>3, <2>4
  <1>12. Position' = p + 1
    <2>1. Position' = 21 - Len(t)
      BY <1>10 DEF Position
    <2> QED BY <1>7, <1>8, <1>11, <2>1
  <1>13. ASSUME NEW i \in 1 .. n - 1 PROVE t[i] = Order[p + i]
    <2>1. i + 1 \in 2 .. n /\ t[i] = q[i + 1]
      <3>1. i + 1 \in 2 .. n
        BY <1>8
      <3>2. t[i] = q[i + 1]
        BY <1>11
      <3> QED BY <3>1, <3>2
    <2>2. q[i + 1] = Order[p + (i + 1) - 1]
      BY <1>6, <2>1
    <2>3. p + (i + 1) - 1 = p + i
      BY <1>3
    <2> QED BY <2>1, <2>2, <2>3
  <1>14. t[1] = Order[p + 1]
    <2>1. 1 \in 1 .. n - 1
      BY <1>8
    <2> QED BY <1>13, <2>1
  <1>15. Len(t) \in 1 .. 20
    BY <1>8, <1>11
  <1>16. \A i \in 2 .. Len(t) : t[i] = Order[Position' + i - 1]
    <2>1. ASSUME NEW i \in 2 .. Len(t) PROVE t[i] = Order[Position' + i - 1]
      <3>1. i \in 1 .. n - 1
        BY <1>8, <1>11
      <3>2. Position' + i - 1 = p + i
        BY <1>3, <1>12
      <3> QED BY <1>13, <3>1, <3>2
    <2> QED BY <2>1
  <1>17. Waits(Position', t[1])
    BY <1>12, <1>14 DEF Waits
  <1>18. StepsInOrder'
    <2>1. StepsInOrder' <=> /\ IsList(run'.todo) /\ Len(run'.todo) \in 1 .. 20
                            /\ Waits(Position', run'.todo[1])
                            /\ \A i \in 2 .. Len(run'.todo) : run'.todo[i] = Order[Position' + i - 1]
      BY DEF StepsInOrder
    <2> QED BY <1>10, <1>11, <1>15, <1>16, <1>17, <2>1
  <1> QED BY <1>2, <1>12, <1>18

\* What was done stays done, and the p-th step adds its part.
LEMMA OneMoreDone ==
  ASSUME NEW p \in 1 .. 17, NEW t, NEW u, NEW f, NEW g, NEW in, DoneBefore(p, t, f, in),
         DOMAIN t.sources \subseteq DOMAIN u.sources,
         u.tutorials \in {t.tutorials, in.tutorials}, g.tutorials \in {f.tutorials, in.tutorials},
         u.maps \in {t.maps, Safe(in)}, g.maps \in {f.maps, Safe(in)},
         u.assets = t.assets \/ AssetsIn(u, in), u.jobs = t.jobs \/ JobsIn(u, in),
         p < 16 \/ AllRead(u),
         p = 1 => SourcesIn(u, in), p = 5 => u.tutorials = in.tutorials, p = 6 => g.tutorials = in.tutorials,
         p = 10 => u.maps = Safe(in), p = 11 => g.maps = Safe(in),
         p = 12 => AssetsIn(u, in), p = 14 => JobsIn(u, in)
  PROVE  DoneBefore(p + 1, u, g, in)
  <1>1. p + 1 > 1 => SourcesIn(u, in)
    BY DEF DoneBefore, SourcesIn
  <1>2. /\ p + 1 > 5 => u.tutorials = in.tutorials
        /\ p + 1 > 6 => g.tutorials = in.tutorials
        /\ p + 1 > 10 => u.maps = Safe(in)
        /\ p + 1 > 11 => g.maps = Safe(in)
    <2>1. /\ p > 5 => t.tutorials = in.tutorials
          /\ p > 6 => f.tutorials = in.tutorials
          /\ p > 10 => t.maps = Safe(in)
          /\ p > 11 => f.maps = Safe(in)
      BY DEF DoneBefore
    <2> QED BY <2>1
  <1>3. p + 1 > 12 => AssetsIn(u, in)
    <2>1. p > 12 => AssetsIn(t, in)
      BY DEF DoneBefore
    <2>2. u.assets = t.assets /\ AssetsIn(t, in) => AssetsIn(u, in)
      BY DEF AssetsIn
    <2> QED BY <2>1, <2>2
  <1>4. p + 1 > 14 => JobsIn(u, in)
    <2>1. p > 14 => JobsIn(t, in)
      BY DEF DoneBefore
    <2>2. u.jobs = t.jobs /\ JobsIn(t, in) => JobsIn(u, in)
      BY DEF JobsIn
    <2> QED BY <2>1, <2>2
  <1>5. ~ p + 1 > 18 /\ ~ p + 1 > 19 /\ (p + 1 > 16 => AllRead(u))
    OBVIOUS
  <1> QED BY <1>1, <1>2, <1>3, <1>4, <1>5 DEF DoneBefore

LEMMA SameTables ==
  ASSUME PipelineInv
  PROVE  tx.runs = db.runs /\ DOMAIN tx = Tables
  BY DEF PipelineInv, Ahead, TablesOK, Tables

\* A step that commits.
LEMMA CommitsOn ==
  ASSUME PipelineInv, RunInv, NEW step, Pipeline!At(step), step # "record_run", NEW u, Pipeline!CommitAs(u),
         u.runs = tx.runs,
         run.all => DoneBefore(Position + 1, u, pub, input)
  PROVE  RunInv' /\ db'.runs = db.runs
  <1>1. db' = u /\ tx' = u /\ Pipeline!Advance /\ UNCHANGED <<input, pub>>
    BY DEF Pipeline!CommitAs
  <1>2. run'.all = run.all
    BY <1>1 DEF Pipeline!Advance, PipelineInv, Pipeline!Idle
  <1>4. u.runs = db.runs
    BY SameTables
  <1>5. run.all => StepsInOrder' /\ Position' = Position + 1
    BY <1>1, Advances
  <1>6. run'.all => StepsInOrder' /\ DoneBefore(Position', u, pub, input)
    BY <1>2, <1>5
  <1>7. input \in Inputs /\ DOMAIN pub = {"tutorials", "maps", "manifest", "public_manifest"} /\ db.runs \in Nat
    BY DEF RunInv
  <1> QED BY <1>1, <1>4, <1>6, <1>7 DEF RunInv

\* A step that writes a file.
LEMMA PublishesOn ==
  ASSUME PipelineInv, RunInv, NEW step, step # "record_run", NEW file, NEW content, Pipeline!Publish(step, file, content),
         run.all => DoneBefore(Position + 1, tx, [pub EXCEPT ![file] = content], input)
  PROVE  RunInv' /\ db'.runs = db.runs
  <1> DEFINE g == [pub EXCEPT ![file] = content]
  <1>1. pub' = g /\ Pipeline!Advance /\ Pipeline!At(step) /\ UNCHANGED <<input, db, tx>>
    BY DEF Pipeline!Publish
  <1>2. run'.all = run.all
    BY <1>1 DEF Pipeline!Advance, PipelineInv, Pipeline!Idle
  <1>3. DOMAIN g = DOMAIN pub
    OBVIOUS
  <1> HIDE DEF g
  <1>4. run.all => StepsInOrder' /\ Position' = Position + 1
    BY <1>1, Advances
  <1>5. run.all => DoneBefore(Position + 1, tx, g, input)
    BY DEF g
  <1>6. run'.all => StepsInOrder' /\ DoneBefore(Position', tx, g, input)
    BY <1>2, <1>4, <1>5
  <1>7. /\ input \in Inputs /\ DOMAIN pub = {"tutorials", "maps", "manifest", "public_manifest"} /\ db.runs \in Nat
    BY DEF RunInv
  <1> QED BY <1>1, <1>3, <1>6, <1>7 DEF RunInv

\* The seeds, each a part of the tables.
LEMMA SeedRuns ==
  ASSUME PipelineInv, RunInv,
         \/ Pipeline!seed_sources \/ Pipeline!seed_exam_ontology \/ Pipeline!seed_acquisition_targets
         \/ Pipeline!seed_subject_tutorials \/ Pipeline!seed_problem_solution_maps
  PROVE  RunInv' /\ db'.runs = db.runs
  <1> DEFINE Changes(u, F) == \A f \in Tables \ F : u[f] = tx[f]
  <1>1. DOMAIN tx = Tables
    BY SameTables
  <1>2. ASSUME NEW step, Pipeline!At(step),
               step \in {"seed_sources", "seed_exam_ontology", "seed_acquisition_targets", "seed_subject_tutorials",
                         "seed_problem_solution_maps"},
               NEW u, Pipeline!CommitAs(u),
               Changes(u, {"sources", "status", "subjects", "targets", "tutorials", "maps"}),
               DOMAIN tx.sources \subseteq DOMAIN u.sources,
               u.tutorials \in {tx.tutorials, input.tutorials}, u.maps \in {tx.maps, Safe(input)},
               step = "seed_sources" => SourcesIn(u, input),
               step = "seed_subject_tutorials" => u.tutorials = input.tutorials,
               step = "seed_problem_solution_maps" => u.maps = Safe(input)
        PROVE  RunInv' /\ db'.runs = db.runs
    <2>1. u.runs = tx.runs /\ u.assets = tx.assets /\ u.jobs = tx.jobs
      BY <1>2 DEF Tables
    <2>2. ASSUME run.all PROVE DoneBefore(Position + 1, u, pub, input)
      <3>1. PICK p : p = Position
        OBVIOUS
      <3>2. p \in 1 .. 20 /\ Waits(p, step) /\ DoneBefore(p, tx, pub, input)
        BY <1>2, <2>2, <3>1, AtPlace
      <3>3. /\ p \in {1, 2, 3, 4, 5, 7, 8, 10}
            /\ p = 1 => step = "seed_sources"
            /\ p = 5 => step = "seed_subject_tutorials"
            /\ p = 10 => step = "seed_problem_solution_maps"
        BY <1>2, <3>2, Places
      <3>4. p \in 1 .. 17 /\ p < 16 /\ p # 6 /\ p # 11 /\ p # 12 /\ p # 14
        BY <3>3
      <3> HIDE DEF Changes
      <3>5. DoneBefore(p + 1, u, pub, input)
        BY <1>2, <2>1, <3>2, <3>3, <3>4, OneMoreDone
      <3> QED BY <3>1, <3>5
    <2> QED BY <1>2, <2>1, <2>2, CommitsOn
  <1>3. CASE Pipeline!seed_sources
    <2> DEFINE u == [tx EXCEPT !.sources = Pipeline!InsertOrIgnore(tx.sources, input.sources),
                               !.status = Pipeline!InsertOrIgnore(tx.status, [s \in DOMAIN input.sources |-> "seeded"])]
    <2>1. Pipeline!CommitAs(u) /\ Pipeline!At("seed_sources")
      BY <1>3 DEF Pipeline!seed_sources
    <2>2. u.sources = Pipeline!InsertOrIgnore(tx.sources, input.sources) /\ Changes(u, {"sources", "status"})
      BY <1>1 DEF Tables
    <2> HIDE DEF u
    <2>3. DOMAIN tx.sources \subseteq DOMAIN u.sources /\ SourcesIn(u, input)
      BY <2>2 DEF Pipeline!InsertOrIgnore, SourcesIn
    <2>4. u.tutorials = tx.tutorials /\ u.maps = tx.maps
      BY <2>2 DEF Tables
    <2> QED BY <1>2, <2>1, <2>2, <2>3, <2>4
  <1>4. CASE Pipeline!seed_exam_ontology
    <2> DEFINE u == [tx EXCEPT !.subjects = tx.subjects \cup input.subjects]
    <2>1. Pipeline!CommitAs(u) /\ Pipeline!At("seed_exam_ontology")
      BY <1>4 DEF Pipeline!seed_exam_ontology
    <2>2. Changes(u, {"subjects"})
      BY <1>1 DEF Tables
    <2> HIDE DEF u
    <2>3. u.sources = tx.sources /\ u.tutorials = tx.tutorials /\ u.maps = tx.maps
      BY <2>2 DEF Tables
    <2> QED BY <1>2, <2>1, <2>2, <2>3
  <1>5. CASE Pipeline!seed_acquisition_targets
    <2> DEFINE u == [tx EXCEPT !.targets = Pipeline!Upsert(tx.targets, input.targets)]
    <2>1. Pipeline!CommitAs(u) /\ Pipeline!At("seed_acquisition_targets")
      BY <1>5 DEF Pipeline!seed_acquisition_targets
    <2>2. Changes(u, {"targets"})
      BY <1>1 DEF Tables
    <2> HIDE DEF u
    <2>3. u.sources = tx.sources /\ u.tutorials = tx.tutorials /\ u.maps = tx.maps
      BY <2>2 DEF Tables
    <2> QED BY <1>2, <2>1, <2>2, <2>3
  <1>6. CASE Pipeline!seed_subject_tutorials
    <2> DEFINE u == [tx EXCEPT !.tutorials = input.tutorials]
    <2>1. Pipeline!CommitAs(u) /\ Pipeline!At("seed_subject_tutorials")
      BY <1>6 DEF Pipeline!seed_subject_tutorials
    <2>2. u.tutorials = input.tutorials /\ Changes(u, {"tutorials"})
      BY <1>1 DEF Tables
    <2> HIDE DEF u
    <2>3. u.sources = tx.sources /\ u.maps = tx.maps
      BY <2>2 DEF Tables
    <2> QED BY <1>2, <2>1, <2>2, <2>3
  <1>7. CASE Pipeline!seed_problem_solution_maps
    <2> DEFINE u == [tx EXCEPT !.maps = Pipeline!safe_problems]
    <2>1. Pipeline!CommitAs(u) /\ Pipeline!At("seed_problem_solution_maps")
      BY <1>7 DEF Pipeline!seed_problem_solution_maps
    <2>2. u.maps = Pipeline!safe_problems /\ Changes(u, {"maps"})
      BY <1>1 DEF Tables
    <2> HIDE DEF u
    <2>3. u.sources = tx.sources /\ u.tutorials = tx.tutorials
      BY <2>2 DEF Tables
    <2>4. u.maps = Safe(input)
      BY <2>2 DEF Safe, Pipeline!safe_problems
    <2> QED BY <1>2, <2>1, <2>2, <2>3, <2>4
  <1> QED BY <1>3, <1>4, <1>5, <1>6, <1>7

\* effective_training_policy does not change what decides the job.
LEMMA AssetRuns ==
  ASSUME Pipeline!PipelineAssumption, PipelineInv, RunInv, Pipeline!seed_past_exam_assets
  PROVE  RunInv' /\ db'.runs = db.runs
  <1> DEFINE row(a) == [input.assets[a] EXCEPT
                          !.training_policy = Pipeline!effective_training_policy(input.assets[a])]
             rows == [a \in DOMAIN input.assets |-> row(a)]
             u == [tx EXCEPT !.assets = Pipeline!Upsert(tx.assets, rows),
                             !.status = Pipeline!InsertOrIgnore(tx.status, [a \in DOMAIN rows |-> "registered"])]
  <1>1. DOMAIN tx = Tables
    BY SameTables
  <1>2. Pipeline!CommitAs(u) /\ Pipeline!At("seed_past_exam_assets")
    BY DEF Pipeline!seed_past_exam_assets
  <1>3. ASSUME NEW a \in DOMAIN input.assets
        PROVE  /\ a \in DOMAIN rows
               /\ rows[a].asset_kind = input.assets[a].asset_kind
               /\ rows[a].rights_policy = input.assets[a].rights_policy
    <2>1. {"asset_kind", "rights_policy"} \subseteq DOMAIN input.assets[a]
      BY DEF Pipeline!PipelineAssumption, RunInv
    <2>2. PICK old : old = input.assets[a]
      OBVIOUS
    <2>3. PICK policy : policy = Pipeline!effective_training_policy(input.assets[a])
      OBVIOUS
    <2>4. rows[a] = [old EXCEPT !.training_policy = policy]
      BY <2>2, <2>3
    <2> HIDE DEF rows
    <2>5. rows[a].asset_kind = old.asset_kind /\ rows[a].rights_policy = old.rights_policy
      BY <2>1, <2>2, <2>4
    <2> QED BY <2>2, <2>5 DEF rows
  <1>4. DOMAIN rows = DOMAIN input.assets
    OBVIOUS
  <1> HIDE DEF rows
  <1>5. /\ u.assets = Pipeline!Upsert(tx.assets, rows)
        /\ \A f \in Tables \ {"assets", "status"} : u[f] = tx[f]
    BY <1>1 DEF Tables
  <1> HIDE DEF u
  <1>6. AssetsIn(u, input)
    BY <1>3, <1>4, <1>5 DEF AssetsIn, Pipeline!Upsert
  <1>7. /\ u.runs = tx.runs /\ u.sources = tx.sources /\ u.jobs = tx.jobs
        /\ u.tutorials = tx.tutorials /\ u.maps = tx.maps
    BY <1>5 DEF Tables
  <1>8. ASSUME run.all PROVE DoneBefore(Position + 1, u, pub, input)
    <2>1. PICK p : p = Position
      OBVIOUS
    <2>2. p \in 1 .. 20 /\ Waits(p, "seed_past_exam_assets") /\ DoneBefore(p, tx, pub, input)
      BY <1>2, <1>8, <2>1, AtPlace
    <2>3. p = 12
      BY <2>2, Places
    <2>4. DoneBefore(p + 1, u, pub, input)
      BY <1>6, <1>7, <2>2, <2>3, OneMoreDone
    <2> QED BY <2>1, <2>4
  <1> QED BY <1>2, <1>7, <1>8, CommitsOn

LEMMA JobRuns ==
  ASSUME PipelineInv, RunInv, Pipeline!seed_problem_learning_jobs
  PROVE  RunInv' /\ db'.runs = db.runs
  <1> DEFINE job(a) == <<a, Pipeline!job_type(tx.assets[a])>>
             rows == [j \in {job(a) : a \in DOMAIN tx.assets} |-> Pipeline!job_status(tx.assets[j[1]])]
             u == [tx EXCEPT !.jobs = Pipeline!Upsert(tx.jobs, rows)]
  <1>1. DOMAIN tx = Tables
    BY SameTables
  <1>2. Pipeline!CommitAs(u) /\ Pipeline!At("seed_problem_learning_jobs")
    BY DEF Pipeline!seed_problem_learning_jobs
  <1>3. ASSUME NEW a \in DOMAIN tx.assets
        PROVE  job(a) \in DOMAIN rows /\ rows[job(a)] = Pipeline!job_status(tx.assets[a])
    OBVIOUS
  <1> HIDE DEF rows
  <1>4. /\ u.jobs = Pipeline!Upsert(tx.jobs, rows)
        /\ \A f \in Tables \ {"jobs"} : u[f] = tx[f]
    BY <1>1 DEF Tables
  <1> HIDE DEF u
  <1>5. \A j \in DOMAIN rows : j \in DOMAIN u.jobs /\ u.jobs[j] = rows[j]
    BY <1>4 DEF Pipeline!Upsert
  <1>6. ASSUME AssetsIn(tx, input) PROVE JobsIn(u, input)
    <2>1. ASSUME NEW a \in DOMAIN input.assets
          PROVE  /\ <<a, Pipeline!job_type(input.assets[a])>> \in DOMAIN u.jobs
                 /\ input.assets[a].rights_policy \in Pipeline!BLOCKED_RIGHTS_POLICIES
                      => u.jobs[<<a, Pipeline!job_type(input.assets[a])>>] = "blocked"
      <3>1. /\ a \in DOMAIN tx.assets
            /\ tx.assets[a].asset_kind = input.assets[a].asset_kind
            /\ tx.assets[a].rights_policy = input.assets[a].rights_policy
        BY <1>6 DEF AssetsIn
      <3>2. Pipeline!job_type(tx.assets[a]) = Pipeline!job_type(input.assets[a])
        BY <3>1 DEF Pipeline!job_type
      <3>3. job(a) \in DOMAIN u.jobs /\ u.jobs[job(a)] = Pipeline!job_status(tx.assets[a])
        BY <1>3, <1>5, <3>1
      <3>4. tx.assets[a].rights_policy \in Pipeline!BLOCKED_RIGHTS_POLICIES
              => Pipeline!job_status(tx.assets[a]) = "blocked"
        BY DEF Pipeline!job_status, Pipeline!effective_training_policy, Pipeline!TRAINING_REVIEW_POLICIES
      <3> QED BY <3>1, <3>2, <3>3, <3>4
    <2> QED BY <2>1 DEF JobsIn
  <1>7. /\ u.runs = tx.runs /\ u.sources = tx.sources /\ u.assets = tx.assets
        /\ u.tutorials = tx.tutorials /\ u.maps = tx.maps
    BY <1>4 DEF Tables
  <1>8. ASSUME run.all PROVE DoneBefore(Position + 1, u, pub, input)
    <2>1. PICK p : p = Position
      OBVIOUS
    <2>2. p \in 1 .. 20 /\ Waits(p, "seed_problem_learning_jobs") /\ DoneBefore(p, tx, pub, input)
      BY <1>2, <1>8, <2>1, AtPlace
    <2>3. p = 14
      BY <2>2, Places
    <2>4. JobsIn(u, input)
      BY <1>6, <2>2, <2>3 DEF DoneBefore
    <2>5. DoneBefore(p + 1, u, pub, input)
      BY <1>7, <2>2, <2>3, <2>4, OneMoreDone
    <2> QED BY <2>1, <2>5
  <1> QED BY <1>2, <1>7, <1>8, CommitsOn

LEMMA ExtractRuns ==
  ASSUME Pipeline!PipelineAssumption, PipelineInv, RunInv, Pipeline!extract_signals
  PROVE  RunInv' /\ db'.runs = db.runs
  <1>1. PICK u : Pipeline!CommitAs(u) /\ (\A f \in Tables \ {"signals"} : u[f] = tx[f]) /\ ReadIn(u)
    BY ExtractOK, Zenon
  <1>2. Pipeline!At("extract_signals")
    BY DEF Pipeline!extract_signals
  <1>3. /\ u.documents = tx.documents /\ u.runs = tx.runs /\ u.sources = tx.sources /\ u.assets = tx.assets
        /\ u.jobs = tx.jobs /\ u.tutorials = tx.tutorials /\ u.maps = tx.maps
    BY <1>1 DEF Tables
  <1>4. AllRead(u)
    <2>1. \A d \in DOMAIN tx.documents : tx.documents[d].text => tx.documents[d].kind = "fetched"
      BY DEF PipelineInv, TablesOK, DocumentsOK, Range
    <2> QED BY <1>1, <1>3, <2>1 DEF AllRead, ReadIn
  <1>5. ASSUME run.all PROVE DoneBefore(Position + 1, u, pub, input)
    <2>1. PICK p : p = Position
      OBVIOUS
    <2>2. p \in 1 .. 20 /\ Waits(p, "extract_signals") /\ DoneBefore(p, tx, pub, input)
      BY <1>2, <1>5, <2>1, AtPlace
    <2>3. p = 16
      BY <2>2, Places
    <2>4. DoneBefore(p + 1, u, pub, input)
      BY <1>3, <1>4, <2>2, <2>3, OneMoreDone
    <2> QED BY <2>1, <2>4
  <1> QED BY <1>1, <1>2, <1>3, <1>5, CommitsOn

LEMMA RuleRuns ==
  ASSUME PipelineInv, RunInv, Pipeline!build_strategy_rules
  PROVE  RunInv' /\ db'.runs = db.runs
  <1>1. PICK rules, links : Pipeline!CommitAs([tx EXCEPT !.rules = rules, !.links = links])
    BY DEF Pipeline!build_strategy_rules
  <1>2. Pipeline!At("build_strategy_rules")
    BY DEF Pipeline!build_strategy_rules
  <1> DEFINE u == [tx EXCEPT !.rules = rules, !.links = links]
  <1>3. \A f \in Tables \ {"rules", "links"} : u[f] = tx[f]
    BY SameTables DEF Tables
  <1>4. Pipeline!CommitAs(u)
    BY <1>1
  <1> HIDE DEF u
  <1>5. /\ u.documents = tx.documents /\ u.signals = tx.signals /\ u.runs = tx.runs
        /\ u.sources = tx.sources /\ u.assets = tx.assets
        /\ u.jobs = tx.jobs /\ u.tutorials = tx.tutorials /\ u.maps = tx.maps
    BY <1>3 DEF Tables
  <1>6. ASSUME run.all PROVE DoneBefore(Position + 1, u, pub, input)
    <2>1. PICK p : p = Position
      OBVIOUS
    <2>2. p \in 1 .. 20 /\ Waits(p, "build_strategy_rules") /\ DoneBefore(p, tx, pub, input)
      BY <1>2, <1>6, <2>1, AtPlace
    <2>3. p = 17
      BY <2>2, Places
    <2>4. AllRead(u)
      BY <1>5, <2>2, <2>3 DEF DoneBefore, AllRead
    <2>5. DoneBefore(p + 1, u, pub, input)
      BY <1>5, <2>2, <2>3, <2>4, OneMoreDone
    <2> QED BY <2>1, <2>5
  <1> QED BY <1>2, <1>4, <1>5, <1>6, CommitsOn

LEMMA PublishRuns ==
  ASSUME PipelineInv, RunInv,
         \/ Pipeline!publish_tutorials \/ Pipeline!publish_maps
         \/ Pipeline!write_manifest \/ Pipeline!write_public_manifest
  PROVE  RunInv' /\ db'.runs = db.runs
  <1>1. DOMAIN pub = {"tutorials", "maps", "manifest", "public_manifest"}
    BY DEF RunInv
  <1>2. CASE Pipeline!publish_tutorials
    <2> DEFINE g == [pub EXCEPT !["tutorials"] = input.tutorials]
    <2>1. Pipeline!Publish("publish_tutorials", "tutorials", input.tutorials) /\ Pipeline!At("publish_tutorials")
      BY <1>2 DEF Pipeline!publish_tutorials, Pipeline!Publish
    <2>2. g.tutorials = input.tutorials /\ g.maps = pub.maps
      BY <1>1
    <2> HIDE DEF g
    <2>3. ASSUME run.all PROVE DoneBefore(Position + 1, tx, g, input)
      <3>1. PICK p : p = Position
        OBVIOUS
      <3>2. p \in 1 .. 20 /\ Waits(p, "publish_tutorials") /\ DoneBefore(p, tx, pub, input)
        BY <2>1, <2>3, <3>1, AtPlace
      <3>3. p \in {6, 9}
        BY <3>2, Places
      <3>4. p \in 1 .. 17 /\ p < 16 /\ p # 1 /\ p # 5 /\ p # 10 /\ p # 11 /\ p # 12 /\ p # 14
        BY <3>3
      <3>5. DoneBefore(p + 1, tx, g, input)
        BY <2>2, <3>2, <3>4, OneMoreDone
      <3> QED BY <3>1, <3>5
    <2> QED BY <2>1, <2>3, PublishesOn DEF g
  <1>3. CASE Pipeline!publish_maps
    <2> DEFINE g == [pub EXCEPT !["maps"] = Pipeline!safe_problems]
    <2>1. Pipeline!Publish("publish_maps", "maps", Pipeline!safe_problems) /\ Pipeline!At("publish_maps")
      BY <1>3 DEF Pipeline!publish_maps, Pipeline!Publish
    <2>2. g.tutorials = pub.tutorials /\ g.maps = Pipeline!safe_problems
      BY <1>1
    <2> HIDE DEF g
    <2>3. g.maps = Safe(input)
      BY <2>2 DEF Safe, Pipeline!safe_problems
    <2>4. ASSUME run.all PROVE DoneBefore(Position + 1, tx, g, input)
      <3>1. PICK p : p = Position
        OBVIOUS
      <3>2. p \in 1 .. 20 /\ Waits(p, "publish_maps") /\ DoneBefore(p, tx, pub, input)
        BY <2>1, <2>4, <3>1, AtPlace
      <3>3. p = 11
        BY <3>2, Places
      <3>4. DoneBefore(p + 1, tx, g, input)
        BY <2>2, <2>3, <3>2, <3>3, OneMoreDone
      <3> QED BY <3>1, <3>4
    <2> QED BY <2>1, <2>4, PublishesOn DEF g
  <1>4. CASE Pipeline!write_manifest
    <2> DEFINE g == [pub EXCEPT !["manifest"] = Pipeline!stats(tx)]
    <2>1. Pipeline!Publish("write_manifest", "manifest", Pipeline!stats(tx)) /\ Pipeline!At("write_manifest")
      BY <1>4 DEF Pipeline!write_manifest, Pipeline!Publish
    <2>2. g.manifest = Pipeline!stats(tx) /\ g.tutorials = pub.tutorials /\ g.maps = pub.maps
      BY <1>1
    <2> HIDE DEF g
    <2>3. ASSUME run.all PROVE DoneBefore(Position + 1, tx, g, input)
      <3>1. PICK p : p = Position
        OBVIOUS
      <3>2. p \in 1 .. 20 /\ Waits(p, "write_manifest") /\ DoneBefore(p, tx, pub, input)
        BY <2>1, <2>3, <3>1, AtPlace
      <3>3. p = 18
        BY <3>2, Places
      <3>4. DoneBefore(19, tx, g, input)
        BY <2>2, <3>2, <3>3 DEF DoneBefore
      <3> QED BY <3>1, <3>3, <3>4
    <2> QED BY <2>1, <2>3, PublishesOn DEF g
  <1>5. CASE Pipeline!write_public_manifest
    <2> DEFINE g == [pub EXCEPT !["public_manifest"] = pub.manifest]
    <2>1. /\ Pipeline!Publish("write_public_manifest", "public_manifest", pub.manifest)
          /\ Pipeline!At("write_public_manifest")
      BY <1>5 DEF Pipeline!write_public_manifest, Pipeline!Publish
    <2>2. /\ g.public_manifest = pub.manifest /\ g.manifest = pub.manifest
          /\ g.tutorials = pub.tutorials /\ g.maps = pub.maps
      BY <1>1
    <2> HIDE DEF g
    <2>3. ASSUME run.all PROVE DoneBefore(Position + 1, tx, g, input)
      <3>1. PICK p : p = Position
        OBVIOUS
      <3>2. p \in 1 .. 20 /\ Waits(p, "write_public_manifest") /\ DoneBefore(p, tx, pub, input)
        BY <2>1, <2>3, <3>1, AtPlace
      <3>3. p = 19
        BY <3>2, Places
      <3>4. DoneBefore(20, tx, g, input)
        BY <2>2, <3>2, <3>3 DEF DoneBefore
      <3> QED BY <3>1, <3>3, <3>4
    <2> QED BY <2>1, <2>3, PublishesOn DEF g
  <1> QED BY <1>2, <1>3, <1>4, <1>5

\* The loops: a run stays at its place while it fetches.
LEMMA BeginRuns ==
  ASSUME PipelineInv, RunInv, Pipeline!fetch_sources \/ Pipeline!fetch_past_exam_asset_metadata
  PROVE  RunInv' /\ db'.runs = db.runs
  <1>1. PICK step, loop, rows :
           /\ Pipeline!BeginFetch(step, loop, rows)
           /\ \/ step = "fetch_sources" /\ loop = "fetching_sources"
              \/ step = "fetch_assets" /\ loop = "fetching_assets"
    BY DEF Pipeline!fetch_sources, Pipeline!fetch_past_exam_asset_metadata
  <1>2. UNCHANGED <<input, db, tx, pub>> /\ Pipeline!At(step)
    BY <1>1 DEF Pipeline!BeginFetch
  <1>3. run'.all = run.all /\ run'.todo = <<loop>> \o Tail(run.todo)
    <2>1. PICK queue : run' = [run EXCEPT !.todo = <<loop>> \o Tail(run.todo), !.queue = queue]
      BY <1>1 DEF Pipeline!BeginFetch
    <2>2. PICK todo : todo = <<loop>> \o Tail(run.todo)
      OBVIOUS
    <2>3. run' = [run EXCEPT !.todo = todo, !.queue = queue]
      BY <2>1, <2>2
    <2> QED BY <2>2, <2>3 DEF PipelineInv, Pipeline!Idle
  <1>4. ASSUME run.all PROVE StepsInOrder' /\ Position' = Position
    <2>1. PICK q : q = run.todo
      OBVIOUS
    <2>2. PICK p : p = Position
      OBVIOUS
    <2>3. PICK n : n = Len(q)
      OBVIOUS
    <2>4. IsList(q) /\ n \in 1 .. 20 /\ \A i \in 2 .. n : q[i] = Order[p + i - 1]
      BY <1>4, <2>1, <2>2, <2>3 DEF RunInv, StepsInOrder
    <2>5. p \in 1 .. 20 /\ Waits(p, step)
      BY <1>2, <1>4, <2>2, AtPlace
    <2>6. Waits(p, loop)
      <3>1. (step = "fetch_assets" => p = 13) /\ (step = "fetch_sources" => p = 15)
        BY <2>5, Places
      <3> QED BY <1>1, <3>1 DEF Waits
    <2>7. PICK t : t = Tail(q)
      OBVIOUS
    <2>8. IsList(t) /\ Len(t) = n - 1 /\ \A i \in 1 .. n - 1 : t[i] = q[i + 1]
      <3>1. PICK R : R = Range(q)
        OBVIOUS
      <3>2. q \in Seq(R)
        BY <2>4, <3>1 DEF IsList
      <3>3. q # <<>>
        BY <2>3, <2>4, <3>2
      <3>4. IsList(t)
        BY <2>4, <2>7, <3>3, TailOfList
      <3> QED BY <2>3, <2>4, <2>7, <3>2, <3>3, <3>4
    <2>9. PICK u : u = <<loop>> \o t
      OBVIOUS
    <2>10. /\ IsList(u) /\ DOMAIN u = 1 .. 1 + (n - 1) /\ u[1] = loop
           /\ \A i \in 1 .. 1 + (n - 1) : i > 1 => i - 1 \in 1 .. n - 1 /\ u[i] = t[i - 1]
      <3>1. PICK one : one = <<loop>>
        OBVIOUS
      <3>2. IsList(one) /\ Len(one) = 1 /\ one[1] = loop
        BY <3>1, OneTwoThree
      <3>3. 1 \in 1 .. Len(one)
        BY <3>2
      <3>4. u = one \o t
        BY <2>9, <3>1
      <3>5. /\ IsList(u) /\ DOMAIN u = 1 .. Len(one) + Len(t)
            /\ \A i \in 1 .. Len(one) : u[i] = one[i]
            /\ \A i \in 1 .. Len(one) + Len(t) : i > Len(one) => i - Len(one) \in 1 .. Len(t) /\ u[i] = t[i - Len(one)]
        BY <2>8, <3>2, <3>4, Joined, ZenonT(60)
      <3> QED BY <2>8, <3>2, <3>3, <3>5
    <2>11. Len(u) = n
      <3>1. Len(u) \in Nat /\ DOMAIN u = 1 .. Len(u)
        BY <2>10, ListFacts
      <3> QED BY <2>4, <2>10, <3>1, SMTT(60)
    <2>12. \A i \in 2 .. n : u[i] = Order[p + i - 1]
      <3>1. ASSUME NEW i \in 2 .. n PROVE u[i] = q[i]
        <4>1. u[i] = t[i - 1] /\ i - 1 \in 1 .. n - 1
          BY <2>4, <2>10
        <4>2. t[i - 1] = q[(i - 1) + 1]
          BY <2>8, <4>1
        <4>3. (i - 1) + 1 = i
          OBVIOUS
        <4> QED BY <4>1, <4>2, <4>3
      <3> QED BY <2>4, <3>1
    <2>13. run'.todo = u
      BY <1>3, <2>1, <2>7, <2>9
    <2>14. Position' = p
      <3>1. Position' = 21 - Len(u)
        BY <2>13 DEF Position
      <3>2. p = 21 - n
        BY <2>1, <2>2, <2>3 DEF Position
      <3> QED BY <2>11, <3>1, <3>2
    <2>15. StepsInOrder'
      <3>1. StepsInOrder' <=> /\ IsList(run'.todo) /\ Len(run'.todo) \in 1 .. 20
                              /\ Waits(Position', run'.todo[1])
                              /\ \A i \in 2 .. Len(run'.todo) : run'.todo[i] = Order[Position' + i - 1]
        BY DEF StepsInOrder
      <3> QED BY <2>4, <2>6, <2>10, <2>11, <2>12, <2>13, <2>14, <3>1
    <2> QED BY <2>2, <2>14, <2>15
  <1>5. run.all => DoneBefore(Position, tx, pub, input)
    BY DEF RunInv
  <1>6. run'.all => StepsInOrder' /\ DoneBefore(Position', tx, pub, input)
    BY <1>3, <1>4, <1>5
  <1> QED BY <1>2, <1>6 DEF RunInv

LEMMA FetchRuns ==
  ASSUME PipelineInv, RunInv, Pipeline!FetchSource \/ Pipeline!FetchAsset
  PROVE  RunInv' /\ db'.runs = db.runs
  <1>1. PICK doc, status : Pipeline!Record(doc, status)
    BY DEF Pipeline!FetchSource, Pipeline!FetchAsset
  <1>2. PICK docs, statuses : tx' = [tx EXCEPT !.documents = docs, !.status = statuses]
    <2>1. PICK docs : tx' = [tx EXCEPT !.documents = docs, !.status[doc.of] = status]
      BY <1>1 DEF Pipeline!Record
    <2> QED BY <2>1
  <1>3. UNCHANGED <<input, db, pub>> /\ run' = [run EXCEPT !.queue = Tail(run.queue)]
    BY <1>1 DEF Pipeline!Record
  <1>4. run'.all = run.all /\ run'.todo = run.todo
    BY <1>3 DEF PipelineInv, Pipeline!Idle
  <1>5. \A f \in Tables \ {"documents", "status"} : tx'[f] = tx[f]
    BY <1>2, SameTables DEF Tables
  <1>6. /\ tx'.sources = tx.sources /\ tx'.assets = tx.assets
        /\ tx'.jobs = tx.jobs /\ tx'.tutorials = tx.tutorials /\ tx'.maps = tx.maps
    BY <1>5 DEF Tables
  <1>7. PICK step \in {"fetching_sources", "fetching_assets"} : Pipeline!At(step)
    BY DEF Pipeline!FetchSource, Pipeline!FetchAsset
  <1>8. Position' = Position /\ (StepsInOrder' <=> StepsInOrder)
    <2>1. Position' = Position
      BY <1>4 DEF Position
    <2> QED BY <1>4, <2>1 DEF StepsInOrder
  <1>9. ASSUME run.all PROVE StepsInOrder /\ DoneBefore(Position, tx', pub, input)
    <2>1. PICK p : p = Position
      OBVIOUS
    <2>2. p \in 1 .. 20 /\ Waits(p, step) /\ DoneBefore(p, tx, pub, input)
      BY <1>7, <1>9, <2>1, AtPlace
    <2>3. p \in {13, 15}
      BY <1>7, <2>2, Places
    <2>4. DoneBefore(p, tx', pub, input)
      BY <1>6, <2>2, <2>3 DEF DoneBefore, SourcesIn, AssetsIn, JobsIn
    <2> QED BY <1>9, <2>1, <2>4 DEF RunInv
  <1>10. run'.all => StepsInOrder' /\ DoneBefore(Position', tx', pub', input')
    BY <1>3, <1>4, <1>8, <1>9
  <1> QED BY <1>3, <1>10 DEF RunInv

LEMMA EndFetchRuns ==
  ASSUME PipelineInv, RunInv, Pipeline!EndFetch
  PROVE  RunInv' /\ db'.runs = db.runs
  <1>1. PICK step \in {"fetching_sources", "fetching_assets"} : Pipeline!At(step)
    BY DEF Pipeline!EndFetch
  <1>2. Pipeline!CommitAs(tx)
    BY DEF Pipeline!EndFetch
  <1>3. ASSUME run.all PROVE DoneBefore(Position + 1, tx, pub, input)
    <2>1. PICK p : p = Position
      OBVIOUS
    <2>2. p \in 1 .. 20 /\ Waits(p, step) /\ DoneBefore(p, tx, pub, input)
      BY <1>1, <1>3, <2>1, AtPlace
    <2>3. p \in {13, 15}
      BY <1>1, <2>2, Places
    <2>4. p \in 1 .. 17 /\ p < 16 /\ p # 1 /\ p # 5 /\ p # 6 /\ p # 10 /\ p # 11 /\ p # 12 /\ p # 14
      BY <2>3
    <2>5. DoneBefore(p + 1, tx, pub, input)
      BY <2>2, <2>4, OneMoreDone
    <2> QED BY <2>1, <2>5
  <1> QED BY <1>1, <1>2, <1>3, CommitsOn

\* A run that starts has everything before it; an idle one is none of all commands.
LEMMA StartRuns ==
  ASSUME PipelineInv, RunInv,
         \/ \E inv \in Invocations : Pipeline!Start(inv)
         \/ Pipeline!EditSeeds \/ Pipeline!Finished
         \/ Pipeline!IntegrityError \/ Pipeline!FetchRaises \/ Pipeline!Killed
  PROVE  RunInv' /\ db'.runs = db.runs
  <1>1. Pipeline!Idle.all = FALSE
    BY DEF Pipeline!Idle
  <1>2. CASE \E inv \in Invocations : Pipeline!Start(inv)
    <2>1. PICK inv \in Invocations : Pipeline!Start(inv)
      BY <1>2
    <2>2. /\ UNCHANGED <<input, db, pub>>
          /\ run'.todo = Pipeline!Program(inv.commands)
          /\ run'.all <=> "all" \in Pipeline!Range(inv.commands)
      BY <2>1 DEF Pipeline!Start
    <2>3. ASSUME run'.all PROVE StepsInOrder' /\ DoneBefore(Position', tx', pub', input')
      <3>1. PICK q : q = Pipeline!Program(inv.commands)
        OBVIOUS
      <3>2. IsList(q) /\ Len(q) = 20 /\ \A i \in 1 .. 20 : q[i] = Order[i]
        BY <2>2, <2>3, <3>1, ProgramOfAll DEF Upto
      <3>3. Position' = 1
        BY <2>2, <3>1, <3>2 DEF Position
      <3>4. Waits(Position', q[1])
        BY <3>2, <3>3 DEF Waits
      <3>5. \A i \in 2 .. Len(q) : q[i] = Order[Position' + i - 1]
        BY <3>2, <3>3
      <3>6. StepsInOrder' <=> /\ IsList(run'.todo) /\ Len(run'.todo) \in 1 .. 20
                              /\ Waits(Position', run'.todo[1])
                              /\ \A i \in 2 .. Len(run'.todo) : run'.todo[i] = Order[Position' + i - 1]
        BY DEF StepsInOrder
      <3>7. StepsInOrder'
        BY <2>2, <3>1, <3>2, <3>4, <3>5, <3>6
      <3>8. DoneBefore(Position', tx', pub', input')
        BY <3>3 DEF DoneBefore
      <3> QED BY <3>7, <3>8
    <2> QED BY <2>2, <2>3 DEF RunInv
  <1>3. CASE Pipeline!EditSeeds
    <2>1. UNCHANGED <<db, pub, run>> /\ run = Pipeline!Idle /\ input' \in Inputs
      BY <1>3 DEF Pipeline!EditSeeds
    <2> QED BY <1>1, <2>1 DEF RunInv
  <1>4. CASE Pipeline!Finished
    <2>1. UNCHANGED <<input, db, pub, run>> /\ run = Pipeline!Idle
      BY <1>4 DEF Pipeline!Finished, Pipeline!vars
    <2> QED BY <1>1, <2>1 DEF RunInv
  <1>5. CASE Pipeline!IntegrityError \/ Pipeline!FetchRaises \/ Pipeline!Killed
    <2>1. UNCHANGED <<input, db, pub>> /\ run' = Pipeline!Idle
      BY <1>5 DEF Pipeline!IntegrityError, Pipeline!FetchRaises, Pipeline!Killed, Pipeline!Abandon
    <2> QED BY <1>1, <2>1 DEF RunInv
  <1> QED BY <1>2, <1>3, <1>4, <1>5

\* stats reads nothing of the record of runs.
LEMMA SameStats ==
  ASSUME NEW t, NEW u, \A f \in Tables \ {"runs"} : u[f] = t[f]
  PROVE  Pipeline!stats(u) = Pipeline!stats(t)
  <1>1. /\ u.sources = t.sources /\ u.documents = t.documents /\ u.signals = t.signals /\ u.rules = t.rules
        /\ u.subjects = t.subjects /\ u.targets = t.targets /\ u.tutorials = t.tutorials /\ u.maps = t.maps
        /\ u.status = t.status /\ u.jobs = t.jobs
    BY DEF Tables
  <1> QED BY <1>1, Zenon DEF Pipeline!stats

LEMMA RecordRuns ==
  ASSUME PipelineInv, RunInv, Pipeline!record_run
  PROVE  RunInv' /\ (run.all => Pipeline!Agreement')
  <1> DEFINE u == [tx EXCEPT !.runs = tx.runs + 1]
  <1>1. db' = u /\ tx' = u /\ run' = Pipeline!Idle /\ UNCHANGED <<input, pub>> /\ Pipeline!At("record_run")
    BY DEF Pipeline!record_run
  <1>2. u.runs \in Nat /\ \A f \in Tables \ {"runs"} : u[f] = tx[f]
    BY SameTables DEF Tables, RunInv
  <1> HIDE DEF u
  <1>3. RunInv'
    BY <1>1, <1>2 DEF RunInv, Pipeline!Idle
  <1>4. ASSUME run.all PROVE Pipeline!Agreement'
    <2>1. PICK p : p = Position
      OBVIOUS
    <2>2. p \in 1 .. 20 /\ Waits(p, "record_run") /\ DoneBefore(p, tx, pub, input)
      BY <1>1, <1>4, <2>1, AtPlace
    <2>3. p = 20
      BY <2>2, Places
    <2>4. /\ SourcesIn(tx, input) /\ tx.tutorials = input.tutorials /\ pub.tutorials = input.tutorials
          /\ tx.maps = Safe(input) /\ pub.maps = Safe(input)
          /\ JobsIn(tx, input) /\ AllRead(tx)
          /\ pub.manifest = Pipeline!stats(tx) /\ pub.public_manifest = Pipeline!stats(tx)
      BY <2>2, <2>3 DEF DoneBefore
    <2>5. Pipeline!stats(u) = Pipeline!stats(tx)
      BY <1>2, SameStats
    <2>6. /\ u.sources = tx.sources /\ u.documents = tx.documents /\ u.signals = tx.signals
          /\ u.tutorials = tx.tutorials /\ u.maps = tx.maps /\ u.jobs = tx.jobs
      BY <1>2 DEF Tables
    <2>7. Pipeline!safe_problems' = Safe(input)
      BY <1>1 DEF Pipeline!safe_problems, Safe
    <2>8. Pipeline!stats(db)' = Pipeline!stats(u)
      BY <1>1
    <2>9. /\ db'.tutorials = input'.tutorials /\ pub'.tutorials = input'.tutorials
          /\ db'.maps = Pipeline!safe_problems' /\ pub'.maps = Pipeline!safe_problems'
          /\ pub'.manifest = Pipeline!stats(db)' /\ pub'.public_manifest = Pipeline!stats(db)'
          /\ DOMAIN input'.sources \subseteq DOMAIN db'.sources
      BY <1>1, <2>4, <2>5, <2>6, <2>7, <2>8 DEF SourcesIn
    <2>10. \A d \in DOMAIN db'.documents :
              db'.documents[d].text /\ Pipeline!extract_signals_from_text(db'.documents[d].body) # <<>>
                => \E i \in DOMAIN db'.signals : db'.signals[i].document = d
      BY <1>1, <2>4, <2>6 DEF AllRead
    <2>11. \A a \in DOMAIN input'.assets :
              LET job == <<a, Pipeline!job_type(input'.assets[a])>>
              IN  /\ job \in DOMAIN db'.jobs
                  /\ input'.assets[a].rights_policy \in Pipeline!BLOCKED_RIGHTS_POLICIES => db'.jobs[job] = "blocked"
      BY <1>1, <2>4, <2>6 DEF JobsIn
    <2> QED BY <2>9, <2>10, <2>11 DEF Pipeline!Agreement
  <1> QED BY <1>3, <1>4

LEMMA RunStep ==
  ASSUME Pipeline!PipelineAssumption, PipelineInv, RunInv, Pipeline!Next
  PROVE  RunInv' /\ Pipeline!RunAgrees
  <1>1. db.runs \in Nat
    BY DEF RunInv
  <1>2. ASSUME RunInv', db'.runs = db.runs PROVE RunInv' /\ Pipeline!RunAgrees
    BY <1>1, <1>2 DEF Pipeline!RunAgrees
  <1>3. CASE Pipeline!record_run
    BY <1>3, RecordRuns DEF Pipeline!RunAgrees
  <1> QED
    BY <1>2, <1>3, SeedRuns, AssetRuns, JobRuns, ExtractRuns, RuleRuns, PublishRuns, BeginRuns, FetchRuns, EndFetchRuns, StartRuns
       DEF Pipeline!Next

LEMMA RunInit ==
  ASSUME Pipeline!Init
  PROVE  RunInv
  BY DEF Pipeline!Init, RunInv, Pipeline!EmptyTables, Pipeline!Idle

LEMMA RunInvariant == OfflineSpec => [](part = "pipeline" => PipelineInv /\ RunInv)
  <1>1. OfflineInit => (part = "pipeline" => PipelineInv /\ RunInv)
    BY PipelineInit, RunInit DEF OfflineInit
  <1>2. (part = "pipeline" => PipelineInv) /\ (part = "pipeline" => PipelineInv)'
        /\ (part = "pipeline" => PipelineInv /\ RunInv) /\ [OfflineNext]_allVars
          => (part = "pipeline" => PipelineInv /\ RunInv)'
    <2> SUFFICES ASSUME (part = "pipeline" => PipelineInv)', part = "pipeline" => PipelineInv /\ RunInv,
                        [OfflineNext]_allVars, part' = "pipeline"
                 PROVE  RunInv'
      OBVIOUS
    <2>1. CASE Pipeline!Next /\ part = "pipeline"
      BY <2>1, RunStep, OfflineAssumption DEF OfflineAssumption
    <2>2. CASE UNCHANGED pipeline /\ part = "pipeline"
      BY <2>2 DEF pipeline, RunInv, StepsInOrder, Position
    <2> QED
      BY <2>1, <2>2 DEF OfflineNext, allVars
  <1> QED
    BY <1>1, <1>2, PipelineInvariant, PTL DEF OfflineSpec

\* cpa_data_pipeline.py: when `all` has run to its end the tables, the files and the seed
\* files agree, whatever earlier runs have left behind, and wherever they were killed.
THEOREM CompletedRunAgreesHolds == OfflineSpec => CompletedRunAgrees
  <1>1. (part = "pipeline" => PipelineInv /\ RunInv) /\ [OfflineNext]_allVars
          => [part = "pipeline" => Pipeline!RunAgrees]_pipeline
    <2> SUFFICES ASSUME part = "pipeline" => PipelineInv /\ RunInv, [OfflineNext]_allVars,
                        part = "pipeline", ~ UNCHANGED pipeline
                 PROVE  Pipeline!RunAgrees
      OBVIOUS
    <2>1. Pipeline!Next
      BY DEF OfflineNext, allVars
    <2> QED
      BY <2>1, RunStep, OfflineAssumption DEF OfflineAssumption
  <1> QED
    BY <1>1, RunInvariant, PTL DEF OfflineSpec, CompletedRunAgrees

-----------------------------------------------------------------------------
(* The glossary.                                                           *)

LEMMA GlossaryCounts ==
  /\ \A S : Glossary!IsFiniteSet(S) <=> IsFiniteSet(S)
  /\ \A S : Glossary!Cardinality(S) = Cardinality(S)
  /\ \A f : Glossary!Range(f) = Range(f)
  /\ \A f, S : Glossary!SumFunctionOnSet(f, S) = SumFunctionOnSet(f, S)
  BY DEF Glossary!IsFiniteSet, IsFiniteSet, Glossary!Cardinality, Cardinality, Glossary!Range, Range,
         Glossary!SumFunctionOnSet, SumFunctionOnSet,
         FoldFunctionOnSet, Glossary!FoldFunctionOnSet, MapThenFoldSet, Glossary!MapThenFoldSet

\* The edges are those of the terms they were built from, and the last search was on what
\* there is.
GlossaryInv ==
    /\ \A t \in DOMAIN terms : t \in DOMAIN Drafts /\ terms[t] = Drafts[t]
    /\ seeding # None => seeding.phase \in DOMAIN Phases /\ seeding.next \in 1 .. Len(Phases[seeding.phase])
    /\ edges = Glossary!build_edges(builtOf)
    /\ hits # None =>
          /\ hits.query \in Queries
          /\ hits.index # None => hits.index = [terms |-> terms, edges |-> edges]
          /\ hits.fresh <=> builtOf = terms
          /\ hits.found = Glossary!retrieve(hits.index, hits.query)

LEMMA NoTermsNoEdges == Glossary!build_edges(<<>>) = {}
  <1>1. DOMAIN <<>> = {}
    OBVIOUS
  <1>2. Glossary!edges_to_targets(<<>>) = {}
    BY <1>1 DEF Glossary!edges_to_targets
  <1>3. Glossary!edges_confusable(<<>>) = {}
    BY <1>1 DEF Glossary!edges_confusable
  <1>4. Glossary!edges_prerequisite(<<>>) = {}
    BY <1>1 DEF Glossary!edges_prerequisite
  <1> QED BY <1>2, <1>3, <1>4 DEF Glossary!build_edges

LEMMA GlossaryInit == ASSUME Glossary!Init PROVE GlossaryInv
  BY NoTermsNoEdges DEF Glossary!Init, GlossaryInv

LEMMA GlossaryStep ==
  ASSUME GlossaryInv, Glossary!GlossaryAssumption, Glossary!Next
  PROVE  GlossaryInv'
  <1>1. ASSUME NEW p \in DOMAIN Phases, Glossary!StartSeeding(p) PROVE GlossaryInv'
    <2>1. Phases[p] # <<>> /\ Phases[p] \in Seq(DOMAIN Drafts)
      BY DEF Glossary!GlossaryAssumption
    <2>2. 1 \in 1 .. Len(Phases[p])
      BY <2>1
    <2> QED BY <1>1, <2>2 DEF GlossaryInv, Glossary!StartSeeding
  <1>2. ASSUME Glossary!WriteTerm PROVE GlossaryInv'
    <2>1. PICK ids : ids = Phases[seeding.phase]
      OBVIOUS
    <2>2. PICK n : n = seeding.next
      OBVIOUS
    <2>3. seeding.phase \in DOMAIN Phases /\ n \in 1 .. Len(ids) /\ ids \in Seq(DOMAIN Drafts)
      BY <1>2, <2>1, <2>2 DEF GlossaryInv, Glossary!WriteTerm, Glossary!GlossaryAssumption
    <2>4. ids[n] \in DOMAIN Drafts
      BY <2>3
    <2>5. /\ terms' = [t \in DOMAIN terms \cup {ids[n]} |-> IF t = ids[n] THEN Drafts[ids[n]] ELSE terms[t]]
          /\ seeding' = IF n = Len(ids) THEN None ELSE [seeding EXCEPT !.next = @ + 1]
          /\ hits' = None /\ UNCHANGED <<edges, builtOf>>
      BY <1>2, <2>1, <2>2 DEF Glossary!WriteTerm
    <2>6. \A t \in DOMAIN terms' : t \in DOMAIN Drafts /\ terms'[t] = Drafts[t]
      BY <2>4, <2>5 DEF GlossaryInv
    <2>7. seeding' # None => seeding'.phase \in DOMAIN Phases /\ seeding'.next \in 1 .. Len(Phases[seeding'.phase])
      BY <2>1, <2>2, <2>3, <2>5
    <2> QED BY <2>5, <2>6, <2>7 DEF GlossaryInv
  <1>3. ASSUME Glossary!StopSeeding PROVE GlossaryInv'
    BY <1>3 DEF GlossaryInv, Glossary!StopSeeding
  <1>4. ASSUME Glossary!Build PROVE GlossaryInv'
    BY <1>4 DEF GlossaryInv, Glossary!Build
  <1>5. ASSUME NEW q \in Queries, Glossary!Search(q) PROVE GlossaryInv'
    <2>1. PICK ix \in {None, [terms |-> terms, edges |-> edges]} :
             hits' = [query |-> q, index |-> ix, fresh |-> builtOf = terms, found |-> Glossary!retrieve(ix, q)]
      BY <1>5 DEF Glossary!Search
    <2>2. UNCHANGED <<terms, edges, seeding, builtOf>>
      BY <1>5 DEF Glossary!Search
    <2>3. /\ hits'.query = q /\ hits'.index = ix /\ (hits'.fresh <=> builtOf = terms)
          /\ hits'.found = Glossary!retrieve(ix, q)
      BY <2>1
    <2> QED BY <2>1, <2>2, <2>3 DEF GlossaryInv
  <1> QED
    BY <1>1, <1>2, <1>3, <1>4, <1>5 DEF Glossary!Next

LEMMA GlossaryInvariant == OfflineSpec => [](part = "glossary" => GlossaryInv)
  <1>1. OfflineInit => (part = "glossary" => GlossaryInv)
    BY GlossaryInit DEF OfflineInit
  <1>2. (part = "glossary" => GlossaryInv) /\ [OfflineNext]_allVars => (part = "glossary" => GlossaryInv)'
    <2> SUFFICES ASSUME part = "glossary" => GlossaryInv, [OfflineNext]_allVars, part' = "glossary"
                 PROVE  GlossaryInv'
      OBVIOUS
    <2>1. CASE Glossary!Next /\ part = "glossary"
      BY <2>1, GlossaryStep, OfflineAssumption DEF OfflineAssumption
    <2>2. CASE UNCHANGED glossary /\ part = "glossary"
      BY <2>2 DEF glossary, GlossaryInv
    <2> QED
      BY <2>1, <2>2 DEF OfflineNext, allVars
  <1> QED
    BY <1>1, <1>2, PTL DEF OfflineSpec

\* edges_to_targets of build_term_graph.py: of a chunk that mentions a term there is an edge to it.
LEMMA MentionsAreEdges ==
  ASSUME NEW ts, NEW t \in DOMAIN ts, NEW c \in Glossary!Chunks, NEW f \in ts[t].forms,
         Forms[f].length >= 2, Glossary!_contains(Targets[c].text, f)
  PROVE  t \in Glossary!chunk_defined_by([terms |-> ts, edges |-> Glossary!build_edges(ts)], c)
  <1> DEFINE keyword(u, d) == Glossary!BuilderForms(ts[u]) \cap Targets[d].keywords # {}
             mention(u, d) == \E g \in Glossary!BuilderForms(ts[u]) : Glossary!_contains(Targets[d].text, g)
             EdgeOf(u, d) == Glossary!Edge(u, Targets[d].kind, d, Glossary!Relation(Targets[d].kind),
                                           IF keyword(u, d) THEN 2 ELSE 1)
             to == Glossary!edges_to_targets(ts)
             all == to \cup Glossary!edges_confusable(ts) \cup Glossary!edges_prerequisite(ts)
             e == EdgeOf(t, c)
  <1>1. to = {EdgeOf(p[1], p[2]) : p \in {q \in (DOMAIN ts) \X (DOMAIN Targets) : keyword(q[1], q[2]) \/ mention(q[1], q[2])}}
    BY Zenon DEF Glossary!edges_to_targets
  <1>2. c \in DOMAIN Targets /\ Targets[c].kind = "rag_chunk"
    BY DEF Glossary!Chunks
  <1>3. mention(t, c)
    BY DEF Glossary!BuilderForms, Glossary!_surface_forms
  <1>4. e.to_kind = "rag_chunk" /\ e.relation = "defined_in" /\ e.to_id = c /\ e.from_term = t /\ e.weight \in {1, 2}
    BY <1>2 DEF Glossary!Edge, Glossary!Relation
  <1>5. e \in to
    <2> HIDE DEF keyword, mention, EdgeOf
    <2>1. <<t, c>> \in (DOMAIN ts) \X (DOMAIN Targets)
      BY <1>2
    <2> QED BY <1>1, <1>3, <2>1
  <1>6. ASSUME NEW d \in all, [e EXCEPT !.weight = 0] = [d EXCEPT !.weight = 0] PROVE d.weight <= e.weight
    <2>1. CASE d \in to
      <3>1. PICK u \in DOMAIN ts, x \in DOMAIN Targets : d = EdgeOf(u, x)
        <4> HIDE DEF keyword, mention, EdgeOf
        <4> QED BY <1>1, <2>1
      <3>2. u = t /\ x = c
        <4>1. [e EXCEPT !.weight = 0].from_term = t /\ [e EXCEPT !.weight = 0].to_id = c
          BY DEF Glossary!Edge
        <4>2. [d EXCEPT !.weight = 0].from_term = u /\ [d EXCEPT !.weight = 0].to_id = x
          BY <3>1 DEF Glossary!Edge
        <4> QED BY <1>6, <4>1, <4>2
      <3>3. d = e
        BY <3>1, <3>2
      <3> QED BY <1>4, <3>3
    <2>2. CASE d \in Glossary!edges_confusable(ts) \cup Glossary!edges_prerequisite(ts)
      <3>1. PICK u, v, r : d = Glossary!Edge(u, "term", v, r, 1)
        BY <2>2 DEF Glossary!edges_confusable, Glossary!edges_prerequisite
      <3>2. [d EXCEPT !.weight = 0].to_kind = "term"
        BY <3>1 DEF Glossary!Edge
      <3>3. [e EXCEPT !.weight = 0].to_kind = "rag_chunk"
        BY <1>2 DEF Glossary!Edge
      <3> QED BY <1>6, <3>2, <3>3
    <2> QED BY <2>1, <2>2
  <1>7. Glossary!build_edges(ts) = {x \in all : \A d \in all : [x EXCEPT !.weight = 0] = [d EXCEPT !.weight = 0] => d.weight <= x.weight}
    BY Zenon DEF Glossary!build_edges
  <1> HIDE DEF e, to
  <1>8. e \in Glossary!build_edges(ts)
    <2> HIDE DEF all
    <2>1. e \in all
      BY <1>5 DEF all
    <2> QED BY <1>6, <1>7, <2>1
  <1> QED BY <1>4, <1>8 DEF Glossary!chunk_defined_by

\* The words that retrieve looks for.
Words(ix, q) ==
    q.tokens \cup Glossary!Tokens({w.form : w \in q.text} \cup Glossary!expand_query(ix, q.text))

\* A term that is found adds a word to those of the query; there are finitely many.
LEMMA WordsOfTerms ==
  ASSUME Glossary!GlossaryAssumption, NEW q \in Queries, NEW ix,
         \A t \in DOMAIN ix.terms : t \in DOMAIN Drafts /\ ix.terms[t] = Drafts[t],
         NEW t \in Glossary!matched_terms(ix, q.text)
  PROVE  IsFiniteSet(Words(ix, q)) /\ Words(ix, q) # {}
  <1>1. PICK exp : exp = Glossary!expand_query(ix, q.text)
    OBVIOUS
  <1>2. t \in DOMAIN ix.terms /\ t \in DOMAIN Drafts /\ ix.terms[t] = Drafts[t]
    BY DEF Glossary!matched_terms
  <1>3. PICK g \in Drafts[t].forms : Forms[g].length >= 2 /\ Forms[g].tokens # {}
    BY <1>2 DEF Glossary!GlossaryAssumption
  <1>4. g \in exp
    BY <1>1, <1>2, <1>3 DEF Glossary!expand_query, Glossary!_surface_forms
  <1>5. exp \subseteq DOMAIN Forms
    <2>1. \A u \in DOMAIN ix.terms : Glossary!_surface_forms(ix.terms[u]) \subseteq DOMAIN Forms
      BY DEF Glossary!GlossaryAssumption, Glossary!_surface_forms
    <2>2. Glossary!matched_terms(ix, q.text) \subseteq DOMAIN ix.terms
      BY DEF Glossary!matched_terms
    <2> QED BY <1>1, <2>1, <2>2 DEF Glossary!expand_query
  <1>6. PICK fs : fs = {w.form : w \in q.text} \cup exp
    OBVIOUS
  <1>7. fs \subseteq DOMAIN Forms
    BY <1>5, <1>6 DEF Glossary!GlossaryAssumption
  <1>8. IsFiniteSet(fs) /\ \A f \in fs : IsFiniteSet(Forms[f].tokens)
    BY <1>7, GlossaryCounts, FS_Subset DEF Glossary!GlossaryAssumption
  <1>9. IsFiniteSet(UNION {Forms[f].tokens : f \in fs})
    <2> DEFINE tokens == [f \in fs |-> Forms[f].tokens]
    <2>1. IsFiniteSet({tokens[f] : f \in DOMAIN tokens})
      <3>1. IsFiniteSet(DOMAIN tokens)
        BY <1>8
      <3> HIDE DEF tokens
      <3> QED BY <3>1, ImageIsFinite
    <2>2. {tokens[f] : f \in DOMAIN tokens} = {Forms[f].tokens : f \in fs}
      OBVIOUS
    <2>3. IsFiniteSet({Forms[f].tokens : f \in fs})
      BY <2>1, <2>2
    <2>4. \A T \in {Forms[f].tokens : f \in fs} : IsFiniteSet(T)
      BY <1>8
    <2> QED BY <2>3, <2>4, FS_UNION
  <1>10. Words(ix, q) = q.tokens \cup UNION {Forms[f].tokens : f \in fs}
    BY <1>1, <1>6 DEF Words, Glossary!Tokens
  <1>11. IsFiniteSet(q.tokens)
    BY GlossaryCounts DEF Glossary!GlossaryAssumption
  <1>12. IsFiniteSet(Words(ix, q))
    <2>1. PICK A, B : A = q.tokens /\ B = UNION {Forms[f].tokens : f \in fs}
      OBVIOUS
    <2>2. IsFiniteSet(A) /\ IsFiniteSet(B)
      BY <1>9, <1>11, <2>1
    <2>3. IsFiniteSet(A \cup B)
      BY <2>2, FS_Union
    <2> QED BY <1>10, <2>1, <2>3
  <1> QED BY <1>3, <1>4, <1>6, <1>10, <1>12

\* _score_chunk: what a keyword or a word in common adds is not negative.
LEMMA ScoresAreNaturals ==
  ASSUME Glossary!GlossaryAssumption, NEW c \in Glossary!Chunks, NEW words, IsFiniteSet(words), words # {}, NEW forms
  PROVE  Glossary!_score_chunk(c, words, forms) \in Nat
  <1>1. PICK shared : shared = Glossary!Tokens({w.form : w \in Targets[c].text}) \cap words
    OBVIOUS
  <1>2. PICK n \in Nat : n = Cardinality(shared)
    BY <1>1, FS_Subset, FS_CardinalityType
  <1>3. PICK m \in Nat \ {0} : m = Cardinality(words)
    BY FS_CardinalityType, FS_EmptySet
  <1>4. (180 * n) \div m \in Nat
    BY <1>2, <1>3
  <1>5. PICK K : K = Targets[c].keywords
    OBVIOUS
  <1>6. IsFiniteSet(K)
    BY <1>5, GlossaryCounts DEF Glossary!GlossaryAssumption, Glossary!Chunks
  <1> DEFINE worth == [k \in K |-> IF k \in forms THEN 240 ELSE IF Forms[k].tokens \cap words # {} THEN 120 ELSE 0]
  <1>7. SumFunctionOnSet(worth, K) \in Nat
    <2>1. \A k \in K : worth[k] \in Nat
      OBVIOUS
    <2> HIDE DEF worth
    <2> QED BY <1>6, <2>1, SumOfNaturals
  <1>8. Glossary!_score_chunk(c, words, forms) = SumFunctionOnSet(worth, K) + (180 * n) \div m
    BY <1>1, <1>2, <1>3, <1>5, GlossaryCounts DEF Glossary!_score_chunk
  <1> QED BY <1>4, <1>7, <1>8

\* By score, of equal ones the first.
FirstByScore(score, S) == {p \in S \X S : score[p[1]] > score[p[2]] \/ (score[p[1]] = score[p[2]] /\ p[1] < p[2])}

LEMMA Firsts ==
  ASSUME NEW n \in Nat, NEW S, NEW s \in [1 .. n -> S], NEW m \in 0 .. n
  PROVE  /\ Len(SubSeq(s, 1, m)) = m /\ DOMAIN SubSeq(s, 1, m) = 1 .. m
         /\ \A i \in 1 .. m : SubSeq(s, 1, m)[i] = s[i]
  OBVIOUS

\* The first ones, as many as there may be.
IsFirsts(found, order, top) == found = SubSeq(order, 1, Glossary!Min({top, Len(order)}))

IsAll(found, order, n) == DOMAIN found = 1 .. n /\ \A i \in 1 .. n : found[i] = order[i]

\* With fewer than the limit nothing is cut off.
LEMMA NothingCut ==
  ASSUME NEW n \in Nat, NEW S, NEW order \in [1 .. n -> S], NEW top \in Nat,
         NEW found, IsFirsts(found, order, top), Len(found) < top
  PROVE  IsAll(found, order, n)
  <1>1. order \in Seq(S) /\ Len(order) = n
    OBVIOUS
  <1>2. PICK m : m = Glossary!Min({top, n})
    OBVIOUS
  <1>3. m = IF top <= n THEN top ELSE n
    <2>1. PICK k \in {top, n} : k = IF top <= n THEN top ELSE n
      OBVIOUS
    <2>2. \A j \in {top, n} : k <= j
      BY <2>1
    <2>3. m = CHOOSE x \in {top, n} : \A y \in {top, n} : x <= y
      BY <1>2 DEF Glossary!Min
    <2>4. m \in {top, n} /\ \A y \in {top, n} : m <= y
      BY <2>2, <2>3
    <2> QED BY <2>4
  <1>4. found = SubSeq(order, 1, m)
    BY <1>1, <1>2 DEF IsFirsts
  <1>5. m \in 0 .. n
    BY <1>3
  <1>6. Len(SubSeq(order, 1, m)) = m
    BY <1>5, Firsts
  <1>7. m = n
    <2>1. PICK l : l = Len(found)
      OBVIOUS
    <2>2. l < top /\ l = m
      BY <1>4, <1>6, <2>1
    <2> QED BY <1>3, <2>2
  <1>8. DOMAIN SubSeq(order, 1, n) = 1 .. n /\ \A i \in 1 .. n : SubSeq(order, 1, n)[i] = order[i]
    BY <1>5, <1>7, Firsts
  <1> QED BY <1>4, <1>7, <1>8 DEF IsAll

\* By score, of equal ones the first.
IsByScore(order, score, S) ==
    order = [i \in 1 .. Glossary!Cardinality(S) |->
                CHOOSE c \in S : Glossary!Cardinality({d \in S : score[d] > score[c] \/ (score[d] = score[c] /\ d < c)}) = i - 1]

\* The order of retrieve: what is not cut off is in it.
LEMMA CandidatesAreFound ==
  ASSUME NEW S, S \subseteq Int, IsFiniteSet(S), NEW score, \A c \in S : score[c] \in Nat,
         NEW order, IsByScore(order, score, S), NEW top \in Nat, NEW found, IsFirsts(found, order, top),
         Len(found) < top, NEW c \in S
  PROVE  c \in Range(found)
  <1> DEFINE R == FirstByScore(score, S)
  <1>1. StrictOrder(S, R)
    <2>1. \A x, y \in S : <<x, y>> \in R <=> score[x] > score[y] \/ (score[x] = score[y] /\ x < y)
      BY DEF FirstByScore
    <2> HIDE DEF R
    <2>2. \A x \in S : <<x, x>> \notin R
      BY <2>1
    <2>3. ASSUME NEW x \in S, NEW y \in S, NEW z \in S, <<x, y>> \in R, <<y, z>> \in R PROVE <<x, z>> \in R
      <3>1. score[x] \in Nat /\ score[y] \in Nat /\ score[z] \in Nat /\ x \in Int /\ y \in Int /\ z \in Int
        OBVIOUS
      <3>2. /\ score[x] > score[y] \/ (score[x] = score[y] /\ x < y)
            /\ score[y] > score[z] \/ (score[y] = score[z] /\ y < z)
        BY <2>1, <2>3
      <3>3. score[x] > score[z] \/ (score[x] = score[z] /\ x < z)
        BY <3>1, <3>2
      <3> QED BY <2>1, <3>3
    <2>4. ASSUME NEW x \in S, NEW y \in S, x # y PROVE <<x, y>> \in R \/ <<y, x>> \in R
      <3>1. score[x] \in Nat /\ score[y] \in Nat /\ x \in Int /\ y \in Int
        OBVIOUS
      <3> QED BY <2>1, <2>4, <3>1
    <2> QED BY <2>2, <2>3, <2>4 DEF StrictOrder
  <1>2. \A x \in S : Rank(S, R, x) = Cardinality({d \in S : score[d] > score[x] \/ (score[d] = score[x] /\ d < x)})
    <2> SUFFICES ASSUME NEW x \in S
                 PROVE  Rank(S, R, x) = Cardinality({d \in S : score[d] > score[x] \/ (score[d] = score[x] /\ d < x)})
      OBVIOUS
    <2>1. {d \in S : <<d, x>> \in R} = {d \in S : score[d] > score[x] \/ (score[d] = score[x] /\ d < x)}
      BY DEF FirstByScore
    <2> QED BY <2>1 DEF Rank
  <1> HIDE DEF R
  <1> DEFINE rank(x) == Glossary!Cardinality({d \in S : score[d] > score[x] \/ (score[d] = score[x] /\ d < x)})
  <1>3. PICK n \in Nat : n = Cardinality(S)
    BY FS_CardinalityType
  <1>4. order = [i \in 1 .. n |-> CHOOSE x \in S : rank(x) = i - 1]
    BY <1>3, GlossaryCounts DEF IsByScore
  <1>5. \A x \in S : rank(x) \in 0 .. n - 1 /\ rank(x) = Rank(S, R, x)
    BY <1>1, <1>2, <1>3, RankBelow, GlossaryCounts
  <1>6. \A x, y \in S : rank(x) = rank(y) => x = y
    <2> SUFFICES ASSUME NEW x \in S, NEW y \in S, rank(x) = rank(y), x # y PROVE FALSE
      OBVIOUS
    <2>1. <<x, y>> \in R \/ <<y, x>> \in R
      BY <1>1 DEF StrictOrder
    <2>2. Rank(S, R, x) < Rank(S, R, y) \/ Rank(S, R, y) < Rank(S, R, x)
      BY <1>1, <2>1, RankGrows
    <2> HIDE DEF rank
    <2> QED BY <1>5, <2>2
  <1> HIDE DEF rank
  <1>7. PICK i \in 1 .. n : order[i] = c
    <2>1. PICK i \in 1 .. n : rank(c) = i - 1
      <3>1. rank(c) \in 0 .. n - 1
        BY <1>5
      <3>2. rank(c) + 1 \in 1 .. n /\ rank(c) = (rank(c) + 1) - 1
        BY <3>1
      <3> QED BY <3>2
    <2>2. order[i] = CHOOSE x \in S : rank(x) = i - 1
      BY <1>4
    <2>3. order[i] \in S /\ rank(order[i]) = i - 1
      BY <2>1, <2>2
    <2> QED BY <1>6, <2>1, <2>3
  <1>8. order \in [1 .. n -> S]
    <2>1. ASSUME NEW k \in 1 .. n PROVE order[k] \in S
      <3>1. \E x \in S : Rank(S, R, x) = k - 1
        <4>1. k - 1 \in 0 .. Cardinality(S) - 1
          BY <1>3
        <4> QED BY <1>1, <4>1, RanksAreTaken
      <3>2. \E x \in S : rank(x) = k - 1
        BY <1>5, <3>1
      <3>3. order[k] = CHOOSE x \in S : rank(x) = k - 1
        BY <1>4
      <3> QED BY <3>2, <3>3
    <2>2. order = [k \in 1 .. n |-> order[k]]
      BY <1>4
    <2> QED BY <2>1, <2>2, Zenon
  <1>9. IsAll(found, order, n)
    BY <1>8, NothingCut, Zenon
  <1> QED BY <1>7, <1>9 DEF IsAll, Range

\* The bonus of a chunk that defines a term of the question is all that it needs.
LEMMA DefinedIsCandidate ==
  ASSUME Glossary!GlossaryAssumption, NEW q \in Queries, NEW ts,
         \A t \in DOMAIN ts : t \in DOMAIN Drafts /\ ts[t] = Drafts[t],
         NEW ix, ix = [terms |-> ts, edges |-> Glossary!build_edges(ts)], ix # None,
         Len(Glossary!retrieve(ix, q)) < TopK,
         NEW c \in Glossary!Chunks, Targets[c].subject \in {q.subject, "general"},
         NEW t \in DOMAIN ts, NEW f \in ts[t].forms,
         Forms[f].length >= 2, Glossary!_contains(q.text, f), Glossary!_contains(Targets[c].text, f)
  PROVE  c \in Range(Glossary!retrieve(ix, q))
  <1>1. ix.terms = ts
    OBVIOUS
  <1>2. t \in Glossary!matched_terms(ix, q.text)
    BY <1>1 DEF Glossary!matched_terms, Glossary!_surface_forms
  <1>3. Glossary!chunk_defined_by(ix, c) \cap Glossary!matched_terms(ix, q.text) # {}
    BY <1>2, MentionsAreEdges
  <1> DEFINE expansions == IF ix = None THEN {} ELSE Glossary!expand_query(ix, q.text)
             matched == IF ix = None THEN {} ELSE Glossary!matched_terms(ix, q.text)
             words == q.tokens \cup Glossary!Tokens({w.form : w \in q.text} \cup expansions)
             forms == {w.form : w \in q.text} \cup expansions
             score == [d \in Glossary!Chunks |->
                          Glossary!_score_chunk(d, words, forms) + (IF ix = None THEN 0 ELSE Glossary!Bonus(ix, d, matched))]
             S == {d \in Glossary!Chunks : Targets[d].subject \in {q.subject, "general"} /\ score[d] >= Glossary!MinScore}
             order == [i \in 1 .. Glossary!Cardinality(S) |->
                         CHOOSE x \in S : Glossary!Cardinality(
                              {d \in S : score[d] > score[x] \/ (score[d] = score[x] /\ d < x)}) = i - 1]
             found == Glossary!retrieve(ix, q)
  <1>4. found = IF words = {} THEN <<>> ELSE SubSeq(order, 1, Glossary!Min({TopK, Len(order)}))
    BY Zenon DEF Glossary!retrieve
  <1>5. IsFiniteSet(words) /\ words # {}
    <2>1. words = Words(ix, q)
      BY DEF Words
    <2> HIDE DEF words
    <2> QED BY <1>1, <1>2, <2>1, WordsOfTerms
  <1>6. matched = Glossary!matched_terms(ix, q.text)
    OBVIOUS
  <1> HIDE DEF words, forms, matched
  <1>7. \A d \in Glossary!Chunks : /\ Glossary!_score_chunk(d, words, forms) \in Nat
                                   /\ Glossary!Bonus(ix, d, matched) \in {0, 60} /\ score[d] \in Nat
    <2> SUFFICES ASSUME NEW d \in Glossary!Chunks
                 PROVE  /\ Glossary!_score_chunk(d, words, forms) \in Nat
                        /\ Glossary!Bonus(ix, d, matched) \in {0, 60} /\ score[d] \in Nat
      OBVIOUS
    <2>1. Glossary!_score_chunk(d, words, forms) \in Nat
      BY <1>5, ScoresAreNaturals
    <2>2. Glossary!Bonus(ix, d, matched) \in {0, 60}
      BY DEF Glossary!Bonus
    <2> QED BY <2>1, <2>2
  <1>8. c \in S
    <2>1. Glossary!Bonus(ix, c, matched) = 60
      BY <1>3, <1>6 DEF Glossary!Bonus
    <2>2. score[c] >= 60
      BY <1>7, <2>1
    <2> QED BY <2>2 DEF Glossary!MinScore
  <1>9. S \subseteq Int /\ IsFiniteSet(S)
    <2>1. PICK n \in Nat : DOMAIN Targets = 1 .. n
      BY ZenonT(60) DEF Glossary!GlossaryAssumption
    <2>2. S \subseteq 1 .. n
      BY <2>1 DEF Glossary!Chunks
    <2>3. IsFiniteSet(1 .. n)
      BY FS_Interval
    <2>4. 1 .. n \subseteq Int
      OBVIOUS
    <2> HIDE DEF S
    <2>5. IsFiniteSet(S)
      BY <2>2, <2>3, FS_Subset
    <2> QED BY <2>2, <2>4, <2>5, ZenonT(60)
  <1>10. found = SubSeq(order, 1, Glossary!Min({TopK, Len(order)}))
    BY <1>4, <1>5, Zenon
  <1>11. TopK \in Nat
    BY DEF Glossary!GlossaryAssumption
  <1>12. IsByScore(order, score, S)
    BY DEF IsByScore
  <1>13. \A d \in S : score[d] \in Nat
    BY <1>7
  <1> HIDE DEF score, S, order
  <1>14. IsFirsts(found, order, TopK)
    BY <1>10 DEF IsFirsts
  <1> HIDE DEF found
  <1>15. Len(found) < TopK
    BY DEF found
  <1>16. c \in Range(found)
    BY <1>8, <1>9, <1>11, <1>12, <1>13, <1>14, <1>15, CandidatesAreFound, Zenon
  <1> QED BY <1>16 DEF found

\* build_term_graph.py and retrieve (search.py): with a graph that is built of the terms there
\* are, a search with room to spare has every chunk of the subject that mentions a term of the
\* question.  For any terms, texts and questions.
THEOREM DefinitionsAreFoundHolds == OfflineSpec => []DefinitionsAreFound
  <1>1. ASSUME GlossaryInv PROVE Glossary!DefinitionsAreFound
    <2> SUFFICES ASSUME hits # None, hits.index # None, hits.fresh, Len(hits.found) < TopK,
                        NEW c \in Glossary!Chunks, Targets[c].subject \in {hits.query.subject, "general"},
                        NEW t \in DOMAIN hits.index.terms, NEW f \in hits.index.terms[t].forms,
                        Forms[f].length >= 2, Glossary!_contains(hits.query.text, f),
                        Glossary!_contains(Targets[c].text, f)
                 PROVE  c \in Range(hits.found)
      BY GlossaryCounts, Zenon DEF Glossary!DefinitionsAreFound
    <2>1. /\ hits.query \in Queries /\ hits.index = [terms |-> terms, edges |-> Glossary!build_edges(terms)]
          /\ hits.found = Glossary!retrieve(hits.index, hits.query)
          /\ \A u \in DOMAIN terms : u \in DOMAIN Drafts /\ terms[u] = Drafts[u]
      BY <1>1 DEF GlossaryInv
    <2>2. hits.index.terms = terms
      BY <2>1
    <2>3. Glossary!GlossaryAssumption
      BY OfflineAssumption DEF OfflineAssumption
    <2> QED BY <2>1, <2>2, <2>3, DefinedIsCandidate
  <1>2. (part = "glossary" => GlossaryInv) => DefinitionsAreFound
    BY <1>1 DEF DefinitionsAreFound
  <1> QED
    BY <1>2, GlossaryInvariant, PTL
=============================================================================
