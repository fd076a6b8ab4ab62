--------------------------- MODULE EvalGeneration ---------------------------
(***************************************************************************)
(* The generation of evaluation questions: scripts/generate_eval_set.py    *)
(* with cpa_first/eval_gen.  A run asks a language model for questions,    *)
(* has each one reviewed and, with a second model, solved blind, and       *)
(* writes what is left into a directory under the next free number.        *)
(*                                                                         *)
(* Runs are processes of their own that share the directory and nothing    *)
(* else: they interleave at every call of the file system and of a model.  *)
(* A question is a function from the fields it has; the text of a choice   *)
(* is a pair of its words and its spacing.                                 *)
(***************************************************************************)
EXTENDS Integers, Sequences, FiniteSets, FiniteSetsExt, SequencesExt, Containers

CONSTANTS
    Runs,
    Specs,          \* what --items of each run may say: sequences of entries
    SUBJECTS,       \* the subjects of cpa_first.subjects
    Matched,        \* subjects _ID_PATTERN matches: small letters and underscores
    Batches,        \* lists of questions a model may write
    Patches,        \* bodies a reviewer may revise a question with
    CrossChecked,   \* the runs with a second model
    MaxRetries,     \* max_retries of the Anthropic client, 6 in the code
    MaxNumber,      \* the number of questions the runs may write
    Kills,          \* runs may be killed
    None

\* Lists are lists, and the two fields of a question that record what the second
\* model was shown are not among those that the first one writes.
GenerationAssumption ==
    /\ \A r \in Runs : \A spec \in Specs[r] : spec \in Seq(Range(spec))
    /\ \A batch \in Batches :
          /\ batch \in Seq(Range(batch))
          /\ \A q \in Range(batch) :
                /\ DOMAIN q \cap {"shown", "chosen"} = {}
                /\ "choices" \in DOMAIN q /\ q.choices # None => q.choices \in Seq(Range(q.choices))
    /\ \A patch \in Patches : DOMAIN patch \cap {"shown", "chosen"} = {}

VARIABLES
    files,      \* the directory: the content of each name that is there
    run,        \* the state of each run
    raced       \* two runs have looked for a number of one subject together

vars == <<files, run, raced>>

There(name) == name \in DOMAIN files
Torn == <<>>        \* opened for writing, not yet or only partly written

Idle == [pc |-> "idle", plan |-> <<>>, tries |-> 0, calls |-> 0, queue |-> <<>>,
         question |-> <<>>, patch |-> <<>>, number |-> 0, written |-> <<>>]

Init ==
    /\ files = <<>>
    /\ run = [r \in Runs |-> Idle]
    /\ raced = FALSE

Fields(q) == DOMAIN q
Get(q, f) == IF f \in Fields(q) THEN q[f] ELSE None
-----------------------------------------------------------------------------
(* parse_items: all entries or an error *)

DIFFICULTIES == {"easy", "mid", "hard"}

WellFormed(e) ==
    /\ e.parts \in {3, 4}
    /\ e.subject \in SUBJECTS
    /\ e.unit # ""
    /\ e.difficulty \in DIFFICULTIES
    /\ e.parts = 4 => e.count \in Nat \ {0}

GenItem(e) ==
    [subject |-> e.subject, count |-> IF e.parts = 4 THEN e.count ELSE 1]

ParseError(spec) == spec = <<>> \/ \E i \in DOMAIN spec : ~WellFormed(spec[i])
parse_items(spec) == [i \in DOMAIN spec |-> GenItem(spec[i])]
-----------------------------------------------------------------------------
(* generate_batch: the questions of a reply that can be used *)

_norm_choice(text) == text[1]

\* choices.index(target): the first of them, counted from 0.
IndexOf(choices, text) ==
    Min({i \in DOMAIN choices : _norm_choice(choices[i]) = _norm_choice(text)}) - 1

Listed(choices, text) == \E i \in DOMAIN choices : _norm_choice(choices[i]) = _norm_choice(text)

Dropped(q) ==
    LET answer == Get(q, "correct_answer")
    IN  answer # None /\ ~Listed(q.choices, answer)

reconcile_correct_choice(q) ==
    LET answer == Get(q, "correct_answer")
    IN  IF answer = None THEN q
        ELSE [q EXCEPT !.correct_choice = IndexOf(q.choices, answer)]

\* setdefault fills what is missing, a null it leaves alone.
_hydrate(q, item) ==
    Over([review_status |-> "ai_draft"], Over(q, [subject |-> item.subject]))

Usable(q) ==
    /\ Get(q, "choices") \notin {None, <<>>}
    /\ "correct_choice" \in Fields(q)
    /\ ~Dropped(q)

UsableQuestions(batch, item) ==
    LET used == Selected(batch, {q \in Range(batch) : Usable(q)})
    IN  [i \in DOMAIN used |-> _hydrate(reconcile_correct_choice(used[i]), item)]
-----------------------------------------------------------------------------
(* run_plan *)

\* run[r] = {**run[r], **fields}
To(r, fields) == \E f \in {fields} : run' = [run EXCEPT ![r] = Over(f, run[r])]

\* The process has ended; what it has written stays.
Abort(r) == [Idle EXCEPT !.pc = "aborted", !.written = run[r].written]

\* The next question of the batch, or the next item of the plan.
Advance(r, rest) ==
    IF rest # <<>>
    THEN [pc |-> "review", queue |-> rest, question |-> Head(rest), patch |-> <<>>, calls |-> 0]
    ELSE [pc |-> IF Len(run[r].plan) = 1 THEN "done" ELSE "generate",
          plan |-> Tail(run[r].plan), queue |-> <<>>, question |-> <<>>, patch |-> <<>>,
          tries |-> 0, calls |-> 0]

Start(r) ==
    /\ run[r].pc = "idle"
    /\ \E spec \in Specs[r] :
         To(r, IF ParseError(spec) THEN [pc |-> "usage"]
               ELSE [pc |-> "generate", plan |-> parse_items(spec)])
    /\ UNCHANGED files

\* invoke of the Anthropic client tries again after 429, 5xx and lost connections.
Overloaded(r) ==
    /\ run[r].pc \in {"generate", "review"}
    /\ To(r, IF run[r].calls < MaxRetries THEN [calls |-> run[r].calls + 1]
             ELSE Abort(r))
    /\ UNCHANGED files

\* Any other exception ends run_plan, as does every one of the second model's.
Raises(r) ==
    /\ run[r].pc \in {"generate", "review", "solve"}
    /\ To(r, Abort(r))
    /\ UNCHANGED files

\* Mutant: the second attempt is not counted.
generate_batch_again(r) ==
    /\ run[r].pc = "generate"
    /\ \E batch \in Batches :
         LET item == Head(run[r].plan)
             questions == UsableQuestions(batch, item)
             taken == SubSeq(questions, 1, Min({item.count, Len(questions)}))
         IN  To(r, IF questions # <<>> THEN Advance(r, taken)
                   ELSE [tries |-> 1 - run[r].tries, calls |-> 0])
    /\ UNCHANGED files

generate_batch(r) ==
    /\ run[r].pc = "generate"
    /\ \E batch \in Batches :
         LET item == Head(run[r].plan)
             questions == UsableQuestions(batch, item)
             taken == SubSeq(questions, 1, Min({item.count, Len(questions)}))
         IN  To(r, CASE questions # <<>> -> Advance(r, taken)
                     [] questions = <<>> /\ run[r].tries = 0 -> [tries |-> 1, calls |-> 0]
                     [] OTHER -> Advance(r, <<>>))
    /\ UNCHANGED files

Revised(q, patch) == Over(patch, q)

\* write_question needs a subject.
Write(q, patch, flag) ==
    LET verdict ==
            [review_status |-> IF patch = <<>> THEN "ai_draft_verified" ELSE "ai_draft_revised",
             flagged_questionable |-> flag \/ Get(q, "flagged_questionable") = TRUE]
        merged == Over(verdict, Revised(q, patch))
    IN  [pc |-> IF Get(merged, "subject") = None THEN "aborted" ELSE "number",
         question |-> merged]

\* The reviewer's reply: nothing that can be parsed, a verdict of another name, "reject"
\* and "revise" without a body all drop the question.
Reject(r) ==
    /\ run[r].pc = "review"
    /\ To(r, Advance(r, Tail(run[r].queue)))
    /\ UNCHANGED files

\* "approve", or "revise" with a body, which may be an empty one.
Accept(r) ==
    /\ run[r].pc = "review"
    /\ \E patch \in Patches \cup {<<>>} :
         To(r, IF r \in CrossChecked THEN [pc |-> "solve", patch |-> patch]
               ELSE Write(run[r].question, patch, FALSE))
    /\ UNCHANGED files

\* Mutant: the second model is shown the question as it was before its revision.
solve_unrevised(q, patch) == q

\* The question the second model is shown.
target(q, patch) == Revised(q, patch)

cross_check_question(r) ==
    /\ run[r].pc = "solve"
    /\ LET q == run[r].question
           patch == run[r].patch
           shown == target(q, patch)
       IN  \E chosen \in -1 .. Len(shown.choices) - 1 :
             LET passed == chosen >= 0 /\ chosen = shown.correct_choice
                 seen == [shown |-> shown.choices, chosen |-> chosen]
             IN  To(r, Write(Over(seen, q), patch, ~passed))
    /\ UNCHANGED files
-----------------------------------------------------------------------------
(* write_question *)

Subject(r) == run[r].question.subject
Name(r) == <<Subject(r), run[r].number>>

\* Names the pattern does not match are not counted.
next_question_id(s) ==
    1 + Max({0} \cup {n \in 1 .. MaxNumber : s \in Matched /\ There(<<s, n>>)})

Number(r) ==
    /\ run[r].pc = "number"
    /\ next_question_id(Subject(r)) <= MaxNumber
    /\ To(r, [pc |-> "exists", number |-> next_question_id(Subject(r))])
    /\ UNCHANGED files

\* Mutant: whoever has a number writes.
ExistsIsNotAsked(r) ==
    /\ run[r].pc = "exists"
    /\ To(r, [pc |-> "open"])
    /\ UNCHANGED files

Exists(r) ==
    /\ run[r].pc = "exists"
    /\ To(r, [pc |-> IF There(Name(r)) THEN "touch" ELSE "open"])
    /\ UNCHANGED files

\* The directory with a content under the run's name.
Put(r, content) == Over([n \in {Name(r)} |-> content], files)

\* touch() leaves a file that exists as it is.
Touch(r) ==
    /\ run[r].pc = "touch"
    /\ files' = IF There(Name(r)) THEN files ELSE Put(r, Torn)
    /\ To(r, [pc |-> "number"])

\* open("w") truncates.
Open(r) ==
    /\ run[r].pc = "open"
    /\ files' = Put(r, Torn)
    /\ To(r, [pc |-> "dump"])

Dump(r) ==
    /\ run[r].pc = "dump"
    /\ files' = Put(r, run[r].question)
    /\ To(r, Over([written |-> Append(run[r].written, <<Name(r), run[r].question>>)],
                  Advance(r, Tail(run[r].queue))))

Ended == {"done", "usage", "aborted"}

Kill(r) ==
    /\ Kills
    /\ run[r].pc \notin Ended \cup {"idle"}
    /\ To(r, Abort(r))
    /\ UNCHANGED files

Step(r) ==
    \/ Start(r) \/ Overloaded(r) \/ Raises(r)
    \/ generate_batch(r) \/ Reject(r) \/ Accept(r) \/ cross_check_question(r)
    \/ Number(r) \/ Exists(r) \/ Touch(r) \/ Open(r) \/ Dump(r)

\* Between the reading of the directory and the creation of the file.
Looking(r) == run[r].pc \in {"exists", "touch", "open"}
Race == \E r, s \in Runs : r # s /\ Looking(r) /\ Looking(s) /\ Subject(r) = Subject(s)

Next ==
    /\ \E r \in Runs : Step(r) \/ Kill(r)
    /\ raced' = (raced \/ Race')

Spec == Init /\ [][Next]_vars

\* A run that is not killed goes on; its calls are answered or time out.
FairSpec == Spec /\ \A r \in Runs : WF_<<files, run>>(Step(r))
-----------------------------------------------------------------------------
(* What every call of it leaves in the directory. *)

\* The key of a stored question has been checked: where its body is the generator's
\* and names its answer, the key points at a choice with those words; and where the
\* second model was asked, it has been shown the choices that are stored and has
\* chosen the key that is stored, or the question is flagged.  Repairs, revisions,
\* the flag and the write each handle another copy of the question.
KeyNamesAnswer(q) ==
    Get(q, "correct_answer") # None =>
        /\ q.correct_choice + 1 \in DOMAIN q.choices
        /\ _norm_choice(q.choices[q.correct_choice + 1]) = _norm_choice(q.correct_answer)

KeyWasChosen(q) ==
    "shown" \in Fields(q) /\ ~q.flagged_questionable =>
        /\ q.shown = q.choices
        /\ q.chosen = q.correct_choice

StoredKeysAreChecked ==
    \A n \in DOMAIN files :
        LET q == files[n]
        IN  q # Torn =>
                /\ q.review_status = "ai_draft_verified" => KeyNamesAnswer(q)
                /\ KeyWasChosen(q)

\* What a run has reported as written is in the directory under its name, whatever
\* other runs write, abort or leave torn behind them, as long as no two of them look
\* for a number of one subject at the same time.
WrittenStays ==
    ~raced => \A r \in Runs : \A i \in DOMAIN run[r].written :
                 LET w == run[r].written[i] IN There(w[1]) /\ files[w[1]] = w[2]

\* A run ends: with its plan done or with an exception, unless it has to write a
\* second question of a subject that the pattern of the names does not match.
RunsEnd ==
    \A r \in Runs :
        run[r].pc = "generate" ~> \/ run[r].pc \in Ended
                                  \/ /\ run[r].pc \in {"number", "exists", "touch"}
                                     /\ Subject(r) \notin Matched

\* writer.py:53-54: a number that is taken is passed over at the next turn of the loop,
\* because the file that was touched is counted.
WritesEnd ==
    \A r \in Runs : run[r].pc = "number" ~> run[r].pc \notin {"number", "exists", "touch"}
=============================================================================
