------------------------------ MODULE ExamPapers ------------------------------
(***************************************************************************)
(* From an official examination paper to the questions the server loads:   *)
(* parse_real_exams.py splits the text of a PDF file,                      *)
(* apply_vision_recovery.py replaces questions whose formulas were lost,   *)
(* load_real_exam_questions of real_exams.py lays the one over the other.  *)
(*                                                                         *)
(* A paper is what the printer and the text layer make of questions with   *)
(* five choices each.  Its text is a sequence of tokens: a line that       *)
(* starts with a number and a point, a circled number with the text after  *)
(* it, the head of data that two questions share, other text.  "of" is     *)
(* the question a token belongs to, which the code cannot see: 0 is the    *)
(* cover, Data the shared data.                                            *)
(***************************************************************************)
EXTENDS Naturals, Sequences, FiniteSets, SequencesExt, FiniteSetsExt

CONSTANTS
    N,          \* questions of a paper
    Papers,     \* [lost, decoys, lists, shared, lossy], see Text
    None

VARIABLES
    paper,
    parsed,     \* <subject>.questions.json: by number, None if not there
    recovered,  \* <subject>.recovered.json
    served      \* what the server has loaded

vars == <<paper, parsed, recovered, served>>

Qs == 1 .. N
Data == 100

Token(kind, n, of) == [kind |-> kind, n |-> n, of |-> of]
Start(n, of) == Token("start", n, of)
Circles(k, of) == [i \in 1 .. k |-> Token("circle", i, of)]

\* Lines within the text of "of" that look like the start of a question.
Decoys(p, of) == [i \in 1 .. Len(p.decoys[of]) |-> Start(p.decoys[of][i], of)]

SharedData(p) == <<Token("shared", p.shared, Data), Token("text", 0, Data)>> \o Decoys(p, Data)

Question(p, q) ==
    (IF q = p.shared THEN SharedData(p) ELSE <<>>)
        \o (IF q \in p.lost THEN <<>> ELSE <<Start(q, q)>>)
        \o <<Token("text", 0, q)>> \o Decoys(p, q) \o Circles(p.lists[q], q) \o Circles(5, q)

Text(p) == <<Token("text", 0, 0)>> \o Decoys(p, 0) \o FlattenSeq([q \in Qs |-> Question(p, q)])
-----------------------------------------------------------------------------
(* _split_questions *)

First(text, from, Holds(_)) ==
    LET there == {i \in from .. Len(text) : Holds(text[i])}
    IN  IF there = {} THEN 0 ELSE Min(there)

SharedHead(text) == First(text, 1, LAMBDA t : t.kind = "shared")

\* The data run from their head to the start of the first question that uses them; if
\* that line is lost, only the head is taken out.
SharedEnd(text) ==
    LET n == text[SharedHead(text)].n
        start == First(text, SharedHead(text) + 1, LAMBDA t : t.kind = "start" /\ t.n = n)
    IN  IF start = 0 THEN SharedHead(text) + 1 ELSE start

\* The text without shared data, and those data.
_extract_shared_blocks(text) ==
    IF SharedHead(text) = 0 THEN [text |-> text, for |-> {}, block |-> <<>>]
    ELSE [text  |-> SubSeq(text, 1, SharedHead(text) - 1) \o SubSeq(text, SharedEnd(text), Len(text)),
          for   |-> {text[SharedHead(text)].n, text[SharedHead(text)].n + 1},
          block |-> SubSeq(text, SharedHead(text), SharedEnd(text) - 1)]

\* Numbers must grow, by a gap of three at most.
filtered(text) ==
    LET expect(starts) == IF starts = <<>> THEN 1 ELSE text[Last(starts)].n + 1
        Take(starts, i) ==
            IF /\ text[i].kind = "start"
               /\ text[i].n \in expect(starts) .. expect(starts) + 3
            THEN Append(starts, i) ELSE starts
    IN  FoldLeft(Take, <<>>, [i \in 1 .. Len(text) |-> i])

\* The part before the first circle, and one from every circle to the next.
_CHOICE_SPLIT(block) ==
    LET circles == SelectSeq([i \in 1 .. Len(block) |-> i], LAMBDA i : block[i].kind = "circle")
        bounds == <<1>> \o circles \o <<Len(block) + 1>>
    IN  [i \in 1 .. Len(circles) + 1 |-> SubSeq(block, bounds[i], bounds[i + 1] - 1)]

InOrder(parts) == \A i \in 1 .. Len(parts) : parts[i][1].n = i

\* Mutant: the first five circles are the choices, as it once was.
first_choices(parts) == SubSeq(parts, 2, IF Len(parts) < 6 THEN Len(parts) ELSE 6)

\* The last five circles, if they are 1 to 5; the first five else.
ChoiceParts(parts) ==
    LET last == SubSeq(parts, Len(parts) - 4, Len(parts))
    IN  IF Len(parts) >= 6 /\ InOrder(last) THEN last ELSE first_choices(parts)

Stem(parts) ==
    LET last == SubSeq(parts, Len(parts) - 4, Len(parts))
    IN  IF Len(parts) >= 6 /\ InOrder(last) THEN FlattenSeq(SubSeq(parts, 1, Len(parts) - 5)) ELSE parts[1]

\* A question by its number; the cover's premises come before every stem and are left out.
_split_questions(whole) ==
    LET shared == _extract_shared_blocks(whole)
        text == shared.text
        starts == filtered(text)
        bounds == Append(starts, Len(text) + 1)
        Parts(i) == _CHOICE_SPLIT(SubSeq(text, bounds[i], bounds[i + 1] - 1))
        number(i) == text[starts[i]].n
        Split(i) ==
            [number |-> number(i),
             stem |-> (IF number(i) \in shared.for THEN shared.block ELSE <<>>) \o Tail(Stem(Parts(i))),
             choices |-> ChoiceParts(Parts(i)),
             split_overflow |-> Len(Parts(i)) > 6]
    IN  {Split(i) : i \in 1 .. Len(starts)}
-----------------------------------------------------------------------------
Init ==
    /\ paper \in Papers
    /\ parsed = [n \in Qs |-> None] /\ recovered = [n \in Qs |-> None] /\ served = None

Record(q, p) ==
    [stem |-> q.stem, choices |-> q.choices, split_overflow |-> q.split_overflow,
     math_lossy |-> q.number \in p.lossy, recovered |-> FALSE]

\* main of parse_real_exams.py: what has not five choices and a stem is left out.
Parse ==
    LET kept == {q \in _split_questions(Text(paper)) : Len(q.choices) = 5 /\ q.stem # <<>>}
    IN  /\ parsed' = [n \in Qs |-> IF \E q \in kept : q.number = n
                                   THEN Record(CHOOSE q \in kept : q.number = n, paper) ELSE None]
        /\ UNCHANGED <<paper, recovered, served>>

\* apply_vision_recovery.py: stem and choices as a reader of the page has seen them, for
\* the questions that were transcribed; the file is written only if there is one.
apply_vision_recovery ==
    \E seen \in SUBSET paper.lossy :
        LET lossy == {n \in seen : parsed[n] # None /\ parsed[n].math_lossy}
        IN  /\ lossy # {}
            /\ recovered' = [n \in Qs |->
                   IF n \in lossy
                   THEN [parsed[n] EXCEPT !.stem = <<Token("text", 0, n)>>, !.math_lossy = FALSE, !.recovered = TRUE,
                                          !.choices = [i \in 1 .. 5 |-> <<Circles(5, n)[i]>>]]
                   ELSE None]
            /\ UNCHANGED <<paper, parsed, served>>

\* real_exams.py: the fields of the recovered question over those of the parsed one.
load_real_exam_questions ==
    /\ served' = [n \in Qs |-> IF parsed[n] # None /\ recovered[n] # None THEN recovered[n] ELSE parsed[n]]
    /\ UNCHANGED <<paper, parsed, recovered>>

Next == Parse \/ apply_vision_recovery \/ load_real_exam_questions

Spec == Init /\ [][Next]_vars
-----------------------------------------------------------------------------
\* Nothing but data lists and shared data disturbs the parser.
Clean(p) == p.lost = {} /\ \A of \in DOMAIN p.decoys : p.decoys[of] = <<>>

Own(n) == {0, n} \cup (IF n \in {paper.shared, paper.shared + 1} THEN {Data} ELSE {})

Faithful(n, r) ==
    /\ r.choices = [i \in 1 .. 5 |-> <<Circles(5, n)[i]>>]
    /\ \A i \in DOMAIN r.stem : r.stem[i].of \in Own(n)

\* A question is served with its own five choices and a stem of its own text, unless it is
\* flagged for review: whatever line was lost or looked like the start of a question.
\* Circled lists and shared data in the stems do no harm: of a clean paper every question
\* is there, and right.
UnflaggedIsThePaper ==
    /\ served # None => \A n \in Qs :
          served[n] # None /\ (served[n].recovered \/ ~served[n].split_overflow) => Faithful(n, served[n])
    /\ Clean(paper) /\ parsed # [n \in Qs |-> None] => \A n \in Qs : parsed[n] # None /\ Faithful(n, parsed[n])
=============================================================================
