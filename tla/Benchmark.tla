------------------------------ MODULE Benchmark ------------------------------
(***************************************************************************)
(* cpa_first/benchmark/runner.py with the solvers it may be given: one     *)
(* question after the other is solved and graded, and the grades are added *)
(* up into a report.                                                       *)
(*                                                                         *)
(* A question is [subject, unit, difficulty, choices (their number),       *)
(* correct_choice, flagged, traps].  What a language model writes is       *)
(* reduced to what the code looks for in it: [said, cites, insufficient],  *)
(* the number after "ANSWER:" (None if there is none), the citations and   *)
(* the words INSUFFICIENT EVIDENCE.  Accuracies are kept as fractions.     *)
(***************************************************************************)
EXTENDS Integers, Sequences, FiniteSets, FiniteSetsExt, SequencesExt, Containers

CONSTANTS
    Commands,       \* command lines: [mode, backend, backends]
    Environments,   \* CPA_SOLVER_MODE, CPA_LLM_BACKEND and CPA_LLM_ROUTES
    Banks,          \* lists of evaluation questions
    Texts,          \* what a language model may write
    None

Written == [said : Nat \cup {None}, cites : Nat, insufficient : BOOLEAN]

\* The command line knows four modes and three backends, but takes any list of backends.
BenchmarkAssumption ==
    /\ None \notin Nat
    /\ Texts \subseteq Written
    /\ \A c \in Commands :
          c.mode \in {None, "reasoned", "mock", "stub", "live"} /\ c.backends \in Seq(STRING)
    /\ \A b \in Banks :
          /\ b \in Seq(Range(b))
          /\ \A q \in Range(b) : /\ q.choices \in Nat /\ q.correct_choice \in Nat
                               /\ q.flagged \in BOOLEAN /\ q.subject # None

VARIABLES
    bank,
    command, environment,
    solver,     \* the solver that was made
    scores,     \* of the questions solved so far
    answers,    \* what the backends have said to each of them
    report,
    pc

vars == <<bank, command, environment, solver, scores, answers, report, pc>>

Init ==
    /\ bank \in Banks
    /\ command \in Commands
    /\ environment \in Environments
    /\ solver = None
    /\ scores = <<>> /\ answers = <<>>
    /\ report = None
    /\ pc = "create"
-----------------------------------------------------------------------------
(* create_solver: a call names a mode, a backend or several *)

\* a or b
OrElse(a, b) == IF a # None THEN a ELSE b

\* RoutingSolver: a backend per subject, and one for the rest.
create_routing_solver(routes, default) ==
    [kind |-> "routing", routes |-> routes,
     default |-> OrElse(default, OrElse(environment.backend, "ollama"))]

\* A solver of one backend is one that routes nothing.
Single(backend) ==
    [kind |-> "live", routes |-> <<>>,
     default |-> OrElse(backend, OrElse(environment.backend, "anthropic"))]

create_live(backend) ==
    IF environment.routes # <<>> THEN create_routing_solver(environment.routes, backend)
    ELSE Single(backend)

create_ensemble_solver(backends) ==
    [kind |-> "ensemble", members |-> [i \in DOMAIN backends |-> create_live(backends[i])]]

\* Solver.solve raises an exception in a mode that is none of these.
Modes == {"reasoned", "mock", "stub"}

create_solver(mode, backend, backends) ==
    LET resolved == OrElse(mode, OrElse(environment.mode, "reasoned"))
    IN  CASE Len(backends) >= 2 -> create_ensemble_solver(backends)
          [] Len(backends) < 2 /\ resolved = "live" -> create_live(backend)
          [] OTHER -> [kind |-> IF resolved \in Modes THEN resolved ELSE "unknown"]

\* The command line asks for an ensemble, a backend, a mode or the default.
Solver(c) ==
    CASE c.backends # <<>> -> create_solver(None, None, c.backends)
      [] c.backends = <<>> /\ c.backend # None -> create_solver("live", c.backend, <<>>)
      [] OTHER -> create_solver(c.mode, None, <<>>)

\* The solvers a question may be passed on to, each with one backend for the question.
Members(s) ==
    CASE s.kind = "ensemble" -> s.members
      [] s.kind \in {"routing", "live"} -> <<s>>
      [] OTHER -> <<>>

backend_of(member, subject) ==
    IF subject \in DOMAIN member.routes THEN member.routes[subject] ELSE member.default

\* make_invoke knows these.
Backends == {"codex", "ollama", "anthropic"}
Named(s) == UNION {{m.default} \cup Range(m.routes) : m \in Range(Members(s))}

Create ==
    /\ pc = "create"
    /\ solver' = Solver(command)
    /\ pc' = IF ~(Named(solver') \subseteq Backends) THEN "unknown"
             ELSE IF bank = <<>> THEN "no questions" ELSE "solve"
    /\ UNCHANGED <<bank, command, environment, scores, answers, report>>
-----------------------------------------------------------------------------
(* The backends: an exception, or a text.                                  *)

Raised == [raised |-> TRUE]

\* codex exec: its last message, or what it printed; an exit code counts only when it
\* has said nothing.
codex_invoke(found, timely, message, stdout, returncode) ==
    CASE ~found \/ ~timely -> Raised
      [] found /\ timely /\ message # None -> message
      [] OTHER -> IF stdout = None /\ returncode # 0 THEN Raised
                  ELSE OrElse(stdout, [said |-> None, cites |-> 0, insufficient |-> FALSE])

\* Three attempts: any number of errors that may pass, and then an answer or an error.
_call_anthropic(errors, text) == IF errors >= 3 THEN Raised ELSE text

ollama_invoke(ok, text) == IF ok THEN text ELSE Raised

Replies(backend) ==
    CASE backend = "codex" ->
            {codex_invoke(f, t, m, s, rc) :
                f \in BOOLEAN, t \in BOOLEAN, m \in Texts \cup {None}, s \in Texts \cup {None},
                rc \in {0, 1}}
      [] backend = "anthropic" -> {_call_anthropic(n, t) : n \in 0 .. 3, t \in Texts}
      [] backend = "ollama" -> {ollama_invoke(ok, t) : ok \in BOOLEAN, t \in Texts}

_extract_answer_index(text, q) ==
    IF text.said # None /\ text.said < q.choices THEN text.said ELSE -1

_solve_live(q, text) ==
    [chosen |-> _extract_answer_index(text, q), said |-> text.said, cites |-> text.cites,
     insufficient |-> text.insufficient, unanimous |-> FALSE]
-----------------------------------------------------------------------------
(* The solvers *)

\* Mutant: an abstention is a vote like any other.
all_votes(chosen) == chosen

votes(chosen) == Selected(chosen, Nat)

Count(seq, x) == Cardinality({i \in DOMAIN seq : seq[i] = x})

\* The answer with most votes; of several the one of the strongest backend.
EnsembleSolver(chosen) ==
    LET vs == votes(chosen)
        top == Max({Count(vs, v) : v \in Range(vs)})
        tied == {v \in Range(vs) : Count(vs, v) = top}
        first == Min({i \in DOMAIN chosen : chosen[i] \in tied})
    IN  IF vs = <<>> THEN [chosen |-> -1, agreement |-> <<0, 1>>, unanimous |-> FALSE]
        ELSE [chosen |-> chosen[first], agreement |-> <<top, Len(vs)>>,
              unanimous |-> Cardinality(Range(vs)) = 1 /\ Len(vs) = Len(chosen)]

\* The rationale of an ensemble holds an ANSWER line or INSUFFICIENT EVIDENCE.
Verdict(said, q) ==
    LET e == EnsembleSolver([i \in DOMAIN said |-> _extract_answer_index(said[i], q)])
    IN  [chosen |-> e.chosen, said |-> IF e.chosen >= 0 THEN e.chosen ELSE None, cites |-> 0,
         insufficient |-> e.chosen < 0, unanimous |-> e.unanimous]

\* The backends a question goes to.
Asked(q) == [i \in DOMAIN Members(solver) |-> backend_of(Members(solver)[i], q.subject)]

Error == [chosen |-> -1, said |-> None, cites |-> 0, insufficient |-> FALSE, unanimous |-> FALSE]

\* Any exception of a solver, one member of an ensemble included, is the answer -1.
Result(q, said) ==
    CASE \E i \in DOMAIN said : said[i] = Raised -> Error
      [] OTHER -> IF solver.kind = "ensemble" THEN Verdict(said, q) ELSE _solve_live(q, said[1])

\* The rules say their answer as a language model does; mock and stub do not.
OfflineResult(chosen) ==
    IF solver.kind = "reasoned"
    THEN [Error EXCEPT !.chosen = chosen, !.said = IF chosen >= 0 THEN chosen ELSE None,
                       !.insufficient = chosen < 0]
    ELSE [Error EXCEPT !.chosen = chosen]

\* What a solver without a language model may answer: mock always picks a choice.
Answers(q) ==
    CASE solver.kind = "stub" -> {0}
      [] solver.kind = "mock" -> 0 .. q.choices - 1
      [] OTHER -> -1 .. q.choices - 1
-----------------------------------------------------------------------------
(* Grading *)

\* A trap is hit when words of it are in the choice that was made: traps is the set of
\* those choices, None where the question has no traps.
_attractor_hit(q, chosen, correct) ==
    CASE q.traps = None -> None
      [] OTHER -> ~correct /\ chosen \in 0 .. q.choices - 1 /\ chosen \in q.traps

grade(q, result) ==
    LET correct == result.chosen = q.correct_choice
    IN  [subject |-> q.subject, difficulty |-> q.difficulty, unit |-> q.unit, correct |-> correct,
         chosen |-> result.chosen, cites |-> result.cites, insufficient |-> result.insufficient,
         parsed |-> result.said # None /\ result.chosen >= 0,
         hit |-> _attractor_hit(q, result.chosen, correct), flagged |-> q.flagged,
         unanimous |-> result.unanimous]

Question == bank[Len(scores) + 1]
More == pc = "solve" /\ Len(scores) < Len(bank)

Graded(result, said) ==
    /\ scores' = Append(scores, grade(Question, result))
    /\ answers' = Append(answers, said)
    /\ UNCHANGED <<bank, command, environment, solver, report, pc>>

\* Mutant: the exception is passed over and the result of the question before is graded.
SolveWithLast ==
    /\ More
    /\ Asked(Question) # <<>>
    /\ \E said \in [DOMAIN Asked(Question) -> UNION {Replies(b) : b \in Range(Asked(Question))}] :
         /\ \A i \in DOMAIN said : said[i] \in Replies(Asked(Question)[i])
         /\ Graded(IF \E i \in DOMAIN said : said[i] = Raised /\ scores # <<>>
                   THEN OfflineResult(Last(scores).chosen)
                   ELSE Result(Question, said), said)

Solve ==
    /\ More
    /\ Asked(Question) # <<>>
    /\ \E said \in [DOMAIN Asked(Question) -> UNION {Replies(b) : b \in Range(Asked(Question))}] :
         /\ \A i \in DOMAIN said : said[i] \in Replies(Asked(Question)[i])
         /\ Graded(Result(Question, said), said)

SolveUnknown ==
    /\ More
    /\ solver.kind = "unknown"
    /\ Graded(Error, <<Raised>>)

SolveOffline ==
    /\ More
    /\ solver.kind \in Modes
    /\ \E chosen \in Answers(Question) :
         Graded(OfflineResult(chosen), <<[said |-> chosen]>>)

Tally(group) ==
    [total |-> Len(group), correct |-> Len(Selected(group, {s \in Range(group) : s.correct}))]

\* _group_accuracy: questions without the key are in no group.
_group_accuracy(group, key) ==
    [k \in Range(key) \ {None} |-> Tally(Selected(group, {s \in Range(group) : key[s] = k}))]

AtLeast(tally, percent) == 100 * tally.correct >= percent * tally.total

_pass_status(per_subject, overall) ==
    LET subject_pass == [s \in DOMAIN per_subject |-> AtLeast(per_subject[s], 40)]
    IN  AtLeast(overall, 60) /\ \A s \in DOMAIN subject_pass : subject_pass[s]

_compute_quality_metrics(group) ==
    LET HowMany(S) == Len(Selected(group, S))
        trapped == {s \in Range(group) : ~s.correct /\ s.hit # None}
    IN  [parsed |-> HowMany({s \in Range(group) : s.parsed}),
         insufficient |-> HowMany({s \in Range(group) : s.insufficient}),
         cited |-> HowMany({s \in Range(group) : s.cites > 0}),
         trapped |-> HowMany(trapped),
         hits |-> HowMany({s \in trapped : s.hit})]

graded == Selected(scores, {s \in Range(scores) : ~s.flagged})

Summary ==
    LET per_subject == _group_accuracy(graded, [s \in Range(graded) |-> s.subject])
    IN  [overall |-> Tally(graded),
         per_subject |-> per_subject,
         per_difficulty |-> _group_accuracy(graded, [s \in Range(graded) |-> s.difficulty]),
         per_unit |-> _group_accuracy(graded, [s \in Range(graded) |-> <<s.subject, s.unit>>]),
         would_pass |-> _pass_status(per_subject, Tally(graded)),
         quality |-> _compute_quality_metrics(graded),
         excluded |-> Len(scores) - Len(graded)]

Report ==
    /\ pc = "solve" /\ Len(scores) = Len(bank)
    /\ IF graded = <<>>
       THEN pc' = "nothing to grade" /\ UNCHANGED report
       ELSE pc' = "done" /\ report' = Summary
    /\ UNCHANGED <<bank, command, environment, solver, scores, answers>>

Next == Create \/ Solve \/ SolveOffline \/ SolveUnknown \/ Report

Spec == Init /\ [][Next]_vars
-----------------------------------------------------------------------------
(* What a report owes to the bank and to what was said. *)

\* What the code takes for the answer to question i, from what was said to it: nothing
\* when a backend has raised an exception or the number is not one of a choice.
Spoken(i, j) == _extract_answer_index(answers[i][j], bank[i])
Failed(i) == \E j \in DOMAIN answers[i] : answers[i][j] = Raised
Right(i) == ~Failed(i) /\ scores[i].chosen = bank[i].correct_choice

\* The report counts every question that is not flagged once, in its subject, and no
\* other; a question is right only if a backend has said the key of that question in
\* this run: an exception, a number out of range and the answer to another question
\* are never right.  The pass mark is that of the counts.
ReportIsTrue ==
    pc = "done" =>
        LET counted == {i \in DOMAIN bank : ~bank[i].flagged}
            right == {i \in counted : Right(i)}
            Of(S, s) == Cardinality({i \in S : bank[i].subject = s})
        IN  /\ report.overall = [total |-> Cardinality(counted), correct |-> Cardinality(right)]
            /\ \A s \in {bank[i].subject : i \in counted} :
                  report.per_subject[s] = [total |-> Of(counted, s), correct |-> Of(right, s)]
            /\ \A i \in right : \E j \in DOMAIN answers[i] : answers[i][j].said = bank[i].correct_choice
            /\ report.would_pass <=>
                  /\ 5 * Cardinality(right) >= 3 * Cardinality(counted)
                  /\ \A i \in counted :
                        5 * Of(right, bank[i].subject) >= 2 * Of(counted, bank[i].subject)
            /\ report.quality.hits <= report.quality.trapped
            /\ report.quality.trapped + Cardinality(right) <= Cardinality(counted)

\* An ensemble says what most of its members say that say anything, and of several
\* such answers the one of the member named first; it calls itself unanimous only if
\* all members have said that.
EnsembleFollowsVotes ==
    solver # None /\ solver.kind = "ensemble" =>
        \A i \in DOMAIN scores : ~Failed(i) =>
            LET who(a) == {j \in DOMAIN answers[i] : Spoken(i, j) = a}
                chosen == scores[i].chosen
            IN  IF who(-1) = DOMAIN answers[i] THEN chosen = -1
                ELSE /\ chosen # -1
                     /\ \A a \in 0 .. bank[i].choices - 1 :
                          \/ Cardinality(who(a)) < Cardinality(who(chosen))
                          \/ a = chosen
                          \/ /\ Cardinality(who(a)) = Cardinality(who(chosen))
                             /\ Min(who(chosen)) < Min(who(a))
                     /\ scores[i].unanimous <=> who(chosen) = DOMAIN answers[i]

\* solver.py:101-102 and test_routing.py:73: routes of the environment do not override
\* the backends that are named for an ensemble; each member asks its own.
MembersAreNamed ==
    solver # None /\ solver.kind = "ensemble" =>
        \A i \in DOMAIN bank : Asked(bank[i]) = command.backends
=============================================================================
