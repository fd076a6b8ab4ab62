----------------------------- MODULE PracticeView -----------------------------
(***************************************************************************)
(* The problem page of the browser tab (prototype/app.js) and what the     *)
(* server keeps for it, the attempted problems.  Every button starts a     *)
(* request and the page goes on meanwhile, so that a response may find     *)
(* another problem selected than the one it is about.  The server takes a  *)
(* request as one step: what one user attempts is only ever added to here. *)
(***************************************************************************)
EXTENDS Naturals

CONSTANTS
    Problems, Choices,
    Calls,          \* requests the browser can have open
    MaxClicks,      \* bound on the clicks of the user
    Failing,        \* TRUE: a request may fail, before or after it is served
    None

PracticeViewAssumption ==
    /\ MaxClicks \in Nat
    /\ Failing \in BOOLEAN
    /\ None \notin Problems \cup Choices
    /\ "failed" \notin Problems

VARIABLES
    selected,   \* selectedProblemId
    stem,       \* the problem whose text is on the page, or an error in its place
    board,      \* the problem whose choices are on the page
    choice,     \* selectedAttemptChoice
    verdict,    \* latestAttemptDiagnosis, as problem and graded choice
    answer,     \* the problem whose key problemCorrectAnswer shows
    explain,    \* the problem whose AI walkthrough the verdict panel shows
    attempted,  \* on the server
    clicks,
    call,       \* the requests that are open
    overlapped  \* history: two requests have been open at the same time

page == <<selected, stem, board, choice, verdict, answer, explain, attempted, clicks, call>>
vars == <<page, overlapped>>

MaybeProblem == Problems \cup {None}
Verdict == [problem : Problems, choice : Choices]

\* A call keeps what it was made with.  "attached" says of an ai-explain that the
\* button it was started from is still on the page; "granted" what was answered.
Call == [pc       : {"idle", "sent", "answered"},
         kind     : {"detail", "attempt", "explain"},
         problem  : MaybeProblem,
         choice   : Choices \cup {None},
         attached : BOOLEAN,
         granted  : BOOLEAN]

Idle == [pc |-> "idle", kind |-> "detail", problem |-> None, choice |-> None,
         attached |-> FALSE, granted |-> FALSE]
Asking(kind, p) == [Idle EXCEPT !.pc = "sent", !.kind = kind, !.problem = p]

TypeOK ==
    /\ selected \in Problems
    /\ stem \in MaybeProblem \cup {"failed"}
    /\ board \in MaybeProblem
    /\ choice \in Choices \cup {None}
    /\ verdict \in Verdict \cup {None}
    /\ answer \in MaybeProblem
    /\ explain \in MaybeProblem
    /\ attempted \subseteq Problems
    /\ clicks \in 0 .. MaxClicks
    /\ call \in [Calls -> Call]
    /\ \A c, d \in Calls : call[c].attached /\ call[d].attached => c = d
    /\ \A c \in Calls : call[c].attached => verdict # None /\ explain = None

\* renderProblemFilters has selected the first problem and asked for its text.
Init ==
    /\ selected \in Problems
    /\ stem = None /\ board = None /\ choice = None /\ verdict = None /\ answer = None /\ explain = None
    /\ attempted \in SUBSET Problems
    /\ clicks = 0
    /\ \E c \in Calls :
          call = [x \in Calls |-> IF x = c THEN Asking("detail", selected) ELSE Idle]
    /\ overlapped = FALSE

-----------------------------------------------------------------------------
Click == clicks < MaxClicks /\ clicks' = clicks + 1

\* Replacing the verdict panel takes the button of an open ai-explain off the page.
Detach(calls) == [x \in Calls |-> [calls[x] EXCEPT !.attached = FALSE]]

ClearPanel == verdict' = None /\ explain' = None

\* Mutant: the text is not asked for while a request is open.
SelectWhileOpen(p, c) ==
    /\ Click /\ call[c].pc = "idle"
    /\ selected' = p
    /\ stem' = None /\ board' = None /\ choice' = None /\ answer' = None
    /\ ClearPanel
    /\ call' = IF \E x \in Calls : call[x].pc # "idle"
               THEN Detach(call)
               ELSE [Detach(call) EXCEPT ![c] = Asking("detail", p)]
    /\ UNCHANGED attempted

\* Mutant: the attempt is not reset for the new problem.
SelectKeepsVerdict(p, c) ==
    /\ Click /\ call[c].pc = "idle"
    /\ selected' = p
    /\ stem' = None /\ board' = None /\ choice' = None /\ answer' = None
    /\ call' = [call EXCEPT ![c] = Asking("detail", p)]
    /\ UNCHANGED <<verdict, explain, attempted>>

\* renderSelectedProblemMap
Select(p, c) ==
    /\ Click /\ call[c].pc = "idle"
    /\ selected' = p
    /\ stem' = None /\ board' = None /\ choice' = None /\ answer' = None
    /\ ClearPanel
    /\ call' = [Detach(call) EXCEPT ![c] = Asking("detail", p)]
    /\ UNCHANGED attempted

\* A click on the choice board.
Choose(k) ==
    /\ Click /\ board # None
    /\ choice' = k
    /\ ClearPanel
    /\ call' = Detach(call)
    /\ UNCHANGED <<selected, stem, board, answer, attempted>>

\* resetProblemAttempt, from its button.
Reset ==
    /\ Click
    /\ choice' = None
    /\ ClearPanel
    /\ call' = Detach(call)
    /\ UNCHANGED <<selected, stem, board, answer, attempted>>

\* submitProblemAttemptDiagnosis.  The button stays enabled while it is open.
Submit(c) ==
    /\ Click /\ choice # None /\ call[c].pc = "idle"
    /\ call' = [call EXCEPT ![c] = [Asking("attempt", selected) EXCEPT !.choice = choice]]
    /\ UNCHANGED <<selected, stem, board, choice, verdict, answer, explain, attempted>>

\* The AI button of the panel: it asks about the selected problem.
Explain(c) ==
    /\ Click /\ call[c].pc = "idle"
    /\ verdict # None /\ explain = None
    /\ \A x \in Calls : ~ call[x].attached
    /\ call' = [call EXCEPT ![c] = [Asking("explain", selected) EXCEPT !.attached = TRUE]]
    /\ UNCHANGED <<selected, stem, board, choice, verdict, answer, explain, attempted>>

-----------------------------------------------------------------------------

\* ai_explain answers 403 for a problem the user has not attempted.
Granted(p) == p \in attempted

Serve(c) ==
    /\ call[c].pc = "sent"
    /\ attempted' = IF call[c].kind = "attempt" THEN attempted \cup {call[c].problem}
                                                ELSE attempted
    /\ call' = [call EXCEPT ![c].pc = "answered", ![c].granted = Granted(call[c].problem)]
    /\ UNCHANGED <<selected, stem, board, choice, verdict, answer, explain, clicks>>

\* Mutant: the text is shown whatever is selected.
DeliverAnyDetail(c) ==
    /\ call[c].pc = "answered" /\ call[c].kind = "detail"
    /\ stem' = call[c].problem /\ board' = call[c].problem
    /\ call' = [call EXCEPT ![c] = Idle]
    /\ UNCHANGED <<selected, choice, verdict, answer, explain, attempted, clicks>>

\* The response of renderSelectedProblemMap.
DeliverDetail(c) ==
    /\ call[c].pc = "answered" /\ call[c].kind = "detail"
    /\ IF selected = call[c].problem
       THEN stem' = selected /\ board' = selected
       ELSE UNCHANGED <<stem, board>>
    /\ call' = [call EXCEPT ![c] = Idle]
    /\ UNCHANGED <<selected, choice, verdict, answer, explain, attempted, clicks>>

\* renderAttemptDiagnosis
DeliverVerdict(c) ==
    /\ call[c].pc = "answered" /\ call[c].kind = "attempt"
    /\ verdict' = [problem |-> call[c].problem, choice |-> call[c].choice]
    /\ answer' = call[c].problem
    /\ explain' = None
    /\ call' = [Detach(call) EXCEPT ![c] = Idle]
    /\ UNCHANGED <<selected, stem, board, choice, attempted, clicks>>

\* The response of ai-explain fills the panel its button is in, wherever that is.
DeliverExplain(c) ==
    /\ call[c].pc = "answered" /\ call[c].kind = "explain"
    /\ explain' = IF call[c].attached /\ call[c].granted THEN call[c].problem ELSE explain
    /\ call' = [call EXCEPT ![c] = Idle]
    /\ UNCHANGED <<selected, stem, board, choice, verdict, answer, attempted, clicks>>

\* A failure is a toast, or an error in place of the text of the selected problem;
\* choices that are there stay.
Fail(c) ==
    /\ Failing /\ call[c].pc # "idle"
    /\ stem' = IF call[c].kind = "detail" /\ selected = call[c].problem THEN "failed" ELSE stem
    /\ call' = [call EXCEPT ![c] = Idle]
    /\ UNCHANGED <<selected, board, choice, verdict, answer, explain, attempted, clicks>>

Network(c) == Serve(c) \/ DeliverDetail(c) \/ DeliverVerdict(c) \/ DeliverExplain(c)

Overlap == \E c, d \in Calls : c # d /\ call[c].pc # "idle" /\ call[d].pc # "idle"

Step ==
    \/ \E p \in Problems, c \in Calls : Select(p, c)
    \/ \E k \in Choices : Choose(k)
    \/ Reset
    \/ \E c \in Calls : Submit(c) \/ Explain(c) \/ Network(c) \/ Fail(c)

Next == Step /\ overlapped' = (overlapped \/ Overlap')

Spec == Init /\ [][Next]_vars

\* Requests are answered.
FairSpec == Spec /\ \A c \in Calls : WF_page(Network(c))

-----------------------------------------------------------------------------
(* Properties                                                              *)

\* The text and the choices on the page are those of the selected problem, and no
\* walkthrough is shown for a problem the user has not attempted.
PageOfSelected ==
    /\ TypeOK
    /\ stem \in {None, "failed", selected} /\ board \in {None, selected}
    /\ explain # None => explain \in attempted

\* The text of the problem that stays selected comes, or the reason why it does
\* not: the page does not wait for it for ever.
StemArrives == <>[](stem \in {selected, "failed"})

\* As long as no two requests have been open at the same time, the panel, the
\* answer line and the walkthrough are about the selected problem.
PanelOfSelected ==
    ~overlapped =>
        /\ verdict # None => verdict.problem = selected
        /\ answer # None => answer = selected
        /\ explain # None => verdict # None /\ verdict.problem = explain
=============================================================================
