------------------------------ MODULE DiagnoseTab ------------------------------
(***************************************************************************)
(* The diagnosis form of the browser tab (prototype/app.js) against a      *)
(* server that takes every request as one atomic step.  An edit starts a   *)
(* timer of 300 ms over again; when it fires the form is sent to           *)
(* POST /diagnose, and the ticket of the request before is marked aborted, *)
(* so that its response is dropped.  The request itself is not cancelled.  *)
(* After a login the saved prescription is fetched, and a new diagnosis is *)
(* sent when there is none.  Requests may overtake each other.             *)
(***************************************************************************)
EXTENDS Naturals

CONSTANTS
    Forms,          \* contents of the form with an active subject
    Empty,          \* the form with no active subject
    Calls,          \* requests the browser can have open
    MaxEdits,       \* bound on the edits and logins of the user
    Failing,        \* TRUE: a request may fail, before or after it is served
    None

DiagnoseTabAssumption ==
    /\ MaxEdits \in Nat
    /\ Failing \in BOOLEAN
    /\ Empty \notin Forms /\ None \notin Forms \cup {Empty} \cup Calls

VARIABLES
    form,       \* what buildPayload reads off the page
    timer,      \* diagnoseTimer is running
    inflight,   \* the call whose ticket inflight holds, while it is open
    latest,     \* the form latestPrescription was made for, None before
    status,     \* the status bar
    saved,      \* on the server: the form of the active prescription
    edits,
    call,       \* the requests that are open
    overlapped  \* history: the page has acted while a request was open

page == <<form, timer, inflight, latest, status, saved, edits, call>>
vars == <<page, overlapped>>

MaybeForm == Forms \cup {None}

Call == [pc      : {"idle", "sent", "answered"},
         kind    : {"diagnose", "hydrate"},
         input   : MaybeForm,       \* what is diagnosed, or what was read
         aborted : BOOLEAN]

Idle == [pc |-> "idle", kind |-> "diagnose", input |-> None, aborted |-> FALSE]
Hydrating == [Idle EXCEPT !.pc = "sent", !.kind = "hydrate"]

TypeOK ==
    /\ form \in Forms \cup {Empty}
    /\ timer \in BOOLEAN
    /\ inflight \in Calls \cup {None}
    /\ latest \in MaybeForm
    /\ status \in {"ready", "loading", "held", "synced", "restored", "failed"}
    /\ saved \in MaybeForm
    /\ edits \in 0 .. MaxEdits
    /\ call \in [Calls -> Call]
    /\ inflight # None => call[inflight].pc # "idle" /\ call[inflight].kind = "diagnose"

\* enterApp after a login, the health check done: the form has its defaults and
\* the saved prescription is being fetched.
Init ==
    /\ form \in Forms
    /\ timer = FALSE
    /\ inflight = None
    /\ latest = None
    /\ status = "ready"
    /\ saved \in MaybeForm
    /\ edits = 0
    /\ \E c \in Calls : call = [x \in Calls |-> IF x = c THEN Hydrating ELSE Idle]
    /\ overlapped = FALSE

-----------------------------------------------------------------------------
\* Mutant: the ticket of the call before is not aborted.
AbortNothing(calls) == calls

\* triggerDiagnose in slot c: the call before is told to drop its response.
Abort(calls) == IF inflight = None THEN calls ELSE [calls EXCEPT ![inflight].aborted = TRUE]

TriggerDiagnose(c) ==
    IF form = Empty
    THEN /\ status' = "held"
         /\ call' = [call EXCEPT ![c] = Idle]
         /\ UNCHANGED inflight
    ELSE /\ call' = [Abort(call) EXCEPT ![c] = [Idle EXCEPT !.pc = "sent", !.input = form]]
         /\ inflight' = c
         /\ status' = "loading"

\* A call that is over holds no ticket any more.
Close(c) ==
    /\ call' = [call EXCEPT ![c] = Idle]
    /\ inflight' = IF inflight = c THEN None ELSE inflight

\* scheduleDiagnose
Edit ==
    /\ edits < MaxEdits
    /\ edits' = edits + 1
    /\ \E f \in (Forms \cup {Empty}) \ {form} : form' = f
    /\ timer' = TRUE
    /\ UNCHANGED <<inflight, latest, status, saved, call>>

TimerFires(c) ==
    /\ timer /\ call[c].pc = "idle"
    /\ timer' = FALSE
    /\ TriggerDiagnose(c)
    /\ UNCHANGED <<form, latest, saved, edits>>

\* enterApp after another login in the same page.  The health check, taken as one
\* step with it, decides whether the saved prescription is fetched.
EnterApp(c) ==
    /\ edits < MaxEdits /\ call[c].pc = "idle"
    /\ edits' = edits + 1
    /\ \/ status' = "ready" /\ call' = [call EXCEPT ![c] = Hydrating]
       \/ Failing /\ status' = "failed" /\ UNCHANGED call
    /\ UNCHANGED <<form, timer, inflight, latest, saved>>

\* The server commits a diagnosis, or reads the active prescription.
Serve(c) ==
    /\ call[c].pc = "sent"
    /\ IF call[c].kind = "diagnose"
       THEN /\ saved' = call[c].input
            /\ call' = [call EXCEPT ![c].pc = "answered"]
       ELSE /\ call' = [call EXCEPT ![c].pc = "answered", ![c].input = saved]
            /\ UNCHANGED saved
    /\ UNCHANGED <<form, timer, inflight, latest, status, edits>>

DeliverDiagnosis(c) ==
    /\ call[c].pc = "answered" /\ call[c].kind = "diagnose"
    /\ IF call[c].aborted
       THEN UNCHANGED <<latest, status>>
       ELSE latest' = call[c].input /\ status' = "synced"
    /\ Close(c)
    /\ UNCHANGED <<form, timer, saved, edits>>

\* Mutant: the status bar says restored and the page keeps what it showed.
RestoreNothing(c) ==
    /\ call[c].pc = "answered" /\ call[c].kind = "hydrate"
    /\ IF call[c].input = None
       THEN TriggerDiagnose(c) /\ UNCHANGED latest
       ELSE /\ status' = "restored"
            /\ Close(c)
            /\ UNCHANGED latest
    /\ UNCHANGED <<form, timer, saved, edits>>

\* hydrateFromPrescription: a 404 starts a diagnosis.
DeliverSaved(c) ==
    /\ call[c].pc = "answered" /\ call[c].kind = "hydrate"
    /\ IF call[c].input = None
       THEN TriggerDiagnose(c) /\ UNCHANGED latest
       ELSE /\ latest' = call[c].input
            /\ status' = "restored"
            /\ Close(c)
    /\ UNCHANGED <<form, timer, saved, edits>>

\* Mutant: a failed diagnosis leaves the status bar alone.
FailSilently(c) ==
    /\ Failing /\ call[c].pc # "idle"
    /\ IF call[c].kind = "diagnose"
       THEN UNCHANGED status /\ Close(c)
       ELSE TriggerDiagnose(c)
    /\ UNCHANGED <<form, timer, latest, saved, edits>>

\* The request or its response is lost: the catch branches do not ask for the
\* ticket, and a failed hydration starts a diagnosis.
Fail(c) ==
    /\ Failing /\ call[c].pc # "idle"
    /\ IF call[c].kind = "diagnose"
       THEN status' = "failed" /\ Close(c)
       ELSE TriggerDiagnose(c)
    /\ UNCHANGED <<form, timer, latest, saved, edits>>

Network(c) == Serve(c) \/ DeliverDiagnosis(c) \/ DeliverSaved(c)

\* Two requests are open, or the form was held while one was.
Overlap ==
    \/ \E c, d \in Calls : c # d /\ call[c].pc # "idle" /\ call[d].pc # "idle"
    \/ status = "held" /\ \E c \in Calls : call[c].pc # "idle"

Step == Edit \/ \E c \in Calls : TimerFires(c) \/ EnterApp(c) \/ Network(c) \/ Fail(c)

Next == Step /\ overlapped' = (overlapped \/ Overlap')

Spec == Init /\ [][Next]_vars

\* The timer fires and requests are answered.
FairSpec ==
    /\ Spec
    /\ WF_page(\E c \in Calls : TimerFires(c))
    /\ \A c \in Calls : WF_page(Network(c))

-----------------------------------------------------------------------------
(* Properties                                                              *)

\* A response of a diagnosis that arrives while a later one is open is dropped.
OlderIsDropped ==
    \A c, d \in Calls :
        /\ call[c].kind = "diagnose" /\ call[c].pc = "answered" /\ call'[c].pc = "idle"
        /\ d # c /\ inflight = d
        => latest' = latest

NoOlderDiagnosis == [][OlderIsDropped]_vars

\* The page does not say for ever that it is diagnosing.
LoadingEnds == []<>(status # "loading")

(* What holds as long as the page has done one thing after another.        *)

Quiet == ~overlapped /\ ~timer /\ \A c \in Calls : call[c].pc = "idle"

\* When the page is at rest, what the status bar says is true: "synchronised" means
\* that the prescription on the page is that of the form, and, as "saved
\* prescription restored", that it is the active one on the server.
StatusIsTrue ==
    /\ TypeOK
    /\ Quiet /\ status = "synced" => latest = form
    /\ Quiet /\ status \in {"synced", "restored"} => saved = latest
=============================================================================
