-------------------------------- MODULE Server --------------------------------
(***************************************************************************)
(* The tables of the API server that the handlers of a learner and of a    *)
(* reviewer change, and its solver.  No handler uses two of them, so one   *)
(* part moves in a behaviour, and the variables of the others stay at the  *)
(* initial state of theirs.                                                *)
(***************************************************************************)
EXTENDS LearnerRecords

CONSTANTS
    Writers, Readers, Columns, Values, Pids, PidOf, MaxDiagnoses, StateRow,
    Refs, Statuses, Reviewers, SeedStatus, ReviewSlots, MaxReviews,
    Callers, Configured

VARIABLES
    part,
    state, rx, rxLock, rxStarted, rxReq, rxOverlapped,
    override, reviewLock, trail, given, reviews, reviewReq, reviewOverlapped,
    backend, ai_solver, aiLock, created, pc, solver, aiAnswer

Rx == INSTANCE Prescriptions WITH
    lock <- rxLock, started <- rxStarted, req <- rxReq, overlapped <- rxOverlapped

Rev == INSTANCE ReviewOverrides WITH
    Slots <- ReviewSlots,
    lock <- reviewLock, started <- reviews, req <- reviewReq, overlapped <- reviewOverlapped

Ai == INSTANCE AiExplain WITH Requests <- Callers, lock <- aiLock, answer <- aiAnswer

server == <<state, rx, rxLock, rxStarted, rxReq>>
rxs == <<server, rxOverlapped>>
rev == <<override, reviewLock, trail, given, reviews, reviewReq, reviewOverlapped>>
ai == <<backend, ai_solver, aiLock, created, pc, solver, aiAnswer>>
allVars == <<part, rxs, vars, rev, ai>>

ASSUME ServerAssumption ==
    Rx!PrescriptionsAssumption /\ LearnerRecordsAssumption /\ Rev!ReviewOverridesAssumption
    /\ Ai!AiExplainAssumption

-----------------------------------------------------------------------------
ServerInit ==
    /\ part \in {"rx", "records", "reviews", "explain"}
    /\ Rx!Init /\ Init /\ Rev!Init /\ Ai!Init

ServerNext ==
    \/ part = "rx" /\ Rx!Next /\ UNCHANGED <<part, vars, rev, ai>>
    \/ part = "records" /\ Next /\ UNCHANGED <<part, rxs, rev, ai>>
    \/ part = "reviews" /\ Rev!Next /\ UNCHANGED <<part, rxs, vars, ai>>
    \/ part = "explain" /\ Ai!Next /\ UNCHANGED <<part, rxs, vars, rev>>

ServerSpec == ServerInit /\ [][ServerNext]_allVars

\* The fairness of the modules, for the part that moves.
Fairness ==
    /\ \A r \in Writers \cup Readers : WF_server(part = "rx" /\ Rx!Handle(r))
    /\ \A r \in Callers : WF_ai(part = "explain" /\ Ai!Step(r))

-----------------------------------------------------------------------------
\* POST /diagnose: a user who was diagnosed has a prescription; while requests do not
\* overlap it is one, made for the state that is stored.
OnePrescription == Rx!OnePrescription

\* POST /practice/{id}/ai-explain: requests that find no solver at the same time
\* create one between them.
OneSolver == Ai!OneSolver

\* While requests do not overlap they answer what an uninterrupted server would:
\* /diagnose and /prescription, POST /logs, and the review override.
AnswersInOrder == Rx!AnswersInOrder /\ [](LogsInOrder /\ Rev!ReviewsInOrder)
=============================================================================
