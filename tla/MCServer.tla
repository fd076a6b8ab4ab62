------------------------------ MODULE MCServer ------------------------------
(***************************************************************************)
(* Server for TLC: two diagnoses and a GET of one user, two requests that  *)
(* change a learner's records, two reviews of an item, and three requests  *)
(* for an explanation.  The prescriptions also start where overlapping     *)
(* diagnoses may have left them.                                           *)
(***************************************************************************)
EXTENDS Server

CONSTANTS c1, c2, c3, days, subjects

\* With days = 1 two inputs share an id.
TwoIds == [i \in [{days, subjects} -> {1, 2}] |-> IF i[days] = 1 THEN 1 ELSE 1 + i[subjects]]
Seed == [x \in {"x1"} |-> "s0"]

Rows == INSTANCE MCPrescriptions WITH
    lock <- rxLock, started <- rxStarted, req <- rxReq, overlapped <- rxOverlapped

\* Of the solver, whether a backend is configured; of the others one state each.
MCInit ==
    /\ ServerInit \/ (part = "rx" /\ Rows!MCInit /\ Init /\ Rev!Init /\ Ai!Init)
    /\ part = "explain" \/ backend

FairSpec == MCInit /\ [][ServerNext]_allVars /\ Fairness
-----------------------------------------------------------------------------
\* Every diagnosis, every GET /prescription and every request for an explanation is
\* answered, whatever rows and locks the others hold.  Writers are interchangeable,
\* and so are the requests for an explanation: one stands for all.
RequestsEnd ==
    /\ Rx!RequestEnds(c1) /\ Rx!RequestEnds(c3)
    /\ (part = "explain" => Ai!RequestAnswered(c1))
============================================================================
