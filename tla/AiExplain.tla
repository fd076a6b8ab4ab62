------------------------------ MODULE AiExplain ------------------------------
(***************************************************************************)
(* POST /practice/{id}/ai-explain: requests run in the threads of a pool   *)
(* and share one solver, which the first of them that needs it creates     *)
(* under a lock (_get_ai_solver of api/main.py).  Creating it may raise,   *)
(* and so may solving.                                                     *)
(***************************************************************************)
EXTENDS Naturals, FiniteSets

CONSTANTS
    Requests,       \* each is sent once
    Configured,     \* whether a backend is set, one value or both
    None

AiExplainAssumption ==
    /\ Configured \subseteq BOOLEAN
    /\ None \notin Requests /\ None \notin Nat

VARIABLES
    backend,        \* settings.ai_explain_backend is set
    ai_solver,      \* app.state.ai_solver: its number, or None
    lock,           \* the request that holds ai_solver_lock, or None
    created,        \* solvers created so far
    pc,             \* of a request
    solver,         \* the solver a request has got
    answer          \* its status code

vars == <<backend, ai_solver, lock, created, pc, solver, answer>>

Init ==
    /\ backend \in Configured
    /\ ai_solver = None /\ lock = None /\ created = 0
    /\ pc = [r \in Requests |-> "sent"]
    /\ solver = [r \in Requests |-> None]
    /\ answer = [r \in Requests |-> None]

Goto(r, from, to) == pc[r] = from /\ pc' = [pc EXCEPT ![r] = to]

Answer(r, from, code) ==
    /\ Goto(r, from, "done")
    /\ answer' = [answer EXCEPT ![r] = code]

\* The question is unknown, or was never attempted.
Refuse(r) ==
    /\ \E code \in {404, 403} : Answer(r, "sent", code)
    /\ UNCHANGED <<backend, ai_solver, lock, created, solver>>

\* The first look, without the lock.
Look(r) ==
    /\ Goto(r, "sent", IF ai_solver # None THEN "solve" ELSE IF backend THEN "lock" ELSE "none")
    /\ solver' = [solver EXCEPT ![r] = ai_solver]
    /\ UNCHANGED <<backend, ai_solver, lock, created, answer>>

NotConfigured(r) ==
    /\ Answer(r, "none", 503)
    /\ UNCHANGED <<backend, ai_solver, lock, created, solver>>

\* Mutant: who has waited for the lock creates a solver, be there one or not.
AcquireUnchecked(r) ==
    /\ lock = None /\ lock' = r
    /\ Goto(r, "lock", "create")
    /\ UNCHANGED <<backend, ai_solver, created, solver, answer>>

\* With the lock, it looks again.
Acquire(r) ==
    /\ lock = None /\ lock' = r
    /\ Goto(r, "lock", IF ai_solver = None THEN "create" ELSE "release")
    /\ UNCHANGED <<backend, ai_solver, created, solver, answer>>

Create(r) ==
    /\ Goto(r, "create", "release")
    /\ created' = created + 1 /\ ai_solver' = created + 1
    /\ UNCHANGED <<backend, lock, solver, answer>>

\* An exception leaves the lock, and no handler catches it.
CreateRaises(r) ==
    /\ Answer(r, "create", 500)
    /\ lock' = None
    /\ UNCHANGED <<backend, ai_solver, created, solver>>

Release(r) ==
    /\ Goto(r, "release", "return")
    /\ lock' = None
    /\ UNCHANGED <<backend, ai_solver, created, solver, answer>>

Return(r) ==
    /\ Goto(r, "return", "solve")
    /\ solver' = [solver EXCEPT ![r] = ai_solver]
    /\ UNCHANGED <<backend, ai_solver, lock, created, answer>>

Solve(r) ==
    /\ \E code \in {200, 502} : Answer(r, "solve", code)
    /\ UNCHANGED <<backend, ai_solver, lock, created, solver>>

Step(r) ==
    \/ Refuse(r) \/ Look(r) \/ NotConfigured(r)
    \/ Acquire(r) \/ Create(r) \/ CreateRaises(r) \/ Release(r) \/ Return(r)
    \/ Solve(r)

Next == \E r \in Requests : Step(r)

\* Every thread runs on; a lock that is free is given to somebody.
Spec == Init /\ [][Next]_vars /\ \A r \in Requests : WF_vars(Step(r))
-----------------------------------------------------------------------------
\* However many requests come first together, all are served by one solver: it is created
\* once, and never replaced under one that uses it.
OneSolver ==
    /\ created <= 1
    /\ \A r \in Requests :
          /\ solver[r] # None => solver[r] = ai_solver
          /\ answer[r] \in {200, 502} => solver[r] # None
          /\ answer[r] = 503 => ~backend

\* A solver that cannot be created does not keep the lock: every request is answered.
RequestAnswered(r) == <>(answer[r] # None)
=============================================================================
