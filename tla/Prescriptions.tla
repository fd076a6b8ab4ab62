----------------------------- MODULE Prescriptions -----------------------------
(***************************************************************************)
(* The diagnosis handlers of the API server for one user: POST /diagnose   *)
(* and POST /user-state/refresh write the user's state row and save the    *)
(* prescription made from it; GET /prescription reads both.                *)
(*                                                                         *)
(* Requests run in threads and transactions of their own over PostgreSQL   *)
(* at READ COMMITTED and are cut at their SQL statements.  The ORM writes  *)
(* a loaded row by an UPDATE of the columns whose value differs from what  *)
(* it loaded, and sends no UPDATE when none does.  An UPDATE locks the     *)
(* rows it changes until the transaction ends; one that had to wait looks  *)
(* at its WHERE clause again.  An INSERT waits for another transaction     *)
(* that has inserted the key.  Of transactions that wait for each other    *)
(* one is aborted.                                                         *)
(***************************************************************************)
EXTENDS Naturals, FiniteSets

CONSTANTS
    Writers,        \* slots for diagnoses that are being handled
    Readers,        \* slots for GET /prescription
    Columns,        \* columns of the state row
    Values,         \* their values
    Pids,           \* prescription ids, numbers
    PidOf,          \* the id of the prescription made for an input: a hash of
                    \* the stage and the rules the input matches
    MaxDiagnoses,   \* bound on the diagnoses that are ever started
    StateRow,       \* names the user's row of user_state among the locks
    None

Inputs == [Columns -> Values]
Requests == Writers \cup Readers

PrescriptionsAssumption ==
    /\ Pids \subseteq Nat
    /\ PidOf \in [Inputs -> Pids]
    /\ MaxDiagnoses \in Nat
    /\ Writers \cap Readers = {}
    /\ IsFiniteSet(Writers)
    /\ None \notin Inputs /\ None \notin Requests
    /\ StateRow \notin Pids

VARIABLES
    state,      \* user_state: the committed row of the user, None before
    rx,         \* prescriptions: the committed rows
    lock,       \* the request whose transaction holds this row
    started,    \* diagnoses started so far; orders generated_at too
    req,
    overlapped  \* history: two requests have been handled at the same time

server == <<state, rx, lock, started, req>>
vars == <<server, overlapped>>

MaybeInput == Inputs \cup {None}
Times == 0 .. MaxDiagnoses

\* made: the input of the diagnosis the payload is from, None when there is no row.
Row == [made : MaybeInput, active : BOOLEAN, at : Times]
NoRow == [made |-> None, active |-> FALSE, at |-> 0]

Request == [pc    : {"idle", "load", "writeState", "deactivate", "lockRows", "find",
                     "writeRx", "commit", "readRx", "readState"},
            input : MaybeInput,         \* what is diagnosed, or has been read
            seen  : MaybeInput,         \* the state row that was loaded
            cols  : SUBSET Columns,     \* columns its UPDATE or INSERT writes
            todo  : SUBSET Pids,        \* active rows the bulk UPDATE has yet to reach
            off   : SUBSET Pids,        \* rows it has deactivated
            found : {"absent", "active", "inactive"},   \* the row of its own id
            at    : Times]

IdleRequest == [pc |-> "idle", input |-> None, seen |-> None, cols |-> {}, todo |-> {},
                off |-> {}, found |-> "absent", at |-> 0]

Rows == Pids \cup {StateRow}

TypeOK ==
    /\ state \in MaybeInput
    /\ rx \in [Pids -> Row]
    /\ lock \in [Rows -> Requests \cup {None}]
    /\ started \in Times
    /\ req \in [Requests -> Request]

Init ==
    /\ state = None
    /\ rx = [p \in Pids |-> NoRow]
    /\ lock = [k \in Rows |-> None]
    /\ started = 0
    /\ req = [r \in Requests |-> IdleRequest]
    /\ overlapped = FALSE

Become(r, q) == req' = [req EXCEPT ![r] = q]

Free(k, r) == lock[k] \in {None, r}
Take(k, r) == Free(k, r) /\ lock' = [lock EXCEPT ![k] = r]
Release(r) == lock' = [k \in Rows |-> IF lock[k] = r THEN None ELSE lock[k]]

\* get_db rolls back: nothing of the request is written.
Rollback(r) ==
    /\ Become(r, IdleRequest)
    /\ Release(r)

-----------------------------------------------------------------------------
(* POST /diagnose and POST /user-state/refresh                             *)

StartDiagnose(r) ==
    /\ req[r].pc = "idle" /\ started < MaxDiagnoses
    /\ started' = started + 1
    /\ \E i \in Inputs :
          Become(r, [IdleRequest EXCEPT !.pc = "load", !.input = i, !.at = started + 1])
    /\ UNCHANGED <<state, rx, lock>>

\* upsert_user_state: db.get
LoadState(r) ==
    /\ req[r].pc = "load"
    /\ Become(r, [req[r] EXCEPT !.pc = "writeState", !.seen = state])
    /\ UNCHANGED <<state, rx, lock, started>>

Changed(q) == {c \in Columns : q.seen = None \/ q.seen[c] # q.input[c]}

\* upsert_user_state: db.flush
WriteState(r) ==
    /\ req[r].pc = "writeState"
    /\ LET cols == Changed(req[r])
       IN  /\ cols # {} => req[r].seen # None \/ state = None
           /\ IF cols = {} THEN UNCHANGED lock ELSE Take(StateRow, r)
           /\ Become(r, [req[r] EXCEPT !.pc = "deactivate", !.cols = cols])
    /\ UNCHANGED <<state, rx, started>>

\* Another request has committed the user's first row since it was looked for:
\* the primary key refuses the INSERT and the response is a 500.
StateConflict(r) ==
    /\ req[r].pc = "writeState"
    /\ req[r].seen = None /\ state # None /\ Free(StateRow, r)
    /\ Rollback(r)
    /\ UNCHANGED <<state, rx, started>>

\* Mutant: no row is deactivated.
DeactivateNothing(r) ==
    /\ req[r].pc = "deactivate"
    /\ Become(r, [req[r] EXCEPT !.pc = "lockRows", !.todo = {}])
    /\ UNCHANGED <<state, rx, lock, started>>

\* save_prescription: the bulk UPDATE starts and sees the active rows.
Deactivate(r) ==
    /\ req[r].pc = "deactivate"
    /\ Become(r, [req[r] EXCEPT !.pc = "lockRows", !.todo = {p \in Pids : rx[p].active}])
    /\ UNCHANGED <<state, rx, lock, started>>

NextRow(r) == {p \in req[r].todo : \A s \in req[r].todo : p <= s}

\* It reaches the rows one by one; a row that is no longer active is passed over.
LockRow(r) ==
    /\ req[r].pc = "lockRows"
    /\ IF req[r].todo = {}
       THEN Become(r, [req[r] EXCEPT !.pc = "find"]) /\ UNCHANGED lock
       ELSE \E p \in NextRow(r) :
                /\ IF rx[p].active THEN Take(p, r) ELSE Free(p, r) /\ UNCHANGED lock
                /\ Become(r, [req[r] EXCEPT !.todo = @ \ {p},
                                            !.off = @ \cup (IF rx[p].active THEN {p} ELSE {})])
    /\ UNCHANGED <<state, rx, started>>

Pid(r) == PidOf[req[r].input]

\* db.get(Prescription, pid): the request sees what it has deactivated itself.
FindExisting(r) ==
    /\ req[r].pc = "find"
    /\ LET p == Pid(r)
           found == IF rx[p].made = None THEN "absent"
                    ELSE IF rx[p].active /\ p \notin req[r].off THEN "active" ELSE "inactive"
       IN  Become(r, [req[r] EXCEPT !.pc = "writeRx", !.found = found])
    /\ UNCHANGED <<state, rx, lock, started>>

WriteRx(r) ==
    /\ req[r].pc = "writeRx"
    /\ req[r].found = "absent" => rx[Pid(r)].made = None
    /\ Take(Pid(r), r)
    /\ Become(r, [req[r] EXCEPT !.pc = "commit"])
    /\ UNCHANGED <<state, rx, started>>

RxConflict(r) ==
    /\ req[r].pc = "writeRx"
    /\ req[r].found = "absent" /\ rx[Pid(r)].made # None /\ Free(Pid(r), r)
    /\ Rollback(r)
    /\ UNCHANGED <<state, rx, started>>

\* Mutant: the payload of an existing row is not written.
RxKeepsPayload(r, p) ==
    LET q == req[r]
        made == IF q.found = "absent" THEN q.input ELSE rx[p].made
    IN  IF p = Pid(r) THEN [made |-> made, active |-> TRUE, at |-> q.at]
        ELSE [rx[p] EXCEPT !.active = @ /\ p \notin q.off]

\* Mutant: its flag is not written.
RxKeepsFlag(r, p) ==
    LET q == req[r]
        active == rx[p].active /\ p \notin q.off
    IN  IF p = Pid(r) THEN [made |-> q.input, active |-> active \/ q.found = "absent", at |-> q.at]
        ELSE [rx[p] EXCEPT !.active = active]

\* is_active is among the columns of the UPDATE only when it was loaded as false.
RxAfterCommit(r, p) ==
    LET q == req[r]
    IN  IF p = Pid(r)
        THEN [made |-> q.input, active |-> (q.found = "active" => rx[p].active), at |-> q.at]
        ELSE [rx[p] EXCEPT !.active = @ /\ p \notin q.off]

Commit(r) ==
    /\ req[r].pc = "commit"
    /\ state' = [c \in Columns |-> IF c \in req[r].cols THEN req[r].input[c] ELSE state[c]]
    /\ rx' = [p \in Pids |-> RxAfterCommit(r, p)]
    /\ Become(r, IdleRequest)
    /\ Release(r)
    /\ UNCHANGED started

-----------------------------------------------------------------------------
(* GET /prescription                                                       *)

StartGet(r) ==
    /\ req[r].pc = "idle"
    /\ Become(r, [IdleRequest EXCEPT !.pc = "readRx"])
    /\ UNCHANGED <<state, rx, lock, started>>

ActiveRows == {p \in Pids : rx[p].active}

\* get_active_prescription: the latest of the active rows; 404 when there is none.
ReadRx(r) ==
    /\ req[r].pc = "readRx"
    /\ \/ /\ ActiveRows = {}
          /\ Become(r, IdleRequest)
       \/ \E p \in ActiveRows :
             /\ \A s \in ActiveRows : rx[s].at <= rx[p].at
             /\ Become(r, [req[r] EXCEPT !.pc = "readState", !.input = rx[p].made])
    /\ UNCHANGED <<state, rx, lock, started>>

ReadState(r) ==
    /\ req[r].pc = "readState"
    /\ Become(r, IdleRequest)
    /\ UNCHANGED <<state, rx, lock, started>>

-----------------------------------------------------------------------------
\* The row a request is waiting for, if it needs one that is held.
Wants(r) ==
    IF req[r].pc = "writeState" /\ Changed(req[r]) # {} THEN {StateRow}
    ELSE IF req[r].pc = "lockRows" /\ req[r].todo # {} THEN NextRow(r)
    ELSE IF req[r].pc = "writeRx" THEN {Pid(r)}
    ELSE {}

WaitsFor(r, q) == r # q /\ \E k \in Wants(r) : lock[k] = q

\* The deadlock detector of the database aborts a request of a cycle: a 500.
Deadlocked(r) ==
    \E S \in SUBSET Requests :
        /\ r \in S
        /\ \A q \in S : (\E p \in S : WaitsFor(q, p)) /\ (\E p \in S : WaitsFor(p, q))

\* Mutant: nobody resolves a deadlock.
AbortNobody(r) == FALSE /\ Rollback(r) /\ UNCHANGED <<state, rx, started>>

AbortDeadlocked(r) ==
    /\ Deadlocked(r)
    /\ Rollback(r)
    /\ UNCHANGED <<state, rx, started>>

Handle(r) ==
    \/ LoadState(r) \/ WriteState(r) \/ StateConflict(r)
    \/ Deactivate(r) \/ LockRow(r) \/ FindExisting(r) \/ WriteRx(r) \/ RxConflict(r)
    \/ Commit(r) \/ AbortDeadlocked(r)
    \/ ReadRx(r) \/ ReadState(r)

Overlap == \E r, q \in Requests : r # q /\ req[r].pc # "idle" /\ req[q].pc # "idle"

Step ==
    \/ \E r \in Writers : StartDiagnose(r)
    \/ \E r \in Readers : StartGet(r)
    \/ \E r \in Requests : Handle(r)

Next == Step /\ overlapped' = (overlapped \/ Overlap')

Spec == Init /\ [][Next]_vars

\* A thread of the pool runs its handler to the end.
Fairness == \A r \in Requests : WF_server(Handle(r))
FairSpec == Spec /\ Fairness

-----------------------------------------------------------------------------
(* Properties                                                              *)

\* A user who has been diagnosed has a prescription to show.
SomePrescription == state # None => ActiveRows # {}

\* That is so as long as two diagnoses of the user at most are in hand at a time:
\* a request that finds its own row active does not write the flag, and its row may
\* be deactivated before it locks it, but of two requests the other one then leaves a
\* row active.  A user without a state row has no prescriptions.
AlwaysPrescribed ==
    /\ Cardinality(Writers) <= 2 => SomePrescription
    /\ state = None <=> \A p \in Pids : rx[p].made = None

\* Every request ends, although requests lock several rows in different orders.
RequestEnds(r) == req[r].pc # "idle" ~> req[r].pc = "idle"

(* What holds as long as no two requests have overlapped.                  *)

\* One prescription is active, and it was made for the state that is stored.
OneFitsState ==
    ~overlapped => /\ \A p, q \in ActiveRows : p = q
                   /\ \A p \in ActiveRows : rx[p].made = state

OnePrescription == TypeOK /\ AlwaysPrescribed /\ OneFitsState

\* GET /prescription returns a prescription with the state it was made for; a
\* diagnosis that commits leaves its own prescription active, with its payload;
\* and none fails.
AnswersStep ==
    ~overlapped' =>
        \A r \in Requests :
            /\ req[r].pc = "readState" /\ req'[r].pc = "idle" => req[r].input = state
            /\ req[r].pc = "commit" /\ req'[r].pc = "idle" =>
                   rx'[Pid(r)].active /\ rx'[Pid(r)].made = req[r].input
            /\ ~ (StateConflict(r) \/ RxConflict(r))

AnswersInOrder == [][AnswersStep]_vars
=============================================================================
