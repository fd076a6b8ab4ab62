---------------------------- MODULE LearnerRecords ----------------------------
(***************************************************************************)
(* The learner's records in the API server: mistake logs (/logs, keyed by  *)
(* user and the log id the client chooses) and attempts (/attempts, keyed  *)
(* by an id the server makes), and the resources that are open only to a   *)
(* user who has attempted the question (/evidence, /ai-explain).           *)
(*                                                                         *)
(* Requests are cut at their SQL statements, as PostgreSQL at READ         *)
(* COMMITTED runs them: a statement sees what is committed, an INSERT      *)
(* waits for the transaction that has inserted or deleted its key, and a   *)
(* DELETE waits for those that hold a row it has found.  A DELETE takes    *)
(* the locks of its rows in one step.                                      *)
(***************************************************************************)
EXTENDS Naturals, FiniteSets

CONSTANTS
    Users, LogIds,
    Bodies,         \* contents of a log
    Questions,
    AttemptIds,     \* ids of attempts; bounds the attempts ever made
    Slots,          \* requests that are being handled
    None

LogKeys == Users \X LogIds

Keys == LogKeys \cup AttemptIds
Pairs == Users \X Questions

LearnerRecordsAssumption ==
    /\ None \notin Users \cup LogIds \cup Bodies \cup Questions \cup Slots
    /\ None \notin Keys \cup Pairs
    /\ LogKeys \cap AttemptIds = {}

VARIABLES
    logs,       \* mistake_logs: the committed rows
    attempts,   \* attempt_diagnoses: the committed rows, as user and question
    used,       \* attempt ids that have been given out
    lock,       \* the slot whose transaction holds this key
    told,       \* the user and question pairs whose key an attempt has answered
    req,
    overlapped  \* history: two requests have been handled at the same time

vars == <<logs, attempts, used, lock, told, req, overlapped>>

Request == [pc    : {"idle", "get", "insert", "commit", "count", "delete", "gate", "serve",
                     "conflict"},
            op    : {"add", "clear", "attempt", "clearAttempts", "open", "none"},
            user  : Users \cup {None},
            log   : LogIds \cup {None},
            body  : Bodies \cup {None},
            q     : Questions \cup {None},
            row   : Keys \cup {None},   \* the row it has inserted
            gone  : SUBSET Keys,        \* the rows it has deleted
            since : SUBSET Pairs]       \* attempts on record at some time since it started

Idle == [pc |-> "idle", op |-> "none", user |-> None, log |-> None, body |-> None,
         q |-> None, row |-> None, gone |-> {}, since |-> {}]

OnRecord(a) == {a[i] : i \in AttemptIds} \ {None}

TypeOK ==
    /\ logs \in [LogKeys -> Bodies \cup {None}]
    /\ attempts \in [AttemptIds -> Pairs \cup {None}]
    /\ used \subseteq AttemptIds
    /\ lock \in [Keys -> Slots \cup {None}]
    /\ told \subseteq Pairs
    /\ req \in [Slots -> Request]
    /\ \A k \in Keys : lock[k] # None =>
          k \in req[lock[k]].gone \cup {req[lock[k]].row} /\ req[lock[k]].pc = "commit"

Init ==
    /\ logs = [k \in LogKeys |-> None]
    /\ attempts = [i \in AttemptIds |-> None]
    /\ used = {}
    /\ lock = [k \in Keys |-> None]
    /\ told = {}
    /\ req = [r \in Slots |-> Idle]
    /\ overlapped = FALSE

-----------------------------------------------------------------------------
Become(r, q) == req' = [req EXCEPT ![r] = q]
Key(r) == <<req[r].user, req[r].log>>
Release(r) == [k \in Keys |-> IF lock[k] = r THEN None ELSE lock[k]]

Start(r, q) ==
    /\ req[r].pc = "idle"
    /\ Become(r, q)
    /\ UNCHANGED <<logs, attempts, used, lock, told>>

StartAdd(r) ==
    \E u \in Users, l \in LogIds, b \in Bodies :
        Start(r, [Idle EXCEPT !.pc = "get", !.op = "add", !.user = u, !.log = l, !.body = b])

StartClear(r) ==
    \E u \in Users, op \in {"clear", "clearAttempts"} :
        Start(r, [Idle EXCEPT !.pc = "delete", !.op = op, !.user = u])

StartAttempt(r) ==
    \E u \in Users, q \in Questions :
        Start(r, [Idle EXCEPT !.pc = "insert", !.op = "attempt", !.user = u, !.q = q])

StartOpen(r) ==
    \E u \in Users, q \in Questions :
        Start(r, [Idle EXCEPT !.pc = "gate", !.op = "open", !.user = u, !.q = q,
                              !.since = OnRecord(attempts)])

-----------------------------------------------------------------------------
(* POST /logs                                                              *)

\* Mutant: the log is inserted without looking for it.
GetNothing(r) ==
    /\ req[r].pc = "get"
    /\ Become(r, [req[r] EXCEPT !.pc = "insert"])
    /\ UNCHANGED <<logs, attempts, used, lock, told>>

\* add_mistake_log: db.get.  A log that is there is left as it is.
GetLog(r) ==
    /\ req[r].pc = "get"
    /\ Become(r, [req[r] EXCEPT !.pc = IF logs[Key(r)] = None THEN "insert" ELSE "commit"])
    /\ UNCHANGED <<logs, attempts, used, lock, told>>

InsertLog(r) ==
    /\ req[r].pc = "insert" /\ req[r].op = "add"
    /\ lock[Key(r)] = None /\ logs[Key(r)] = None
    /\ lock' = [lock EXCEPT ![Key(r)] = r]
    /\ Become(r, [req[r] EXCEPT !.pc = "commit", !.row = Key(r)])
    /\ UNCHANGED <<logs, attempts, used, told>>

\* The primary key refuses a log that was committed since: IntegrityError, a 500.
LogConflict(r) ==
    /\ req[r].pc = "insert" /\ req[r].op = "add"
    /\ lock[Key(r)] = None /\ logs[Key(r)] # None
    /\ Become(r, [req[r] EXCEPT !.pc = "conflict"])
    /\ UNCHANGED <<logs, attempts, used, lock, told>>

-----------------------------------------------------------------------------
(* POST /attempts/diagnose                                                 *)

InsertAttempt(r) ==
    /\ req[r].pc = "insert" /\ req[r].op = "attempt"
    /\ \E i \in AttemptIds \ used :
          /\ used' = used \cup {i}
          /\ lock' = [lock EXCEPT ![i] = r]
          /\ Become(r, [req[r] EXCEPT !.pc = "commit", !.row = i])
    /\ UNCHANGED <<logs, attempts, told>>

-----------------------------------------------------------------------------
(* DELETE /logs and DELETE /attempts                                       *)

\* Mutant: the statement has no WHERE clause.
RowsOfAnybody(r) ==
    IF req[r].op = "clear" THEN {k \in LogKeys : logs[k] # None}
                           ELSE {i \in AttemptIds : attempts[i] # None}

\* The rows the DELETE finds.
RowsOfUser(r) ==
    IF req[r].op = "clear"
    THEN {k \in LogKeys : k[1] = req[r].user /\ logs[k] # None}
    ELSE {i \in AttemptIds : attempts[i] # None /\ attempts[i][1] = req[r].user}

Delete(r) ==
    /\ req[r].pc = "delete"
    /\ \A k \in RowsOfUser(r) : lock[k] = None
    /\ lock' = [k \in Keys |-> IF k \in RowsOfUser(r) THEN r ELSE lock[k]]
    /\ Become(r, [req[r] EXCEPT !.pc = "commit", !.gone = RowsOfUser(r)])
    /\ UNCHANGED <<logs, attempts, used, told>>

-----------------------------------------------------------------------------
\* Requests that are reading have the attempts of this commit on record, too.
Record(pair) ==
    [s \in Slots |-> IF req[s].op = "open" THEN [req[s] EXCEPT !.since = @ \cup {pair}]
                                            ELSE req[s]]

\* The tables once r has committed.
LogsAfter(r) ==
    [k \in LogKeys |-> IF k = req[r].row THEN req[r].body
                       ELSE IF k \in req[r].gone THEN None ELSE logs[k]]
\* Mutant: what was inserted is not committed.
AttemptsUnrecorded(r) ==
    [i \in AttemptIds |-> IF i \in req[r].gone THEN None ELSE attempts[i]]

AttemptsAfter(r) ==
    [i \in AttemptIds |-> IF i = req[r].row THEN <<req[r].user, req[r].q>>
                          ELSE IF i \in req[r].gone THEN None ELSE attempts[i]]

\* db.commit.  POST /logs goes on to count; POST /attempts/diagnose answers with
\* the key and the explanation.
Commit(r) ==
    /\ req[r].pc = "commit"
    /\ logs' = LogsAfter(r)
    /\ attempts' = AttemptsAfter(r)
    /\ lock' = Release(r)
    /\ IF req[r].op = "attempt"
       THEN /\ told' = told \cup {<<req[r].user, req[r].q>>}
            /\ req' = [Record(<<req[r].user, req[r].q>>) EXCEPT ![r] = Idle]
       ELSE /\ Become(r, IF req[r].op = "add" THEN [req[r] EXCEPT !.pc = "count"] ELSE Idle)
            /\ UNCHANGED told
    /\ UNCHANGED used

\* count_mistake_logs, and the response.
Count(r) ==
    /\ req[r].pc = "count"
    /\ Become(r, Idle)
    /\ UNCHANGED <<logs, attempts, used, lock, told>>

-----------------------------------------------------------------------------
(* GET /evidence/problem_solution_map, GET /evidence/solution_path and     *)
(* POST /practice/{id}/ai-explain                                          *)

\* Mutant: list_attempt_diagnoses does not ask for the user.
AttemptedByAnybody(u) == {p[2] : p \in OnRecord(attempts)}

\* _attempted_ids
AttemptedIds(u) == {p[2] : p \in {x \in OnRecord(attempts) : x[1] = u}}

Gate(r) ==
    /\ req[r].pc = "gate"
    /\ Become(r, IF req[r].q \in AttemptedIds(req[r].user)
                 THEN [req[r] EXCEPT !.pc = "serve"] ELSE Idle)
    /\ UNCHANGED <<logs, attempts, used, lock, told>>

Serve(r) ==
    /\ req[r].pc = "serve"
    /\ Become(r, Idle)
    /\ UNCHANGED <<logs, attempts, used, lock, told>>

\* The 500 of an IntegrityError, or any other exception: get_db rolls back.
RollBack(r) ==
    /\ req[r].pc # "idle"
    /\ Become(r, Idle)
    /\ lock' = Release(r)
    /\ UNCHANGED <<logs, attempts, used, told>>

Overlap == \E r, s \in Slots : r # s /\ req[r].pc # "idle" /\ req[s].pc # "idle"

Step ==
    \E r \in Slots :
        \/ StartAdd(r) \/ StartClear(r) \/ StartAttempt(r) \/ StartOpen(r)
        \/ GetLog(r) \/ InsertLog(r) \/ LogConflict(r) \/ InsertAttempt(r) \/ Delete(r)
        \/ Commit(r) \/ Count(r) \/ Gate(r) \/ Serve(r) \/ RollBack(r)

Next == Step /\ overlapped' = (overlapped \/ Overlap')

Spec == Init /\ [][Next]_vars

-----------------------------------------------------------------------------
(* Properties                                                              *)

\* A log that is on record keeps its contents, whoever sends the same id again,
\* and rows disappear only when their own user clears them.
RowsStay ==
    [][/\ \A k \in LogKeys : logs[k] # None =>
             \/ logs'[k] = logs[k]
             \/ /\ logs'[k] = None
                /\ \E r \in Slots : req[r].op = "clear" /\ req[r].user = k[1] /\ req[r].pc = "commit"
       /\ \A i \in AttemptIds : attempts[i] # None =>
             \/ attempts'[i] = attempts[i]
             \/ /\ attempts'[i] = None
                /\ \E r \in Slots : /\ req[r].op = "clearAttempts" /\ req[r].pc = "commit"
                                    /\ req[r].user = attempts[i][1]]_<<logs, attempts>>

\* A key is told only for an attempt that is on record, until it is cleared: the
\* server never answers an attempt it then does not remember.
ToldIsRecorded ==
    [][\A p \in told' \ told : p \in OnRecord(attempts')]_told

\* /logs and /attempts: what is on record stays, and what was told is on record.
RecordsStay == RowsStay /\ ToldIsRecorded

\* A restricted resource is served to a user only if an attempt of that user at
\* that question was on record at some time while the request was handled.
ServedWasAttempted ==
    \A r \in Slots : req[r].pc = "serve" => <<req[r].user, req[r].q>> \in req[r].since

\* Locks are held by requests that are about to commit.  As long as no two
\* requests have overlapped, adding a log is idempotent (sending it again is no
\* error), and when POST /logs counts, the log it was sent is one of those it counts.
LogsInOrder ==
    /\ TypeOK
    /\ ~overlapped => \A r \in Slots :
                         /\ req[r].pc # "conflict"
                         /\ req[r].pc = "count" => logs[Key(r)] # None
=============================================================================
