-------------------------- MODULE PrescriptionsProofs --------------------------
(***************************************************************************)
(* Theorems about Prescriptions: for any columns of the state row, any     *)
(* prescriptions and any requests, interleaved at their SQL statements.    *)
(***************************************************************************)
EXTENDS Prescriptions, FiniteSetTheorems, TLAPS

(* The inductive invariant, in named parts.                                *)

Writing == {"load", "writeState", "deactivate", "lockRows", "find", "writeRx", "commit"}
Reading == {"readRx", "readState"}
Past == {"lockRows", "find", "writeRx", "commit"}       \* the bulk UPDATE has its snapshot
Saving == {"writeRx", "commit"}

\* What the record of a request holds at each of its statements.
Fits(r) ==
    /\ req[r].pc \in Writing => r \in Writers /\ req[r].input # None
    /\ req[r].pc \in Reading => r \in Readers
    /\ req[r].pc \in Saving \cup {"find"} => req[r].todo = {}
    /\ req[r].pc \notin Past => req[r].off = {}
    /\ req[r].seen # None => state # None
    /\ req[r].pc \in Past \cup {"deactivate"} =>
          /\ req[r].seen = None => req[r].cols = Columns
          /\ req[r].cols \subseteq Columns

\* The rows it has deactivated, and the one it is about to commit, are locked.
Holds(r) ==
    /\ \A p \in req[r].off : lock[p] = r
    /\ req[r].pc = "commit" => lock[Pid(r)] = r

\* A row that is active was made by a diagnosis; a user without a state row has none.
RowsFit ==
    /\ \A p \in Pids : rx[p].active => rx[p].made # None
    /\ state = None <=> \A p \in Pids : rx[p].made = None

\* It has found its own row active, does not write the flag, and the row was deactivated
\* since: its commit leaves its own row inactive.
Lost(r) == req[r].pc \in Saving /\ req[r].found = "active" /\ ~rx[Pid(r)].active

\* Some row it does not deactivate is active then.
Spares(r) == Lost(r) => \E p \in Pids \ req[r].off : rx[p].active

\* And nothing was committed since the snapshot of the other writer, which therefore
\* deactivates all that is active.
Before(r, s) ==
    Lost(r) /\ req[s].pc \in Past =>
        /\ \A p \in Pids : rx[p].active => p \in req[s].todo \cup req[s].off
        /\ req[s].pc \in Saving => req[s].found # "active"

Two == \A r, s, x \in Writers : r # s => x \in {r, s}

TwoWriters ==
    /\ SomePrescription
    /\ \A r \in Writers : Spares(r) /\ \A s \in Writers \ {r} : Before(r, s)

\* As long as requests have not overlapped.
InOrder(r) ==
    /\ req[r].pc \in (Writing \ {"load"}) => req[r].seen = state
    /\ req[r].pc \in Past \cup {"deactivate"} => req[r].cols = Changed(req[r])
    /\ req[r].pc \in Past => ActiveRows \subseteq req[r].todo \cup req[r].off
    /\ req[r].pc \in Saving =>
          req[r].found = IF rx[Pid(r)].made = None THEN "absent" ELSE "inactive"
    /\ req[r].pc = "readState" => req[r].input = state

Calm ==
    /\ \A r, s \in Requests : req[r].pc # "idle" /\ req[s].pc # "idle" => r = s
    /\ \A p, q \in ActiveRows : p = q
    /\ \A p \in ActiveRows : rx[p].made = state
    /\ \A r \in Requests : InOrder(r)

IInv ==
    /\ TypeOK
    /\ RowsFit
    /\ \A r \in Requests : Fits(r) /\ Holds(r)
    /\ Two => TwoWriters
    /\ ~overlapped => Calm

-----------------------------------------------------------------------------
LEMMA IdleType ==
  ASSUME PrescriptionsAssumption
  PROVE  IdleRequest \in Request /\ NoRow \in Row
  BY DEF PrescriptionsAssumption, IdleRequest, Request, NoRow, Row, MaybeInput, Times

LEMMA InitIInv == ASSUME PrescriptionsAssumption, Init PROVE IInv
  <1>1. TypeOK
    BY IdleType DEF Init, TypeOK, MaybeInput, Times, PrescriptionsAssumption
  <1>2. \A r \in Requests : req[r] = IdleRequest
    BY DEF Init
  <1>3. \A p \in Pids : rx[p] = NoRow
    BY DEF Init
  <1>4. RowsFit /\ SomePrescription /\ ActiveRows = {}
    BY <1>3 DEF Init, RowsFit, SomePrescription, ActiveRows, NoRow
  <1>5. \A r \in Requests : Fits(r) /\ Holds(r) /\ ~Lost(r) /\ InOrder(r)
    BY <1>2 DEF IdleRequest, Fits, Holds, Lost, InOrder, Writing, Reading, Past, Saving
  <1>6. TwoWriters /\ Calm
    BY <1>2, <1>4, <1>5 DEF TwoWriters, Spares, Before, Calm, Requests, IdleRequest
  <1> QED
    BY <1>1, <1>4, <1>5, <1>6 DEF IInv

\* The facts about one request.
LEMMA Facts ==
  ASSUME PrescriptionsAssumption, IInv, NEW r \in Requests
  PROVE  /\ req[r] \in Request /\ Fits(r) /\ Holds(r)
         /\ req[r].pc \in Writing => r \in Writers /\ req[r].input \in Inputs /\ Pid(r) \in Pids
         /\ req[r].off \subseteq Pids /\ req[r].todo \subseteq Pids
  BY DEF PrescriptionsAssumption, IInv, TypeOK, Fits, Request, MaybeInput, Pid

-----------------------------------------------------------------------------
(* Steps that change the record of one request and its locks.              *)

LEMMA RequestStep ==
  ASSUME PrescriptionsAssumption, IInv, NEW r \in Requests, NEW q \in Request, Become(r, q),
         UNCHANGED <<state, rx>>, started' \in Times,
         lock' \in [Rows -> Requests \cup {None}],
         \A k \in Rows, s \in Requests \ {r} : lock[k] = s => lock'[k] = s,
         Fits(r)', Holds(r)',
         Lost(r)' => Lost(r) /\ q.off = req[r].off,
         \A s \in Writers \ {r} : Before(s, r) => Before(s, r)',
         overlapped' = (overlapped \/ Overlap'),
         Calm /\ q.pc # "idle" /\ (\A s \in Requests \ {r} : req[s].pc = "idle") => InOrder(r)'
  PROVE  IInv'
  <1>1. req'[r] = q /\ \A s \in Requests \ {r} : req'[s] = req[s]
    BY DEF Become, IInv, TypeOK
  <1>2. TypeOK' /\ RowsFit'
    BY DEF Become, IInv, TypeOK, RowsFit
  <1>3. ASSUME NEW s \in Requests \ {r} PROVE Fits(s)' /\ Holds(s)'
    <2>1. Fits(s) /\ Holds(s) /\ req[s].off \subseteq Pids /\ (req[s].pc = "commit" => Pid(s) \in Pids)
      BY Facts DEF Writing
    <2> QED
      BY <1>1, <2>1 DEF Fits, Holds, Pid, Rows
  <1>4. Two => TwoWriters'
    <2> SUFFICES ASSUME Two PROVE TwoWriters'
      OBVIOUS
    <2>1. TwoWriters /\ Writers \subseteq Requests
      BY DEF IInv, Requests
    <2>2. SomePrescription'
      BY <2>1 DEF TwoWriters, SomePrescription, ActiveRows
    <2>3. \A s \in Requests \ {r} : Lost(s)' <=> Lost(s)
      BY <1>1 DEF Lost, Pid
    <2>4. ASSUME NEW s \in Writers PROVE Spares(s)'
      BY <1>1, <2>1, <2>3 DEF TwoWriters, Spares
    <2>5. ASSUME NEW s \in Writers, NEW x \in Writers \ {s} PROVE Before(s, x)'
      <3>1. CASE x = r
        BY <2>1, <2>5, <3>1 DEF TwoWriters
      <3>2. CASE x # r
        BY <1>1, <2>1, <2>3, <2>5, <3>2 DEF TwoWriters, Before
      <3> QED
        BY <3>1, <3>2
    <2> QED
      BY <2>2, <2>4, <2>5 DEF TwoWriters
  <1>5. ASSUME ~overlapped' PROVE Calm'
    <2>1. Calm /\ ~Overlap'
      BY <1>5 DEF IInv
    <2>2. \A s, x \in Requests : req'[s].pc # "idle" /\ req'[x].pc # "idle" => s = x
      BY <2>1 DEF Overlap
    <2>3. ActiveRows' = ActiveRows
      BY DEF ActiveRows
    <2>4. ASSUME NEW s \in Requests \ {r} PROVE InOrder(s)'
      BY <1>1, <2>1, <2>3 DEF Calm, InOrder, Pid, Changed
    <2>5. InOrder(r)'
      <3>1. CASE q.pc = "idle"
        BY <1>1, <3>1 DEF InOrder, Writing, Past, Saving
      <3>2. CASE q.pc # "idle"
        BY <1>1, <2>1, <2>2, <3>2
      <3> QED
        BY <3>1, <3>2
    <2> QED
      BY <2>1, <2>2, <2>3, <2>4, <2>5 DEF Calm
  <1> QED
    BY <1>2, <1>3, <1>4, <1>5 DEF IInv

LEMMA RequestNext ==
  ASSUME IInv, NEW r \in Requests, NEW q, Become(r, q)
  PROVE  req'[r] = q
  BY DEF Become, IInv, TypeOK

LEMMA LocksTaken ==
  ASSUME PrescriptionsAssumption, IInv, NEW r \in Requests, NEW k \in Rows, Take(k, r)
  PROVE  /\ lock' \in [Rows -> Requests \cup {None}] /\ lock'[k] = r
         /\ \A j \in Rows, s \in Requests \ {r} : lock[j] = s => lock'[j] = s
         /\ \A j \in Rows : lock[j] = r => lock'[j] = r
  BY DEF PrescriptionsAssumption, Take, Free, IInv, TypeOK

LEMMA LocksKept ==
  ASSUME IInv, UNCHANGED lock
  PROVE  lock' \in [Rows -> Requests \cup {None}]
  BY DEF IInv, TypeOK

\* A transaction that is rolled back leaves nothing behind.
LEMMA RollbackStep ==
  ASSUME PrescriptionsAssumption, IInv, NEW r \in Requests, Rollback(r),
         UNCHANGED <<state, rx, started>>, overlapped' = (overlapped \/ Overlap')
  PROVE  IInv'
  <1>1. req'[r] = IdleRequest /\ Become(r, IdleRequest)
    BY RequestNext DEF Rollback
  <1>2. /\ lock' \in [Rows -> Requests \cup {None}]
        /\ \A k \in Rows, s \in Requests \ {r} : lock[k] = s => lock'[k] = s
    BY DEF PrescriptionsAssumption, Rollback, Release, IInv, TypeOK
  <1>3. (Fits(r) /\ Holds(r) /\ ~Lost(r) /\ InOrder(r))' /\ \A s \in Writers : Before(s, r)'
    BY <1>1 DEF IdleRequest, Fits, Holds, Lost, InOrder, Before, Writing, Reading, Past, Saving
  <1>4. started' \in Times
    BY DEF IInv, TypeOK
  <1> QED
    BY <1>1, <1>2, <1>3, <1>4, IdleType, RequestStep

-----------------------------------------------------------------------------
(* One lemma for each action.                                              *)

LEMMA StartStep ==
  ASSUME PrescriptionsAssumption, IInv, NEW r \in Requests,
         (r \in Writers /\ StartDiagnose(r)) \/ (r \in Readers /\ StartGet(r)),
         overlapped' = (overlapped \/ Overlap')
  PROVE  IInv'
  <1>1. ASSUME NEW q \in Request, Become(r, q), UNCHANGED <<state, rx, lock>>, started' \in Times,
               q.off = {}, q.todo = {}, q.seen = None, q.pc \in {"load", "readRx"},
               q.pc = "load" => r \in Writers /\ q.input # None,
               q.pc = "readRx" => r \in Readers
        PROVE  IInv'
    <2>1. req'[r] = q
      BY <1>1, RequestNext
    <2>2. (Fits(r) /\ Holds(r) /\ ~Lost(r) /\ InOrder(r))' /\ \A s \in Writers : Before(s, r)'
      BY <1>1, <2>1 DEF Fits, Holds, Lost, InOrder, Before, Writing, Reading, Past, Saving
    <2> QED
      BY <1>1, <2>2, LocksKept, RequestStep
  <1>2. CASE r \in Writers /\ StartDiagnose(r)
    <2>1. PICK i \in Inputs :
             Become(r, [IdleRequest EXCEPT !.pc = "load", !.input = i, !.at = started + 1])
      BY <1>2 DEF StartDiagnose
    <2>2. PICK q : q = [IdleRequest EXCEPT !.pc = "load", !.input = i, !.at = started + 1]
      OBVIOUS
    <2>3. started + 1 \in Times /\ started' \in Times
      <3>1. started < MaxDiagnoses /\ started' = started + 1
        BY <1>2, Zenon DEF StartDiagnose
      <3> QED
        BY <3>1 DEF PrescriptionsAssumption, IInv, TypeOK, Times
    <2>4. q \in Request
      BY <2>2, <2>3, IdleType DEF Request, MaybeInput
    <2>5. q.off = {} /\ q.todo = {} /\ q.seen = None /\ q.pc = "load" /\ q.input # None
      BY <2>2 DEF PrescriptionsAssumption, IdleRequest
    <2> QED
      BY <1>1, <1>2, <2>1, <2>2, <2>3, <2>4, <2>5 DEF StartDiagnose
  <1>3. CASE r \in Readers /\ StartGet(r)
    <2>1. PICK q : q = [IdleRequest EXCEPT !.pc = "readRx"]
      OBVIOUS
    <2>2. q \in Request /\ q.off = {} /\ q.todo = {} /\ q.seen = None /\ q.pc = "readRx"
      BY <2>1, IdleType DEF IdleRequest, Request
    <2>3. Become(r, q) /\ UNCHANGED <<state, rx, lock>> /\ started' \in Times
      BY <1>3, <2>1 DEF StartGet, IInv, TypeOK
    <2> QED
      BY <1>1, <1>3, <2>2, <2>3
  <1> QED
    BY <1>2, <1>3

LEMMA LoadStateStep ==
  ASSUME PrescriptionsAssumption, IInv, NEW r \in Requests, LoadState(r),
         overlapped' = (overlapped \/ Overlap')
  PROVE  IInv'
  <1>1. PICK q : q = [req[r] EXCEPT !.pc = "writeState", !.seen = state]
    OBVIOUS
  <1>2. /\ Become(r, q) /\ req'[r] = q /\ req[r].pc = "load"
        /\ UNCHANGED <<state, rx, lock>> /\ started' \in Times
    BY <1>1, RequestNext DEF LoadState, IInv, TypeOK
  <1>3. req[r] \in Request /\ Fits(r) /\ state \in MaybeInput
    BY Facts DEF IInv, TypeOK
  <1>4. q \in Request
    BY <1>1, <1>3 DEF Request
  <1>5. /\ q.pc = "writeState" /\ q.seen = state /\ q.input = req[r].input
        /\ q.off = req[r].off /\ q.todo = req[r].todo
    BY <1>1, <1>3 DEF Request
  <1>6. (Fits(r) /\ Holds(r) /\ ~Lost(r) /\ InOrder(r))' /\ \A s \in Writers : Before(s, r)'
    BY <1>2, <1>3, <1>5 DEF Fits, Holds, Lost, InOrder, Before, Writing, Reading, Past, Saving
  <1> QED
    BY <1>2, <1>4, <1>6, LocksKept, RequestStep

LEMMA WriteStateStep ==
  ASSUME PrescriptionsAssumption, IInv, NEW r \in Requests, WriteState(r),
         overlapped' = (overlapped \/ Overlap')
  PROVE  IInv'
  <1>1. PICK cols : cols = Changed(req[r])
    OBVIOUS
  <1>2. PICK q : q = [req[r] EXCEPT !.pc = "deactivate", !.cols = cols]
    OBVIOUS
  <1>3. /\ Become(r, q) /\ req'[r] = q /\ req[r].pc = "writeState"
        /\ UNCHANGED <<state, rx>> /\ started' \in Times
    BY <1>1, <1>2, RequestNext DEF WriteState, IInv, TypeOK
  <1>4. /\ lock' \in [Rows -> Requests \cup {None}]
        /\ \A k \in Rows, s \in Requests \ {r} : lock[k] = s => lock'[k] = s
    BY LocksTaken, LocksKept DEF WriteState, Rows
  <1>5. req[r] \in Request /\ Fits(r)
    BY Facts
  <1>6. cols \subseteq Columns /\ (req[r].seen = None => cols = Columns)
    BY <1>1 DEF Changed
  <1>7. q \in Request
    BY <1>2, <1>5, <1>6 DEF Request
  <1>8. /\ q.pc = "deactivate" /\ q.seen = req[r].seen /\ q.input = req[r].input
        /\ q.off = req[r].off /\ q.todo = req[r].todo /\ q.cols = cols
    BY <1>2, <1>5 DEF Request
  <1>9. (Fits(r) /\ Holds(r) /\ ~Lost(r))' /\ \A s \in Writers : Before(s, r)'
    BY <1>3, <1>5, <1>6, <1>8 DEF Fits, Holds, Lost, Before, Writing, Reading, Past, Saving
  <1>10. Calm => InOrder(r)'
    <2>1. Changed(q) = cols
      BY <1>1, <1>8 DEF Changed
    <2> QED
      BY <1>3, <1>8, <2>1 DEF Calm, InOrder, Writing, Past, Saving
  <1> QED
    BY <1>3, <1>4, <1>7, <1>9, <1>10, RequestStep

\* The snapshot has every row that is active now.
LEMMA DeactivateStep ==
  ASSUME PrescriptionsAssumption, IInv, NEW r \in Requests, Deactivate(r),
         overlapped' = (overlapped \/ Overlap')
  PROVE  IInv'
  <1>1. PICK q : q = [req[r] EXCEPT !.pc = "lockRows", !.todo = ActiveRows]
    OBVIOUS
  <1>2. /\ Become(r, q) /\ req'[r] = q /\ req[r].pc = "deactivate"
        /\ UNCHANGED <<state, rx, lock>> /\ started' \in Times
    BY <1>1, RequestNext DEF Deactivate, ActiveRows, IInv, TypeOK
  <1>3. req[r] \in Request /\ Fits(r) /\ ActiveRows \subseteq Pids
    BY Facts DEF ActiveRows
  <1>4. q \in Request
    BY <1>1, <1>3 DEF Request
  <1>5. /\ q.pc = "lockRows" /\ q.seen = req[r].seen /\ q.input = req[r].input
        /\ q.off = req[r].off /\ q.todo = ActiveRows /\ q.cols = req[r].cols
    BY <1>1, <1>3 DEF Request
  <1>6. (Fits(r) /\ Holds(r) /\ ~Lost(r))'
    BY <1>2, <1>3, <1>5 DEF Fits, Holds, Lost, Writing, Reading, Past, Saving
  <1>7. \A s \in Writers : Before(s, r)'
    BY <1>2, <1>5 DEF Before, ActiveRows, Past, Saving
  <1>8. Calm => InOrder(r)'
    <2>1. Changed(q) = Changed(req[r]) /\ ActiveRows' = ActiveRows
      BY <1>2, <1>5 DEF Changed, ActiveRows
    <2> QED
      BY <1>2, <1>5, <2>1 DEF Calm, InOrder, Writing, Past, Saving
  <1> QED
    BY <1>2, <1>4, <1>6, <1>7, <1>8, LocksKept, RequestStep

\* It passes over a row only when that is not active.
LEMMA LockRowStep ==
  ASSUME PrescriptionsAssumption, IInv, NEW r \in Requests, LockRow(r),
         overlapped' = (overlapped \/ Overlap')
  PROVE  IInv'
  <1>1. req[r].pc = "lockRows" /\ UNCHANGED <<state, rx>> /\ started' \in Times
    BY DEF LockRow, IInv, TypeOK
  <1>2. req[r] \in Request /\ Fits(r) /\ Holds(r) /\ req[r].todo \subseteq Pids
    BY Facts
  <1>3. CASE req[r].todo = {}
    <2>1. PICK q : q = [req[r] EXCEPT !.pc = "find"]
      OBVIOUS
    <2>2. Become(r, q) /\ req'[r] = q /\ UNCHANGED lock
      BY <1>3, <2>1, RequestNext DEF LockRow
    <2>3. q \in Request
      BY <1>2, <2>1 DEF Request
    <2>4. /\ q.pc = "find" /\ q.seen = req[r].seen /\ q.input = req[r].input
          /\ q.off = req[r].off /\ q.todo = {} /\ q.cols = req[r].cols
      BY <1>2, <1>3, <2>1 DEF Request
    <2>5. (Fits(r) /\ Holds(r) /\ ~Lost(r))'
      BY <1>1, <1>2, <2>2, <2>4 DEF Fits, Holds, Lost, Writing, Reading, Past, Saving
    <2>6. ASSUME NEW s \in Writers \ {r}, Before(s, r) PROVE Before(s, r)'
      <3>1. Lost(s)' = Lost(s)
        BY <1>1, <2>2 DEF Become, IInv, TypeOK, Lost, Pid, Requests
      <3> QED
        BY <1>1, <1>3, <2>2, <2>4, <2>6, <3>1 DEF Before, Past, Saving
    <2>7. Calm => InOrder(r)'
      <3>1. Changed(q) = Changed(req[r]) /\ ActiveRows' = ActiveRows
        BY <1>1, <2>4 DEF Changed, ActiveRows
      <3> QED
        BY <1>1, <1>3, <2>2, <2>4, <3>1 DEF Calm, InOrder, Writing, Past, Saving
    <2> QED
      BY <1>1, <2>2, <2>3, <2>5, <2>6, <2>7, LocksKept, RequestStep
  <1>4. CASE req[r].todo # {}
    <2>1. PICK p \in NextRow(r) :
             /\ IF rx[p].active THEN Take(p, r) ELSE Free(p, r) /\ UNCHANGED lock
             /\ Become(r, [req[r] EXCEPT !.todo = @ \ {p},
                                         !.off = @ \cup (IF rx[p].active THEN {p} ELSE {})])
      BY <1>4 DEF LockRow
    <2>2. PICK off : off = req[r].off \cup (IF rx[p].active THEN {p} ELSE {})
      OBVIOUS
    <2>3. PICK q : q = [req[r] EXCEPT !.todo = req[r].todo \ {p}, !.off = off]
      OBVIOUS
    <2>4. p \in req[r].todo /\ p \in Pids /\ p \in Rows
      BY <1>2 DEF NextRow, Rows
    <2>5. Become(r, q) /\ req'[r] = q
      BY <2>1, <2>2, <2>3, RequestNext
    <2>6. off \subseteq Pids
      BY <2>2, <2>4, Facts
    <2>7. q \in Request
      BY <1>2, <2>3, <2>6 DEF Request
    <2>8. /\ q.pc = "lockRows" /\ q.seen = req[r].seen /\ q.input = req[r].input
          /\ q.off = off /\ q.todo = req[r].todo \ {p} /\ q.cols = req[r].cols
      BY <1>1, <1>2, <2>3 DEF Request
    <2>9. /\ lock' \in [Rows -> Requests \cup {None}]
          /\ \A k \in Rows, s \in Requests \ {r} : lock[k] = s => lock'[k] = s
          /\ \A k \in off : lock'[k] = r
      <3>1. CASE rx[p].active
        BY <1>2, <2>1, <2>2, <2>4, <2>6, <3>1, LocksTaken DEF Holds, Rows
      <3>2. CASE ~rx[p].active
        BY <1>2, <2>1, <2>2, <3>2, LocksKept DEF Holds
      <3> QED
        BY <3>1, <3>2
    <2>10. (Fits(r) /\ Holds(r) /\ ~Lost(r))'
      BY <1>1, <1>2, <2>5, <2>8, <2>9 DEF Fits, Holds, Lost, Writing, Reading, Past, Saving
    <2>11. \A x \in Pids : rx[x].active /\ x \in req[r].todo \cup req[r].off => x \in q.todo \cup q.off
      BY <2>2, <2>8
    <2>12. ASSUME NEW s \in Writers \ {r}, Before(s, r) PROVE Before(s, r)'
      <3>1. Lost(s)' = Lost(s)
        BY <1>1, <2>5 DEF Become, IInv, TypeOK, Lost, Pid, Requests
      <3> QED
        BY <1>1, <2>5, <2>8, <2>11, <2>12, <3>1 DEF Before, Past, Saving
    <2>13. Calm => InOrder(r)'
      <3>1. Changed(q) = Changed(req[r]) /\ ActiveRows' = ActiveRows
        BY <1>1, <2>8 DEF Changed, ActiveRows
      <3>2. ActiveRows \subseteq req[r].todo \cup req[r].off => ActiveRows \subseteq q.todo \cup q.off
        BY <2>11 DEF ActiveRows
      <3> QED
        BY <1>1, <2>5, <2>8, <3>1, <3>2 DEF Calm, InOrder, Writing, Past, Saving
    <2> QED
      BY <1>1, <2>5, <2>7, <2>9, <2>10, <2>12, <2>13, RequestStep
  <1> QED
    BY <1>3, <1>4

\* Its own row is active only if another one has committed it since the snapshot.
LEMMA FindStep ==
  ASSUME PrescriptionsAssumption, IInv, NEW r \in Requests, FindExisting(r),
         overlapped' = (overlapped \/ Overlap')
  PROVE  IInv'
  <1>1. PICK found : found = IF rx[Pid(r)].made = None THEN "absent"
                             ELSE IF rx[Pid(r)].active /\ Pid(r) \notin req[r].off THEN "active"
                             ELSE "inactive"
    OBVIOUS
  <1>2. PICK q : q = [req[r] EXCEPT !.pc = "writeRx", !.found = found]
    OBVIOUS
  <1>3. /\ Become(r, q) /\ req'[r] = q /\ req[r].pc = "find"
        /\ UNCHANGED <<state, rx, lock>> /\ started' \in Times
    BY <1>1, <1>2, RequestNext DEF FindExisting, IInv, TypeOK
  <1>4. req[r] \in Request /\ Fits(r) /\ Holds(r) /\ req[r].todo = {} /\ Pid(r) \in Pids
    BY <1>3, Facts DEF Fits, Writing, Saving
  <1>5. q \in Request
    BY <1>1, <1>2, <1>4 DEF Request
  <1>6. /\ q.pc = "writeRx" /\ q.seen = req[r].seen /\ q.input = req[r].input /\ q.found = found
        /\ q.off = req[r].off /\ q.todo = {} /\ q.cols = req[r].cols
    BY <1>2, <1>4 DEF Request
  <1>7. Pid(r)' = Pid(r)
    BY <1>3, <1>6 DEF Pid
  <1>8. (Fits(r) /\ Holds(r) /\ ~Lost(r))'
    BY <1>1, <1>3, <1>4, <1>6, <1>7 DEF Fits, Holds, Lost, Writing, Reading, Past, Saving
  <1>9. ASSUME NEW s \in Writers \ {r}, Before(s, r) PROVE Before(s, r)'
    <2>1. Lost(s)' = Lost(s)
      BY <1>3 DEF Become, IInv, TypeOK, Lost, Pid, Requests
    <2> QED
      BY <1>1, <1>3, <1>4, <1>6, <1>9, <2>1 DEF Before, Past, Saving
  <1>10. Calm => InOrder(r)'
    <2>1. Changed(q) = Changed(req[r]) /\ ActiveRows' = ActiveRows
      BY <1>3, <1>6 DEF Changed, ActiveRows
    <2> SUFFICES ASSUME Calm PROVE InOrder(r)'
      OBVIOUS
    <2>2. ActiveRows \subseteq req[r].off
      BY <1>3, <1>4 DEF Calm, InOrder, Past
    <2>3. found = IF rx[Pid(r)].made = None THEN "absent" ELSE "inactive"
      BY <1>1, <1>4, <2>2 DEF ActiveRows
    <2> QED
      BY <1>3, <1>4, <1>6, <1>7, <2>1, <2>2, <2>3 DEF Calm, InOrder, Writing, Past, Saving
  <1> QED
    BY <1>3, <1>5, <1>8, <1>9, <1>10, LocksKept, RequestStep

LEMMA WriteRxStep ==
  ASSUME PrescriptionsAssumption, IInv, NEW r \in Requests, WriteRx(r),
         overlapped' = (overlapped \/ Overlap')
  PROVE  IInv'
  <1>1. PICK q : q = [req[r] EXCEPT !.pc = "commit"]
    OBVIOUS
  <1>2. /\ Become(r, q) /\ req'[r] = q /\ req[r].pc = "writeRx"
        /\ UNCHANGED <<state, rx>> /\ started' \in Times
    BY <1>1, RequestNext DEF WriteRx, IInv, TypeOK
  <1>3. req[r] \in Request /\ Fits(r) /\ Holds(r) /\ Pid(r) \in Pids /\ req[r].off \subseteq Pids
    BY <1>2, Facts DEF Writing
  <1>4. q \in Request
    BY <1>1, <1>3 DEF Request
  <1>5. /\ q.pc = "commit" /\ q.seen = req[r].seen /\ q.input = req[r].input
        /\ q.found = req[r].found
        /\ q.off = req[r].off /\ q.todo = req[r].todo /\ q.cols = req[r].cols
    BY <1>1, <1>3 DEF Request
  <1>6. Pid(r)' = Pid(r)
    BY <1>2, <1>5 DEF Pid
  <1>7. /\ lock' \in [Rows -> Requests \cup {None}] /\ lock'[Pid(r)] = r
        /\ \A k \in Rows, s \in Requests \ {r} : lock[k] = s => lock'[k] = s
        /\ \A k \in Rows : lock[k] = r => lock'[k] = r
    BY <1>3, LocksTaken DEF WriteRx, Rows
  <1>8. Fits(r)' /\ Holds(r)'
    BY <1>2, <1>3, <1>5, <1>6, <1>7 DEF Fits, Holds, Writing, Reading, Past, Saving, Rows
  <1>9. Lost(r)' => Lost(r) /\ q.off = req[r].off
    BY <1>2, <1>5, <1>6 DEF Lost, Saving
  <1>10. ASSUME NEW s \in Writers \ {r}, Before(s, r) PROVE Before(s, r)'
    <2>1. Lost(s)' = Lost(s)
      BY <1>2 DEF Become, IInv, TypeOK, Lost, Pid, Requests
    <2> QED
      BY <1>2, <1>5, <1>10, <2>1 DEF Before, Past, Saving
  <1>11. Calm => InOrder(r)'
    <2>1. Changed(q) = Changed(req[r]) /\ ActiveRows' = ActiveRows
      BY <1>2, <1>5 DEF Changed, ActiveRows
    <2> QED
      BY <1>2, <1>5, <1>6, <2>1 DEF Calm, InOrder, Writing, Past, Saving
  <1> QED
    BY <1>2, <1>4, <1>7, <1>8, <1>9, <1>10, <1>11, RequestStep

LEMMA ReadStep ==
  ASSUME PrescriptionsAssumption, IInv, NEW r \in Requests, ReadRx(r) \/ ReadState(r),
         overlapped' = (overlapped \/ Overlap')
  PROVE  IInv'
  <1>1. /\ req[r].pc \in Reading /\ UNCHANGED <<state, rx, lock>> /\ started' \in Times
        /\ req[r] \in Request /\ Fits(r) /\ req[r].off = {} /\ r \in Readers
    BY Facts DEF ReadRx, ReadState, Reading, Past, Fits, IInv, TypeOK
  <1>2. CASE Become(r, IdleRequest)
    <2>1. req'[r] = IdleRequest
      BY <1>2, RequestNext
    <2>2. (Fits(r) /\ Holds(r) /\ ~Lost(r) /\ InOrder(r))' /\ \A s \in Writers : Before(s, r)'
      BY <2>1 DEF IdleRequest, Fits, Holds, Lost, InOrder, Before, Writing, Reading, Past, Saving
    <2> QED
      BY <1>1, <1>2, <2>2, IdleType, LocksKept, RequestStep
  <1>3. ASSUME NEW p \in ActiveRows,
               Become(r, [req[r] EXCEPT !.pc = "readState", !.input = rx[p].made])
        PROVE  IInv'
    <2>1. PICK q : q = [req[r] EXCEPT !.pc = "readState", !.input = rx[p].made]
      OBVIOUS
    <2>2. Become(r, q) /\ req'[r] = q
      BY <1>3, <2>1, RequestNext
    <2>3. rx[p].made \in MaybeInput
      BY DEF ActiveRows, IInv, TypeOK, Row
    <2>4. q \in Request
      BY <1>1, <2>1, <2>3 DEF Request
    <2>5. /\ q.pc = "readState" /\ q.input = rx[p].made /\ q.off = req[r].off
          /\ q.todo = req[r].todo /\ q.seen = req[r].seen
      BY <1>1, <2>1 DEF Request
    <2>6. (Fits(r) /\ Holds(r) /\ ~Lost(r))' /\ \A s \in Writers : Before(s, r)'
      BY <1>1, <2>2, <2>5 DEF Fits, Holds, Lost, Before, Writing, Reading, Past, Saving
    <2>7. Calm => InOrder(r)'
      BY <1>1, <2>2, <2>5 DEF Calm, InOrder, Writing, Past, Saving
    <2> QED
      BY <1>1, <2>2, <2>4, <2>6, <2>7, LocksKept, RequestStep
  <1> QED
    BY <1>2, <1>3 DEF ReadRx, ReadState

-----------------------------------------------------------------------------
(* The commit.                                                             *)

\* What is stored then.
LEMMA CommitRows ==
  ASSUME PrescriptionsAssumption, IInv, NEW r \in Requests, Commit(r)
  PROVE  /\ state' \in Inputs /\ state' # None
         /\ Pid(r) \in Pids /\ rx' \in [Pids -> Row]
         /\ rx'[Pid(r)].made = req[r].input /\ req[r].input # None
         /\ rx'[Pid(r)].active <=> ~Lost(r)
         /\ \A p \in Pids \ {Pid(r)} :
               /\ rx'[p].made = rx[p].made
               /\ rx'[p].active <=> (rx[p].active /\ p \notin req[r].off)
  <1>1. /\ req[r].pc = "commit" /\ req[r] \in Request /\ Fits(r)
        /\ req[r].input \in Inputs /\ Pid(r) \in Pids
    BY Facts DEF Commit, Writing
  <1>2. state' \in Inputs
    <2>1. \A c \in Columns : c \notin req[r].cols => state \in Inputs
      BY <1>1 DEF Fits, Past, IInv, TypeOK, MaybeInput
    <2>2. \A c \in Columns : (IF c \in req[r].cols THEN req[r].input[c] ELSE state[c]) \in Values
      BY <1>1, <2>1 DEF Inputs
    <2> QED
      BY <2>2 DEF Commit, Inputs
  <1>3. \A p \in Pids : rx'[p] = RxAfterCommit(r, p) /\ rx[p] \in Row
    BY DEF Commit, IInv, TypeOK
  <1>4. /\ rx'[Pid(r)].made = req[r].input /\ rx'[Pid(r)] \in Row
        /\ rx'[Pid(r)].active <=> (req[r].found = "active" => rx[Pid(r)].active)
    <2>1. rx'[Pid(r)] = [made |-> req[r].input,
                         active |-> (req[r].found = "active" => rx[Pid(r)].active), at |-> req[r].at]
      BY <1>1, <1>3 DEF RxAfterCommit
    <2>2. PICK a \in BOOLEAN : a = (req[r].found = "active" => rx[Pid(r)].active)
      OBVIOUS
    <2>3. rx'[Pid(r)] = [made |-> req[r].input, active |-> a, at |-> req[r].at]
      BY <2>1, <2>2, Zenon
    <2>4. req[r].input \in MaybeInput /\ req[r].at \in Times
      BY <1>1 DEF Request
    <2>5. /\ rx'[Pid(r)] \in Row /\ rx'[Pid(r)].made = req[r].input
          /\ rx'[Pid(r)].active = a
      BY <2>3, <2>4 DEF Row
    <2> QED
      BY <2>2, <2>5, Zenon
  <1>5. ASSUME NEW p \in Pids \ {Pid(r)}
        PROVE  /\ rx'[p].made = rx[p].made /\ rx'[p] \in Row
               /\ rx'[p].active <=> (rx[p].active /\ p \notin req[r].off)
    <2>1. rx'[p] = [rx[p] EXCEPT !.active = rx[p].active /\ p \notin req[r].off]
      BY <1>3 DEF RxAfterCommit
    <2> QED
      BY <1>3, <2>1 DEF Row
  <1>6. rx' \in [Pids -> Row]
    <2>1. rx' = [p \in Pids |-> rx'[p]]
      BY DEF Commit
    <2> QED
      BY <1>4, <1>5, <2>1
  <1>7. rx'[Pid(r)].active <=> ~Lost(r)
    BY <1>1, <1>4 DEF Lost, Saving
  <1> QED
    BY <1>1, <1>2, <1>4, <1>5, <1>6, <1>7 DEF PrescriptionsAssumption

LEMMA CommitRecords ==
  ASSUME PrescriptionsAssumption, IInv, NEW r \in Requests, Commit(r)
  PROVE  /\ req'[r] = IdleRequest /\ \A s \in Requests \ {r} : req'[s] = req[s]
         /\ req' \in [Requests -> Request]
         /\ lock' \in [Rows -> Requests \cup {None}]
         /\ \A k \in Rows, s \in Requests \ {r} : lock[k] = s => lock'[k] = s
  <1>1. req' = [req EXCEPT ![r] = IdleRequest] /\ Release(r)
    BY DEF Commit, Become
  <1> QED
    BY <1>1, IdleType DEF Release, PrescriptionsAssumption, IInv, TypeOK

\* Of two writers: the one that commits leaves its own row active, which the other has
\* not locked; or it has lost its row, and then the other one has yet to commit all of
\* its own changes.
LEMMA CommitOfTwo ==
  ASSUME PrescriptionsAssumption, IInv, NEW r \in Requests, Commit(r), Two
  PROVE  TwoWriters'
  <1> USE CommitRows, CommitRecords
  <1>1. /\ r \in Writers /\ TwoWriters /\ Holds(r) /\ lock[Pid(r)] = r /\ Pid(r) \in Pids
        /\ req[r].pc = "commit"
    BY Facts DEF Commit, IInv, Holds, Writing
  <1>2. ~Lost(r)' /\ req'[r].pc \notin Past
    BY DEF IdleRequest, Lost, Saving, Past
  <1>3. CASE ~Lost(r)
    <2>1. rx'[Pid(r)].active
      BY <1>3
    <2>2. \A s \in Writers \ {r} : Pid(r) \notin req[s].off /\ req'[s] = req[s]
      BY <1>1, Facts DEF Holds, Requests
    <2>3. \A s \in Writers : Spares(s)'
      BY <1>1, <1>2, <2>1, <2>2 DEF Spares
    <2> QED
      BY <1>1, <1>2, <2>1, <2>3 DEF TwoWriters, SomePrescription, ActiveRows, Before, Two
  <1>4. CASE Lost(r)
    <2>1. PICK p \in Pids \ req[r].off : rx[p].active
      BY <1>1, <1>4 DEF TwoWriters, Spares
    <2>2. p # Pid(r) /\ rx'[p].active
      BY <1>4, <2>1 DEF Lost
    <2>3. ASSUME NEW s \in Writers \ {r} PROVE ~Lost(s)'
      <3>1. req'[s] = req[s] /\ Before(r, s)
        BY <1>1 DEF TwoWriters, Requests
      <3> QED
        BY <1>4, <3>1 DEF Before, Lost, Saving, Past
    <2>4. \A s \in Writers : Spares(s)' /\ \A x \in Writers : Before(s, x)'
      BY <1>2, <2>3 DEF Spares, Before
    <2> QED
      BY <2>2, <2>4 DEF TwoWriters, SomePrescription, ActiveRows
  <1> QED
    BY <1>3, <1>4

\* Alone, it makes its own row the one that is active, for the state it has written.
LEMMA CommitAlone ==
  ASSUME PrescriptionsAssumption, IInv, NEW r \in Requests, Commit(r), Calm
  PROVE  Calm' /\ state' = req[r].input /\ ~Lost(r)
  <1> USE CommitRows, CommitRecords
  <1>1. /\ req[r].pc = "commit" /\ req[r] \in Request /\ Fits(r) /\ InOrder(r)
        /\ req[r].input \in Inputs /\ req[r].todo = {}
    BY Facts DEF Commit, Calm, Fits, Writing, Saving
  <1>2. \A s \in Requests : req'[s].pc = "idle"
    BY <1>1 DEF Calm, IdleRequest
  <1>3. state' = req[r].input
    <2>1. req[r].cols = Changed(req[r]) /\ req[r].seen = state
      BY <1>1 DEF InOrder, Past, Writing
    <2>2. \A c \in Columns : (IF c \in req[r].cols THEN req[r].input[c] ELSE state[c]) = req[r].input[c]
      BY <2>1 DEF Changed
    <2> QED
      BY <1>1, <2>2 DEF Commit, Inputs
  <1>4. ~Lost(r) /\ ActiveRows \subseteq req[r].off
    BY <1>1 DEF InOrder, Lost, Past, Saving
  <1>5. ActiveRows' = {Pid(r)}
    BY <1>4 DEF ActiveRows
  <1>6. \A s \in Requests : InOrder(s)'
    BY <1>2 DEF InOrder, Writing, Past, Saving
  <1> QED
    BY <1>2, <1>3, <1>4, <1>5, <1>6 DEF Calm

LEMMA CommitStep ==
  ASSUME PrescriptionsAssumption, IInv, NEW r \in Requests, Commit(r),
         overlapped' = (overlapped \/ Overlap')
  PROVE  IInv'
  <1> USE CommitRows, CommitRecords
  <1>1. TypeOK'
    BY DEF Commit, IInv, TypeOK, MaybeInput
  <1>2. RowsFit'
    BY DEF IInv, RowsFit
  <1>3. Fits(r)' /\ Holds(r)'
    BY DEF IdleRequest, Fits, Holds, Writing, Reading, Past, Saving
  <1>4. ASSUME NEW s \in Requests \ {r} PROVE Fits(s)' /\ Holds(s)'
    <2>1. Fits(s) /\ Holds(s) /\ req[s].off \subseteq Pids /\ (req[s].pc = "commit" => Pid(s) \in Pids)
      BY Facts DEF Writing
    <2>2. req'[s] = req[s] /\ Pid(s)' = Pid(s)
      BY DEF Pid
    <2> QED
      BY <2>1, <2>2 DEF Fits, Holds, Rows
  <1> QED
    BY <1>1, <1>2, <1>3, <1>4, CommitOfTwo, CommitAlone DEF IInv

-----------------------------------------------------------------------------
(* The theorems.                                                           *)

LEMMA NextIInv == ASSUME PrescriptionsAssumption, IInv, [Next]_vars PROVE IInv'
  <1>1. CASE Next
    <2>1. overlapped' = (overlapped \/ Overlap')
      BY <1>1 DEF Next
    <2>2. ASSUME NEW r \in Requests, StateConflict(r) \/ RxConflict(r) \/ AbortDeadlocked(r)
          PROVE  IInv'
      BY <2>1, <2>2, RollbackStep DEF StateConflict, RxConflict, AbortDeadlocked
    <2>3. ASSUME NEW r \in Requests, Handle(r) PROVE IInv'
      BY <2>1, <2>2, <2>3, LoadStateStep, WriteStateStep, DeactivateStep, LockRowStep, FindStep,
         WriteRxStep, CommitStep, ReadStep DEF Handle
    <2>4. ASSUME NEW r \in Requests,
                 (r \in Writers /\ StartDiagnose(r)) \/ (r \in Readers /\ StartGet(r))
          PROVE  IInv'
      BY <2>1, <2>4, StartStep
    <2> QED
      BY <1>1, <2>3, <2>4, Zenon DEF Next, Step, Requests
  <1>2. CASE UNCHANGED vars
    <2>1. \A r \in Requests : /\ Lost(r)' = Lost(r) /\ Fits(r)' = Fits(r) /\ Holds(r)' = Holds(r)
                              /\ InOrder(r)' = InOrder(r)
      BY <1>2 DEF vars, server, Lost, Fits, Holds, InOrder, Pid, ActiveRows, Changed
    <2>2. TypeOK' /\ RowsFit' /\ ActiveRows' = ActiveRows
      BY <1>2 DEF vars, server, IInv, TypeOK, RowsFit, ActiveRows
    <2>3. Two => TwoWriters'
      BY <1>2, <2>1, <2>2 DEF vars, server, IInv, TwoWriters, SomePrescription, Spares, Before, Requests
    <2>4. ~overlapped' => Calm'
      BY <1>2, <2>1, <2>2 DEF vars, server, IInv, Calm
    <2> QED
      BY <2>1, <2>2, <2>3, <2>4 DEF IInv
  <1> QED
    BY <1>1, <1>2

\* What the diagnoses know of the rows and of the locks of each other.
THEOREM PrescriptionsInvariance ==
  ASSUME PrescriptionsAssumption
  PROVE  Spec => []IInv
  BY InitIInv, NextIInv, PTL DEF Spec

LEMMA AtMostTwo ==
  ASSUME PrescriptionsAssumption, Cardinality(Writers) <= 2
  PROVE  Two
  <1> SUFFICES ASSUME NEW r \in Writers, NEW s \in Writers, NEW x \in Writers, r # s, x \notin {r, s}
               PROVE  FALSE
    BY DEF Two
  <1>1. IsFiniteSet({r}) /\ Cardinality({r}) = 1
    BY FS_Singleton
  <1>2. IsFiniteSet({r} \cup {s}) /\ Cardinality({r} \cup {s}) = 2
    BY <1>1, FS_AddElement
  <1>3. Cardinality(({r} \cup {s}) \cup {x}) = 3
    BY <1>2, FS_AddElement
  <1>4. Cardinality(({r} \cup {s}) \cup {x}) <= Cardinality(Writers) /\ Cardinality(Writers) \in Nat
    BY FS_Subset, FS_CardinalityType DEF PrescriptionsAssumption
  <1> QED
    BY <1>3, <1>4

LEMMA Prescribes == ASSUME PrescriptionsAssumption, IInv PROVE OnePrescription
  <1>1. AlwaysPrescribed
    BY AtMostTwo DEF IInv, TwoWriters, RowsFit, AlwaysPrescribed
  <1>2. OneFitsState
    BY DEF IInv, Calm, OneFitsState
  <1> QED
    BY <1>1, <1>2 DEF IInv, OnePrescription

\* save_prescription: of two diagnoses of a user that overlap anywhere, however often,
\* one always leaves a prescription active; as long as requests do not overlap, one
\* prescription is active, for the stored state.
THEOREM OneIsPrescribed ==
  ASSUME PrescriptionsAssumption
  PROVE  Spec => []OnePrescription
  BY Prescribes, PrescriptionsInvariance, PTL

LEMMA AnswersGood == ASSUME PrescriptionsAssumption, IInv, [Next]_vars PROVE [AnswersStep]_vars
  <1>1. ASSUME Next, ~overlapped', NEW r \in Requests
        PROVE  /\ req[r].pc = "readState" /\ req'[r].pc = "idle" => req[r].input = state
               /\ req[r].pc = "commit" /\ req'[r].pc = "idle" =>
                      rx'[Pid(r)].active /\ rx'[Pid(r)].made = req[r].input
               /\ ~ (StateConflict(r) \/ RxConflict(r))
    <2>1. Calm /\ InOrder(r)
      BY <1>1 DEF IInv, Next, Calm
    <2>2. ~StateConflict(r) /\ ~RxConflict(r)
      BY <2>1 DEF InOrder, StateConflict, RxConflict, Writing, Saving
    <2>3. ASSUME req[r].pc = "commit", req'[r].pc = "idle"
          PROVE  rx'[Pid(r)].active /\ rx'[Pid(r)].made = req[r].input
      <3>1. ASSUME NEW s \in Requests, Handle(s) PROVE Commit(r)
        <4>1. s = r
          BY <1>1, <2>3, <3>1 DEF Handle, LoadState, WriteState, StateConflict, Deactivate, LockRow,
             FindExisting, WriteRx, RxConflict, Commit, AbortDeadlocked, ReadRx, ReadState, Rollback,
             Become, IInv, TypeOK
        <4>2. ~AbortDeadlocked(r)
          BY <2>3 DEF AbortDeadlocked, Deadlocked, WaitsFor, Wants
        <4> QED
          BY <2>3, <3>1, <4>1, <4>2, ZenonT(60) DEF Handle, LoadState, WriteState, StateConflict, Deactivate,
             LockRow, FindExisting, WriteRx, RxConflict, ReadRx, ReadState
      <3>2. ASSUME NEW s \in Requests, StartDiagnose(s) \/ StartGet(s) PROVE FALSE
        BY <1>1, <2>3, <3>2 DEF StartDiagnose, StartGet, Become, IInv, TypeOK
      <3>3. Commit(r)
        BY <1>1, <3>1, <3>2 DEF Next, Step, Requests
      <3> QED
        BY <1>1, <2>1, <3>3, CommitAlone, CommitRows
    <2>4. req[r].pc = "readState" => req[r].input = state
      BY <2>1 DEF InOrder
    <2> QED
      BY <2>2, <2>3, <2>4
  <1> QED
    BY <1>1 DEF AnswersStep

\* Then GET /prescription answers with the state the prescription was made for, a diagnosis
\* that commits leaves its own prescription active, and no primary key refuses a row.
THEOREM InOrderAnswers ==
  ASSUME PrescriptionsAssumption
  PROVE  Spec => AnswersInOrder
  BY AnswersGood, PrescriptionsInvariance, PTL DEF Spec, AnswersInOrder
=============================================================================
