----------------------------- MODULE ServerProofs -----------------------------
(***************************************************************************)
(* Theorems about Server: for any sets of users, logs, questions, items,   *)
(* prescriptions and requests, interleaved at their SQL statements.        *)
(***************************************************************************)
EXTENDS Server, FiniteSets, TLAPS

-----------------------------------------------------------------------------
(* The learner's records.  The inductive invariant, in named parts.        *)

\* What the record of a request holds at each of its statements.
Fits(q) ==
    /\ q.pc # "idle" => q.user \in Users
    /\ q.op \in {"attempt", "open"} => q.q \in Questions
    /\ q.op = "add" => q.log \in LogIds /\ q.body \in Bodies
    /\ q.op = "open" <=> q.pc \in {"gate", "serve"}
    /\ q.op = "none" <=> q.pc = "idle"
    /\ q.pc \in {"get", "conflict", "count"} => q.op = "add"
    /\ q.pc = "delete" => q.op \in {"clear", "clearAttempts"}

\* The rows it has changed: the one it has inserted, or those it has deleted.
Changes(q) ==
    /\ q.gone # {} => q.pc = "commit" /\ q.op \in {"clear", "clearAttempts"}
    /\ q.row # None => q.pc \in {"commit", "count"} /\ q.op \in {"add", "attempt"}
    /\ q.op = "attempt" /\ q.pc = "commit" => q.row \in AttemptIds
    /\ q.op = "add" /\ q.row # None => q.row = <<q.user, q.log>>
    /\ q.op = "clear" => q.gone \subseteq LogKeys /\ \A k \in q.gone : k[1] = q.user
    /\ q.op = "clearAttempts" => q.gone \subseteq AttemptIds

\* Until it ends no other transaction changes these rows: the tables still hold what the
\* statements have seen.
Backed(r) ==
    req[r].pc = "commit" =>
        /\ \A k \in req[r].gone : lock[k] = r
        /\ req[r].row # None => lock[req[r].row] = r
        /\ req[r].row \in LogKeys => logs[req[r].row] = None
        /\ req[r].row \in AttemptIds => attempts[req[r].row] = None /\ req[r].row \in used
        /\ \A i \in req[r].gone \cap AttemptIds :
              attempts[i] # None /\ attempts[i][1] = req[r].user

\* A reader knows every attempt that is on record.
Knows(r) ==
    /\ req[r].op = "open" => OnRecord(attempts) \subseteq req[r].since
    /\ req[r].pc = "serve" => <<req[r].user, req[r].q>> \in req[r].since

IInv ==
    /\ TypeOK
    /\ \A i \in AttemptIds : attempts[i] # None => i \in used
    /\ \A r \in Slots : Fits(req[r]) /\ Changes(req[r]) /\ Backed(r) /\ Knows(r)

-----------------------------------------------------------------------------
(* Type correctness of the records.                                        *)

LEMMA IdleType == Idle \in Request
  BY DEF Idle, Request

LEMMA IdleFits == Fits(Idle) /\ Changes(Idle)
  BY DEF Idle, Fits, Changes

LEMMA InitIInv == ASSUME LearnerRecordsAssumption, Init PROVE IInv
  <1>1. TypeOK
    BY IdleType DEF LearnerRecordsAssumption, Init, TypeOK
  <1>2. ASSUME NEW r \in Slots PROVE Fits(req[r]) /\ Changes(req[r]) /\ Backed(r) /\ Knows(r)
    <2>1. req[r] = Idle
      BY DEF Init
    <2> QED
      BY <2>1, IdleFits DEF Idle, Backed, Knows
  <1> QED
    BY <1>1, <1>2 DEF IInv, Init

-----------------------------------------------------------------------------
(* Steps that change the record of one request only.                       *)

\* The request holds no lock and takes none.
LEMMA LocalStep ==
  ASSUME LearnerRecordsAssumption, IInv, NEW r \in Slots, NEW q \in Request, Become(r, q),
         UNCHANGED <<logs, attempts, used, lock, told>>,
         req[r].pc # "commit",
         Fits(q), Changes(q), Backed(r)', Knows(r)'
  PROVE  IInv'
  <1>1. req'[r] = q /\ \A s \in Slots \ {r} : req'[s] = req[s]
    BY DEF Become, IInv, TypeOK
  <1>2. TypeOK'
    <2>1. req' \in [Slots -> Request]
      BY DEF Become, IInv, TypeOK
    <2>2. \A k \in Keys : lock[k] # r
      BY DEF LearnerRecordsAssumption, IInv, TypeOK
    <2> QED
      BY <1>1, <2>1, <2>2 DEF IInv, TypeOK
  <1>3. ASSUME NEW s \in Slots \ {r}
        PROVE  (Fits(req[s]) /\ Changes(req[s]) /\ Backed(s) /\ Knows(s))'
    <2>1. Fits(req[s]) /\ Changes(req[s]) /\ Backed(s) /\ Knows(s)
      BY DEF IInv
    <2> QED
      BY <1>1, <2>1 DEF Backed, Knows
  <1> QED
    BY <1>1, <1>2, <1>3 DEF IInv

LEMMA ReqFields ==
  ASSUME IInv, NEW r \in Slots
  PROVE  req[r] \in Request /\ Fits(req[r]) /\ Changes(req[r]) /\ Backed(r) /\ Knows(r)
  BY DEF IInv, TypeOK

LEMMA BecomeRecord ==
  ASSUME IInv, NEW r \in Slots, NEW q, Become(r, q)
  PROVE  req'[r] = q /\ \A s \in Slots \ {r} : req'[s] = req[s]
  BY DEF Become, IInv, TypeOK

LEMMA StartStep ==
  ASSUME LearnerRecordsAssumption, IInv, NEW r \in Slots,
         StartAdd(r) \/ StartClear(r) \/ StartAttempt(r) \/ StartOpen(r)
  PROVE  IInv'
  <1> USE DEF LearnerRecordsAssumption
  <1>1. ASSUME NEW q \in Request, Start(r, q), Fits(q), Changes(q),
               q.pc \notin {"commit", "serve"}, q.op = "open" => q.since = OnRecord(attempts)
        PROVE  IInv'
    <2>1. req'[r] = q
      BY <1>1, BecomeRecord DEF Start
    <2>2. Backed(r)' /\ Knows(r)'
      BY <1>1, <2>1 DEF Start, Backed, Knows, OnRecord
    <2> QED
      BY <1>1, <2>2, LocalStep DEF Start
  <1>2. CASE StartAdd(r)
    <2>1. PICK u \in Users, l \in LogIds, b \in Bodies :
             Start(r, [Idle EXCEPT !.pc = "get", !.op = "add", !.user = u, !.log = l, !.body = b])
      BY <1>2 DEF StartAdd
    <2> DEFINE q == [Idle EXCEPT !.pc = "get", !.op = "add", !.user = u, !.log = l, !.body = b]
    <2>2. q \in Request /\ Fits(q) /\ Changes(q) /\ q.pc = "get" /\ q.op = "add"
      BY DEF Idle, Request, Fits, Changes
    <2> QED
      BY <1>1, <2>1, <2>2
  <1>3. CASE StartClear(r)
    <2>1. PICK u \in Users, op \in {"clear", "clearAttempts"} :
             Start(r, [Idle EXCEPT !.pc = "delete", !.op = op, !.user = u])
      BY <1>3 DEF StartClear
    <2> DEFINE q == [Idle EXCEPT !.pc = "delete", !.op = op, !.user = u]
    <2>2. q \in Request /\ Fits(q) /\ Changes(q) /\ q.pc = "delete" /\ q.op # "open"
      BY DEF Idle, Request, Fits, Changes
    <2> QED
      BY <1>1, <2>1, <2>2
  <1>4. CASE StartAttempt(r)
    <2>1. PICK u \in Users, x \in Questions :
             Start(r, [Idle EXCEPT !.pc = "insert", !.op = "attempt", !.user = u, !.q = x])
      BY <1>4 DEF StartAttempt
    <2> DEFINE q == [Idle EXCEPT !.pc = "insert", !.op = "attempt", !.user = u, !.q = x]
    <2>2. q \in Request /\ Fits(q) /\ Changes(q) /\ q.pc = "insert" /\ q.op # "open"
      BY DEF Idle, Request, Fits, Changes
    <2> QED
      BY <1>1, <2>1, <2>2
  <1>5. CASE StartOpen(r)
    <2>1. PICK u \in Users, x \in Questions :
             Start(r, [Idle EXCEPT !.pc = "gate", !.op = "open", !.user = u, !.q = x,
                                   !.since = OnRecord(attempts)])
      BY <1>5 DEF StartOpen
    <2> DEFINE q == [Idle EXCEPT !.pc = "gate", !.op = "open", !.user = u, !.q = x,
                                 !.since = OnRecord(attempts)]
    <2>2. OnRecord(attempts) \subseteq Pairs
      BY DEF IInv, TypeOK, OnRecord
    <2>3. q \in Request /\ Fits(q) /\ Changes(q) /\ q.pc = "gate" /\ q.since = OnRecord(attempts)
      BY <2>2 DEF Idle, Request, Fits, Changes
    <2> QED
      BY <1>1, <2>1, <2>3
  <1> QED
    BY <1>2, <1>3, <1>4, <1>5

\* Moving on without a lock: the SELECT of POST /logs, its refused INSERT, its count,
\* and the two steps of a reader.
LEMMA MoveStep ==
  ASSUME LearnerRecordsAssumption, IInv, NEW r \in Slots,
         GetLog(r) \/ LogConflict(r) \/ Count(r) \/ Gate(r) \/ Serve(r)
  PROVE  IInv'
  <1> USE ReqFields DEF LearnerRecordsAssumption
  <1>1. CASE GetLog(r)
    <2> DEFINE q == [req[r] EXCEPT !.pc = IF logs[Key(r)] = None THEN "insert" ELSE "commit"]
    <2>1. q \in Request /\ Fits(q) /\ Changes(q) /\ q.row = None /\ q.gone = {} /\ q.op = "add"
      BY <1>1 DEF GetLog, Request, Fits, Changes
    <2>2. Become(r, q) /\ req'[r] = q /\ req[r].pc = "get"
      BY <1>1, BecomeRecord DEF GetLog
    <2>3. Backed(r)' /\ Knows(r)'
      BY <2>1, <2>2 DEF Backed, Knows, Fits, Keys
    <2> QED
      BY <1>1, <2>1, <2>2, <2>3, LocalStep DEF GetLog
  <1>2. CASE LogConflict(r)
    <2> DEFINE q == [req[r] EXCEPT !.pc = "conflict"]
    <2>1. q \in Request /\ Fits(q) /\ Changes(q) /\ q.pc = "conflict" /\ q.op = "add"
      BY <1>2 DEF LogConflict, Request, Fits, Changes
    <2>2. Become(r, q) /\ req'[r] = q /\ req[r].pc = "insert"
      BY <1>2, BecomeRecord DEF LogConflict
    <2>3. Backed(r)' /\ Knows(r)'
      BY <2>1, <2>2 DEF Backed, Knows
    <2> QED
      BY <1>2, <2>1, <2>2, <2>3, LocalStep DEF LogConflict
  <1>3. ASSUME Become(r, Idle), req[r].pc # "commit", UNCHANGED <<logs, attempts, used, lock, told>>
        PROVE  IInv'
    <2>1. req'[r] = Idle
      BY <1>3, BecomeRecord
    <2>2. Backed(r)' /\ Knows(r)'
      BY <2>1 DEF Idle, Backed, Knows
    <2> QED
      BY <1>3, <2>2, IdleType, IdleFits, LocalStep
  <1>4. CASE Count(r)
    BY <1>3, <1>4 DEF Count
  <1>5. CASE Gate(r)
    <2>1. CASE req[r].q \in AttemptedIds(req[r].user)
      <3> DEFINE q == [req[r] EXCEPT !.pc = "serve"]
      <3>1. q \in Request /\ Fits(q) /\ Changes(q) /\ q.pc = "serve"
        BY <1>5 DEF Gate, Request, Fits, Changes
      <3>2. Become(r, q) /\ req'[r] = q /\ req[r].pc = "gate"
        BY <1>5, <2>1, BecomeRecord DEF Gate
      <3>3. PICK p \in OnRecord(attempts) : p[1] = req[r].user /\ p[2] = req[r].q
        BY <2>1 DEF AttemptedIds
      <3>4. p = <<req[r].user, req[r].q>> /\ p \in req[r].since
        BY <3>2, <3>3 DEF Fits, Knows, OnRecord, IInv, TypeOK, Pairs
      <3>5. Backed(r)' /\ Knows(r)'
        BY <1>5, <3>1, <3>2, <3>4 DEF Gate, Backed, Knows, OnRecord
      <3> QED
        BY <1>5, <3>1, <3>2, <3>5, LocalStep DEF Gate
    <2>2. CASE req[r].q \notin AttemptedIds(req[r].user)
      BY <1>3, <1>5, <2>2 DEF Gate
    <2> QED
      BY <2>1, <2>2
  <1>6. CASE Serve(r)
    BY <1>3, <1>6 DEF Serve
  <1> QED
    BY <1>1, <1>2, <1>4, <1>5, <1>6

-----------------------------------------------------------------------------
(* Steps that take locks.                                                  *)

\* The transaction takes locks that are free, and goes on to its commit.
LEMMA LockStep ==
  ASSUME LearnerRecordsAssumption, IInv, NEW r \in Slots, NEW q \in Request, Become(r, q),
         UNCHANGED <<logs, attempts, told>>,
         req[r].pc # "commit", q.pc = "commit", q.op # "open",
         NEW S \in SUBSET Keys, S = q.gone \cup ({q.row} \ {None}),
         \A k \in S : lock[k] = None,
         lock' = [k \in Keys |-> IF k \in S THEN r ELSE lock[k]],
         used \subseteq used', used' \subseteq AttemptIds,
         Fits(q), Changes(q),
         q.row \in LogKeys => logs[q.row] = None,
         q.row \in AttemptIds => attempts[q.row] = None /\ q.row \in used',
         \A i \in q.gone \cap AttemptIds : attempts[i] # None /\ attempts[i][1] = q.user
  PROVE  IInv'
  <1> USE DEF LearnerRecordsAssumption
  <1>1. req'[r] = q /\ \A s \in Slots \ {r} : req'[s] = req[s]
    BY BecomeRecord
  <1>2. \A k \in Keys : lock[k] # r
    BY DEF IInv, TypeOK
  <1>3. TypeOK'
    <2>1. req' \in [Slots -> Request] /\ lock' \in [Keys -> Slots \cup {None}]
      BY DEF Become, IInv, TypeOK
    <2>2. ASSUME NEW k \in Keys, lock'[k] # None
          PROVE  k \in req'[lock'[k]].gone \cup {req'[lock'[k]].row} /\ req'[lock'[k]].pc = "commit"
      <3>1. CASE k \in S
        BY <1>1, <3>1
      <3>2. CASE k \notin S
        <4>1. lock'[k] = lock[k] /\ lock[k] \in Slots \ {r}
          BY <1>2, <2>2, <3>2 DEF IInv, TypeOK
        <4> QED
          BY <1>1, <2>2, <4>1 DEF IInv, TypeOK
      <3> QED
        BY <3>1, <3>2
    <2> QED
      BY <2>1, <2>2 DEF IInv, TypeOK
  <1>4. Backed(r)' /\ Knows(r)'
    <2>1. \A k \in S : lock'[k] = r
      OBVIOUS
    <2>2. Knows(r)'
      BY <1>1 DEF Knows
    <2>3. Backed(r)'
      BY <1>1, <2>1 DEF Backed
    <2> QED
      BY <2>2, <2>3
  <1>5. ASSUME NEW s \in Slots \ {r}
        PROVE  (Fits(req[s]) /\ Changes(req[s]) /\ Backed(s) /\ Knows(s))'
    <2>1. Fits(req[s]) /\ Changes(req[s]) /\ Backed(s) /\ Knows(s) /\ req[s] \in Request
      BY ReqFields
    <2>2. \A k \in Keys : lock[k] = s => lock'[k] = s
      OBVIOUS
    <2>3. (Fits(req[s]) /\ Changes(req[s]) /\ Knows(s))'
      BY <1>1, <2>1 DEF Knows, OnRecord
    <2>4. Backed(s)'
      BY <1>1, <2>1, <2>2 DEF Backed, Request
    <2> QED
      BY <2>3, <2>4
  <1> QED
    BY <1>1, <1>3, <1>4, <1>5 DEF IInv

LEMMA InsertLogStep ==
  ASSUME LearnerRecordsAssumption, IInv, NEW r \in Slots, InsertLog(r)
  PROVE  IInv'
  <1>1. req[r].op = "add" /\ req[r].pc = "insert" /\ Key(r) \in LogKeys /\ Key(r) \in Keys
    BY ReqFields DEF InsertLog, Fits, Key, LogKeys, Keys
  <1>2. Key(r) # None /\ Key(r) \notin AttemptIds
    BY <1>1 DEF LearnerRecordsAssumption
  <1>3. PICK q : q = [req[r] EXCEPT !.pc = "commit", !.row = Key(r)]
    OBVIOUS
  <1>4. /\ q \in Request
        /\ q.pc = "commit" /\ q.row = Key(r)
        /\ q.op = "add" /\ q.user = req[r].user /\ q.log = req[r].log /\ q.body = req[r].body
        /\ q.gone = {}
    BY <1>1, <1>3, ReqFields, ZenonT(60) DEF Request, Changes
  <1>5. Fits(q) /\ Changes(q)
    BY <1>1, <1>4, ReqFields DEF Fits, Changes, Key
  <1>6. lock' = [k \in Keys |-> IF k \in {Key(r)} THEN r ELSE lock[k]]
    BY <1>1 DEF InsertLog, IInv, TypeOK
  <1>7. {Key(r)} \in SUBSET Keys /\ {Key(r)} = q.gone \cup ({q.row} \ {None})
    BY <1>1, <1>2, <1>4
  <1>8. /\ Become(r, q) /\ UNCHANGED <<logs, attempts, told>>
        /\ used \subseteq used' /\ used' \subseteq AttemptIds
        /\ \A k \in {Key(r)} : lock[k] = None
        /\ logs[Key(r)] = None
    BY <1>3 DEF InsertLog, IInv, TypeOK
  <1> QED
    BY <1>1, <1>2, <1>4, <1>5, <1>6, <1>7, <1>8, LockStep

\* The id of an attempt is new: nobody has it on record or is about to.
LEMMA InsertAttemptStep ==
  ASSUME LearnerRecordsAssumption, IInv, NEW r \in Slots, InsertAttempt(r)
  PROVE  IInv'
  <1>1. PICK i \in AttemptIds \ used :
           /\ used' = used \cup {i}
           /\ lock' = [lock EXCEPT ![i] = r]
           /\ Become(r, [req[r] EXCEPT !.pc = "commit", !.row = i])
    BY DEF InsertAttempt
  <1>2. i \in Keys /\ i # None /\ i \notin LogKeys
    BY DEF LearnerRecordsAssumption, Keys
  <1>3. PICK q : q = [req[r] EXCEPT !.pc = "commit", !.row = i]
    OBVIOUS
  <1>4. /\ q \in Request
        /\ q.pc = "commit" /\ q.row = i
        /\ q.op = "attempt" /\ q.user = req[r].user /\ q.q = req[r].q
        /\ q.gone = {}
    <2>1. req[r] \in Request /\ req[r].op = "attempt" /\ req[r].gone = {}
      BY ReqFields DEF InsertAttempt, Changes
    <2>2. q \in Request
      BY <1>2, <1>3, <2>1 DEF Request
    <2> QED
      BY <1>3, <2>1, <2>2 DEF Request
  <1>5. Fits(q) /\ Changes(q)
    BY <1>4, ReqFields DEF InsertAttempt, Fits, Changes
  <1>6. lock[i] = None
    <2> SUFFICES ASSUME lock[i] # None PROVE FALSE
      OBVIOUS
    <2>1. PICK s \in Slots : s = lock[i]
      BY <1>2 DEF IInv, TypeOK
    <2>2. i \in req[s].gone \cup {req[s].row} /\ req[s].pc = "commit"
      BY <1>2, <2>1 DEF IInv, TypeOK
    <2> QED
      BY <2>2, ReqFields DEF Backed, IInv
  <1>7. lock' = [k \in Keys |-> IF k \in {i} THEN r ELSE lock[k]]
    BY <1>1, <1>2 DEF IInv, TypeOK
  <1>8. {i} \in SUBSET Keys /\ {i} = q.gone \cup ({q.row} \ {None})
    BY <1>2, <1>4
  <1>9. /\ Become(r, q) /\ UNCHANGED <<logs, attempts, told>> /\ req[r].pc # "commit"
        /\ used \subseteq used' /\ used' \subseteq AttemptIds /\ i \in used'
        /\ \A k \in {i} : lock[k] = None
        /\ attempts[i] = None
    BY <1>1, <1>3, <1>6 DEF InsertAttempt, IInv, TypeOK
  <1> QED
    BY <1>2, <1>4, <1>5, <1>7, <1>8, <1>9, LockStep

LEMMA DeleteStep ==
  ASSUME LearnerRecordsAssumption, IInv, NEW r \in Slots, Delete(r)
  PROVE  IInv'
  <1>1. /\ RowsOfUser(r) \subseteq Keys
        /\ req[r].op = "clear" => RowsOfUser(r) \subseteq LogKeys
                                  /\ \A k \in RowsOfUser(r) : k[1] = req[r].user
        /\ req[r].op # "clear" => RowsOfUser(r) \subseteq AttemptIds
                                  /\ \A i \in RowsOfUser(r) : attempts[i] # None /\ attempts[i][1] = req[r].user
    BY DEF RowsOfUser, Keys
  <1>2. req[r].op \in {"clear", "clearAttempts"} /\ req[r].row = None
    BY ReqFields DEF Delete, Fits, Changes
  <1>3. PICK q : q = [req[r] EXCEPT !.pc = "commit", !.gone = RowsOfUser(r)]
    OBVIOUS
  <1>4. /\ q \in Request
        /\ q.pc = "commit" /\ q.gone = RowsOfUser(r) /\ q.row = None
        /\ q.op = req[r].op /\ q.user = req[r].user
    <2>1. req[r] \in Request /\ RowsOfUser(r) \in SUBSET Keys
      BY <1>1, ReqFields
    <2>2. q \in Request
      BY <1>3, <2>1 DEF Request
    <2> QED
      BY <1>2, <1>3, <2>1, <2>2 DEF Request
  <1>5. Fits(q) /\ Changes(q)
    BY <1>1, <1>2, <1>4, ReqFields DEF Delete, Fits, Changes
  <1>6. \A i \in q.gone \cap AttemptIds : attempts[i] # None /\ attempts[i][1] = q.user
    BY <1>1, <1>2, <1>4 DEF LearnerRecordsAssumption
  <1>7. None \notin LogKeys /\ None \notin AttemptIds
    BY DEF LearnerRecordsAssumption, Keys
  <1>8. RowsOfUser(r) \in SUBSET Keys /\ RowsOfUser(r) = q.gone \cup ({q.row} \ {None})
    BY <1>1, <1>4
  <1>9. /\ Become(r, q) /\ UNCHANGED <<logs, attempts, told>> /\ req[r].pc # "commit"
        /\ used \subseteq used' /\ used' \subseteq AttemptIds
        /\ \A k \in RowsOfUser(r) : lock[k] = None
        /\ lock' = [k \in Keys |-> IF k \in RowsOfUser(r) THEN r ELSE lock[k]]
    BY <1>3 DEF Delete, IInv, TypeOK
  <1> QED
    BY <1>2, <1>4, <1>5, <1>6, <1>7, <1>8, <1>9, LockStep

-----------------------------------------------------------------------------
(* The end of a transaction.                                               *)

LEMMA ReleaseLocks ==
  ASSUME LearnerRecordsAssumption, IInv, NEW r \in Slots
  PROVE  /\ Release(r) \in [Keys -> Slots \cup {None}]
         /\ \A k \in Keys : /\ Release(r)[k] # r
                            /\ lock[k] # r => Release(r)[k] = lock[k]
  BY DEF LearnerRecordsAssumption, Release, IInv, TypeOK

LEMMA RollBackStep ==
  ASSUME LearnerRecordsAssumption, IInv, NEW r \in Slots, RollBack(r)
  PROVE  IInv'
  <1>1. req'[r] = Idle /\ \A s \in Slots \ {r} : req'[s] = req[s]
    BY BecomeRecord DEF RollBack
  <1>2. /\ lock' \in [Keys -> Slots \cup {None}]
        /\ \A k \in Keys : lock'[k] # r /\ (lock[k] # r => lock'[k] = lock[k])
    BY ReleaseLocks DEF RollBack
  <1>3. TypeOK'
    <2>1. req' \in [Slots -> Request]
      BY IdleType DEF RollBack, Become, IInv, TypeOK
    <2>2. ASSUME NEW k \in Keys, lock'[k] # None
          PROVE  k \in req'[lock'[k]].gone \cup {req'[lock'[k]].row} /\ req'[lock'[k]].pc = "commit"
      <3>1. lock'[k] = lock[k] /\ lock[k] \in Slots \ {r}
        BY <1>2, <2>2 DEF RollBack, Release, IInv, TypeOK
      <3> QED
        BY <1>1, <2>2, <3>1 DEF IInv, TypeOK
    <2> QED
      BY <1>2, <2>1, <2>2 DEF RollBack, IInv, TypeOK
  <1>4. (Fits(req[r]) /\ Changes(req[r]) /\ Backed(r) /\ Knows(r))'
    BY <1>1, IdleFits DEF Idle, Backed, Knows
  <1>5. ASSUME NEW s \in Slots \ {r}
        PROVE  (Fits(req[s]) /\ Changes(req[s]) /\ Backed(s) /\ Knows(s))'
    <2>1. Fits(req[s]) /\ Changes(req[s]) /\ Backed(s) /\ Knows(s) /\ req[s] \in Request
      BY ReqFields
    <2>2. \A k \in Keys : lock[k] = s => lock'[k] = s
      BY <1>2
    <2>3. (Fits(req[s]) /\ Changes(req[s]) /\ Knows(s))'
      BY <1>1, <2>1 DEF RollBack, Knows, OnRecord
    <2>4. Backed(s)'
      BY <1>1, <2>1, <2>2 DEF RollBack, Backed, Request
    <2> QED
      BY <2>3, <2>4
  <1> QED
    BY <1>3, <1>4, <1>5 DEF RollBack, IInv

\* What a request that commits does to the records of the others: readers learn of the
\* attempt it puts on record, and nothing else changes.
LEMMA CommitRecords ==
  ASSUME LearnerRecordsAssumption, IInv, NEW r \in Slots, Commit(r), NEW s \in Slots \ {r}
  PROVE  /\ req'[s] \in Request
         /\ req'[s].pc = req[s].pc /\ req'[s].op = req[s].op /\ req'[s].user = req[s].user
         /\ req'[s].log = req[s].log /\ req'[s].body = req[s].body /\ req'[s].q = req[s].q
         /\ req'[s].row = req[s].row /\ req'[s].gone = req[s].gone
         /\ req[s].since \subseteq req'[s].since
         /\ req[s].op # "open" => req'[s] = req[s]
         /\ req[s].op = "open" /\ req[r].op = "attempt" =>
                <<req[r].user, req[r].q>> \in req'[s].since
  <1>1. req[s] \in Request /\ req[r] \in Request /\ Fits(req[r]) /\ req[r].pc = "commit"
    BY ReqFields DEF Commit
  <1>2. CASE req[r].op = "attempt" /\ req[s].op = "open"
    <2>1. <<req[r].user, req[r].q>> \in Pairs
      BY <1>1, <1>2 DEF Fits, Pairs
    <2>2. req' = [Record(<<req[r].user, req[r].q>>) EXCEPT ![r] = Idle]
      BY <1>2 DEF Commit
    <2>3. req'[s] = [req[s] EXCEPT !.since = @ \cup {<<req[r].user, req[r].q>>}]
      BY <1>2, <2>2 DEF Record
    <2> QED
      BY <1>1, <1>2, <2>1, <2>3 DEF Request
  <1>3. CASE req[r].op # "attempt" \/ req[s].op # "open"
    <2>1. req'[s] = req[s]
      BY <1>3 DEF Commit, Record, Become, IInv, TypeOK
    <2> QED
      BY <1>1, <1>3, <2>1
  <1> QED
    BY <1>2, <1>3

\* And to its own: POST /logs goes on to count, and has nothing in hand.
LEMMA CommitRecord ==
  ASSUME LearnerRecordsAssumption, IInv, NEW r \in Slots, Commit(r)
  PROVE  /\ req'[r] \in Request /\ req'[r].pc # "commit" /\ req'[r].op # "open"
         /\ req'[r].pc # "serve" /\ Fits(req'[r]) /\ Changes(req'[r])
  <1>1. req[r] \in Request /\ Fits(req[r]) /\ Changes(req[r]) /\ req[r].pc = "commit"
    BY ReqFields DEF Commit
  <1>2. CASE req[r].op = "add"
    <2>1. req'[r] = [req[r] EXCEPT !.pc = "count"]
      BY <1>2, BecomeRecord DEF Commit
    <2>2. req'[r] \in Request /\ req'[r].pc = "count" /\ req'[r].op = "add"
      BY <1>1, <1>2, <2>1 DEF Request
    <2>3. Fits(req'[r]) /\ Changes(req'[r])
      BY <1>1, <1>2, <2>1, <2>2 DEF Fits, Changes, Request
    <2> QED
      BY <2>2, <2>3
  <1>3. CASE req[r].op # "add"
    <2>1. req'[r] = Idle
      BY <1>3, BecomeRecord DEF Commit, Record
    <2> QED
      BY <2>1, IdleType, IdleFits DEF Idle
  <1> QED
    BY <1>2, <1>3

\* The row that is inserted is one that was not there.
LEMMA CommitRows ==
  ASSUME LearnerRecordsAssumption, IInv, NEW r \in Slots, Commit(r)
  PROVE  /\ req[r].row \in LogKeys => req[r].op = "add" /\ logs[req[r].row] = None
                                     /\ req[r].body \in Bodies
         /\ req[r].row \in AttemptIds => req[r].op = "attempt" /\ attempts[req[r].row] = None
                                     /\ <<req[r].user, req[r].q>> \in Pairs /\ req[r].row \in used
  <1>1. Fits(req[r]) /\ Changes(req[r]) /\ Backed(r) /\ req[r].pc = "commit"
    BY ReqFields DEF Commit
  <1>2. req[r].row \in Keys => req[r].row # None
    BY DEF LearnerRecordsAssumption
  <1>3. req[r].op = "add" /\ req[r].row # None => req[r].row \in LogKeys
    BY <1>1 DEF Fits, Changes, LogKeys
  <1> QED
    BY <1>1, <1>2, <1>3 DEF LearnerRecordsAssumption, Fits, Changes, Backed, Keys, Pairs

LEMMA CommitStep ==
  ASSUME LearnerRecordsAssumption, IInv, NEW r \in Slots, Commit(r)
  PROVE  IInv'
  <1>1. /\ lock' \in [Keys -> Slots \cup {None}]
        /\ \A k \in Keys : lock'[k] # r /\ (lock[k] # r => lock'[k] = lock[k])
    BY ReleaseLocks DEF Commit
  <1>2. req' \in [Slots -> Request]
    <2>1. req' = [s \in Slots |-> req'[s]]
      BY DEF Commit, Become, Record, IInv, TypeOK
    <2>2. \A s \in Slots \ {r} : req'[s] \in Request
      BY CommitRecords
    <2>3. req'[r] \in Request
      BY CommitRecord
    <2> QED
      BY <2>1, <2>2, <2>3
  <1>3. logs' \in [LogKeys -> Bodies \cup {None}] /\ attempts' \in [AttemptIds -> Pairs \cup {None}]
    <2>1. ASSUME NEW k \in LogKeys PROVE LogsAfter(r)[k] \in Bodies \cup {None}
      BY CommitRows DEF LogsAfter, IInv, TypeOK
    <2>2. ASSUME NEW i \in AttemptIds PROVE AttemptsAfter(r)[i] \in Pairs \cup {None}
      BY CommitRows DEF AttemptsAfter, IInv, TypeOK
    <2>3. logs' = LogsAfter(r) /\ attempts' = AttemptsAfter(r)
      BY DEF Commit
    <2> QED
      BY <2>1, <2>2, <2>3 DEF LogsAfter, AttemptsAfter
  <1>4. told' \subseteq Pairs
    BY CommitRows, ReqFields DEF Commit, Changes, IInv, TypeOK
  <1>5. TypeOK'
    <2>1. ASSUME NEW k \in Keys, lock'[k] # None
          PROVE  k \in req'[lock'[k]].gone \cup {req'[lock'[k]].row} /\ req'[lock'[k]].pc = "commit"
      <3>1. lock'[k] = lock[k] /\ lock[k] \in Slots \ {r}
        BY <1>1, <2>1 DEF Commit, Release, IInv, TypeOK
      <3>2. k \in req[lock[k]].gone \cup {req[lock[k]].row} /\ req[lock[k]].pc = "commit"
        BY <2>1, <3>1 DEF IInv, TypeOK
      <3>3. \A s \in Slots \ {r} : /\ req'[s].pc = req[s].pc
                                   /\ req'[s].row = req[s].row /\ req'[s].gone = req[s].gone
        BY CommitRecords
      <3> QED
        BY <3>1, <3>2, <3>3
    <2> QED
      BY <1>1, <1>2, <1>3, <1>4, <2>1 DEF Commit, IInv, TypeOK
  <1>6. \A i \in AttemptIds : attempts'[i] # None => i \in used'
    BY CommitRows DEF Commit, AttemptsAfter, IInv
  <1>7. (Fits(req[r]) /\ Changes(req[r]) /\ Backed(r) /\ Knows(r))'
    BY CommitRecord DEF Backed, Knows
  <1>8. ASSUME NEW s \in Slots \ {r}
        PROVE  (Fits(req[s]) /\ Changes(req[s]) /\ Backed(s) /\ Knows(s))'
    <2>1. Fits(req[s]) /\ Changes(req[s]) /\ Backed(s) /\ Knows(s) /\ req[s] \in Request
      BY ReqFields
    <2>5. /\ req[s].since \subseteq req'[s].since
          /\ req[s].op # "open" => req'[s] = req[s]
          /\ req[s].op = "open" /\ req[r].op = "attempt" =>
                 <<req[r].user, req[r].q>> \in req'[s].since
      BY CommitRecords
    <2>6. /\ req'[s].pc = req[s].pc /\ req'[s].op = req[s].op /\ req'[s].user = req[s].user
          /\ req'[s].log = req[s].log /\ req'[s].body = req[s].body /\ req'[s].q = req[s].q
          /\ req'[s].row = req[s].row /\ req'[s].gone = req[s].gone
      BY CommitRecords
    <2>2. Fits(req'[s]) /\ Changes(req'[s])
      BY <2>1, <2>6 DEF Fits, Changes
    <2>3. Backed(s)'
      <3> SUFFICES ASSUME req'[s].pc = "commit" PROVE Backed(s)'
        BY DEF Backed
      <3>1. req[s] = req'[s]
        BY <2>1, <2>5, <2>6 DEF Fits
      <3>2. Backed(r) /\ req[r].pc = "commit"
        BY ReqFields DEF Commit
      <3>3. \A k \in Keys : lock[k] = s => lock'[k] = s /\ k \notin req[r].gone /\ k # req[r].row
        BY <1>1, <3>2 DEF Backed, LearnerRecordsAssumption
      <3>4. \A k \in LogKeys : lock[k] = s => logs'[k] = logs[k]
        BY <3>3 DEF Commit, LogsAfter, Keys
      <3>5. \A i \in AttemptIds : lock[i] = s => attempts'[i] = attempts[i]
        BY <3>3 DEF Commit, AttemptsAfter, Keys
      <3>6. req[s].gone \subseteq Keys
        BY <2>1 DEF Request
      <3>7. \A k \in Keys : lock[k] = s => lock'[k] = s
        BY <3>3
      <3>8. req[s].pc = "commit" /\ used' = used
        BY <3>1 DEF Commit
      <3>9. /\ \A k \in req'[s].gone : lock'[k] = s
            /\ \A i \in req'[s].gone \cap AttemptIds :
                  attempts'[i] # None /\ attempts'[i][1] = req'[s].user
        BY <2>1, <3>1, <3>5, <3>6, <3>7, <3>8 DEF Backed
      <3>10. /\ req'[s].row # None => lock'[req'[s].row] = s
             /\ req'[s].row \in LogKeys => logs'[req'[s].row] = None
             /\ req'[s].row \in AttemptIds => attempts'[req'[s].row] = None /\ req'[s].row \in used'
        <4>1. req[s].row \in Keys \cup {None}
          BY <2>1 DEF Request
        <4> QED
          BY <2>1, <3>1, <3>4, <3>5, <3>7, <3>8, <4>1 DEF Backed, LearnerRecordsAssumption, Keys
      <3> QED
        BY <3>9, <3>10 DEF Backed
    <2>4. Knows(s)'
      <3> DEFINE pair == <<req[r].user, req[r].q>>
      <3>1. \A i \in AttemptIds : \/ attempts'[i] \in {attempts[i], None}
                                  \/ attempts'[i] = pair /\ req[r].op = "attempt"
        BY CommitRows DEF Commit, AttemptsAfter
      <3>2. \A p \in OnRecord(attempts') : \/ p \in OnRecord(attempts)
                                           \/ p = pair /\ req[r].op = "attempt"
        BY <3>1 DEF OnRecord
      <3>3. req'[s].op = "open" => OnRecord(attempts') \subseteq req'[s].since
        BY <2>1, <2>5, <2>6, <3>2 DEF Knows
      <3> QED
        BY <2>1, <2>5, <2>6, <3>3 DEF Knows
    <2> QED
      BY <2>2, <2>3, <2>4
  <1> QED
    BY <1>5, <1>6, <1>7, <1>8 DEF IInv

-----------------------------------------------------------------------------
(* The theorems.                                                           *)

LEMMA NextIInv == ASSUME LearnerRecordsAssumption, IInv, [Next]_vars PROVE IInv'
  <1>1. CASE Next
    <2>1. PICK r \in Slots :
             \/ StartAdd(r) \/ StartClear(r) \/ StartAttempt(r) \/ StartOpen(r)
             \/ GetLog(r) \/ InsertLog(r) \/ LogConflict(r) \/ InsertAttempt(r) \/ Delete(r)
             \/ Commit(r) \/ Count(r) \/ Gate(r) \/ Serve(r) \/ RollBack(r)
      BY <1>1 DEF Next, Step
    <2> QED
      BY <2>1, StartStep, MoveStep, InsertLogStep, InsertAttemptStep, DeleteStep, CommitStep,
         RollBackStep
  <1>2. CASE UNCHANGED vars
    BY <1>2, SMTT(60) DEF IInv, TypeOK, Backed, Knows, OnRecord, vars
  <1> QED
    BY <1>1, <1>2

\* What the requests know of the rows, whatever commits between their statements.
THEOREM RecordsInvariance ==
  ASSUME LearnerRecordsAssumption
  PROVE  Spec => []IInv
  BY InitIInv, NextIInv, PTL DEF Spec

\* /evidence and /ai-explain: whatever is committed between the SELECT of the gate and the
\* response, what is served to a user is of a question that user had an attempt at on
\* record while the request was handled.
THEOREM OnlyAttemptedIsServed ==
  ASSUME LearnerRecordsAssumption
  PROVE  Spec => []ServedWasAttempted
  <1>1. IInv => ServedWasAttempted
    BY DEF IInv, Knows, ServedWasAttempted
  <1> QED
    BY <1>1, RecordsInvariance, PTL

\* The tables, and what has been told, change at a commit only.
LEMMA TablesChangeAtCommit ==
  ASSUME Next, ~UNCHANGED <<logs, attempts, told>>
  PROVE  \E r \in Slots : Commit(r)
  BY ZenonT(60) DEF Next, Step, StartAdd, StartClear, StartAttempt, StartOpen, Start, GetLog, InsertLog,
         LogConflict, InsertAttempt, Delete, Count, Gate, Serve, RollBack

\* /logs and /attempts: whatever transactions overlap, a log that is on record keeps its
\* contents, and a row disappears only when its own user clears the table.
THEOREM RowsAreKept ==
  ASSUME LearnerRecordsAssumption
  PROVE  Spec => RowsStay
  <1> DEFINE Kept ==
        /\ \A k \in LogKeys : logs[k] # None =>
             \/ logs'[k] = logs[k]
             \/ /\ logs'[k] = None
                /\ \E r \in Slots : req[r].op = "clear" /\ req[r].user = k[1] /\ req[r].pc = "commit"
        /\ \A i \in AttemptIds : attempts[i] # None =>
             \/ attempts'[i] = attempts[i]
             \/ /\ attempts'[i] = None
                /\ \E r \in Slots : /\ req[r].op = "clearAttempts" /\ req[r].pc = "commit"
                                    /\ req[r].user = attempts[i][1]
  <1>1. ASSUME IInv, NEW r \in Slots, Commit(r) PROVE Kept
    <2>1. Changes(req[r]) /\ Fits(req[r]) /\ Backed(r) /\ req[r].pc = "commit"
      BY <1>1, ReqFields DEF Commit
    <2>2. ASSUME NEW k \in LogKeys, logs[k] # None, logs'[k] # logs[k]
          PROVE  logs'[k] = None /\ req[r].op = "clear" /\ req[r].user = k[1]
      <3>1. k # req[r].row
        BY <2>1, <2>2 DEF Backed
      <3>2. k \in req[r].gone /\ logs'[k] = None
        BY <1>1, <2>2, <3>1 DEF Commit, LogsAfter
      <3> QED
        BY <2>1, <3>2 DEF Changes, LearnerRecordsAssumption
    <2>3. ASSUME NEW i \in AttemptIds, attempts[i] # None, attempts'[i] # attempts[i]
          PROVE  /\ attempts'[i] = None /\ req[r].op = "clearAttempts"
                 /\ req[r].user = attempts[i][1]
      <3>1. i # req[r].row
        BY <2>1, <2>3 DEF Backed
      <3>2. i \in req[r].gone /\ attempts'[i] = None
        BY <1>1, <2>3, <3>1 DEF Commit, AttemptsAfter
      <3> QED
        BY <2>1, <3>2 DEF Changes, Backed, LearnerRecordsAssumption
    <2> QED
      BY <2>1, <2>2, <2>3
  <1>2. ASSUME UNCHANGED <<logs, attempts>> PROVE Kept
    BY <1>2
  <1>3. IInv /\ [Next]_vars => [Kept]_<<logs, attempts>>
    <2> SUFFICES ASSUME IInv, [Next]_vars, ~UNCHANGED <<logs, attempts>> PROVE Kept
      OBVIOUS
    <2>1. \E r \in Slots : Commit(r)
      BY TablesChangeAtCommit DEF vars
    <2> QED
      BY <1>1, <2>1
  <1> QED
    BY <1>3, RecordsInvariance, PTL DEF Spec, RowsStay

\* POST /attempts/diagnose: the key is answered only for an attempt that is on record.
THEOREM ToldAttemptsAreRecorded ==
  ASSUME LearnerRecordsAssumption
  PROVE  Spec => ToldIsRecorded
  <1> DEFINE Recorded == \A p \in told' \ told : p \in OnRecord(attempts')
  <1>1. ASSUME IInv, NEW r \in Slots, Commit(r) PROVE Recorded
    <2>1. Changes(req[r]) /\ Fits(req[r]) /\ req[r].pc = "commit"
      BY <1>1, ReqFields DEF Commit
    <2>2. CASE req[r].op = "attempt"
      <3>1. req[r].row \in AttemptIds /\ attempts'[req[r].row] = <<req[r].user, req[r].q>>
        BY <1>1, <2>1, <2>2 DEF Commit, AttemptsAfter, Changes
      <3>2. <<req[r].user, req[r].q>> \in Pairs
        BY <2>1, <2>2 DEF Fits, Pairs
      <3>3. <<req[r].user, req[r].q>> \in OnRecord(attempts')
        BY <3>1, <3>2 DEF OnRecord, LearnerRecordsAssumption
      <3> QED
        BY <1>1, <2>2, <3>3 DEF Commit
    <2>3. CASE req[r].op # "attempt"
      BY <1>1, <2>3 DEF Commit
    <2> QED
      BY <2>2, <2>3
  <1>2. IInv /\ [Next]_vars => [Recorded]_told
    <2> SUFFICES ASSUME IInv, [Next]_vars, ~UNCHANGED told PROVE Recorded
      OBVIOUS
    <2>1. \E r \in Slots : Commit(r)
      BY TablesChangeAtCommit DEF vars
    <2> QED
      BY <1>1, <2>1
  <1> QED
    BY <1>2, RecordsInvariance, PTL DEF Spec, ToldIsRecorded

\* /logs and /attempts: what is on record stays until its own user clears it, and a key
\* is told only for an attempt that is on record.
THEOREM RecordsAreKept ==
  ASSUME LearnerRecordsAssumption
  PROVE  Spec => RecordsStay
  BY RowsAreKept, ToldAttemptsAreRecorded, PTL DEF RecordsStay

-----------------------------------------------------------------------------
(* Adding logs, as long as no two requests have overlapped.                *)

\* What a request that adds a log has seen of its key is still so.
Sees(r) ==
    /\ req[r].pc # "conflict"
    /\ req[r].op = "add" /\ req[r].pc = "insert" => logs[Key(r)] = None
    /\ req[r].op = "add" /\ req[r].pc = "commit" => req[r].row = Key(r) \/ logs[Key(r)] # None
    /\ req[r].pc = "count" => logs[Key(r)] # None

InTurn ==
    /\ \A r, s \in Slots : req[r].pc # "idle" /\ req[s].pc # "idle" => r = s
    /\ \A r \in Slots : Sees(r)

\* The others are idle, or as they were.
LEMMA TurnStep ==
  ASSUME IInv, InTurn, NEW r \in Slots, NEW q, Become(r, q), UNCHANGED logs, ~Overlap', Sees(r)'
  PROVE  InTurn'
  <1>1. \A s \in Slots \ {r} : req'[s] = req[s]
    BY BecomeRecord
  <1>2. \A s \in Slots \ {r} : Sees(s)'
    BY <1>1 DEF InTurn, Sees, Key
  <1>3. \A s, x \in Slots : req'[s].pc # "idle" /\ req'[x].pc # "idle" => s = x
    BY DEF Overlap
  <1> QED
    BY <1>2, <1>3 DEF InTurn

\* A step after which the request is not on its way to add a log.
LEMMA OtherStep ==
  ASSUME IInv, InTurn, NEW r \in Slots, NEW q, Become(r, q), UNCHANGED logs, ~Overlap',
         q.pc \notin {"conflict", "count"},
         q.op # "add" \/ q.pc \notin {"insert", "commit"}
  PROVE  InTurn'
  <1>1. req'[r] = q
    BY BecomeRecord
  <1> QED
    BY <1>1, TurnStep DEF Sees

LEMMA StartTurn ==
  ASSUME IInv, InTurn, NEW r \in Slots, ~Overlap',
         StartAdd(r) \/ StartClear(r) \/ StartAttempt(r) \/ StartOpen(r)
  PROVE  InTurn'
  <1>1. CASE StartAdd(r)
    <2>1. PICK u \in Users, l \in LogIds, b \in Bodies :
             Start(r, [Idle EXCEPT !.pc = "get", !.op = "add", !.user = u, !.log = l, !.body = b])
      BY <1>1 DEF StartAdd
    <2>2. PICK p : p = [Idle EXCEPT !.pc = "get", !.op = "add", !.user = u, !.log = l, !.body = b]
      OBVIOUS
    <2>3. p.pc = "get"
      BY <2>2 DEF Idle
    <2> QED
      BY <2>1, <2>2, <2>3, OtherStep DEF Start
  <1>2. CASE StartClear(r)
    <2>1. PICK u \in Users, op \in {"clear", "clearAttempts"} :
             Start(r, [Idle EXCEPT !.pc = "delete", !.op = op, !.user = u])
      BY <1>2 DEF StartClear
    <2>2. PICK p : p = [Idle EXCEPT !.pc = "delete", !.op = op, !.user = u]
      OBVIOUS
    <2>3. p.pc = "delete"
      BY <2>2 DEF Idle
    <2> QED
      BY <2>1, <2>2, <2>3, OtherStep, ZenonT(60) DEF Start
  <1>3. CASE StartAttempt(r)
    <2>1. PICK u \in Users, q \in Questions :
             Start(r, [Idle EXCEPT !.pc = "insert", !.op = "attempt", !.user = u, !.q = q])
      BY <1>3 DEF StartAttempt
    <2>2. PICK p : p = [Idle EXCEPT !.pc = "insert", !.op = "attempt", !.user = u, !.q = q]
      OBVIOUS
    <2>3. p.pc = "insert" /\ p.op = "attempt"
      BY <2>2 DEF Idle
    <2> QED
      BY <2>1, <2>2, <2>3, OtherStep DEF Start
  <1>4. CASE StartOpen(r)
    <2>1. PICK u \in Users, q \in Questions :
             Start(r, [Idle EXCEPT !.pc = "gate", !.op = "open", !.user = u, !.q = q,
                              !.since = OnRecord(attempts)])
      BY <1>4 DEF StartOpen
    <2>2. PICK p : p = [Idle EXCEPT !.pc = "gate", !.op = "open", !.user = u, !.q = q,
                              !.since = OnRecord(attempts)]
      OBVIOUS
    <2>3. p.pc = "gate"
      BY <2>2 DEF Idle
    <2> QED
      BY <2>1, <2>2, <2>3, OtherStep DEF Start
  <1> QED
    BY <1>1, <1>2, <1>3, <1>4

LEMMA LogTurn ==
  ASSUME LearnerRecordsAssumption, IInv, InTurn, NEW r \in Slots, ~Overlap',
         GetLog(r) \/ InsertLog(r) \/ LogConflict(r)
  PROVE  InTurn'
  <1>1. req[r] \in Request /\ Fits(req[r]) /\ Sees(r)
    BY ReqFields DEF InTurn
  <1>2. CASE GetLog(r)
    <2>1. PICK at : /\ at = IF logs[Key(r)] = None THEN "insert" ELSE "commit"
                    /\ Become(r, [req[r] EXCEPT !.pc = at])
      BY <1>2 DEF GetLog
    <2>2. PICK q : q = [req[r] EXCEPT !.pc = at]
      OBVIOUS
    <2>3. req'[r] = q /\ q.pc = at /\ q.user = req[r].user /\ q.log = req[r].log
      BY <1>1, <2>1, <2>2, BecomeRecord DEF Request
    <2>4. Sees(r)'
      BY <1>2, <2>1, <2>3 DEF GetLog, Sees, Key
    <2> QED
      BY <1>2, <2>1, <2>2, <2>4, TurnStep DEF GetLog
  <1>3. CASE InsertLog(r)
    <2>1. PICK q : q = [req[r] EXCEPT !.pc = "commit", !.row = Key(r)]
      OBVIOUS
    <2>2. Become(r, q) /\ UNCHANGED logs
      BY <1>3, <2>1 DEF InsertLog
    <2>3. req'[r] = q /\ q.pc = "commit" /\ q.row = Key(r) /\ q.user = req[r].user /\ q.log = req[r].log
      BY <1>1, <2>1, <2>2, BecomeRecord DEF Request
    <2>4. Sees(r)'
      BY <2>3 DEF Sees, Key
    <2> QED
      BY <2>2, <2>4, TurnStep
  <1>4. CASE LogConflict(r)
    BY <1>1, <1>4 DEF LogConflict, Sees
  <1> QED
    BY <1>2, <1>3, <1>4

LEMMA RestTurn ==
  ASSUME LearnerRecordsAssumption, IInv, InTurn, NEW r \in Slots, ~Overlap',
         InsertAttempt(r) \/ Delete(r) \/ Count(r) \/ Gate(r) \/ Serve(r) \/ RollBack(r)
  PROVE  InTurn'
  <1>1. req[r] \in Request /\ Fits(req[r])
    BY ReqFields
  <1>2. Idle.pc = "idle"
    BY DEF Idle
  <1>3. CASE InsertAttempt(r)
    <2>1. PICK i \in AttemptIds : Become(r, [req[r] EXCEPT !.pc = "commit", !.row = i])
      BY <1>3 DEF InsertAttempt
    <2>2. PICK q : q = [req[r] EXCEPT !.pc = "commit", !.row = i]
      OBVIOUS
    <2>3. q.op = "attempt" /\ q.pc = "commit"
      BY <1>1, <1>3, <2>2 DEF InsertAttempt, Request
    <2> QED
      BY <1>3, <2>1, <2>2, <2>3, OtherStep DEF InsertAttempt
  <1>4. CASE Delete(r)
    <2>1. PICK q : q = [req[r] EXCEPT !.pc = "commit", !.gone = RowsOfUser(r)]
      OBVIOUS
    <2>2. q.op = req[r].op /\ q.pc = "commit"
      BY <1>1, <2>1 DEF Request
    <2> QED
      BY <1>1, <1>4, <2>1, <2>2, OtherStep DEF Delete, Fits
  <1>5. CASE Gate(r)
    <2>1. PICK q : Become(r, q) /\ q.pc \in {"serve", "idle"}
      BY <1>1, <1>2, <1>5 DEF Gate, Request
    <2> QED
      BY <1>5, <2>1, OtherStep DEF Gate
  <1>6. CASE Count(r) \/ Serve(r) \/ RollBack(r)
    BY <1>2, <1>6, OtherStep DEF Count, Serve, RollBack
  <1> QED
    BY <1>3, <1>4, <1>5, <1>6

\* A commit: the log that was sent is on record when it is counted.
LEMMA CommitTurn ==
  ASSUME LearnerRecordsAssumption, IInv, InTurn, NEW r \in Slots, ~Overlap', Commit(r)
  PROVE  InTurn'
  <1>1. /\ req[r] \in Request /\ Fits(req[r]) /\ Changes(req[r]) /\ Sees(r) /\ req[r].pc = "commit"
        /\ \A s \in Slots \ {r} : req[s].pc = "idle" /\ Fits(req[s])
    BY ReqFields DEF InTurn, Commit
  <1>2. \A s \in Slots \ {r} : req'[s].pc = "idle"
    BY <1>1, CommitRecords
  <1>3. Sees(r)'
    <2>1. CASE req[r].op = "add"
      <3>1. PICK q : q = [req[r] EXCEPT !.pc = "count"]
        OBVIOUS
      <3>2. Become(r, q)
        BY <1>1, <2>1, <3>1 DEF Commit
      <3>3. req'[r] = q /\ q.pc = "count" /\ q.user = req[r].user /\ q.log = req[r].log
        BY <1>1, <3>1, <3>2, BecomeRecord DEF Request
      <3>4. Key(r) \in LogKeys /\ Key(r)' = Key(r)
        BY <1>1, <2>1, <3>3 DEF Fits, Key, LogKeys
      <3>5. logs'[Key(r)] # None
        BY <1>1, <2>1, <3>4 DEF Commit, LogsAfter, Changes, Fits, Sees, LearnerRecordsAssumption
      <3> QED
        BY <3>3, <3>4, <3>5 DEF Sees
    <2>2. CASE req[r].op # "add"
      <3>1. req' = [req EXCEPT ![r] = Idle]
            \/ req' = [Record(<<req[r].user, req[r].q>>) EXCEPT ![r] = Idle]
        BY <2>2 DEF Commit, Become
      <3>2. req'[r] = Idle
        BY <3>1 DEF Record, IInv, TypeOK
      <3>3. req'[r].pc = "idle"
        BY <3>2 DEF Idle
      <3> QED
        BY <3>3 DEF Sees
    <2> QED
      BY <2>1, <2>2
  <1>4. \A s \in Slots : Sees(s)'
    BY <1>2, <1>3 DEF Sees
  <1>5. \A s, x \in Slots : req'[s].pc # "idle" /\ req'[x].pc # "idle" => s = x
    BY DEF Overlap
  <1> QED
    BY <1>4, <1>5 DEF InTurn

LEMMA InTurnStep ==
  ASSUME LearnerRecordsAssumption
  PROVE  IInv /\ (~overlapped => InTurn) /\ [Next]_vars => (~overlapped' => InTurn')
  <1> SUFFICES ASSUME IInv, ~overlapped => InTurn, [Next]_vars, ~overlapped' PROVE InTurn'
    OBVIOUS
  <1>1. CASE Next
    <2>1. ~overlapped /\ ~Overlap'
      BY <1>1 DEF Next
    <2>2. InTurn
      BY <2>1
    <2> QED
      BY <1>1, <2>1, <2>2, StartTurn, LogTurn, RestTurn, CommitTurn DEF Next, Step
  <1>2. CASE UNCHANGED vars
    BY <1>2 DEF vars, InTurn, Sees, Key
  <1> QED
    BY <1>1, <1>2

\* POST /logs: as long as requests do not overlap, sending a log again is no error, and
\* the log that was sent is on record when the logs are counted.
THEOREM AddingIsIdempotent ==
  ASSUME LearnerRecordsAssumption
  PROVE  Spec => []LogsInOrder
  <1>1. Init => InTurn
    <2> SUFFICES ASSUME Init PROVE InTurn
      OBVIOUS
    <2>1. \A r \in Slots : req[r].pc = "idle"
      BY DEF Init, Idle
    <2> QED
      BY <2>1 DEF InTurn, Sees
  <1>2. Spec => [](~overlapped => InTurn)
    BY <1>1, InTurnStep, RecordsInvariance, PTL DEF Spec
  <1>3. IInv /\ (~overlapped => InTurn) => LogsInOrder
    BY DEF IInv, InTurn, Sees, LogsInOrder
  <1> QED
    BY <1>2, <1>3, RecordsInvariance, PTL

-----------------------------------------------------------------------------
(* The review overrides.                                                   *)

\* A request that is handled names an item, and carries a row for it; no row disappears.
Names(r) ==
    reviewReq[r].pc # "idle" =>
        /\ reviewReq[r].ref \in Refs /\ reviewReq[r].new \in Rev!Row
        /\ reviewReq[r].seen # None => override[reviewReq[r].ref] # None

\* As long as requests do not overlap, what was loaded is what is stored.
ReviewFits(r) ==
    /\ reviewReq[r].pc # "conflict"
    /\ reviewReq[r].pc \in {"write", "commit"} => reviewReq[r].seen = override[reviewReq[r].ref]

\* The row of an item is the last review that was answered.
RowIsLast(x) ==
    /\ trail[x] = IF override[x] = None THEN None ELSE override[x].status
    /\ override[x] # None => <<x, override[x]>> \in given

OneReview == \A r, s \in ReviewSlots : reviewReq[r].pc # "idle" /\ reviewReq[s].pc # "idle" => r = s

ReviewTurn ==
    /\ OneReview
    /\ \A r \in ReviewSlots : ReviewFits(r)
    /\ \A x \in Refs : RowIsLast(x)

ReviewInv ==
    /\ Rev!TypeOK
    /\ \A r \in ReviewSlots : Names(r)
    /\ ~reviewOverlapped => ReviewTurn

LEMMA ReviewInit == ASSUME Rev!ReviewOverridesAssumption, Rev!Init PROVE ReviewInv
  <1>1. Rev!Idle \in Rev!Request /\ Rev!Idle.pc = "idle"
    BY DEF Rev!Idle, Rev!Request, Rev!MaybeRow
  <1>2. \A r \in ReviewSlots : reviewReq[r] = Rev!Idle
    BY DEF Rev!Init
  <1>3. Rev!TypeOK
    BY <1>1 DEF Rev!Init, Rev!TypeOK, Rev!MaybeRow, Rev!ReviewOverridesAssumption
  <1>4. ReviewTurn
    BY <1>1, <1>2 DEF Rev!Init, ReviewTurn, OneReview, ReviewFits, RowIsLast
  <1> QED
    BY <1>1, <1>2, <1>3, <1>4 DEF ReviewInv, Names

\* A step that changes the record of one request, and no row: it holds no lock, or is one
\* that takes the lock of its item and is about to commit.
LEMMA ReviewLocal ==
  ASSUME Rev!ReviewOverridesAssumption, ReviewInv, NEW r \in ReviewSlots, NEW q \in Rev!Request,
         Rev!Become(r, q), UNCHANGED <<override, trail, given>>, reviews' \in 0 .. MaxReviews,
         q.pc # "idle" => /\ q.ref \in Refs /\ q.new \in Rev!Row
                          /\ q.seen # None => override[q.ref] # None,
         \/ reviewReq[r].pc # "commit" /\ UNCHANGED reviewLock
         \/ q.pc = "commit" /\ reviewReq[r].pc # "commit" /\ reviewLock' = [reviewLock EXCEPT ![q.ref] = r]
         \/ q.pc = "idle" /\ reviewLock' = [x \in Refs |-> IF reviewLock[x] = r THEN None ELSE reviewLock[x]],
         reviewOverlapped' = (reviewOverlapped \/ Rev!Overlap'),
         ~reviewOverlapped => q.pc # "conflict" /\ (q.pc \in {"write", "commit"} => q.seen = override[q.ref])
  PROVE  ReviewInv'
  <1>1. reviewReq'[r] = q /\ \A s \in ReviewSlots \ {r} : reviewReq'[s] = reviewReq[s]
    BY DEF Rev!Become, ReviewInv, Rev!TypeOK
  <1>2. Rev!TypeOK'
    <2>1. reviewReq' \in [ReviewSlots -> Rev!Request]
      BY DEF Rev!Become, ReviewInv, Rev!TypeOK
    <2>2. reviewLock' \in [Refs -> ReviewSlots \cup {None}]
      BY DEF ReviewInv, Rev!TypeOK
    <2>3. ASSUME NEW x \in Refs, reviewLock'[x] # None
          PROVE  reviewReq'[reviewLock'[x]].pc = "commit" /\ reviewReq'[reviewLock'[x]].ref = x
      BY <1>1, <2>3 DEF ReviewInv, Rev!TypeOK, Rev!ReviewOverridesAssumption
    <2> QED
      BY <2>1, <2>2, <2>3 DEF ReviewInv, Rev!TypeOK
  <1>3. \A s \in ReviewSlots : Names(s)'
    BY <1>1 DEF ReviewInv, Names
  <1>4. ASSUME ~reviewOverlapped' PROVE ReviewTurn'
    <2>1. ~reviewOverlapped /\ ~Rev!Overlap'
      BY <1>4
    <2>2. OneReview'
      BY <2>1 DEF Rev!Overlap, OneReview
    <2>3. \A s \in ReviewSlots : ReviewFits(s)'
      BY <1>1, <2>1 DEF ReviewInv, ReviewTurn, ReviewFits
    <2>4. \A x \in Refs : RowIsLast(x)'
      BY <2>1 DEF ReviewInv, ReviewTurn, RowIsLast
    <2> QED
      BY <2>2, <2>3, <2>4 DEF ReviewTurn
  <1> QED
    BY <1>2, <1>3, <1>4 DEF ReviewInv

LEMMA IdleReview == Rev!Idle \in Rev!Request /\ Rev!Idle.pc = "idle"
  BY DEF Rev!Idle, Rev!Request, Rev!MaybeRow

\* A commit writes the row that was sent, unless somebody else has written it meanwhile.
LEMMA ReviewCommit ==
  ASSUME Rev!ReviewOverridesAssumption, ReviewInv, NEW r \in ReviewSlots, Rev!Commit(r),
         reviewOverlapped' = (reviewOverlapped \/ Rev!Overlap')
  PROVE  ReviewInv'
  <1> DEFINE q == reviewReq[r]
  <1>1. q \in Rev!Request /\ q.pc = "commit" /\ q.ref \in Refs /\ q.new \in Rev!Row
    BY DEF ReviewInv, Rev!TypeOK, Rev!Commit, Names
  <1>2. reviewReq'[r] = Rev!Idle /\ \A s \in ReviewSlots \ {r} : reviewReq'[s] = reviewReq[s]
    BY DEF Rev!Commit, Rev!Become, ReviewInv, Rev!TypeOK
  <1>3. override[q.ref] \in Rev!MaybeRow
    BY <1>1 DEF ReviewInv, Rev!TypeOK
  <1>4. Rev!Written(r) \in Rev!Row /\ (q.seen = override[q.ref] => Rev!Written(r) = q.new)
    BY <1>1, <1>3 DEF Rev!Written, Rev!Merge, Rev!Row, Rev!MaybeRow, ReviewInv, Names
  <1>5. PICK w : w = Rev!Written(r)
    OBVIOUS
  <1>6. PICK x : x = q.ref
    OBVIOUS
  <1>7. /\ x \in Refs /\ w \in Rev!Row /\ override' = [override EXCEPT ![x] = w]
        /\ given' = given \cup {<<x, q.new>>} /\ trail' = [trail EXCEPT ![x] = q.new.status]
        /\ reviewLock' = [k \in Refs |-> IF reviewLock[k] = r THEN None ELSE reviewLock[k]]
        /\ UNCHANGED reviews
    BY <1>1, <1>4, <1>5, <1>6 DEF Rev!Commit
  <1>8. w # None
    BY <1>5, <1>4, <1>1, <1>3 DEF Rev!Written, Rev!Merge, Rev!Row, Rev!MaybeRow, ReviewInv, Names, Rev!ReviewOverridesAssumption
  <1>9. Rev!TypeOK'
    <2>1. override' \in [Refs -> Rev!MaybeRow]
      BY <1>7 DEF ReviewInv, Rev!TypeOK, Rev!MaybeRow
    <2>2. reviewReq' \in [ReviewSlots -> Rev!Request]
      BY IdleReview DEF Rev!Commit, Rev!Become, ReviewInv, Rev!TypeOK
    <2>3. trail' \in [Refs -> Statuses \cup {None}] /\ given' \subseteq Refs \X Rev!Row
      BY <1>1, <1>6, <1>7 DEF ReviewInv, Rev!TypeOK, Rev!Row
    <2>4. reviewLock' \in [Refs -> ReviewSlots \cup {None}] /\ reviews' \in 0 .. MaxReviews
      BY <1>7 DEF ReviewInv, Rev!TypeOK
    <2>5. ASSUME NEW k \in Refs, reviewLock'[k] # None
          PROVE  reviewReq'[reviewLock'[k]].pc = "commit" /\ reviewReq'[reviewLock'[k]].ref = k
      BY <1>2, <1>7, <2>5 DEF ReviewInv, Rev!TypeOK
    <2> QED
      BY <2>1, <2>2, <2>3, <2>4, <2>5 DEF Rev!TypeOK
  <1>10. \A s \in ReviewSlots : Names(s)'
    BY <1>2, <1>7, <1>8, IdleReview DEF ReviewInv, Rev!TypeOK, Names
  <1>11. ASSUME ~reviewOverlapped' PROVE ReviewTurn'
    <2>1. ~reviewOverlapped /\ ~Rev!Overlap'
      BY <1>11
    <2>2. OneReview'
      BY <2>1 DEF Rev!Overlap, OneReview
    <2>3. \A s \in ReviewSlots : reviewReq'[s].pc = "idle"
      BY <1>1, <1>2, <2>1, IdleReview DEF ReviewInv, ReviewTurn, OneReview
    <2>4. w = q.new
      BY <1>1, <1>4, <1>5, <2>1 DEF ReviewInv, ReviewTurn, ReviewFits
    <2>5. w \in Rev!Row /\ override' = [override EXCEPT ![x] = w] /\ trail' = [trail EXCEPT ![x] = w.status]
          /\ given' = given \cup {<<x, w>>} /\ x \in Refs
      BY <1>7, <2>4
    <2>6. ASSUME NEW k \in Refs PROVE RowIsLast(k)'
      BY <1>8, <2>1, <2>5 DEF ReviewInv, Rev!TypeOK, ReviewTurn, RowIsLast
    <2> QED
      BY <2>2, <2>3, <2>6 DEF ReviewTurn, ReviewFits
  <1> QED
    BY <1>9, <1>10, <1>11 DEF ReviewInv

LEMMA ReviewStep ==
  ASSUME Rev!ReviewOverridesAssumption, ReviewInv, NEW r \in ReviewSlots,
         reviewOverlapped' = (reviewOverlapped \/ Rev!Overlap'),
         \/ Rev!Start(r) \/ Rev!Get(r) \/ Rev!Write(r) \/ Rev!Conflict(r) \/ Rev!Commit(r)
         \/ Rev!RollBack(r)
  PROVE  ReviewInv'
  <1> DEFINE p == reviewReq[r]
  <1>1. p \in Rev!Request /\ Names(r) /\ override \in [Refs -> Rev!MaybeRow] /\ reviews \in 0 .. MaxReviews
    BY DEF ReviewInv, Rev!TypeOK
  <1>2. ~reviewOverlapped => ReviewFits(r)
    BY DEF ReviewInv, ReviewTurn
  <1>3. CASE Rev!Start(r)
    <2>1. PICK x \in Refs, n \in Rev!Row : Rev!Become(r, [Rev!Idle EXCEPT !.pc = "get", !.ref = x, !.new = n])
      BY <1>3 DEF Rev!Start
    <2>2. PICK q : q = [Rev!Idle EXCEPT !.pc = "get", !.ref = x, !.new = n]
      OBVIOUS
    <2>3. q \in Rev!Request /\ q.pc = "get" /\ q.ref = x /\ q.new = n /\ q.seen = None
      BY <2>2 DEF Rev!Idle, Rev!Request, Rev!MaybeRow
    <2>4. reviews' = reviews + 1 /\ reviews < MaxReviews /\ p.pc = "idle"
          /\ UNCHANGED <<override, reviewLock, trail, given>>
      BY <1>3 DEF Rev!Start
    <2>5. reviews' \in 0 .. MaxReviews
      BY <1>1, <2>4 DEF Rev!ReviewOverridesAssumption
    <2> QED
      BY <2>1, <2>2, <2>3, <2>4, <2>5, ReviewLocal
  <1>4. CASE Rev!Get(r)
    <2>1. PICK q : q = [p EXCEPT !.pc = "write", !.seen = override[p.ref]]
      OBVIOUS
    <2>2. p.pc = "get" /\ Rev!Become(r, q) /\ UNCHANGED <<override, reviewLock, trail, given, reviews>>
      BY <1>4, <2>1 DEF Rev!Get
    <2>3. q \in Rev!Request /\ q.pc = "write" /\ q.ref = p.ref /\ q.new = p.new /\ q.seen = override[q.ref]
      BY <1>1, <2>1, <2>2 DEF Rev!Request, Names
    <2> QED
      BY <1>1, <2>2, <2>3, ReviewLocal DEF Names
  <1>5. CASE Rev!Write(r)
    <2>1. PICK q : q = [p EXCEPT !.pc = "commit"]
      OBVIOUS
    <2>2. p.pc = "write" /\ Rev!Become(r, q) /\ UNCHANGED <<override, trail, given, reviews>>
          /\ reviewLock' = IF p.seen = p.new THEN reviewLock ELSE [reviewLock EXCEPT ![p.ref] = r]
      BY <1>5, <2>1 DEF Rev!Write
    <2>3. q \in Rev!Request /\ q.pc = "commit" /\ q.ref = p.ref /\ q.new = p.new /\ q.seen = p.seen
      BY <1>1, <2>1 DEF Rev!Request
    <2>4. ~reviewOverlapped => q.seen = override[q.ref]
      BY <1>2, <2>2, <2>3 DEF ReviewFits
    <2> QED
      BY <1>1, <2>2, <2>3, <2>4, ReviewLocal DEF Names
  <1>6. CASE Rev!Conflict(r)
    <2>1. PICK q : q = [p EXCEPT !.pc = "conflict"]
      OBVIOUS
    <2>2. p.pc = "write" /\ Rev!Become(r, q) /\ UNCHANGED <<override, reviewLock, trail, given, reviews>>
          /\ p.seen = None /\ override[p.ref] # None
      BY <1>6, <2>1 DEF Rev!Conflict
    <2>3. q \in Rev!Request /\ q.pc = "conflict" /\ q.ref = p.ref /\ q.new = p.new /\ q.seen = p.seen
      BY <1>1, <2>1 DEF Rev!Request
    <2>4. reviewOverlapped
      BY <1>2, <2>2 DEF ReviewFits
    <2> QED
      BY <1>1, <2>2, <2>3, <2>4, ReviewLocal DEF Names
  <1>7. CASE Rev!RollBack(r)
    <2>1. Rev!Become(r, Rev!Idle) /\ UNCHANGED <<override, trail, given, reviews>>
          /\ reviewLock' = [x \in Refs |-> IF reviewLock[x] = r THEN None ELSE reviewLock[x]]
      BY <1>7 DEF Rev!RollBack
    <2> QED
      BY <1>1, <2>1, IdleReview, ReviewLocal
  <1> QED
    BY <1>3, <1>4, <1>5, <1>6, <1>7, ReviewCommit

LEMMA ReviewNext ==
  ASSUME Rev!ReviewOverridesAssumption, ReviewInv, [Rev!Next]_(Rev!vars)
  PROVE  ReviewInv'
  <1>1. CASE Rev!Next
    BY <1>1, ReviewStep DEF Rev!Next, Rev!Step
  <1>2. CASE UNCHANGED Rev!vars
    BY <1>2 DEF Rev!vars, ReviewInv, Rev!TypeOK, Names, ReviewTurn, OneReview, ReviewFits, RowIsLast
  <1> QED
    BY <1>1, <1>2

LEMMA ReviewsTell == Rev!ReviewOverridesAssumption /\ ReviewInv => Rev!ReviewsInOrder
  <1> SUFFICES ASSUME Rev!ReviewOverridesAssumption, ReviewInv PROVE Rev!ReviewsInOrder
    OBVIOUS
  <1>1. ASSUME ~reviewOverlapped, NEW r \in ReviewSlots
        PROVE  /\ reviewReq[r].pc # "conflict"
               /\ reviewReq[r].pc = "commit" =>
                     trail[reviewReq[r].ref] =
                         IF reviewReq[r].seen = None THEN None ELSE reviewReq[r].seen.status
    BY <1>1 DEF ReviewInv, ReviewTurn, ReviewFits, RowIsLast, Names
  <1>2. ASSUME ~reviewOverlapped, NEW x \in Refs
        PROVE  /\ override[x] # None => <<x, override[x]>> \in given
               /\ Rev!Effective(x) = IF trail[x] = None THEN SeedStatus[x] ELSE trail[x]
    BY <1>2 DEF ReviewInv, ReviewTurn, RowIsLast, Rev!Effective, Rev!TypeOK, Rev!MaybeRow, Rev!Row,
                Rev!ReviewOverridesAssumption
  <1> QED
    BY <1>1, <1>2 DEF ReviewInv, Rev!ReviewsInOrder

-----------------------------------------------------------------------------
(* The solver of explanations.                                             *)

SolverTypes ==
    /\ backend \in BOOLEAN
    /\ ai_solver \in Nat \cup {None}
    /\ aiLock \in Callers \cup {None}
    /\ created \in Nat
    /\ pc \in [Callers -> {"sent", "lock", "none", "create", "release", "return", "solve", "done"}]
    /\ solver \in [Callers -> Nat \cup {None}]
    /\ aiAnswer \in [Callers -> Nat \cup {None}]

\* Between the acquisition of the lock and its release a request holds it, and no
\* other is there.
Inside == {"create", "release"}
HoldsLock == \A r \in Callers : pc[r] \in Inside <=> aiLock = r

\* The solver is there when it was created, and it is created by whom has seen, with the
\* lock, that it is not.
CreatedOnce ==
    /\ created <= 1
    /\ ai_solver = None <=> created = 0
    /\ \A r \in Callers : pc[r] = "create" => ai_solver = None
    /\ \A r \in Callers : pc[r] \in {"release", "return"} => ai_solver # None

\* What a request knows at each of its statements.
KnowsSolver(r) ==
    /\ solver[r] # None => solver[r] = ai_solver
    /\ pc[r] = "solve" => solver[r] # None
    /\ pc[r] = "none" => ~backend
    /\ aiAnswer[r] \in {200, 502} => solver[r] # None
    /\ aiAnswer[r] = 503 => ~backend

SolverInv == SolverTypes /\ HoldsLock /\ CreatedOnce /\ \A r \in Callers : KnowsSolver(r)

-----------------------------------------------------------------------------
LEMMA SolverInit == ASSUME Ai!AiExplainAssumption, Ai!Init PROVE SolverInv
  BY DEF Ai!AiExplainAssumption, Ai!Init, SolverInv, SolverTypes, HoldsLock, Inside, CreatedOnce, KnowsSolver

\* The answers are numbers, and None is not one of them.
LEMMA Codes ==
  ASSUME Ai!AiExplainAssumption
  PROVE  \A c \in {200, 403, 404, 500, 502, 503} : c \in Nat /\ c # None
  BY DEF Ai!AiExplainAssumption

LEMMA SolverStep ==
  ASSUME Ai!AiExplainAssumption, SolverInv, NEW r \in Callers, Ai!Step(r)
  PROVE  SolverInv'
  <1> USE Ai!AiExplainAssumption, Codes
      DEF Ai!AiExplainAssumption, SolverInv, SolverTypes, HoldsLock, Inside, CreatedOnce, KnowsSolver, Ai!Goto, Ai!Answer
  <1>1. CASE Ai!Refuse(r)
    BY <1>1 DEF Ai!Refuse
  <1>2. CASE Ai!Look(r)
    BY <1>2 DEF Ai!Look
  <1>3. CASE Ai!NotConfigured(r)
    BY <1>3 DEF Ai!NotConfigured
  <1>4. CASE Ai!Acquire(r)   \* nobody is inside: whoever creates sees what others have created
    BY <1>4 DEF Ai!Acquire
  <1>5. CASE Ai!Create(r)
    <2>1. ai_solver = None /\ created = 0 /\ \A q \in Callers \ {r} : pc[q] \notin Inside
      BY <1>5 DEF Ai!Create
    <2>2. \A q \in Callers : solver[q] = None
      BY <2>1
    <2> QED
      BY <1>5, <2>1, <2>2 DEF Ai!Create
  <1>6. CASE Ai!CreateRaises(r)
    BY <1>6 DEF Ai!CreateRaises
  <1>7. CASE Ai!Release(r)
    BY <1>7 DEF Ai!Release
  <1>8. CASE Ai!Return(r)
    BY <1>8 DEF Ai!Return
  <1>9. CASE Ai!Solve(r)
    BY <1>9 DEF Ai!Solve
  <1> QED
    BY <1>1, <1>2, <1>3, <1>4, <1>5, <1>6, <1>7, <1>8, <1>9 DEF Ai!Step

LEMMA SolverNext ==
  ASSUME Ai!AiExplainAssumption, SolverInv, [Ai!Next]_(Ai!vars)
  PROVE  SolverInv'
  <1>1. CASE Ai!Next
    BY <1>1, SolverStep DEF Ai!Next
  <1>2. CASE UNCHANGED Ai!vars
    BY <1>2 DEF SolverInv, SolverTypes, HoldsLock, Inside, CreatedOnce, KnowsSolver, Ai!vars
  <1> QED
    BY <1>1, <1>2

-----------------------------------------------------------------------------
(* The composition.  A step of the server is a step of one part, and the   *)
(* others stutter.                                                         *)

RxP == INSTANCE PrescriptionsProofs WITH
    lock <- rxLock, started <- rxStarted, req <- rxReq, overlapped <- rxOverlapped

\* Rx and RxP are instances of one module.
LEMMA SamePrescriptions ==
  /\ Rx!PrescriptionsAssumption <=> RxP!PrescriptionsAssumption
  /\ Rx!Init <=> RxP!Init
  /\ Rx!Next <=> RxP!Next
  /\ Rx!vars = RxP!vars
  /\ Rx!OnePrescription <=> RxP!OnePrescription
  /\ Rx!AnswersStep <=> RxP!AnswersStep
  <1>1. Rx!PrescriptionsAssumption <=> RxP!PrescriptionsAssumption
    BY DEF Rx!IsFiniteSet, RxP!IsFiniteSet, Rx!PrescriptionsAssumption,
           RxP!PrescriptionsAssumption, Rx!Inputs, RxP!Inputs, Rx!Requests, RxP!Requests
  <1>2. Rx!Init <=> RxP!Init
    BY DEF Rx!Init, RxP!Init, Rx!NoRow, RxP!NoRow, Rx!Rows, RxP!Rows, Rx!Requests, RxP!Requests,
           Rx!IdleRequest, RxP!IdleRequest
  <1>3. Rx!Next <=> RxP!Next
    BY DEF Rx!Next, RxP!Next, Rx!Step, RxP!Step, Rx!StartDiagnose, RxP!StartDiagnose, Rx!Inputs,
           RxP!Inputs, Rx!Become, RxP!Become, Rx!IdleRequest, RxP!IdleRequest, Rx!StartGet,
           RxP!StartGet, Rx!Requests, RxP!Requests, Rx!Handle, RxP!Handle, Rx!LoadState,
           RxP!LoadState, Rx!WriteState, RxP!WriteState, Rx!Changed, RxP!Changed, Rx!Take,
           RxP!Take, Rx!Free, RxP!Free, Rx!StateConflict, RxP!StateConflict, Rx!Rollback,
           RxP!Rollback, Rx!Release, RxP!Release, Rx!Rows, RxP!Rows, Rx!Deactivate,
           RxP!Deactivate, Rx!LockRow, RxP!LockRow, Rx!NextRow, RxP!NextRow, Rx!FindExisting,
           RxP!FindExisting, Rx!Pid, RxP!Pid, Rx!WriteRx, RxP!WriteRx, Rx!RxConflict,
           RxP!RxConflict, Rx!Commit, RxP!Commit, Rx!RxAfterCommit, RxP!RxAfterCommit,
           Rx!AbortDeadlocked, RxP!AbortDeadlocked, Rx!Deadlocked, RxP!Deadlocked, Rx!WaitsFor,
           RxP!WaitsFor, Rx!Wants, RxP!Wants, Rx!ReadRx, RxP!ReadRx, Rx!ActiveRows,
           RxP!ActiveRows, Rx!ReadState, RxP!ReadState, Rx!Overlap, RxP!Overlap
  <1>4. Rx!vars = RxP!vars
    BY DEF Rx!vars, RxP!vars, Rx!server, RxP!server
  <1>5. Rx!OnePrescription <=> RxP!OnePrescription
    BY DEF Rx!Cardinality, RxP!Cardinality, Rx!OnePrescription, RxP!OnePrescription, Rx!TypeOK,
           RxP!TypeOK, Rx!MaybeInput, RxP!MaybeInput, Rx!Inputs, RxP!Inputs, Rx!Row, RxP!Row,
           Rx!Times, RxP!Times, Rx!Rows, RxP!Rows, Rx!Requests, RxP!Requests, Rx!Request,
           RxP!Request, Rx!AlwaysPrescribed, RxP!AlwaysPrescribed, Rx!SomePrescription,
           RxP!SomePrescription, Rx!ActiveRows, RxP!ActiveRows, Rx!OneFitsState,
           RxP!OneFitsState
  <1>6. Rx!AnswersStep <=> RxP!AnswersStep
    BY DEF Rx!AnswersStep, RxP!AnswersStep, Rx!Requests, RxP!Requests, Rx!Pid, RxP!Pid,
           Rx!StateConflict, RxP!StateConflict, Rx!Free, RxP!Free, Rx!Rollback, RxP!Rollback,
           Rx!Become, RxP!Become, Rx!IdleRequest, RxP!IdleRequest, Rx!Release, RxP!Release,
           Rx!Rows, RxP!Rows, Rx!RxConflict, RxP!RxConflict
  <1> QED
    BY <1>1, <1>2, <1>3, <1>4, <1>5, <1>6

LEMMA Starts ==
  ServerInit => Init /\ RxP!IInv /\ ReviewInv /\ SolverInv
  BY ServerAssumption, SamePrescriptions, RxP!InitIInv, ReviewInit, SolverInit
     DEF ServerInit, ServerAssumption

LEMMA Moves ==
  [ServerNext]_allVars =>
      [Next]_vars /\ [RxP!Next]_(RxP!vars) /\ [Rev!Next]_(Rev!vars) /\ [Ai!Next]_(Ai!vars)
  <1> SUFFICES ASSUME [ServerNext]_allVars
               PROVE  [Next]_vars /\ [RxP!Next]_(RxP!vars) /\ [Rev!Next]_(Rev!vars) /\ [Ai!Next]_(Ai!vars)
    OBVIOUS
  <1>1. UNCHANGED rxs => UNCHANGED RxP!vars
    BY DEF rxs, server, RxP!vars, RxP!server
  <1>2. UNCHANGED rev => UNCHANGED Rev!vars
    BY DEF rev, Rev!vars
  <1>3. UNCHANGED ai => UNCHANGED Ai!vars
    BY DEF ai, Ai!vars
  <1>4. UNCHANGED allVars => UNCHANGED vars /\ UNCHANGED rxs /\ UNCHANGED rev /\ UNCHANGED ai
    BY DEF allVars
  <1> QED
    BY <1>1, <1>2, <1>3, <1>4, SamePrescriptions DEF ServerNext

\* Whichever part moves, the invariants of all of them hold.
THEOREM ServerInvariance ==
  ServerSpec => [](IInv /\ RxP!IInv /\ ReviewInv /\ SolverInv)
  <1> DEFINE All == IInv /\ RxP!IInv /\ ReviewInv /\ SolverInv
  <1>1. ServerInit => All
    BY Starts, InitIInv, ServerAssumption DEF ServerAssumption
  <1>2. All /\ [ServerNext]_allVars => All'
    BY Moves, NextIInv, RxP!NextIInv, ReviewNext, SolverNext, SamePrescriptions, ServerAssumption
       DEF ServerAssumption
  <1> QED
    BY <1>1, <1>2, PTL DEF ServerSpec

\* save_prescription: of two diagnoses of a user that overlap anywhere, however often,
\* one always leaves a prescription active; as long as requests do not overlap, one
\* prescription is active, for the stored state.
THEOREM OnePrescriptionHolds == ServerSpec => []OnePrescription
  <1>1. RxP!IInv => OnePrescription
    BY RxP!Prescribes, SamePrescriptions, ServerAssumption DEF ServerAssumption, OnePrescription
  <1> QED
    BY <1>1, ServerInvariance, PTL

\* Of any number of requests that come first together one creates the solver, and all are
\* served by it: _get_ai_solver looks again once it holds the lock.
THEOREM OneSolverHolds == ServerSpec => []OneSolver
  <1>1. SolverInv => OneSolver
    BY DEF SolverInv, CreatedOnce, KnowsSolver, OneSolver, Ai!OneSolver
  <1> QED
    BY <1>1, ServerInvariance, PTL

\* The server implements the specification of the learner's records.
THEOREM ServerKeepsRecords == ServerSpec => Spec
  BY Starts, Moves, PTL DEF ServerSpec, Spec

\* As long as no two requests of a part overlap, the server answers as if it were alone:
\* /prescription returns what the last diagnosis stored, /logs counts the log it was sent,
\* and the responses of /review tell the history of an item.
THEOREM AnswersInOrderHolds == ServerSpec => AnswersInOrder
  <1>1. RxP!IInv /\ [ServerNext]_allVars => [Rx!AnswersStep]_(Rx!vars)
    <2> SUFFICES ASSUME RxP!IInv, [ServerNext]_allVars PROVE [Rx!AnswersStep]_(Rx!vars)
      OBVIOUS
    <2>1. [RxP!AnswersStep]_(RxP!vars)
      BY Moves, RxP!AnswersGood, SamePrescriptions, ServerAssumption DEF ServerAssumption
    <2> QED
      BY <2>1, SamePrescriptions DEF Rx!vars, RxP!vars, Rx!server, RxP!server
  <1>2. ServerSpec => Rx!AnswersInOrder
    BY <1>1, ServerInvariance, PTL DEF ServerSpec, Rx!AnswersInOrder
  <1>3. ReviewInv => Rev!ReviewsInOrder
    BY ReviewsTell, ServerAssumption DEF ServerAssumption
  <1>4. ServerSpec => []LogsInOrder
    BY ServerKeepsRecords, AddingIsIdempotent, ServerAssumption, PTL DEF ServerAssumption
  <1> QED
    BY <1>2, <1>3, <1>4, ServerInvariance, PTL DEF AnswersInOrder
=============================================================================
