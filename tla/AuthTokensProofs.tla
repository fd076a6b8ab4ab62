--------------------------- MODULE AuthTokensProofs ---------------------------
(***************************************************************************)
(* Theorems about AuthTokens: for any sets of e-mails and request slots    *)
(* and any number of tokens, with requests interleaved at their SQL        *)
(* statements.                                                             *)
(***************************************************************************)
EXTENDS AuthTokens, TLAPS

(* The inductive invariant, in named parts.                                *)

\* Rows that are absent carry nothing; tokens not yet drawn have no row.
AbsentRows ==
    /\ \A t \in Tokens : row[t].status = "absent" => row[t] = AbsentRow
    /\ \A t \in Tokens : t >= nextToken => row[t].status = "absent"

\* A token drawn for a session that is not committed is the request's own.
NewTokens ==
    \A r \in Requests : req[r].new # None =>
        /\ req[r].pc = "commit"
        /\ req[r].new < nextToken
        /\ row[req[r].new].status = "absent"
        /\ \A q \in Requests : req[q].new = req[r].new => q = r

\* A row that a record speaks of is in the table.
Known(q) ==
    /\ q.token # None => row[q.token].status # "absent"
    /\ \A t \in q.revoke : row[t].status # "absent"

KnownTokens == \A r \in Requests : Known(req[r])

\* A handler that works on a cookie has one, and the others have none.
CookiePCs == {"readActive", "readAgain", "rotate", "logoutRead", "logoutWrite"}
EmailPCs  == {"checkEmail", "countUsers", "insertUser", "login"}

Carries(q) ==
    /\ q.pc \in CookiePCs => q.token # None
    /\ q.pc \in EmailPCs => q.token = None

Carriers == \A r \in Requests : Carries(req[r])

\* A request that commits a successor commits the end of its parent with it.
Consumes(q) == q.new # None /\ q.token # None => q.token \in q.revoke

RotationPlan == \A r \in Requests : Consumes(req[r])

IInv ==
    /\ TypeOK
    /\ AbsentRows
    /\ NewTokens
    /\ KnownTokens
    /\ Carriers
    /\ RotationPlan
    /\ SuccessorConsumesParent

-----------------------------------------------------------------------------
(* The records that requests become.                                       *)

LEMMA PCFacts == {"idle", "checkEmail", "countUsers", "insertUser", "login",
                  "readActive", "readAgain", "selectAll", "revokeAll", "rotate",
                  "logoutRead", "logoutWrite", "commit"} = PCs
  BY DEF PCs

LEMMA NewRequestType ==
  ASSUME NEW pc \in PCs, NEW e \in Emails \cup {None}, NEW t \in Tokens \cup {None}
  PROVE  NewRequest(pc, e, t) \in Request
  BY DEF NewRequest, Request

\* p is the record q with its program counter moved, about the same cookie and
\* holding the same new token.
Moved(p, q, pc, S) ==
    /\ p \in Request
    /\ p.pc = pc /\ p.token = q.token /\ p.new = q.new /\ p.revoke = S

LEMMA GotoType ==
  ASSUME NEW q \in Request, NEW pc \in PCs
  PROVE  Moved([q EXCEPT !.pc = pc], q, pc, q.revoke)
  BY DEF Request, Moved

LEMMA EmailType ==
  ASSUME NEW q \in Request, NEW pc \in PCs, NEW e \in Emails \cup {None}
  PROVE  Moved([q EXCEPT !.pc = pc, !.email = e], q, pc, q.revoke)
  BY DEF Request, Moved

LEMMA GrantType ==
  ASSUME NEW q \in Request, NEW pc \in PCs, NEW g \in {"none", "user", "admin"}
  PROVE  Moved([q EXCEPT !.pc = pc, !.grant = g], q, pc, q.revoke)
  BY DEF Request, Moved

LEMMA RevokeType ==
  ASSUME NEW q \in Request, NEW pc \in PCs, NEW S \in SUBSET Tokens
  PROVE  Moved([q EXCEPT !.pc = pc, !.revoke = S], q, pc, S)
  BY DEF Request, Moved

LEMMA IssueType ==
  ASSUME NEW q \in Request, NEW pc \in PCs, NEW n \in Tokens, NEW S \in SUBSET Tokens
  PROVE  [q EXCEPT !.pc = pc, !.new = n, !.revoke = S] \in Request
  BY DEF Request

LEMMA IdleType == IdleRequest \in Request
  BY NewRequestType, PCFacts DEF IdleRequest

LEMMA BecomeType ==
  ASSUME TypeOK, NEW r \in Requests, NEW q \in Request, Become(r, q)
  PROVE  req' \in [Requests -> Request]
  BY DEF TypeOK, Become

-----------------------------------------------------------------------------
(* Type correctness.                                                       *)

LEMMA InitTypeOK == Init => TypeOK
  BY AuthAssumption, IdleType DEF Init, TypeOK, Row, AbsentRow, Tokens

LEMMA RowFields ==
  ASSUME TypeOK, NEW t \in Tokens
  PROVE  /\ row[t] \in Row
         /\ row[t].status \in {"absent", "active", "revoked"}
         /\ row[t].owner \in Emails \cup {None}
         /\ row[t].parent \in Tokens \cup {None}
         /\ row[t].family \in Tokens \cup {None}
  BY DEF TypeOK, Row

LEMMA ReqFields ==
  ASSUME TypeOK, NEW r \in Requests
  PROVE  /\ req[r] \in Request
         /\ req[r].pc \in PCs
         /\ req[r].email \in Emails \cup {None}
         /\ req[r].token \in Tokens \cup {None}
         /\ req[r].grant \in {"none", "user", "admin"}
         /\ req[r].revoke \in SUBSET Tokens
         /\ req[r].new \in Tokens \cup {None}
  BY DEF TypeOK, Request

LEMMA CommitTypeOK ==
  ASSUME TypeOK, NEW r \in Requests, Commit(r)
  PROVE  TypeOK'
  <1>1. req' \in [Requests -> Request]
    BY BecomeType, IdleType DEF Commit, Finished
  <1>2. ASSUME NEW t \in Tokens PROVE RowAfterCommit(r, t) \in Row
    <2>1. CASE t = req[r].new
      BY <2>1, ReqFields, RowFields DEF RowAfterCommit, NewRow, Row
    <2>2. CASE t # req[r].new
      BY <2>2, RowFields DEF RowAfterCommit, Row
    <2> QED
      BY <2>1, <2>2
  <1>3. row' \in [Tokens -> Row]
    BY <1>2 DEF Commit
  <1>4. role' \in [Emails -> {"none", "user", "admin"}]
    BY ReqFields DEF Commit, TypeOK
  <1>5. rowLock' \in [Tokens -> Requests \cup {None}]
    BY DEF Commit, Release, TypeOK
  <1>6. emailLock' \in [Emails -> Requests \cup {None}]
    BY DEF Commit, Release, TypeOK
  <1> QED
    BY <1>1, <1>3, <1>4, <1>5, <1>6 DEF TypeOK, Commit

-----------------------------------------------------------------------------
(* The inductive step.                                                     *)

LEMMA InitIInv == Init => IInv
  BY InitTypeOK, AuthAssumption
  DEF Init, IInv, Row, AbsentRow, IdleRequest, NewRequest, Tokens, AbsentRows, NewTokens,
      Known, KnownTokens, Carries, CookiePCs, EmailPCs, Carriers, Consumes, RotationPlan,
      SuccessorConsumesParent

\* A step of one request that leaves the rows alone keeps the invariant when the
\* record it becomes speaks of known rows and holds at most the token just drawn.
LEMMA LocalStep ==
  ASSUME IInv, NEW r \in Requests, NEW q \in Request, Become(r, q),
         UNCHANGED <<role, row, expired>>,
         emailLock' \in [Emails -> Requests \cup {None}],
         rowLock' \in [Tokens -> Requests \cup {None}],
         Known(q), Carries(q), Consumes(q),
         \/ q.new = None /\ nextToken' = nextToken
         \/ /\ q.new = nextToken /\ q.pc = "commit"
            /\ nextToken \in Tokens /\ nextToken' = nextToken + 1
  PROVE  IInv'
  <1>0. nextToken \in Nat /\ nextToken <= MaxTokens + 1 /\ None \notin Nat
    BY AuthAssumption DEF IInv, TypeOK
  <1>1. /\ req' \in [Requests -> Request]
        /\ \A p \in Requests : req'[p] = IF p = r THEN q ELSE req[p]
    BY BecomeType DEF Become, IInv, TypeOK
  <1>2. TypeOK'
    BY <1>0, <1>1, AuthAssumption DEF IInv, TypeOK, Tokens
  <1>3. AbsentRows'
    BY <1>0 DEF IInv, AbsentRows, Tokens
  <1>4. NewTokens'
    <2> SUFFICES ASSUME NEW p \in Requests, req'[p].new # None
                 PROVE  /\ req'[p].pc = "commit"
                        /\ req'[p].new < nextToken'
                        /\ row[req'[p].new].status = "absent"
                        /\ \A o \in Requests : req'[o].new = req'[p].new => o = p
      BY DEF NewTokens
    <2>1. \A o \in Requests : req[o].new # None => req[o].new \in Nat /\ req[o].new < nextToken
      BY ReqFields DEF IInv, NewTokens, Tokens
    <2>2. CASE p = r
      BY <1>0, <1>1, <2>1, <2>2 DEF IInv, AbsentRows
    <2>3. CASE p # r
      BY <1>0, <1>1, <2>1, <2>3 DEF IInv, NewTokens
    <2> QED
      BY <2>2, <2>3
  <1>5. KnownTokens' /\ Carriers' /\ RotationPlan'
    BY <1>1 DEF IInv, KnownTokens, Known, Carriers, Carries, RotationPlan, Consumes
  <1>6. SuccessorConsumesParent'
    BY DEF IInv, SuccessorConsumesParent
  <1> QED
    BY <1>2, <1>3, <1>4, <1>5, <1>6 DEF IInv

\* A request that arrives: its record is new, and about a row that is there.
LEMMA StartStep ==
  ASSUME IInv, NEW r \in Requests, NEW pc \in PCs,
         NEW e \in Emails \cup {None}, NEW t \in Tokens \cup {None}, Start(r, pc, e, t),
         pc \in CookiePCs => t # None,
         pc \in EmailPCs => t = None,
         t # None => row[t].status # "absent"
  PROVE  IInv'
  <1> DEFINE q == NewRequest(pc, e, t)
  <1>2. q \in Request
    BY NewRequestType
  <1>3. Known(q) /\ Carries(q) /\ Consumes(q) /\ q.new = None
    BY DEF NewRequest, Known, Carries, Consumes
  <1>4. Become(r, q) /\ UNCHANGED <<role, row, expired, nextToken, emailLock, rowLock>>
    BY DEF Start
  <1> HIDE DEF q
  <1> QED
    BY <1>2, <1>3, <1>4, LocalStep DEF IInv, TypeOK

LEMMA ArriveIInv == ASSUME IInv, NEW r \in Requests, Arrive(r) PROVE IInv'
  <1>1. CASE StartRegister(r)
    <2>1. PICK e \in Emails : Start(r, "checkEmail", e, None)
      BY <1>1 DEF StartRegister
    <2> QED
      BY <2>1, StartStep, PCFacts DEF CookiePCs
  <1>2. CASE StartLogin(r)
    <2>1. PICK e \in Emails : Start(r, "login", e, None)
      BY <1>2 DEF StartLogin
    <2> QED
      BY <2>1, StartStep, PCFacts DEF CookiePCs
  <1>3. CASE StartRefresh(r)
    <2>1. PICK t \in Tokens : row[t].status # "absent" /\ Start(r, "readActive", None, t)
      BY <1>3 DEF StartRefresh
    <2>2. t # None
      BY AuthAssumption DEF Tokens
    <2> QED
      BY <2>1, <2>2, StartStep, PCFacts DEF EmailPCs
  <1>4. CASE StartLogout(r)
    <2>1. PICK t \in Tokens : row[t].status # "absent" /\ Start(r, "logoutRead", None, t)
      BY <1>4 DEF StartLogout
    <2>2. t # None
      BY AuthAssumption DEF Tokens
    <2> QED
      BY <2>1, <2>2, StartStep, PCFacts DEF EmailPCs
  <1> QED
    BY <1>1, <1>2, <1>3, <1>4 DEF Arrive

\* A step to another point of the handler that draws no token.
LEMMA MovedStep ==
  ASSUME IInv, NEW r \in Requests, req[r].pc # "commit", NEW pc \in PCs,
         pc \in CookiePCs => req[r].pc \in CookiePCs,
         pc \in EmailPCs => req[r].pc \in EmailPCs,
         NEW p, NEW S \in SUBSET Tokens, Moved(p, req[r], pc, S), Become(r, p),
         \A t \in S : row[t].status # "absent",
         UNCHANGED <<role, row, expired, nextToken>>,
         emailLock' \in [Emails -> Requests \cup {None}],
         rowLock' \in [Tokens -> Requests \cup {None}]
  PROVE  IInv'
  <1>1. Known(req[r]) /\ Carries(req[r]) /\ req[r].new = None
    BY DEF IInv, KnownTokens, Carriers, NewTokens
  <1>2. Known(p) /\ Carries(p) /\ Consumes(p) /\ p \in Request /\ p.new = None
    BY <1>1 DEF Moved, Known, Carries, Consumes
  <1> QED
    BY <1>2, LocalStep

\* The same, when the rows to revoke stay as they were.
LEMMA KeptStep ==
  ASSUME IInv, NEW r \in Requests, req[r].pc # "commit", NEW pc \in PCs,
         pc \in CookiePCs => req[r].pc \in CookiePCs,
         pc \in EmailPCs => req[r].pc \in EmailPCs,
         NEW p, Moved(p, req[r], pc, req[r].revoke), Become(r, p),
         UNCHANGED <<role, row, expired, nextToken>>,
         emailLock' \in [Emails -> Requests \cup {None}],
         rowLock' \in [Tokens -> Requests \cup {None}]
  PROVE  IInv'
  <1>1. req[r].revoke \in SUBSET Tokens /\ \A t \in req[r].revoke : row[t].status # "absent"
    BY ReqFields DEF IInv, KnownTokens, Known
  <1> QED
    BY <1>1, MovedStep

\* The request ends without having written anything.
LEMMA FinishedStep ==
  ASSUME IInv, NEW r \in Requests, Finished(r),
         UNCHANGED <<role, row, expired, nextToken, emailLock, rowLock>>
  PROVE  IInv'
  <1>1. Known(IdleRequest) /\ Carries(IdleRequest) /\ Consumes(IdleRequest) /\ IdleRequest.new = None
    BY DEF IdleRequest, NewRequest, Known, Carries, CookiePCs, EmailPCs, Consumes
  <1> QED
    BY <1>1, IdleType, LocalStep DEF Finished, IInv, TypeOK

\* A session is issued, with the rows S revoked in the same transaction.
LEMMA IssueStep ==
  ASSUME IInv, NEW r \in Requests, req[r].pc # "commit",
         NEW S \in SUBSET {t \in Tokens : row[t].status # "absent"}, IssueSession(r, S),
         req[r].token # None => req[r].token \in S,
         UNCHANGED <<role, row, expired>>,
         emailLock' \in [Emails -> Requests \cup {None}],
         rowLock' \in [Tokens -> Requests \cup {None}]
  PROVE  IInv'
  <1> DEFINE q == [req[r] EXCEPT !.pc = "commit", !.new = nextToken, !.revoke = S]
  <1>1. req[r] \in Request /\ Known(req[r])
    BY ReqFields DEF IInv, KnownTokens
  <1>2. q \in Request /\ q.pc = "commit" /\ q.new = nextToken /\ q.token = req[r].token /\ q.revoke = S
    <2>1. "commit" \in PCs /\ nextToken \in Tokens /\ S \in SUBSET Tokens
      BY PCFacts DEF IssueSession
    <2>2. q \in Request
      BY <1>1, <2>1, IssueType
    <2> QED
      BY <1>1, <2>2 DEF Request
  <1>3. Become(r, q) /\ nextToken \in Tokens /\ nextToken' = nextToken + 1
    BY DEF IssueSession
  <1> HIDE DEF q
  <1>4. Known(q) /\ Carries(q) /\ Consumes(q)
    BY <1>1, <1>2 DEF Known, Carries, CookiePCs, EmailPCs, Consumes
  <1> QED
    BY <1>2, <1>3, <1>4, LocalStep
-----------------------------------------------------------------------------
(* Commit.                                                                 *)

LEMMA CommitStep == ASSUME IInv, NEW r \in Requests, Commit(r) PROVE IInv'
  <1>1. TypeOK'
    BY CommitTypeOK DEF IInv
  <1>2. /\ \A p \in Requests : req'[p] = IF p = r THEN IdleRequest ELSE req[p]
        /\ \A t \in Tokens : row'[t] = RowAfterCommit(r, t)
        /\ nextToken' = nextToken /\ nextToken \in Nat /\ None \notin Nat
    BY AuthAssumption DEF IInv, TypeOK, Commit, Finished, Become
  <1>3. /\ req[r].new \in Tokens \cup {None} /\ req[r].revoke \subseteq Tokens
        /\ req[r].token \in Tokens \cup {None}
        /\ req[r].new # None => /\ req[r].new < nextToken
                                /\ row[req[r].new].status = "absent"
        /\ \A t \in req[r].revoke : row[t].status # "absent"
        /\ req[r].token # None => row[req[r].token].status # "absent"
        /\ req[r].new # None /\ req[r].token # None => req[r].token \in req[r].revoke
    BY ReqFields DEF IInv, NewTokens, KnownTokens, Known, RotationPlan, Consumes
  <1>4. \A t \in Tokens :
           /\ t = req[r].new => row'[t].status = "active" /\ row'[t].parent = req[r].token
           /\ t # req[r].new /\ t \in req[r].revoke =>
                 row'[t].status = "revoked" /\ row'[t].parent = row[t].parent
           /\ t # req[r].new /\ t \notin req[r].revoke => row'[t] = row[t]
    <2> SUFFICES ASSUME NEW t \in Tokens
                 PROVE  /\ t = req[r].new =>
                             RowAfterCommit(r, t).status = "active" /\ RowAfterCommit(r, t).parent = req[r].token
                        /\ t # req[r].new /\ t \in req[r].revoke =>
                             /\ RowAfterCommit(r, t).status = "revoked"
                             /\ RowAfterCommit(r, t).parent = row[t].parent
                        /\ t # req[r].new /\ t \notin req[r].revoke => RowAfterCommit(r, t) = row[t]
      BY <1>2
    <2>1. row[t] \in Row
      BY RowFields DEF IInv
    <2> QED
      BY <2>1 DEF RowAfterCommit, NewRow, Row
  <1>5. AbsentRows'
    BY <1>2, <1>3, <1>4 DEF IInv, AbsentRows, Tokens
  <1>6. NewTokens'
    BY <1>2, <1>3, <1>4, ReqFields DEF IInv, NewTokens, IdleRequest, NewRequest
  <1>7. KnownTokens' /\ Carriers' /\ RotationPlan'
    BY <1>2, <1>3, <1>4, ReqFields
    DEF IInv, KnownTokens, Known, Carriers, Carries, CookiePCs, EmailPCs, RotationPlan, Consumes,
        IdleRequest, NewRequest
  <1>8. SuccessorConsumesParent'
    <2> SUFFICES ASSUME NEW t \in Tokens, row'[t].parent # None
                 PROVE  row'[row'[t].parent].status = "revoked"
      BY DEF SuccessorConsumesParent
    <2>1. CASE t = req[r].new
      <3>1. row'[t].parent = req[r].token /\ req[r].token \in Tokens
        BY <1>3, <1>4, <2>1
      <3>2. req[r].token # req[r].new /\ req[r].token \in req[r].revoke
        BY <1>3, <2>1, <3>1, AuthAssumption DEF Tokens
      <3> QED
        BY <1>4, <3>1, <3>2
    <2>2. CASE t # req[r].new
      <3>1. row'[t].parent = row[t].parent /\ row[t].parent \in Tokens
        BY <1>4, <2>2, RowFields DEF IInv
      <3>2. row[row[t].parent].status = "revoked"
        BY <3>1 DEF IInv, SuccessorConsumesParent
      <3> QED
        BY <1>3, <1>4, <3>1, <3>2
    <2> QED
      BY <2>1, <2>2
  <1> QED
    BY <1>1, <1>5, <1>6, <1>7, <1>8 DEF IInv

LEMMA HandleIInv == ASSUME IInv, NEW r \in Requests, Handle(r) PROVE IInv'
  <1>0. /\ TypeOK /\ req[r] \in Request /\ req[r].pc \in PCs
        /\ req[r].revoke \in SUBSET Tokens /\ req[r].token \in Tokens \cup {None}
        /\ emailLock \in [Emails -> Requests \cup {None}]
        /\ rowLock \in [Tokens -> Requests \cup {None}]
    BY ReqFields DEF IInv, TypeOK
  <1>a. Known(req[r]) /\ Carries(req[r])
    BY DEF IInv, KnownTokens, Carriers
  <1>1. CASE RegisterCheckEmail(r)
    <2>1. CASE role[req[r].email] # "none"
      BY <1>1, <2>1, FinishedStep DEF RegisterCheckEmail
    <2>2. CASE role[req[r].email] = "none"
      <3>1. Moved([req[r] EXCEPT !.pc = "countUsers"], req[r], "countUsers", req[r].revoke)
        BY <1>0, PCFacts, GotoType
      <3> QED
        BY <1>0, <1>1, <2>2, <3>1, KeptStep, PCFacts DEF RegisterCheckEmail, Goto, CookiePCs, EmailPCs
    <2> QED
      BY <2>1, <2>2
  <1>2. CASE RegisterCountUsers(r)
    <2>1. PICK g \in {"none", "user", "admin"} : Become(r, [req[r] EXCEPT !.pc = "insertUser", !.grant = g])
      BY <1>2, ZenonT(60) DEF RegisterCountUsers
    <2>2. Moved([req[r] EXCEPT !.pc = "insertUser", !.grant = g], req[r], "insertUser", req[r].revoke)
      BY <1>0, PCFacts, GrantType, ZenonT(60)
    <2> QED
      BY <1>0, <1>2, <2>1, <2>2, KeptStep, PCFacts DEF RegisterCountUsers, CookiePCs, EmailPCs
  <1>3. CASE RegisterInsert(r)
    <2>1. req[r].token = None /\ req[r].pc # "commit"
      BY <1>a, <1>3 DEF RegisterInsert, Carries, EmailPCs
    <2>2. emailLock' \in [Emails -> Requests \cup {None}] /\ UNCHANGED <<role, row, expired, rowLock>>
      BY <1>0, <1>3 DEF RegisterInsert
    <2>3. IssueSession(r, {})
      BY <1>3 DEF RegisterInsert
    <2> QED
      BY <1>0, <2>1, <2>2, <2>3, IssueStep
  <1>4. CASE RegisterConflict(r)
    BY <1>4, FinishedStep DEF RegisterConflict
  <1>5. CASE Login(r)
    <2>1. req[r].token = None /\ req[r].pc # "commit"
      BY <1>a, <1>5 DEF Login, Carries, EmailPCs
    <2>2. CASE IssueSession(r, {})
      BY <1>0, <1>5, <2>1, <2>2, IssueStep DEF Login
    <2>3. CASE Finished(r) /\ UNCHANGED nextToken
      BY <1>5, <2>3, FinishedStep DEF Login
    <2> QED
      BY <1>5, <2>2, <2>3 DEF Login
  <1>6. CASE RefreshReadActive(r)
    <2>1. CASE IsActive(req[r].token)
      <3> DEFINE e == row[req[r].token].owner
      <3>1. req[r].token \in Tokens
        BY <1>0, <1>a, <1>6 DEF RefreshReadActive, Carries, CookiePCs
      <3>2. e \in Emails \cup {None}
        BY <1>0, <3>1, RowFields
      <3>3. Moved([req[r] EXCEPT !.pc = "rotate", !.email = e], req[r], "rotate", req[r].revoke)
        BY <1>0, <3>2, PCFacts, EmailType
      <3>4. Become(r, [req[r] EXCEPT !.pc = "rotate", !.email = e]) /\ req[r].pc = "readActive"
        BY <1>6, <2>1 DEF RefreshReadActive
      <3> HIDE DEF e
      <3> QED
        BY <1>0, <1>6, <3>3, <3>4, KeptStep, PCFacts DEF RefreshReadActive, CookiePCs, EmailPCs
    <2>2. CASE ~ IsActive(req[r].token)
      <3>1. Moved([req[r] EXCEPT !.pc = "readAgain"], req[r], "readAgain", req[r].revoke)
        BY <1>0, PCFacts, GotoType
      <3> QED
        BY <1>0, <1>6, <2>2, <3>1, KeptStep, PCFacts DEF RefreshReadActive, Goto, CookiePCs, EmailPCs
    <2> QED
      BY <2>1, <2>2
  <1>7. CASE RefreshReadAgain(r)
    <2>1. CASE row[req[r].token].status = "revoked"
      <3> DEFINE e == row[req[r].token].owner
      <3>1. req[r].token \in Tokens
        BY <1>0, <1>a, <1>7 DEF RefreshReadAgain, Carries, CookiePCs
      <3>2. e \in Emails \cup {None}
        BY <1>0, <3>1, RowFields
      <3>3. Moved([req[r] EXCEPT !.pc = "selectAll", !.email = e], req[r], "selectAll", req[r].revoke)
        BY <1>0, <3>2, PCFacts, EmailType
      <3>4. Become(r, [req[r] EXCEPT !.pc = "selectAll", !.email = e]) /\ req[r].pc = "readAgain"
        BY <1>7, <2>1 DEF RefreshReadAgain
      <3> HIDE DEF e
      <3> QED
        BY <1>0, <1>7, <3>3, <3>4, KeptStep, PCFacts DEF RefreshReadAgain, CookiePCs, EmailPCs
    <2>2. CASE row[req[r].token].status # "revoked"
      BY <1>7, <2>2, FinishedStep DEF RefreshReadAgain
    <2> QED
      BY <2>1, <2>2
  <1>8. CASE RefreshRotate(r)
    <2>1. req[r].token \in Tokens /\ row[req[r].token].status # "absent" /\ req[r].pc # "commit"
      BY <1>0, <1>a, <1>8 DEF RefreshRotate, Carries, CookiePCs, Known
    <2>2. rowLock' \in [Tokens -> Requests \cup {None}] /\ UNCHANGED <<role, row, expired, emailLock>>
      BY <1>0, <1>8 DEF RefreshRotate
    <2>3. IssueSession(r, {req[r].token})
      BY <1>8 DEF RefreshRotate
    <2> QED
      BY <1>0, <2>1, <2>2, <2>3, IssueStep
  <1>9. CASE RevokeAllSelect(r)
    <2> DEFINE S == {t \in Tokens : row[t].status = "active" /\ row[t].owner = req[r].email}
    <2>1. Moved([req[r] EXCEPT !.pc = "revokeAll", !.revoke = S], req[r], "revokeAll", S)
      BY <1>0, PCFacts, RevokeType
    <2>2. /\ Become(r, [req[r] EXCEPT !.pc = "revokeAll", !.revoke = S])
          /\ S \in SUBSET Tokens /\ \A t \in S : row[t].status # "absent"
      BY <1>9 DEF RevokeAllSelect
    <2> HIDE DEF S
    <2> QED
      BY <1>0, <1>9, <2>1, <2>2, MovedStep, PCFacts DEF RevokeAllSelect, CookiePCs, EmailPCs
  <1>10. CASE RevokeAllUpdate(r)
    <2>1. Moved([req[r] EXCEPT !.pc = "commit"], req[r], "commit", req[r].revoke)
      BY <1>0, PCFacts, GotoType
    <2>2. CASE Goto(r, "commit") /\ UNCHANGED rowLock
      BY <1>0, <1>10, <2>1, <2>2, KeptStep, PCFacts DEF RevokeAllUpdate, Goto, CookiePCs, EmailPCs
    <2>3. CASE UNCHANGED req
      <3>1. rowLock' \in [Tokens -> Requests \cup {None}]
        BY <1>0, <1>10 DEF RevokeAllUpdate
      <3> QED
        BY <1>10, <2>3, <3>1
        DEF RevokeAllUpdate, IInv, TypeOK, AbsentRows, NewTokens, KnownTokens, Known, Carriers,
            Carries, RotationPlan, Consumes, SuccessorConsumesParent
    <2> QED
      BY <1>10, <2>2, <2>3 DEF RevokeAllUpdate
  <1>11. CASE LogoutRead(r)
    <2>1. Moved([req[r] EXCEPT !.pc = "logoutWrite"], req[r], "logoutWrite", req[r].revoke)
      BY <1>0, PCFacts, GotoType
    <2>2. CASE IsActive(req[r].token)
      BY <1>0, <1>11, <2>1, <2>2, KeptStep, PCFacts DEF LogoutRead, Goto, CookiePCs, EmailPCs
    <2>3. CASE ~ IsActive(req[r].token)
      BY <1>11, <2>3, FinishedStep DEF LogoutRead
    <2> QED
      BY <2>2, <2>3
  <1>12. CASE LogoutWrite(r)
    <2>1. req[r].token \in Tokens /\ row[req[r].token].status # "absent"
      BY <1>0, <1>a, <1>12 DEF LogoutWrite, Carries, CookiePCs, Known
    <2>2. Moved([req[r] EXCEPT !.pc = "commit", !.revoke = {req[r].token}], req[r], "commit", {req[r].token})
      BY <1>0, <2>1, PCFacts, RevokeType
    <2>3. /\ rowLock' \in [Tokens -> Requests \cup {None}]
          /\ Become(r, [req[r] EXCEPT !.pc = "commit", !.revoke = {req[r].token}])
          /\ UNCHANGED <<role, row, expired, nextToken, emailLock>>
          /\ req[r].pc = "logoutWrite"
      BY <1>0, <1>12 DEF LogoutWrite
    <2> DEFINE p == [req[r] EXCEPT !.pc = "commit", !.revoke = {req[r].token}]
               S == {req[r].token}
    <2>4. S \in SUBSET Tokens /\ \A t \in S : row[t].status # "absent"
      BY <2>1
    <2>5. "commit" \in PCs /\ "commit" \notin CookiePCs /\ "commit" \notin EmailPCs
      BY PCFacts DEF CookiePCs, EmailPCs
    <2>6. emailLock' \in [Emails -> Requests \cup {None}] /\ req[r].pc # "commit"
      BY <1>0, <2>3
    <2>7. Moved(p, req[r], "commit", S) /\ Become(r, p)
      BY <2>2, <2>3
    <2> HIDE DEF p, S
    <2> QED
      BY <2>3, <2>4, <2>5, <2>6, <2>7, MovedStep
  <1>13. CASE Commit(r)
    BY <1>13, CommitStep
  <1> QED
    BY <1>1, <1>2, <1>3, <1>4, <1>5, <1>6, <1>7, <1>8, <1>9, <1>10, <1>11, <1>12, <1>13 DEF Handle

LEMMA NextIInv == IInv /\ [Next]_vars => IInv'
  <1> SUFFICES ASSUME IInv, [Next]_vars PROVE IInv'
    OBVIOUS
  <1>1. CASE Expire
    BY <1>1 DEF Expire, IInv, TypeOK, AbsentRows, NewTokens, KnownTokens, Known, Carriers, Carries,
                RotationPlan, Consumes, SuccessorConsumesParent
  <1>2. CASE UNCHANGED vars
    BY <1>2 DEF vars, server, IInv, TypeOK, AbsentRows, NewTokens, KnownTokens, Known, Carriers, Carries,
                RotationPlan, Consumes, SuccessorConsumesParent
  <1> QED
    BY <1>1, <1>2, ArriveIInv, HandleIInv DEF Next, Step

-----------------------------------------------------------------------------
(* What one request revokes is one user's: a second invariant, inductive   *)
(* relative to the first.                                                  *)

OneOwner == \A r \in Requests : \A t, u \in req[r].revoke : row[t].owner = row[u].owner

\* The user's rows that reuse detection selects.
Mine(r) == {t \in Tokens : row[t].status = "active" /\ row[t].owner = req[r].email}

\* The rows that a request plans to revoke: none, its cookie's, its user's, or
\* what it had planned.
Plans(r) == {req[r].revoke, {}, {req[r].token}, Mine(r)}

LEMMA BecomePlans ==
  ASSUME TypeOK, NEW r \in Requests, NEW q, Become(r, q), q.revoke \in Plans(r)
  PROVE  \A p \in Requests : req'[p].revoke \in Plans(p)
  BY DEF TypeOK, Become, Plans

LEMMA PlansKept ==
  ASSUME IInv, NEW r \in Requests, Arrive(r) \/ Handle(r)
  PROVE  \A p \in Requests : req'[p].revoke \in Plans(p)
  <1>0. TypeOK /\ req[r] \in Request
    BY ReqFields DEF IInv
  <1>1. ASSUME NEW pc, NEW e, NEW t, Start(r, pc, e, t)
        PROVE  \A p \in Requests : req'[p].revoke \in Plans(p)
    BY <1>0, <1>1, BecomePlans DEF Start, NewRequest, Plans
  <1>2. CASE Arrive(r)
    BY <1>1, <1>2 DEF Arrive, StartRegister, StartLogin, StartRefresh, StartLogout
  <1>3. ASSUME Finished(r)
        PROVE  \A p \in Requests : req'[p].revoke \in Plans(p)
    BY <1>0, <1>3, BecomePlans DEF Finished, IdleRequest, NewRequest, Plans
  <1>4. ASSUME NEW pc, Goto(r, pc)
        PROVE  \A p \in Requests : req'[p].revoke \in Plans(p)
    <2>1. [req[r] EXCEPT !.pc = pc].revoke = req[r].revoke
      BY <1>0 DEF Request
    <2> QED
      BY <1>0, <1>4, <2>1, BecomePlans DEF Goto, Plans
  <1>5. ASSUME NEW S \in Plans(r), IssueSession(r, S)
        PROVE  \A p \in Requests : req'[p].revoke \in Plans(p)
    <2>1. [req[r] EXCEPT !.pc = "commit", !.new = nextToken, !.revoke = S].revoke = S
      BY <1>0 DEF Request
    <2> QED
      BY <1>0, <1>5, <2>1, BecomePlans DEF IssueSession
  <1>6. {} \in Plans(r) /\ {req[r].token} \in Plans(r) /\ Mine(r) \in Plans(r)
    BY DEF Plans
  <1>7. CASE RegisterCheckEmail(r)
    BY <1>3, <1>4, <1>7 DEF RegisterCheckEmail
  <1>8. CASE RegisterCountUsers(r)
    <2>1. PICK g : Become(r, [req[r] EXCEPT !.pc = "insertUser", !.grant = g])
      BY <1>8 DEF RegisterCountUsers
    <2>2. [req[r] EXCEPT !.pc = "insertUser", !.grant = g].revoke = req[r].revoke
      BY <1>0 DEF Request
    <2> QED
      BY <1>0, <2>1, <2>2, BecomePlans DEF Plans
  <1>9. CASE RegisterInsert(r)
    BY <1>5, <1>6, <1>9 DEF RegisterInsert
  <1>10. CASE RegisterConflict(r) \/ Login(r) \/ Commit(r)
    BY <1>3, <1>5, <1>6, <1>10 DEF RegisterConflict, Login, Commit
  <1>11. CASE RefreshReadActive(r)
    <2>1. CASE Goto(r, "readAgain")
      BY <1>4, <2>1
    <2>2. CASE Become(r, [req[r] EXCEPT !.pc = "rotate", !.email = row[req[r].token].owner])
      <3>1. [req[r] EXCEPT !.pc = "rotate", !.email = row[req[r].token].owner].revoke = req[r].revoke
        BY <1>0 DEF Request
      <3> QED
        BY <1>0, <2>2, <3>1, BecomePlans DEF Plans
    <2> QED
      BY <1>11, <2>1, <2>2 DEF RefreshReadActive
  <1>12. CASE RefreshReadAgain(r)
    <2>1. CASE Finished(r)
      BY <1>3, <2>1
    <2>2. CASE Become(r, [req[r] EXCEPT !.pc = "selectAll", !.email = row[req[r].token].owner])
      <3>1. [req[r] EXCEPT !.pc = "selectAll", !.email = row[req[r].token].owner].revoke = req[r].revoke
        BY <1>0 DEF Request
      <3> QED
        BY <1>0, <2>2, <3>1, BecomePlans DEF Plans
    <2> QED
      BY <1>12, <2>1, <2>2 DEF RefreshReadAgain
  <1>13. CASE RefreshRotate(r)
    BY <1>5, <1>6, <1>13 DEF RefreshRotate
  <1>14. CASE RevokeAllSelect(r)
    <2>1. Become(r, [req[r] EXCEPT !.pc = "revokeAll", !.revoke = Mine(r)])
      BY <1>14 DEF RevokeAllSelect, Mine
    <2>2. [req[r] EXCEPT !.pc = "revokeAll", !.revoke = Mine(r)].revoke = Mine(r)
      BY <1>0 DEF Request
    <2> QED
      BY <1>0, <1>6, <2>1, <2>2, BecomePlans
  <1>15. CASE RevokeAllUpdate(r)
    <2>1. CASE Goto(r, "commit")
      BY <1>4, <2>1
    <2>2. CASE UNCHANGED req
      BY <2>2 DEF Plans
    <2> QED
      BY <1>15, <2>1, <2>2 DEF RevokeAllUpdate
  <1>16. CASE LogoutRead(r)
    BY <1>3, <1>4, <1>16 DEF LogoutRead
  <1>17. CASE LogoutWrite(r)
    <2>1. [req[r] EXCEPT !.pc = "commit", !.revoke = {req[r].token}].revoke = {req[r].token}
      BY <1>0 DEF Request
    <2> QED
      BY <1>0, <1>6, <1>17, <2>1, BecomePlans, ZenonT(60) DEF LogoutWrite
  <1> QED
    BY <1>2, <1>7, <1>8, <1>9, <1>10, <1>11, <1>12, <1>13, <1>14, <1>15, <1>16, <1>17 DEF Handle

\* Only a commit changes the rows.
LEMMA RowsChangeAtCommit ==
  ASSUME Next
  PROVE  (\E r \in Requests : Commit(r)) \/ UNCHANGED row
  BY ZenonT(60) DEF Next, Step, Expire, Arrive, StartRegister, StartLogin, StartRefresh, StartLogout, Start, Handle,
         RegisterCheckEmail, RegisterCountUsers, RegisterInsert, RegisterConflict, Login,
         RefreshReadActive, RefreshReadAgain, RefreshRotate, RevokeAllSelect, RevokeAllUpdate,
         LogoutRead, LogoutWrite

LEMMA OwnersKept ==
  ASSUME IInv, Next, NEW t \in Tokens, row[t].status # "absent"
  PROVE  row'[t].owner = row[t].owner
  <1>1. CASE UNCHANGED row
    BY <1>1
  <1>2. ASSUME NEW r \in Requests, Commit(r) PROVE row'[t].owner = row[t].owner
    <2>1. row'[t] = RowAfterCommit(r, t) /\ row[t] \in Row
      BY <1>2, RowFields DEF IInv, Commit
    <2>2. t # req[r].new
      BY AuthAssumption DEF IInv, NewTokens, Tokens
    <2> QED
      BY <2>1, <2>2 DEF RowAfterCommit, Row
  <1> QED
    BY <1>1, <1>2, RowsChangeAtCommit

LEMMA OneOwnerStep == IInv /\ OneOwner /\ [Next]_vars => OneOwner'
  <1> SUFFICES ASSUME IInv, OneOwner, Next, NEW p \in Requests,
                      NEW t \in req'[p].revoke, NEW u \in req'[p].revoke
               PROVE  row'[t].owner = row'[u].owner
    BY DEF OneOwner, vars, server
  <1>1. req'[p].revoke \in Plans(p)
    <2>1. CASE Expire
      BY <2>1 DEF Expire, Plans
    <2> QED
      BY <2>1, PlansKept DEF Next, Step
  <1>2. t = u \/ (row[t].status # "absent" /\ row[u].status # "absent" /\ row[t].owner = row[u].owner)
    BY <1>1 DEF Plans, Mine, IInv, KnownTokens, Known, OneOwner
  <1>3. t # u => t \in Tokens /\ u \in Tokens
    BY <1>1, ReqFields DEF Plans, Mine, IInv
  <1> QED
    BY <1>2, <1>3, OwnersKept

-----------------------------------------------------------------------------
(* Registrations, as long as no two requests have overlapped.              *)

\* What a request that registers, or issues a session, knows of its user.
Registers(q) ==
    /\ q.pc \in EmailPCs \cup {"rotate"} => q.email \in Emails
    /\ q.pc \in {"countUsers", "insertUser"} => role[q.email] = "none"
    /\ q.pc = "rotate" => role[q.email] # "none"
    /\ q.pc = "insertUser" => q.grant # "none"
    /\ q.grant # "none" => q.pc \in {"insertUser", "commit"}
    /\ q.grant = "admin" => \A e \in Emails : role[e] = "none"
    /\ q.new # None => q.email \in Emails /\ (q.grant # "none" \/ role[q.email] # "none")

OneAdmin == \A e, f \in Emails : role[e] = "admin" /\ role[f] = "admin" => e = f

OwnersExist ==
    \A t \in Tokens : row[t].status # "absent" => row[t].owner \in Emails /\ role[row[t].owner] # "none"

OneRequest ==
    /\ \A r, q \in Requests : req[r].pc # "idle" /\ req[q].pc # "idle" => r = q
    /\ OneAdmin /\ OwnersExist
    /\ \A r \in Requests : Registers(req[r])

\* A step of one request that changes neither users nor tokens.
LEMMA TurnInOrder ==
  ASSUME TypeOK, OneRequest, NEW r \in Requests, NEW q \in Request, Become(r, q),
         UNCHANGED <<role, row>>, ~Overlap', Registers(q)
  PROVE  OneRequest'
  <1>1. req'[r] = q /\ \A s \in Requests \ {r} : req'[s] = req[s]
    BY DEF TypeOK, Become
  <1>2. \A s \in Requests : Registers(req[s])'
    BY <1>1 DEF OneRequest, Registers
  <1>3. OneAdmin' /\ OwnersExist'
    BY DEF OneRequest, OneAdmin, OwnersExist
  <1>4. \A s, x \in Requests : req'[s].pc # "idle" /\ req'[x].pc # "idle" => s = x
    BY DEF Overlap
  <1> QED
    BY <1>2, <1>3, <1>4 DEF OneRequest

LEMMA IdleRegisters == Registers(IdleRequest)
  BY DEF Registers, IdleRequest, NewRequest, EmailPCs

LEMMA ArriveInOrder ==
  ASSUME TypeOK, OneRequest, NEW r \in Requests, Arrive(r), ~Overlap'
  PROVE  OneRequest'
  <1>1. ASSUME NEW pc \in {"checkEmail", "login", "readActive", "logoutRead"},
               NEW e \in Emails \cup {None}, NEW t \in Tokens \cup {None},
               pc \in EmailPCs => e \in Emails, Start(r, pc, e, t)
        PROVE  OneRequest'
    <2>1. PICK q : q = NewRequest(pc, e, t)
      OBVIOUS
    <2>2. q \in Request /\ Registers(q)
      BY <1>1, <2>1, NewRequestType, PCFacts DEF Registers, NewRequest
    <2> QED
      BY <1>1, <2>1, <2>2, TurnInOrder DEF Start
  <1> QED
    BY <1>1 DEF Arrive, StartRegister, StartLogin, StartRefresh, StartLogout, EmailPCs

\* IssueSession: the user of the session exists, or is inserted with it.
LEMMA IssueInOrder ==
  ASSUME TypeOK, OneRequest, NEW r \in Requests, NEW S \in SUBSET Tokens, IssueSession(r, S),
         UNCHANGED <<role, row>>, ~Overlap', req[r].email \in Emails,
         req[r].grant # "none" \/ role[req[r].email] # "none"
  PROVE  OneRequest'
  <1>1. PICK q : q = [req[r] EXCEPT !.pc = "commit", !.new = nextToken, !.revoke = S]
    OBVIOUS
  <1>2. q \in Request
    BY <1>1, ReqFields, IssueType, PCFacts DEF IssueSession
  <1>3. q.pc = "commit" /\ q.new = nextToken /\ q.email = req[r].email /\ q.grant = req[r].grant
    BY <1>1, ReqFields DEF Request
  <1>4. Registers(q)
    BY <1>3 DEF OneRequest, Registers, EmailPCs
  <1> QED
    BY <1>1, <1>2, <1>4, TurnInOrder DEF IssueSession

LEMMA RegisterInOrder ==
  ASSUME TypeOK, OneRequest, NEW r \in Requests, ~Overlap',
         RegisterCheckEmail(r) \/ RegisterCountUsers(r) \/ RegisterInsert(r) \/ RegisterConflict(r) \/ Login(r)
  PROVE  OneRequest'
  <1> USE ReqFields
  <1>1. Registers(req[r])
    BY DEF OneRequest
  <1>2. ASSUME Finished(r), UNCHANGED <<role, row>> PROVE OneRequest'
    BY <1>2, IdleType, IdleRegisters, TurnInOrder DEF Finished
  <1>3. CASE RegisterCheckEmail(r)
    <2>1. CASE role[req[r].email] # "none"
      BY <1>2, <1>3, <2>1 DEF RegisterCheckEmail
    <2>2. CASE role[req[r].email] = "none"
      <3>1. PICK q : q = [req[r] EXCEPT !.pc = "countUsers"]
        OBVIOUS
      <3>2. q \in Request /\ q.pc = "countUsers" /\ q.email = req[r].email /\ q.grant = req[r].grant
            /\ q.new = req[r].new
        BY <3>1, PCFacts DEF Request
      <3>3. Registers(q)
        BY <1>1, <1>3, <2>2, <3>2 DEF RegisterCheckEmail, Registers, EmailPCs
      <3> QED
        BY <1>3, <2>2, <3>1, <3>2, <3>3, TurnInOrder DEF RegisterCheckEmail, Goto
    <2> QED
      BY <2>1, <2>2
  <1>4. CASE RegisterCountUsers(r)
    <2>1. PICK g \in {"user", "admin"} :
             /\ Become(r, [req[r] EXCEPT !.pc = "insertUser", !.grant = g])
             /\ g = "admin" => \A e \in Emails : role[e] = "none"
      BY <1>4 DEF RegisterCountUsers
    <2>2. PICK q : q = [req[r] EXCEPT !.pc = "insertUser", !.grant = g]
      OBVIOUS
    <2>3. q \in Request /\ q.pc = "insertUser" /\ q.email = req[r].email /\ q.grant = g
          /\ q.new = req[r].new
      BY <2>2, PCFacts DEF Request
    <2>4. Registers(q)
      BY <1>1, <1>4, <2>1, <2>3 DEF RegisterCountUsers, Registers, EmailPCs
    <2> QED
      BY <1>4, <2>1, <2>2, <2>3, <2>4, TurnInOrder DEF RegisterCountUsers
  <1>5. CASE RegisterInsert(r)
    BY <1>1, <1>5, IssueInOrder DEF RegisterInsert, Registers, EmailPCs
  <1>6. CASE RegisterConflict(r)
    BY <1>2, <1>6 DEF RegisterConflict
  <1>7. CASE Login(r)
    BY <1>1, <1>2, <1>7, IssueInOrder DEF Login, Registers, EmailPCs
  <1> QED
    BY <1>3, <1>4, <1>5, <1>6, <1>7

\* The handlers of the cookie register nobody.
LEMMA CookieInOrder ==
  ASSUME IInv, OneRequest, NEW r \in Requests, ~Overlap',
         \/ RefreshReadActive(r) \/ RefreshReadAgain(r) \/ RefreshRotate(r)
         \/ RevokeAllSelect(r) \/ RevokeAllUpdate(r) \/ LogoutRead(r) \/ LogoutWrite(r)
  PROVE  OneRequest'
  <1> USE ReqFields
  <1>1. /\ TypeOK /\ Registers(req[r]) /\ UNCHANGED <<role, row>>
        /\ req[r].pc \notin {"insertUser", "commit"}
    BY DEF IInv, OneRequest, RefreshReadActive, RefreshReadAgain, RefreshRotate, RevokeAllSelect,
           RevokeAllUpdate, LogoutRead, LogoutWrite
  <1>2. req[r].grant = "none" /\ req[r].new = None
    BY <1>1 DEF Registers, IInv, NewTokens
  <1>3. ASSUME Finished(r) PROVE OneRequest'
    BY <1>1, <1>3, IdleType, IdleRegisters, TurnInOrder DEF Finished
  \* q goes on, with no e-mail to register.
  <1>4. ASSUME NEW q \in Request, Become(r, q), q.grant = req[r].grant, q.new = req[r].new,
               q.pc \in {"readAgain", "selectAll", "revokeAll", "commit", "logoutWrite"}
        PROVE  OneRequest'
    BY <1>1, <1>2, <1>4, TurnInOrder DEF Registers, EmailPCs
  <1>5. ASSUME NEW pc \in {"readAgain", "commit", "logoutWrite"}, Goto(r, pc) PROVE OneRequest'
    <2>1. PICK q : q = [req[r] EXCEPT !.pc = pc]
      OBVIOUS
    <2>2. q \in Request /\ q.pc = pc /\ q.grant = req[r].grant /\ q.new = req[r].new
      BY <1>1, <1>5, <2>1, PCFacts DEF Request
    <2> QED
      BY <1>4, <1>5, <2>1, <2>2 DEF Goto
  <1>6. ASSUME NEW pc \in {"rotate", "selectAll"}, req[r].token \in Tokens,
               row[req[r].token].status # "absent",
               Become(r, [req[r] EXCEPT !.pc = pc, !.email = row[req[r].token].owner])
        PROVE  OneRequest'
    <2>1. PICK q : q = [req[r] EXCEPT !.pc = pc, !.email = row[req[r].token].owner]
      OBVIOUS
    <2>2. row[req[r].token].owner \in Emails /\ role[row[req[r].token].owner] # "none"
      BY <1>6 DEF OneRequest, OwnersExist
    <2>3. q \in Request /\ q.pc = pc /\ q.email = row[req[r].token].owner
          /\ q.grant = req[r].grant /\ q.new = req[r].new
      BY <1>1, <1>6, <2>1, <2>2, PCFacts DEF Request
    <2>4. Registers(q)
      BY <1>2, <1>6, <2>2, <2>3 DEF Registers, EmailPCs
    <2> QED
      BY <1>1, <1>6, <2>1, <2>3, <2>4, TurnInOrder
  <1>7. ASSUME NEW pc \in {"revokeAll", "commit"}, NEW S \in SUBSET Tokens,
               Become(r, [req[r] EXCEPT !.pc = pc, !.revoke = S])
        PROVE  OneRequest'
    <2>1. PICK q : q = [req[r] EXCEPT !.pc = pc, !.revoke = S]
      OBVIOUS
    <2>2. q \in Request /\ q.pc = pc /\ q.grant = req[r].grant /\ q.new = req[r].new
      BY <1>1, <1>7, <2>1, PCFacts DEF Request
    <2> QED
      BY <1>4, <1>7, <2>1, <2>2
  <1>8. req[r].pc \in CookiePCs => req[r].token \in Tokens
    BY <1>1 DEF IInv, Carriers, Carries
  <1>9. CASE RefreshReadActive(r)
    BY <1>5, <1>6, <1>8, <1>9 DEF RefreshReadActive, IsActive, CookiePCs
  <1>10. CASE RefreshReadAgain(r)
    BY <1>3, <1>6, <1>8, <1>10 DEF RefreshReadAgain, CookiePCs
  <1>11. CASE RefreshRotate(r)
    BY <1>1, <1>8, <1>11, IssueInOrder DEF RefreshRotate, Registers, CookiePCs
  <1>12. CASE RevokeAllSelect(r)
    <2>1. {t \in Tokens : row[t].status = "active" /\ row[t].owner = req[r].email} \in SUBSET Tokens
      OBVIOUS
    <2> QED
      BY <1>7, <1>12, <2>1 DEF RevokeAllSelect
  <1>13. CASE RevokeAllUpdate(r)
    <2>1. CASE UNCHANGED req
      BY <1>1, <2>1 DEF OneRequest, OneAdmin, OwnersExist, Registers
    <2> QED
      BY <1>5, <1>13, <2>1 DEF RevokeAllUpdate
  <1>14. CASE LogoutRead(r)
    BY <1>3, <1>5, <1>14 DEF LogoutRead
  <1>15. CASE LogoutWrite(r)
    <2>1. {req[r].token} \in SUBSET Tokens
      BY <1>8, <1>15 DEF LogoutWrite, CookiePCs
    <2> QED
      BY <1>7, <1>15, <2>1 DEF LogoutWrite
  <1> QED
    BY <1>9, <1>10, <1>11, <1>12, <1>13, <1>14, <1>15

LEMMA CommitInOrder ==
  ASSUME IInv, OneRequest, NEW r \in Requests, Commit(r), ~Overlap'
  PROVE  OneRequest'
  <1>1. /\ TypeOK /\ req[r] \in Request /\ req[r].pc = "commit" /\ Registers(req[r])
        /\ req' = [req EXCEPT ![r] = IdleRequest]
    BY ReqFields DEF IInv, OneRequest, Commit, Finished, Become
  <1>2. /\ req'[r] = IdleRequest /\ \A s \in Requests \ {r} : req'[s] = req[s] /\ req[s].pc = "idle"
    BY <1>1 DEF TypeOK, OneRequest
  <1>3. \A e \in Emails :
           \/ role'[e] = role[e] /\ (req[r].grant = "none" \/ e # req[r].email)
           \/ e = req[r].email /\ req[r].grant # "none" /\ role'[e] = req[r].grant
    BY <1>1 DEF Commit, TypeOK
  <1>4. OneAdmin'
    BY <1>1, <1>3 DEF OneRequest, OneAdmin, Registers
  <1>5. OwnersExist'
    <2> SUFFICES ASSUME NEW t \in Tokens, row'[t].status # "absent"
                 PROVE  row'[t].owner \in Emails /\ role'[row'[t].owner] # "none"
      BY DEF OwnersExist
    <2>1. row'[t] = RowAfterCommit(r, t) /\ row[t] \in Row
      BY <1>1, RowFields DEF Commit
    <2>2. CASE t = req[r].new
      <3>1. row'[t].owner = req[r].email /\ t # None
        BY <2>1, <2>2, AuthAssumption DEF RowAfterCommit, NewRow, Tokens
      <3> QED
        BY <1>1, <1>3, <2>2, <3>1 DEF Registers
    <2>3. CASE t # req[r].new
      <3>1. row'[t].owner = row[t].owner /\ row[t].status # "absent"
        <4>1. CASE t \in req[r].revoke
          BY <2>1, <2>3, <4>1 DEF RowAfterCommit, Row, IInv, KnownTokens, Known
        <4>2. CASE t \notin req[r].revoke
          BY <2>1, <2>3, <4>2 DEF RowAfterCommit
        <4> QED
          BY <4>1, <4>2
      <3> QED
        BY <1>3, <3>1 DEF OneRequest, OwnersExist
    <2> QED
      BY <2>2, <2>3
  <1>6. \A s \in Requests : Registers(req[s])'
    <2>1. \A s \in Requests \ {r} : Registers(req[s]) /\ req[s].new = None
      BY <1>2 DEF OneRequest, IInv, NewTokens
    <2>2. \A s \in Requests \ {r} : req[s].grant = "none"
      BY <1>2, <2>1 DEF Registers
    <2>3. ASSUME NEW s \in Requests PROVE req'[s].pc = "idle" /\ req'[s].grant = "none" /\ req'[s].new = None
      BY <1>2, <2>1, <2>2 DEF IdleRequest, NewRequest
    <2> QED
      BY <2>3 DEF Registers, EmailPCs
  <1>7. \A s, x \in Requests : req'[s].pc # "idle" /\ req'[x].pc # "idle" => s = x
    BY DEF Overlap
  <1> QED
    BY <1>4, <1>5, <1>6, <1>7 DEF OneRequest

LEMMA OneRequestStep == IInv /\ (~overlapped => OneRequest) /\ [Next]_vars => (~overlapped' => OneRequest')
  <1> SUFFICES ASSUME IInv, ~overlapped => OneRequest, [Next]_vars, ~overlapped'
               PROVE  OneRequest'
    OBVIOUS
  <1>1. CASE Next
    <2>1. OneRequest /\ ~Overlap' /\ TypeOK
      BY <1>1 DEF Next, IInv
    <2>2. CASE Expire
      BY <2>1, <2>2 DEF Expire, OneRequest, OneAdmin, OwnersExist, Registers
    <2>3. ASSUME NEW r \in Requests, Handle(r) PROVE OneRequest'
      BY <2>1, <2>3, RegisterInOrder, CookieInOrder, CommitInOrder DEF Handle
    <2> QED
      BY <1>1, <2>1, <2>2, <2>3, ArriveInOrder DEF Next, Step
  <1>2. CASE UNCHANGED vars
    BY <1>2 DEF vars, server, OneRequest, OneAdmin, OwnersExist, Registers
  <1> QED
    BY <1>1, <1>2

-----------------------------------------------------------------------------
(* The store that answers requests one at a time, as long as no two have   *)
(* overlapped.                                                             *)

\* What a request that is about to commit will do to the store.
Opens(q) == q.new # None /\ q.token = None /\ q.revoke = {}

Rotates(q) ==
    /\ q.new # None /\ q.token \in Tokens /\ q.revoke = {q.token}
    /\ row[q.token].status = "active" /\ q.email = row[q.token].owner

ClosesAll(q) ==
    /\ q.new = None /\ q.token \in Tokens /\ q.email \in Emails
    /\ row[q.token].status = "revoked" /\ q.email = row[q.token].owner
    /\ q.revoke = {t \in Tokens : row[t].status = "active" /\ row[t].owner = q.email}

Closes(q) == q.new = None /\ q.token \in Tokens /\ q.email = None /\ q.revoke = {q.token}

\* What a request has read is still so when it writes.
Intends(q) ==
    /\ q.pc = "rotate" => row[q.token].status = "active" /\ q.email = row[q.token].owner
    /\ q.pc \in {"logoutRead", "logoutWrite"} => q.email = None
    /\ q.pc \in {"selectAll", "revokeAll"} =>
          /\ q.new = None /\ q.token \in Tokens /\ q.email \in Emails
          /\ row[q.token].status = "revoked" /\ q.email = row[q.token].owner
    /\ q.pc = "revokeAll" => ClosesAll(q)
    /\ q.pc = "commit" => Opens(q) \/ Rotates(q) \/ ClosesAll(q) \/ Closes(q)

AllIntend == \A r \in Requests : Intends(req[r])

LEMMA IdleIntends == Intends(IdleRequest)
  BY DEF Intends, IdleRequest, NewRequest

\* A step of one request that leaves the rows alone.
LEMMA TurnIntends ==
  ASSUME TypeOK, AllIntend, NEW r \in Requests, NEW q, Become(r, q), UNCHANGED row, Intends(q)
  PROVE  AllIntend'
  <1>1. req'[r] = q /\ \A s \in Requests \ {r} : req'[s] = req[s]
    BY DEF TypeOK, Become
  <1> QED
    BY <1>1 DEF AllIntend, Intends, Opens, Rotates, ClosesAll, Closes

LEMMA ArriveIntends ==
  ASSUME TypeOK, AllIntend, NEW r \in Requests, Arrive(r)
  PROVE  AllIntend'
  <1>1. ASSUME NEW pc \in {"checkEmail", "login", "readActive", "logoutRead"}, NEW e, NEW t,
               pc = "logoutRead" => e = None, Start(r, pc, e, t)
        PROVE  AllIntend'
    <2>1. PICK q : q = NewRequest(pc, e, t)
      OBVIOUS
    <2>2. Intends(q)
      BY <1>1, <2>1 DEF Intends, NewRequest
    <2> QED
      BY <1>1, <2>1, <2>2, TurnIntends DEF Start
  <1> QED
    BY <1>1 DEF Arrive, StartRegister, StartLogin, StartRefresh, StartLogout

\* IssueSession: a login or registration opens a session, a refresh rotates one.
LEMMA IssueIntends ==
  ASSUME IInv, AllIntend, NEW r \in Requests, NEW S, IssueSession(r, S), UNCHANGED row,
         \/ req[r].token = None /\ S = {}
         \/ req[r].pc = "rotate" /\ S = {req[r].token}
  PROVE  AllIntend'
  <1>1. PICK q : q = [req[r] EXCEPT !.pc = "commit", !.new = nextToken, !.revoke = S]
    OBVIOUS
  <1>2. q.pc = "commit" /\ q.new = nextToken /\ q.email = req[r].email /\ q.token = req[r].token /\ q.revoke = S
    BY <1>1, ReqFields DEF IInv, Request
  <1>3. nextToken # None
    BY AuthAssumption DEF IInv, TypeOK, IssueSession
  <1>4. CASE req[r].token = None /\ S = {}
    <2>1. Intends(q)
      BY <1>2, <1>3, <1>4 DEF Intends, Opens
    <2> QED
      BY <1>1, <2>1, TurnIntends DEF IssueSession, IInv
  <1>5. CASE req[r].pc = "rotate" /\ S = {req[r].token}
    <2>1. req[r].token \in Tokens
      BY <1>5, ReqFields DEF IInv, Carriers, Carries, CookiePCs
    <2>2. row[req[r].token].status = "active" /\ req[r].email = row[req[r].token].owner
      BY <1>5 DEF AllIntend, Intends
    <2>3. Intends(q)
      BY <1>2, <1>3, <1>5, <2>1, <2>2 DEF Intends, Rotates
    <2> QED
      BY <1>1, <2>3, TurnIntends DEF IssueSession, IInv
  <1> QED
    BY <1>4, <1>5

LEMMA HandleIntends ==
  ASSUME IInv, OneRequest, AllIntend, NEW r \in Requests, Handle(r), ~Commit(r)
  PROVE  AllIntend'
  <1>0. /\ TypeOK /\ req[r] \in Request /\ Intends(req[r]) /\ Carries(req[r])
        /\ req[r].token \in Tokens \cup {None}
        /\ req[r].pc # "commit" => req[r].new = None
    BY ReqFields DEF IInv, AllIntend, Carriers, NewTokens
  <1>1. ASSUME Finished(r), UNCHANGED row PROVE AllIntend'
    BY <1>0, <1>1, IdleIntends, TurnIntends DEF Finished
  \* The request goes on, and what it knows of its cookie stays.
  <1>2. ASSUME NEW pc \in {"countUsers", "readAgain"}, Goto(r, pc), UNCHANGED row PROVE AllIntend'
    <2>1. PICK q : q = [req[r] EXCEPT !.pc = pc]
      OBVIOUS
    <2>2. q.pc = pc
      BY <1>0, <2>1 DEF Request
    <2>3. Intends(q)
      BY <1>2, <2>2 DEF Intends
    <2> QED
      BY <1>0, <1>2, <2>1, <2>3, TurnIntends DEF Goto
  \* A row of the cookie that is there has an owner.
  <1>3. ASSUME NEW pc \in {"rotate", "selectAll"}, req[r].pc \in {"readActive", "readAgain"},
               row[req[r].token].status = IF pc = "rotate" THEN "active" ELSE "revoked",
               Become(r, [req[r] EXCEPT !.pc = pc, !.email = row[req[r].token].owner]), UNCHANGED row
        PROVE  AllIntend'
    <2>1. PICK q : q = [req[r] EXCEPT !.pc = pc, !.email = row[req[r].token].owner]
      OBVIOUS
    <2>2. q.pc = pc /\ q.email = row[req[r].token].owner /\ q.token = req[r].token /\ q.new = req[r].new
      BY <1>0, <2>1 DEF Request
    <2>3. req[r].token \in Tokens /\ req[r].new = None
      BY <1>0, <1>3 DEF Carries, CookiePCs
    <2>4. row[req[r].token].owner \in Emails
      BY <1>3, <2>3 DEF OneRequest, OwnersExist
    <2>5. Intends(q)
      BY <1>3, <2>2, <2>3, <2>4 DEF Intends
    <2> QED
      BY <1>0, <1>3, <2>1, <2>5, TurnIntends
  <1>4. CASE RegisterCheckEmail(r) \/ RegisterConflict(r)
    BY <1>1, <1>2, <1>4 DEF RegisterCheckEmail, RegisterConflict
  <1>5. CASE RegisterCountUsers(r)
    <2>1. PICK g \in {"user", "admin"} : Become(r, [req[r] EXCEPT !.pc = "insertUser", !.grant = g])
      BY <1>5 DEF RegisterCountUsers
    <2>2. PICK q : q = [req[r] EXCEPT !.pc = "insertUser", !.grant = g]
      OBVIOUS
    <2>3. q.pc = "insertUser"
      BY <1>0, <2>2 DEF Request
    <2>4. Intends(q)
      BY <2>3 DEF Intends
    <2> QED
      BY <1>0, <1>5, <2>1, <2>2, <2>4, TurnIntends DEF RegisterCountUsers
  <1>6. CASE RegisterInsert(r)
    BY <1>0, <1>6, IssueIntends DEF RegisterInsert, Carries, EmailPCs
  <1>7. CASE Login(r)
    BY <1>0, <1>1, <1>7, IssueIntends DEF Login, Carries, EmailPCs
  <1>8. CASE RefreshReadActive(r)
    BY <1>2, <1>3, <1>8 DEF RefreshReadActive, IsActive
  <1>9. CASE RefreshReadAgain(r)
    BY <1>1, <1>3, <1>9 DEF RefreshReadAgain
  <1>10. CASE RefreshRotate(r)
    BY <1>10, IssueIntends DEF RefreshRotate
  <1>11. CASE RevokeAllSelect(r)
    <2>1. PICK S : S = {t \in Tokens : row[t].status = "active" /\ row[t].owner = req[r].email}
      OBVIOUS
    <2>2. PICK q : q = [req[r] EXCEPT !.pc = "revokeAll", !.revoke = S]
      OBVIOUS
    <2>3. q.pc = "revokeAll" /\ q.revoke = S /\ q.email = req[r].email /\ q.token = req[r].token
          /\ q.new = req[r].new
      BY <1>0, <2>2 DEF Request
    <2>4. Intends(q)
      BY <1>0, <1>11, <2>1, <2>3 DEF RevokeAllSelect, Intends, ClosesAll
    <2> QED
      BY <1>0, <1>11, <2>1, <2>2, <2>4, TurnIntends DEF RevokeAllSelect
  <1>12. CASE RevokeAllUpdate(r)
    <2>1. CASE UNCHANGED req
      BY <1>12, <2>1 DEF RevokeAllUpdate, AllIntend, Intends, Opens, Rotates, ClosesAll, Closes
    <2>2. CASE Goto(r, "commit")
      <3>1. PICK q : q = [req[r] EXCEPT !.pc = "commit"]
        OBVIOUS
      <3>2. q.pc = "commit" /\ q.revoke = req[r].revoke /\ q.email = req[r].email
            /\ q.token = req[r].token /\ q.new = req[r].new
        BY <1>0, <3>1 DEF Request
      <3>3. Intends(q)
        BY <1>0, <1>12, <3>2 DEF RevokeAllUpdate, Intends, ClosesAll
      <3> QED
        BY <1>0, <1>12, <2>2, <3>1, <3>3, TurnIntends DEF RevokeAllUpdate, Goto
    <2> QED
      BY <1>12, <2>1, <2>2 DEF RevokeAllUpdate
  <1>13. CASE LogoutRead(r)
    <2>1. CASE Goto(r, "logoutWrite")
      <3>1. PICK q : q = [req[r] EXCEPT !.pc = "logoutWrite"]
        OBVIOUS
      <3>2. q.pc = "logoutWrite" /\ q.email = req[r].email
        BY <1>0, <3>1 DEF Request
      <3>3. Intends(q)
        BY <1>0, <1>13, <3>2 DEF LogoutRead, Intends
      <3> QED
        BY <1>0, <1>13, <2>1, <3>1, <3>3, TurnIntends DEF LogoutRead, Goto
    <2> QED
      BY <1>1, <1>13, <2>1 DEF LogoutRead
  <1>14. CASE LogoutWrite(r)
    <2>1. PICK q : q = [req[r] EXCEPT !.pc = "commit", !.revoke = {req[r].token}]
      OBVIOUS
    <2>2. q.pc = "commit" /\ q.revoke = {req[r].token} /\ q.email = req[r].email
          /\ q.token = req[r].token /\ q.new = req[r].new
      BY <1>0, <2>1 DEF Request
    <2>3. Intends(q)
      BY <1>0, <1>14, <2>2 DEF LogoutWrite, Intends, Closes, Carries, CookiePCs
    <2> QED
      BY <1>0, <1>14, <2>1, <2>3, TurnIntends DEF LogoutWrite
  <1> QED
    BY <1>4, <1>5, <1>6, <1>7, <1>8, <1>9, <1>10, <1>11, <1>12, <1>13, <1>14 DEF Handle

\* When a request commits the others are idle.
LEMMA CommitIntends ==
  ASSUME TypeOK, OneRequest, NEW r \in Requests, Commit(r)
  PROVE  AllIntend'
  <1>1. \A s \in Requests : req'[s].pc = "idle"
    BY DEF TypeOK, OneRequest, Commit, Finished, Become, IdleRequest, NewRequest
  <1> QED
    BY <1>1 DEF AllIntend, Intends

LEMMA AllIntendStep ==
  IInv /\ (~overlapped => OneRequest /\ AllIntend) /\ [Next]_vars => (~overlapped' => AllIntend')
  <1> SUFFICES ASSUME IInv, ~overlapped => OneRequest /\ AllIntend, [Next]_vars, ~overlapped'
               PROVE  AllIntend'
    OBVIOUS
  <1>1. CASE Next
    <2>0. ~overlapped
      BY <1>1 DEF Next
    <2>1. OneRequest /\ AllIntend /\ TypeOK
      BY <2>0 DEF IInv
    <2>2. CASE Expire
      BY <2>1, <2>2 DEF Expire, AllIntend, Intends, Opens, Rotates, ClosesAll, Closes
    <2>3. ASSUME NEW r \in Requests, Handle(r) PROVE AllIntend'
      BY <2>1, <2>3, HandleIntends, CommitIntends
    <2> QED
      BY <1>1, <2>1, <2>2, <2>3, ArriveIntends DEF Next, Step
  <1>2. CASE UNCHANGED vars
    BY <1>2 DEF vars, server, AllIntend, Intends, Opens, Rotates, ClosesAll, Closes
  <1> QED
    BY <1>1, <1>2

-----------------------------------------------------------------------------
(* The commit of a request is the operation of SessionStore it stands for. *)

\* The store after a commit, in terms of the rows before it.
LEMMA StoreAfterCommit ==
  ASSUME IInv, NEW r \in Requests, Commit(r), NEW t \in Tokens
  PROVE  /\ row'[t].owner = IF t = req[r].new THEN req[r].email ELSE row[t].owner
         /\ row'[t].status = "active" <=>
               t = req[r].new \/ (row[t].status = "active" /\ t \notin req[r].revoke)
  <1>1. row'[t] = RowAfterCommit(r, t) /\ row[t] \in Row
    BY RowFields DEF IInv, Commit
  <1> QED
    BY <1>1 DEF RowAfterCommit, NewRow, Row

LEMMA CommitIsOperation ==
  ASSUME IInv, OneRequest, AllIntend, NEW r \in Requests, Commit(r)
  PROVE  Operation(r) /\ Store!StoreNext
  <1> DEFINE owner == [t \in Tokens |-> row[t].owner]
             live == {t \in Tokens : row[t].status = "active"}
             q == req[r]
  <1>1. /\ q.new \in Tokens \cup {None} /\ q.token \in Tokens \cup {None} /\ None \notin Tokens
        /\ q.email \in Emails \cup {None} /\ None \notin Emails
        /\ q.new # None => row[q.new].status = "absent" /\ row[q.new].owner = None /\ q.email \in Emails
        /\ q.pc = "commit"
        /\ Opens(q) \/ Rotates(q) \/ ClosesAll(q) \/ Closes(q)
    <2>1. /\ q.new \in Tokens \cup {None} /\ q.token \in Tokens \cup {None}
          /\ q.email \in Emails \cup {None}
      BY ReqFields DEF IInv
    <2>2. q.new # None => row[q.new].status = "absent" /\ row[q.new].owner = None
      BY <2>1 DEF IInv, NewTokens, AbsentRows, AbsentRow
    <2>3. q.new # None => q.email \in Emails
      BY DEF OneRequest, Registers
    <2>4. q.pc = "commit" /\ (Opens(q) \/ Rotates(q) \/ ClosesAll(q) \/ Closes(q))
      BY DEF Commit, AllIntend, Intends
    <2> QED
      BY <2>1, <2>2, <2>3, <2>4, AuthAssumption DEF Tokens
  <1>2. /\ owner' = [t \in Tokens |-> IF t = q.new THEN q.email ELSE row[t].owner]
        /\ live' = {t \in Tokens : t = q.new \/ (row[t].status = "active" /\ t \notin q.revoke)}
    BY StoreAfterCommit
  <1> HIDE DEF q
  <1>3. CASE Opens(q)
    <2>1. PICK u \in Emails, n \in Tokens : u = q.email /\ n = q.new
      BY <1>1, <1>3 DEF Opens
    <2>2. Store!Open(q.email, q.new) /\ Store!Open(u, n)
      BY <1>1, <1>2, <1>3, <2>1 DEF Opens, Store!Open, Store!Fresh, Live
    <2>3. Operation(r)
      BY <1>3, <2>2 DEF q, Opens, Operation
    <2>4. Store!StoreNext
      BY <2>2 DEF Store!StoreNext
    <2> QED
      BY <2>3, <2>4
  <1>4. CASE Rotates(q)
    <2>1. PICK t \in Tokens, n \in Tokens : t = q.token /\ n = q.new
      BY <1>1, <1>4 DEF Rotates
    <2>2. Store!Rotate(q.token, q.new) /\ Store!Rotate(t, n)
      BY <1>1, <1>2, <1>4, <2>1 DEF Rotates, Store!Rotate, Store!Fresh, Live
    <2>3. Operation(r)
      BY <1>1, <1>4, <2>2 DEF q, Rotates, Operation
    <2>4. Store!StoreNext
      BY <2>2 DEF Store!StoreNext
    <2> QED
      BY <2>3, <2>4
  <1>5. CASE ClosesAll(q)
    <2>1. q.new = None /\ q.token \in Tokens
      BY <1>5 DEF ClosesAll
    <2>2. Store!CloseAll(q.token)
      BY <1>1, <1>2, <1>5 DEF ClosesAll, Store!CloseAll, Live
    <2>3. DetectedReuse(r)
      BY <1>1, <1>5 DEF q, ClosesAll, DetectedReuse
    <2>4. Operation(r)
      BY <2>1, <2>2, <2>3 DEF q, Operation
    <2> QED
      BY <2>1, <2>2, <2>4 DEF Store!StoreNext
  <1>6. CASE Closes(q)
    <2>1. q.new = None /\ q.token \in Tokens
      BY <1>6 DEF Closes
    <2>2. Store!Close(q.token)
      BY <1>1, <1>2, <1>6 DEF Closes, Store!Close, Live
    <2>3. ~DetectedReuse(r)
      BY <1>6 DEF q, Closes, DetectedReuse
    <2>4. Operation(r)
      BY <2>1, <2>2, <2>3 DEF q, Operation
    <2> QED
      BY <2>1, <2>2, <2>4 DEF Store!StoreNext
  <1> QED
    BY <1>1, <1>3, <1>4, <1>5, <1>6

\* A step that is not a commit of r does not end r at its commit.
LEMMA EndsAtCommit ==
  ASSUME TypeOK, Next, NEW r \in Requests, req[r].pc = "commit", req'[r].pc = "idle"
  PROVE  Commit(r)
  <1>1. ~Expire
    BY DEF Expire
  <1>2. PICK p \in Requests : Arrive(p) \/ Handle(p)
    BY <1>1 DEF Next, Step
  <1>3. p = r
    BY <1>2 DEF TypeOK, Arrive, StartRegister, StartLogin, StartRefresh, StartLogout, Start, Handle,
         RegisterCheckEmail, RegisterCountUsers, RegisterInsert, RegisterConflict, Login,
         RefreshReadActive, RefreshReadAgain, RefreshRotate, RevokeAllSelect, RevokeAllUpdate,
         LogoutRead, LogoutWrite, Commit, IssueSession, Finished, Goto, Become
  <1> QED
    BY <1>2, <1>3 DEF Arrive, StartRegister, StartLogin, StartRefresh, StartLogout, Start, Handle,
         RegisterCheckEmail, RegisterCountUsers, RegisterInsert, RegisterConflict, Login,
         RefreshReadActive, RefreshReadAgain, RefreshRotate, RevokeAllSelect, RevokeAllUpdate,
         LogoutRead, LogoutWrite

-----------------------------------------------------------------------------
(* Theorems.                                                               *)

\* In every reachable state the inductive invariant holds.
THEOREM Invariance == Spec => []IInv
  BY InitIInv, NextIInv, PTL DEF Spec

\* Type correctness of the handlers' state.
THEOREM TypeCorrect == Spec => []TypeOK
  <1>1. IInv => TypeOK
    BY DEF IInv
  <1> QED
    BY <1>1, Invariance, PTL

\* Whatever overlaps, a rotated token is revoked as soon as its successor is
\* usable (RefreshRotate and Commit write both in one transaction).
THEOREM RotationConsumes == Spec => []SuccessorConsumesParent
  <1>1. IInv => SuccessorConsumesParent
    BY DEF IInv
  <1> QED
    BY <1>1, Invariance, PTL

\* No interleaving of stale reads and late writes of the handlers brings a
\* revoked token back, or moves a row to another user or family.
THEOREM NoResurrection == Spec => RevokedForever
  <1> DEFINE Kept(t) ==
        /\ row[t].status = "revoked" => row'[t] = row[t]
        /\ row[t].status = "active" => row'[t] \in {row[t], [row[t] EXCEPT !.status = "revoked"]}
  <1>1. IInv /\ [Next]_vars => [\A t \in Tokens : Kept(t)]_vars
    <2> SUFFICES ASSUME IInv, Next, NEW t \in Tokens PROVE Kept(t)
      OBVIOUS
    <2>1. CASE \E r \in Requests : Commit(r)
      <3>1. PICK r \in Requests : Commit(r)
        BY <2>1
      <3>2. row'[t] = RowAfterCommit(r, t) /\ row[t] \in Row
        BY <3>1, RowFields DEF IInv, Commit
      <3>3. t = req[r].new => row[t].status = "absent"
        BY ReqFields, AuthAssumption DEF IInv, NewTokens, Tokens
      <3>4. row[t].status = "revoked" => [row[t] EXCEPT !.status = "revoked"] = row[t]
        BY <3>2 DEF Row
      <3> QED
        BY <3>2, <3>3, <3>4 DEF RowAfterCommit
    <2>2. CASE UNCHANGED row
      BY <2>2
    <2> QED
      BY <2>1, <2>2, RowsChangeAtCommit
  <1> QED
    BY <1>1, Invariance, PTL DEF Spec, RevokedForever

\* The rows one step revokes are of one user: reuse detection in
\* revoke_all_user_refresh_tokens, rotation and logout stay with the owner of the
\* token that was presented, whatever commits between the SELECT and the UPDATE.
THEOREM RevocationStaysWithUser == Spec => RevocationScoped
  <1> DEFINE Ended(t) == row[t].status = "active" /\ row'[t].status = "revoked"
             Scoped == \A t, u \in Tokens :
                          /\ row[t].status = "active" /\ row'[t].status = "revoked"
                          /\ row[u].status = "active" /\ row'[u].status = "revoked"
                          => row[t].owner = row[u].owner
  <1>1. Init => OneOwner
    BY DEF Init, OneOwner, IdleRequest, NewRequest
  <1>2. IInv /\ OneOwner /\ [Next]_vars => [Scoped]_vars
    <2> SUFFICES ASSUME IInv, OneOwner, Next, NEW t \in Tokens, NEW u \in Tokens, Ended(t), Ended(u)
                 PROVE  row[t].owner = row[u].owner
      OBVIOUS
    <2>1. PICK r \in Requests : Commit(r)
      BY RowsChangeAtCommit
    <2>2. ASSUME NEW v \in Tokens, Ended(v) PROVE v \in req[r].revoke
      <3>1. row'[v] = RowAfterCommit(r, v) /\ v # req[r].new
        BY <2>1, <2>2, AuthAssumption DEF IInv, NewTokens, Tokens, Commit
      <3> QED
        BY <2>2, <3>1 DEF RowAfterCommit
    <2> QED
      BY <2>2 DEF OneOwner
  <1>3. Spec => []OneOwner
    BY <1>1, OneOwnerStep, Invariance, PTL DEF Spec
  <1> QED
    BY <1>2, <1>3, Invariance, PTL DEF Spec, RevocationScoped

\* register: while requests do not overlap, the first user is the only administrator the
\* bootstrap makes, sessions belong to users that are stored, and a duplicate e-mail is
\* refused before the insertion.
THEOREM RegistrationsKeepOrder == Spec => []RegistrationsInOrder
  <1>1. Init => OneRequest
    <2> SUFFICES ASSUME Init PROVE OneRequest
      OBVIOUS
    <2>1. /\ \A r \in Requests : req[r] = IdleRequest /\ IdleRequest.pc = "idle"
          /\ \A t \in Tokens : row[t].status = "absent"
          /\ \A e \in Emails : role[e] = "none"
      BY DEF Init, AbsentRow, IdleRequest, NewRequest
    <2> QED
      BY <2>1, IdleRegisters DEF OneRequest, OneAdmin, OwnersExist
  <1>2. Spec => [](~overlapped => OneRequest)
    BY <1>1, OneRequestStep, Invariance, PTL DEF Spec
  <1>3. (~overlapped => OneRequest) => RegistrationsInOrder
    BY DEF OneRequest, OneAdmin, OwnersExist, Registers, RegistrationsInOrder
  <1> QED
    BY <1>2, <1>3, PTL

\* The handlers of router.py, at their SQL statements, implement SessionStore while
\* requests do not overlap: each commit is the atomic operation its request stands for,
\* and no other step changes the store.
THEOREM StoreIsImplemented == Spec => ImplementsStore
  <1> DEFINE Implements ==
        ~overlapped' =>
           /\ [Store!StoreNext]_(Store!storeVars)
           /\ \A r \in Requests : req[r].pc = "commit" /\ req'[r].pc = "idle" => Operation(r)
  <1>1. Init => Store!StoreInit
    BY DEF Init, Store!StoreInit, AbsentRow, Live
  <1>2. Init => OneRequest /\ AllIntend
    <2> SUFFICES ASSUME Init PROVE OneRequest /\ AllIntend
      OBVIOUS
    <2>1. /\ \A r \in Requests : req[r] = IdleRequest /\ IdleRequest.pc = "idle"
          /\ \A t \in Tokens : row[t].status = "absent"
          /\ \A e \in Emails : role[e] = "none"
      BY DEF Init, AbsentRow, IdleRequest, NewRequest
    <2> QED
      BY <2>1, IdleRegisters, IdleIntends DEF OneRequest, OneAdmin, OwnersExist, AllIntend
  <1>3. Spec => [](~overlapped => OneRequest /\ AllIntend)
    BY <1>2, OneRequestStep, AllIntendStep, Invariance, PTL DEF Spec
  <1>4. IInv /\ (~overlapped => OneRequest /\ AllIntend) /\ [Next]_vars => [Implements]_vars
    <2> SUFFICES ASSUME IInv, ~overlapped => OneRequest /\ AllIntend, Next, ~overlapped'
                 PROVE  /\ [Store!StoreNext]_(Store!storeVars)
                        /\ \A r \in Requests : req[r].pc = "commit" /\ req'[r].pc = "idle" => Operation(r)
      OBVIOUS
    <2>1. ~overlapped
      BY DEF Next
    <2>2. OneRequest /\ AllIntend /\ TypeOK
      BY <2>1 DEF IInv
    <2>3. UNCHANGED row => UNCHANGED Store!storeVars
      BY DEF Store!storeVars, Live
    <2>4. \A r \in Requests : Commit(r) => Operation(r) /\ Store!StoreNext
      BY <2>2, CommitIsOperation
    <2> QED
      BY <2>2, <2>3, <2>4, RowsChangeAtCommit, EndsAtCommit
  <1> QED
    BY <1>1, <1>3, <1>4, Invariance, PTL DEF Spec, ImplementsStore
=============================================================================
