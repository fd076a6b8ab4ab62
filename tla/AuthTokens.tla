------------------------------ MODULE AuthTokens ------------------------------
(***************************************************************************)
(* The /auth handlers of the API server over the users and refresh_tokens  *)
(* tables: register, login, refresh (with rotation and reuse detection)    *)
(* and logout.  Each request runs in a thread of its own with a            *)
(* transaction of its own (get_db), so a handler is cut at its SQL         *)
(* statements: what a SELECT returned is kept in the request's record and  *)
(* may be stale when the request writes.                                   *)
(*                                                                         *)
(* The database is PostgreSQL at its default isolation level, READ         *)
(* COMMITTED: a SELECT sees what is committed when it runs; an UPDATE      *)
(* locks its row until its transaction ends, and a second UPDATE of the    *)
(* row waits and then proceeds; an INSERT of a key that another            *)
(* transaction has inserted waits for that transaction to end, and fails   *)
(* when the key is there then.                                             *)
(***************************************************************************)
EXTENDS Naturals, FiniteSets

CONSTANTS
    Emails,         \* normalised e-mail addresses; users.email is unique
    Requests,       \* slots for requests that are being handled
    MaxTokens,      \* bound on the refresh tokens ever issued
    FirstIsAdmin,   \* settings.bootstrap_first_user_admin
    None

Tokens == 1 .. MaxTokens

ASSUME AuthAssumption ==
    /\ MaxTokens \in Nat
    /\ FirstIsAdmin \in BOOLEAN
    /\ None \notin Emails
    /\ None \notin Requests
    /\ None \notin Nat

VARIABLES
    role,       \* users: the role of the committed user with this e-mail
    row,        \* refresh_tokens: the committed rows
    expired,    \* the tokens whose expires_at has passed
    nextToken,  \* the next value of secrets.token_urlsafe, never repeated
    emailLock,  \* the request with an uncommitted user row for this e-mail
    rowLock,    \* the request whose transaction has updated this row
    req,        \* what each request is doing, and what its SELECTs returned
    overlapped  \* history: two requests have been handled at the same time

server == <<role, row, expired, nextToken, emailLock, rowLock, req>>
vars == <<server, overlapped>>

(***************************************************************************)
(* A row's parent is the token it replaced in a rotation, and its family   *)
(* the token of the login or registration it descends from.  The table has *)
(* neither column: they are history the properties speak about.            *)
(***************************************************************************)
Row == [status : {"absent", "active", "revoked"},
        owner  : Emails \cup {None},
        parent : Tokens \cup {None},
        family : Tokens \cup {None}]

AbsentRow == [status |-> "absent", owner |-> None, parent |-> None, family |-> None]

PCs == {"idle", "checkEmail", "countUsers", "insertUser", "login",
        "readActive", "readAgain", "selectAll", "revokeAll", "rotate",
        "logoutRead", "logoutWrite", "commit"}

Request == [pc     : PCs,
            email  : Emails \cup {None},    \* the user the request is for
            token  : Tokens \cup {None},    \* the refresh cookie it carries
            grant  : {"none", "user", "admin"},    \* role of the user to insert
            revoke : SUBSET Tokens,         \* rows its UPDATEs revoke
            new    : Tokens \cup {None}]    \* row its INSERT adds

NewRequest(pc, e, t) == [pc |-> pc, email |-> e, token |-> t, grant |-> "none",
                         revoke |-> {}, new |-> None]

IdleRequest == NewRequest("idle", None, None)

TypeOK ==
    /\ role \in [Emails -> {"none", "user", "admin"}]
    /\ row \in [Tokens -> Row]
    /\ expired \subseteq Tokens
    /\ nextToken \in 1 .. (MaxTokens + 1)
    /\ emailLock \in [Emails -> Requests \cup {None}]
    /\ rowLock \in [Tokens -> Requests \cup {None}]
    /\ req \in [Requests -> Request]

Init ==
    /\ role = [e \in Emails |-> "none"]
    /\ row = [t \in Tokens |-> AbsentRow]
    /\ expired = {}
    /\ nextToken = 1
    /\ emailLock = [e \in Emails |-> None]
    /\ rowLock = [t \in Tokens |-> None]
    /\ req = [r \in Requests |-> IdleRequest]
    /\ overlapped = FALSE

\* The one way a request's record changes.
Become(r, q) == req' = [req EXCEPT ![r] = q]

Goto(r, pc) == Become(r, [req[r] EXCEPT !.pc = pc])

-----------------------------------------------------------------------------
(* Requests arrive.                                                        *)

Start(r, pc, e, t) ==
    /\ req[r].pc = "idle"
    /\ Become(r, NewRequest(pc, e, t))
    /\ UNCHANGED <<role, row, expired, nextToken, emailLock, rowLock>>

\* A bound of the model: a request that may issue a token arrives only while one
\* is left for it.
RoomToIssue ==
    LET issuing == {r \in Requests : req[r].pc \in
                      {"checkEmail", "countUsers", "insertUser", "login", "readActive", "rotate"}}
    IN  nextToken + Cardinality(issuing) <= MaxTokens

\* A cookie is a token some response has carried: the token of a committed row.
StartRegister(r) == RoomToIssue /\ \E e \in Emails : Start(r, "checkEmail", e, None)
StartLogin(r)    == RoomToIssue /\ \E e \in Emails : Start(r, "login", e, None)
StartRefresh(r)  ==
    /\ RoomToIssue
    /\ \E t \in Tokens : row[t].status # "absent" /\ Start(r, "readActive", None, t)
StartLogout(r)   ==
    \E t \in Tokens : row[t].status # "absent" /\ Start(r, "logoutRead", None, t)

\* The response is sent and get_db closes the session; what was not committed
\* is rolled back and its locks are released.
Finished(r) == Become(r, IdleRequest)

\* get_active_refresh_token: the row is there, not revoked and not expired.
IsActive(t) == row[t].status = "active" /\ t \notin expired

-----------------------------------------------------------------------------
(* _issue_session: a new refresh token for user e is inserted and flushed. *)

\* Mutant: a token that is drawn can be drawn again.
IssueRepeated(r, revoked) ==
    /\ nextToken \in Tokens
    /\ nextToken' \in {nextToken, nextToken + 1}
    /\ Become(r, [req[r] EXCEPT !.pc = "commit", !.new = nextToken, !.revoke = revoked])

IssueSession(r, revoked) ==
    /\ nextToken \in Tokens
    /\ nextToken' = nextToken + 1
    /\ Become(r, [req[r] EXCEPT !.pc = "commit", !.new = nextToken, !.revoke = revoked])

(* register                                                                *)

\* Mutant: nobody looks whether the address is taken.
RegisterUnchecked(r) ==
    /\ req[r].pc = "checkEmail"
    /\ Goto(r, "countUsers")
    /\ UNCHANGED <<role, row, expired, nextToken, emailLock, rowLock>>

RegisterCheckEmail(r) ==
    /\ req[r].pc = "checkEmail"
    /\ IF role[req[r].email] # "none"
       THEN Finished(r)                                   \* 409
       ELSE Goto(r, "countUsers")
    /\ UNCHANGED <<role, row, expired, nextToken, emailLock, rowLock>>

RegisterCountUsers(r) ==
    /\ req[r].pc = "countUsers"
    /\ LET first == \A e \in Emails : role[e] = "none"
           grant == IF FirstIsAdmin /\ first THEN "admin" ELSE "user"
       IN  Become(r, [req[r] EXCEPT !.pc = "insertUser", !.grant = grant])
    /\ UNCHANGED <<role, row, expired, nextToken, emailLock, rowLock>>

\* create_user flushes the INSERT: it waits for another transaction that has
\* inserted this e-mail, and the session is issued in the same transaction.
RegisterInsert(r) ==
    /\ req[r].pc = "insertUser"
    /\ emailLock[req[r].email] = None
    /\ role[req[r].email] = "none"
    /\ IssueSession(r, {})
    /\ emailLock' = [emailLock EXCEPT ![req[r].email] = r]
    /\ UNCHANGED <<role, row, expired, rowLock>>

\* The e-mail was committed since it was checked: the unique index refuses the
\* row, IntegrityError leaves the handler, and the response is a 500.
RegisterConflict(r) ==
    /\ req[r].pc = "insertUser"
    /\ emailLock[req[r].email] = None
    /\ role[req[r].email] # "none"
    /\ Finished(r)
    /\ UNCHANGED <<role, row, expired, nextToken, emailLock, rowLock>>

(* login: the password may be wrong.                                       *)

Login(r) ==
    /\ req[r].pc = "login"
    /\ \/ /\ role[req[r].email] # "none"
          /\ IssueSession(r, {})
       \/ /\ Finished(r)                                   \* 401
          /\ UNCHANGED nextToken
    /\ UNCHANGED <<role, row, expired, emailLock, rowLock>>

-----------------------------------------------------------------------------
(* refresh                                                                 *)

RefreshReadActive(r) ==
    /\ req[r].pc = "readActive"
    /\ IF IsActive(req[r].token)
       THEN Become(r, [req[r] EXCEPT !.pc = "rotate", !.email = row[req[r].token].owner])
       ELSE Goto(r, "readAgain")
    /\ UNCHANGED <<role, row, expired, nextToken, emailLock, rowLock>>

\* get_refresh_token_by_hash: a row that is revoked, not just expired, is a reuse.
RefreshReadAgain(r) ==
    /\ req[r].pc = "readAgain"
    /\ IF row[req[r].token].status = "revoked"
       THEN Become(r, [req[r] EXCEPT !.pc = "selectAll", !.email = row[req[r].token].owner])
       ELSE Finished(r)                                    \* 401
    /\ UNCHANGED <<role, row, expired, nextToken, emailLock, rowLock>>

\* Mutant: the handler issues the successor and forgets to revoke the token.
RotateWithoutRevoke(r) ==
    /\ req[r].pc = "rotate"
    /\ rowLock[req[r].token] = None
    /\ IssueSession(r, {})
    /\ UNCHANGED <<role, row, expired, emailLock, rowLock>>

\* revoke_refresh_token is an UPDATE by primary key: it does not look at
\* revoked_at again.  The successor is issued in the same transaction.
RefreshRotate(r) ==
    /\ req[r].pc = "rotate"
    /\ rowLock[req[r].token] = None
    /\ rowLock' = [rowLock EXCEPT ![req[r].token] = r]
    /\ IssueSession(r, {req[r].token})
    /\ UNCHANGED <<role, row, expired, emailLock>>

\* Mutant: the SELECT forgets the user.
RevokeEverybody(r) ==
    /\ req[r].pc = "selectAll"
    /\ Become(r, [req[r] EXCEPT !.pc = "revokeAll", !.revoke = {t \in Tokens : row[t].status = "active"}])
    /\ UNCHANGED <<role, row, expired, nextToken, emailLock, rowLock>>

\* revoke_all_user_refresh_tokens: the SELECT of the user's rows that are not
\* revoked; rows that are not committed yet are not among them.
RevokeAllSelect(r) ==
    /\ req[r].pc = "selectAll"
    /\ LET mine == {t \in Tokens : row[t].status = "active" /\ row[t].owner = req[r].email}
       IN  Become(r, [req[r] EXCEPT !.pc = "revokeAll", !.revoke = mine])
    /\ UNCHANGED <<role, row, expired, nextToken, emailLock, rowLock>>

\* The flush updates the rows one by one in the order of their primary keys.
NextToLock(r) ==
    CHOOSE t \in req[r].revoke :
        /\ rowLock[t] # r
        /\ \A u \in req[r].revoke : rowLock[u] # r => t <= u

RevokeAllUpdate(r) ==
    /\ req[r].pc = "revokeAll"
    /\ IF \A t \in req[r].revoke : rowLock[t] = r
       THEN /\ Goto(r, "commit")
            /\ UNCHANGED rowLock
       ELSE /\ rowLock[NextToLock(r)] = None
            /\ rowLock' = [rowLock EXCEPT ![NextToLock(r)] = r]
            /\ UNCHANGED req
    /\ UNCHANGED <<role, row, expired, nextToken, emailLock>>

(* logout                                                                  *)

LogoutRead(r) ==
    /\ req[r].pc = "logoutRead"
    /\ IF IsActive(req[r].token) THEN Goto(r, "logoutWrite") ELSE Finished(r)
    /\ UNCHANGED <<role, row, expired, nextToken, emailLock, rowLock>>

LogoutWrite(r) ==
    /\ req[r].pc = "logoutWrite"
    /\ rowLock[req[r].token] = None
    /\ rowLock' = [rowLock EXCEPT ![req[r].token] = r]
    /\ Become(r, [req[r] EXCEPT !.pc = "commit", !.revoke = {req[r].token}])
    /\ UNCHANGED <<role, row, expired, nextToken, emailLock>>

-----------------------------------------------------------------------------
(* db.commit: what the request wrote becomes visible, all of it at once,   *)
(* and its locks are released.                                             *)

NewRow(r) ==
    LET old == req[r].token
    IN  [status |-> "active",
         owner  |-> req[r].email,
         parent |-> old,
         family |-> IF old = None THEN req[r].new ELSE row[old].family]

\* Mutants: revoked rows are deleted; only the inserted row is written.
RowDeleted(r, t) ==
    IF t = req[r].new THEN NewRow(r)
    ELSE IF t \in req[r].revoke THEN [row[t] EXCEPT !.status = "deleted"]
    ELSE row[t]

RowNotRevoked(r, t) == IF t = req[r].new THEN NewRow(r) ELSE row[t]

RowAfterCommit(r, t) ==
    IF t = req[r].new THEN NewRow(r)
    ELSE IF t \in req[r].revoke THEN [row[t] EXCEPT !.status = "revoked"]
    ELSE row[t]

\* Mutant: a lock outlives its transaction.
Keep(lock, r) == lock

Release(lock, r) == [k \in DOMAIN lock |-> IF lock[k] = r THEN None ELSE lock[k]]

Commit(r) ==
    /\ req[r].pc = "commit"
    /\ row' = [t \in Tokens |-> RowAfterCommit(r, t)]
    /\ role' = IF req[r].grant = "none" THEN role
               ELSE [role EXCEPT ![req[r].email] = req[r].grant]
    /\ rowLock' = Release(rowLock, r)
    /\ emailLock' = Release(emailLock, r)
    /\ Finished(r)
    /\ UNCHANGED <<expired, nextToken>>

(* Time passes: a token's expires_at is reached.                           *)
Expire ==
    /\ \E t \in Tokens : row[t].status # "absent" /\ expired' = expired \cup {t}
    /\ UNCHANGED <<role, row, nextToken, emailLock, rowLock, req>>

-----------------------------------------------------------------------------
Arrive(r) == StartRegister(r) \/ StartLogin(r) \/ StartRefresh(r) \/ StartLogout(r)

Handle(r) ==
    \/ RegisterCheckEmail(r) \/ RegisterCountUsers(r) \/ RegisterInsert(r) \/ RegisterConflict(r)
    \/ Login(r)
    \/ RefreshReadActive(r) \/ RefreshReadAgain(r) \/ RefreshRotate(r)
    \/ RevokeAllSelect(r) \/ RevokeAllUpdate(r)
    \/ LogoutRead(r) \/ LogoutWrite(r)
    \/ Commit(r)

Overlap == \E r, q \in Requests : r # q /\ req[r].pc # "idle" /\ req[q].pc # "idle"

Step == Expire \/ \E r \in Requests : Arrive(r) \/ Handle(r)

Next == Step /\ overlapped' = (overlapped \/ Overlap')

Spec == Init /\ [][Next]_vars

\* A thread of the pool runs its handler to the end.
FairSpec == Spec /\ \A r \in Requests : WF_server(Handle(r))

-----------------------------------------------------------------------------
(* Properties                                                              *)

\* A successor and the token it replaced are never both usable: rotation
\* revokes the old row and inserts the new one in one transaction.
SuccessorConsumesParent ==
    \A t \in Tokens : row[t].parent # None => row[row[t].parent].status = "revoked"

\* No sequence of stale reads and late writes makes a revoked token usable
\* again, removes a row, or moves it to another user or family.
RevokedForever ==
    [][\A t \in Tokens :
          /\ row[t].status = "revoked" => row'[t] = row[t]
          /\ row[t].status = "active" => row'[t] \in {row[t], [row[t] EXCEPT !.status = "revoked"]}]_vars

\* One step never revokes tokens of two users: reuse detection stays with the
\* user whose token was presented again.
RevocationScoped ==
    [][\A t, u \in Tokens :
          /\ row[t].status = "active" /\ row'[t].status = "revoked"
          /\ row[u].status = "active" /\ row'[u].status = "revoked"
          => row[t].owner = row[u].owner]_vars

\* Row locks never make handlers wait for each other for ever: every request
\* that is being handled ends.
RequestsEnd == \A r \in Requests : req[r].pc # "idle" ~> req[r].pc = "idle"

(* What holds as long as no two requests have overlapped.                  *)

Live(t) == row[t].status = "active"

\* The request is about to commit what reuse detection has revoked.
DetectedReuse(r) ==
    /\ req[r].pc = "commit"
    /\ req[r].token # None /\ req[r].email # None /\ req[r].new = None

\* When reuse detection commits, nothing of the session of the presented token,
\* its family, is usable: what a rotation that is open meanwhile defeats.
ReuseRevokesFamily ==
    [][\A r \in Requests :
          DetectedReuse(r) /\ req'[r].pc = "idle"
          => \A t \in Tokens :
                row'[t].family = row[req[r].token].family => row'[t].status # "active"]_vars

\* Registrations: the bootstrap makes one administrator, a session token belongs
\* to a user whose row is committed, and a duplicate e-mail is answered with 409
\* before the insertion, never with the server error of the unique index.
RegistrationsInOrder ==
    ~overlapped =>
        /\ \A e, f \in Emails : role[e] = "admin" /\ role[f] = "admin" => e = f
        /\ \A t \in Tokens : row[t].status # "absent" => role[row[t].owner] # "none"
        /\ \A r \in Requests : req[r].pc = "insertUser" => role[req[r].email] = "none"

\* The handlers implement the store that answers every request atomically: ...
Store == INSTANCE SessionStore WITH
            Users <- Emails, AllTokens <- Tokens, NoUser <- None,
            owner <- [t \in Tokens |-> row[t].owner],
            live <- {t \in Tokens : Live(t)}

\* ... a commit is the operation its request stands for, ...
Operation(r) ==
    LET q == req[r] IN
    /\ q.new # None /\ q.token = None => Store!Open(q.email, q.new)
    /\ q.new # None /\ q.token # None => Store!Rotate(q.token, q.new)
    /\ q.new = None /\ DetectedReuse(r) => Store!CloseAll(q.token)
    /\ q.new = None /\ ~DetectedReuse(r) => Store!Close(q.token)

\* ... and nothing but a commit changes the store, as long as requests do not
\* overlap.  A refresh leaves one live token of its session, a reuse none of the
\* user, and a logout ends the session of its token.
ImplementsStore ==
    /\ Store!StoreInit
    /\ [][~overlapped' =>
             /\ [Store!StoreNext]_(Store!storeVars)
             /\ \A r \in Requests : req[r].pc = "commit" /\ req'[r].pc = "idle" => Operation(r)]_vars
=============================================================================
