---------------------------- MODULE ReviewOverrides ----------------------------
(***************************************************************************)
(* POST /review: an administrator sets the review status of an item of the *)
(* knowledge base.  The seed files are not written; a row of               *)
(* review_overrides lies over them, and every reader of the item takes the *)
(* status from the row when there is one.  The request is cut at its SQL   *)
(* statements (READ COMMITTED): db.get, the INSERT or the UPDATE of the    *)
(* columns that differ from what was loaded, and the commit.               *)
(***************************************************************************)
EXTENDS Naturals

CONSTANTS
    Refs,           \* reviewable items
    Statuses,       \* review states
    Reviewers,
    SeedStatus,     \* the status in the seed file, by item
    Slots,          \* requests that are being handled
    MaxReviews,     \* bound on the reviews that are ever started
    None

Row == [status : Statuses, reviewer : Reviewers]

ReviewOverridesAssumption ==
    /\ SeedStatus \in [Refs -> Statuses]
    /\ MaxReviews \in Nat
    /\ None \notin Statuses \cup Reviewers \cup Refs \cup Slots
    /\ None \notin Row

VARIABLES
    override,   \* the committed rows, None where there is none
    lock,       \* the slot whose transaction holds the row
    trail,      \* the status that the last answered review of the item reported to set
    given,      \* the reviews that were committed, as item and row
    started,
    req,
    overlapped  \* history: two requests have been handled at the same time

vars == <<override, lock, trail, given, started, req, overlapped>>

MaybeRow == Row \cup {None}

Request == [pc   : {"idle", "get", "write", "commit", "conflict"},
            ref  : Refs \cup {None},
            new  : MaybeRow,    \* what the administrator sent
            seen : MaybeRow]    \* what db.get returned

Idle == [pc |-> "idle", ref |-> None, new |-> None, seen |-> None]

TypeOK ==
    /\ override \in [Refs -> MaybeRow]
    /\ lock \in [Refs -> Slots \cup {None}]
    /\ trail \in [Refs -> Statuses \cup {None}]
    /\ given \subseteq Refs \X Row
    /\ started \in 0 .. MaxReviews
    /\ req \in [Slots -> Request]
    /\ \A x \in Refs : lock[x] # None => req[lock[x]].pc = "commit" /\ req[lock[x]].ref = x

Init ==
    /\ override = [x \in Refs |-> None]
    /\ lock = [x \in Refs |-> None]
    /\ trail = [x \in Refs |-> None]
    /\ given = {}
    /\ started = 0
    /\ req = [r \in Slots |-> Idle]
    /\ overlapped = FALSE

-----------------------------------------------------------------------------
Become(r, q) == req' = [req EXCEPT ![r] = q]

Start(r) ==
    /\ req[r].pc = "idle" /\ started < MaxReviews
    /\ started' = started + 1
    /\ \E x \in Refs, n \in Row :
          Become(r, [Idle EXCEPT !.pc = "get", !.ref = x, !.new = n])
    /\ UNCHANGED <<override, lock, trail, given>>

Get(r) ==
    /\ req[r].pc = "get"
    /\ Become(r, [req[r] EXCEPT !.pc = "write", !.seen = override[req[r].ref]])
    /\ UNCHANGED <<override, lock, trail, given, started>>

\* flush.  An UPDATE that changes no column is not sent, and takes no lock.
Write(r) ==
    /\ req[r].pc = "write"
    /\ lock[req[r].ref] = None
    /\ req[r].seen = None => override[req[r].ref] = None
    /\ lock' = IF req[r].seen = req[r].new THEN lock ELSE [lock EXCEPT ![req[r].ref] = r]
    /\ Become(r, [req[r] EXCEPT !.pc = "commit"])
    /\ UNCHANGED <<override, trail, given, started>>

\* The row was committed by somebody else since: IntegrityError, a 500.
Conflict(r) ==
    /\ req[r].pc = "write"
    /\ lock[req[r].ref] = None
    /\ req[r].seen = None /\ override[req[r].ref] # None
    /\ Become(r, [req[r] EXCEPT !.pc = "conflict"])
    /\ UNCHANGED <<override, lock, trail, given, started>>

\* Mutant: the reviewer is written with the first review only.
MergeStatus(seen, new, old) ==
    IF seen = None THEN new ELSE [old EXCEPT !.status = new.status]

\* A column that is as it was loaded keeps what is in the table.
Merge(seen, new, old) ==
    IF seen = None THEN new
    ELSE [status   |-> IF new.status = seen.status THEN old.status ELSE new.status,
          reviewer |-> IF new.reviewer = seen.reviewer THEN old.reviewer ELSE new.reviewer]

\* The row once r has committed.
Written(r) ==
    LET q == req[r] IN
    IF q.seen = q.new THEN override[q.ref] ELSE Merge(q.seen, q.new, override[q.ref])

\* db.commit and the response, with the previous status it reports.
Commit(r) ==
    LET q == req[r] IN
    /\ q.pc = "commit"
    /\ override' = [override EXCEPT ![q.ref] = Written(r)]
    /\ given' = given \cup {<<q.ref, q.new>>}
    /\ trail' = [trail EXCEPT ![q.ref] = q.new.status]
    /\ lock' = [x \in Refs |-> IF lock[x] = r THEN None ELSE lock[x]]
    /\ Become(r, Idle)
    /\ UNCHANGED started

\* get_db rolls back on an exception.
RollBack(r) ==
    /\ req[r].pc # "idle"
    /\ lock' = [x \in Refs |-> IF lock[x] = r THEN None ELSE lock[x]]
    /\ Become(r, Idle)
    /\ UNCHANGED <<override, trail, given, started>>

\* _with_review_override: what GET /evidence shows.
Effective(x) == IF override[x] = None THEN SeedStatus[x] ELSE override[x].status

Overlap == \E r, s \in Slots : r # s /\ req[r].pc # "idle" /\ req[s].pc # "idle"

Step ==
    \E r \in Slots :
        Start(r) \/ Get(r) \/ Write(r) \/ Conflict(r) \/ Commit(r) \/ RollBack(r)

Next == Step /\ overlapped' = (overlapped \/ Overlap')

Spec == Init /\ [][Next]_vars

-----------------------------------------------------------------------------
(* Properties                                                              *)

\* Locks are held by requests that are about to commit.  As long as no two
\* requests have overlapped, whatever was rolled back:
\*   - a review is never refused;
\*   - the "previous_status" of a response is the status the last answered review
\*     of the item set, so the responses tell the history of the item;
\*   - the reviewer on record gave the status on record;
\*   - what readers see is the last review that was answered, else the seed.
ReviewsInOrder ==
    /\ TypeOK
    /\ ~overlapped =>
        /\ \A r \in Slots :
              /\ req[r].pc # "conflict"
              /\ req[r].pc = "commit" =>
                    trail[req[r].ref] = IF req[r].seen = None THEN None ELSE req[r].seen.status
        /\ \A x \in Refs :
              /\ override[x] # None => <<x, override[x]>> \in given
              /\ Effective(x) = IF trail[x] = None THEN SeedStatus[x] ELSE trail[x]
=============================================================================
