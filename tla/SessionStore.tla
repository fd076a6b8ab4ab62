----------------------------- MODULE SessionStore -----------------------------
(***************************************************************************)
(* What the refresh-token store promises when every request is atomic: the *)
(* abstract specification of AuthTokens, and the server the browser of     *)
(* SpaSession talks to.  A token is issued once, is live until it is       *)
(* rotated, logged out or revoked with all of its user's tokens, and is    *)
(* never live again.                                                       *)
(***************************************************************************)
CONSTANTS Users, AllTokens, NoUser

StoreAssumption == NoUser \notin Users

VARIABLES
    owner,      \* the user a token was issued to; NoUser before
    live        \* the tokens a refresh accepts

storeVars == <<owner, live>>

StoreTypeOK ==
    /\ owner \in [AllTokens -> Users \cup {NoUser}]
    /\ live \subseteq {t \in AllTokens : owner[t] # NoUser}

StoreInit ==
    /\ owner = [t \in AllTokens |-> NoUser]
    /\ live = {}

Fresh(t) == t \in AllTokens /\ owner[t] = NoUser

\* register, login
Open(u, t) ==
    /\ Fresh(t)
    /\ owner' = [owner EXCEPT ![t] = u]
    /\ live' = live \cup {t}

\* Mutants: the old token stays live; the new one has no owner.
RotateKeepsOld(t, new) ==
    /\ t \in live
    /\ Fresh(new)
    /\ owner' = [owner EXCEPT ![new] = owner[t]]
    /\ live' = live \cup {new}

RotateUnowned(t, new) ==
    /\ t \in live
    /\ Fresh(new)
    /\ live' = (live \ {t}) \cup {new}
    /\ UNCHANGED owner

\* refresh with a live token
Rotate(t, new) ==
    /\ t \in live
    /\ Fresh(new)
    /\ owner' = [owner EXCEPT ![new] = owner[t]]
    /\ live' = (live \ {t}) \cup {new}

\* logout
Close(t) ==
    /\ live' = live \ {t}
    /\ UNCHANGED owner

\* refresh with a token that was live once
CloseAll(t) ==
    /\ owner[t] # NoUser
    /\ t \notin live
    /\ live' = {s \in live : owner[s] # owner[t]}
    /\ UNCHANGED owner

StoreNext ==
    \E t \in AllTokens :
        \/ \E u \in Users : Open(u, t)
        \/ \E new \in AllTokens : Rotate(t, new)
        \/ Close(t)
        \/ CloseAll(t)

StoreSpec == StoreInit /\ [][StoreNext]_storeVars
=============================================================================
