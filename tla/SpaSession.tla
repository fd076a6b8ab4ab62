----------------------------- MODULE SpaSession -----------------------------
(***************************************************************************)
(* The session of one browser tab (prototype/app.js) against the server's  *)
(* token store, each /auth request taken as one atomic operation of        *)
(* SessionStore.  The access token lives in the page's memory, the refresh *)
(* token in the cookie jar.  Every API call goes through apiFetch: on a    *)
(* 401 it calls /auth/refresh once, and either repeats the call or clears  *)
(* the access token and shows the login gate.  Nothing keeps two calls     *)
(* from refreshing at the same time, and a request carries the cookie that *)
(* is in the jar when it is sent.                                          *)
(***************************************************************************)
EXTENDS SessionStore, Naturals, FiniteSets

CONSTANTS
    Fetches,        \* API calls the page has running at a time
    Boot,           \* the refresh boot() sends when the page is loaded
    Lossy,          \* TRUE: a request or its response may be lost
    Reloads,        \* TRUE: the user may reload the page
    NoToken

SpaAssumption ==
    /\ AllTokens \subseteq Nat /\ IsFiniteSet(AllTokens)
    /\ NoToken \notin AllTokens
    /\ Boot \notin Fetches
    /\ {Lossy, Reloads} \subseteq BOOLEAN

VARIABLES
    jar,        \* the refresh cookie
    access,     \* accessToken: "none", "fresh", or "stale" once it has expired
    screen,     \* the login gate, the app shell, or neither while boot() runs
    fetch,      \* what each call is waiting for
    trouble     \* history: what has happened that the page does not expect

system == <<owner, live, jar, access, screen, fetch>>
vars == <<system, trouble>>
page == <<jar, access, screen>>

Calls == Fetches \cup {Boot}
MaybeToken == AllTokens \cup {NoToken}

\* denied: a 401 is on its way back; refreshing: /auth/refresh is on its way to
\* the server; answered: its response is on its way back; abandoned: the page
\* that sent the refresh is gone, the request is not.
Fetch == [pc     : {"idle", "denied", "refreshing", "answered", "abandoned"},
          cookie : MaybeToken,
          reply  : MaybeToken]

Idle == [pc |-> "idle", cookie |-> NoToken, reply |-> NoToken]

TypeOK ==
    /\ StoreTypeOK
    /\ jar \in MaybeToken
    /\ access \in {"none", "fresh", "stale"}
    /\ screen \in {"blank", "gate", "app"}
    /\ fetch \in [Calls -> Fetch]
    /\ trouble \subseteq {"parallel", "click", "lost"}

\* A visitor without a cookie: boot() has shown the gate.
Init ==
    /\ StoreInit
    /\ jar = NoToken /\ access = "none" /\ screen = "gate"
    /\ fetch = [f \in Calls |-> Idle]
    /\ trouble = {}

\* A call that starts, or a click, while another call is running.
Quiet == \A f \in Calls : fetch[f].pc = "idle"
Unless(quiet, kind) == trouble' = IF quiet THEN trouble ELSE trouble \cup {kind}

Unused == {t \in AllTokens : Fresh(t)}
NewToken == CHOOSE t \in Unused : \A u \in Unused : t <= u

\* A bound of the model: every call that is running finds a token to rotate to.
Room == Cardinality(Unused) > Cardinality({f \in Calls : fetch[f].pc # "idle"})

-----------------------------------------------------------------------------
\* apiFetch with an access token that has expired, answered with a 401; with a
\* fresh one the call succeeds and changes nothing here.
Call(f) ==
    /\ f # Boot /\ fetch[f].pc = "idle" /\ screen = "app" /\ access = "stale"
    /\ Room
    /\ fetch' = [fetch EXCEPT ![f].pc = "denied"]
    /\ Unless(Quiet, "parallel")
    /\ UNCHANGED <<storeVars, page>>

\* The 401 is back: tryRefresh sends the cookie that is in the jar now.
TryRefresh(f) ==
    /\ fetch[f].pc = "denied"
    /\ fetch' = [fetch EXCEPT ![f].pc = "refreshing", ![f].cookie = jar]
    /\ UNCHANGED <<storeVars, page>>

Reply(f, t) == [fetch EXCEPT ![f].reply = t,
                             ![f].pc = IF @ = "refreshing" THEN "answered" ELSE "abandoned",
                             ![f].cookie = NoToken]

\* The server handles the refresh; a page that is gone gets its reply too.
ServeRefresh(f) ==
    /\ \/ fetch[f].pc = "refreshing"
       \/ fetch[f].pc = "abandoned" /\ fetch[f].cookie # NoToken
    /\ LET sent == fetch[f].cookie
       IN  \/ /\ sent = NoToken
              /\ fetch' = Reply(f, NoToken)
              /\ UNCHANGED storeVars
           \/ /\ sent \in live
              /\ Rotate(sent, NewToken)
              /\ fetch' = Reply(f, NewToken)
           \/ /\ sent # NoToken /\ sent \notin live
              /\ CloseAll(sent)
              /\ fetch' = Reply(f, NoToken)
    /\ UNCHANGED page

\* Mutant: the cookie of the response is not stored.
AdoptAccess(f) ==
    /\ fetch[f].pc = "answered" /\ fetch[f].reply # NoToken
    /\ access' = "fresh"
    /\ screen' = IF f = Boot THEN "app" ELSE screen
    /\ fetch' = [fetch EXCEPT ![f] = Idle]
    /\ UNCHANGED <<storeVars, jar>>

\* Set-Cookie and the access token of the response; the call is repeated with
\* them at once, and boot() enters the app.
Adopt(f) ==
    /\ fetch[f].pc = "answered" /\ fetch[f].reply # NoToken
    /\ jar' = fetch[f].reply
    /\ access' = "fresh"
    /\ screen' = IF f = Boot THEN "app" ELSE screen
    /\ fetch' = [fetch EXCEPT ![f] = Idle]
    /\ UNCHANGED storeVars

\* Mutant: the gate is not shown.
GiveUpSilently(f) ==
    /\ access' = "none"
    /\ fetch' = [fetch EXCEPT ![f] = Idle]
    /\ UNCHANGED <<storeVars, jar, screen>>

\* tryRefresh returned false: on a 401 as on a network error.  The cookie stays:
\* the 401 is a new response that does not carry the handler's delete_cookie.
GiveUp(f) ==
    /\ access' = "none"
    /\ screen' = "gate"
    /\ fetch' = [fetch EXCEPT ![f] = Idle]
    /\ UNCHANGED <<storeVars, jar>>

Refused(f) == fetch[f].pc = "answered" /\ fetch[f].reply = NoToken /\ GiveUp(f)

LoseMessage(f) ==
    /\ Lossy /\ fetch[f].pc \in {"refreshing", "answered"}
    /\ GiveUp(f)
    /\ Unless(FALSE, "lost")

\* The response of a page that is gone: the browser may still take its cookie.
DropAbandoned(f) ==
    /\ fetch[f].pc = "abandoned" /\ fetch[f].cookie = NoToken
    /\ jar' \in {jar, IF fetch[f].reply = NoToken THEN jar ELSE fetch[f].reply}
    /\ fetch' = [fetch EXCEPT ![f] = Idle]
    /\ UNCHANGED <<storeVars, access, screen>>

-----------------------------------------------------------------------------
(* The user and the clock.                                                 *)

\* handleAuthSubmit and enterApp; the response may get lost, not the session.
Login ==
    /\ screen = "gate" /\ Room
    /\ \E u \in Users : Open(u, NewToken)
    /\ \/ jar' = NewToken /\ access' = "fresh" /\ screen' = "app" /\ Unless(Quiet, "click")
       \/ Lossy /\ Unless(FALSE, "lost") /\ UNCHANGED page
    /\ UNCHANGED fetch

\* Mutant: the page forgets the session, the server is not told.
LogoutLocally ==
    /\ screen = "app"
    /\ jar' = NoToken /\ access' = "none" /\ screen' = "gate"
    /\ Unless(Quiet, "click")
    /\ UNCHANGED <<storeVars, fetch>>

\* handleLogout: the server revokes the cookie's token when it is live.  The
\* page forgets its access token whether the request got through or not.
Logout ==
    /\ screen = "app"
    /\ \/ Close(jar) /\ jar' = NoToken /\ Unless(Quiet, "click")
       \/ Lossy /\ Unless(FALSE, "lost") /\ UNCHANGED <<storeVars, jar>>
    /\ access' = "none" /\ screen' = "gate"
    /\ UNCHANGED fetch

AccessExpires ==
    /\ access = "fresh"
    /\ access' = "stale"
    /\ UNCHANGED <<storeVars, jar, screen, fetch>>

\* Memory is lost, running calls are cut off, and boot() tries the cookie.
Abandon(f) ==
    IF fetch[f].pc \in {"refreshing", "answered"} /\ f # Boot
    THEN [fetch[f] EXCEPT !.pc = "abandoned"]
    ELSE IF fetch[f].pc = "abandoned" THEN fetch[f] ELSE Idle

\* Mutant: the gate is shown before the cookie has been tried.
ReloadAtGate ==
    /\ Reloads /\ Room
    /\ fetch[Boot].pc = "idle"
    /\ fetch' = [[f \in Calls |-> Abandon(f)] EXCEPT
                    ![Boot] = [Idle EXCEPT !.pc = "refreshing", !.cookie = jar]]
    /\ access' = "none" /\ screen' = "gate"
    /\ Unless(Quiet, "click")
    /\ UNCHANGED <<storeVars, jar>>

Reload ==
    /\ Reloads /\ Room
    /\ fetch[Boot].pc = "idle"
    /\ fetch' = [[f \in Calls |-> Abandon(f)] EXCEPT
                    ![Boot] = [Idle EXCEPT !.pc = "refreshing", !.cookie = jar]]
    /\ access' = "none" /\ screen' = "blank"
    /\ Unless(Quiet, "click")
    /\ UNCHANGED <<storeVars, jar>>

Network(f) == TryRefresh(f) \/ ServeRefresh(f) \/ Adopt(f) \/ Refused(f) \/ DropAbandoned(f)

Next ==
    \/ \E f \in Calls : Call(f) \/ LoseMessage(f)
    \/ Login \/ Logout \/ Reload
    \/ /\ AccessExpires \/ \E f \in Calls : Network(f)
       /\ UNCHANGED trouble

Spec == Init /\ [][Next]_vars

\* Requests reach the server and responses (or network errors) the page.
FairSpec == Spec /\ \A f \in Calls : WF_system(Network(f))

-----------------------------------------------------------------------------
(* Properties                                                              *)

\* The browser's session ends by a logout and by nothing else: the refreshes
\* the page sends on its own never make the server drop the token it needs.
SessionEndsOnlyByLogout ==
    [][trouble' = {} /\ live # {} /\ live' = {}
       => screen = "app" /\ screen' = "gate" /\ jar' = NoToken]_vars

\* The page never presents a token it has already exchanged, so a reuse is
\* somebody else's: what apiFetch, which coordinates nothing, does not keep.
Presents(f) ==
    fetch[f].pc = "refreshing" /\ fetch'[f].pc = "answered" /\ fetch[f].cookie # NoToken

NeverPresentsRotated ==
    [][\A f \in Calls : trouble' \subseteq {"parallel"} /\ Presents(f) => fetch[f].cookie \in live]_vars

\* The server keeps no session that no cookie and no response on its way can
\* reach, calls that refresh at the same time included; however many they are,
\* one login has at most one live token: one refresh has won, or all have lost.
NoLeakedSession ==
    trouble \subseteq {"parallel"} =>
        /\ live \subseteq {jar} \cup {fetch[f].reply : f \in Calls}
        /\ Cardinality(live) <= 1

\* The login gate is not shown to a user whose session is alive, and not to a
\* page that holds an access token.
GateMeansSignedOut == trouble = {} /\ screen = "gate" => jar \notin live /\ access = "none"

\* A logout leaves no session behind that this browser could be signed in with.
LogoutSignsOut ==
    [][trouble' \subseteq {"parallel"} /\ screen = "app" /\ screen' = "gate" /\ jar # NoToken /\ jar' = NoToken
       => live' = {}]_vars

\* A call that met an expired access token gets a fresh one; only trouble sends
\* its user to the login gate instead, and even then the call ends.
DeniedIsResolved(f) ==
    fetch[f].pc = "denied" ~> (access = "fresh" \/ (trouble # {} /\ screen # "app"))
=============================================================================
