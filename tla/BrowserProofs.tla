----------------------------- MODULE BrowserProofs -----------------------------
(***************************************************************************)
(* Theorems about Browser: for any users, tokens and calls at a time, any  *)
(* forms, problems and catalogues.                                         *)
(*                                                                         *)
(* Every page has an inductive invariant of its own; the last part puts    *)
(* them together.                                                          *)
(***************************************************************************)
EXTENDS Browser, ContainersProofs

Assumptions == SpaAssumption /\ StoreAssumption

(* The inductive invariant, in named parts.                                *)

\* The page holds no token that was not issued to it.
Issued == {NoToken} \cup {t \in AllTokens : owner[t] # NoUser}

OnlyIssued ==
    /\ jar \in Issued
    /\ \A f \in Calls : fetch[f].cookie \in Issued /\ fetch[f].reply \in Issued

\* The live tokens are of the user of this one.
SameUser(t) == \A s \in live : t # NoToken /\ owner[s] = owner[t]

\* A response on its way has brought the token that is live, if one is, and nobody
\* has presented or adopted it yet.
ReplyIsNew(f) ==
    fetch[f].pc = "answered" =>
        /\ live \subseteq {fetch[f].reply}
        /\ fetch[f].reply # NoToken =>
              /\ jar # fetch[f].reply
              /\ \A g \in Calls :
                    /\ fetch[g].pc = "refreshing" => fetch[g].cookie # fetch[f].reply
                    /\ fetch[g].pc = "answered" /\ g # f => fetch[g].reply # fetch[f].reply

\* What calls that refresh at the same time keep.
OneSession ==
    /\ \A f \in Calls : fetch[f].pc # "abandoned"
    /\ \A s, t \in live : s = t
    /\ screen = "gate" => live = {}
    /\ SameUser(jar)
    /\ \A f \in Calls : /\ fetch[f].pc = "refreshing" => SameUser(fetch[f].cookie)
                        /\ ReplyIsNew(f)
    /\ \A s \in live : s = jar \/ \E f \in Calls : fetch[f].pc = "answered" /\ fetch[f].reply = s

\* What one call at a time keeps.
OneCall ==
    /\ \A f, g \in Calls : fetch[f].pc # "idle" /\ fetch[g].pc # "idle" => f = g
    /\ screen = "gate" => Quiet /\ access = "none"
    /\ \A f \in Calls : fetch[f].pc = "refreshing" => live \subseteq {fetch[f].cookie}

IInv ==
    /\ TypeOK
    /\ OnlyIssued
    /\ trouble \subseteq {"parallel"} => OneSession
    /\ trouble = {} => OneCall

-----------------------------------------------------------------------------
LEMMA IdleType ==
  Idle \in Fetch /\ Idle.pc = "idle" /\ Idle.cookie = NoToken /\ Idle.reply = NoToken
  BY DEF Idle, Fetch, MaybeToken

LEMMA InitIInv == ASSUME Assumptions, Init PROVE IInv
  <1>1. \A f \in Calls : fetch[f] = Idle
    BY DEF Init
  <1>2. TypeOK
    BY IdleType DEF Init, TypeOK, StoreInit, StoreTypeOK, MaybeToken
  <1>3. OnlyIssued
    BY <1>1, IdleType DEF Init, OnlyIssued, Issued
  <1>4. OneSession
    BY <1>1, IdleType DEF Init, StoreInit, OneSession, SameUser, ReplyIsNew
  <1>5. OneCall
    BY <1>1, IdleType DEF Init, OneCall, Quiet
  <1> QED
    BY <1>2, <1>3, <1>4, <1>5 DEF IInv

\* A step that changes one call.
LEMMA Turn ==
  ASSUME TypeOK, NEW f \in Calls, NEW q \in Fetch, fetch' = [fetch EXCEPT ![f] = q]
  PROVE  /\ fetch' \in [Calls -> Fetch] /\ fetch'[f] = q
         /\ \A g \in Calls \ {f} : fetch'[g] = fetch[g]
  BY DEF TypeOK

\* A click while a call is running, and a lost message, are trouble.
LEMMA Troubles ==
  ASSUME TypeOK, NEW quiet \in BOOLEAN, NEW kind \in {"parallel", "click", "lost"},
         Unless(quiet, kind)
  PROVE  /\ trouble' \subseteq {"parallel", "click", "lost"}
         /\ trouble \subseteq trouble'
         /\ trouble' = {} => quiet
         /\ trouble' \subseteq {"parallel"} => quiet \/ kind = "parallel"
  BY DEF TypeOK, Unless

-----------------------------------------------------------------------------
(* One lemma for each action.                                              *)

LEMMA CallStep == ASSUME Assumptions, IInv, NEW f \in Calls, Call(f) PROVE IInv'
  <1>1. PICK q : q = [fetch[f] EXCEPT !.pc = "denied"]
    OBVIOUS
  <1>2. fetch[f] \in Fetch /\ TypeOK
    BY DEF IInv, TypeOK
  <1>3. q \in Fetch /\ q.pc = "denied" /\ q.cookie = fetch[f].cookie /\ q.reply = fetch[f].reply
    BY <1>1, <1>2 DEF Fetch
  <1>4. fetch' = [fetch EXCEPT ![f] = q]
    BY <1>1 DEF Call
  <1>5. /\ fetch' \in [Calls -> Fetch] /\ fetch'[f] = q
        /\ \A g \in Calls \ {f} : fetch'[g] = fetch[g]
    BY <1>2, <1>3, <1>4, Turn
  <1>6. /\ trouble' \subseteq {"parallel", "click", "lost"} /\ trouble \subseteq trouble'
        /\ trouble' = {} => Quiet
    BY <1>2, Troubles DEF Call, Quiet
  <1>7. UNCHANGED <<owner, live, jar, access, screen>> /\ screen = "app" /\ fetch[f].pc = "idle"
    BY DEF Call, storeVars, page
  <1>8. TypeOK' /\ OnlyIssued'
    BY <1>3, <1>5, <1>6, <1>7 DEF IInv, TypeOK, StoreTypeOK, OnlyIssued, Issued
  <1>9. ASSUME trouble' \subseteq {"parallel"} PROVE OneSession'
    <2>1. OneSession
      BY <1>6, <1>9 DEF IInv
    <2>2. \A g \in Calls : ReplyIsNew(g)'
      BY <1>3, <1>5, <1>7, <2>1 DEF OneSession, ReplyIsNew
    <2>3. \A s \in live : s = jar \/ \E g \in Calls : fetch'[g].pc = "answered" /\ fetch'[g].reply = s
      BY <1>5, <1>7, <2>1 DEF OneSession
    <2> QED
      BY <1>3, <1>5, <1>7, <2>1, <2>2, <2>3 DEF OneSession, SameUser
  <1>10. ASSUME trouble' = {} PROVE OneCall'
    BY <1>3, <1>5, <1>6, <1>7, <1>10 DEF OneCall, Quiet
  <1> QED
    BY <1>8, <1>9, <1>10 DEF IInv

LEMMA TryRefreshStep ==
  ASSUME Assumptions, IInv, NEW f \in Calls, TryRefresh(f), UNCHANGED trouble
  PROVE  IInv'
  <1>1. PICK q : q = [fetch[f] EXCEPT !.pc = "refreshing", !.cookie = jar]
    OBVIOUS
  <1>2. fetch[f] \in Fetch /\ TypeOK
    BY DEF IInv, TypeOK
  <1>3. q \in Fetch /\ q.pc = "refreshing" /\ q.cookie = jar /\ q.reply = fetch[f].reply
    BY <1>1, <1>2 DEF Fetch, TypeOK
  <1>4. fetch' = [fetch EXCEPT ![f] = q]
    BY <1>1 DEF TryRefresh
  <1>5. /\ fetch' \in [Calls -> Fetch] /\ fetch'[f] = q
        /\ \A g \in Calls \ {f} : fetch'[g] = fetch[g]
    BY <1>2, <1>3, <1>4, Turn
  <1>6. UNCHANGED <<owner, live, jar, access, screen>> /\ fetch[f].pc = "denied"
    BY DEF TryRefresh, storeVars, page
  <1>7. TypeOK' /\ OnlyIssued'
    BY <1>3, <1>5, <1>6 DEF IInv, TypeOK, StoreTypeOK, OnlyIssued, Issued
  <1>8. ASSUME trouble \subseteq {"parallel"} PROVE OneSession'
    <2>1. OneSession
      BY <1>8 DEF IInv
    <2>2. \A g \in Calls : ReplyIsNew(g)'
      BY <1>3, <1>5, <1>6, <2>1 DEF OneSession, ReplyIsNew
    <2>3. \A s \in live : s = jar \/ \E g \in Calls : fetch'[g].pc = "answered" /\ fetch'[g].reply = s
      BY <1>5, <1>6, <2>1 DEF OneSession
    <2> QED
      BY <1>3, <1>5, <1>6, <2>1, <2>2, <2>3 DEF OneSession, SameUser
  <1>9. ASSUME trouble = {} PROVE OneCall'
    <2>1. OneCall /\ OneSession
      BY <1>9 DEF IInv
    <2>2. \A g \in Calls : fetch[g].pc # "idle" => g = f
      BY <1>6, <2>1 DEF OneCall
    <2>3. live \subseteq {jar}
      BY <1>6, <2>1, <2>2 DEF OneSession
    <2> QED
      BY <1>3, <1>5, <1>6, <2>1, <2>2, <2>3 DEF OneCall, Quiet
  <1> QED
    BY <1>7, <1>8, <1>9 DEF IInv

\* What Reply writes to a call whose refresh the server has handled.
LEMMA ReplyTurn ==
  ASSUME IInv, NEW f \in Calls, NEW t \in MaybeToken, fetch' = Reply(f, t)
  PROVE  /\ fetch' \in [Calls -> Fetch]
         /\ fetch'[f].reply = t /\ fetch'[f].cookie = NoToken
         /\ fetch'[f].pc = (IF fetch[f].pc = "refreshing" THEN "answered" ELSE "abandoned")
         /\ \A g \in Calls \ {f} : fetch'[g] = fetch[g]
  <1>1. PICK q : q = [fetch[f] EXCEPT !.reply = t,
                                      !.pc = IF @ = "refreshing" THEN "answered" ELSE "abandoned",
                                      !.cookie = NoToken]
    OBVIOUS
  <1>2. fetch[f] \in Fetch /\ TypeOK
    BY DEF IInv, TypeOK
  <1>3. /\ q \in Fetch /\ q.reply = t /\ q.cookie = NoToken
        /\ q.pc = IF fetch[f].pc = "refreshing" THEN "answered" ELSE "abandoned"
    BY <1>1, <1>2 DEF Fetch, MaybeToken
  <1>4. fetch' = [fetch EXCEPT ![f] = q]
    BY <1>1, <1>2 DEF Reply, TypeOK
  <1>5. /\ fetch' \in [Calls -> Fetch] /\ fetch'[f] = q
        /\ \A g \in Calls \ {f} : fetch'[g] = fetch[g]
    BY <1>2, <1>3, <1>4, Turn
  <1> QED
    BY <1>3, <1>5

\* The refresh finds its token live: one token takes the place of the other.
LEMMA RotateStep ==
  ASSUME Assumptions, IInv, NEW f \in Calls, NEW n, UNCHANGED <<page, trouble>>,
         fetch[f].pc \in {"refreshing", "abandoned"}, Rotate(fetch[f].cookie, n), fetch' = Reply(f, n)
  PROVE  IInv'
  <1> DEFINE sent == fetch[f].cookie
  <1>1. /\ sent \in live /\ n \in AllTokens /\ owner[n] = NoUser
        /\ owner' = [owner EXCEPT ![n] = owner[sent]] /\ live' = (live \ {sent}) \cup {n}
    BY DEF Rotate, Fresh
  <1>2. /\ sent \in AllTokens /\ owner[sent] \in Users /\ n # sent /\ n # NoToken
        /\ NoUser \notin Users /\ NoToken \notin AllTokens
    BY <1>1 DEF Assumptions, SpaAssumption, StoreAssumption, IInv, TypeOK, StoreTypeOK
  <1>3. /\ owner' \in [AllTokens -> Users \cup {NoUser}]
        /\ owner'[n] = owner[sent] /\ \A t \in AllTokens \ {n} : owner'[t] = owner[t]
    BY <1>1, <1>2 DEF IInv, TypeOK, StoreTypeOK
  <1>4. /\ fetch' \in [Calls -> Fetch]
        /\ fetch'[f].reply = n /\ fetch'[f].cookie = NoToken
        /\ fetch'[f].pc = (IF fetch[f].pc = "refreshing" THEN "answered" ELSE "abandoned")
        /\ \A g \in Calls \ {f} : fetch'[g] = fetch[g]
    BY <1>1, ReplyTurn DEF MaybeToken
  <1>5. UNCHANGED <<jar, access, screen, trouble>>
    BY DEF page
  <1>6. TypeOK'
    BY <1>1, <1>2, <1>3, <1>4, <1>5 DEF IInv, TypeOK, StoreTypeOK
  <1>7. Issued \cup {n} \subseteq Issued' /\ n \notin Issued
    BY <1>1, <1>2, <1>3 DEF Issued
  <1>8. OnlyIssued'
    BY <1>4, <1>5, <1>7 DEF IInv, OnlyIssued, Issued
  <1>9. ASSUME trouble \subseteq {"parallel"} PROVE OneSession'
    <2>1. OneSession /\ OnlyIssued
      BY <1>9 DEF IInv
    <2>2. fetch[f].pc = "refreshing" /\ fetch'[f].pc = "answered" /\ live = {sent} /\ live' = {n}
      BY <1>1, <1>4, <2>1 DEF OneSession
    <2>3. jar # n /\ \A g \in Calls : fetch[g].cookie # n /\ fetch[g].reply # n
      BY <1>7, <2>1 DEF OnlyIssued
    <2>4. \A g \in Calls \ {f} : fetch[g].pc # "answered"
      BY <1>2, <2>1, <2>2 DEF OneSession, ReplyIsNew
    <2>5. \A g \in Calls : ReplyIsNew(g)'
      BY <1>4, <1>5, <2>2, <2>3, <2>4 DEF ReplyIsNew
    <2>6. ASSUME NEW t \in Issued, SameUser(t), t # n PROVE SameUser(t)'
      BY <1>2, <1>3, <2>2, <2>6 DEF SameUser, Issued
    <2>7. SameUser(jar)' /\ \A g \in Calls : fetch'[g].pc = "refreshing" => SameUser(fetch[g].cookie)'
      <3>1. SameUser(jar)'
        BY <1>5, <2>1, <2>3, <2>6 DEF OneSession, OnlyIssued, SameUser
      <3>2. ASSUME NEW g \in Calls, fetch'[g].pc = "refreshing" PROVE SameUser(fetch[g].cookie)'
        <4>1. g # f /\ fetch'[g] = fetch[g]
          BY <1>4, <2>2, <3>2
        <4> QED
          BY <2>1, <2>3, <2>6, <3>2, <4>1 DEF OneSession, OnlyIssued, SameUser
      <3> QED
        BY <3>1, <3>2
    <2> QED
      BY <1>4, <1>5, <2>1, <2>2, <2>5, <2>7 DEF OneSession, SameUser
  <1>10. ASSUME trouble = {} PROVE OneCall'
    <2>1. OneCall /\ \A g \in Calls \ {f} : fetch[g].pc = "idle"
      BY <1>10 DEF IInv, OneCall
    <2> QED
      BY <1>4, <1>5, <2>1 DEF OneCall, Quiet
  <1> QED
    BY <1>5, <1>6, <1>8, <1>9, <1>10 DEF IInv

\* It does not, or has no cookie: the page that is at one session has none then.
LEMMA RefuseStep ==
  ASSUME Assumptions, IInv, NEW f \in Calls, UNCHANGED <<page, trouble, owner>>,
         fetch[f].pc \in {"refreshing", "abandoned"}, fetch' = Reply(f, NoToken),
         live' \subseteq live,
         \A s \in live' : fetch[f].cookie = NoToken \/ owner[s] # owner[fetch[f].cookie]
  PROVE  IInv'
  <1>1. /\ fetch' \in [Calls -> Fetch]
        /\ fetch'[f].reply = NoToken /\ fetch'[f].cookie = NoToken
        /\ fetch'[f].pc = (IF fetch[f].pc = "refreshing" THEN "answered" ELSE "abandoned")
        /\ \A g \in Calls \ {f} : fetch'[g] = fetch[g]
    BY ReplyTurn DEF MaybeToken
  <1>2. UNCHANGED <<jar, access, screen>>
    BY DEF page
  <1>3. TypeOK' /\ OnlyIssued'
    BY <1>1, <1>2 DEF IInv, TypeOK, StoreTypeOK, OnlyIssued, Issued
  <1>4. ASSUME trouble \subseteq {"parallel"} PROVE OneSession'
    <2>1. OneSession
      BY <1>4 DEF IInv
    <2>2. fetch'[f].pc = "answered" /\ live' = {}
      BY <1>1, <2>1 DEF OneSession, SameUser
    <2>3. \A g \in Calls : ReplyIsNew(g)'
      BY <1>1, <1>2, <2>1, <2>2 DEF OneSession, ReplyIsNew
    <2> QED
      BY <1>1, <1>2, <2>1, <2>2, <2>3 DEF OneSession, SameUser
  <1>5. ASSUME trouble = {} PROVE OneCall'
    <2>1. OneCall /\ \A g \in Calls \ {f} : fetch[g].pc = "idle"
      BY <1>5 DEF IInv, OneCall
    <2> QED
      BY <1>1, <1>2, <2>1 DEF OneCall, Quiet
  <1> QED
    BY <1>3, <1>4, <1>5 DEF IInv

LEMMA ServeStep ==
  ASSUME Assumptions, IInv, NEW f \in Calls, ServeRefresh(f), UNCHANGED trouble
  PROVE  IInv'
  <1>1. fetch[f].pc \in {"refreshing", "abandoned"} /\ UNCHANGED page
    BY DEF ServeRefresh
  <1>2. CASE fetch[f].cookie = NoToken /\ fetch' = Reply(f, NoToken) /\ UNCHANGED storeVars
    BY <1>1, <1>2, RefuseStep DEF storeVars
  <1>3. CASE Rotate(fetch[f].cookie, NewToken) /\ fetch' = Reply(f, NewToken)
    BY <1>1, <1>3, RotateStep
  <1>4. CASE CloseAll(fetch[f].cookie) /\ fetch' = Reply(f, NoToken)
    <2>1. live' = {s \in live : owner[s] # owner[fetch[f].cookie]} /\ UNCHANGED owner
      BY <1>4 DEF CloseAll
    <2> QED
      BY <1>1, <1>4, <2>1, RefuseStep
  <1> QED
    BY <1>2, <1>3, <1>4 DEF ServeRefresh

LEMMA AdoptStep ==
  ASSUME Assumptions, IInv, NEW f \in Calls, Adopt(f), UNCHANGED trouble
  PROVE  IInv'
  <1>1. /\ fetch' \in [Calls -> Fetch] /\ fetch'[f] = Idle
        /\ \A g \in Calls \ {f} : fetch'[g] = fetch[g]
    BY IdleType, Turn DEF IInv, Adopt
  <1>2. /\ fetch[f].pc = "answered" /\ fetch[f].reply # NoToken
        /\ UNCHANGED <<owner, live>> /\ jar' = fetch[f].reply /\ access' = "fresh"
        /\ screen' \in {screen, "app"} /\ fetch[f] \in Fetch
    BY DEF Adopt, storeVars, IInv, TypeOK
  <1>3. TypeOK' /\ OnlyIssued'
    BY <1>1, <1>2, IdleType DEF IInv, TypeOK, StoreTypeOK, OnlyIssued, Issued, Fetch
  <1>4. ASSUME trouble \subseteq {"parallel"} PROVE OneSession'
    <2>1. OneSession /\ ReplyIsNew(f) /\ OnlyIssued
      BY <1>4 DEF IInv, OneSession
    <2>2. live \subseteq {jar'}
      BY <1>2, <2>1 DEF ReplyIsNew
    <2>3. SameUser(jar)' /\ \A g \in Calls : fetch'[g].pc = "refreshing" => SameUser(fetch[g].cookie)'
      BY <1>1, <1>2, <2>1, <2>2, IdleType DEF OneSession, SameUser
    <2>4. \A g \in Calls : ReplyIsNew(g)'
      BY <1>1, <1>2, <2>1, IdleType DEF OneSession, ReplyIsNew
    <2> QED
      BY <1>1, <1>2, <2>1, <2>2, <2>3, <2>4, IdleType DEF OneSession
  <1>5. ASSUME trouble = {} PROVE OneCall'
    <2>1. OneCall /\ screen # "gate" /\ \A g \in Calls \ {f} : fetch[g].pc = "idle"
      BY <1>2, <1>5 DEF IInv, OneCall, Quiet
    <2> QED
      BY <1>1, <1>2, <2>1, IdleType DEF OneCall, Quiet
  <1> QED
    BY <1>3, <1>4, <1>5 DEF IInv

LEMMA GiveUpStep ==
  ASSUME Assumptions, IInv, NEW f \in Calls, (Refused(f) /\ UNCHANGED trouble) \/ LoseMessage(f)
  PROVE  IInv'
  <1>1. /\ fetch' \in [Calls -> Fetch] /\ fetch'[f] = Idle
        /\ \A g \in Calls \ {f} : fetch'[g] = fetch[g]
    BY IdleType, Turn DEF IInv, Refused, LoseMessage, GiveUp
  <1>2. /\ UNCHANGED <<owner, live, jar>> /\ access' = "none" /\ screen' = "gate"
        /\ trouble' \subseteq {"parallel", "click", "lost"}
    BY Troubles DEF Refused, LoseMessage, GiveUp, storeVars, IInv, TypeOK
  <1>3. trouble' \subseteq {"parallel"} =>
           trouble' = trouble /\ fetch[f].pc = "answered" /\ fetch[f].reply = NoToken
    BY Troubles DEF Refused, LoseMessage, IInv
  <1>4. TypeOK' /\ OnlyIssued'
    BY <1>1, <1>2, IdleType DEF IInv, TypeOK, StoreTypeOK, OnlyIssued, Issued
  <1>5. ASSUME trouble' \subseteq {"parallel"} PROVE OneSession'
    <2>1. OneSession /\ live = {}
      BY <1>3, <1>5 DEF IInv, OneSession, ReplyIsNew, TypeOK, StoreTypeOK, Assumptions, SpaAssumption
    <2>2. \A g \in Calls : ReplyIsNew(g)'
      BY <1>1, <1>2, <2>1, IdleType DEF OneSession, ReplyIsNew
    <2> QED
      BY <1>1, <1>2, <2>1, <2>2, IdleType DEF OneSession, SameUser
  <1>6. ASSUME trouble' = {} PROVE OneCall'
    <2>1. OneCall /\ \A g \in Calls \ {f} : fetch[g].pc = "idle"
      BY <1>3, <1>6 DEF IInv, OneCall
    <2> QED
      BY <1>1, <1>2, <2>1, IdleType DEF OneCall, Quiet
  <1> QED
    BY <1>4, <1>5, <1>6 DEF IInv

LEMMA DropStep ==
  ASSUME Assumptions, IInv, NEW f \in Calls, DropAbandoned(f), UNCHANGED trouble
  PROVE  IInv'
  <1>1. /\ fetch' \in [Calls -> Fetch] /\ fetch'[f] = Idle
        /\ \A g \in Calls \ {f} : fetch'[g] = fetch[g]
    BY IdleType, Turn DEF IInv, DropAbandoned
  <1>2. /\ UNCHANGED <<owner, live, access, screen>> /\ jar' \in {jar, fetch[f].reply}
        /\ fetch[f].pc = "abandoned" /\ fetch[f] \in Fetch
    BY DEF DropAbandoned, storeVars, IInv, TypeOK
  <1>3. TypeOK' /\ OnlyIssued'
    BY <1>1, <1>2, IdleType DEF IInv, TypeOK, StoreTypeOK, OnlyIssued, Issued, Fetch
  <1>4. ~ (trouble \subseteq {"parallel"})
    BY <1>2 DEF IInv, OneSession
  <1> QED
    BY <1>3, <1>4 DEF IInv

LEMMA LoginStep == ASSUME Assumptions, IInv, Login PROVE IInv'
  <1> DEFINE n == NewToken
  <1>1. PICK u \in Users : Open(u, n)
    BY DEF Login
  <1> HIDE DEF n
  <1>2. /\ n \in AllTokens /\ owner[n] = NoUser /\ n # NoToken /\ NoUser \notin Users
        /\ owner' = [owner EXCEPT ![n] = u] /\ live' = live \cup {n}
    BY <1>1 DEF Open, Fresh, Assumptions, SpaAssumption, StoreAssumption
  <1>3. /\ owner' \in [AllTokens -> Users \cup {NoUser}]
        /\ owner'[n] = u /\ \A t \in AllTokens \ {n} : owner'[t] = owner[t]
    BY <1>2 DEF IInv, TypeOK, StoreTypeOK
  <1>4. Issued \cup {n} \subseteq Issued'
    BY <1>2, <1>3 DEF Issued
  <1>5. /\ screen = "gate" /\ UNCHANGED fetch /\ trouble' \subseteq {"parallel", "click", "lost"}
        /\ trouble \subseteq trouble'
    BY Troubles DEF Login, IInv, Quiet
  <1>6. /\ trouble' \subseteq {"parallel"} => Quiet
        /\ \/ jar' = n /\ access' = "fresh" /\ screen' = "app"
           \/ UNCHANGED page /\ ~ (trouble' \subseteq {"parallel"})
    <2>1. CASE jar' = NewToken /\ access' = "fresh" /\ screen' = "app" /\ Unless(Quiet, "click")
      BY <2>1, Troubles DEF IInv, Quiet, n
    <2>2. CASE Lossy /\ Unless(FALSE, "lost") /\ UNCHANGED page
      BY <2>2, Troubles DEF IInv
    <2> QED
      BY <2>1, <2>2 DEF Login
  <1>7. TypeOK'
    BY <1>2, <1>3, <1>5, <1>6 DEF IInv, TypeOK, StoreTypeOK, MaybeToken, page
  <1>8. OnlyIssued'
    BY <1>4, <1>5, <1>6 DEF IInv, OnlyIssued, page
  <1>9. ASSUME trouble' \subseteq {"parallel"} PROVE OneSession'
    <2>1. OneSession /\ live = {} /\ live' = {n}
      BY <1>2, <1>5, <1>9 DEF IInv, OneSession
    <2>2. jar' = n /\ screen' = "app" /\ \A f \in Calls : fetch[f].pc = "idle"
      BY <1>6, <1>9 DEF Quiet
    <2> QED
      BY <1>2, <1>5, <2>1, <2>2 DEF OneSession, SameUser, ReplyIsNew
  <1>10. ASSUME trouble' = {} PROVE OneCall'
    BY <1>5, <1>6, <1>10 DEF OneCall, Quiet
  <1> QED
    BY <1>7, <1>8, <1>9, <1>10 DEF IInv

LEMMA LogoutStep == ASSUME Assumptions, IInv, Logout PROVE IInv'
  <1>1. /\ screen = "app" /\ access' = "none" /\ screen' = "gate" /\ UNCHANGED <<fetch, owner>>
        /\ \/ live' = live \ {jar} /\ jar' = NoToken
           \/ UNCHANGED <<live, jar>> /\ ~ (trouble' \subseteq {"parallel"})
        /\ trouble' \subseteq {"parallel", "click", "lost"} /\ trouble \subseteq trouble'
        /\ trouble' \subseteq {"parallel"} => Quiet
    <2>1. CASE Close(jar) /\ jar' = NoToken /\ Unless(Quiet, "click")
      BY <2>1, Troubles DEF Logout, Close, IInv, Quiet
    <2>2. CASE Lossy /\ Unless(FALSE, "lost") /\ UNCHANGED <<storeVars, jar>>
      BY <2>2, Troubles DEF Logout, storeVars, IInv
    <2> QED
      BY <2>1, <2>2 DEF Logout
  <1>2. TypeOK' /\ OnlyIssued'
    BY <1>1 DEF IInv, TypeOK, StoreTypeOK, OnlyIssued, Issued, MaybeToken
  <1>3. ASSUME trouble' \subseteq {"parallel"} PROVE OneSession'
    <2>1. OneSession /\ \A f \in Calls : fetch[f].pc = "idle"
      BY <1>1, <1>3 DEF IInv, Quiet
    <2>2. live' = {}
      BY <1>1, <1>3, <2>1 DEF OneSession
    <2> QED
      BY <1>1, <2>1, <2>2 DEF OneSession, SameUser, ReplyIsNew
  <1>4. ASSUME trouble' = {} PROVE OneCall'
    BY <1>1, <1>4 DEF OneCall, Quiet
  <1> QED
    BY <1>2, <1>3, <1>4 DEF IInv

LEMMA ReloadStep == ASSUME Assumptions, IInv, Reload PROVE IInv'
  <1>1. PICK q : q = [Idle EXCEPT !.pc = "refreshing", !.cookie = jar]
    OBVIOUS
  <1>2. q \in Fetch /\ q.pc = "refreshing" /\ q.cookie = jar /\ q.reply = NoToken
    BY <1>1, IdleType DEF Fetch, IInv, TypeOK
  <1>3. ASSUME NEW f \in Calls
        PROVE  /\ Abandon(f) \in Fetch
               /\ Abandon(f).cookie \in {fetch[f].cookie, NoToken}
               /\ Abandon(f).reply \in {fetch[f].reply, NoToken}
               /\ fetch[f].pc = "idle" => Abandon(f).pc = "idle"
    <2>1. PICK a : a = [fetch[f] EXCEPT !.pc = "abandoned"]
      OBVIOUS
    <2>2. fetch[f] \in Fetch
      BY DEF IInv, TypeOK
    <2>3. a \in Fetch /\ a.cookie = fetch[f].cookie /\ a.reply = fetch[f].reply
      BY <2>1, <2>2 DEF Fetch
    <2>4. Abandon(f) \in {a, fetch[f], Idle} /\ (fetch[f].pc = "idle" => Abandon(f) = Idle)
      BY <2>1 DEF Abandon
    <2> QED
      BY <2>2, <2>3, <2>4, IdleType
  <1>4. /\ fetch' \in [Calls -> Fetch] /\ fetch'[Boot] = q
        /\ \A g \in Calls \ {Boot} : fetch'[g] = Abandon(g)
    <2>1. PICK h \in [Calls -> Fetch] : h = [g \in Calls |-> Abandon(g)]
      BY <1>3
    <2>2. fetch' = [h EXCEPT ![Boot] = q] /\ Boot \in Calls
      BY <1>1, <2>1 DEF Reload, Calls
    <2> QED
      BY <1>2, <2>1, <2>2
  <1>5. /\ UNCHANGED <<owner, live, jar>> /\ access' = "none" /\ screen' = "blank"
        /\ trouble' \subseteq {"parallel", "click", "lost"} /\ trouble \subseteq trouble'
        /\ trouble' \subseteq {"parallel"} => Quiet
    BY Troubles DEF Reload, storeVars, IInv, Quiet
  <1>6. TypeOK'
    BY <1>4, <1>5 DEF IInv, TypeOK, StoreTypeOK
  <1>7. OnlyIssued'
    <2>1. NoToken \in Issued /\ Issued' = Issued /\ jar \in Issued
      BY <1>5 DEF IInv, OnlyIssued, Issued
    <2>2. ASSUME NEW f \in Calls PROVE fetch'[f].cookie \in Issued /\ fetch'[f].reply \in Issued
      <3>1. CASE f = Boot
        BY <1>2, <1>4, <2>1, <3>1
      <3>2. CASE f # Boot
        BY <1>3, <1>4, <2>1, <3>2 DEF IInv, OnlyIssued
      <3> QED
        BY <3>1, <3>2
    <2> QED
      BY <1>5, <2>1, <2>2 DEF OnlyIssued
  <1>8. ASSUME trouble' \subseteq {"parallel"}
        PROVE  OneSession' /\ live \subseteq {jar} /\ \A g \in Calls \ {Boot} : fetch'[g].pc = "idle"
    <2>1. OneSession /\ \A f \in Calls : fetch[f].pc = "idle"
      BY <1>5, <1>8 DEF IInv, Quiet
    <2>2. live \subseteq {jar}
      BY <2>1 DEF OneSession
    <2>3. \A g \in Calls \ {Boot} : fetch'[g].pc = "idle"
      BY <1>3, <1>4, <2>1
    <2>4. OneSession'
      BY <1>2, <1>4, <1>5, <2>1, <2>2, <2>3 DEF OneSession, SameUser, ReplyIsNew
    <2> QED
      BY <2>2, <2>3, <2>4
  <1>9. ASSUME trouble' = {} PROVE OneCall'
    BY <1>2, <1>4, <1>5, <1>8, <1>9 DEF OneCall
  <1> QED
    BY <1>6, <1>7, <1>8, <1>9 DEF IInv

LEMMA ExpiryStep ==
  ASSUME Assumptions, IInv, AccessExpires, UNCHANGED trouble
  PROVE  IInv'
  <1>1. UNCHANGED <<owner, live, jar, screen, fetch, trouble>> /\ access = "fresh" /\ access' = "stale"
    BY DEF AccessExpires, storeVars
  <1>2. TypeOK' /\ OnlyIssued'
    BY <1>1 DEF IInv, TypeOK, StoreTypeOK, OnlyIssued, Issued
  <1>3. OneSession => OneSession'
    BY <1>1 DEF OneSession, SameUser, ReplyIsNew
  <1>4. OneCall => OneCall'
    BY <1>1 DEF OneCall, Quiet
  <1> QED
    BY <1>1, <1>2, <1>3, <1>4 DEF IInv

LEMMA NextIInv == ASSUME Assumptions, IInv, [Next]_vars PROVE IInv'
  <1>1. CASE Next
    <2>1. ASSUME NEW f \in Calls, Call(f) \/ LoseMessage(f) PROVE IInv'
      BY <2>1, CallStep, GiveUpStep
    <2>2. ASSUME UNCHANGED trouble, NEW f \in Calls, Network(f) PROVE IInv'
      BY <2>2, TryRefreshStep, ServeStep, AdoptStep, GiveUpStep, DropStep DEF Network
    <2> QED
      BY <1>1, <2>1, <2>2, LoginStep, LogoutStep, ReloadStep, ExpiryStep DEF Next
  <1>2. CASE UNCHANGED vars
    <2>1. UNCHANGED <<owner, live, jar, access, screen, fetch, trouble>>
      BY <1>2 DEF vars, system
    <2>2. TypeOK' /\ OnlyIssued'
      BY <2>1 DEF IInv, TypeOK, StoreTypeOK, OnlyIssued, Issued
    <2>3. OneSession => OneSession'
      BY <2>1 DEF OneSession, SameUser, ReplyIsNew
    <2>4. OneCall => OneCall'
      BY <2>1 DEF OneCall, Quiet
    <2> QED
      BY <2>1, <2>2, <2>3, <2>4 DEF IInv
  <1> QED
    BY <1>1, <1>2

-----------------------------------------------------------------------------
(* The theorems.                                                           *)

\* What the page and the server know of each other, while calls refresh at will.
THEOREM SessionInvariance ==
  ASSUME Assumptions
  PROVE  Spec => []IInv
  BY InitIInv, NextIInv, PTL DEF Spec

\* tryRefresh, uncoordinated: however many calls refresh at the same time, the server
\* keeps one session at most, and one that the browser holds or is about to receive.
THEOREM NothingLeaks ==
  ASSUME Assumptions
  PROVE  Spec => []NoLeakedSession
  <1>1. IInv => NoLeakedSession
    <2> SUFFICES ASSUME IInv, trouble \subseteq {"parallel"}
                 PROVE  /\ live \subseteq {jar} \cup {fetch[f].reply : f \in Calls}
                        /\ Cardinality(live) <= 1
      BY DEF NoLeakedSession
    <2>1. OneSession
      BY DEF IInv
    <2>2. CASE live = {}
      BY <2>2, FS_EmptySet
    <2>3. CASE live # {}
      <3>1. PICK s : s \in live
        BY <2>3
      <3>2. live = {s} /\ Cardinality({s}) = 1
        BY <2>1, <3>1, FS_Singleton, ZenonT(60) DEF OneSession
      <3> QED
        BY <2>1, <3>2 DEF OneSession
    <2> QED
      BY <2>2, <2>3
  <1> QED
    BY <1>1, SessionInvariance, PTL

\* boot and apiFetch: while one call runs at a time, the login gate is shown to nobody
\* whose session is alive; and the variables have their types.
THEOREM GateIsHonest ==
  ASSUME Assumptions
  PROVE  Spec => [](TypeOK /\ GateMeansSignedOut)
  <1>1. IInv => TypeOK /\ GateMeansSignedOut
    BY DEF IInv, OneSession, OneCall, GateMeansSignedOut
  <1> QED
    BY <1>1, SessionInvariance, PTL

\* handleLogout: no call that refreshed meanwhile leaves a session behind.
THEOREM LogoutEndsAll ==
  ASSUME Assumptions
  PROVE  Spec => LogoutSignsOut
  <1> DEFINE SignsOut ==
        trouble' \subseteq {"parallel"} /\ screen = "app" /\ screen' = "gate" /\ jar # NoToken /\ jar' = NoToken
          => live' = {}
  <1>1. ASSUME IInv', TypeOK, Next PROVE SignsOut
    BY <1>1 DEF IInv, OneSession
  <1>2. IInv /\ IInv' /\ [Next]_vars => [SignsOut]_vars
    BY <1>1 DEF IInv
  <1> QED
    BY <1>2, SessionInvariance, PTL DEF Spec, LogoutSignsOut

\* And while one call runs at a time nothing but a logout ends a session: the refreshes
\* the page sends on its own present the token that is live.
THEOREM OnlyLogoutEnds ==
  ASSUME Assumptions
  PROVE  Spec => SessionEndsOnlyByLogout
  <1> DEFINE Ends ==
        trouble' = {} /\ live # {} /\ live' = {}
          => screen = "app" /\ screen' = "gate" /\ jar' = NoToken
  <1>1. ASSUME IInv, Next, trouble' = {}, live # {}, live' = {}
        PROVE  screen = "app" /\ screen' = "gate" /\ jar' = NoToken
    <2>1. CASE Login
      BY <1>1, <2>1 DEF Login, Open
    <2>2. CASE Logout
      BY <1>1, <2>2, Troubles DEF Logout, storeVars, IInv
    <2>3. ASSUME NEW f \in Calls, ServeRefresh(f), UNCHANGED trouble PROVE FALSE
      <3>1. OneCall /\ OneSession
        BY <1>1, <2>3 DEF IInv
      <3>2. fetch[f].pc = "refreshing" /\ live \subseteq {fetch[f].cookie}
        BY <2>3, <3>1 DEF ServeRefresh, OneSession, OneCall
      <3> QED
        BY <1>1, <2>3, <3>2 DEF ServeRefresh, Rotate, CloseAll, storeVars
    <2>4. ASSUME NEW f \in Calls,
                 Call(f) \/ LoseMessage(f) \/ TryRefresh(f) \/ Adopt(f) \/ Refused(f) \/ DropAbandoned(f)
          PROVE  FALSE
      BY <1>1, <2>4 DEF Call, LoseMessage, TryRefresh, Adopt, Refused, DropAbandoned, GiveUp, storeVars
    <2>5. CASE Reload \/ AccessExpires
      BY <1>1, <2>5 DEF Reload, AccessExpires, storeVars
    <2> QED
      BY <1>1, <2>1, <2>2, <2>3, <2>4, <2>5 DEF Next, Network
  <1>2. IInv /\ [Next]_vars => [Ends]_vars
    BY <1>1
  <1> QED
    BY <1>2, SessionInvariance, PTL DEF Spec, SessionEndsOnlyByLogout

-----------------------------------------------------------------------------
(* The diagnosis form.                                                     *)

TabOpen(c) == tabCall[c].pc # "idle"

\* Only the call that holds the ticket may write to the page.
TabOneTicket == \A c \in TabCalls : TabOpen(c) /\ tabCall[c].kind = "diagnose" /\ inflight # c => tabCall[c].aborted

\* As long as the page has done one thing after another: the one call that is open is for
\* the form as it is, unless the timer runs; the server has what it has answered; and
\* when nothing is open the status bar is right.
TabOneAtATime ==
    /\ \A c, d \in TabCalls : TabOpen(c) /\ TabOpen(d) => c = d
    /\ \A c \in TabCalls : TabOpen(c) =>
          /\ ~tabCall[c].aborted
          /\ tabCall[c].kind = "diagnose" => tabCall[c].input = form \/ timer
          /\ tabCall[c].pc = "answered" => saved = tabCall[c].input
    /\ (\A c \in TabCalls : ~TabOpen(c)) =>
          /\ status = "synced" => latest = form \/ timer
          /\ status \in {"synced", "restored"} => saved = latest

TabIInv == Tab!TypeOK /\ TabOneTicket /\ (~tabOverlapped => TabOneAtATime)

-----------------------------------------------------------------------------
LEMMA TabIdleCalls ==
  ASSUME Tab!DiagnoseTabAssumption
  PROVE  /\ Tab!Idle \in Tab!Call /\ Tab!Idle.pc = "idle" /\ Tab!Idle.aborted = FALSE
         /\ Tab!Hydrating \in Tab!Call /\ Tab!Hydrating.pc = "sent" /\ Tab!Hydrating.kind = "hydrate"
         /\ Tab!Hydrating.aborted = FALSE
         /\ \A f \in Forms : LET q == [Tab!Idle EXCEPT !.pc = "sent", !.input = f]
                             IN  /\ q \in Tab!Call /\ q.pc = "sent" /\ q.kind = "diagnose"
                                 /\ q.input = f /\ q.aborted = FALSE
  BY DEF Tab!Idle, Tab!Hydrating, Tab!Call, Tab!MaybeForm

LEMMA TabInitIInv == ASSUME Tab!DiagnoseTabAssumption, Tab!Init PROVE TabIInv
  <1>1. PICK c \in TabCalls : tabCall = [x \in TabCalls |-> IF x = c THEN Tab!Hydrating ELSE Tab!Idle]
    BY DEF Tab!Init
  <1>2. Tab!TypeOK
    <2>1. tabCall \in [TabCalls -> Tab!Call]
      BY <1>1, TabIdleCalls
    <2>2. inflight = None /\ edits \in 0 .. MaxEdits
      BY DEF Tab!Init, Tab!DiagnoseTabAssumption
    <2> QED
      BY <2>1, <2>2 DEF Tab!Init, Tab!TypeOK, Tab!MaybeForm
  <1>3. TabOneTicket /\ TabOneAtATime
    BY <1>1, TabIdleCalls DEF Tab!Init, TabOneTicket, TabOneAtATime, TabOpen
  <1> QED
    BY <1>2, <1>3 DEF TabIInv

-----------------------------------------------------------------------------
(* What the helpers do to the calls.                                       *)

\* A call that is closed gives its ticket back; nothing else changes.
LEMMA TabCloseCall ==
  ASSUME Tab!DiagnoseTabAssumption, Tab!TypeOK, TabOneTicket, NEW c \in TabCalls, Tab!Close(c)
  PROVE  /\ tabCall' \in [TabCalls -> Tab!Call] /\ inflight' \in TabCalls \cup {None}
         /\ tabCall'[c].pc = "idle" /\ \A d \in TabCalls \ {c} : tabCall'[d] = tabCall[d]
         /\ inflight' # None => inflight' = inflight /\ inflight # c
         /\ inflight' = None => inflight \in {None, c}
         /\ TabOneTicket'
  <1>1. tabCall'[c] = Tab!Idle /\ \A d \in TabCalls \ {c} : tabCall'[d] = tabCall[d]
    BY DEF Tab!Close, Tab!TypeOK
  <1> QED
    BY <1>1, TabIdleCalls, ZenonT(60) DEF Tab!Close, Tab!TypeOK, TabOneTicket, TabOpen, Tab!DiagnoseTabAssumption

\* A diagnosis is sent from a slot that holds no ticket: every other one is told to drop
\* its response.
LEMMA TabTriggerCall ==
  ASSUME Tab!DiagnoseTabAssumption, Tab!TypeOK, TabOneTicket, NEW c \in TabCalls, Tab!TriggerDiagnose(c),
         inflight # c
  PROVE  /\ tabCall' \in [TabCalls -> Tab!Call] /\ inflight' \in TabCalls \cup {None}
         /\ inflight' # None => tabCall'[inflight'].pc # "idle" /\ tabCall'[inflight'].kind = "diagnose"
         /\ status' \in {"held", "loading"}
         /\ \A d \in TabCalls \ {c} :
               /\ tabCall'[d].pc = tabCall[d].pc /\ tabCall'[d].kind = tabCall[d].kind
               /\ tabCall'[d].input = tabCall[d].input
         /\ TabOpen(c)' => /\ tabCall'[c].input = form /\ tabCall'[c].kind = "diagnose"
                        /\ tabCall'[c].pc = "sent" /\ ~tabCall'[c].aborted
         /\ ~TabOpen(c)' => status' = "held" /\ \A d \in TabCalls \ {c} : tabCall'[d] = tabCall[d]
         /\ TabOneTicket'
  <1>1. CASE form = Empty
    <2>1. tabCall' = [tabCall EXCEPT ![c] = Tab!Idle] /\ inflight' = inflight /\ status' = "held"
      BY <1>1 DEF Tab!TriggerDiagnose
    <2>2. tabCall'[c] = Tab!Idle /\ \A d \in TabCalls \ {c} : tabCall'[d] = tabCall[d]
      BY <2>1 DEF Tab!TypeOK
    <2> QED
      BY <2>1, <2>2, TabIdleCalls DEF Tab!TypeOK, TabOneTicket, TabOpen
  <1>2. CASE form # Empty
    <2> DEFINE q == [Tab!Idle EXCEPT !.pc = "sent", !.input = form]
    <2>1. q \in Tab!Call /\ q.pc = "sent" /\ q.kind = "diagnose" /\ q.input = form /\ q.aborted = FALSE
      BY <1>2, TabIdleCalls DEF Tab!TypeOK
    <2>2. tabCall' = [Tab!Abort(tabCall) EXCEPT ![c] = q] /\ inflight' = c /\ status' = "loading"
      BY <1>2 DEF Tab!TriggerDiagnose
    <2>3. Tab!Abort(tabCall) \in [TabCalls -> Tab!Call]
      BY DEF Tab!Abort, Tab!TypeOK, Tab!Call
    <2>4. \A d \in TabCalls :
             /\ Tab!Abort(tabCall)[d].pc = tabCall[d].pc /\ Tab!Abort(tabCall)[d].kind = tabCall[d].kind
             /\ Tab!Abort(tabCall)[d].input = tabCall[d].input
             /\ tabCall[d].aborted => Tab!Abort(tabCall)[d].aborted
             /\ inflight = d => Tab!Abort(tabCall)[d].aborted
      BY DEF Tab!Abort, Tab!TypeOK, Tab!Call, Tab!DiagnoseTabAssumption
    <2>5. tabCall'[c] = q /\ \A d \in TabCalls \ {c} : tabCall'[d] = Tab!Abort(tabCall)[d]
      BY <2>2, <2>3
    <2>6. tabCall' \in [TabCalls -> Tab!Call]
      BY <2>1, <2>2, <2>3
    <2> HIDE DEF q
    <2>7. TabOneTicket'
      BY <2>2, <2>4, <2>5 DEF TabOneTicket, TabOpen
    <2> QED
      BY <2>1, <2>2, <2>4, <2>5, <2>6, <2>7 DEF TabOpen
  <1> QED
    BY <1>1, <1>2

-----------------------------------------------------------------------------
(* One lemma for each action.                                              *)

LEMMA TabEditStep ==
  ASSUME Tab!DiagnoseTabAssumption, TabIInv, Tab!Edit, tabOverlapped' = (tabOverlapped \/ Tab!Overlap')
  PROVE  TabIInv'
  <1>1. Tab!TypeOK' /\ TabOneTicket'
    BY DEF Tab!DiagnoseTabAssumption, TabIInv, Tab!Edit, Tab!TypeOK, TabOneTicket, TabOpen
  <1>2. ~tabOverlapped' => TabOneAtATime'
    BY DEF TabIInv, Tab!Edit, TabOneAtATime, TabOpen
  <1> QED
    BY <1>1, <1>2 DEF TabIInv

LEMMA TabTriggerStep ==
  ASSUME Tab!DiagnoseTabAssumption, TabIInv, NEW c \in TabCalls, Tab!TriggerDiagnose(c), inflight # c,
         UNCHANGED <<form, latest, saved, edits>>, timer' \in BOOLEAN,
         tabOverlapped' = (tabOverlapped \/ Tab!Overlap')
  PROVE  TabIInv'
  <1>1. Tab!TypeOK' /\ TabOneTicket'
    BY TabTriggerCall DEF TabIInv, Tab!TypeOK
  <1>2. ASSUME ~tabOverlapped' PROVE TabOneAtATime'
    <2>1. ~tabOverlapped /\ ~Tab!Overlap' /\ Tab!TypeOK /\ TabOneTicket
      BY <1>2 DEF TabIInv
    <2>2. CASE TabOpen(c)'
      <3>1. \A d \in TabCalls \ {c} : ~TabOpen(d)'
        BY <2>1, <2>2 DEF Tab!Overlap, TabOpen
      <3> QED
        BY <2>1, <2>2, <3>1, TabTriggerCall DEF TabOneAtATime, TabOpen
    <2>3. CASE ~TabOpen(c)'
      <3>1. status' = "held"
        BY <2>1, <2>3, TabTriggerCall
      <3>2. \A d \in TabCalls : ~TabOpen(d)'
        BY <2>1, <2>3, <3>1 DEF Tab!Overlap, TabOpen
      <3> QED
        BY <3>1, <3>2 DEF TabOneAtATime
    <2> QED
      BY <2>2, <2>3
  <1> QED
    BY <1>1, <1>2 DEF TabIInv

LEMMA TabTimerStep ==
  ASSUME Tab!DiagnoseTabAssumption, TabIInv, NEW c \in TabCalls, Tab!TimerFires(c),
         tabOverlapped' = (tabOverlapped \/ Tab!Overlap')
  PROVE  TabIInv'
  <1>1. inflight # c
    BY DEF TabIInv, Tab!TypeOK, Tab!TimerFires, Tab!DiagnoseTabAssumption
  <1> QED
    BY <1>1, TabTriggerStep DEF Tab!TimerFires

LEMMA TabEnterStep ==
  ASSUME Tab!DiagnoseTabAssumption, TabIInv, NEW c \in TabCalls, Tab!EnterApp(c),
         tabOverlapped' = (tabOverlapped \/ Tab!Overlap')
  PROVE  TabIInv'
  <1>1. CASE tabCall' = [tabCall EXCEPT ![c] = Tab!Hydrating] /\ status' = "ready"
    <2>1. /\ tabCall'[c] = Tab!Hydrating /\ \A d \in TabCalls \ {c} : tabCall'[d] = tabCall[d]
          /\ tabCall' \in [TabCalls -> Tab!Call]
      BY <1>1, TabIdleCalls DEF TabIInv, Tab!TypeOK
    <2>2. Tab!TypeOK'
      <3>1. /\ edits' \in 0 .. MaxEdits /\ inflight' = inflight
            /\ inflight # None => inflight \in TabCalls \ {c}
        BY DEF Tab!DiagnoseTabAssumption, TabIInv, Tab!EnterApp, Tab!TypeOK
      <3> QED
        BY <1>1, <2>1, <3>1 DEF TabIInv, Tab!EnterApp, Tab!TypeOK
    <2>3. TabOneTicket'
      <3>1. tabCall'[c].kind # "diagnose"
        BY <2>1, TabIdleCalls
      <3> QED
        BY <2>1, <3>1 DEF TabIInv, Tab!EnterApp, TabOneTicket, TabOpen
    <2>4. ASSUME ~tabOverlapped' PROVE TabOneAtATime'
      <3>1. /\ TabOpen(c)' /\ ~tabCall'[c].aborted /\ tabCall'[c].kind = "hydrate"
            /\ tabCall'[c].pc = "sent"
        BY <2>1, TabIdleCalls DEF TabOpen
      <3>2. \A d \in TabCalls \ {c} : ~TabOpen(d)'
        BY <2>4, <3>1 DEF Tab!Overlap, TabOpen
      <3> QED
        BY <3>1, <3>2 DEF TabOneAtATime
    <2> QED
      BY <2>2, <2>3, <2>4 DEF TabIInv
  <1>2. CASE UNCHANGED tabCall /\ status' = "failed"
    <2>1. Tab!TypeOK' /\ TabOneTicket'
      BY <1>2 DEF Tab!DiagnoseTabAssumption, TabIInv, Tab!EnterApp, Tab!TypeOK, TabOneTicket, TabOpen
    <2>2. ~tabOverlapped' => TabOneAtATime'
      BY <1>2 DEF TabIInv, Tab!EnterApp, TabOneAtATime, TabOpen
    <2> QED
      BY <2>1, <2>2 DEF TabIInv
  <1> QED
    BY <1>1, <1>2 DEF Tab!EnterApp

LEMMA TabServeStep ==
  ASSUME Tab!DiagnoseTabAssumption, TabIInv, NEW c \in TabCalls, Tab!Serve(c),
         tabOverlapped' = (tabOverlapped \/ Tab!Overlap')
  PROVE  TabIInv'
  <1>1. Tab!TypeOK /\ tabCall[c] \in Tab!Call /\ tabCall[c].pc = "sent"
    BY DEF TabIInv, Tab!TypeOK, Tab!Serve
  <1>2. /\ tabCall'[c] \in Tab!Call
        /\ tabCall'[c].pc = "answered" /\ tabCall'[c].kind = tabCall[c].kind
        /\ tabCall'[c].aborted = tabCall[c].aborted
        /\ saved' = tabCall'[c].input /\ saved' \in Tab!MaybeForm
        /\ tabCall[c].kind = "diagnose" => tabCall'[c].input = tabCall[c].input
    <2>1. CASE tabCall[c].kind = "diagnose"
      <3>1. tabCall'[c] = [tabCall[c] EXCEPT !.pc = "answered"] /\ saved' = tabCall[c].input
        BY <1>1, <2>1 DEF Tab!Serve, Tab!TypeOK
      <3> QED
        BY <1>1, <2>1, <3>1 DEF Tab!Call
    <2>2. CASE tabCall[c].kind # "diagnose"
      <3>1. /\ tabCall'[c] = [tabCall[c] EXCEPT !.pc = "answered", !.input = saved]
            /\ saved' = saved /\ saved \in Tab!MaybeForm
        BY <1>1, <2>2 DEF Tab!Serve, Tab!TypeOK
      <3> QED
        BY <1>1, <2>2, <3>1 DEF Tab!Call
    <2> QED
      BY <2>1, <2>2
  <1>3. \A d \in TabCalls \ {c} : tabCall'[d] = tabCall[d]
    BY <1>1 DEF Tab!Serve, Tab!TypeOK
  <1>4. tabCall' \in [TabCalls -> Tab!Call]
    <2>1. tabCall' = [d \in TabCalls |-> tabCall'[d]]
      BY <1>1 DEF Tab!Serve, Tab!TypeOK
    <2>2. \A d \in TabCalls : tabCall'[d] \in Tab!Call
      BY <1>1, <1>2, <1>3 DEF Tab!TypeOK
    <2> QED
      BY <2>1, <2>2
  <1>5. Tab!TypeOK'
    BY <1>1, <1>2, <1>3, <1>4 DEF Tab!Serve, Tab!TypeOK
  <1>6. TabOneTicket'
    BY <1>1, <1>2, <1>3 DEF TabIInv, Tab!Serve, TabOneTicket, TabOpen
  <1>7. ~tabOverlapped' => TabOneAtATime'
    BY <1>1, <1>2, <1>3, ZenonT(60) DEF TabIInv, Tab!Serve, TabOneAtATime, TabOpen
  <1> QED
    BY <1>5, <1>6, <1>7 DEF TabIInv

LEMMA TabDeliverStep ==
  ASSUME Tab!DiagnoseTabAssumption, TabIInv, NEW c \in TabCalls, Tab!DeliverDiagnosis(c),
         tabOverlapped' = (tabOverlapped \/ Tab!Overlap')
  PROVE  TabIInv'
  <1>1. Tab!TypeOK /\ TabOneTicket /\ tabCall[c] \in Tab!Call /\ TabOpen(c)
    BY DEF TabIInv, Tab!TypeOK, Tab!DeliverDiagnosis, TabOpen
  <1>2. latest' \in Tab!MaybeForm /\ status' \in {status, "synced"}
    BY <1>1 DEF Tab!DeliverDiagnosis, Tab!TypeOK, Tab!Call
  <1>3. Tab!TypeOK' /\ TabOneTicket'
    BY <1>1, <1>2, TabCloseCall DEF Tab!DeliverDiagnosis, Tab!TypeOK
  <1>4. ASSUME ~tabOverlapped' PROVE TabOneAtATime'
    <2>1. TabOneAtATime
      BY <1>4 DEF TabIInv
    <2>2. \A d \in TabCalls : ~TabOpen(d)'
      BY <1>1, <2>1, TabCloseCall DEF Tab!DeliverDiagnosis, TabOneAtATime, TabOpen
    <2>3. latest' = tabCall[c].input /\ status' = "synced" /\ saved' = tabCall[c].input
             /\ (tabCall[c].input = form' \/ timer')
      BY <1>1, <2>1 DEF Tab!DeliverDiagnosis, TabOneAtATime, TabOpen
    <2> QED
      BY <2>2, <2>3 DEF TabOneAtATime
  <1> QED
    BY <1>3, <1>4 DEF TabIInv

LEMMA TabSavedStep ==
  ASSUME Tab!DiagnoseTabAssumption, TabIInv, NEW c \in TabCalls, Tab!DeliverSaved(c),
         tabOverlapped' = (tabOverlapped \/ Tab!Overlap')
  PROVE  TabIInv'
  <1>1. Tab!TypeOK /\ TabOneTicket /\ tabCall[c] \in Tab!Call /\ TabOpen(c) /\ inflight # c
    BY DEF TabIInv, Tab!TypeOK, Tab!DeliverSaved, TabOpen, Tab!DiagnoseTabAssumption
  <1>2. CASE tabCall[c].input = None
    BY <1>1, <1>2, TabTriggerStep DEF Tab!DeliverSaved, Tab!TypeOK
  <1>3. CASE tabCall[c].input # None
    <2>1. latest' = tabCall[c].input /\ status' = "restored" /\ latest' \in Tab!MaybeForm
      BY <1>1, <1>3 DEF Tab!DeliverSaved, Tab!Call
    <2>2. Tab!Close(c)
      BY <1>3 DEF Tab!DeliverSaved
    <2>3. Tab!TypeOK' /\ TabOneTicket'
      BY <1>1, <2>1, <2>2, TabCloseCall DEF Tab!DeliverSaved, Tab!TypeOK
    <2>4. ASSUME ~tabOverlapped' PROVE TabOneAtATime'
      <3>1. TabOneAtATime
        BY <2>4 DEF TabIInv
      <3>2. \A d \in TabCalls : ~TabOpen(d)'
        BY <1>1, <2>2, <3>1, TabCloseCall DEF TabOneAtATime, TabOpen
      <3>3. saved' = latest'
        BY <1>1, <2>1, <3>1 DEF Tab!DeliverSaved, TabOneAtATime
      <3> QED
        BY <2>1, <3>2, <3>3 DEF TabOneAtATime
    <2> QED
      BY <2>3, <2>4 DEF TabIInv
  <1> QED
    BY <1>2, <1>3

LEMMA TabFailStep ==
  ASSUME Tab!DiagnoseTabAssumption, TabIInv, NEW c \in TabCalls, Tab!Fail(c),
         tabOverlapped' = (tabOverlapped \/ Tab!Overlap')
  PROVE  TabIInv'
  <1>1. Tab!TypeOK /\ TabOneTicket /\ TabOpen(c)
    BY DEF TabIInv, Tab!Fail, TabOpen
  <1>2. CASE tabCall[c].kind = "diagnose"
    <2>1. status' = "failed" /\ Tab!Close(c)
      BY <1>2 DEF Tab!Fail
    <2>2. Tab!TypeOK' /\ TabOneTicket'
      BY <1>1, <2>1, TabCloseCall DEF Tab!Fail, Tab!TypeOK
    <2>3. ASSUME ~tabOverlapped' PROVE TabOneAtATime'
      <3>1. TabOneAtATime
        BY <2>3 DEF TabIInv
      <3>2. \A d \in TabCalls : ~TabOpen(d)'
        BY <1>1, <2>1, <3>1, TabCloseCall DEF TabOneAtATime, TabOpen
      <3> QED
        BY <2>1, <3>2 DEF TabOneAtATime
    <2> QED
      BY <2>2, <2>3 DEF TabIInv
  <1>3. CASE tabCall[c].kind # "diagnose"
    <2>1. inflight # c
      BY <1>1, <1>3 DEF Tab!TypeOK, Tab!DiagnoseTabAssumption
    <2> QED
      BY <1>1, <1>3, <2>1, TabTriggerStep DEF Tab!Fail, Tab!TypeOK
  <1> QED
    BY <1>2, <1>3

LEMMA TabNextIInv == ASSUME Tab!DiagnoseTabAssumption, TabIInv, [Tab!Next]_(Tab!vars) PROVE TabIInv'
  <1>1. CASE Tab!Next
    BY <1>1, TabEditStep, TabTimerStep, TabEnterStep, TabServeStep, TabDeliverStep, TabSavedStep, TabFailStep
       DEF Tab!Next, Tab!Step, Tab!Network
  <1>2. CASE UNCHANGED Tab!vars
    BY <1>2 DEF Tab!vars, Tab!page, TabIInv, Tab!TypeOK, TabOneTicket, TabOneAtATime, TabOpen
  <1> QED
    BY <1>1, <1>2

\* A response that arrives while a later diagnosis is open was told to be dropped.
LEMMA OlderIsNotShown ==
  ASSUME TabIInv, [Tab!Next]_(Tab!vars)
  PROVE  [Tab!OlderIsDropped]_(Tab!vars)
  <1>1. ASSUME TabIInv, Tab!Next, NEW c \in TabCalls, NEW d \in TabCalls,
               tabCall[c].kind = "diagnose", tabCall[c].pc = "answered", tabCall'[c].pc = "idle",
               d # c, inflight = d
        PROVE  latest' = latest
    <2>1. tabCall[c].aborted /\ tabCall \in [TabCalls -> Tab!Call]
      BY <1>1 DEF TabIInv, Tab!TypeOK, TabOneTicket, TabOpen
    <2>2. CASE Tab!Edit
      BY <2>2 DEF Tab!Edit
    <2>3. ASSUME NEW x \in TabCalls, Tab!TimerFires(x) \/ Tab!EnterApp(x) \/ Tab!Serve(x) \/ Tab!Fail(x)
          PROVE  latest' = latest
      BY <2>3 DEF Tab!TimerFires, Tab!EnterApp, Tab!Serve, Tab!Fail
    <2>4. ASSUME NEW x \in TabCalls, Tab!DeliverDiagnosis(x) PROVE latest' = latest
      <3>1. x = c
        BY <1>1, <2>1, <2>4 DEF Tab!DeliverDiagnosis, Tab!Close
      <3> QED
        BY <2>1, <2>4, <3>1 DEF Tab!DeliverDiagnosis
    <2>5. ASSUME NEW x \in TabCalls, Tab!DeliverSaved(x) PROVE latest' = latest
      <3> SUFFICES ASSUME tabCall[x].input # None PROVE FALSE
        BY <2>5 DEF Tab!DeliverSaved
      <3>1. x # c /\ tabCall' = [tabCall EXCEPT ![x] = Tab!Idle]
        BY <1>1, <2>5 DEF Tab!DeliverSaved, Tab!Close
      <3> QED
        BY <1>1, <2>1, <3>1
    <2> QED
      BY <1>1, <2>2, <2>3, <2>4, <2>5 DEF Tab!Next, Tab!Step, Tab!Network
  <1> QED
    BY <1>1 DEF Tab!OlderIsDropped

LEMMA StatusIsRight == TabIInv => Tab!StatusIsTrue
  BY DEF TabIInv, TabOneAtATime, TabOpen, Tab!Quiet, Tab!StatusIsTrue

-----------------------------------------------------------------------------
(* The problem page.                                                       *)

\* A request that is open knows what it was made for.
PageCallFits(c) ==
    /\ pageCall[c].pc # "idle" => pageCall[c].problem \in Problems
    /\ pageCall[c].pc # "idle" /\ pageCall[c].kind = "attempt" => pageCall[c].choice \in Options
    /\ pageCall[c].attached => pageCall[c].pc # "idle"
    /\ pageCall[c].granted => pageCall[c].pc = "answered" /\ pageCall[c].problem \in attempted

\* While one request is open at a time, it is about the selected problem.
PageOneRequest ==
    /\ \A c, d \in PageCalls : pageCall[c].pc # "idle" /\ pageCall[d].pc # "idle" => c = d
    /\ \A c \in PageCalls : pageCall[c].pc # "idle" => pageCall[c].problem = selected

PageIInv ==
    /\ Problem!PageOfSelected
    /\ \A c \in PageCalls : PageCallFits(c)
    /\ ~pageOverlapped => PageOneRequest /\ Problem!PanelOfSelected

-----------------------------------------------------------------------------
\* The records of calls.
LEMMA PageIdleType ==
  /\ Problem!Idle \in Problem!Call /\ Problem!Idle.pc = "idle" /\ ~Problem!Idle.attached /\ ~Problem!Idle.granted
  BY DEF Problem!Idle, Problem!Call, Problem!MaybeProblem

LEMMA PageAskingType ==
  ASSUME NEW kind \in {"detail", "attempt", "explain"}, NEW p \in Problems
  PROVE  LET q == Problem!Asking(kind, p)
         IN  /\ q \in Problem!Call /\ q.pc = "sent" /\ q.kind = kind /\ q.problem = p
             /\ ~q.attached /\ ~q.granted
  BY PageIdleType DEF Problem!Asking, Problem!Call, Problem!MaybeProblem

LEMMA PageDetached ==
  ASSUME Problem!TypeOK
  PROVE  /\ Problem!Detach(pageCall) \in [PageCalls -> Problem!Call]
         /\ \A c \in PageCalls : /\ Problem!Detach(pageCall)[c].pc = pageCall[c].pc
                             /\ Problem!Detach(pageCall)[c].kind = pageCall[c].kind
                             /\ Problem!Detach(pageCall)[c].problem = pageCall[c].problem
                             /\ Problem!Detach(pageCall)[c].choice = pageCall[c].choice
                             /\ Problem!Detach(pageCall)[c].granted = pageCall[c].granted
                             /\ ~Problem!Detach(pageCall)[c].attached
  <1>1. ASSUME NEW c \in PageCalls
        PROVE  LET q == [pageCall[c] EXCEPT !.attached = FALSE]
               IN  /\ q \in Problem!Call /\ q.pc = pageCall[c].pc /\ q.kind = pageCall[c].kind
                   /\ q.problem = pageCall[c].problem /\ q.choice = pageCall[c].choice
                   /\ q.granted = pageCall[c].granted /\ ~q.attached
    BY DEF Problem!TypeOK, Problem!Call
  <1> QED
    BY <1>1 DEF Problem!Detach

LEMMA PageInitIInv ==
  ASSUME Problem!PracticeViewAssumption, Problem!Init
  PROVE  PageIInv
  <1>1. PICK c \in PageCalls : pageCall = [x \in PageCalls |-> IF x = c THEN Problem!Asking("detail", selected) ELSE Problem!Idle]
    BY DEF Problem!Init
  <1> DEFINE q == Problem!Asking("detail", selected)
  <1>2. /\ q \in Problem!Call /\ q.pc = "sent" /\ q.kind = "detail" /\ q.problem = selected
        /\ ~q.attached /\ ~q.granted
    BY PageAskingType DEF Problem!Init
  <1>3. pageCall \in [PageCalls -> Problem!Call] /\ \A x \in PageCalls : pageCall[x] = IF x = c THEN q ELSE Problem!Idle
    BY <1>1, <1>2, PageIdleType
  <1> HIDE DEF q
  <1>4. Problem!PageOfSelected
    BY <1>2, <1>3, PageIdleType DEF Problem!Init, Problem!PracticeViewAssumption, Problem!PageOfSelected, Problem!TypeOK, Problem!MaybeProblem
  <1>5. \A x \in PageCalls : PageCallFits(x)
    BY <1>2, <1>3, PageIdleType DEF Problem!Init, PageCallFits
  <1>6. PageOneRequest /\ Problem!PanelOfSelected
    BY <1>2, <1>3, PageIdleType DEF Problem!Init, PageOneRequest, Problem!PanelOfSelected
  <1> QED
    BY <1>4, <1>5, <1>6 DEF PageIInv

-----------------------------------------------------------------------------
(* One lemma for each action.                                              *)

LEMMA PageSelectStep ==
  ASSUME Problem!PracticeViewAssumption, PageIInv, NEW p \in Problems, NEW c \in PageCalls, Problem!Select(p, c),
         pageOverlapped' = (pageOverlapped \/ Problem!Overlap')
  PROVE  PageIInv'
  <1> DEFINE q == Problem!Asking("detail", p)
  <1>1. /\ q \in Problem!Call /\ q.pc = "sent" /\ q.kind = "detail" /\ q.problem = p
        /\ ~q.attached /\ ~q.granted
    BY PageAskingType
  <1> HIDE DEF q
  <1>2. Problem!TypeOK /\ pageCall' = [Problem!Detach(pageCall) EXCEPT ![c] = q] /\ pageCall[c].pc = "idle"
    BY DEF PageIInv, Problem!PageOfSelected, Problem!Select, q
  <1>3. pageCall' \in [PageCalls -> Problem!Call] /\ pageCall'[c] = q /\ \A x \in PageCalls \ {c} : pageCall'[x] = Problem!Detach(pageCall)[x]
    BY <1>1, <1>2, PageDetached
  <1>4. \A x \in PageCalls : ~pageCall'[x].attached
    BY <1>1, <1>2, <1>3, PageDetached
  <1>5. /\ selected' = p /\ stem' = None /\ board' = None /\ choice' = None /\ answer' = None
        /\ verdict' = None /\ explain' = None /\ attempted' = attempted /\ clicks' \in 0 .. MaxClicks
    BY <1>2 DEF Problem!Select, Problem!ClearPanel, Problem!Click, Problem!TypeOK, Problem!PracticeViewAssumption
  <1>6. Problem!PageOfSelected'
    BY <1>2, <1>3, <1>4, <1>5 DEF Problem!PageOfSelected, Problem!TypeOK, Problem!MaybeProblem
  <1>7. \A x \in PageCalls : PageCallFits(x)'
    BY <1>1, <1>2, <1>3, <1>4, <1>5, PageDetached DEF PageIInv, PageCallFits
  <1>8. ASSUME ~pageOverlapped' PROVE PageOneRequest' /\ Problem!PanelOfSelected'
    <2>1. \A x \in PageCalls \ {c} : pageCall'[x].pc = "idle"
      BY <1>1, <1>3, <1>8 DEF Problem!Overlap
    <2> QED
      BY <1>1, <1>3, <1>5, <2>1 DEF PageOneRequest, Problem!PanelOfSelected
  <1> QED
    BY <1>6, <1>7, <1>8 DEF PageIInv

\* A click that clears the panel.
LEMMA PageClearStep ==
  ASSUME Problem!PracticeViewAssumption, PageIInv, Problem!Reset \/ \E k \in Options : Problem!Choose(k),
         pageOverlapped' = (pageOverlapped \/ Problem!Overlap')
  PROVE  PageIInv'
  <1>1. /\ Problem!TypeOK /\ pageCall' = Problem!Detach(pageCall) /\ choice' \in Options \cup {None}
        /\ UNCHANGED <<selected, stem, board, answer, attempted>>
        /\ verdict' = None /\ explain' = None /\ clicks' \in 0 .. MaxClicks
    BY DEF PageIInv, Problem!PageOfSelected, Problem!Reset, Problem!Choose, Problem!ClearPanel, Problem!Click, Problem!TypeOK, Problem!PracticeViewAssumption
  <1>2. Problem!PageOfSelected'
    <2>1. pageCall' \in [PageCalls -> Problem!Call] /\ \A x \in PageCalls : ~pageCall'[x].attached
      BY <1>1, PageDetached
    <2>2. verdict' \in Problem!Verdict \cup {None} /\ explain' \in Problem!MaybeProblem
      BY <1>1 DEF Problem!MaybeProblem
    <2>3. Problem!TypeOK'
      BY <1>1, <2>1, <2>2 DEF Problem!TypeOK
    <2> QED
      BY <1>1, <2>3 DEF PageIInv, Problem!PageOfSelected
  <1>3. \A x \in PageCalls : PageCallFits(x)'
    BY <1>1, PageDetached DEF PageIInv, PageCallFits
  <1>4. ASSUME ~pageOverlapped' PROVE PageOneRequest' /\ Problem!PanelOfSelected'
    BY <1>1, <1>4, PageDetached DEF PageIInv, PageOneRequest, Problem!PanelOfSelected
  <1> QED
    BY <1>2, <1>3, <1>4 DEF PageIInv

\* A request is sent.
LEMMA PageAskStep ==
  ASSUME Problem!PracticeViewAssumption, PageIInv, NEW c \in PageCalls, Problem!Submit(c) \/ Problem!Explain(c),
         pageOverlapped' = (pageOverlapped \/ Problem!Overlap')
  PROVE  PageIInv'
  <1>1. /\ Problem!TypeOK /\ pageCall[c].pc = "idle" /\ clicks' \in 0 .. MaxClicks
        /\ UNCHANGED <<selected, stem, board, choice, verdict, answer, explain, attempted>>
    BY DEF PageIInv, Problem!PageOfSelected, Problem!Submit, Problem!Explain, Problem!Click, Problem!TypeOK, Problem!PracticeViewAssumption
  <1>2. PICK q \in Problem!Call :
           /\ pageCall' = [pageCall EXCEPT ![c] = q]
           /\ q.pc = "sent" /\ q.problem = selected /\ ~q.granted
           /\ q.kind = "attempt" => q.choice \in Options
           /\ q.attached => /\ verdict # None /\ explain = None
                            /\ \A x \in PageCalls : ~pageCall[x].attached
    <2>1. CASE Problem!Submit(c)
      <3>1. PICK a : a = Problem!Asking("attempt", selected)
        OBVIOUS
      <3>2. a \in Problem!Call /\ a.pc = "sent" /\ a.kind = "attempt" /\ a.problem = selected
            /\ ~a.attached /\ ~a.granted
        BY <1>1, <3>1, PageAskingType DEF Problem!TypeOK
      <3>3. PICK q : q = [a EXCEPT !.choice = choice]
        OBVIOUS
      <3>4. choice \in Options
        BY <1>1, <2>1 DEF Problem!Submit, Problem!TypeOK
      <3>5. q \in Problem!Call /\ q.pc = "sent" /\ q.problem = selected /\ ~q.granted /\ ~q.attached
            /\ q.choice \in Options
        BY <3>2, <3>3, <3>4 DEF Problem!Call
      <3> QED
        BY <2>1, <3>1, <3>3, <3>5 DEF Problem!Submit
    <2>2. CASE Problem!Explain(c)
      <3>1. PICK a : a = Problem!Asking("explain", selected)
        OBVIOUS
      <3>2. a \in Problem!Call /\ a.pc = "sent" /\ a.kind = "explain" /\ a.problem = selected
            /\ ~a.attached /\ ~a.granted
        BY <1>1, <3>1, PageAskingType DEF Problem!TypeOK
      <3>3. PICK q : q = [a EXCEPT !.attached = TRUE]
        OBVIOUS
      <3>4. q \in Problem!Call /\ q.pc = "sent" /\ q.kind = "explain" /\ q.problem = selected /\ ~q.granted
        BY <3>2, <3>3 DEF Problem!Call
      <3> QED
        BY <2>2, <3>1, <3>3, <3>4 DEF Problem!Explain
    <2> QED
      BY <2>1, <2>2
  <1>3. pageCall' \in [PageCalls -> Problem!Call] /\ pageCall'[c] = q /\ \A x \in PageCalls \ {c} : pageCall'[x] = pageCall[x]
    BY <1>1, <1>2 DEF Problem!TypeOK
  <1>4. Problem!PageOfSelected'
    BY <1>1, <1>2, <1>3 DEF PageIInv, Problem!PageOfSelected, Problem!TypeOK
  <1>5. \A x \in PageCalls : PageCallFits(x)'
    BY <1>1, <1>2, <1>3 DEF PageIInv, PageCallFits, Problem!TypeOK
  <1>6. ASSUME ~pageOverlapped' PROVE PageOneRequest' /\ Problem!PanelOfSelected'
    <2>1. \A x \in PageCalls \ {c} : pageCall'[x].pc = "idle"
      BY <1>2, <1>3, <1>6 DEF Problem!Overlap
    <2> QED
      BY <1>1, <1>2, <1>3, <1>6, <2>1 DEF PageIInv, PageOneRequest, Problem!PanelOfSelected
  <1> QED
    BY <1>4, <1>5, <1>6 DEF PageIInv

LEMMA PageServeStep ==
  ASSUME Problem!PracticeViewAssumption, PageIInv, NEW c \in PageCalls, Problem!Serve(c),
         pageOverlapped' = (pageOverlapped \/ Problem!Overlap')
  PROVE  PageIInv'
  <1>1. PICK q : q = [pageCall[c] EXCEPT !.pc = "answered", !.granted = Problem!Granted(pageCall[c].problem)]
    OBVIOUS
  <1>2. /\ Problem!TypeOK /\ pageCall[c] \in Problem!Call /\ pageCall[c].pc = "sent" /\ pageCall[c].problem \in Problems
        /\ UNCHANGED <<selected, stem, board, choice, verdict, answer, explain, clicks>>
    BY DEF PageIInv, Problem!PageOfSelected, Problem!Serve, Problem!TypeOK, PageCallFits
  <1>3. PICK g \in BOOLEAN : g = Problem!Granted(pageCall[c].problem)
    <2>1. (pageCall[c].problem \in attempted) \in BOOLEAN
      OBVIOUS
    <2> QED
      BY <2>1, Zenon DEF Problem!Granted
  <1>4. q = [pageCall[c] EXCEPT !.pc = "answered", !.granted = g]
    BY <1>1, <1>3, Zenon
  <1>5. /\ q \in Problem!Call /\ q.pc = "answered" /\ q.kind = pageCall[c].kind /\ q.problem = pageCall[c].problem
        /\ q.choice = pageCall[c].choice /\ q.attached = pageCall[c].attached /\ q.granted = g
    BY <1>2, <1>4 DEF Problem!Call
  <1>6. pageCall' \in [PageCalls -> Problem!Call] /\ pageCall'[c] = q /\ \A x \in PageCalls \ {c} : pageCall'[x] = pageCall[x]
    BY <1>1, <1>2, <1>5 DEF Problem!Serve, Problem!TypeOK
  <1>7. attempted \subseteq attempted' /\ attempted' \subseteq Problems
    BY <1>2 DEF Problem!Serve, Problem!TypeOK
  <1>8. Problem!PageOfSelected'
    BY <1>2, <1>5, <1>6, <1>7 DEF PageIInv, Problem!PageOfSelected, Problem!TypeOK
  <1>9. \A x \in PageCalls : PageCallFits(x)'
    BY <1>2, <1>3, <1>5, <1>6, <1>7, ZenonT(60) DEF PageIInv, PageCallFits, Problem!Granted
  <1>10. ASSUME ~pageOverlapped' PROVE PageOneRequest' /\ Problem!PanelOfSelected'
    BY <1>2, <1>5, <1>6, <1>10, ZenonT(60) DEF PageIInv, PageOneRequest, Problem!PanelOfSelected
  <1> QED
    BY <1>8, <1>9, <1>10 DEF PageIInv

\* A response, or a failure, ends its request.
LEMMA PageEndOfCall ==
  ASSUME Problem!TypeOK, NEW c \in PageCalls, NEW calls \in [PageCalls -> Problem!Call],
         pageCall' = [calls EXCEPT ![c] = Problem!Idle]
  PROVE  /\ pageCall' \in [PageCalls -> Problem!Call] /\ pageCall'[c] = Problem!Idle
         /\ \A x \in PageCalls \ {c} : pageCall'[x] = calls[x]
  BY PageIdleType

LEMMA PageDetailStep ==
  ASSUME Problem!PracticeViewAssumption, PageIInv, NEW c \in PageCalls, Problem!DeliverDetail(c) \/ Problem!Fail(c),
         pageOverlapped' = (pageOverlapped \/ Problem!Overlap')
  PROVE  PageIInv'
  <1>1. /\ Problem!TypeOK /\ pageCall \in [PageCalls -> Problem!Call] /\ pageCall[c].pc # "idle"
        /\ pageCall' = [pageCall EXCEPT ![c] = Problem!Idle]
        /\ UNCHANGED <<selected, choice, verdict, answer, explain, attempted, clicks>>
        /\ stem' \in {stem, selected, "failed"} /\ board' \in {board, selected}
    BY DEF PageIInv, Problem!PageOfSelected, Problem!DeliverDetail, Problem!Fail, Problem!TypeOK
  <1>2. pageCall'[c] = Problem!Idle /\ pageCall' \in [PageCalls -> Problem!Call] /\ \A x \in PageCalls \ {c} : pageCall'[x] = pageCall[x]
    BY <1>1, PageEndOfCall
  <1>3. Problem!PageOfSelected'
    BY <1>1, <1>2, PageIdleType DEF PageIInv, Problem!PageOfSelected, Problem!TypeOK, Problem!MaybeProblem
  <1>4. \A x \in PageCalls : PageCallFits(x)'
    BY <1>1, <1>2, PageIdleType DEF PageIInv, PageCallFits
  <1>5. ASSUME ~pageOverlapped' PROVE PageOneRequest' /\ Problem!PanelOfSelected'
    BY <1>1, <1>2, <1>5, PageIdleType DEF PageIInv, PageOneRequest, Problem!PanelOfSelected
  <1> QED
    BY <1>3, <1>4, <1>5 DEF PageIInv

LEMMA PageVerdictStep ==
  ASSUME Problem!PracticeViewAssumption, PageIInv, NEW c \in PageCalls, Problem!DeliverVerdict(c),
         pageOverlapped' = (pageOverlapped \/ Problem!Overlap')
  PROVE  PageIInv'
  <1>1. /\ Problem!TypeOK /\ pageCall[c].pc = "answered" /\ pageCall[c].kind = "attempt"
        /\ pageCall' = [Problem!Detach(pageCall) EXCEPT ![c] = Problem!Idle]
        /\ UNCHANGED <<selected, stem, board, choice, attempted, clicks>>
        /\ answer' = pageCall[c].problem /\ explain' = None
        /\ verdict' = [problem |-> pageCall[c].problem, choice |-> pageCall[c].choice]
    BY DEF PageIInv, Problem!PageOfSelected, Problem!DeliverVerdict
  <1>2. pageCall[c].problem \in Problems /\ pageCall[c].choice \in Options
    BY <1>1 DEF PageIInv, PageCallFits
  <1>3. verdict' \in Problem!Verdict /\ verdict'.problem = pageCall[c].problem
    BY <1>1, <1>2 DEF Problem!Verdict
  <1>4. pageCall' \in [PageCalls -> Problem!Call] /\ pageCall'[c] = Problem!Idle /\ \A x \in PageCalls \ {c} : pageCall'[x] = Problem!Detach(pageCall)[x]
    BY <1>1, PageDetached, PageEndOfCall
  <1>5. \A x \in PageCalls : ~pageCall'[x].attached
    BY <1>1, <1>4, PageDetached, PageIdleType
  <1>6. Problem!PageOfSelected'
    BY <1>1, <1>2, <1>3, <1>4, <1>5 DEF PageIInv, Problem!PageOfSelected, Problem!TypeOK, Problem!MaybeProblem
  <1>7. \A x \in PageCalls : PageCallFits(x)'
    BY <1>1, <1>4, <1>5, PageDetached, PageIdleType DEF PageIInv, PageCallFits
  <1>8. ASSUME ~pageOverlapped' PROVE PageOneRequest' /\ Problem!PanelOfSelected'
    <2>1. PageOneRequest
      BY <1>8 DEF PageIInv
    <2>2. pageCall[c].problem = selected /\ \A x \in PageCalls : pageCall'[x].pc = "idle"
      BY <1>1, <1>4, <2>1, PageDetached, PageIdleType DEF PageOneRequest
    <2> QED
      BY <1>1, <1>3, <2>2 DEF PageOneRequest, Problem!PanelOfSelected
  <1> QED
    BY <1>6, <1>7, <1>8 DEF PageIInv

LEMMA PageExplainStep ==
  ASSUME Problem!PracticeViewAssumption, PageIInv, NEW c \in PageCalls, Problem!DeliverExplain(c),
         pageOverlapped' = (pageOverlapped \/ Problem!Overlap')
  PROVE  PageIInv'
  <1>1. /\ Problem!TypeOK /\ pageCall \in [PageCalls -> Problem!Call] /\ pageCall[c].pc = "answered"
        /\ pageCall' = [pageCall EXCEPT ![c] = Problem!Idle]
        /\ UNCHANGED <<selected, stem, board, choice, verdict, answer, attempted, clicks>>
        /\ \/ explain' = explain
           \/ pageCall[c].attached /\ pageCall[c].granted /\ explain' = pageCall[c].problem
    BY DEF PageIInv, Problem!PageOfSelected, Problem!DeliverExplain, Problem!TypeOK
  <1>2. pageCall'[c] = Problem!Idle /\ pageCall' \in [PageCalls -> Problem!Call] /\ \A x \in PageCalls \ {c} : pageCall'[x] = pageCall[x]
    BY <1>1, PageEndOfCall
  <1>3. /\ pageCall[c].problem \in Problems
        /\ pageCall[c].granted => pageCall[c].problem \in attempted
        /\ pageCall[c].attached => /\ verdict # None
                               /\ \A x \in PageCalls \ {c} : ~pageCall[x].attached
    BY <1>1 DEF PageIInv, PageCallFits, Problem!TypeOK
  <1>4. Problem!PageOfSelected'
    BY <1>1, <1>2, <1>3, PageIdleType DEF PageIInv, Problem!PageOfSelected, Problem!TypeOK, Problem!MaybeProblem
  <1>5. \A x \in PageCalls : PageCallFits(x)'
    BY <1>1, <1>2, PageIdleType DEF PageIInv, PageCallFits
  <1>6. ASSUME ~pageOverlapped' PROVE PageOneRequest' /\ Problem!PanelOfSelected'
    BY <1>1, <1>2, <1>3, <1>6, PageIdleType DEF PageIInv, PageOneRequest, Problem!PanelOfSelected
  <1> QED
    BY <1>4, <1>5, <1>6 DEF PageIInv

LEMMA PageNextIInv == ASSUME Problem!PracticeViewAssumption, PageIInv, [Problem!Next]_(Problem!vars) PROVE PageIInv'
  <1>1. CASE Problem!Next
    <2>1. pageOverlapped' = (pageOverlapped \/ Problem!Overlap')
      BY <1>1 DEF Problem!Next
    <2>2. ASSUME NEW c \in PageCalls, Problem!Submit(c) \/ Problem!Explain(c) \/ Problem!Network(c) \/ Problem!Fail(c) PROVE PageIInv'
      BY <2>1, <2>2, PageAskStep, PageServeStep, PageDetailStep, PageVerdictStep, PageExplainStep DEF Problem!Network
    <2> QED
      BY <1>1, <2>1, <2>2, PageSelectStep, PageClearStep DEF Problem!Next, Problem!Step
  <1>2. CASE UNCHANGED Problem!vars
    BY <1>2 DEF Problem!vars, Problem!page, PageIInv, Problem!PageOfSelected, Problem!TypeOK, PageCallFits, PageOneRequest, Problem!PanelOfSelected
  <1> QED
    BY <1>1, <1>2

LEMMA PanelIsRight == PageIInv => Problem!PanelOfSelected
  BY DEF PageIInv, Problem!PanelOfSelected

-----------------------------------------------------------------------------
(* The catalogue.                                                          *)

\* The questions of the catalogue that pass a filter, in order.
Passing(f) == Selected(Numbers(Len(practice_questions)), Cat!Wanted(f))

\* A walk has taken full pages, as many as it has counted, and its cursor is the last
\* question it has.
WalkFits ==
    walk # None =>
        LET w == Passing(walk.filter)
            P == Limit * walk.page
        IN  /\ walk = [filter |-> walk.filter, all |-> walk.all, cursor |-> walk.cursor, page |-> walk.page]
            /\ walk.page \in Nat /\ walk.page < MaxPages
            /\ P <= Len(w)
            /\ walk.all = FirstOf(w, P)
            /\ walk.cursor = IF P = 0 THEN 0 ELSE w[P]

CatalogueInv ==
    /\ practice_questions \in Practices
    /\ WalkFits
    /\ Cat!CatalogueIsWhole
    /\ Cat!ResultsAreLabelled

\* Cat has lists of its own.
LEMMA SameLists ==
  /\ \A s, T : Cat!Selected(s, T) = Selected(s, T)
  /\ \A s, n : Cat!FirstOf(s, n) = FirstOf(s, n)
  /\ \A n : Cat!Numbers(n) = Numbers(n)
  /\ \A s : Cat!Last(s) = Last(s)
  BY DEF Cat!Selected, Selected, Cat!FirstOf, FirstOf, Cat!Numbers, Numbers, Cat!Last, Last

LEMMA PassingFacts ==
  ASSUME Cat!CatalogueAssumption, practice_questions \in Practices, NEW f
  PROVE  /\ Passing(f) \in Seq(Nat) /\ Len(Passing(f)) \in Nat /\ Increasing(Passing(f))
         /\ \A x \in Range(Passing(f)) : x > 0
         /\ Range(Passing(f)) = Cat!Wanted(f) \cap 1 .. Len(practice_questions)
  <1>1. PICK n \in Nat : n = Len(practice_questions)
    BY DEF Cat!CatalogueAssumption
  <1>2. Increasing(Passing(f)) /\ Range(Passing(f)) = Cat!Wanted(f) \cap 1 .. n
    BY <1>1, NumbersSelected DEF Passing
  <1>3. Passing(f) \in Seq(Nat) /\ Len(Passing(f)) \in Nat
    BY <1>2, IncreasingFacts
  <1> QED
    BY <1>1, <1>2, <1>3

LEMMA Pages ==
  ASSUME NEW L \in Nat \ {0}, NEW M \in Nat \ {0}, NEW p \in Nat, p < M
  PROVE  /\ L * p \in Nat /\ L * (p + 1) = L * p + L /\ L * (p + 1) # 0
         /\ L * (p + 1) <= L * M
         /\ p + 1 >= M => L * (p + 1) = L * M
  OBVIOUS

\* What a page returns, and what the page has then.
LEMMA PageReturns ==
  ASSUME Cat!CatalogueAssumption, CatalogueInv, walk # None
  PROVE  LET data == Cat!list_practice(walk.filter, walk.cursor)
             w == Passing(walk.filter)
             P == Limit * walk.page
         IN  /\ walk.all \o data.questions = FirstOf(w, P + Limit)
             /\ data.questions = <<>> \/ data.next_cursor = 0 => Len(w) < P + Limit
             /\ data.next_cursor # 0 => P + Limit <= Len(w) /\ data.next_cursor = w[P + Limit]
  <1>20. PICK data : data = Cat!list_practice(walk.filter, walk.cursor)
    OBVIOUS
  <1>21. PICK w : w = Passing(walk.filter)
    OBVIOUS
  <1>22. PICK P : P = Limit * walk.page
    OBVIOUS
  <1> DEFINE Returned ==
        /\ walk.all \o data.questions = FirstOf(w, P + Limit)
        /\ data.questions = <<>> \/ data.next_cursor = 0 => Len(w) < P + Limit
        /\ data.next_cursor # 0 => P + Limit <= Len(w) /\ data.next_cursor = w[P + Limit]
  <1>1. /\ walk.page \in Nat /\ P \in Nat /\ P <= Len(w) /\ walk.all = FirstOf(w, P)
        /\ walk.cursor = (IF P = 0 THEN 0 ELSE w[P]) /\ Limit \in Nat \ {0}
    BY <1>21, <1>22, Pages DEF CatalogueInv, WalkFits, Cat!CatalogueAssumption
  <1>2. /\ w \in Seq(Nat) /\ Len(w) \in Nat /\ Increasing(w) /\ \A x \in Range(w) : x > 0
        /\ Range(w) = Cat!Wanted(walk.filter) \cap 1 .. Len(practice_questions)
        /\ Len(practice_questions) \in Nat
    BY <1>21, PassingFacts DEF CatalogueInv, Cat!CatalogueAssumption
  <1>3. PICK later : later = {i \in Cat!Wanted(walk.filter) : i > walk.cursor}
    OBVIOUS
  <1>4. PICK t : t = Selected(Numbers(Len(practice_questions)), later)
    OBVIOUS
  <1>5. Increasing(t) /\ Range(t) = later \cap 1 .. Len(practice_questions)
    BY <1>2, <1>4, NumbersSelected
  <1>6. Range(t) = {x \in Range(w) : x > walk.cursor}
    BY <1>2, <1>3, <1>5
  <1>7. Len(t) = Len(w) - P /\ \A i \in 1 .. Len(t) : t[i] = w[P + i]
    <2>1. PICK from : from = walk.cursor
      OBVIOUS
    <2>2. from = (IF P = 0 THEN 0 ELSE w[P]) /\ Range(t) = {x \in Range(w) : x > from}
      BY <1>1, <1>6, <2>1
    <2>3. P \in Nat /\ P <= Len(w) /\ Increasing(w) /\ Increasing(t) /\ \A x \in Range(w) : x > 0
      BY <1>1, <1>2, <1>5
    <2> QED
      BY <2>2, <2>3, RestOfIncreasing
  <1>8. t \in Seq(Nat)
    BY <1>5, IncreasingFacts
  <1>9. PICK out : out = FirstOf(t, Limit)
    OBVIOUS
  <1>10. /\ data.questions = out
         /\ data.next_cursor = IF Len(out) = Limit THEN Last(out) ELSE 0
    BY <1>3, <1>4, <1>9, <1>20, SameLists DEF Cat!list_practice
  <1>11. /\ out \in Seq(Nat) /\ Len(out) = (IF Len(t) < Limit THEN Len(t) ELSE Limit)
         /\ \A i \in 1 .. Len(out) : out[i] = t[i]
    BY <1>1, <1>8, <1>9, FirstFacts
  <1>12. walk.all \o data.questions = FirstOf(w, P + Limit)
    <2>1. FirstOf(w, P) \o FirstOf(t, Limit) = FirstOf(w, P + Limit)
      <3>1. /\ w \in Seq(Nat) /\ t \in Seq(Nat) /\ P \in Nat /\ Limit \in Nat /\ P <= Len(w)
            /\ Len(t) = Len(w) - P /\ \A i \in 1 .. Len(t) : t[i] = w[P + i]
        BY <1>1, <1>2, <1>7, <1>8
      <3> QED
        BY <3>1, FirstsJoined, ZenonT(60)
    <2>2. walk.all \o data.questions = FirstOf(w, P) \o FirstOf(t, Limit)
      BY <1>1, <1>9, <1>10
    <2> QED
      BY <2>1, <2>2
  <1>13. ASSUME Len(out) = Limit PROVE Returned
    <2>1. Limit \in 1 .. Len(t) /\ P + Limit \in 1 .. Len(w)
      <3>1. PICK m \in Nat, n \in Nat : m = Len(t) /\ n = Len(w)
        BY <1>2, <1>8
      <3>2. m = n - P /\ ~ (m < Limit)
        BY <1>1, <1>7, <1>11, <1>13, <3>1
      <3>3. Limit \in 1 .. m /\ P + Limit \in 1 .. n
        BY <1>1, <3>2
      <3> QED
        BY <3>1, <3>3
    <2>2. data.next_cursor = w[P + Limit]
      BY <1>1, <1>7, <1>10, <1>11, <1>13, <2>1 DEF Last
    <2>3. w[P + Limit] > 0
      BY <1>2, <2>1, IncreasingFacts
    <2>4. out # <<>>
      BY <1>1, <1>11, <1>13
    <2>5. data.questions # <<>> /\ data.next_cursor # 0 /\ P + Limit <= Len(w)
      <3>1. PICK m \in Nat, n \in Nat : m = w[P + Limit] /\ n = Len(w)
        BY <1>2, <2>1, IncreasingFacts
      <3>2. m # 0 /\ P + Limit <= n
        BY <1>1, <2>1, <2>3, <3>1
      <3> QED
        BY <1>10, <2>2, <2>4, <3>1, <3>2
    <2> QED
      BY <1>12, <2>2, <2>5
  <1>14. ASSUME Len(out) # Limit PROVE Returned
    <2>1. Len(out) = Len(t) /\ Len(t) < Limit
      BY <1>7, <1>11, <1>14
    <2>2. Len(w) < P + Limit
      BY <1>1, <1>2, <1>7, <1>8, <2>1
    <2>3. data.next_cursor = 0
      BY <1>10, <1>14
    <2> QED
      BY <1>12, <2>2, <2>3
  <1>15. Returned
    BY <1>13, <1>14
  <1> QED
    BY <1>15, <1>20, <1>21, <1>22

LEMMA CatalogueInit == ASSUME Cat!CatalogueAssumption, Cat!Init PROVE CatalogueInv
  BY DEF Cat!Init, CatalogueInv, WalkFits, Cat!CatalogueIsWhole, Cat!ResultsAreLabelled

\* While the questions and the walk stay, so does what is said of them.
LEMMA WalkStays ==
  ASSUME UNCHANGED <<practice_questions, problemSolutionMaps>>
  PROVE  /\ \A f : Passing(f)' = Passing(f)
         /\ Cat!CatalogueIsWhole => Cat!CatalogueIsWhole'
  BY DEF Passing, Cat!Wanted, Cat!CatalogueIsWhole

LEMMA LoadStep ==
  ASSUME Cat!CatalogueAssumption, CatalogueInv, NEW f \in Filters, Cat!loadPracticeList(f)
  PROVE  CatalogueInv'
  <1>1. UNCHANGED <<practice_questions, problemSolutionMaps, meta, results>>
    BY DEF Cat!loadPracticeList, Cat!search
  <1>2. walk' = [filter |-> f, all |-> <<>>, cursor |-> 0, page |-> 0]
    BY DEF Cat!loadPracticeList
  <1>3. Limit \in Nat \ {0} /\ MaxPages \in Nat \ {0}
    BY DEF Cat!CatalogueAssumption
  <1>4. Passing(f) \in Seq(Nat) /\ Len(Passing(f)) \in Nat /\ Passing(f)' = Passing(f)
    BY <1>1, PassingFacts, WalkStays DEF CatalogueInv
  <1>5. FirstOf(Passing(f), 0) = <<>>
    <2>1. FirstOf(Passing(f), 0) \in Seq(Nat) /\ Len(FirstOf(Passing(f), 0)) = 0
      BY <1>4, FirstFacts
    <2> QED BY <2>1
  <1>6. WalkFits'
    <2>1. walk'.page = 0 /\ walk'.all = <<>> /\ walk'.cursor = 0 /\ walk'.filter = f /\ Limit * 0 = 0
      BY <1>2, <1>3
    <2>2. PICK w : w = Passing(f)
      OBVIOUS
    <2>3. Passing(walk.filter)' = w
      BY <1>1, <1>4, <2>1, <2>2 DEF Passing, Cat!Wanted
    <2>4. 0 <= Len(w) /\ FirstOf(w, 0) = <<>> /\ 0 < MaxPages
      BY <1>3, <1>4, <1>5, <2>2
    <2> QED
      BY <1>2, <2>1, <2>3, <2>4 DEF WalkFits
  <1> QED
    BY <1>1, <1>6, WalkStays DEF CatalogueInv, Cat!ResultsAreLabelled, Cat!search_terms

\* The walk goes on behind a full page; it ends with the last question, or with as many
\* pages as a client takes.
LEMMA PageStep ==
  ASSUME Cat!CatalogueAssumption, CatalogueInv, Cat!Page
  PROVE  CatalogueInv'
  <1>1. PICK data : data = Cat!list_practice(walk.filter, walk.cursor)
    OBVIOUS
  <1>2. PICK w : w = Passing(walk.filter)
    OBVIOUS
  <1>3. PICK P : P = Limit * walk.page
    OBVIOUS
  <1>4. PICK all : all = walk.all \o data.questions
    OBVIOUS
  <1>5. PICK on : on = (data.next_cursor # 0 /\ data.questions # <<>> /\ walk.page + 1 < MaxPages)
    OBVIOUS
  <1>6. /\ walk # None
        /\ UNCHANGED <<practice_questions, meta, results>>
        /\ on => /\ walk' = [walk EXCEPT !.all = all, !.cursor = data.next_cursor, !.page = @ + 1]
                 /\ UNCHANGED problemSolutionMaps
        /\ ~on => walk' = None /\ problemSolutionMaps' = [filter |-> walk.filter, all |-> all]
    BY <1>1, <1>4, <1>5 DEF Cat!Page, Cat!search
  <1>7. /\ all = FirstOf(w, P + Limit)
        /\ data.questions = <<>> \/ data.next_cursor = 0 => Len(w) < P + Limit
        /\ data.next_cursor # 0 => P + Limit <= Len(w) /\ data.next_cursor = w[P + Limit]
    BY <1>1, <1>2, <1>3, <1>4, <1>6, PageReturns
  <1>8. /\ walk.page \in Nat /\ walk.page < MaxPages /\ Limit \in Nat \ {0} /\ MaxPages \in Nat \ {0}
        /\ w \in Seq(Nat) /\ Len(w) \in Nat
    BY <1>2, <1>6, PassingFacts DEF CatalogueInv, WalkFits, Cat!CatalogueAssumption
  <1>9. /\ P \in Nat /\ Limit * (walk.page + 1) = P + Limit /\ P + Limit # 0 /\ P + Limit <= Limit * MaxPages
        /\ walk.page + 1 >= MaxPages => P + Limit = Limit * MaxPages
    <2>1. PICK n \in Nat : n = walk.page
      BY <1>8
    <2>2. PICK L \in Nat \ {0}, M \in Nat \ {0} : L = Limit /\ M = MaxPages
      BY <1>8
    <2>3. n < M
      BY <1>8, <2>1, <2>2
    <2>4. /\ L * n \in Nat /\ L * (n + 1) = L * n + L /\ L * (n + 1) # 0 /\ L * (n + 1) <= L * M
          /\ n + 1 >= M => L * (n + 1) = L * M
      BY <2>3, Pages
    <2>5. P = L * n
      BY <1>3, <2>1, <2>2
    <2> QED
      BY <2>1, <2>2, <2>4, <2>5
  <1>10. Passing(walk.filter)' = Passing(walk'.filter)
    BY <1>6 DEF Passing, Cat!Wanted
  <1>11. CASE on
    <2>1. /\ walk' = [filter |-> walk.filter, all |-> all, cursor |-> data.next_cursor, page |-> walk.page + 1]
          /\ data.next_cursor # 0 /\ walk.page + 1 < MaxPages /\ UNCHANGED problemSolutionMaps
      BY <1>5, <1>6, <1>11 DEF CatalogueInv, WalkFits
    <2>2. WalkFits'
      <3>1. /\ walk'.filter = walk.filter /\ walk'.all = all /\ walk'.cursor = data.next_cursor
            /\ walk'.page = walk.page + 1
        BY <2>1
      <3>2. Passing(walk.filter)' = w
        BY <1>2, <1>10, <3>1
      <3>3. walk'.page \in Nat /\ walk'.page < MaxPages
        BY <1>8, <2>1, <3>1
      <3> QED
        BY <1>7, <1>9, <2>1, <3>1, <3>2, <3>3 DEF WalkFits
    <2> QED
      BY <1>6, <2>1, <2>2, WalkStays DEF CatalogueInv, Cat!ResultsAreLabelled, Cat!search_terms
  <1>12. CASE ~on
    <2>1. walk' = None /\ problemSolutionMaps' = [filter |-> walk.filter, all |-> all]
      BY <1>6, <1>12
    <2>2. WalkFits'
      BY <2>1 DEF WalkFits
    <2>3. all = FirstOf(w, Limit * MaxPages)
      <3>1. CASE data.next_cursor = 0 \/ data.questions = <<>>
        <4>1. Len(w) < P + Limit
          BY <1>7, <3>1
        <4> QED
          BY <1>7, <1>8, <1>9, <4>1, AllOfShort
      <3>2. CASE walk.page + 1 >= MaxPages
        BY <1>7, <1>9, <3>2
      <3>3. data.next_cursor = 0 \/ data.questions = <<>> \/ walk.page + 1 >= MaxPages
        <4>1. data.next_cursor = 0 \/ data.questions = <<>> \/ ~ (walk.page + 1 < MaxPages)
          BY <1>5, <1>12, Zenon
        <4> QED
          BY <1>8, <4>1
      <3> QED
        BY <3>1, <3>2, <3>3
    <2>4. Cat!CatalogueIsWhole'
      <3>1. problemSolutionMaps'.filter = walk.filter /\ problemSolutionMaps'.all = all
        BY <2>1
      <3>2. Selected(Numbers(Len(practice_questions')), Cat!Wanted(problemSolutionMaps.filter)') = w
        BY <1>2, <1>6, <3>1 DEF Passing, Cat!Wanted
      <3> QED
        BY <2>3, <3>1, <3>2, SameLists DEF Cat!CatalogueIsWhole
    <2> QED
      BY <1>6, <2>2, <2>4 DEF CatalogueInv, Cat!ResultsAreLabelled, Cat!search_terms
  <1> QED
    BY <1>11, <1>12

\* Whatever leaves the walk and the questions alone.
LEMMA WalkIsKept ==
  ASSUME CatalogueInv, UNCHANGED <<practice_questions, problemSolutionMaps>>, walk' \in {walk, None}
  PROVE  WalkFits' /\ Cat!CatalogueIsWhole' /\ practice_questions' \in Practices
  <1>1. Cat!CatalogueIsWhole' /\ practice_questions' \in Practices
    BY WalkStays DEF CatalogueInv
  <1>2. CASE walk' = None
    BY <1>1, <1>2 DEF WalkFits
  <1>3. CASE walk' = walk
    <2>1. Passing(walk.filter)' = Passing(walk.filter)
      BY <1>3 DEF Passing, Cat!Wanted
    <2>2. WalkFits
      BY DEF CatalogueInv
    <2>3. WalkFits'
      BY <1>3, <2>1, <2>2 DEF WalkFits
    <2> QED
      BY <1>1, <2>3
  <1> QED
    BY <1>1, <1>2, <1>3

\* The walk that fails, and the search box.
LEMMA OtherStep ==
  ASSUME CatalogueInv,
         \/ Cat!PageFails \/ Cat!runTermSearch
         \/ \E q \in Queries : Cat!Type(q) \/ Cat!Found(q) \/ Cat!SearchFails(q)
  PROVE  CatalogueInv'
  <1>1. UNCHANGED <<practice_questions, problemSolutionMaps>> /\ walk' \in {walk, None}
    BY DEF Cat!PageFails, Cat!runTermSearch, Cat!Type, Cat!Found, Cat!SearchFails, Cat!walks
  <1>2. \A q : Cat!search_terms(q)' = Cat!search_terms(q)
    BY DEF Cat!search_terms
  <1>3. Cat!ResultsAreLabelled'
    <2>1. CASE UNCHANGED <<meta, results>>
      BY <1>2, <2>1 DEF CatalogueInv, Cat!ResultsAreLabelled
    <2>2. ASSUME NEW q \in Queries, Cat!Found(q) PROVE Cat!ResultsAreLabelled'
      <3>1. meta'.query = q /\ results' = [query |-> q, terms |-> Cat!search_terms(q)]
        BY <2>2 DEF Cat!Found, Cat!renderTermResults
      <3> QED
        BY <1>2, <3>1 DEF Cat!ResultsAreLabelled
    <2>3. CASE meta'.kind # "count"
      BY <2>3 DEF Cat!ResultsAreLabelled
    <2>4. ASSUME Cat!runTermSearch PROVE meta'.kind # "count"
      <3>1. \/ meta' = [kind |-> "hint", query |-> ""]
            \/ meta' = [kind |-> "searching", query |-> boxTimer]
        BY <2>4 DEF Cat!runTermSearch
      <3>2. CASE meta' = [kind |-> "hint", query |-> ""]
        BY <3>2
      <3>3. CASE meta' = [kind |-> "searching", query |-> boxTimer]
        BY <3>3
      <3> QED
        BY <3>1, <3>2, <3>3
    <2>5. ASSUME NEW q \in Queries, Cat!SearchFails(q) PROVE meta'.kind # "count"
      BY <2>5 DEF Cat!SearchFails
    <2>6. ASSUME NEW q \in Queries, Cat!Type(q) PROVE UNCHANGED <<meta, results>>
      BY <2>6 DEF Cat!Type
    <2>7. ASSUME Cat!PageFails PROVE UNCHANGED <<meta, results>>
      BY <2>7 DEF Cat!PageFails, Cat!search
    <2> QED
      BY <2>1, <2>2, <2>3, <2>4, <2>5, <2>6, <2>7
  <1> QED
    BY <1>1, <1>3, WalkIsKept DEF CatalogueInv

LEMMA CatalogueNext ==
  ASSUME Cat!CatalogueAssumption, CatalogueInv, [Cat!Next]_(Cat!vars)
  PROVE  CatalogueInv'
  <1>1. CASE UNCHANGED Cat!vars
    BY <1>1, WalkIsKept DEF Cat!vars, Cat!walks, Cat!search, CatalogueInv, Cat!ResultsAreLabelled, Cat!search_terms
  <1>2. CASE Cat!Next
    BY <1>2, LoadStep, PageStep, OtherStep DEF Cat!Next
  <1> QED
    BY <1>1, <1>2

-----------------------------------------------------------------------------
(* The browser: one part moves, the others stay.                           *)

BrowserIInv == IInv /\ TabIInv /\ PageIInv /\ CatalogueInv

LEMMA BrowserStarts == ASSUME BrowserInit PROVE BrowserIInv
  BY BrowserAssumption, InitIInv, TabInitIInv, PageInitIInv, CatalogueInit DEF BrowserInit, BrowserIInv, Assumptions

LEMMA BrowserMoves == ASSUME BrowserIInv, [BrowserNext]_allVars PROVE BrowserIInv'
  <1>1. [Next]_vars /\ [Tab!Next]_(Tab!vars) /\ [Problem!Next]_(Problem!vars) /\ [Cat!Next]_(Cat!vars)
    <2>1. UNCHANGED tab => UNCHANGED Tab!vars
      BY DEF tab, tabPage, Tab!vars, Tab!page
    <2>2. UNCHANGED problem => UNCHANGED Problem!vars
      BY DEF problem, problemPage, Problem!vars, Problem!page
    <2>3. UNCHANGED cat => UNCHANGED Cat!vars
      BY DEF cat, Cat!vars, Cat!walks, Cat!search
    <2> QED
      BY <2>1, <2>2, <2>3 DEF BrowserNext, allVars
  <1> QED
    BY <1>1, BrowserAssumption, NextIInv, TabNextIInv, PageNextIInv, CatalogueNext DEF BrowserIInv, Assumptions

\* The invariant of the browser: what each page knows of its own requests, kept through
\* every order of their responses.
THEOREM BrowserInvariance == BrowserSpec => []BrowserIInv
  BY BrowserStarts, BrowserMoves, PTL DEF BrowserSpec

\* The part of the session is that of SpaSession: its theorems hold in the browser.
THEOREM BrowserKeepsSession == BrowserSpec => Spec
  <1>1. BrowserInit => Init
    BY DEF BrowserInit
  <1>2. [BrowserNext]_allVars => [Next]_vars
    BY DEF BrowserNext, allVars
  <1> QED
    BY <1>1, <1>2, PTL DEF BrowserSpec, Spec

\* What the pages say is true of what they show: the status bar of the diagnosis, the
\* text, the choices and the verdict of the problem page, the catalogue that is loaded
\* page by page, and the line over the results of a search.
THEOREM PageIsTrueHolds == BrowserSpec => []PageIsTrue
  <1>1. BrowserIInv => PageIsTrue
    BY StatusIsRight, PanelIsRight DEF BrowserIInv, IInv, PageIInv, CatalogueInv, PageIsTrue
  <1> QED
    BY <1>1, BrowserInvariance, PTL

\* triggerDiagnose: however the responses overtake each other, one that arrives while a
\* later diagnosis is open does not reach the page.
THEOREM NoOlderDiagnosisHolds == BrowserSpec => NoOlderDiagnosis
  <1>1. BrowserIInv /\ [BrowserNext]_allVars => [Tab!OlderIsDropped]_(Tab!vars)
    <2> SUFFICES ASSUME BrowserIInv, [BrowserNext]_allVars PROVE [Tab!OlderIsDropped]_(Tab!vars)
      OBVIOUS
    <2>1. [Tab!Next]_(Tab!vars)
      BY DEF BrowserNext, allVars, tab, tabPage, Tab!vars, Tab!page
    <2> QED
      BY <2>1, OlderIsNotShown DEF BrowserIInv
  <1> QED
    BY <1>1, BrowserInvariance, PTL DEF BrowserSpec, NoOlderDiagnosis, Tab!NoOlderDiagnosis
=============================================================================
