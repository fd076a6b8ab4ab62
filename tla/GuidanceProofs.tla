---------------------------- MODULE GuidanceProofs -----------------------------
(***************************************************************************)
(* Proofs about the recommendations and the study plan, as a part of the   *)
(* engines, for any requests.                                              *)
(***************************************************************************)
EXTENDS Planning, ContainersProofs

-----------------------------------------------------------------------------
(* What to solve and what to skip.                                         *)

LEMMA GuideLists ==
  /\ \A S, R : Guide!Ranked(S, R) = Ranked(S, R)
  /\ \A s, n : Guide!FirstOf(s, n) = FirstOf(s, n)
  /\ \A S : Guide!Cardinality(S) = Cardinality(S)
  /\ \A f : Guide!Range(f) = {f[x] : x \in DOMAIN f}
  BY DEF Guide!Ranked, Ranked, Guide!Rank, Rank, Guide!FirstOf, FirstOf, Guide!Cardinality, Cardinality,
         Guide!Range

\* The first of a sorted list: whoever comes before one of them is one of them.
LEMMA FirstOfSorted ==
  ASSUME NEW S, IsFiniteSet(S), NEW R, StrictOrder(S, R), NEW n \in Nat,
         NEW s, s = FirstOf(Ranked(S, R), n)
  PROVE  /\ s \in Seq(S)
         /\ \A i \in DOMAIN s : s[i] \in S
         /\ \A x \in S : \A j \in DOMAIN s : <<x, s[j]>> \in R => \E i \in DOMAIN s : i < j /\ s[i] = x
  <1>1. PICK all : all = Ranked(S, R)
    OBVIOUS
  <1>2. /\ all \in Seq(S) /\ DOMAIN all = 1 .. Cardinality(S)
        /\ \A x \in S : \E i \in DOMAIN all : all[i] = x
        /\ \A i, j \in DOMAIN all : <<all[i], all[j]>> \in R => i < j
    BY <1>1, RankedIsSorted
  <1>3. /\ s \in Seq(S) /\ Len(s) = (IF Len(all) < n THEN Len(all) ELSE n)
        /\ \A i \in 1 .. Len(s) : s[i] = all[i]
    <2>1. all \in Seq(S) /\ s = FirstOf(all, n)
      BY <1>1, <1>2
    <2>2. PICK r : r = FirstOf(all, n)
      OBVIOUS
    <2>3. r \in Seq(S) /\ Len(r) = (IF Len(all) < n THEN Len(all) ELSE n) /\ \A i \in 1 .. Len(r) : r[i] = all[i]
      BY <2>1, <2>2, FirstFacts
    <2> QED BY <2>1, <2>2, <2>3
  <1>4. /\ DOMAIN s = 1 .. Len(s) /\ DOMAIN all = 1 .. Len(all) /\ Len(s) <= Len(all)
        /\ Len(s) \in Nat /\ Len(all) \in Nat
    BY <1>2, <1>3
  <1>5. \A i \in DOMAIN s : s[i] \in S /\ s[i] = all[i] /\ i \in DOMAIN all
    <2> SUFFICES ASSUME NEW i \in DOMAIN s PROVE s[i] \in S /\ s[i] = all[i] /\ i \in DOMAIN all
      OBVIOUS
    <2>1. i \in 1 .. Len(s) /\ i \in 1 .. Len(all)
      BY <1>4
    <2>2. s[i] = all[i]
      BY <1>3, <2>1
    <2>3. all \in Seq(S)
      BY <1>2
    <2>4. all[i] \in S
      BY <2>1, <2>3
    <2> QED BY <1>4, <2>1, <2>2, <2>4
  <1>6. ASSUME NEW x \in S, NEW j \in DOMAIN s, <<x, s[j]>> \in R
        PROVE  \E i \in DOMAIN s : i < j /\ s[i] = x
    <2>1. PICK i \in DOMAIN all : all[i] = x
      BY <1>2
    <2>2. i < j
      BY <1>2, <1>5, <1>6, <2>1
    <2>3. i \in DOMAIN s
      BY <1>4, <2>1, <2>2
    <2> QED BY <1>5, <2>1, <2>2, <2>3
  <1> QED BY <1>3, <1>5, <1>6

\* The states of a user: one of each subject.
UserStates(user) ==
    /\ \E n \in 0 .. 8 : DOMAIN user = 1 .. n
    /\ \A i \in DOMAIN user : user[i].acc \in 0 .. 10
    /\ \A i, j \in DOMAIN user : user[i].subject = user[j].subject => i = j

LEMMA StateIsTheOne ==
  ASSUME NEW user, UserStates(user), NEW i \in DOMAIN user
  PROVE  Guide!StateOf(user, user[i].subject) = user[i]
  <1>1. Guide!Range(user) = {user[x] : x \in DOMAIN user}
    BY GuideLists
  <1>2. \A st \in Guide!Range(user) : st.subject = user[i].subject => st = user[i]
    BY <1>1 DEF UserStates
  <1>3. user[i] \in Guide!Range(user)
    BY <1>1
  <1>4. PICK s : s = user[i].subject
    OBVIOUS
  <1>5. Guide!StateOf(user, s) \in Guide!Range(user) /\ Guide!StateOf(user, s).subject = s
    BY <1>3, <1>4 DEF Guide!StateOf
  <1> QED BY <1>2, <1>4, <1>5

LEMMA StateOfSubject ==
  ASSUME NEW user, UserStates(user), NEW s, s \in Guide!Subjects(user)
  PROVE  Guide!StateOf(user, s).acc \in 0 .. 10
  <1>1. PICK i \in DOMAIN user : s = user[i].subject
    BY DEF Guide!Subjects
  <1>2. Guide!StateOf(user, s) = user[i]
    BY <1>1, StateIsTheOne
  <1> QED BY <1>2 DEF UserStates

\* What counts for other subjects does not outweigh failure (recommend.py:40).
LEMMA ScoreFacts ==
  ASSUME NEW user, UserStates(user), NEW p
  PROVE  /\ Guide!Score(user, p) \in Int
         /\ p.subject \in Guide!Subjects(user) /\ Guide!StateOf(user, p.subject).acc < Guide!Failing
               => Guide!Score(user, p) >= IF p.seen THEN 17 ELSE 22
         /\ ~ (p.subject \in Guide!Subjects(user) /\ Guide!StateOf(user, p.subject).acc < Guide!Failing)
               => Guide!Score(user, p) <= IF p.seen THEN 11 ELSE 16
  <1>1. CASE p.subject \notin Guide!Subjects(user)
    BY <1>1 DEF Guide!Score
  <1>2. CASE p.subject \in Guide!Subjects(user)
    <2>1. PICK st : st = Guide!StateOf(user, p.subject)
      OBVIOUS
    <2>2. PICK a \in 0 .. 10 : a = st.acc
      BY <1>2, <2>1, StateOfSubject
    <2>3. PICK f \in Int, m \in Int, e \in Int, t \in Int :
             /\ f = (IF a < Guide!Failing THEN 15 ELSE 0)
             /\ m = (IF p.matched THEN 8 ELSE 0)
             /\ e = (IF p.seen THEN 5 ELSE 0)
             /\ t = (IF p.short /\ st.hurried THEN 2 ELSE 0)
      OBVIOUS
    <2>4. Guide!Score(user, p) = 10 - a + f + m - e + t
      BY <1>2, <2>1, <2>2, <2>3 DEF Guide!Score
    <2>5. m \in 0 .. 8 /\ t \in 0 .. 2 /\ e = (IF p.seen THEN 5 ELSE 0)
          /\ f = (IF a < 4 THEN 15 ELSE 0)
      BY <2>3 DEF Guide!Failing
    <2>6. CASE a < 4
      BY <1>2, <2>1, <2>2, <2>4, <2>5, <2>6 DEF Guide!Failing
    <2>7. CASE ~ (a < 4)
      BY <1>2, <2>1, <2>2, <2>4, <2>5, <2>7 DEF Guide!Failing
    <2> QED BY <2>6, <2>7
  <1> QED BY <1>1, <1>2

\* By their scores, of equal ones by number.
LEMMA ScoresOrder ==
  ASSUME NEW n \in Nat, NEW score \in [1 .. n -> Int], NEW R,
         R = {c \in (1 .. n) \X (1 .. n) : score[c[1]] > score[c[2]] \/ (score[c[1]] = score[c[2]] /\ c[1] < c[2])}
  PROVE  StrictOrder(1 .. n, R)
  <1>1. \A p, q \in 1 .. n : <<p, q>> \in R <=> score[p] > score[q] \/ (score[p] = score[q] /\ p < q)
    OBVIOUS
  <1>2. \A p \in 1 .. n : score[p] \in Int
    OBVIOUS
  <1> QED BY <1>1, <1>2, SMTT(60) DEF StrictOrder

\* What a request is, in a form that names its sizes.
IsRequest(in) ==
    /\ UserStates(in.user)
    /\ \E n \in Nat : DOMAIN in.problems = 1 .. n
    /\ \A p \in DOMAIN in.problems : in.problems[p].subject \in Int
    /\ in.nSolve \in Nat /\ in.nSkip \in Nat /\ in.week \in Nat
    /\ Len(in.user) \in Nat /\ DOMAIN in.user = 1 .. Len(in.user)

LEMMA RequestFacts ==
  ASSUME NEW in \in Inputs PROVE IsRequest(in)
  <1>1. /\ in.week \in Nat /\ in.nSolve \in Nat /\ in.nSkip \in Nat
        /\ Len(in.user) \in 0 .. 8 /\ DOMAIN in.user = 1 .. Len(in.user)
        /\ \A i \in DOMAIN in.user : in.user[i].acc \in 0 .. 10
        /\ \A i, j \in DOMAIN in.user : in.user[i].subject = in.user[j].subject => i = j
        /\ Len(in.problems) \in Nat /\ DOMAIN in.problems = 1 .. Len(in.problems)
        /\ \A p \in DOMAIN in.problems : in.problems[p].subject \in Int
    BY PlanningAssumption, Zenon DEF Guide!GuidanceAssumption
  <1>2. UserStates(in.user)
    BY <1>1 DEF UserStates
  <1>3. \E n \in Nat : DOMAIN in.problems = 1 .. n
    BY <1>1
  <1>4. Len(in.user) \in Nat
    BY <1>1
  <1> QED BY <1>1, <1>2, <1>3, <1>4, Zenon DEF IsRequest

\* A problem of a better score comes before one that is chosen.
LEMMA ByScoreFacts ==
  ASSUME NEW user, UserStates(user), NEW n \in Nat, NEW ps, DOMAIN ps = 1 .. n, NEW k \in Nat,
         NEW s, s = Guide!ByScore(user, ps, k)
  PROVE  /\ \A i \in DOMAIN s : s[i] \in 1 .. n
         /\ \A p \in 1 .. n : \A j \in DOMAIN s :
               Guide!Score(user, ps[p]) > Guide!Score(user, ps[s[j]]) => \E i \in DOMAIN s : i < j /\ s[i] = p
  <1>1. PICK score : score = [p \in 1 .. n |-> Guide!Score(user, ps[p])]
    OBVIOUS
  <1>2. score \in [1 .. n -> Int] /\ \A p \in 1 .. n : score[p] = Guide!Score(user, ps[p])
    BY <1>1, ScoreFacts
  <1>3. PICK R : R = {c \in (1 .. n) \X (1 .. n) : score[c[1]] > score[c[2]] \/ (score[c[1]] = score[c[2]] /\ c[1] < c[2])}
    OBVIOUS
  <1>4. StrictOrder(1 .. n, R)
    BY <1>2, <1>3, ScoresOrder
  <1>5. s = FirstOf(Ranked(1 .. n, R), k)
    BY <1>1, <1>3, GuideLists DEF Guide!ByScore, Guide!Sorted
  <1>6. IsFiniteSet(1 .. n)
    BY FS_Interval
  <1>7. PICK S : S = 1 .. n
    OBVIOUS
  <1>8. /\ \A i \in DOMAIN s : s[i] \in S
        /\ \A x \in S : \A j \in DOMAIN s : <<x, s[j]>> \in R => \E i \in DOMAIN s : i < j /\ s[i] = x
    <2>1. IsFiniteSet(S) /\ StrictOrder(S, R) /\ s = FirstOf(Ranked(S, R), k)
      BY <1>4, <1>5, <1>6, <1>7
    <2> QED BY <2>1, FirstOfSorted
  <1>9. \A p, q \in 1 .. n : score[p] > score[q] => <<p, q>> \in R
    BY <1>3
  <1> QED BY <1>2, <1>7, <1>8, <1>9, ZenonT(60)

LEMMA UpToIsFinite ==
  ASSUME NEW n \in Nat PROVE IsFiniteSet(1 .. n) /\ Cardinality(1 .. n) = n
  <1>1. IsFiniteSet(1 .. n) /\ Cardinality(1 .. n) = IF 1 > n THEN 0 ELSE n - 1 + 1
    BY FS_Interval
  <1> QED BY <1>1

\* The problems of a subject before p.
Earlier(sub, n, p) == {q \in 1 .. n : q < p /\ sub[q] = sub[p]}

LEMMA RoundGrows ==
  ASSUME NEW n \in Nat, NEW sub, NEW p \in 1 .. n, NEW q \in 1 .. n, p < q, sub[p] = sub[q]
  PROVE  Cardinality(Earlier(sub, n, p)) < Cardinality(Earlier(sub, n, q))
  <1>1. PICK A, B : A = Earlier(sub, n, p) /\ B = Earlier(sub, n, q)
    OBVIOUS
  <1>2. A \subseteq B /\ p \in B /\ p \notin A /\ B \subseteq 1 .. n
    <2>1. p \in B /\ p \notin A /\ B \subseteq 1 .. n
      BY <1>1 DEF Earlier
    <2>2. \A x \in A : x \in 1 .. n /\ x < p /\ sub[x] = sub[p]
      BY <1>1 DEF Earlier
    <2>3. \A x \in A : x \in B
      BY <1>1, <2>2 DEF Earlier
    <2> QED BY <2>1, <2>3
  <1>3. IsFiniteSet(1 .. n) /\ IsFiniteSet(B)
    <2>1. PICK I : I = 1 .. n
      OBVIOUS
    <2>2. IsFiniteSet(I)
      BY <2>1, FS_Interval
    <2>3. IsFiniteSet(B)
      BY <1>2, <2>1, <2>2, FS_Subset
    <2> QED BY <2>1, <2>2, <2>3
  <1>4. Cardinality(A) <= Cardinality(B) /\ Cardinality(A) \in Nat /\ Cardinality(B) \in Nat
    BY <1>2, <1>3, FS_Subset, FS_CardinalityType
  <1>5. Cardinality(A) = Cardinality(B) => A = B
    BY <1>2, <1>3, FS_Subset
  <1> QED BY <1>1, <1>2, <1>4, <1>5

LEMMA RoundIsANumber ==
  ASSUME NEW n \in Nat, NEW sub, NEW p \in 1 .. n
  PROVE  /\ Cardinality(Earlier(sub, n, p)) \in Nat /\ IsFiniteSet(Earlier(sub, n, p))
         /\ Earlier(sub, n, p) \subseteq 1 .. n
  <1>1. IsFiniteSet(1 .. n) /\ Earlier(sub, n, p) \subseteq 1 .. n
    BY FS_Interval DEF Earlier
  <1> QED BY <1>1, FS_Subset, FS_CardinalityType

\* One of each subject in turn.
LEMMA TurnsOrder ==
  ASSUME NEW n \in Nat, NEW sub \in [1 .. n -> Int], NEW round,
         \A p \in 1 .. n : round[p] = Cardinality(Earlier(sub, n, p)), NEW R,
         \A p, q \in 1 .. n : <<p, q>> \in R <=> round[p] < round[q] \/ (round[p] = round[q] /\ sub[p] < sub[q])
  PROVE  StrictOrder(1 .. n, R)
  <1>1. \A p, q \in 1 .. n : <<p, q>> \in R <=> round[p] < round[q] \/ (round[p] = round[q] /\ sub[p] < sub[q])
    OBVIOUS
  <1>2. \A p \in 1 .. n : sub[p] \in Int /\ round[p] \in Int
    BY RoundIsANumber
  <1>3. \A p, q \in 1 .. n : p # q /\ sub[p] = sub[q] => round[p] # round[q]
    <2> SUFFICES ASSUME NEW p \in 1 .. n, NEW q \in 1 .. n, p # q, sub[p] = sub[q] PROVE round[p] # round[q]
      OBVIOUS
    <2>1. CASE p < q
      BY <1>2, <2>1, RoundGrows
    <2>2. CASE q < p
      BY <1>2, <2>2, RoundGrows, SMTT(60)
    <2> QED BY <2>1, <2>2
  <1>4. \A x \in 1 .. n : <<x, x>> \notin R
    BY <1>1, <1>2
  <1>5. \A x, y, z \in 1 .. n : <<x, y>> \in R /\ <<y, z>> \in R => <<x, z>> \in R
    BY <1>1, <1>2, SMTT(60)
  <1>6. \A x, y \in 1 .. n : x # y => <<x, y>> \in R \/ <<y, x>> \in R
    <2> SUFFICES ASSUME NEW x \in 1 .. n, NEW y \in 1 .. n, x # y PROVE <<x, y>> \in R \/ <<y, x>> \in R
      OBVIOUS
    <2>1. sub[x] = sub[y] => round[x] # round[y]
      BY <1>3
    <2>2. PICK a \in Int, b \in Int, c \in Int, d \in Int :
             a = sub[x] /\ b = sub[y] /\ c = round[x] /\ d = round[y]
      BY <1>2
    <2>3. \/ c < d \/ (c = d /\ a < b)
          \/ d < c \/ (d = c /\ b < a)
      BY <2>1, <2>2
    <2> QED BY <1>1, <2>2, <2>3
  <1> QED BY <1>4, <1>5, <1>6 DEF StrictOrder

\* Of each subject as many are chosen, as far as there are any.
LEMMA InTurnIsBalanced ==
  ASSUME NEW n \in Nat, NEW sub \in [1 .. n -> Int], NEW chosen \in SUBSET (1 .. n),
         \A u \in 1 .. n \ chosen : \A v \in chosen :
             Cardinality(Earlier(sub, n, v)) <= Cardinality(Earlier(sub, n, u)),
         NEW s, NEW t, NEW S, NEW T,
         \A p : p \in S <=> p \in chosen /\ sub[p] = s,
         \A p : p \in T <=> p \in chosen /\ sub[p] = t,
         \E p \in 1 .. n \ chosen : sub[p] = s
  PROVE  Cardinality(S) + 1 >= Cardinality(T)
  <1>1. PICK u \in 1 .. n \ chosen : sub[u] = s /\ \A p \in 1 .. n \ chosen : sub[p] = s => u <= p
    <2>1. PICK U : U = {p \in 1 .. n \ chosen : sub[p] = s}
      OBVIOUS
    <2>2. U \subseteq Nat /\ U # {}
      BY <2>1
    <2>3. PICK u \in U : \A p \in U : u <= p
      BY <2>2, LeastNumber
    <2> QED BY <2>1, <2>3
  <1>2. Earlier(sub, n, u) \subseteq S
    BY <1>1 DEF Earlier
  <1>3. IsFiniteSet(1 .. n)
    BY FS_Interval
  <1>4. IsFiniteSet(S) /\ IsFiniteSet(T)
    BY <1>3, FS_Subset
  <1>5. /\ Cardinality(Earlier(sub, n, u)) <= Cardinality(S)
        /\ Cardinality(S) \in Nat /\ Cardinality(T) \in Nat /\ Cardinality(Earlier(sub, n, u)) \in Nat
    BY <1>1, <1>2, <1>4, FS_Subset, FS_CardinalityType, RoundIsANumber
  <1>6. CASE T = {}
    <2>1. Cardinality(T) = 0
      BY <1>6, FS_EmptySet
    <2> QED BY <1>5, <2>1
  <1>7. CASE T # {}
    <2>0. \A p \in T : p \in 1 .. n /\ p \in chosen /\ sub[p] = t
      OBVIOUS
    <2>1. PICK v \in T : \A p \in T : p <= v
      <3>1. ASSUME NEW p \in T PROVE p \in 0 .. n
        <4>1. p \in 1 .. n
          BY <2>0
        <4>2. \A k \in 1 .. n : k \in 0 .. n
          OBVIOUS
        <4> QED BY <4>1, <4>2
      <3> QED BY <1>7, <3>1, GreatestNumber
    <2>2. v \in 1 .. n /\ v \in chosen /\ sub[v] = t
      BY <2>0, <2>1
    <2>3. PICK E : E = Earlier(sub, n, v)
      OBVIOUS
    <2>4. T \subseteq E \cup {v} /\ v \notin E
      <3>1. v \notin E
        BY <2>2, <2>3 DEF Earlier
      <3>2. ASSUME NEW p \in T, p # v PROVE p \in E
        <4>1. p \in 1 .. n /\ sub[p] = sub[v] /\ p <= v
          BY <2>0, <2>1, <2>2
        <4>2. p < v
          BY <2>2, <3>2, <4>1
        <4> QED BY <2>3, <4>1, <4>2 DEF Earlier
      <3> QED BY <3>1, <3>2
    <2>5. IsFiniteSet(E) /\ Cardinality(E) \in Nat
      BY <2>2, <2>3, RoundIsANumber
    <2>6. IsFiniteSet(E \cup {v}) /\ Cardinality(E \cup {v}) = Cardinality(E) + 1
      BY <2>4, <2>5, FS_AddElement
    <2>7. Cardinality(T) <= Cardinality(E) + 1
      <3>1. PICK V : V = E \cup {v}
        OBVIOUS
      <3>2. T \subseteq V /\ IsFiniteSet(V) /\ Cardinality(V) = Cardinality(E) + 1
        BY <2>4, <2>6, <3>1
      <3>3. Cardinality(T) <= Cardinality(V)
        BY <3>2, FS_Subset
      <3> QED BY <3>2, <3>3
    <2>8. Cardinality(E) <= Cardinality(Earlier(sub, n, u))
      BY <1>1, <2>2, <2>3
    <2> QED BY <1>5, <2>5, <2>7, <2>8
  <1> QED BY <1>6, <1>7

LEMMA InTurnIsRanked ==
  ASSUME NEW n \in Nat, NEW ps, NEW k, NEW sub \in [1 .. n -> Int],
         DOMAIN ps = 1 .. n, \A p \in 1 .. n : sub[p] = ps[p].subject
  PROVE  \E R : /\ Guide!InTurn(ps, k) = FirstOf(Ranked(1 .. n, R), k)
                /\ StrictOrder(1 .. n, R)
                /\ \A p, q \in 1 .. n : <<p, q>> \in R =>
                      Cardinality(Earlier(sub, n, p)) <= Cardinality(Earlier(sub, n, q))
  <1>1. PICK D : D = 1 .. n
    OBVIOUS
  <1>2. PICK round : round = [p \in D |-> Cardinality(Earlier(sub, n, p))]
    OBVIOUS
  <1>3. \A p \in 1 .. n : round[p] = Cardinality(Earlier(sub, n, p)) /\ round[p] \in Nat
    BY <1>1, <1>2, RoundIsANumber
  <1>4. PICK R : R = {c \in D \X D :
                 round[c[1]] < round[c[2]] \/ (round[c[1]] = round[c[2]] /\ sub[c[1]] < sub[c[2]])}
    OBVIOUS
  <1>5. \A p, q \in 1 .. n : <<p, q>> \in R <=> round[p] < round[q] \/ (round[p] = round[q] /\ sub[p] < sub[q])
    BY <1>1, <1>4
  <1>6. StrictOrder(1 .. n, R)
    <2>1. \A p \in 1 .. n : round[p] = Cardinality(Earlier(sub, n, p))
      BY <1>3, Zenon
    <2> QED BY <1>5, <2>1, TurnsOrder, ZenonT(60)
  <1>7. ASSUME NEW p \in 1 .. n, NEW q \in 1 .. n, <<p, q>> \in R PROVE round[p] <= round[q]
    <2>1. round[p] < round[q] \/ round[p] = round[q]
      BY <1>5, <1>7, Zenon
    <2>2. PICK x \in Nat, y \in Nat : x = round[p] /\ y = round[q]
      BY <1>3, Zenon
    <2> QED BY <2>1, <2>2
  <1>8. round = [p \in D |-> Guide!Cardinality({q \in D : q < p /\ ps[q].subject = ps[p].subject})]
    <2>1. \A p \in D : Earlier(sub, n, p) = {q \in D : q < p /\ ps[q].subject = ps[p].subject}
      BY <1>1 DEF Earlier
    <2> QED BY <1>2, <2>1, GuideLists
  <1>9. R = {c \in D \X D : \/ round[c[1]] < round[c[2]]
                            \/ round[c[1]] = round[c[2]] /\ ps[c[1]].subject < ps[c[2]].subject}
    BY <1>1, <1>4
  <1>10. DOMAIN ps = D
    BY <1>1
  <1>11. Guide!InTurn(ps, k) = Guide!FirstOf(Guide!Ranked(D, R), k)
    BY <1>8, <1>9, <1>10, Zenon DEF Guide!InTurn, Guide!Sorted
  <1> QED BY <1>1, <1>3, <1>6, <1>7, <1>11, GuideLists

\* Who is not chosen has had no fewer turns before it than whoever is.
LEMMA RoundsFirst ==
  ASSUME NEW D, IsFiniteSet(D), NEW R, StrictOrder(D, R), NEW k \in Nat, NEW solved,
         solved = FirstOf(Ranked(D, R), k)
  PROVE  /\ \A j \in DOMAIN solved : solved[j] \in D
         /\ \A u \in D : (\A j \in DOMAIN solved : solved[j] # u) =>
               \A j \in DOMAIN solved : <<solved[j], u>> \in R
  <1>1. /\ \A i \in DOMAIN solved : solved[i] \in D
        /\ \A x \in D : \A j \in DOMAIN solved : <<x, solved[j]>> \in R => \E i \in DOMAIN solved : i < j /\ solved[i] = x
    BY FirstOfSorted
  <1> QED BY <1>1 DEF StrictOrder

Turns(sub, n, s, chosen) ==
    /\ \A p : p \in chosen <=> \E i \in DOMAIN s : s[i] = p
    /\ \A u \in 1 .. n \ chosen : \A v \in chosen :
          Cardinality(Earlier(sub, n, v)) <= Cardinality(Earlier(sub, n, u))

LEMMA InTurnFacts ==
  ASSUME NEW n \in Nat, NEW ps, NEW k \in Nat, NEW sub \in [1 .. n -> Int],
         DOMAIN ps = 1 .. n, \A p \in 1 .. n : sub[p] = ps[p].subject
  PROVE  \E chosen \in SUBSET (1 .. n) : Turns(sub, n, Guide!InTurn(ps, k), chosen)
  <1>1. PICK solved : solved = Guide!InTurn(ps, k)
    OBVIOUS
  <1>2. PICK D : D = 1 .. n
    OBVIOUS
  <1>3. PICK R : /\ solved = FirstOf(Ranked(D, R), k)
                 /\ StrictOrder(D, R)
                 /\ \A p, q \in D : <<p, q>> \in R =>
                      Cardinality(Earlier(sub, n, p)) <= Cardinality(Earlier(sub, n, q))
    BY <1>1, <1>2, InTurnIsRanked
  <1>4. IsFiniteSet(D)
    BY <1>2, UpToIsFinite, Zenon
  <1>5. /\ \A j \in DOMAIN solved : solved[j] \in D
        /\ \A u \in D : (\A j \in DOMAIN solved : solved[j] # u) =>
               \A j \in DOMAIN solved : <<solved[j], u>> \in R
    BY <1>3, <1>4, RoundsFirst
  <1>6. PICK chosen : chosen = {p \in D : \E i \in DOMAIN solved : solved[i] = p}
    OBVIOUS
  <1>7. \A p : p \in chosen <=> \E i \in DOMAIN solved : solved[i] = p
    BY <1>5, <1>6
  <1>8. \A u \in D \ chosen : \A v \in chosen :
                  Cardinality(Earlier(sub, n, v)) <= Cardinality(Earlier(sub, n, u))
    <2> SUFFICES ASSUME NEW u \in D \ chosen, NEW v \in chosen
                 PROVE  Cardinality(Earlier(sub, n, v)) <= Cardinality(Earlier(sub, n, u))
      OBVIOUS
    <2>1. PICK j \in DOMAIN solved : solved[j] = v
      BY <1>7
    <2>2. v \in D /\ <<v, u>> \in R
      BY <1>5, <1>7, <2>1
    <2> QED BY <1>3, <2>2
  <1>9. chosen \in SUBSET D
    BY <1>6
  <1>10. Turns(sub, n, solved, chosen)
    BY <1>2, <1>7, <1>8 DEF Turns
  <1> QED BY <1>1, <1>2, <1>9, <1>10

\* A problem of a failing subject outweighs one of another (recommend.py:40).
LEMMA FailingOutweighs ==
  ASSUME NEW user, UserStates(user), NEW p, NEW q, p.seen = q.seen,
         p.subject \in Guide!Subjects(user), Guide!StateOf(user, p.subject).acc < Guide!Failing,
         ~ (q.subject \in Guide!Subjects(user) /\ Guide!StateOf(user, q.subject).acc < Guide!Failing)
  PROVE  Guide!Score(user, p) > Guide!Score(user, q)
  <1>1. PICK a, b : a = Guide!Score(user, p) /\ b = Guide!Score(user, q)
    OBVIOUS
  <1>2. a \in Int /\ a >= IF p.seen THEN 17 ELSE 22
    BY <1>1, ScoreFacts
  <1>3. b \in Int /\ b <= IF q.seen THEN 11 ELSE 16
    BY <1>1, ScoreFacts
  <1> QED BY <1>1, <1>2, <1>3

\* What prescribe() has made of the request so far.
PracticeInv ==
    /\ request \in Inputs
    /\ planPc # "recommend" =>
          /\ solve = Guide!ToSolve(request.user, request.problems, request.nSolve)
          /\ skip = Guide!ToSkip(request.user, request.problems, solve, request.nSkip)
    /\ planPc = "done" /\ request.user # <<>> => hours \in Guide!Allocations(Guide!Accuracies, request.week)

LEMMA PracticeInit == ASSUME Guide!Init PROVE PracticeInv
  BY DEF Guide!Init, PracticeInv

LEMMA PracticeNext == ASSUME PracticeInv, Guide!Next PROVE PracticeInv'
  <1>1. CASE Guide!Recommend
    BY <1>1 DEF PracticeInv, Guide!Recommend, Guide!plan, Guide!Accuracies
  <1>2. CASE Guide!Plan
    BY <1>2 DEF PracticeInv, Guide!Plan, Guide!problems, Guide!Accuracies
  <1>3. CASE Guide!FallbackPlan
    BY <1>3 DEF PracticeInv, Guide!FallbackPlan, Guide!problems, Guide!Accuracies
  <1>4. CASE Guide!Done
    BY <1>4 DEF PracticeInv, Guide!Done, Guide!vars, Guide!problems, Guide!plan, Guide!Accuracies
  <1> QED BY <1>1, <1>2, <1>3, <1>4 DEF Guide!Next

LEMMA PracticeStays == ASSUME PracticeInv, UNCHANGED plan PROVE PracticeInv'
  BY DEF PracticeInv, plan, Guide!Accuracies

LEMMA FailingComesFirst ==
  ASSUME PracticeInv PROVE Guide!FailingFirst
  <1> SUFFICES ASSUME planPc # "recommend" PROVE Guide!FailingFirst
    BY DEF Guide!FailingFirst
  <1>1. PICK in : in = request
    OBVIOUS
  <1>2. in \in Inputs /\ solve = Guide!ToSolve(in.user, in.problems, in.nSolve)
    BY <1>1 DEF PracticeInv
  <1>3. IsRequest(in)
    BY <1>2, RequestFacts
  <1>4. PICK n \in Nat : DOMAIN in.problems = 1 .. n
    BY <1>3 DEF IsRequest
  <1>5. PICK user, ps, s : user = in.user /\ ps = in.problems /\ s = solve
    OBVIOUS
  <1>6. ASSUME user # <<>>, NEW p \in DOMAIN ps, NEW q \in DOMAIN ps, NEW j \in DOMAIN s, s[j] = q,
               Guide!Score(user, ps[p]) > Guide!Score(user, ps[q])
        PROVE  \E i \in DOMAIN s : i < j /\ s[i] = p
    <2>1. s = Guide!ByScore(user, ps, in.nSolve)
      BY <1>2, <1>5, <1>6 DEF Guide!ToSolve
    <2>2. UserStates(user) /\ in.nSolve \in Nat
      BY <1>3, <1>5 DEF IsRequest
    <2>3. p \in 1 .. n /\ DOMAIN ps = 1 .. n
      BY <1>4, <1>5
    <2> QED BY <1>6, <2>1, <2>2, <2>3, ByScoreFacts
  <1>7. ASSUME NEW p \in DOMAIN ps, NEW q \in DOMAIN ps, Guide!FailingProblem(p), ~Guide!FailingProblem(q),
               ps[p].seen = ps[q].seen
        PROVE  user # <<>> /\ Guide!Score(user, ps[p]) > Guide!Score(user, ps[q])
    <2>1. /\ ps[p].subject \in Guide!Subjects(user) /\ Guide!StateOf(user, ps[p].subject).acc < Guide!Failing
          /\ ~ (ps[q].subject \in Guide!Subjects(user) /\ Guide!StateOf(user, ps[q].subject).acc < Guide!Failing)
      BY <1>1, <1>5, <1>7 DEF Guide!FailingProblem
    <2>2. UserStates(user)
      BY <1>3, <1>5 DEF IsRequest
    <2>3. user # <<>>
      BY <2>1 DEF Guide!Subjects
    <2> QED BY <1>7, <2>1, <2>2, <2>3, FailingOutweighs
  <1>8. \A p, q \in DOMAIN ps :
              /\ Guide!FailingProblem(p) /\ ~Guide!FailingProblem(q)
              /\ ps[p].seen = ps[q].seen
              /\ \E j \in DOMAIN s : s[j] = q
              => \E i, j \in DOMAIN s : i < j /\ s[i] = p /\ s[j] = q
    BY <1>6, <1>7
  <1>9. ASSUME user = <<>>, NEW p \in DOMAIN ps, NEW q \in DOMAIN ps, NEW S, NEW T, NEW A,
               S = A \cap Guide!Range(s), A = {r \in DOMAIN ps : ps[r].subject = ps[p].subject},
               T = {r \in DOMAIN ps : ps[r].subject = ps[q].subject} \cap Guide!Range(s)
        PROVE  S = A \/ Guide!Cardinality(S) + 1 >= Guide!Cardinality(T)
    <2>1. PICK sub : sub = [r \in 1 .. n |-> ps[r].subject]
      OBVIOUS
    <2>2. sub \in [1 .. n -> Int] /\ \A r \in 1 .. n : sub[r] = ps[r].subject
      BY <1>3, <1>4, <1>5, <2>1 DEF IsRequest
    <2>3. PICK k \in Nat : k = in.nSolve
      BY <1>3 DEF IsRequest
    <2>4. s = Guide!InTurn(ps, k)
      BY <1>2, <1>5, <1>9, <2>3 DEF Guide!ToSolve
    <2>5. DOMAIN ps = 1 .. n
      BY <1>4, <1>5
    <2>6. PICK chosen \in SUBSET (1 .. n) :
            /\ \A r : r \in chosen <=> \E i \in DOMAIN s : s[i] = r
            /\ \A u \in 1 .. n \ chosen : \A v \in chosen :
                  Cardinality(Earlier(sub, n, v)) <= Cardinality(Earlier(sub, n, u))
      <3>1. \E chosen \in SUBSET (1 .. n) : Turns(sub, n, Guide!InTurn(ps, k), chosen)
        <4>1. sub \in [1 .. n -> Int]
          BY <2>2, Zenon
        <4>2. \A r \in 1 .. n : sub[r] = ps[r].subject
          BY <2>2, Zenon
        <4> QED BY <2>5, <4>1, <4>2, InTurnFacts, Zenon
      <3> QED BY <2>4, <3>1 DEF Turns
    <2>7. \A r : r \in Guide!Range(s) <=> r \in chosen
      BY <2>6, GuideLists
    <2>8. /\ \A r : r \in S <=> r \in chosen /\ sub[r] = sub[p]
          /\ \A r : r \in T <=> r \in chosen /\ sub[r] = sub[q]
      <3>1. \A r : r \in chosen => r \in DOMAIN ps /\ sub[r] = ps[r].subject
        BY <2>2, <2>5, <2>6
      <3>2. sub[p] = ps[p].subject /\ sub[q] = ps[q].subject
        BY <2>2, <2>5
      <3> QED BY <1>9, <2>7, <3>1, <3>2
    <2>9. ASSUME S # A PROVE \E r \in 1 .. n \ chosen : sub[r] = sub[p]
      <3>1. PICK r \in A : r \notin S
        BY <1>9, <2>9
      <3>2. r \in DOMAIN ps /\ ps[r].subject = ps[p].subject /\ r \notin chosen
        BY <1>9, <2>7, <3>1
      <3> QED BY <2>2, <2>5, <3>2
    <2>10. ASSUME S # A PROVE Cardinality(S) + 1 >= Cardinality(T)
      <3>1. PICK x, y : x = sub[p] /\ y = sub[q]
        OBVIOUS
      <3>2. /\ \A r : r \in S <=> r \in chosen /\ sub[r] = x
            /\ \A r : r \in T <=> r \in chosen /\ sub[r] = y
            /\ \E r \in 1 .. n \ chosen : sub[r] = x
        BY <2>8, <2>9, <2>10, <3>1
      <3>3. \A u \in 1 .. n \ chosen : \A v \in chosen :
                  Cardinality(Earlier(sub, n, v)) <= Cardinality(Earlier(sub, n, u))
        BY <2>6
      <3>4. sub \in [1 .. n -> Int]
        BY <2>2, Zenon
      <3>5. \A r : r \in S <=> r \in chosen /\ sub[r] = x
        BY <3>2, Zenon
      <3>6. \A r : r \in T <=> r \in chosen /\ sub[r] = y
        BY <3>2, Zenon
      <3>7. \E r \in 1 .. n \ chosen : sub[r] = x
        BY <3>2, Zenon
      <3> QED BY <3>3, <3>4, <3>5, <3>6, <3>7, InTurnIsBalanced, Zenon
    <2> QED BY <2>10, GuideLists
  <1>10. ASSUME request.user = <<>>, NEW p \in DOMAIN request.problems, NEW q \in DOMAIN request.problems
         PROVE  LET of(x) == {r \in DOMAIN request.problems : request.problems[r].subject = x}
                    chosen(x) == of(x) \cap Guide!Range(solve)
                    x1 == request.problems[p].subject
                    x2 == request.problems[q].subject
                IN  chosen(x1) = of(x1) \/ Guide!Cardinality(chosen(x1)) + 1 >= Guide!Cardinality(chosen(x2))
    <2>1. p \in DOMAIN ps /\ q \in DOMAIN ps /\ user = <<>>
      BY <1>1, <1>5, <1>10
    <2>2. PICK A, S, T : /\ A = {r \in DOMAIN ps : ps[r].subject = ps[p].subject}
                         /\ S = A \cap Guide!Range(s)
                         /\ T = {r \in DOMAIN ps : ps[r].subject = ps[q].subject} \cap Guide!Range(s)
      OBVIOUS
    <2>3. S = A \/ Guide!Cardinality(S) + 1 >= Guide!Cardinality(T)
      BY <1>9, <2>1, <2>2, ZenonT(60)
    <2> QED BY <1>1, <1>5, <2>2, <2>3
  <1>11. \A p, q \in DOMAIN request.problems :
              /\ Guide!FailingProblem(p) /\ ~Guide!FailingProblem(q)
              /\ request.problems[p].seen = request.problems[q].seen
              /\ \E j \in DOMAIN solve : solve[j] = q
              => \E i, j \in DOMAIN solve : i < j /\ solve[i] = p /\ solve[j] = q
    BY <1>1, <1>5, <1>8
  <1> QED BY <1>10, <1>11, Zenon DEF Guide!FailingFirst

-----------------------------------------------------------------------------
(* The hours of a week.                                                    *)

LEMMA GuideSums ==
  /\ \A f, S : Guide!SumFunctionOnSet(f, S) = SumFunctionOnSet(f, S)
  /\ \A f : Guide!Total(f) = SumFunctionOnSet(f, DOMAIN f)
  BY DEF Guide!SumFunctionOnSet, SumFunctionOnSet, Guide!Total, Guide!FoldFunction,
         FoldFunctionOnSet, Guide!FoldFunctionOnSet, MapThenFoldSet, Guide!MapThenFoldSet

LEMMA GreaterOfTwo ==
  ASSUME NEW a \in Int, NEW b \in Int
  PROVE  Guide!Max({a, b}) = IF a >= b THEN a ELSE b
  <1>1. PICK m \in {a, b} : m = IF a >= b THEN a ELSE b
    OBVIOUS
  <1>2. \A k \in {a, b} : m >= k
    BY <1>1
  <1>3. Guide!Max({a, b}) \in {a, b} /\ \A k \in {a, b} : Guide!Max({a, b}) >= k
    BY <1>2, Zenon DEF Guide!Max
  <1> QED BY <1>1, <1>2, <1>3

LEMMA Cancelled ==
  ASSUME NEW u \in Nat \ {0}, NEW a \in Int, NEW b \in Int, u * a >= u * b
  PROVE  a >= b
  <1> SUFFICES ASSUME a <= b - 1 PROVE FALSE
    OBVIOUS
  <1>1. PICK d \in Nat : b = a + 1 + d
    <2>1. b - a - 1 \in Nat /\ b = a + 1 + (b - a - 1)
      OBVIOUS
    <2> QED BY <2>1
  <1>2. u * b = u * a + u + u * d
    BY <1>1
  <1>3. u * d \in Nat /\ u * a \in Int /\ u * b \in Int
    OBVIOUS
  <1> QED BY <1>2, <1>3

\* What is above the floors makes the whole, also when not all floors fit.
LEMMA PartsReach ==
  ASSUME NEW a \in Int, NEW m \in Int, NEW spare \in Nat, NEW needed \in Nat, NEW B \in Int,
         B = a + m + spare - needed, NEW K \in Int, K = (IF spare >= 1 THEN spare ELSE 1),
         NEW left \in Int, left = (IF spare - needed >= 0 THEN spare - needed ELSE 0)
  PROVE  K * a + K * m + spare * left >= K * B
  <1>1. CASE spare >= 1
    <2>1. K = spare /\ K \in Nat
      BY <1>1
    <2>2. PICK d \in Nat : left = spare - needed + d
      <3>1. left - (spare - needed) \in Nat
        OBVIOUS
      <3> QED BY <3>1
    <2>3. spare * left = K * spare - K * needed + K * d
      BY <2>1, <2>2
    <2>4. K * B = K * a + K * m + K * spare - K * needed
      OBVIOUS
    <2>5. K * d \in Nat
      BY <2>1
    <2> QED BY <2>3, <2>4, <2>5
  <1>2. CASE spare = 0
    <2>1. K = 1 /\ spare * left = 0
      BY <1>2
    <2> QED BY <1>2, <2>1
  <1> QED BY <1>1, <1>2

\* Sums of what is raised and of what is shared out, over the failing subjects F and the others.
Divided(D, N, all, over, base, raised, sh, K, left) ==
    \E a \in Int, m \in Int, spare \in Int :
       /\ spare = SumFunctionOnSet(over, N)
       /\ SumFunctionOnSet(base, D) = SumFunctionOnSet(all, D) + SumFunctionOnSet(over, D)
       /\ SumFunctionOnSet(raised, D) = a + m + spare
       /\ SumFunctionOnSet(sh, D) = K * a + K * m + left * spare

Dividing(D, F, N, all, over, base, raised, floor, rest, sh, K, left) ==
    /\ F \in SUBSET D /\ N \in SUBSET D /\ N = D \ F
    /\ K \in Int /\ left \in Int
    /\ \A i \in D : all[i] \in Int /\ over[i] \in Int /\ base[i] = all[i] + over[i] /\ raised[i] \in Int
    /\ \A i \in D : floor[i] = K * all[i] /\ rest[i] = left * over[i]
    /\ \A i \in F : sh[i] = K * raised[i]
    /\ \A i \in N : raised[i] = base[i] /\ sh[i] = floor[i] + rest[i]

LEMMA SharesSum ==
  ASSUME NEW D, IsFiniteSet(D), NEW F, NEW N,
         NEW all, NEW over, NEW base, NEW raised, NEW floor, NEW rest, NEW sh, NEW K, NEW left,
         Dividing(D, F, N, all, over, base, raised, floor, rest, sh, K, left)
  PROVE  Divided(D, N, all, over, base, raised, sh, K, left)
  <1>a. F \in SUBSET D /\ N \in SUBSET D /\ N = D \ F /\ K \in Int /\ left \in Int
    BY DEF Dividing
  <1>b. \A i \in D : all[i] \in Int /\ over[i] \in Int /\ base[i] = all[i] + over[i] /\ raised[i] \in Int
    BY DEF Dividing
  <1>c. \A i \in D : floor[i] = K * all[i] /\ rest[i] = left * over[i]
    BY DEF Dividing
  <1>d. \A i \in F : sh[i] = K * raised[i]
    BY DEF Dividing
  <1>e. \A i \in N : raised[i] = base[i] /\ sh[i] = floor[i] + rest[i]
    BY DEF Dividing
  <1> USE <1>a, <1>b, <1>c, <1>d, <1>e
  <1>1. IsFiniteSet(F) /\ IsFiniteSet(N)
    BY FS_Subset
  <1>2. /\ \A i \in F : all[i] \in Int /\ over[i] \in Int /\ raised[i] \in Int
        /\ \A i \in N : all[i] \in Int /\ over[i] \in Int /\ raised[i] \in Int
    OBVIOUS
  <1>3. \A i \in N : /\ floor[i] = K * all[i] /\ floor[i] \in Int
                     /\ rest[i] = left * over[i] /\ rest[i] \in Int
                     /\ raised[i] = all[i] + over[i]
    OBVIOUS
  <1>4. \A i \in D : sh[i] \in Int
    <2>1. \A i \in F : sh[i] \in Int
      BY <1>2
    <2>2. \A i \in N : sh[i] \in Int
      BY <1>3
    <2> QED BY <2>1, <2>2
  <1>5. SumFunctionOnSet(base, D) = SumFunctionOnSet(all, D) + SumFunctionOnSet(over, D)
    BY SumOfBoth
  <1>6. PICK a \in Int : a = SumFunctionOnSet(raised, F)
    BY <1>1, <1>2, SumFacts
  <1>7. PICK m \in Int : m = SumFunctionOnSet(all, N)
    BY <1>1, <1>2, SumFacts
  <1>8. PICK spare \in Int : spare = SumFunctionOnSet(over, N)
    BY <1>1, <1>2, SumFacts
  <1>9. SumFunctionOnSet(raised, N) = m + spare
    <2>1. SumFunctionOnSet(raised, N) = SumFunctionOnSet(all, N) + SumFunctionOnSet(over, N)
      BY <1>1, <1>2, <1>3, SumOfBoth
    <2> QED BY <1>7, <1>8, <2>1
  <1>10. SumFunctionOnSet(raised, D) = a + m + spare
    <2>1. SumFunctionOnSet(raised, D) = SumFunctionOnSet(raised, F) + SumFunctionOnSet(raised, N)
      BY SumOfParts
    <2> QED BY <1>6, <1>9, <2>1
  <1>11. SumFunctionOnSet(sh, F) = K * a
    BY <1>1, <1>2, <1>6, SumOfMultiples
  <1>12. SumFunctionOnSet(floor, N) = K * m
    BY <1>1, <1>2, <1>3, <1>7, SumOfMultiples
  <1>13. SumFunctionOnSet(rest, N) = left * spare
    BY <1>1, <1>2, <1>3, <1>8, SumOfMultiples
  <1>14. SumFunctionOnSet(sh, N) = K * m + left * spare
    <2>1. SumFunctionOnSet(sh, N) = SumFunctionOnSet(floor, N) + SumFunctionOnSet(rest, N)
      BY <1>1, <1>3, SumOfBoth
    <2> QED BY <1>12, <1>13, <2>1
  <1>15. SumFunctionOnSet(sh, D) = SumFunctionOnSet(sh, F) + SumFunctionOnSet(sh, N)
    BY <1>4, SumOfParts
  <1>16. SumFunctionOnSet(sh, D) = K * a + K * m + left * spare
    BY <1>11, <1>14, <1>15
  <1> QED BY <1>5, <1>8, <1>10, <1>16 DEF Divided

\* The floor of each, and what the weights make of the rest of the pool.
LEMMA PoolIsWhole ==
  ASSUME NEW D, IsFiniteSet(D), NEW n \in Nat, n = Cardinality(D),
         NEW w, \A i \in D : w[i] \in Int, NEW W \in Int, W = SumFunctionOnSet(w, D),
         NEW all, \A i \in D : all[i] = W, NEW over, \A i \in D : over[i] = (20 - n) * w[i]
  PROVE  SumFunctionOnSet(all, D) + SumFunctionOnSet(over, D) = 20 * W
  <1>1. SumFunctionOnSet(all, D) = n * W
    BY SumOfSame
  <1>2. PICK k \in Int : k = 20 - n
    OBVIOUS
  <1>3. SumFunctionOnSet(over, D) = k * W
    BY <1>2, SumOfMultiples
  <1> QED BY <1>1, <1>2, <1>3

LEMMA SubjectWeightFacts ==
  ASSUME NEW a \in 0 .. 10
  PROVE  /\ Guide!SubjectWeight(a) \in Nat
         /\ a >= 7 => Guide!SubjectWeight(a) = 0
         /\ a < 7 => Guide!SubjectWeight(a) > 0
  BY DEF Guide!SubjectWeight, Guide!Stable, Guide!FailRisk

\* The accuracies of the subjects of a user.
AreAccuracies(acc, n) ==
    DOMAIN acc = 1 .. n /\ Len(acc) = n /\ \A i \in 1 .. n : acc[i] \in 0 .. 10

Weighed(w, D, acc) ==
    /\ DOMAIN w = D /\ \A i \in D : w[i] \in Nat
    /\ SumFunctionOnSet(w, D) \in Nat \ {0}
    /\ \A i, j \in D : acc[i] >= 7 /\ acc[j] < 7 => w[i] = 0

LEMMA WeightsFacts ==
  ASSUME NEW n \in 1 .. 8, NEW acc, AreAccuracies(acc, n)
  PROVE  Weighed(Guide!Weights(acc), 1 .. n, acc)
  <1>1. PICK D : D = 1 .. n
    OBVIOUS
  <1>2. IsFiniteSet(D) /\ D # {}
    BY <1>1, UpToIsFinite
  <1> PICK w : w = Guide!Weights(acc)
    OBVIOUS
  <1>3. PICK w0 : w0 = [i \in D |-> Guide!SubjectWeight(acc[i])]
    OBVIOUS
  <1>4. \A i \in D : acc[i] \in 0 .. 10
    BY <1>1 DEF AreAccuracies
  <1>5. \A i \in D : /\ w0[i] \in Nat /\ (acc[i] >= 7 => w0[i] = 0) /\ (acc[i] < 7 => w0[i] > 0)
    BY <1>3, <1>4, SubjectWeightFacts
  <1>6. PICK t \in Nat : t = SumFunctionOnSet(w0, D)
    BY <1>2, <1>5, SumOfNaturals
  <1>7. \A i \in D : w0[i] <= t
    BY <1>2, <1>5, <1>6, SumOfPart
  <1>8. DOMAIN acc = D /\ DOMAIN w0 = D
    BY <1>1, <1>3 DEF AreAccuracies
  <1>9. w = IF t = 0 THEN [i \in D |-> 1] ELSE w0
    BY <1>3, <1>6, <1>8, GuideSums DEF Guide!Weights
  <1>10. ASSUME t = 0 PROVE Weighed(w, D, acc)
    <2>1. \A i \in D : w[i] = 1
      BY <1>9, <1>10
    <2>2. SumFunctionOnSet(w, D) = Cardinality(D) * 1
      BY <1>2, <2>1, SumOfSame
    <2>3. Cardinality(D) \in Nat /\ Cardinality(D) # 0
      BY <1>2, FS_CardinalityType, FS_EmptySet
    <2>4. \A j \in D : ~ (acc[j] < 7)
      <3> SUFFICES ASSUME NEW j \in D, acc[j] < 7 PROVE FALSE
        OBVIOUS
      <3>1. w0[j] > 0 /\ w0[j] <= 0 /\ w0[j] \in Nat
        BY <1>5, <1>7, <1>10
      <3> QED BY <3>1
    <2>5. DOMAIN w = D
      BY <1>9, <1>10
    <2> QED BY <2>1, <2>2, <2>3, <2>4, <2>5 DEF Weighed
  <1>11. ASSUME t # 0 PROVE Weighed(w, D, acc)
    BY <1>5, <1>6, <1>8, <1>9, <1>11 DEF Weighed
  <1> QED BY <1>1, <1>10, <1>11

\* Steps 1 to 3 of _allocate_subject_hours (study_plan.py): the shares make no less than the
\* whole, and a stable subject has a twentieth if another one is not.
Shared(sh, D, acc) ==
    \E W \in Nat \ {0}, K \in Nat \ {0} :
       /\ sh.unit = 20 * W * K
       /\ DOMAIN sh.part = D /\ \A i \in D : sh.part[i] \in Nat
       /\ SumFunctionOnSet(sh.part, D) >= 20 * W * K
       /\ \A i, j \in D : acc[i] >= 7 /\ acc[j] < 7 => sh.part[i] = W * K

LEMMA SharesFacts ==
  ASSUME NEW n \in 1 .. 8, NEW acc, AreAccuracies(acc, n), NEW sh, sh = Guide!Shares(acc)
  PROVE  Shared(sh, 1 .. n, acc)
  <1>1. PICK D : D = 1 .. n
    OBVIOUS
  <1>2. IsFiniteSet(D) /\ Cardinality(D) = n
    <2>1. n \in Nat
      OBVIOUS
    <2> QED BY <1>1, <2>1, UpToIsFinite
  <1>3. PICK w : w = Guide!Weights(acc)
    OBVIOUS
  <1>4. /\ DOMAIN w = D /\ \A i \in D : w[i] \in Nat
        /\ SumFunctionOnSet(w, D) \in Nat \ {0}
        /\ \A i, j \in D : acc[i] >= 7 /\ acc[j] < 7 => w[i] = 0
    <2>1. Weighed(w, D, acc)
      BY <1>1, <1>3, WeightsFacts, Zenon
    <2> QED BY <2>1 DEF Weighed
  <1>5. PICK W \in Nat \ {0} : W = SumFunctionOnSet(w, D)
    BY <1>4
  <1>6. PICK base : base = [i \in D |-> W + (20 - n) * w[i]]
    OBVIOUS
  <1>7. PICK raised : raised = [i \in D |-> IF acc[i] < 4 THEN Guide!Max({base[i], 3 * W}) ELSE base[i]]
    OBVIOUS
  <1>8. PICK F, N : F = {i \in D : acc[i] < 4} /\ N = {i \in D : acc[i] >= 4}
    OBVIOUS
  <1>9. PICK over : over = [i \in D |-> base[i] - W]
    OBVIOUS
  <1>10. \A i \in D : acc[i] \in 0 .. 10
    BY <1>1 DEF AreAccuracies
  <1>11. F \in SUBSET D /\ N \in SUBSET D /\ N = D \ F
    BY <1>8, <1>10
  <1>12. \A i \in D : /\ base[i] \in Nat /\ base[i] = W + (20 - n) * w[i] /\ base[i] >= W
                      /\ over[i] \in Nat /\ over[i] = (20 - n) * w[i] /\ over[i] = base[i] - W
    <2> SUFFICES ASSUME NEW i \in D
                 PROVE  /\ base[i] \in Nat /\ base[i] = W + (20 - n) * w[i] /\ base[i] >= W
                        /\ over[i] \in Nat /\ over[i] = (20 - n) * w[i] /\ over[i] = base[i] - W
      OBVIOUS
    <2>1. PICK x \in Nat : x = (20 - n) * w[i]
      <3>1. 20 - n \in Nat /\ w[i] \in Nat
        BY <1>4
      <3> QED BY <3>1
    <2>2. base[i] = W + x /\ over[i] = base[i] - W
      BY <1>6, <1>9, <2>1
    <2> QED BY <2>1, <2>2
  <1>13. \A i \in D : /\ raised[i] \in Nat /\ raised[i] >= base[i]
                      /\ i \in N => raised[i] = base[i]
    <2> SUFFICES ASSUME NEW i \in D
                 PROVE  raised[i] \in Nat /\ raised[i] >= base[i] /\ (i \in N => raised[i] = base[i])
      OBVIOUS
    <2>1. PICK b \in Nat, m \in Nat : b = base[i] /\ m = 3 * W
      BY <1>12
    <2>2. Guide!Max({b, m}) = IF b >= m THEN b ELSE m
      BY GreaterOfTwo
    <2>3. raised[i] = IF acc[i] < 4 THEN Guide!Max({b, m}) ELSE b
      BY <1>7, <2>1
    <2>4. i \in N => ~ (acc[i] < 4)
      BY <1>8, <1>10
    <2> QED BY <2>1, <2>2, <2>3, <2>4
  <1>14. PICK spare \in Nat : spare = SumFunctionOnSet(over, N)
    <2>1. IsFiniteSet(N) /\ \A i \in N : over[i] \in Nat
      BY <1>2, <1>11, <1>12, FS_Subset
    <2> QED BY <2>1, SumOfNaturals
  <1>15. PICK needed \in Nat : needed = SumFunctionOnSet(raised, D) - SumFunctionOnSet(base, D)
    <2>1. SumFunctionOnSet(base, D) <= SumFunctionOnSet(raised, D)
      BY <1>2, <1>12, <1>13, SumGrows
    <2>2. SumFunctionOnSet(base, D) \in Nat /\ SumFunctionOnSet(raised, D) \in Nat
      BY <1>2, <1>12, <1>13, SumOfNaturals
    <2> QED BY <2>1, <2>2
  <1>16. PICK K \in Nat \ {0} : K = Guide!Max({spare, 1}) /\ K = (IF spare >= 1 THEN spare ELSE 1)
    BY GreaterOfTwo
  <1>17. PICK left \in Nat : left = Guide!Max({spare - needed, 0})
                          /\ left = (IF spare - needed >= 0 THEN spare - needed ELSE 0)
    <2>1. PICK d \in Int : d = spare - needed
      OBVIOUS
    <2>2. Guide!Max({d, 0}) = IF d >= 0 THEN d ELSE 0
      BY GreaterOfTwo
    <2> QED BY <2>1, <2>2
  <1>18. PICK g : g = [i \in D |-> IF acc[i] < 4 THEN raised[i] * K ELSE W * K + (base[i] - W) * left]
    OBVIOUS
  <1>19. sh = [unit |-> 20 * W * K, part |-> g]
    <2>1. DOMAIN acc = D /\ Len(acc) = n /\ DOMAIN base = D /\ DOMAIN raised = D
      BY <1>1, <1>6, <1>7 DEF AreAccuracies
    <2>2. Guide!Total(w) = W /\ Guide!Total(raised) - Guide!Total(base) = needed
      BY <1>4, <1>5, <1>15, <2>1, GuideSums
    <2>3. Guide!SumFunctionOnSet(over, N) = spare
      BY <1>14, GuideSums
    <2> QED
      BY <1>3, <1>6, <1>7, <1>8, <1>9, <1>16, <1>17, <1>18, <2>1, <2>2, <2>3, ZenonT(60)
      DEF Guide!Shares, Guide!FailRisk
  <1>20. /\ \A i \in F : g[i] = K * raised[i]
         /\ \A i \in N : g[i] = W * K + (base[i] - W) * left
    BY <1>8, <1>10, <1>11, <1>13, <1>18
  <1>21. \A i \in D : g[i] \in Nat
    <2>1. \A i \in F : g[i] \in Nat
      BY <1>11, <1>13, <1>20
    <2>2. ASSUME NEW i \in N PROVE g[i] \in Nat
      <3>1. PICK x \in Nat : x = base[i] - W
        BY <1>11, <1>12
      <3>2. W * K \in Nat /\ x * left \in Nat
        OBVIOUS
      <3> QED BY <1>20, <3>1, <3>2
    <2> QED BY <1>11, <2>1, <2>2
  <1>22. SumFunctionOnSet(g, D) >= 20 * W * K
    <2>1. PICK all, floor, rest : /\ all = [i \in D |-> W] /\ floor = [i \in D |-> K * all[i]]
                                  /\ rest = [i \in D |-> left * over[i]]
      OBVIOUS
    <2>2. \A i \in D : all[i] = W /\ floor[i] = K * all[i] /\ rest[i] = left * over[i]
      BY <2>1
    <2>3. \A i \in D : all[i] \in Int /\ over[i] \in Int /\ base[i] = all[i] + over[i] /\ raised[i] \in Int
      BY <1>12, <1>13, <2>2
    <2>4. \A i \in N : raised[i] = base[i] /\ g[i] = floor[i] + rest[i]
      <3> SUFFICES ASSUME NEW i \in N PROVE raised[i] = base[i] /\ g[i] = floor[i] + rest[i]
        OBVIOUS
      <3>1. raised[i] = base[i] /\ i \in D
        BY <1>11, <1>13
      <3>2. PICK x \in Nat : x = over[i] /\ x = base[i] - W
        BY <1>12, <3>1
      <3>3. g[i] = W * K + x * left /\ floor[i] = K * W /\ rest[i] = left * x
        BY <1>20, <2>2, <3>1, <3>2
      <3> QED BY <3>1, <3>3
    <2>5. PICK a \in Int, m \in Int, sp \in Int :
            /\ sp = SumFunctionOnSet(over, N)
            /\ SumFunctionOnSet(base, D) = SumFunctionOnSet(all, D) + SumFunctionOnSet(over, D)
            /\ SumFunctionOnSet(raised, D) = a + m + sp
            /\ SumFunctionOnSet(g, D) = K * a + K * m + left * sp
      <3>1. K \in Int /\ left \in Int
        OBVIOUS
      <3>2. \A i \in D : floor[i] = K * all[i] /\ rest[i] = left * over[i]
        BY <2>2, Zenon
      <3>3. \A i \in F : g[i] = K * raised[i]
        BY <1>20, Zenon
      <3>4. F \in SUBSET D /\ N \in SUBSET D /\ N = D \ F
        BY <1>11, Zenon
      <3>5. IsFiniteSet(D)
        BY <1>2, Zenon
      <3>6. Dividing(D, F, N, all, over, base, raised, floor, rest, g, K, left)
        BY <2>3, <2>4, <3>1, <3>2, <3>3, <3>4, Zenon DEF Dividing
      <3>7. Divided(D, N, all, over, base, raised, g, K, left)
        BY <3>5, <3>6, SharesSum, Zenon
      <3> QED BY <3>7 DEF Divided
    <2>6. SumFunctionOnSet(all, D) + SumFunctionOnSet(over, D) = 20 * W
      BY <1>2, <1>4, <1>5, <1>12, <2>2, PoolIsWhole
    <2>7. PICK B \in Int : B = 20 * W
      OBVIOUS
    <2>8. B = a + m + spare - needed /\ sp = spare
      BY <1>14, <1>15, <2>5, <2>6, <2>7
    <2>9. K * a + K * m + spare * left >= K * B
      <3>1. K \in Int /\ left \in Int
        OBVIOUS
      <3> QED BY <1>16, <1>17, <2>8, <3>1, PartsReach, Zenon
    <2>10. K * B = 20 * W * K
      BY <2>7
    <2> QED BY <2>5, <2>8, <2>9, <2>10
  <1>23. ASSUME NEW i \in D, NEW j \in D, acc[i] >= 7, acc[j] < 7
         PROVE  g[i] = W * K
    <2>1. i \in N
      BY <1>8, <1>10, <1>23
    <2>2. w[i] = 0
      BY <1>4, <1>23
    <2>3. base[i] - W = 0
      BY <1>12, <2>2
    <2> QED BY <1>20, <2>1, <2>3
  <1>24. Shared(sh, D, acc)
    <2>1. sh.unit = 20 * W * K /\ sh.part = g /\ DOMAIN g = D
      BY <1>18, <1>19
    <2> QED BY <1>21, <1>22, <1>23, <2>1 DEF Shared
  <1> QED BY <1>1, <1>24

\* round(_, 2): within a half of the fraction of the week.
NearAll(g, D, f, unit, week) ==
    /\ DOMAIN g = D
    /\ \A i \in D : /\ g[i] \in Nat
                    /\ 2 * unit * g[i] <= 2 * week * f[i] + unit
                    /\ 2 * week * f[i] <= 2 * unit * g[i] + unit

LEMMA RoundedFacts ==
  ASSUME NEW unit \in Nat \ {0}, NEW f, NEW D, NEW sh, DOMAIN sh.part = D, sh.unit = unit, sh.part = f,
         \A i \in D : f[i] \in Nat, NEW week \in Nat, NEW up \in SUBSET Guide!Halfway(sh, week)
  PROVE  NearAll(Guide!Rounded(sh, week, up), D, f, unit, week)
  <1>1. PICK g : g = Guide!Rounded(sh, week, up)
    OBVIOUS
  <1>2. DOMAIN g = D
    BY <1>1 DEF Guide!Rounded
  <1>3. ASSUME NEW i \in D
        PROVE  /\ g[i] \in Nat
               /\ 2 * unit * g[i] <= 2 * week * f[i] + unit
               /\ 2 * week * f[i] <= 2 * unit * g[i] + unit
    <2>1. PICK p \in Nat : p = f[i]
      BY <1>3
    <2>2. PICK x \in Nat : x = week * p
      OBVIOUS
    <2>3. PICK q \in Nat, r \in Nat : q = x \div unit /\ r = x % unit /\ x = unit * q + r /\ r < unit
      <3>1. PICK q0, r0 : q0 = x \div unit /\ r0 = x % unit
        OBVIOUS
      <3>2. q0 \in Int /\ unit * q0 <= x /\ x < unit * q0 + unit
        BY <3>1, SMT
      <3>3. r0 \in Int /\ r0 >= 0 /\ r0 < unit
        BY <3>1, SMT
      <3>4. x = unit * q0 + r0
        BY <3>1, SMT
      <3>5. q0 >= 0
        <4> SUFFICES ASSUME q0 <= -1 PROVE FALSE
          BY <3>2
        <4>1. PICK k \in Nat : q0 = -1 - k
          <5>1. -1 - q0 \in Nat
            BY <3>2
          <5> QED BY <3>2, <5>1
        <4>2. unit * q0 = -unit - unit * k /\ unit * k \in Nat
          BY <4>1
        <4> QED BY <3>2, <4>2
      <3>6. q0 \in Nat /\ r0 \in Nat /\ r0 < unit
        BY <3>2, <3>3, <3>5
      <3> QED BY <3>1, <3>4, <3>6, Zenon
    <2>4. g[i] = q + (IF 2 * r > unit \/ i \in up THEN 1 ELSE 0)
      BY <1>1, <2>1, <2>2, <2>3 DEF Guide!Rounded
    <2>5. i \in up => 2 * r = unit
      BY <2>1, <2>2, <2>3 DEF Guide!Halfway
    <2>6. PICK y \in Nat : y = unit * q
      OBVIOUS
    <2>7. unit * (q + 1) = y + unit /\ x = y + r
      BY <2>3, <2>6
    <2>10. 2 * week * f[i] = 2 * y + 2 * r
      <3>1. 2 * week * p = 2 * x
        BY <2>2
      <3> QED BY <2>1, <2>7, <3>1
    <2>8. CASE 2 * r > unit \/ i \in up
      <3>1. g[i] = q + 1 /\ 2 * r >= unit
        BY <2>4, <2>5, <2>8
      <3>2. 2 * unit * g[i] = 2 * y + 2 * unit
        BY <2>7, <3>1
      <3>3. 2 * week * f[i] = 2 * y + 2 * r
        BY <2>10
      <3> QED BY <2>3, <3>1, <3>2, <3>3
    <2>9. CASE ~ (2 * r > unit \/ i \in up)
      <3>1. g[i] = q /\ 2 * r <= unit
        BY <2>4, <2>9
      <3>2. 2 * unit * g[i] = 2 * y
        BY <2>6, <3>1
      <3>3. 2 * week * f[i] = 2 * y + 2 * r
        BY <2>10
      <3> QED BY <2>3, <3>1, <3>2, <3>3
    <2> QED BY <2>8, <2>9
  <1> QED BY <1>1, <1>2, <1>3 DEF NearAll

\* Rounding loses no more than a half of each.
LEMMA RoundingLoses ==
  ASSUME NEW n \in Nat, NEW D, IsFiniteSet(D), Cardinality(D) = n, NEW unit \in Nat \ {0},
         NEW f, \A i \in D : f[i] \in Nat, SumFunctionOnSet(f, D) >= unit,
         NEW week \in Nat, NEW g, NearAll(g, D, f, unit, week)
  PROVE  SumFunctionOnSet(g, D) \in Nat /\ 2 * SumFunctionOnSet(g, D) + n >= 2 * week
  <1>1. \A i \in D : /\ g[i] \in Nat
                     /\ 2 * week * f[i] <= 2 * unit * g[i] + unit
    BY DEF NearAll
  <1>2. PICK u2 \in Int, w2 \in Int : u2 = 2 * unit /\ w2 = 2 * week
    OBVIOUS
  <1>3. PICK up, wide, wanted, made : /\ up = [i \in D |-> u2 * g[i]] /\ wide = [i \in D |-> unit]
                                      /\ wanted = [i \in D |-> w2 * f[i]]
                                      /\ made = [i \in D |-> up[i] + wide[i]]
    OBVIOUS
  <1>4. PICK G \in Nat : G = SumFunctionOnSet(g, D)
    BY <1>1, SumOfNaturals
  <1>5. PICK P \in Nat : P = SumFunctionOnSet(f, D)
    BY SumOfNaturals
  <1>6. SumFunctionOnSet(up, D) = u2 * G
    <2>1. \A i \in D : g[i] \in Int /\ up[i] = u2 * g[i]
      BY <1>1, <1>3
    <2> QED BY <1>4, <2>1, SumOfMultiples
  <1>7. SumFunctionOnSet(wide, D) = n * unit
    BY <1>3, SumOfSame
  <1>8. SumFunctionOnSet(wanted, D) = w2 * P
    <2>1. \A i \in D : f[i] \in Int /\ wanted[i] = w2 * f[i]
      BY <1>3
    <2> QED BY <1>5, <2>1, SumOfMultiples
  <1>9. \A i \in D : up[i] \in Int /\ wide[i] \in Int /\ wanted[i] \in Int
                     /\ made[i] = up[i] + wide[i] /\ made[i] \in Int /\ wanted[i] <= made[i]
    <2> SUFFICES ASSUME NEW i \in D
                 PROVE  up[i] \in Int /\ wide[i] \in Int /\ wanted[i] \in Int
                        /\ made[i] = up[i] + wide[i] /\ made[i] \in Int /\ wanted[i] <= made[i]
      OBVIOUS
    <2>1. up[i] = 2 * unit * g[i] /\ wide[i] = unit /\ wanted[i] = 2 * week * f[i] /\ made[i] = up[i] + wide[i]
      BY <1>2, <1>3
    <2>2. PICK a \in Int, b \in Int : a = 2 * unit * g[i] /\ b = 2 * week * f[i]
      BY <1>1
    <2> QED BY <1>1, <2>1, <2>2
  <1>10. SumFunctionOnSet(made, D) = u2 * G + n * unit
    <2>1. SumFunctionOnSet(made, D) = SumFunctionOnSet(up, D) + SumFunctionOnSet(wide, D)
      BY <1>9, SumOfBoth
    <2> QED BY <1>6, <1>7, <2>1
  <1>11. w2 * P <= u2 * G + n * unit
    <2>1. SumFunctionOnSet(wanted, D) <= SumFunctionOnSet(made, D)
      BY <1>9, SumGrows
    <2> QED BY <1>8, <1>10, <2>1
  <1>12. w2 * unit <= w2 * P
    <2>1. PICK d \in Nat : P = unit + d
      <3>1. P - unit \in Nat
        BY <1>5
      <3> QED BY <3>1
    <2>2. w2 * P = w2 * unit + w2 * d /\ w2 * d \in Nat
      BY <1>2, <2>1
    <2> QED BY <2>2
  <1>13. unit * (2 * G + n) >= unit * (2 * week)
    <2>1. unit * (2 * G + n) = u2 * G + n * unit
      BY <1>2
    <2>2. unit * (2 * week) = w2 * unit
      BY <1>2
    <2>3. u2 * G + n * unit \in Int /\ w2 * P \in Int /\ w2 * unit \in Int
      OBVIOUS
    <2> QED BY <1>11, <1>12, <2>1, <2>2, <2>3
  <1>14. 2 * G + n >= 2 * week
    <2>1. 2 * G + n \in Int /\ 2 * week \in Int
      OBVIOUS
    <2> QED BY <1>13, <2>1, Cancelled
  <1> QED BY <1>4, <1>14

\* A part that is 1/20 of the unit.
LEMMA RoundedTwentieth ==
  ASSUME NEW unit \in Nat \ {0}, NEW f, NEW D, NEW i \in D, f[i] \in Nat, 20 * f[i] = unit,
         NEW week \in Nat, NEW g, NearAll(g, D, f, unit, week)
  PROVE  20 * g[i] <= week + 10
  <1>1. PICK x \in Nat, p \in Nat : x = g[i] /\ p = f[i]
    BY DEF NearAll
  <1>2. 2 * unit * x <= 2 * week * p + unit
    BY <1>1 DEF NearAll
  <1>3. PICK y \in Nat, z \in Nat : y = unit * x /\ z = week * p
    OBVIOUS
  <1>4. 2 * y <= 2 * z + unit
    BY <1>2, <1>3
  <1>5. 20 * z = unit * week
    BY <1>1, <1>3
  <1>6. unit * (20 * x) = 20 * y
    BY <1>3
  <1>7. unit * (week + 10) = 20 * z + 10 * unit
    BY <1>5
  <1>8. unit * (week + 10) >= unit * (20 * x)
    BY <1>4, <1>6, <1>7
  <1>9. 20 * x \in Int /\ week + 10 \in Int
    OBVIOUS
  <1> QED BY <1>1, <1>8, <1>9, Cancelled

\* Of parts that make more than the week, none is rounded to more than itself.
LEMMA RoundedDown ==
  ASSUME NEW unit \in Nat \ {0}, NEW f, NEW D, NEW i \in D, f[i] \in Nat,
         NEW week \in Nat, week <= unit, NEW g, NearAll(g, D, f, unit, week)
  PROVE  g[i] <= f[i]
  <1>1. PICK x \in Nat, p \in Nat : x = g[i] /\ p = f[i]
    BY DEF NearAll
  <1>2. 2 * unit * x <= 2 * week * p + unit
    BY <1>1 DEF NearAll
  <1> SUFFICES ASSUME x >= p + 1 PROVE FALSE
    BY <1>1
  <1>3. PICK d \in Nat : x = p + 1 + d
    <2>1. x - (p + 1) \in Nat
      OBVIOUS
    <2> QED BY <2>1
  <1>4. PICK e \in Nat : unit = week + e
    <2>1. unit - week \in Nat
      OBVIOUS
    <2> QED BY <2>1
  <1>5. PICK a \in Nat, b \in Nat, c \in Nat : a = unit * d /\ b = week * p /\ c = e * p
    OBVIOUS
  <1>6. unit * p = b + c
    BY <1>4, <1>5
  <1>7. unit * x = unit * p + unit + a
    BY <1>3, <1>5
  <1>8. 2 * unit * x = 2 * b + 2 * c + 2 * unit + 2 * a
    BY <1>6, <1>7
  <1>9. 2 * week * p = 2 * b
    BY <1>5
  <1> QED BY <1>2, <1>8, <1>9

LEMMA LargestFacts ==
  ASSUME NEW n \in Nat \ {0}, NEW g, DOMAIN g = 1 .. n, \A i \in 1 .. n : g[i] \in Nat
  PROVE  Guide!Largest(g) \in 1 .. n
  <1>1. PICK D : D = 1 .. n
    OBVIOUS
  <1>2. IsFiniteSet(D) /\ D # {} /\ D \subseteq Nat /\ \A i \in D : g[i] \in Nat
    BY <1>1, UpToIsFinite
  <1>3. PICK t \in Nat : t = SumFunctionOnSet(g, D)
    BY <1>2, SumOfNaturals
  <1>4. \A i \in D : g[i] <= t
    BY <1>2, <1>3, SumOfPart
  <1>5. PICK V : V = {g[i] : i \in D}
    OBVIOUS
  <1>6. V \subseteq 0 .. t /\ V # {}
    <2>1. \A i \in D : g[i] \in 0 .. t
      BY <1>2, <1>3, <1>4
    <2> QED BY <1>2, <1>5, <2>1
  <1>7. PICK v \in V : \A k \in V : k <= v
    BY <1>6, GreatestNumber
  <1>8. PICK I : I = {i \in D : g[i] = v}
    OBVIOUS
  <1>9. I \subseteq Nat /\ I # {}
    BY <1>2, <1>5, <1>8
  <1>10. PICK m \in I : \A k \in I : m <= k
    BY <1>9, LeastNumber
  <1>11. m \in D /\ \A j \in D : g[j] < g[m] \/ (g[j] = g[m] /\ m <= j)
    <2>1. m \in D /\ g[m] = v
      BY <1>8
    <2>2. ASSUME NEW j \in D PROVE g[j] < g[m] \/ (g[j] = g[m] /\ m <= j)
      <3>1. g[j] <= v /\ g[j] \in Nat /\ v \in Nat
        BY <1>2, <1>5, <1>7
      <3>2. g[j] = v => m <= j
        BY <1>8, <1>10
      <3> QED BY <2>1, <3>1, <3>2
    <2> QED BY <2>1, <2>2
  <1>12. DOMAIN g = D
    BY <1>1
  <1>13. Guide!Largest(g) \in D
    BY <1>11, <1>12, Zenon DEF Guide!Largest
  <1> QED BY <1>1, <1>13

\* Step 4: the largest takes what is missing, which is no more than a half of each; if the
\* repair makes it negative, no other one grows.
Mended(h, g, D, n, week) ==
    /\ DOMAIN h = D
    /\ \A i \in D : /\ h[i] \in Int /\ 2 * h[i] <= 2 * g[i] + n
                    /\ (\E k \in D : h[k] < 0) => h[i] <= g[i]
    /\ SumFunctionOnSet(h, D) = week

Moved(h, f, S, y, d) ==
    /\ y \in S /\ d \in Int /\ h[y] = f[y] + d
    /\ \A x \in S : f[x] \in Int
    /\ \A x \in S : x # y => h[x] = f[x]

LEMMA SumMoves ==
  ASSUME NEW f, NEW h, NEW S, IsFiniteSet(S), NEW y, NEW d, Moved(h, f, S, y, d)
  PROVE  SumFunctionOnSet(h, S) = SumFunctionOnSet(f, S) + d
  <1>a. y \in S /\ d \in Int /\ h[y] = f[y] + d
    BY DEF Moved
  <1>b. \A x \in S : f[x] \in Int
    BY DEF Moved
  <1>c. \A x \in S : x # y => h[x] = f[x]
    BY DEF Moved
  <1> USE <1>a, <1>b, <1>c
  <1>1. PICK move : move = [x \in S |-> IF x = y THEN d ELSE 0]
    OBVIOUS
  <1>2. \A x \in S : f[x] \in Int /\ move[x] \in Int /\ h[x] = f[x] + move[x]
    <2> SUFFICES ASSUME NEW x \in S PROVE f[x] \in Int /\ move[x] \in Int /\ h[x] = f[x] + move[x]
      OBVIOUS
    <2>1. CASE x = y
      BY <1>1, <2>1
    <2>2. CASE x # y
      <3>1. move[x] = 0 /\ h[x] = f[x] /\ f[x] \in Int
        BY <1>1, <2>2
      <3> QED BY <3>1
    <2> QED BY <2>1, <2>2
  <1>3. SumFunctionOnSet(h, S) = SumFunctionOnSet(f, S) + SumFunctionOnSet(move, S)
    BY <1>2, SumOfBoth
  <1>4. SumFunctionOnSet(move, S) = d
    <2>1. \A x \in S : move[x] \in Int
      BY <1>2
    <2>2. SumFunctionOnSet(move, S) = move[y] + SumFunctionOnSet(move, S \ {y})
      BY <2>1, SumFacts
    <2>3. \A x \in S \ {y} : move[x] = 0
      BY <1>1
    <2>4. IsFiniteSet(S \ {y})
      BY FS_RemoveElement
    <2>5. SumFunctionOnSet(move, S \ {y}) = 0
      BY <2>3, <2>4, SumOfZeros
    <2>6. move[y] = d
      BY <1>1
    <2> QED BY <2>2, <2>5, <2>6
  <1> QED BY <1>3, <1>4

LEMMA RepairedFacts ==
  ASSUME NEW n \in Nat \ {0}, NEW g, DOMAIN g = 1 .. n, \A i \in 1 .. n : g[i] \in Nat,
         NEW week \in Nat, 2 * SumFunctionOnSet(g, 1 .. n) + n >= 2 * week
  PROVE  Mended(Guide!Repaired(g, week), g, 1 .. n, n, week)
  <1>1. PICK D : D = 1 .. n
    OBVIOUS
  <1>2. IsFiniteSet(D) /\ DOMAIN g = D /\ \A i \in D : g[i] \in Nat
    BY <1>1, UpToIsFinite
  <1>3. PICK L \in D : L = Guide!Largest(g)
    BY <1>1, LargestFacts
  <1>4. PICK G \in Nat : G = SumFunctionOnSet(g, D)
    BY <1>2, SumOfNaturals
  <1>5. PICK d \in Int : d = week - G
    OBVIOUS
  <1>6. 2 * d <= n
    BY <1>1, <1>4, <1>5, SMTT(60)
  <1>7. PICK h : h = [g EXCEPT ![L] = g[L] + d]
    OBVIOUS
  <1>8. h = Guide!Repaired(g, week)
    <2>1. Guide!Total(g) = G
      BY <1>2, <1>4, GuideSums
    <2>2. g[L] \in Nat /\ G \in Nat /\ week \in Nat
      BY <1>2
    <2>3. g[L] + week - G = g[L] + d
      BY <1>5, <2>2
    <2>4. Guide!Repaired(g, week) = [g EXCEPT ![L] = g[L] + week - G]
      BY <1>3, <2>1 DEF Guide!Repaired
    <2> QED BY <1>7, <2>3, <2>4, Zenon
  <1>9. DOMAIN h = D /\ h[L] = g[L] + d /\ \A i \in D : i # L => h[i] = g[i]
    BY <1>2, <1>7
  <1>10. \A i \in D : h[i] \in Int
    BY <1>2, <1>9, SMTT(60)
  <1>11. ASSUME NEW i \in D
         PROVE  /\ 2 * h[i] <= 2 * g[i] + n
                /\ (\E k \in D : h[k] < 0) => h[i] <= g[i]
    <2>1. PICK x \in Nat, y \in Nat : x = g[i] /\ y = g[L]
      BY <1>2
    <2>2. (\E k \in D : h[k] < 0) => y + d < 0
      <3>1. ASSUME NEW k \in D, k # L PROVE ~ (h[k] < 0)
        <4>1. h[k] = g[k] /\ g[k] \in Nat
          BY <1>2, <1>9, <3>1, Zenon
        <4>2. PICK z \in Nat : z = g[k]
          BY <4>1
        <4> QED BY <4>1, <4>2
      <3> QED BY <1>9, <2>1, <3>1
    <2>3. CASE i = L
      <3>1. x = y /\ h[i] = x + d
        BY <1>9, <2>1, <2>3
      <3>2. (\E k \in D : h[k] < 0) => h[i] <= x
        BY <2>1, <2>2, <3>1
      <3>3. 2 * h[i] <= 2 * x + n
        BY <1>6, <3>1
      <3> QED BY <2>1, <3>2, <3>3, Zenon
    <2>4. CASE i # L
      <3>1. h[i] = x
        BY <1>9, <2>1, <2>4
      <3>2. h[i] <= x /\ 2 * h[i] <= 2 * x + n
        BY <3>1
      <3> QED BY <2>1, <3>2, Zenon
    <2> QED BY <2>3, <2>4
  <1>12. SumFunctionOnSet(h, D) = week
    <2>1. \A i \in D : g[i] \in Int
      BY <1>2
    <2>2. SumFunctionOnSet(h, D) = SumFunctionOnSet(g, D) + d
      <3>1. IsFiniteSet(D)
        BY <1>2, Zenon
      <3>2. h[L] = g[L] + d
        BY <1>9, Zenon
      <3>3. \A i \in D : i # L => h[i] = g[i]
        BY <1>9, Zenon
      <3>4. Moved(h, g, D, L, d)
        BY <2>1, <3>2, <3>3, Zenon DEF Moved
      <3> QED BY <3>1, <3>4, SumMoves
    <2> QED BY <1>4, <1>5, <2>2
  <1>13. Mended(h, g, D, n, week)
    BY <1>9, <1>10, <1>11, <1>12 DEF Mended
  <1> QED BY <1>1, <1>8, <1>13

\* The first three steps and the repair, from what the shares make.
LEMMA MendedFacts ==
  ASSUME NEW n \in Nat \ {0}, NEW unit \in Nat \ {0}, NEW f, NEW sh,
         DOMAIN sh.part = 1 .. n, sh.unit = unit, sh.part = f,
         \A i \in 1 .. n : f[i] \in Nat, SumFunctionOnSet(f, 1 .. n) >= unit,
         NEW week \in Nat, NEW up \in SUBSET Guide!Halfway(sh, week)
  PROVE  \E g : /\ NearAll(g, 1 .. n, f, unit, week)
                /\ Mended(Guide!Repaired(Guide!Rounded(sh, week, up), week), g, 1 .. n, n, week)
  <1>1. PICK D : D = 1 .. n
    OBVIOUS
  <1>2. IsFiniteSet(D) /\ Cardinality(D) = n
    BY <1>1, UpToIsFinite
  <1>3. PICK g : g = Guide!Rounded(sh, week, up)
    OBVIOUS
  <1>4. NearAll(g, D, f, unit, week)
    BY <1>1, <1>3, RoundedFacts
  <1>5. SumFunctionOnSet(g, D) \in Nat /\ 2 * SumFunctionOnSet(g, D) + n >= 2 * week
    <2>1. n \in Nat
      OBVIOUS
    <2>2. \A i \in D : f[i] \in Nat
      BY <1>1
    <2>3. SumFunctionOnSet(f, D) >= unit
      BY <1>1
    <2> QED BY <1>2, <1>4, <2>1, <2>2, <2>3, RoundingLoses
  <1>6. DOMAIN g = D /\ \A i \in D : g[i] \in Nat
    BY <1>4 DEF NearAll
  <1>7. Mended(Guide!Repaired(g, week), g, D, n, week)
    BY <1>1, <1>5, <1>6, RepairedFacts
  <1> QED BY <1>1, <1>3, <1>4, <1>7

\* What is negative is cut off, and the others make no less than before.
LEMMA ScaledHours ==
  ASSUME NEW n \in Nat \ {0}, NEW h, DOMAIN h = 1 .. n, \A i \in 1 .. n : h[i] \in Int,
         NEW week \in Nat, SumFunctionOnSet(h, 1 .. n) = week, NEW sc, sc = Guide!Scaled(h)
  PROVE  /\ DOMAIN sc.part = 1 .. n
         /\ \A i \in 1 .. n : sc.part[i] \in Nat /\ sc.part[i] = IF h[i] >= 0 THEN h[i] ELSE 0
         /\ sc.unit = SumFunctionOnSet(sc.part, 1 .. n) /\ sc.unit \in Nat /\ week <= sc.unit
  <1>1. PICK D : D = 1 .. n
    OBVIOUS
  <1>2. IsFiniteSet(D) /\ DOMAIN h = D /\ \A i \in D : h[i] \in Int
    BY <1>1, UpToIsFinite
  <1>3. PICK c : c = [i \in D |-> Guide!Max({h[i], 0})]
    OBVIOUS
  <1>4. DOMAIN c = D /\ Guide!Total(c) = SumFunctionOnSet(c, D)
    BY <1>3, GuideSums
  <1>5. sc = [unit |-> Guide!Total(c), part |-> c]
    BY <1>2, <1>3 DEF Guide!Scaled
  <1>6. \A i \in D : c[i] = IF h[i] >= 0 THEN h[i] ELSE 0
    <2> SUFFICES ASSUME NEW i \in D PROVE c[i] = IF h[i] >= 0 THEN h[i] ELSE 0
      OBVIOUS
    <2>1. PICK x \in Int : x = h[i]
      BY <1>2
    <2>2. Guide!Max({x, 0}) = IF x >= 0 THEN x ELSE 0
      BY GreaterOfTwo
    <2> QED BY <1>3, <2>1, <2>2
  <1>7. \A i \in D : c[i] \in Nat /\ c[i] \in Int /\ h[i] <= c[i]
    BY <1>2, <1>6
  <1>8. SumFunctionOnSet(c, D) \in Nat
    BY <1>2, <1>7, SumOfNaturals
  <1>9. SumFunctionOnSet(h, D) <= SumFunctionOnSet(c, D)
    BY <1>2, <1>7, SumGrows
  <1>10. week <= SumFunctionOnSet(c, D)
    BY <1>1, <1>9
  <1> QED BY <1>1, <1>4, <1>5, <1>6, <1>7, <1>8, <1>10

LEMMA PlainHours ==
  ASSUME NEW n \in Nat \ {0}, NEW D, NEW unit \in Nat \ {0}, NEW f, NEW i \in D, f[i] \in Nat,
         20 * f[i] = unit, NEW week \in Nat, NEW g, NEW h,
         NearAll(g, D, f, unit, week), Mended(h, g, D, n, week)
  PROVE  /\ 20 * (h[i] - n) <= week
         /\ (\E k \in D : h[k] < 0) => 20 * h[i] <= week + 10
  <1>1. PICK x \in Nat, y \in Int : x = g[i] /\ y = h[i]
    BY DEF NearAll, Mended
  <1>2. 20 * x <= week + 10
    BY <1>1, RoundedTwentieth
  <1>3. 2 * y <= 2 * x + n /\ ((\E k \in D : h[k] < 0) => y <= x)
    BY <1>1 DEF Mended
  <1>4. 20 * (y - n) <= week
    BY <1>2, <1>3
  <1>5. (\E k \in D : h[k] < 0) => 20 * y <= week + 10
    BY <1>2, <1>3
  <1> QED BY <1>1, <1>4, <1>5

\* The hours that are scaled again are those of the first attempt, or less, before the repair.
LEMMA AgainHours ==
  ASSUME NEW n \in Nat \ {0}, NEW D, NEW unit \in Nat \ {0}, NEW c, NEW i \in D, c[i] \in Nat,
         NEW week \in Nat, week <= unit, NEW g, NEW h, NEW x \in Int, c[i] = (IF x >= 0 THEN x ELSE 0),
         20 * x <= week + 10, NearAll(g, D, c, unit, week), Mended(h, g, D, n, week)
  PROVE  h[i] \in Int /\ 20 * (Guide!Max({h[i], 0}) - n) <= week
  <1>1. PICK z \in Nat, y \in Int : z = g[i] /\ y = h[i]
    BY DEF NearAll, Mended
  <1>2. z <= c[i]
    BY <1>1, RoundedDown
  <1>3. 2 * y <= 2 * z + n
    BY <1>1 DEF Mended
  <1>4. 20 * z <= week + 10
    BY <1>2
  <1>5. Guide!Max({y, 0}) = IF y >= 0 THEN y ELSE 0
    BY GreaterOfTwo
  <1>6. 20 * (y - n) <= week /\ 20 * (0 - n) <= week
    BY <1>3, <1>4
  <1>7. 20 * (Guide!Max({y, 0}) - n) <= week
    BY <1>5, <1>6
  <1> QED BY <1>1, <1>7

LEMMA SharedFacts ==
  ASSUME NEW n \in Nat \ {0}, NEW acc, NEW sh, Shared(sh, 1 .. n, acc)
  PROVE  \E unit, f :
            /\ unit \in Nat \ {0} /\ sh.unit = unit /\ sh.part = f /\ DOMAIN f = 1 .. n /\ \A i \in 1 .. n : f[i] \in Nat
            /\ SumFunctionOnSet(f, 1 .. n) >= unit
            /\ \A i, j \in 1 .. n : acc[i] >= 7 /\ acc[j] < 7 => 20 * f[i] = unit
  <1>1. PICK D : D = 1 .. n
    OBVIOUS
  <1>2. PICK W \in Nat \ {0}, K \in Nat \ {0} :
           /\ sh.unit = 20 * W * K
           /\ DOMAIN sh.part = D /\ \A i \in D : sh.part[i] \in Nat
           /\ SumFunctionOnSet(sh.part, D) >= 20 * W * K
           /\ \A i, j \in D : acc[i] >= 7 /\ acc[j] < 7 => sh.part[i] = W * K
    BY <1>1 DEF Shared
  <1>3. PICK x \in Nat \ {0} : x = W * K
    OBVIOUS
  <1>4. PICK unit \in Nat \ {0} : unit = 20 * x
    OBVIOUS
  <1>5. 20 * W * K = unit
    BY <1>3, <1>4
  <1>6. PICK f : f = sh.part
    OBVIOUS
  <1>7. \A i, j \in D : acc[i] >= 7 /\ acc[j] < 7 => 20 * f[i] = unit
    BY <1>2, <1>3, <1>4, <1>6
  <1> QED BY <1>1, <1>2, <1>5, <1>6, <1>7

IsRepaired(h, sh, week) ==
    \E up \in SUBSET Guide!Halfway(sh, week) : h = Guide!Repaired(Guide!Rounded(sh, week, up), week)
CutOff(h) == [k \in DOMAIN h |-> Guide!Max({h[k], 0})]

\* A stable subject has no more than 1/20 of the week, to the rounding, unless all are stable.
LEMMA AllocationFacts ==
  ASSUME NEW n \in 1 .. 8, NEW acc, AreAccuracies(acc, n), NEW week \in Nat,
         NEW h \in Guide!Allocations(acc, week), NEW i \in 1 .. n, NEW j \in 1 .. n,
         acc[i] >= 7, acc[j] < 7
  PROVE  20 * (h[i] - n) <= week
  <1>1. PICK D : D = 1 .. n
    OBVIOUS
  <1>2. n \in Nat \ {0} /\ i \in D /\ j \in D /\ DOMAIN acc = D
    BY <1>1 DEF AreAccuracies
  <1>3. PICK sh : sh = Guide!Shares(acc)
    OBVIOUS
  <1>4. Shared(sh, 1 .. n, acc)
    BY <1>3, SharesFacts
  <1>5. PICK unit, f :
            /\ unit \in Nat \ {0} /\ sh.unit = unit /\ sh.part = f /\ DOMAIN f = D /\ \A k \in D : f[k] \in Nat
            /\ SumFunctionOnSet(f, D) >= unit
            /\ \A k, l \in D : acc[k] >= 7 /\ acc[l] < 7 => 20 * f[k] = unit
    BY <1>1, <1>2, <1>4, SharedFacts
  <1>6. 20 * f[i] = unit /\ f[i] \in Nat
    BY <1>2, <1>5
  <1>7. CASE week = 0
    <2>1. h = [k \in D |-> 0]
      BY <1>2, <1>7 DEF Guide!Allocations
    <2> QED BY <1>2, <1>7, <2>1
  <1>8. CASE week # 0
    <2>1. PICK h1 : /\ IsRepaired(h1, sh, week)
                    /\ \/ ~ (\E k \in DOMAIN h1 : h1[k] < 0) /\ h = h1
                       \/ /\ \E k \in DOMAIN h1 : h1[k] < 0
                          /\ \E h2 : IsRepaired(h2, Guide!Scaled(h1), week) /\ h = CutOff(h2)
      <3>1. PICK first : first = {Guide!Repaired(Guide!Rounded(sh, week, up), week) : up \in SUBSET Guide!Halfway(sh, week)}
        OBVIOUS
      <3>2. PICK h1 \in first :
               h \in IF \E k \in DOMAIN h1 : h1[k] < 0
                     THEN LET sc == Guide!Scaled(h1)
                          IN  {LET g == Guide!Repaired(Guide!Rounded(sc, week, up), week)
                               IN  [k \in DOMAIN g |-> Guide!Max({g[k], 0})] : up \in SUBSET Guide!Halfway(sc, week)}
                     ELSE {h1}
        BY <1>3, <1>8, <3>1, Zenon DEF Guide!Allocations
      <3>3. PICK X : X = LET sc == Guide!Scaled(h1)
                         IN  {LET g == Guide!Repaired(Guide!Rounded(sc, week, up), week)
                              IN  [k \in DOMAIN g |-> Guide!Max({g[k], 0})] : up \in SUBSET Guide!Halfway(sc, week)}
        OBVIOUS
      <3>4. IsRepaired(h1, sh, week)
        BY <3>1, Zenon DEF IsRepaired
      <3>5. CASE ~ \E k \in DOMAIN h1 : h1[k] < 0
        <4>1. h = h1
          BY <3>2, <3>5, Zenon
        <4> QED BY <3>4, <3>5, <4>1, Zenon
      <3>6. CASE \E k \in DOMAIN h1 : h1[k] < 0
        <4>1. h \in X
          BY <3>2, <3>3, <3>6
        <4>2. PICK sc : sc = Guide!Scaled(h1)
          OBVIOUS
        <4>3. PICK up2 \in SUBSET Guide!Halfway(sc, week) :
                 h = LET g == Guide!Repaired(Guide!Rounded(sc, week, up2), week)
                     IN  [k \in DOMAIN g |-> Guide!Max({g[k], 0})]
          BY <3>3, <4>1, <4>2
        <4>4. PICK h2 : h2 = Guide!Repaired(Guide!Rounded(sc, week, up2), week)
          OBVIOUS
        <4>5. h = CutOff(h2)
          BY <4>3, <4>4, Zenon DEF CutOff
        <4>6. IsRepaired(h2, sc, week)
          BY <4>4, Zenon DEF IsRepaired
        <4> QED BY <3>4, <3>6, <4>2, <4>5, <4>6, Zenon
      <3> QED BY <3>5, <3>6
    <2>2. PICK g1 : NearAll(g1, D, f, unit, week) /\ Mended(h1, g1, D, n, week)
      <3>1. PICK up \in SUBSET Guide!Halfway(sh, week) : h1 = Guide!Repaired(Guide!Rounded(sh, week, up), week)
        BY <2>1 DEF IsRepaired
      <3>2. /\ DOMAIN sh.part = 1 .. n /\ sh.unit = unit /\ sh.part = f
            /\ \A k \in 1 .. n : f[k] \in Nat
            /\ SumFunctionOnSet(f, 1 .. n) >= unit
        BY <1>1, <1>5
      <3>3. PICK h0 : h0 = Guide!Repaired(Guide!Rounded(sh, week, up), week)
        OBVIOUS
      <3>4. n \in Nat \ {0} /\ unit \in Nat \ {0}
        BY <1>2, <1>5
      <3>5. \E g : NearAll(g, 1 .. n, f, unit, week) /\ Mended(h0, g, 1 .. n, n, week)
        BY <3>2, <3>3, <3>4, MendedFacts
      <3> QED BY <1>1, <3>1, <3>3, <3>5, Zenon
    <2>3. /\ 20 * (h1[i] - n) <= week
          /\ (\E k \in D : h1[k] < 0) => 20 * h1[i] <= week + 10
      <3>1. unit \in Nat \ {0}
        BY <1>5
      <3> QED BY <1>2, <1>6, <2>2, <3>1, PlainHours
    <2>4. DOMAIN h1 = D /\ (\A k \in D : h1[k] \in Int) /\ SumFunctionOnSet(h1, D) = week
      BY <2>2 DEF Mended
    <2>5. CASE \E k \in DOMAIN h1 : h1[k] < 0
      <3>1. PICK sc, up2, h2 :
               /\ sc = Guide!Scaled(h1) /\ up2 \in SUBSET Guide!Halfway(sc, week)
               /\ h2 = Guide!Repaired(Guide!Rounded(sc, week, up2), week)
               /\ h = [k \in DOMAIN h2 |-> Guide!Max({h2[k], 0})]
        BY <2>1, <2>5 DEF IsRepaired, CutOff
      <3>2. PICK c, T : c = sc.part /\ T = sc.unit
        OBVIOUS
      <3>3. /\ DOMAIN sc.part = D
            /\ \A k \in D : c[k] \in Nat /\ c[k] = IF h1[k] >= 0 THEN h1[k] ELSE 0
            /\ T = SumFunctionOnSet(c, D) /\ T \in Nat /\ week <= T
        BY <1>1, <1>2, <2>4, <3>1, <3>2, ScaledHours, SMTT(60)
      <3>4. T \in Nat \ {0} /\ SumFunctionOnSet(c, D) >= T
        BY <1>8, <3>3
      <3>5. PICK g2 : NearAll(g2, D, c, T, week) /\ Mended(h2, g2, D, n, week)
        <4>1. sc.part = c /\ sc.unit = T /\ \A k \in D : c[k] \in Nat
          BY <3>2, <3>3
        <4>2. \E g2 : /\ NearAll(g2, D, c, T, week)
                      /\ Mended(Guide!Repaired(Guide!Rounded(sc, week, up2), week), g2, D, n, week)
          <5>1. DOMAIN sc.part = 1 .. n /\ \A k \in 1 .. n : c[k] \in Nat
            BY <1>1, <3>3
          <5>2. SumFunctionOnSet(c, 1 .. n) >= T /\ T \in Nat \ {0} /\ n \in Nat \ {0}
            BY <1>1, <1>2, <3>4
          <5>3. up2 \in SUBSET Guide!Halfway(sc, week)
            BY <3>1
          <5> QED BY <1>1, <4>1, <5>1, <5>2, <5>3, MendedFacts
        <4> QED BY <3>1, <4>2, Zenon
      <3>6. 20 * h1[i] <= week + 10 /\ h1[i] \in Int
        BY <1>2, <2>3, <2>4, <2>5
      <3>7. 20 * (Guide!Max({h2[i], 0}) - n) <= week
        BY <1>2, <3>3, <3>4, <3>5, <3>6, AgainHours
      <3>8. DOMAIN h2 = D
        BY <3>5 DEF Mended
      <3>9. h[i] = Guide!Max({h2[i], 0})
        BY <1>2, <3>1, <3>8
      <3> QED BY <3>7, <3>9
    <2>6. CASE ~ (\E k \in DOMAIN h1 : h1[k] < 0)
      BY <2>1, <2>3, <2>6
    <2> QED BY <2>5, <2>6
  <1> QED BY <1>7, <1>8

\* By how stable their subjects are, of equal ones by number.
LEMMA StabilityOrder ==
  ASSUME NEW S, S \subseteq Nat, NEW acc, \A p \in S : acc[p] \in Int, NEW R,
         R = {c \in S \X S : acc[c[1]] > acc[c[2]] \/ (acc[c[1]] = acc[c[2]] /\ c[1] < c[2])}
  PROVE  StrictOrder(S, R)
  <1>1. \A p, q \in S : <<p, q>> \in R <=> acc[p] > acc[q] \/ (acc[p] = acc[q] /\ p < q)
    OBVIOUS
  <1>2. \A p \in S : acc[p] \in Int /\ p \in Nat
    OBVIOUS
  <1> QED BY <1>1, <1>2 DEF StrictOrder

\* What is to be skipped is of a stable subject and not to be solved.
LEMMA SkipFacts ==
  ASSUME NEW user, UserStates(user), NEW n \in Nat, NEW ps, DOMAIN ps = 1 .. n, NEW k \in Nat,
         NEW chosen, NEW s, s = Guide!ToSkip(user, ps, chosen, k)
  PROVE  \A i \in DOMAIN s :
            /\ s[i] \in DOMAIN ps /\ ps[s[i]].subject \in Guide!Subjects(user)
            /\ Guide!StateOf(user, ps[s[i]].subject).acc >= 8
            /\ \A j \in DOMAIN chosen : chosen[j] # s[i]
  <1>1. PICK D : D = 1 .. n
    OBVIOUS
  <1>2. DOMAIN ps = D /\ IsFiniteSet(D) /\ D \subseteq Nat
    BY <1>1, UpToIsFinite
  <1>3. PICK acc : acc = [p \in D |-> Guide!StateOf(user, ps[p].subject).acc]
    OBVIOUS
  <1>4. PICK C : C = {p \in D : /\ ps[p].subject \in Guide!Subjects(user) /\ acc[p] >= 8
                                /\ \A j \in DOMAIN chosen : chosen[j] # p}
    OBVIOUS
  <1>5. PICK R : R = {c \in C \X C : acc[c[1]] > acc[c[2]] \/ (acc[c[1]] = acc[c[2]] /\ c[1] < c[2])}
    OBVIOUS
  <1>6. s = FirstOf(Ranked(C, R), k)
    <2>1. C = {p \in DOMAIN ps : /\ ps[p].subject \in Guide!Subjects(user)
                                 /\ Guide!StateOf(user, ps[p].subject).acc >= Guide!Skippable
                                 /\ \A j \in DOMAIN chosen : chosen[j] # p}
      BY <1>2, <1>3, <1>4 DEF Guide!Skippable
    <2>2. \A p \in C : acc[p] = Guide!StateOf(user, ps[p].subject).acc
      BY <1>3, <1>4
    <2>3. R = {c \in C \X C : \/ Guide!StateOf(user, ps[c[1]].subject).acc > Guide!StateOf(user, ps[c[2]].subject).acc
                              \/ (/\ Guide!StateOf(user, ps[c[1]].subject).acc = Guide!StateOf(user, ps[c[2]].subject).acc
                                  /\ c[1] < c[2])}
      BY <1>5, <2>2
    <2> QED BY <2>1, <2>3, GuideLists DEF Guide!ToSkip, Guide!Sorted
  <1>7. IsFiniteSet(C) /\ C \subseteq Nat
    BY <1>2, <1>4, FS_Subset
  <1>8. \A p \in C : acc[p] \in Int
    <2> SUFFICES ASSUME NEW p \in C PROVE acc[p] \in Int
      OBVIOUS
    <2>1. PICK x : x = ps[p].subject
      OBVIOUS
    <2>2. x \in Guide!Subjects(user) /\ acc[p] = Guide!StateOf(user, x).acc
      BY <1>3, <1>4, <2>1
    <2> QED BY <2>2, StateOfSubject
  <1>9. StrictOrder(C, R)
    BY <1>5, <1>7, <1>8, StabilityOrder
  <1>10. \A i \in DOMAIN s : s[i] \in C
    BY <1>6, <1>7, <1>9, FirstOfSorted
  <1> QED BY <1>2, <1>3, <1>4, <1>10

LEMMA AccuraciesFacts ==
  ASSUME NEW user, UserStates(user), NEW n \in 1 .. 8, DOMAIN user = 1 .. n,
         NEW acc, acc = [i \in DOMAIN user |-> user[i].acc]
  PROVE  AreAccuracies(acc, n)
  <1>1. acc \in [1 .. n -> 0 .. 10]
    BY DEF UserStates
  <1>2. acc \in Seq(0 .. 10)
    BY <1>1
  <1>3. Len(acc) \in Nat /\ DOMAIN acc = 1 .. Len(acc)
    BY <1>2
  <1>4. PICK m \in Nat : m = Len(acc)
    BY <1>3
  <1>5. 1 .. m = 1 .. n
    BY <1>1, <1>3, <1>4
  <1>6. m = n
    <2>1. n \in 1 .. m
      BY <1>5
    <2>2. m \in 1 .. n
      BY <1>5, <2>1
    <2> QED BY <2>1, <2>2
  <1> QED BY <1>1, <1>4, <1>6 DEF AreAccuracies

LEMMA SkipsAreKept ==
  ASSUME PracticeInv PROVE Guide!SkipsAreMaintained
  <1> SUFFICES ASSUME planPc = "done" PROVE Guide!SkipsAreMaintained
    BY DEF Guide!SkipsAreMaintained
  <1>1. PICK user, ps : user = request.user /\ ps = request.problems
    OBVIOUS
  <1>2. IsRequest(request)
    BY RequestFacts DEF PracticeInv
  <1>3. UserStates(user) /\ request.nSkip \in Nat /\ request.week \in Nat
    BY <1>1, <1>2 DEF IsRequest
  <1>4. PICK m \in Nat : DOMAIN ps = 1 .. m
    BY <1>1, <1>2 DEF IsRequest
  <1>5. skip = Guide!ToSkip(user, ps, solve, request.nSkip)
    BY <1>1 DEF PracticeInv
  <1>6. \A i \in DOMAIN skip :
            /\ skip[i] \in DOMAIN ps /\ ps[skip[i]].subject \in Guide!Subjects(user)
            /\ Guide!StateOf(user, ps[skip[i]].subject).acc >= 8
            /\ \A j \in DOMAIN solve : solve[j] # skip[i]
    BY <1>3, <1>4, <1>5, SkipFacts
  <1>7. Guide!Range(skip) = {skip[i] : i \in DOMAIN skip} /\ Guide!Range(solve) = {solve[i] : i \in DOMAIN solve}
    BY GuideLists
  <1>8. Guide!Range(skip) \cap Guide!Range(solve) = {}
    BY <1>6, <1>7
  <1>9. ASSUME NEW i \in DOMAIN user, NEW p \in Guide!Range(skip), ps[p].subject = user[i].subject,
               NEW j \in DOMAIN user, user[j].acc < 7
        PROVE  20 * (hours[i] - Len(user)) <= request.week
    <2>1. PICK n : n = Len(user)
      OBVIOUS
    <2>2. n \in Nat /\ DOMAIN user = 1 .. n
      BY <1>1, <1>2, <2>1 DEF IsRequest
    <2>3. n \in 1 .. 8
      <3>1. PICK k \in 0 .. 8 : DOMAIN user = 1 .. k
        BY <1>3 DEF UserStates
      <3>2. i \in 1 .. n /\ 1 .. n = 1 .. k
        BY <1>9, <2>2, <3>1
      <3>3. n \in 1 .. k
        BY <2>2, <3>2
      <3> QED BY <2>2, <3>1, <3>3
    <2>4. PICK acc : acc = [x \in DOMAIN user |-> user[x].acc]
      OBVIOUS
    <2>5. AreAccuracies(acc, n)
      BY <1>3, <2>2, <2>3, <2>4, AccuraciesFacts
    <2>6. Guide!Accuracies = acc
      BY <1>1, <2>4 DEF Guide!Accuracies
    <2>7. user # <<>>
      BY <1>9
    <2>8. hours \in Guide!Allocations(acc, request.week)
      BY <1>1, <2>6, <2>7 DEF PracticeInv
    <2>9. acc[i] >= 7
      <3>1. Guide!StateOf(user, user[i].subject).acc >= 8
        BY <1>6, <1>7, <1>9
      <3>2. Guide!StateOf(user, user[i].subject) = user[i]
        BY <1>3, StateIsTheOne
      <3>3. user[i].acc \in 0 .. 10
        BY <1>3 DEF UserStates
      <3> QED BY <2>4, <3>1, <3>2, <3>3
    <2>10. acc[j] < 7
      BY <1>9, <2>4
    <2>11. i \in 1 .. n /\ j \in 1 .. n
      BY <2>2
    <2> QED BY <1>3, <2>1, <2>3, <2>5, <2>8, <2>9, <2>10, <2>11, AllocationFacts
  <1>10. \A i \in DOMAIN request.user :
              /\ \E p \in Guide!Range(skip) : request.problems[p].subject = request.user[i].subject
              /\ \E j \in DOMAIN request.user : request.user[j].acc < Guide!Stable
              => 20 * (hours[i] - Guide!Slack) <= request.week
    BY <1>1, <1>9 DEF Guide!Stable, Guide!Slack
  <1> QED BY <1>8, <1>10, Zenon DEF Guide!SkipsAreMaintained

-----------------------------------------------------------------------------
(* The weeks of a plan.                                                    *)

LEMMA LesserOfTwo ==
  ASSUME NEW a \in Int, NEW b \in Int
  PROVE  Guide!Min({a, b}) = IF a <= b THEN a ELSE b
  <1>1. PICK m \in {a, b} : m = IF a <= b THEN a ELSE b
    OBVIOUS
  <1>2. \A k \in {a, b} : m <= k
    BY <1>1
  <1>3. Guide!Min({a, b}) \in {a, b} /\ \A k \in {a, b} : Guide!Min({a, b}) <= k
    BY <1>2, Zenon DEF Guide!Min
  <1> QED BY <1>1, <1>2, <1>3

\* The number of weeks (study_plan.py): as many as the days take, as far as max_weeks allows, and one
\* at least.
LEMMA WeeksCover ==
  ASSUME NEW d \in Nat, NEW T, T = Guide!TotalWeeks(d)
  PROVE  /\ T \in Nat \ {0} /\ T <= MaxWeeks
         /\ T = 1 \/ 7 * (T - 1) < d
         /\ d <= 7 * MaxWeeks => d <= 7 * T
  <1>1. MaxWeeks \in Nat \ {0}
    BY PlanningAssumption DEF Guide!StudyPlanAssumption
  <1>2. PICK c \in Nat : c = (d + 7 - 1) \div 7 /\ 7 * (c - 1) < d /\ d <= 7 * c
    OBVIOUS
  <1>3. PICK m \in Nat : m = Guide!Min({MaxWeeks, c}) /\ m = IF MaxWeeks <= c THEN MaxWeeks ELSE c
    BY <1>1, LesserOfTwo
  <1>4. Guide!Max({1, m}) = IF 1 >= m THEN 1 ELSE m
    BY GreaterOfTwo
  <1>5. T = Guide!Max({1, m})
    BY <1>2, <1>3 DEF Guide!TotalWeeks, Guide!CeilDiv
  <1> QED BY <1>1, <1>2, <1>3, <1>4, <1>5

\* The weeks follow on each other from today to the examination.
DaysFollow(dr, d, T) ==
    /\ dr[1].from = d
    /\ \A k \in 2 .. T : dr[k].from = dr[k - 1].to - 1 /\ dr[k].from > 0
    /\ d <= 7 * T => dr[T].to <= 1

LEMMA DaysFollowOn ==
  ASSUME NEW d \in Nat, NEW T \in Nat \ {0}, T = 1 \/ 7 * (T - 1) < d,
         NEW dr, dr = [k \in 1 .. T |-> Guide!DaysRange(d, k)]
  PROVE  DaysFollow(dr, d, T)
  <1>1. ASSUME NEW k \in 1 .. T
        PROVE  \E x \in Int : /\ x = d - 7 * (k - 1)
                              /\ dr[k].from = (IF x >= 0 THEN x ELSE 0)
                              /\ dr[k].to = IF dr[k].from - 6 >= 0 THEN dr[k].from - 6 ELSE 0
    <2>1. PICK x \in Int : x = d - 7 * (k - 1)
      OBVIOUS
    <2>2. PICK y \in Int : y = Guide!Max({x, 0}) /\ y = IF x >= 0 THEN x ELSE 0
      BY GreaterOfTwo
    <2>3. PICK z \in Int : z = y - 6
      OBVIOUS
    <2>4. Guide!Max({z, 0}) = IF z >= 0 THEN z ELSE 0
      BY GreaterOfTwo
    <2>5. dr[k] = [from |-> y, to |-> Guide!Max({z, 0})]
      BY <2>1, <2>2, <2>3 DEF Guide!DaysRange
    <2> QED BY <2>1, <2>2, <2>3, <2>4, <2>5
  <1>2. dr[1].from = d
    BY <1>1
  <1>3. ASSUME NEW k \in 2 .. T PROVE dr[k].from = dr[k - 1].to - 1 /\ dr[k].from > 0
    <2>1. k \in 1 .. T /\ k - 1 \in 1 .. T
      OBVIOUS
    <2> QED BY <1>1, <2>1
  <1>4. ASSUME d <= 7 * T PROVE dr[T].to <= 1
    BY <1>1, <1>4
  <1> QED BY <1>2, <1>3, <1>4 DEF DaysFollow

\* Each of 1 .. Cardinality(S) elements of a sorted set is below its rank.
LEMMA RankedFirst ==
  ASSUME NEW S, IsFiniteSet(S), NEW R, StrictOrder(S, R), NEW m \in 0 .. Cardinality(S)
  PROVE  Cardinality({x \in S : Rank(S, R, x) < m}) = m
  <1> DEFINE X == {x \in S : Rank(S, R, x) < m}
             T == 0 .. m - 1
             f == [x \in X |-> Rank(S, R, x)]
  <1>1. Cardinality(S) \in Nat
    BY FS_CardinalityType
  <1>2. \A x \in S : Rank(S, R, x) \in Nat /\ Rank(S, R, x) \in 0 .. Cardinality(S) - 1
    BY <1>1, RankBelow
  <1>3. f \in [X -> T]
    BY <1>1, <1>2
  <1>4. ASSUME NEW x \in X, NEW y \in X, f[x] = f[y] PROVE x = y
    <2>1. Rank(S, R, x) \in Nat /\ Rank(S, R, x) = Rank(S, R, y)
      BY <1>2, <1>4
    <2>2. <<x, y>> \in R => Rank(S, R, x) < Rank(S, R, y)
      BY RankGrows
    <2>3. <<y, x>> \in R => Rank(S, R, y) < Rank(S, R, x)
      BY RankGrows
    <2>4. ~ (<<x, y>> \in R) /\ ~ (<<y, x>> \in R)
      BY <2>1, <2>2, <2>3
    <2> QED BY <2>4 DEF StrictOrder
  <1>5. ASSUME NEW i \in T PROVE \E x \in X : f[x] = i
    <2>1. i \in 0 .. Cardinality(S) - 1 /\ i < m
      BY <1>1
    <2>2. PICK x \in S : Rank(S, R, x) = i
      BY <2>1, RanksAreTaken
    <2> QED BY <2>1, <2>2
  <1>6. IsFiniteSet(X)
    BY FS_Subset
  <1>7. IsFiniteSet(T) /\ Cardinality(T) = m
    <2>1. PICK b \in Int : b = m - 1
      BY <1>1
    <2>2. IsFiniteSet(0 .. b) /\ Cardinality(0 .. b) = IF 0 > b THEN 0 ELSE b - 0 + 1
      BY FS_Interval
    <2> QED BY <1>1, <2>1, <2>2
  <1> HIDE DEF X, T, f
  <1>8. f \in Bijection(X, T)
    BY <1>3, <1>4, <1>5 DEF Bijection, Injection, IsInjective, Surjection
  <1>9. Cardinality(T) = Cardinality(X)
    BY <1>6, <1>8, FS_Bijection DEF ExistsBijection
  <1> QED BY <1>7, <1>9 DEF X

\* m things are shared out by weight: each has the whole part of its share, and those left over go
\* to the first in R, an order in which larger remainders come before smaller ones.
ShareOf(f, m, W, s) == (m * f[s]) \div W
LeftOver(f, m, W, S) == m - SumFunctionOnSet([s \in S |-> ShareOf(f, m, W, s)], S)
SharedOut(f, m, W, S, R, got) ==
    \A s \in S : got[s] = ShareOf(f, m, W, s) + IF Rank(S, R, s) < LeftOver(f, m, W, S) THEN 1 ELSE 0
ByRemainder(f, m, W, S, R) == \A s, t \in S : (m * f[s]) % W > (m * f[t]) % W => <<s, t>> \in R
AreWeights(f, S) == \A s \in S : f[s] \in Nat /\ f[s] > 0

LEMMA SharedOutFacts ==
  ASSUME NEW S, IsFiniteSet(S), S # {}, NEW f, AreWeights(f, S),
         NEW m \in Nat, NEW W, W = SumFunctionOnSet(f, S),
         NEW R, StrictOrder(S, R), ByRemainder(f, m, W, S, R), NEW got, SharedOut(f, m, W, S, R, got)
  PROVE  /\ W \in Nat \ {0}
         /\ \A s \in S : got[s] \in Nat /\ W * got[s] > m * f[s] - W /\ W * got[s] < m * f[s] + W
         /\ SumFunctionOnSet(got, S) = m
  <1>1. W \in Nat \ {0}
    <2>1. PICK s \in S : f[s] \in Nat /\ f[s] > 0
      BY DEF AreWeights
    <2>2. \A t \in S : f[t] \in Nat
      BY DEF AreWeights
    <2>3. W \in Nat
      BY <2>2, SumOfNaturals
    <2>4. f[s] <= W
      BY <2>2, SumOfPart
    <2> QED BY <2>1, <2>3, <2>4
  <1>2. PICK q, r : q = [s \in S |-> (m * f[s]) \div W] /\ r = [s \in S |-> (m * f[s]) % W]
    OBVIOUS
  <1>3. \A s \in S : q[s] \in Nat /\ r[s] \in Nat /\ r[s] < W /\ m * f[s] = W * q[s] + r[s]
    <2> SUFFICES ASSUME NEW s \in S
                 PROVE  q[s] \in Nat /\ r[s] \in Nat /\ r[s] < W /\ m * f[s] = W * q[s] + r[s]
      OBVIOUS
    <2>1. PICK y \in Nat : y = m * f[s]
      BY DEF AreWeights
    <2>2. q[s] = y \div W /\ r[s] = y % W
      BY <1>2, <2>1
    <2> QED BY <1>1, <2>1, <2>2
  <1>4. PICK Q \in Nat : Q = SumFunctionOnSet(q, S)
    <2>1. \A s \in S : q[s] \in Nat
      BY <1>3
    <2> QED BY <2>1, SumOfNaturals
  <1>5. PICK z \in Nat : z = SumFunctionOnSet(r, S)
    <2>1. \A s \in S : r[s] \in Nat
      BY <1>3
    <2> QED BY <2>1, SumOfNaturals
  <1>6. m * W = W * Q + z
    <2>1. PICK a, b : a = [s \in S |-> m * f[s]] /\ b = [s \in S |-> W * q[s]]
      OBVIOUS
    <2>2. SumFunctionOnSet(a, S) = m * W
      <3>1. \A s \in S : f[s] \in Int /\ a[s] = m * f[s]
        BY <2>1 DEF AreWeights
      <3>2. m \in Int
        OBVIOUS
      <3> QED BY <3>1, <3>2, SumOfMultiples, ZenonT(60)
    <2>3. SumFunctionOnSet(b, S) = W * Q
      <3>1. \A s \in S : q[s] \in Int /\ b[s] = W * q[s]
        BY <1>3, <2>1
      <3>2. W \in Int
        BY <1>1
      <3>3. SumFunctionOnSet(b, S) = W * SumFunctionOnSet(q, S)
        BY <3>1, <3>2, SumOfMultiples
      <3> QED BY <1>4, <3>3
    <2>4. \A s \in S : b[s] \in Int /\ r[s] \in Int /\ a[s] = b[s] + r[s]
      BY <1>1, <1>3, <2>1
    <2>5. SumFunctionOnSet(a, S) = SumFunctionOnSet(b, S) + SumFunctionOnSet(r, S)
      BY <2>4, SumOfBoth
    <2> QED BY <1>5, <2>2, <2>3, <2>5
  <1>7. PICK N0 \in Nat : N0 = Cardinality(S)
    BY FS_CardinalityType
  <1>8. PICK left \in Int : left = LeftOver(f, m, W, S) /\ left = m - Q
    BY <1>2, <1>4 DEF LeftOver, ShareOf
  <1>9. W * left = z
    BY <1>1, <1>6, <1>8
  <1>10. left \in Nat
    <2> SUFFICES ASSUME left <= -1 PROVE FALSE
      BY <1>8
    <2>1. W * left <= W * (-1)
      BY <1>1
    <2> QED BY <1>1, <1>9, <2>1
  <1>11. PICK P : P = {s \in S : r[s] # 0}
    OBVIOUS
  <1>12. PICK p \in Nat : p = Cardinality(P) /\ p <= N0
    BY <1>7, <1>11, FS_Subset, FS_CardinalityType
  <1>13. z <= p * (W - 1)
    <2>1. PICK c : c = [s \in P |-> W - 1]
      OBVIOUS
    <2>2. IsFiniteSet(P) /\ P \in SUBSET S /\ \A s \in S \ P : r[s] = 0
      BY <1>11, FS_Subset
    <2>3. SumFunctionOnSet(r, P) = z
      BY <1>3, <1>5, <2>2, SumOfPart
    <2>4. SumFunctionOnSet(c, P) = p * (W - 1)
      <3>1. W - 1 \in Int /\ \A s \in P : c[s] = W - 1
        BY <1>1, <2>1
      <3> QED BY <1>12, <2>2, <3>1, SumOfSame
    <2>5. \A s \in P : r[s] \in Int /\ c[s] \in Int /\ r[s] <= c[s]
      BY <1>1, <1>3, <1>11, <2>1
    <2> QED BY <2>2, <2>3, <2>4, <2>5, SumGrows
  <1>14. left = 0 \/ left < p
    <2> SUFFICES ASSUME left >= p, left # 0 PROVE FALSE
      BY <1>10
    <2>1. PICK d \in Nat : left = p + d
      <3>1. left - p \in Nat /\ left = p + (left - p)
        BY <1>10
      <3> QED BY <3>1
    <2>2. W * left = W * p + W * d /\ p * (W - 1) = W * p - p
      BY <1>1, <2>1
    <2>3. W * d \in Nat /\ (d > 0 => W * d > 0)
      BY <1>1
    <2>4. p = 0 => d > 0
      BY <2>1
    <2>5. W * p \in Int
      BY <1>1
    <2> QED BY <1>9, <1>13, <2>2, <2>3, <2>4, <2>5
  <1>17. PICK e : e = [s \in S |-> IF Rank(S, R, s) < left THEN 1 ELSE 0]
    OBVIOUS
  <1>18. \A s \in S : got[s] = q[s] + e[s] /\ e[s] \in {0, 1}
    BY <1>2, <1>8, <1>17 DEF SharedOut, ShareOf
  <1>19. SumFunctionOnSet(e, S) = left
    <2>1. PICK X : X = {s \in S : Rank(S, R, s) < left}
      OBVIOUS
    <2>2. left \in 0 .. Cardinality(S)
      BY <1>7, <1>10, <1>12, <1>14
    <2>3. Cardinality(X) = left
      BY <2>1, <2>2, RankedFirst, Zenon
    <2>4. IsFiniteSet(X) /\ X \in SUBSET S
      BY <2>1, FS_Subset
    <2>5. \A s \in X : e[s] = 1
      BY <1>17, <2>1
    <2>6. \A s \in S \ X : e[s] = 0
      BY <1>17, <2>1
    <2>10. 1 \in Int
      OBVIOUS
    <2>7. SumFunctionOnSet(e, X) = left * 1
      BY <1>10, <2>3, <2>4, <2>5, <2>10, SumOfSame, Zenon
    <2>8. \A s \in S : e[s] \in Nat
      BY <1>18
    <2>9. SumFunctionOnSet(e, X) = SumFunctionOnSet(e, S)
      BY <2>4, <2>6, <2>8, SumOfPart
    <2> QED BY <1>10, <2>7, <2>9
  <1>20. SumFunctionOnSet(got, S) = m
    <2>1. \A s \in S : q[s] \in Int /\ e[s] \in Int /\ got[s] = q[s] + e[s]
      BY <1>3, <1>18
    <2>2. SumFunctionOnSet(got, S) = SumFunctionOnSet(q, S) + SumFunctionOnSet(e, S)
      BY <2>1, SumOfBoth
    <2> QED BY <1>4, <1>8, <1>19, <2>2
  <1>21. ASSUME NEW s \in S, e[s] = 1 PROVE r[s] # 0
    <2> SUFFICES ASSUME r[s] = 0 PROVE FALSE
      OBVIOUS
    <2>1. Rank(S, R, s) < left
      BY <1>17, <1>21
    <2>2. PICK A : A = {t \in S : <<t, s>> \in R}
      OBVIOUS
    <2>3. P \in SUBSET A
      <3> SUFFICES ASSUME NEW t \in P PROVE t \in A
        OBVIOUS
      <3>1. t \in S /\ r[t] > r[s]
        BY <1>3, <1>11
      <3> QED BY <1>2, <2>2, <3>1 DEF ByRemainder
    <2>4. IsFiniteSet(A) /\ Rank(S, R, s) = Cardinality(A)
      BY <2>2, FS_Subset DEF Rank
    <2>5. p <= Rank(S, R, s) /\ Rank(S, R, s) \in Nat
      BY <1>12, <2>3, <2>4, FS_Subset, FS_CardinalityType
    <2> QED BY <1>10, <1>14, <2>1, <2>5
  <1>22. ASSUME NEW s \in S
         PROVE  got[s] \in Nat /\ W * got[s] > m * f[s] - W /\ W * got[s] < m * f[s] + W
    <2>1. PICK a \in Nat, b \in Nat : a = q[s] /\ b = r[s] /\ b < W /\ m * f[s] = W * a + b
      BY <1>3
    <2>2. CASE e[s] = 0
      <3>1. got[s] = a
        BY <1>18, <2>1, <2>2
      <3>2. W * a \in Nat
        BY <1>1
      <3> QED BY <1>1, <2>1, <3>1, <3>2
    <2>3. CASE e[s] = 1
      <3>1. got[s] = a + 1 /\ b # 0
        BY <1>18, <1>21, <2>1, <2>3
      <3>2. W * (a + 1) = W * a + W /\ W * a \in Nat
        BY <1>1
      <3> QED BY <1>1, <2>1, <3>1, <3>2
    <2> QED BY <1>18, <2>2, <2>3
  <1> QED BY <1>1, <1>20, <1>22

LEMMA GuideCounts == \A S : Guide!Cardinality(S) = Cardinality(S)
  BY DEF Guide!Cardinality, Cardinality

\* Sums of what is the same.
LEMMA SumOfEquals ==
  ASSUME NEW f, NEW g, NEW S, IsFiniteSet(S), \A y \in S : f[y] \in Int /\ g[y] = f[y]
  PROVE  SumFunctionOnSet(g, S) = SumFunctionOnSet(f, S)
  <1>1. \A y \in S : f[y] \in Int /\ g[y] \in Int /\ f[y] <= g[y]
    OBVIOUS
  <1>2. \A y \in S : g[y] \in Int /\ f[y] \in Int /\ g[y] <= f[y]
    OBVIOUS
  <1>3. SumFunctionOnSet(f, S) <= SumFunctionOnSet(g, S)
    BY <1>1, SumGrows
  <1>4. SumFunctionOnSet(g, S) <= SumFunctionOnSet(f, S)
    BY <1>2, SumGrows
  <1>5. SumFunctionOnSet(f, S) \in Int
    BY <1>1, SumFacts
  <1>6. SumFunctionOnSet(g, S) \in Int
    BY <1>2, SumFacts
  <1> QED BY <1>3, <1>4, <1>5, <1>6

\* The stages from a on have n weeks, each one of them at least.
Scheduled(w, a, n) ==
    /\ a \in 1 .. 6 /\ DOMAIN w = a .. 6
    /\ \A s \in a .. 6 : w[s] \in Nat \ {0}
    /\ SumFunctionOnSet(w, a .. 6) = n

\* With weeks to spare, each has what its weight entitles it to, to less than a week.
Weighted(w, c, n) ==
    LET W == SumFunctionOnSet(Guide!StageWeight, c .. 6)
    IN  \A s \in c .. 6 :
           /\ W * (w[s] - 1) > Guide!StageWeight[s] * (n - (7 - c)) - W
           /\ W * (w[s] - 1) < Guide!StageWeight[s] * (n - (7 - c)) + W

\* Of as many weeks as stages, or fewer, each of the last has one.
LEMMA LastStages ==
  ASSUME NEW c \in 1 .. 6, NEW n \in Nat \ {0}, n <= 7 - c, NEW w, w = [s \in 6 - n + 1 .. 6 |-> 1]
  PROVE  /\ Scheduled(w, 6 - n + 1, n)
         /\ n = 7 - c => c = 6 - n + 1 /\ Weighted(w, c, n)
  <1>1. PICK a \in 1 .. 6 : a = 6 - n + 1
    OBVIOUS
  <1>2. IsFiniteSet(a .. 6) /\ Cardinality(a .. 6) = n
    BY <1>1, FS_Interval
  <1>3. DOMAIN w = a .. 6 /\ \A s \in a .. 6 : w[s] = 1
    BY <1>1
  <1>4. SumFunctionOnSet(w, a .. 6) = n * 1
    <2>1. 1 \in Int
      OBVIOUS
    <2> QED BY <1>2, <1>3, <2>1, SumOfSame
  <1>5. Scheduled(w, a, n)
    BY <1>3, <1>4 DEF Scheduled
  <1>6. ASSUME n = 7 - c PROVE c = a /\ Weighted(w, c, n)
    <2>1. c = a
      BY <1>1, <1>6
    <2>2. \A s \in c .. 6 : Guide!StageWeight[s] \in Nat /\ Guide!StageWeight[s] > 0
      BY DEF Guide!StageWeight
    <2>3. PICK D, W : D = c .. 6 /\ W = SumFunctionOnSet(Guide!StageWeight, D)
      OBVIOUS
    <2>4. IsFiniteSet(D) /\ \A s \in D : Guide!StageWeight[s] \in Nat
      BY <1>2, <2>1, <2>2, <2>3
    <2>5. W \in Nat
      BY <2>3, <2>4, SumOfNaturals
    <2>6. c \in D
      BY <2>3
    <2>7. Guide!StageWeight[c] <= W
      BY <2>3, <2>4, <2>6, SumOfPart
    <2>8. W > 0
      BY <2>2, <2>3, <2>5, <2>6, <2>7
    <2>9. n - (7 - c) = 0
      BY <1>6
    <2>10. \A s \in c .. 6 : w[s] - 1 = 0
      BY <1>3, <2>1
    <2>11. ASSUME NEW s \in c .. 6
           PROVE  /\ W * (w[s] - 1) > Guide!StageWeight[s] * (n - (7 - c)) - W
                  /\ W * (w[s] - 1) < Guide!StageWeight[s] * (n - (7 - c)) + W
      <3>1. W * 0 = 0 /\ Guide!StageWeight[s] * 0 = 0
        BY <2>2, <2>5
      <3> QED BY <2>5, <2>8, <2>9, <2>10, <3>1
    <2> QED BY <2>1, <2>3, <2>11, Zenon DEF Weighted
  <1> QED BY <1>1, <1>5, <1>6

\* By remainder, of equal ones the later stage.
LaterFirst(f, m, W, S) ==
    {c \in S \X S : \/ (m * f[c[1]]) % W > (m * f[c[2]]) % W
                    \/ (m * f[c[1]]) % W = (m * f[c[2]]) % W /\ c[1] > c[2]}

LEMMA LaterFirstOrder ==
  ASSUME NEW S, S \subseteq Int, NEW f, \A s \in S : f[s] \in Int, NEW m \in Nat, NEW W \in Nat \ {0}
  PROVE  /\ StrictOrder(S, LaterFirst(f, m, W, S))
         /\ ByRemainder(f, m, W, S, LaterFirst(f, m, W, S))
  <1>1. PICK r : r = [s \in S |-> (m * f[s]) % W]
    OBVIOUS
  <1>2. \A s \in S : r[s] \in Int
    BY <1>1
  <1>3. \A s, t \in S : <<s, t>> \in LaterFirst(f, m, W, S) <=> r[s] > r[t] \/ (r[s] = r[t] /\ s > t)
    BY <1>1 DEF LaterFirst
  <1>4. StrictOrder(S, LaterFirst(f, m, W, S))
    BY <1>2, <1>3 DEF StrictOrder
  <1>5. ByRemainder(f, m, W, S, LaterFirst(f, m, W, S))
    BY <1>1, <1>3 DEF ByRemainder
  <1> QED BY <1>4, <1>5

LEMMA SparedWeeks ==
  ASSUME NEW c \in 1 .. 6, NEW n \in Nat \ {0}, n > 7 - c, NEW w, w = Guide!StageWeeks(c, n)
  PROVE  Scheduled(w, c, n) /\ Weighted(w, c, n)
  <1>1. PICK S : S = c .. 6
    OBVIOUS
  <1>2. IsFiniteSet(S) /\ Cardinality(S) = 7 - c /\ S # {}
    <2>1. IsFiniteSet(S) /\ Cardinality(S) = 7 - c
      BY <1>1, FS_Interval
    <2>2. 6 \in S
      BY <1>1
    <2> QED BY <2>1, <2>2
  <1>3. PICK m \in Nat \ {0} : m = n - (7 - c)
    OBVIOUS
  <1>4. PICK f : f = [s \in S |-> Guide!StageWeight[s]]
    OBVIOUS
  <1>5. AreWeights(f, S) /\ \A s \in S : f[s] \in Int
    <2>1. \A s \in 1 .. 6 : Guide!StageWeight[s] \in Nat /\ Guide!StageWeight[s] > 0
      BY DEF Guide!StageWeight
    <2>2. S \subseteq 1 .. 6
      BY <1>1
    <2> QED BY <1>4, <2>1, <2>2 DEF AreWeights
  <1>6. PICK W : W = SumFunctionOnSet(f, S)
    OBVIOUS
  <1>7. W \in Nat \ {0}
    <2>1. PICK s \in S : f[s] \in Nat /\ f[s] > 0
      BY <1>2, <1>5 DEF AreWeights
    <2>2. \A t \in S : f[t] \in Nat
      BY <1>5 DEF AreWeights
    <2>3. W \in Nat
      BY <1>2, <1>6, <2>2, SumOfNaturals
    <2>4. f[s] <= W
      BY <1>2, <1>6, <2>2, SumOfPart
    <2> QED BY <2>1, <2>3, <2>4
  <1>8. PICK R : R = LaterFirst(f, m, W, S)
    OBVIOUS
  <1>9. StrictOrder(S, R) /\ ByRemainder(f, m, W, S, R)
    <2>1. S \subseteq Int
      BY <1>1
    <2> QED BY <1>5, <1>7, <1>8, <2>1, LaterFirstOrder
  <1>10. PICK q : q = [s \in S |-> ShareOf(f, m, W, s)]
    OBVIOUS
  <1>11. \A s \in S : q[s] \in Int /\ q[s] = (m * f[s]) \div W
    BY <1>5, <1>7, <1>10 DEF ShareOf
  <1>12. PICK left \in Int : left = LeftOver(f, m, W, S) /\ left = m - SumFunctionOnSet(q, S)
    <2>1. SumFunctionOnSet(q, S) \in Int
      BY <1>2, <1>11, SumFacts
    <2> QED BY <1>10, <2>1 DEF LeftOver
  <1>13. PICK raw, count : raw = [s \in S |-> m * Guide!StageWeight[s]] /\ count = [s \in S |-> 1 + raw[s] \div W]
    OBVIOUS
  <1>14. \A s \in S : raw[s] = m * f[s] /\ count[s] = 1 + q[s]
    BY <1>4, <1>11, <1>13
  <1>15. SumFunctionOnSet(count, S) = (7 - c) + SumFunctionOnSet(q, S)
    <2>1. PICK ones : ones = [s \in S |-> 1]
      OBVIOUS
    <2>2. \A s \in S : ones[s] = 1
      BY <2>1
    <2>3. 1 \in Int
      OBVIOUS
    <2>4. SumFunctionOnSet(ones, S) = (7 - c) * 1
      BY <1>2, <2>2, <2>3, SumOfSame, Zenon
    <2>5. \A s \in S : ones[s] \in Int /\ q[s] \in Int /\ count[s] = ones[s] + q[s]
      BY <1>11, <1>14, <2>2
    <2>6. SumFunctionOnSet(count, S) = SumFunctionOnSet(ones, S) + SumFunctionOnSet(q, S)
      BY <1>2, <2>5, SumOfBoth
    <2> QED BY <2>4, <2>6
  <1>16. PICK ahead : ahead = [s \in S |->
            {t \in S : raw[t] % W > raw[s] % W \/ (raw[t] % W = raw[s] % W /\ t > s)}]
    OBVIOUS
  <1>17. w = [s \in S |-> count[s] + IF Guide!Cardinality(ahead[s]) < n - Guide!Total(count) THEN 1 ELSE 0]
    <2> DEFINE st == c .. Guide!Final
               raw0 == [s \in st |-> (n - Guide!Cardinality(st)) * Guide!StageWeight[s]]
               W0 == Guide!Total([s \in st |-> Guide!StageWeight[s]])
               count0 == [s \in st |-> 1 + raw0[s] \div W0]
               ahead0(s) == {t \in st : \/ raw0[t] % W0 > raw0[s] % W0
                                        \/ raw0[t] % W0 = raw0[s] % W0 /\ t > s}
               w0 == [s \in st |-> count0[s] + IF Guide!Cardinality(ahead0(s)) < n - Guide!Total(count0)
                                               THEN 1 ELSE 0]
    <2>1. w = IF n <= Guide!Cardinality(st) THEN [s \in Guide!Final - n + 1 .. Guide!Final |-> 1] ELSE w0
      BY Zenon DEF Guide!StageWeeks
    <2>2. st = S
      BY <1>1 DEF Guide!Final
    <2>3. Guide!Cardinality(st) = 7 - c
      BY <1>2, <2>2, GuideCounts
    <2>4. raw0 = raw
      BY <1>3, <1>13, <2>2, <2>3
    <2>5. W0 = W
      BY <1>4, <1>6, <2>2, GuideSums
    <2>6. count0 = count
      BY <1>13, <2>2, <2>4, <2>5
    <2>7. \A s \in S : ahead0(s) = ahead[s]
      BY <1>16, <2>2, <2>4, <2>5
    <2>8. w = w0
      BY <2>1, <2>3
    <2> HIDE DEF st, raw0, W0, count0, ahead0
    <2> QED BY <2>2, <2>6, <2>7, <2>8
  <1>18. \A s \in S : Guide!Cardinality(ahead[s]) = Rank(S, R, s)
    <2> SUFFICES ASSUME NEW s \in S PROVE Guide!Cardinality(ahead[s]) = Rank(S, R, s)
      OBVIOUS
    <2>1. ahead[s] = {t \in S : <<t, s>> \in R}
      BY <1>8, <1>14, <1>16, Zenon DEF LaterFirst
    <2> QED BY <2>1, GuideCounts DEF Rank
  <1>19. n - Guide!Total(count) = left
    <2>1. DOMAIN count = S
      BY <1>13
    <2>2. Guide!Total(count) = SumFunctionOnSet(count, S)
      BY <2>1, GuideSums
    <2>3. SumFunctionOnSet(q, S) \in Int
      BY <1>2, <1>11, SumFacts
    <2> QED BY <1>3, <1>12, <1>15, <2>2, <2>3
  <1>20. PICK got : got = [s \in S |-> w[s] - 1]
    OBVIOUS
  <1>21. \A s \in S : w[s] = 1 + q[s] + IF Rank(S, R, s) < left THEN 1 ELSE 0
    BY <1>14, <1>17, <1>18, <1>19
  <1>22. SharedOut(f, m, W, S, R, got)
    BY <1>10, <1>11, <1>12, <1>20, <1>21 DEF SharedOut
  <1>23. /\ \A s \in S : got[s] \in Nat /\ W * got[s] > m * f[s] - W /\ W * got[s] < m * f[s] + W
         /\ SumFunctionOnSet(got, S) = m
    BY <1>2, <1>3, <1>5, <1>6, <1>9, <1>22, SharedOutFacts
  <1>24. \A s \in S : w[s] = got[s] + 1 /\ w[s] \in Nat \ {0}
    BY <1>11, <1>20, <1>21, <1>23
  <1>25. SumFunctionOnSet(w, S) = n
    <2>1. PICK ones : ones = [s \in S |-> 1]
      OBVIOUS
    <2>2. \A s \in S : ones[s] = 1
      BY <2>1
    <2>3. 1 \in Int
      OBVIOUS
    <2>4. SumFunctionOnSet(ones, S) = (7 - c) * 1
      BY <1>2, <2>2, <2>3, SumOfSame, Zenon
    <2>5. \A s \in S : got[s] \in Int /\ ones[s] \in Int /\ w[s] = got[s] + ones[s]
      BY <1>23, <1>24, <2>2
    <2>6. SumFunctionOnSet(w, S) = SumFunctionOnSet(got, S) + SumFunctionOnSet(ones, S)
      BY <1>2, <2>5, SumOfBoth
    <2> QED BY <1>3, <1>23, <2>4, <2>6
  <1>26. Scheduled(w, c, n)
    <2>1. DOMAIN w = c .. 6
      BY <1>1, <1>17
    <2> QED BY <1>1, <1>24, <1>25, <2>1 DEF Scheduled
  <1>27. Weighted(w, c, n)
    <2>1. \A s \in S : f[s] \in Int /\ Guide!StageWeight[s] = f[s]
      BY <1>4, <1>5
    <2>2. SumFunctionOnSet(Guide!StageWeight, S) = W
      BY <1>2, <1>6, <2>1, SumOfEquals
    <2>3. ASSUME NEW s \in S
          PROVE  /\ W * (w[s] - 1) > Guide!StageWeight[s] * (n - (7 - c)) - W
                 /\ W * (w[s] - 1) < Guide!StageWeight[s] * (n - (7 - c)) + W
      <3>1. w[s] - 1 = got[s]
        BY <1>23, <1>24
      <3>2. Guide!StageWeight[s] * (n - (7 - c)) = m * f[s]
        BY <1>3, <2>1
      <3> QED BY <1>23, <3>1, <3>2
    <2> QED BY <1>1, <2>2, <2>3 DEF Weighted
  <1> QED BY <1>26, <1>27

\* _distribute_stage_weeks (study_plan.py): every week is of a stage, the stages keep their order, and
\* one is left out only with all before it.
LEMMA StagesAreScheduled ==
  ASSUME NEW c \in 1 .. 6, NEW n \in Nat \ {0}, NEW w, w = Guide!StageWeeks(c, n)
  PROVE  /\ \E a \in c .. 6 : Scheduled(w, a, n) /\ (a = c \/ n < 7 - c)
         /\ n >= 7 - c => Weighted(w, c, n)
  <1>1. CASE n > 7 - c
    BY <1>1, SparedWeeks
  <1>2. CASE n <= 7 - c
    <2>1. PICK a \in c .. 6 : a = 6 - n + 1
      BY <1>2
    <2>2. w = [s \in a .. 6 |-> 1]
      <3>1. Guide!Cardinality(c .. 6) = 7 - c
        BY FS_Interval, GuideCounts
      <3> QED BY <1>2, <2>1, <3>1 DEF Guide!StageWeeks, Guide!Final
    <2>3. Scheduled(w, a, n) /\ (n = 7 - c => c = a /\ Weighted(w, c, n))
      BY <1>2, <2>1, <2>2, LastStages
    <2> QED BY <1>2, <2>1, <2>3
  <1> QED BY <1>1, <1>2

\* The weeks of the stages before s.
WeeksBefore(w, a, s) == SumFunctionOnSet(w, {t \in a .. 6 : t < s})

LEMMA BeforeFacts ==
  ASSUME NEW w, NEW a, NEW n \in Nat \ {0}, Scheduled(w, a, n)
  PROVE  /\ \A s \in 1 .. 7 : WeeksBefore(w, a, s) \in Nat
         /\ \A s \in 1 .. 7 : s <= a => WeeksBefore(w, a, s) = 0
         /\ \A s \in a .. 6 : WeeksBefore(w, a, s + 1) = WeeksBefore(w, a, s) + w[s]
         /\ WeeksBefore(w, a, 7) = n
         /\ \A s, t \in 1 .. 7 : s <= t => WeeksBefore(w, a, s) <= WeeksBefore(w, a, t)
  <1>1. PICK S : S = a .. 6 /\ IsFiniteSet(S)
    BY FS_Interval DEF Scheduled
  <1>2. \A s \in S : w[s] \in Nat
    BY <1>1 DEF Scheduled
  <1>3. a \in 1 .. 6 /\ SumFunctionOnSet(w, S) = n
    BY <1>1 DEF Scheduled
  <1>4. PICK B : \A s \in 1 .. 7 : B[s] = {t \in S : t < s}
    <2>1. \A s \in 1 .. 7 : [s_1 \in 1 .. 7 |-> {t \in S : t < s_1}][s] = {t \in S : t < s}
      OBVIOUS
    <2> QED BY <2>1
  <1>5. \A s \in 1 .. 7 : WeeksBefore(w, a, s) = SumFunctionOnSet(w, B[s])
    BY <1>1, <1>4 DEF WeeksBefore
  <1>6. \A s \in 1 .. 7 : B[s] \in SUBSET S /\ IsFiniteSet(B[s])
    <2>1. \A s \in 1 .. 7 : B[s] \in SUBSET S
      BY <1>4
    <2> QED BY <1>1, <2>1, FS_Subset
  <1>7. \A s \in 1 .. 7 : WeeksBefore(w, a, s) \in Nat
    <2> SUFFICES ASSUME NEW s \in 1 .. 7 PROVE WeeksBefore(w, a, s) \in Nat
      OBVIOUS
    <2>1. PICK T : T = B[s] /\ IsFiniteSet(T) /\ T \in SUBSET S
      BY <1>6
    <2>2. \A x \in T : w[x] \in Nat
      BY <1>2, <2>1
    <2>3. SumFunctionOnSet(w, T) \in Nat
      BY <2>1, <2>2, SumOfNaturals
    <2> QED BY <1>5, <2>1, <2>3
  <1>8. ASSUME NEW s \in 1 .. 7, s <= a PROVE WeeksBefore(w, a, s) = 0
    <2>1. B[s] = {}
      BY <1>1, <1>3, <1>4, <1>8
    <2> QED BY <1>5, <2>1, SumOfNothing
  <1>9. ASSUME NEW s \in a .. 6 PROVE WeeksBefore(w, a, s + 1) = WeeksBefore(w, a, s) + w[s]
    <2>1. s \in 1 .. 7 /\ s + 1 \in 1 .. 7 /\ s \in S
      BY <1>1, <1>3
    <2>2. PICK T : T = B[s + 1] /\ IsFiniteSet(T) /\ T \in SUBSET S
      BY <1>6, <2>1
    <2>3. \A x \in T : w[x] \in Int
      BY <1>2, <2>2
    <2>4. s \in T /\ T \ {s} = B[s]
      <3>1. T = {t \in S : t < s + 1} /\ B[s] = {t \in S : t < s}
        BY <1>4, <2>1, <2>2
      <3>2. \A t \in S : t \in Int
        BY <1>1
      <3>3. s \in Int /\ s \in T
        BY <2>1, <3>1
      <3>4. \A t \in S : t < s + 1 /\ t # s <=> t < s
        BY <3>2, <3>3
      <3> QED BY <3>1, <3>3, <3>4
    <2>5. SumFunctionOnSet(w, T) = w[s] + SumFunctionOnSet(w, T \ {s})
      <3>1. IsFiniteSet(T)
        BY <2>2
      <3>2. \A x \in T : SumFunctionOnSet(w, T) = w[x] + SumFunctionOnSet(w, T \ {x})
        BY <2>3, <3>1, SumFacts
      <3> QED BY <2>4, <3>2
    <2>6. WeeksBefore(w, a, s) \in Nat /\ w[s] \in Nat
      BY <1>2, <1>7, <2>1
    <2>7. WeeksBefore(w, a, s + 1) = SumFunctionOnSet(w, T) /\ WeeksBefore(w, a, s) = SumFunctionOnSet(w, T \ {s})
      BY <1>5, <2>1, <2>2, <2>4
    <2> QED BY <2>5, <2>6, <2>7
  <1>10. WeeksBefore(w, a, 7) = n
    <2>1. B[7] = {t \in S : t < 7} /\ \A t \in S : t < 7
      BY <1>1, <1>3, <1>4
    <2>3. B[7] = S
      BY <2>1
    <2> QED BY <1>3, <1>5, <2>3
  <1>11. ASSUME NEW s \in 1 .. 7, NEW t \in 1 .. 7, s <= t PROVE WeeksBefore(w, a, s) <= WeeksBefore(w, a, t)
    <2>1. PICK T : T = B[t] /\ IsFiniteSet(T) /\ T \in SUBSET S
      BY <1>6
    <2>2. PICK V : V = B[s] /\ V \in SUBSET T
      BY <1>1, <1>3, <1>4, <1>11, <2>1, SMTT(60)
    <2>3. \A x \in T : w[x] \in Nat
      BY <1>2, <2>1
    <2>4. SumFunctionOnSet(w, V) <= SumFunctionOnSet(w, T)
      BY <2>1, <2>2, <2>3, SumOfPart
    <2> QED BY <1>5, <2>1, <2>2, <2>4
  <1> QED BY <1>7, <1>8, <1>9, <1>10, <1>11

\* The stage of week k is the one whose weeks k is among.
LEMMA WeekIsOfStage ==
  ASSUME NEW w, NEW a, NEW n \in Nat \ {0}, Scheduled(w, a, n), NEW st, st = Guide!WeekStages(w)
  PROVE  /\ DOMAIN st = 1 .. n /\ \A k \in 1 .. n : st[k] \in a .. 6
         /\ \A k \in 1 .. n, s \in a .. 6 :
               st[k] = s <=> WeeksBefore(w, a, s) < k /\ k <= WeeksBefore(w, a, s) + w[s]
  <1>1. a \in 1 .. 6 /\ DOMAIN w = a .. 6 /\ SumFunctionOnSet(w, a .. 6) = n
    BY DEF Scheduled
  <1>2. \A s \in a .. 6 : w[s] \in Nat \ {0}
    BY DEF Scheduled
  <1>3. Guide!Total(w) = n
    BY <1>1, GuideSums
  <1>4. PICK P : P = [s \in 1 .. 7 |-> WeeksBefore(w, a, s)]
    OBVIOUS
  <1>5. /\ \A s \in 1 .. 7 : P[s] \in Nat /\ (s <= a => P[s] = 0)
        /\ \A s \in a .. 6 : P[s + 1] = P[s] + w[s]
        /\ P[7] = n /\ \A s, t \in 1 .. 7 : s <= t => P[s] <= P[t]
    <2>1. /\ \A s \in 1 .. 7 : WeeksBefore(w, a, s) \in Nat
          /\ \A s \in 1 .. 7 : s <= a => WeeksBefore(w, a, s) = 0
          /\ \A s \in a .. 6 : WeeksBefore(w, a, s + 1) = WeeksBefore(w, a, s) + w[s]
          /\ WeeksBefore(w, a, 7) = n
          /\ \A s, t \in 1 .. 7 : s <= t => WeeksBefore(w, a, s) <= WeeksBefore(w, a, t)
      BY BeforeFacts
    <2>2. \A s \in a .. 6 : s \in 1 .. 7 /\ s + 1 \in 1 .. 7
      BY <1>1
    <2> QED BY <1>4, <2>1, <2>2
  <1>6. DOMAIN st = 1 .. n
    BY <1>3 DEF Guide!WeekStages
  <1>7. ASSUME NEW k \in 1 .. n PROVE \E s \in a .. 6 : P[s] < k /\ k <= P[s] + w[s]
    <2> SUFFICES ASSUME \A s \in a .. 6 : ~ (P[s] < k /\ k <= P[s] + w[s]) PROVE FALSE
      OBVIOUS
    <2>1. ASSUME NEW s \in 1 .. 6, P[s] < k PROVE P[s + 1] < k
      <3>1. CASE s < a
        <4>1. s + 1 \in 1 .. 7 /\ s + 1 <= a
          BY <1>1, <3>1
        <4>2. P[s + 1] = 0
          BY <1>5, <4>1
        <4> QED BY <4>2
      <3>2. CASE s >= a
        <4>1. s \in a .. 6 /\ s \in 1 .. 7
          BY <1>1, <3>2
        <4>2. P[s + 1] = P[s] + w[s] /\ P[s] \in Nat /\ w[s] \in Nat
          BY <1>2, <1>5, <4>1
        <4> QED BY <2>1, <4>1, <4>2
      <3> QED BY <1>1, <3>1, <3>2
    <2>2. P[1] < k
      <3>1. 1 \in 1 .. 7 /\ 1 <= a
        BY <1>1
      <3>2. P[1] = 0
        BY <1>5, <3>1
      <3> QED BY <3>2
    <2>3. P[1 + 1] < k
      BY <2>1, <2>2
    <2>4. P[2 + 1] < k
      BY <2>1, <2>3
    <2>5. P[3 + 1] < k
      BY <2>1, <2>4
    <2>6. P[4 + 1] < k
      BY <2>1, <2>5
    <2>7. P[5 + 1] < k
      BY <2>1, <2>6
    <2>8. P[6 + 1] < k
      BY <2>1, <2>7
    <2> QED BY <1>5, <2>8
  <1>8. ASSUME NEW k \in 1 .. n, NEW s \in a .. 6, NEW t \in a .. 6,
               P[s] < k, k <= P[s] + w[s], P[t] < k, k <= P[t] + w[t]
        PROVE  s = t
    <2>1. s \in 1 .. 7 /\ t \in 1 .. 7 /\ s + 1 \in 1 .. 7 /\ t + 1 \in 1 .. 7
      BY <1>1
    <2>2. P[s + 1] >= k /\ P[t + 1] >= k
      BY <1>5, <1>8
    <2>3. ~ (s < t)
      <3> SUFFICES ASSUME s < t PROVE FALSE
        OBVIOUS
      <3>1. P[s + 1] \in Nat /\ P[t] \in Nat
        BY <1>5, <2>1
      <3>2. s + 1 <= t
        BY <2>1
      <3>3. PICK v \in 1 .. 7 : v = s + 1
        BY <2>1
      <3>4. P[v] <= P[t]
        BY <1>5, <2>1, <3>2, <3>3
      <3> QED BY <1>8, <2>2, <3>1, <3>3, <3>4
    <2>4. ~ (t < s)
      <3> SUFFICES ASSUME t < s PROVE FALSE
        OBVIOUS
      <3>1. P[t + 1] \in Nat /\ P[s] \in Nat
        BY <1>5, <2>1
      <3>2. t + 1 <= s
        BY <2>1
      <3>3. PICK v \in 1 .. 7 : v = t + 1
        BY <2>1
      <3>4. P[v] <= P[s]
        BY <1>5, <2>1, <3>2, <3>3
      <3> QED BY <1>8, <2>2, <3>1, <3>3, <3>4
    <2> QED BY <2>1, <2>3, <2>4
  <1>9. \A s \in a .. 6 : Guide!SumFunctionOnSet(w, {t \in DOMAIN w : t < s}) = P[s]
    <2> SUFFICES ASSUME NEW s \in a .. 6
                 PROVE  Guide!SumFunctionOnSet(w, {t \in DOMAIN w : t < s}) = P[s]
      OBVIOUS
    <2>1. s \in 1 .. 7
      BY <1>1
    <2>2. P[s] = SumFunctionOnSet(w, {t \in a .. 6 : t < s})
      BY <1>4, <2>1 DEF WeeksBefore
    <2> QED BY <1>1, <2>2, GuideSums
  <1>10. ASSUME NEW k \in 1 .. n
         PROVE  st[k] \in a .. 6 /\ P[st[k]] < k /\ k <= P[st[k]] + w[st[k]]
    <2>1. st[k] = CHOOSE s \in DOMAIN w :
                     /\ Guide!SumFunctionOnSet(w, {t \in DOMAIN w : t < s}) < k
                     /\ k <= Guide!SumFunctionOnSet(w, {t \in DOMAIN w : t < s}) + w[s]
      BY <1>3 DEF Guide!WeekStages
    <2>2. \E s \in DOMAIN w :
             /\ Guide!SumFunctionOnSet(w, {t \in DOMAIN w : t < s}) < k
             /\ k <= Guide!SumFunctionOnSet(w, {t \in DOMAIN w : t < s}) + w[s]
      BY <1>1, <1>7, <1>9
    <2> DEFINE Q(s) == /\ Guide!SumFunctionOnSet(w, {t \in DOMAIN w : t < s}) < k
                       /\ k <= Guide!SumFunctionOnSet(w, {t \in DOMAIN w : t < s}) + w[s]
    <2>3. Q(st[k]) /\ st[k] \in DOMAIN w
      <3>1. st[k] = CHOOSE s \in DOMAIN w : Q(s)
        BY <2>1
      <3>2. \E s \in DOMAIN w : Q(s)
        BY <2>2
      <3> HIDE DEF Q
      <3> QED BY <3>1, <3>2, Zenon
    <2> QED BY <1>1, <1>9, <2>3
  <1>11. \A s \in a .. 6 : P[s] = WeeksBefore(w, a, s)
    BY <1>1, <1>4
  <1>12. ASSUME NEW k \in 1 .. n, NEW s \in a .. 6
         PROVE  st[k] = s <=> P[s] < k /\ k <= P[s] + w[s]
    BY <1>8, <1>10
  <1> QED BY <1>6, <1>10, <1>11, <1>12

\* The stages follow on each other, each for as many weeks as it has.
LEMMA StagesFollow ==
  ASSUME NEW w, NEW a, NEW n \in Nat \ {0}, Scheduled(w, a, n), NEW st, st = Guide!WeekStages(w)
  PROVE  /\ st[1] = a /\ st[n] = 6
         /\ \A k \in 2 .. n : st[k] - st[k - 1] \in {0, 1}
         /\ \A s \in a .. 6 : Cardinality({k \in 1 .. n : st[k] = s}) = w[s]
  <1>1. a \in 1 .. 6 /\ \A s \in a .. 6 : w[s] \in Nat /\ w[s] > 0
    BY DEF Scheduled
  <1>2. PICK P : P = [s \in 1 .. 7 |-> WeeksBefore(w, a, s)]
    OBVIOUS
  <1>3. /\ \A s \in 1 .. 7 : P[s] \in Nat
        /\ \A s \in 1 .. 7 : s <= a => P[s] = 0
        /\ \A s \in a .. 6 : P[s + 1] = P[s] + w[s]
        /\ P[7] = n /\ \A s, t \in 1 .. 7 : s <= t => P[s] <= P[t]
    <2>1. /\ \A s \in 1 .. 7 : WeeksBefore(w, a, s) \in Nat
          /\ \A s \in 1 .. 7 : s <= a => WeeksBefore(w, a, s) = 0
          /\ \A s \in a .. 6 : WeeksBefore(w, a, s + 1) = WeeksBefore(w, a, s) + w[s]
          /\ WeeksBefore(w, a, 7) = n
          /\ \A s, t \in 1 .. 7 : s <= t => WeeksBefore(w, a, s) <= WeeksBefore(w, a, t)
      BY BeforeFacts
    <2>2. \A s \in a .. 6 : s \in 1 .. 7 /\ s + 1 \in 1 .. 7
      BY <1>1
    <2> QED BY <1>2, <2>1, <2>2
  <1>4. \A k \in 1 .. n : st[k] \in a .. 6
    BY WeekIsOfStage
  <1>5. \A k \in 1 .. n, s \in a .. 6 : st[k] = s <=> P[s] < k /\ k <= P[s] + w[s]
    <2>1. \A k \in 1 .. n, s \in a .. 6 :
             st[k] = s <=> WeeksBefore(w, a, s) < k /\ k <= WeeksBefore(w, a, s) + w[s]
      BY WeekIsOfStage
    <2>2. \A s \in a .. 6 : P[s] = WeeksBefore(w, a, s)
      BY <1>1, <1>2
    <2> QED BY <2>1, <2>2
  <1>6. st[1] = a
    <2>1. a \in a .. 6 /\ a \in 1 .. 7 /\ 1 \in 1 .. n
      BY <1>1
    <2>2. P[a] = 0
      BY <1>3, <2>1
    <2>3. w[a] \in Nat /\ w[a] > 0
      BY <1>1, <2>1
    <2> QED BY <1>5, <2>1, <2>2, <2>3
  <1>7. st[n] = 6
    <2>1. 6 \in a .. 6 /\ 6 \in 1 .. 7 /\ n \in 1 .. n
      BY <1>1
    <2>2. P[6] + w[6] = n /\ P[6] \in Nat
      BY <1>3, <2>1
    <2>3. w[6] \in Nat /\ w[6] > 0
      BY <1>1, <2>1
    <2> QED BY <1>5, <2>1, <2>2, <2>3
  <1>8. ASSUME NEW k \in 2 .. n PROVE st[k] - st[k - 1] \in {0, 1}
    <2>1. PICK j \in 1 .. n : j = k - 1
      OBVIOUS
    <2>2. k \in 1 .. n
      OBVIOUS
    <2>3. PICK s \in a .. 6 : s = st[j]
      BY <1>4
    <2>4. PICK t \in a .. 6 : t = st[k]
      BY <1>4, <2>2
    <2>5. P[s] < j /\ j <= P[s] + w[s]
      BY <1>5, <2>3
    <2>6. P[t] < k /\ k <= P[t] + w[t]
      BY <1>5, <2>2, <2>4
    <2>7. PICK v \in 1 .. 7, x \in 1 .. 7 : v = s + 1 /\ x = t + 1
      BY <1>1
    <2>8. P[v] = P[s] + w[s] /\ P[x] = P[t] + w[t]
      BY <1>3, <2>7
    <2>9. P[s] \in Nat /\ P[t] \in Nat /\ P[v] \in Nat /\ P[x] \in Nat /\ s \in 1 .. 7 /\ t \in 1 .. 7
      BY <1>1, <1>3
    <2>10. ~ (t < s)
      <3> SUFFICES ASSUME t < s PROVE FALSE
        OBVIOUS
      <3>1. x <= s
        BY <1>1, <2>7
      <3>2. P[x] <= P[s]
        BY <1>3, <2>7, <2>9, <3>1
      <3> QED BY <2>1, <2>5, <2>6, <2>8, <2>9, <3>2
    <2>11. ~ (t > s + 1)
      <3> SUFFICES ASSUME t > s + 1 PROVE FALSE
        OBVIOUS
      <3>1. v \in a .. 6 /\ v + 1 <= t
        BY <1>1, <2>7
      <3>2. PICK y \in 1 .. 7 : y = v + 1
        BY <1>1, <3>1
      <3>3. P[y] = P[v] + w[v]
        BY <1>3, <3>1, <3>2
      <3>4. P[y] <= P[t]
        BY <1>3, <2>9, <3>1, <3>2
      <3>5. w[v] \in Nat /\ w[v] > 0
        BY <1>1, <3>1
      <3> QED BY <2>1, <2>5, <2>6, <2>8, <2>9, <3>3, <3>4, <3>5
    <2>12. t = s \/ t = s + 1
      BY <1>1, <2>10, <2>11
    <2> QED BY <1>1, <2>1, <2>3, <2>4, <2>12
  <1>9. ASSUME NEW s \in a .. 6 PROVE Cardinality({k \in 1 .. n : st[k] = s}) = w[s]
    <2>1. s \in 1 .. 7 /\ 7 \in 1 .. 7 /\ s + 1 \in 1 .. 7
      BY <1>1
    <2>2. PICK v \in 1 .. 7 : v = s + 1
      BY <2>1
    <2>3. PICK p \in Nat, q \in Nat : p = P[s] /\ q = w[s]
      BY <1>1, <1>3, <2>1
    <2>4. p + q <= n
      <3>1. P[v] = P[s] + w[s]
        BY <1>3, <2>2
      <3>2. v <= 7
        OBVIOUS
      <3>3. P[v] <= P[7]
        BY <1>3, <2>1, <3>2
      <3> QED BY <1>3, <2>3, <3>1, <3>3
    <2>5. PICK b \in Int, e \in Int : b = p + 1 /\ e = p + q
      BY <2>3
    <2>6. {k \in 1 .. n : st[k] = s} = b .. e
      <3>1. \A k \in 1 .. n : st[k] = s <=> p < k /\ k <= p + q
        BY <1>5, <2>3
      <3>2. \A k \in b .. e : k \in 1 .. n /\ p < k /\ k <= p + q
        BY <2>4, <2>5
      <3>3. \A k \in 1 .. n : p < k /\ k <= p + q => k \in b .. e
        BY <2>5
      <3> QED BY <3>1, <3>2, <3>3
    <2>7. Cardinality(b .. e) = IF b > e THEN 0 ELSE e - b + 1
      BY FS_Interval
    <2>8. Cardinality(b .. e) = w[s]
      BY <2>3, <2>5, <2>7, SMTT(60)
    <2> QED BY <2>6, <2>8
  <1> QED BY <1>6, <1>7, <1>8, <1>9

\* What the plan says of the weeks and their stages, if they are those of build_study_plan.
PlanWeeks ==
    LET n == Guide!TotalWeeks(request.days)
    IN  /\ stages = Guide!WeekStages(Guide!StageWeeks(request.stage, n))
        /\ days = [k \in DOMAIN stages |-> Guide!DaysRange(request.days, k)]

LEMMA WeeksReachExam ==
  ASSUME PlanWeeks, request.days \in Nat, request.stage \in 1 .. 6
  PROVE  Guide!WeeksLeadToExam
  <1>1. PICK T : T = Guide!TotalWeeks(request.days)
    OBVIOUS
  <1>2. /\ T \in Nat \ {0} /\ T <= MaxWeeks
        /\ T = 1 \/ 7 * (T - 1) < request.days
        /\ request.days <= 7 * MaxWeeks => request.days <= 7 * T
    BY <1>1, WeeksCover
  <1>3. PICK c \in 1 .. 6 : c = request.stage
    OBVIOUS
  <1>4. PICK w : w = Guide!StageWeeks(c, T)
    OBVIOUS
  <1>5. /\ \E a \in c .. 6 : Scheduled(w, a, T) /\ (a = c \/ T < 7 - c)
        /\ T >= 7 - c => Weighted(w, c, T)
    BY <1>2, <1>4, StagesAreScheduled
  <1>6. PICK a \in c .. 6 : Scheduled(w, a, T) /\ (a = c \/ T < 7 - c)
    BY <1>5
  <1>7. stages = Guide!WeekStages(w)
    BY <1>1, <1>3, <1>4 DEF PlanWeeks
  <1>8. DOMAIN stages = 1 .. T /\ \A k \in 1 .. T : stages[k] \in a .. 6
    BY <1>2, <1>6, <1>7, WeekIsOfStage
  <1>9. /\ stages[1] = a /\ stages[T] = 6
        /\ \A k \in 2 .. T : stages[k] - stages[k - 1] \in {0, 1}
        /\ \A s \in a .. 6 : Cardinality({k \in 1 .. T : stages[k] = s}) = w[s]
    BY <1>2, <1>6, <1>7, StagesFollow
  <1>10. DaysFollow(days, request.days, T)
    <2>1. days = [k \in 1 .. T |-> Guide!DaysRange(request.days, k)]
      BY <1>8 DEF PlanWeeks
    <2> QED BY <1>2, <2>1, DaysFollowOn
  <1>11. Len(stages) = T
    <2> DEFINE Stage(k) == CHOOSE s \in DOMAIN w :
                              LET before_1 == Guide!SumFunctionOnSet(w, {t \in DOMAIN w : t < s})
                              IN  before_1 < k /\ k <= before_1 + w[s]
    <2>2. stages = [k \in 1 .. Guide!Total(w) |-> Stage(k)]
      BY <1>7, Zenon DEF Guide!WeekStages
    <2> HIDE DEF Stage
    <2>1. stages = [k \in 1 .. T |-> Stage(k)]
      BY <1>8, <2>2
    <2> QED BY <1>2, <2>1
  <1>12. Guide!Cardinality(c .. 6) = 7 - c
    BY FS_Interval, GuideCounts
  <1>13. Guide!SumFunctionOnSet(Guide!StageWeight, c .. 6) = SumFunctionOnSet(Guide!StageWeight, c .. 6)
    BY GuideSums
  <1>14. ASSUME T >= 7 - c, NEW s \in c .. 6
         PROVE  LET W == SumFunctionOnSet(Guide!StageWeight, c .. 6)
                    more == W * (Guide!Cardinality(Guide!Weeks(s)) - 1)
                    fair == Guide!StageWeight[s] * (T - (7 - c))
                IN  more > fair - W /\ more < fair + W
    <2>1. a = c
      BY <1>2, <1>6, <1>14
    <2>2. Guide!Cardinality(Guide!Weeks(s)) = w[s]
      BY <1>8, <1>9, <2>1, GuideCounts DEF Guide!Weeks
    <2>3. Weighted(w, c, T)
      BY <1>5, <1>14
    <2> QED BY <2>2, <2>3, Zenon DEF Weighted
  <1>15. ASSUME Guide!Planned
         PROVE  /\ T \in 1 .. MaxWeeks
                /\ days[1].from = request.days
                /\ \A k \in 2 .. T : days[k].from = days[k - 1].to - 1 /\ days[k].from > 0
                /\ request.days <= 7 * MaxWeeks => days[T].to <= 1
                /\ stages[T] = 6
                /\ \A k \in 2 .. T : stages[k] - stages[k - 1] \in {0, 1}
                /\ stages[1] = c \/ T < 7 - c
    <2>1. MaxWeeks \in Nat
      BY PlanningAssumption DEF Guide!StudyPlanAssumption
    <2> QED BY <1>2, <1>6, <1>9, <1>10, <2>1 DEF DaysFollow
  <1>16. request.stage .. Guide!Final = c .. 6 /\ Guide!Final = 6
    BY <1>3 DEF Guide!Final
  <1> DEFINE n0 == Len(stages)
             left == request.stage .. Guide!Final
             W0 == Guide!SumFunctionOnSet(Guide!StageWeight, left)
             short == n0 < Guide!Cardinality(left)
             Even(s) == LET more == W0 * (Guide!Cardinality(Guide!Weeks(s)) - 1)
                            fair == Guide!StageWeight[s] * (n0 - Guide!Cardinality(left))
                        IN  more > fair - W0 /\ more < fair + W0
  <1>17. Guide!Cardinality(left) = 7 - c /\ W0 = SumFunctionOnSet(Guide!StageWeight, c .. 6)
    BY <1>12, <1>13, <1>16
  <1>18. n0 >= Guide!Cardinality(left) => \A s \in left : Even(s)
    BY <1>11, <1>14, <1>16, <1>17
  <1>19. Guide!Planned =>
            /\ n0 \in 1 .. MaxWeeks
            /\ days[1].from = request.days
            /\ \A k \in 2 .. n0 : days[k].from = days[k - 1].to - 1 /\ days[k].from > 0
            /\ request.days <= 7 * MaxWeeks => days[n0].to <= 1
            /\ stages[n0] = Guide!Final
            /\ \A k \in 2 .. n0 : stages[k] - stages[k - 1] \in {0, 1}
            /\ stages[1] = request.stage \/ short
    <2>1. n0 = T
      BY <1>11
    <2>2. short <=> T < 7 - c
      BY <1>17, <2>1
    <2> HIDE DEF n0, left, short
    <2> QED BY <1>3, <1>15, <1>16, <2>1, <2>2
  <1>20. Guide!Planned =>
            /\ n0 \in 1 .. MaxWeeks
            /\ days[1].from = request.days
            /\ \A k \in 2 .. n0 : days[k].from = days[k - 1].to - 1 /\ days[k].from > 0
            /\ request.days <= 7 * MaxWeeks => days[n0].to <= 1
            /\ stages[n0] = Guide!Final
            /\ \A k \in 2 .. n0 : stages[k] - stages[k - 1] \in {0, 1}
            /\ stages[1] = request.stage \/ short
            /\ n0 >= Guide!Cardinality(left) => \A s \in left : Even(s)
    <2> HIDE DEF n0, left, short, Even, W0
    <2> QED BY <1>18, <1>19, Zenon
  <1> QED BY <1>20 DEF Guide!WeeksLeadToExam

\* The numbers of a set, counted from below.
Counted(X, c, r) ==
    /\ c \in Nat /\ IsFiniteSet(X) /\ c = Cardinality(X)
    /\ r = [k \in X |-> Cardinality({j \in X : j < k})]
    /\ \A k \in X : r[k] \in Nat /\ r[k] < c /\ Cardinality({j \in X : j <= k}) = r[k] + 1
    /\ \A j, k \in X : j < k => r[j] < r[k]
    /\ \A i \in Nat : i < c => \E k \in X : r[k] = i

LEMMA CountedFromBelow ==
  ASSUME NEW n \in Nat, NEW X, X \subseteq 1 .. n
  PROVE  \E c, r : Counted(X, c, r)
  <1>0. PICK c, r : c = Cardinality(X) /\ r = [k \in X |-> Cardinality({j \in X : j < k})]
    OBVIOUS
  <1>1. IsFiniteSet(1 .. n)
    BY FS_Interval
  <1>2. IsFiniteSet(X) /\ c \in Nat
    BY <1>0, <1>1, FS_Subset, FS_CardinalityType
  <1>3. PICK R : R = {p \in X \X X : p[1] < p[2]}
    OBVIOUS
  <1>4. \A j, k \in X : <<j, k>> \in R <=> j < k
    BY <1>3
  <1>5. StrictOrder(X, R)
    <2>1. \A k \in X : k \in Int
      OBVIOUS
    <2> QED BY <1>4, <2>1 DEF StrictOrder
  <1>6. \A k \in X : r[k] = Rank(X, R, k)
    <2> SUFFICES ASSUME NEW k \in X PROVE r[k] = Rank(X, R, k)
      OBVIOUS
    <2>1. {j \in X : j < k} = {j \in X : <<j, k>> \in R}
      BY <1>4
    <2> QED BY <1>0, <2>1 DEF Rank
  <1>7. \A k \in X : r[k] \in Nat /\ r[k] < c
    <2>1. \A k \in X : Rank(X, R, k) \in 0 .. Cardinality(X) - 1
      BY <1>2, <1>5, RankBelow
    <2> QED BY <1>0, <1>2, <1>6, <2>1
  <1>8. \A j, k \in X : j < k => r[j] < r[k]
    <2>1. \A j, k \in X : <<j, k>> \in R => Rank(X, R, j) < Rank(X, R, k)
      BY <1>2, <1>5, RankGrows
    <2> QED BY <1>4, <1>6, <2>1
  <1>9. ASSUME NEW i \in Nat, i < c PROVE \E k \in X : r[k] = i
    <2>1. i \in 0 .. Cardinality(X) - 1
      BY <1>0, <1>2, <1>9
    <2>2. PICK k \in X : Rank(X, R, k) = i
      BY <1>2, <1>5, <2>1, RanksAreTaken
    <2> QED BY <1>6, <2>2
  <1>10. ASSUME NEW k \in X PROVE Cardinality({j \in X : j <= k}) = r[k] + 1
    <2>1. PICK B : B = {j \in X : j < k} /\ IsFiniteSet(B) /\ k \notin B
      <3>1. PICK B : B = {j \in X : j < k}
        OBVIOUS
      <3>2. B \in SUBSET X /\ k \notin B
        BY <3>1
      <3> QED BY <1>2, <3>1, <3>2, FS_Subset
    <2>2. {j \in X : j <= k} = B \cup {k}
      <3>1. \A j \in X : j <= k <=> j < k \/ j = k
        OBVIOUS
      <3> QED BY <2>1, <3>1
    <2>3. Cardinality(B \cup {k}) = Cardinality(B) + 1
      BY <2>1, FS_AddElement
    <2> QED BY <1>0, <2>1, <2>2, <2>3
  <1>11. Counted(X, c, r)
    BY <1>0, <1>2, <1>7, <1>8, <1>9, <1>10, Zenon DEF Counted
  <1> QED BY <1>11, Zenon

\* The weeks that are for teaching.
TeachingWeeks(st) == {k \in DOMAIN st : st[k] \in 1 .. 3}

\* Tutorial t is in one week for teaching, if there are any, and in no other.
InOneWeek(t, tu, st, n) ==
    LET in == {k \in 1 .. n : t \in tu[k]}
    IN  IF \E k \in 1 .. n : st[k] \in 1 .. 3
        THEN Cardinality(in) = 1 /\ \A k \in in : st[k] \in 1 .. 3
        ELSE in = {}
InOrder(tu, n) == \A j, k \in 1 .. n : j < k => \A t \in tu[j], u \in tu[k] : t < u

\* _assign_week_content (study_plan.py): the tutorials are dealt out in order, each to one week.
LEMMA TutorialsDealt ==
  ASSUME NEW st, NEW n \in Nat, DOMAIN st = 1 .. n, NEW m \in Nat,
         NEW tu, tu = [k \in 1 .. n |-> Guide!Tutorials(st, k, m)]
  PROVE  (\A t \in 1 .. m : InOneWeek(t, tu, st, n)) /\ InOrder(tu, n)
  <1>1. PICK X : X = TeachingWeeks(st) /\ X \subseteq 1 .. n
    BY DEF TeachingWeeks
  <1>2. PICK c, r : Counted(X, c, r)
    BY <1>1, CountedFromBelow
  <1>3. /\ c \in Nat /\ IsFiniteSet(X)
        /\ \A k \in X : r[k] \in Nat /\ r[k] < c /\ Cardinality({j \in X : j <= k}) = r[k] + 1
        /\ \A j, k \in X : j < k => r[j] < r[k]
        /\ \A i \in Nat : i < c => \E k \in X : r[k] = i
    BY <1>2 DEF Counted
  <1>4. PICK e : e = (m + c - 1) \div c
    OBVIOUS
  <1>5. \A k \in 1 .. n : tu[k] = IF k \notin X THEN {} ELSE {t \in 1 .. m : (t + e - 1) \div e = r[k] + 1}
    <2> SUFFICES ASSUME NEW k \in 1 .. n
                 PROVE  tu[k] = IF k \notin X THEN {} ELSE {t \in 1 .. m : (t + e - 1) \div e = r[k] + 1}
      OBVIOUS
    <2>1. {j \in DOMAIN st : st[j] \in Guide!Teaching} = X
      BY <1>1 DEF TeachingWeeks, Guide!Teaching
    <2>2. Guide!CeilDiv(m, Guide!Cardinality(X)) = e
      BY <1>2, <1>4, GuideCounts DEF Guide!CeilDiv, Counted
    <2>3. tu[k] = IF k \notin X THEN {}
                  ELSE {t \in 1 .. m : Guide!CeilDiv(t, e) = Guide!Cardinality({j \in X : j <= k})}
      BY <2>1, <2>2 DEF Guide!Tutorials
    <2>4. CASE k \notin X
      BY <2>3, <2>4
    <2>5. CASE k \in X
      <3>1. Guide!Cardinality({j \in X : j <= k}) = r[k] + 1
        BY <1>3, <2>5, GuideCounts
      <3> QED BY <2>3, <2>5, <3>1 DEF Guide!CeilDiv
    <2> QED BY <2>4, <2>5
  <1>6. ASSUME c > 0, m > 0 PROVE e \in Nat /\ e > 0 /\ e * c >= m
    <2>1. PICK y \in Nat : y = m + c - 1
      BY <1>3, <1>6
    <2>2. e = y \div c /\ y \div c \in Nat
      BY <1>3, <1>4, <1>6, <2>1
    <2>3. PICK z \in Nat : z < c /\ y = c * e + z
      <3>1. y = c * (y \div c) + (y % c) /\ y % c \in Nat /\ y % c < c
        BY <1>3, <1>6
      <3> QED BY <2>2, <3>1
    <2>4. e # 0
      <3> SUFFICES ASSUME e = 0 PROVE FALSE
        OBVIOUS
      <3>1. c * e = 0
        BY <1>3
      <3> QED BY <1>3, <1>6, <2>1, <2>3, <3>1
    <2>5. PICK v \in Nat : v = c * e /\ v = e * c
      BY <1>3, <2>2
    <2> QED BY <1>3, <1>6, <2>1, <2>2, <2>3, <2>4, <2>5
  <1>7. ASSUME NEW t \in 1 .. m, c > 0
        PROVE  \E q \in Nat : /\ q + 1 = (t + e - 1) \div e /\ q < c
                              /\ e * q < t /\ t <= e * q + e
    <2>1. e \in Nat /\ e > 0 /\ e * c >= m
      BY <1>6, <1>7
    <2>2. PICK y \in Nat : y = t + e - 1
      BY <2>1
    <2>3. PICK d \in Nat : d = y \div e
      BY <2>1
    <2>4. PICK z \in Nat : z < e /\ y = e * d + z
      <3>1. y = e * (y \div e) + (y % e) /\ y % e \in Nat /\ y % e < e
        BY <2>1
      <3> QED BY <2>3, <3>1
    <2>5. d # 0
      <3> SUFFICES ASSUME d = 0 PROVE FALSE
        OBVIOUS
      <3>1. e * d = 0
        BY <2>1
      <3> QED BY <2>1, <2>2, <2>4, <3>1 DEF InOneWeek
    <2>6. PICK q \in Nat : q + 1 = d
      BY <2>3, <2>5
    <2>7. PICK v \in Nat : v = e * q /\ e * d = v + e
      BY <2>1, <2>6
    <2>8. v < t /\ t <= v + e
      BY <2>1, <2>2, <2>4, <2>7
    <2>9. q < c
      <3> SUFFICES ASSUME q >= c PROVE FALSE
        BY <1>3
      <3>1. e * q >= e * c
        BY <1>3, <2>1
      <3> QED BY <1>3, <2>1, <2>7, <2>8, <3>1
    <2> QED BY <2>2, <2>3, <2>6, <2>7, <2>8, <2>9
  <1>8. (\E k \in 1 .. n : st[k] \in 1 .. 3) => c > 0
    <2>1. c = 0 => X = {}
      BY <1>2, <1>3, FS_EmptySet DEF Counted
    <2>2. (\E k \in 1 .. n : st[k] \in 1 .. 3) => X # {}
      BY <1>1 DEF TeachingWeeks
    <2> SUFFICES ASSUME \E k \in 1 .. n : st[k] \in 1 .. 3 PROVE c > 0
      OBVIOUS
    <2>3. c # 0
      BY <2>1, <2>2
    <2> QED BY <1>3, <2>3
  <1>9. ASSUME NEW t \in 1 .. m
        PROVE  InOneWeek(t, tu, st, n)
    <2>1. PICK in : in = {k \in 1 .. n : t \in tu[k]}
      OBVIOUS
    <2>2. \A k \in in : k \in X
      BY <1>5, <2>1
    <2>3. CASE \E k \in 1 .. n : st[k] \in 1 .. 3
      <3>1. c > 0
        BY <1>8, <2>3
      <3>2. PICK q \in Nat : q + 1 = (t + e - 1) \div e /\ q < c
        BY <1>7, <3>1
      <3>3. PICK k \in X : r[k] = q
        BY <1>3, <3>2
      <3>4. k \in in
        BY <1>1, <1>5, <2>1, <3>2, <3>3
      <3>5. ASSUME NEW j \in in PROVE r[j] = q
        <4>1. j \in X /\ j \in 1 .. n /\ t \in tu[j]
          BY <2>1, <2>2
        <4>2. (t + e - 1) \div e = r[j] + 1 /\ r[j] \in Nat
          BY <1>3, <1>5, <4>1, ZenonT(60)
        <4> QED BY <3>2, <4>2
      <3>6. \A j \in in : j = k
        <4> SUFFICES ASSUME NEW j \in in, j # k PROVE FALSE
          OBVIOUS
        <4>1. j \in X /\ r[j] = q /\ j \in Int /\ k \in Int
          BY <1>1, <2>2, <3>5
        <4>2. j < k \/ k < j
          BY <4>1
        <4> QED BY <1>3, <3>3, <4>1, <4>2
      <3>7. in = {k}
        BY <3>4, <3>6
      <3>8. Cardinality({k}) = 1
        BY FS_Singleton
      <3>9. \A j \in in : st[j] \in 1 .. 3
        BY <1>1, <2>2 DEF TeachingWeeks
      <3> QED BY <2>1, <2>3, <3>7, <3>8, <3>9 DEF InOneWeek
    <2>4. CASE ~ \E k \in 1 .. n : st[k] \in 1 .. 3
      <3>1. X = {}
        BY <1>1, <2>4 DEF TeachingWeeks
      <3> QED BY <2>1, <2>2, <2>4, <3>1 DEF InOneWeek
    <2> QED BY <2>3, <2>4
  <1>10. ASSUME NEW j \in 1 .. n, NEW k \in 1 .. n, j < k, NEW t \in tu[j], NEW u \in tu[k]
         PROVE  t < u
    <2>1. j \in X /\ k \in X
      BY <1>5
    <2>2. t \in 1 .. m /\ u \in 1 .. m
      BY <1>5, <2>1
    <2>3. (t + e - 1) \div e = r[j] + 1 /\ (u + e - 1) \div e = r[k] + 1
      BY <1>5, <2>1
    <2>4. r[j] \in Nat /\ r[k] \in Nat /\ r[j] < r[k] /\ c > 0
      <3>1. r[j] \in Nat /\ r[k] \in Nat /\ r[k] < c /\ c \in Nat
        BY <1>3, <2>1
      <3>2. r[j] < r[k]
        BY <1>3, <1>10, <2>1
      <3> QED BY <3>1, <3>2
    <2>5. PICK a \in Nat : a + 1 = (t + e - 1) \div e /\ e * a < t /\ t <= e * a + e
      BY <1>7, <2>2, <2>4
    <2>6. PICK b \in Nat : b + 1 = (u + e - 1) \div e /\ e * b < u /\ u <= e * b + e
      BY <1>7, <2>2, <2>4
    <2>11. a + 1 = r[j] + 1 /\ b + 1 = r[k] + 1
      BY <2>3, <2>5, <2>6
    <2>7. a + 1 <= b
      BY <2>4, <2>11
    <2>8. e \in Nat /\ e > 0
      BY <1>6, <2>2, <2>4
    <2>9. PICK v \in Nat, z \in Nat : v = e * a /\ z = e * b
      BY <2>8
    <2>10. e * (a + 1) <= z /\ e * (a + 1) = v + e
      BY <2>7, <2>8, <2>9
    <2>12. t <= v + e /\ z < u
      BY <2>5, <2>6, <2>9
    <2>13. t \in Nat /\ u \in Nat
      BY <2>2
    <2>14. PICK x \in Nat : x = v + e
      BY <2>8, <2>9
    <2>15. t <= x /\ x <= z /\ z < u
      BY <2>10, <2>12, <2>14
    <2> QED BY <2>9, <2>13, <2>14, <2>15
  <1> QED BY <1>9, <1>10 DEF InOrder

\* Of 0 .. c - 1, every Y-th is counted.
LEMMA EveryYth ==
  ASSUME NEW c \in Nat, NEW Y \in Nat \ {0}, NEW z \in Nat, z < Y
  PROVE  Cardinality({i \in 0 .. c - 1 : i % Y = z}) = c \div Y + IF z < c % Y THEN 1 ELSE 0
  <1>1. PICK q \in Nat, r \in Nat : q = c \div Y /\ r = c % Y /\ r < Y /\ c = Y * q + r
    <2>1. c \div Y \in Nat /\ c % Y \in Nat /\ c % Y < Y /\ c = Y * (c \div Y) + (c % Y)
      OBVIOUS
    <2> QED BY <2>1
  <1>2. PICK N \in Nat : N = q + IF z < r THEN 1 ELSE 0
    OBVIOUS
  <1>3. PICK T : T = 0 .. N - 1
    OBVIOUS
  <1>4. IsFiniteSet(T) /\ Cardinality(T) = N
    <2>1. PICK b \in Int : b = N - 1
      OBVIOUS
    <2>2. IsFiniteSet(0 .. b) /\ Cardinality(0 .. b) = IF 0 > b THEN 0 ELSE b - 0 + 1
      BY FS_Interval
    <2> QED BY <1>3, <2>1, <2>2
  <1>5. PICK X : X = {i \in 0 .. c - 1 : i % Y = z}
    OBVIOUS
  <1>6. PICK f : f = [j \in T |-> z + Y * j]
    OBVIOUS
  <1>7. ASSUME NEW j \in T PROVE f[j] \in X
    <2>1. j \in Nat /\ j <= N - 1
      BY <1>3
    <2>2. PICK v \in Nat : v = Y * j
      BY <2>1
    <2>3. v + z < c
      <3>1. CASE j <= q - 1
        <4>1. Y * (j + 1) <= Y * q /\ Y * (j + 1) = v + Y
          BY <2>1, <2>2, <3>1
        <4>2. PICK p \in Nat : p = Y * q
          BY <1>1
        <4> QED BY <1>1, <2>2, <4>1, <4>2
      <3>2. CASE j > q - 1
        <4>1. j = q /\ z < r
          BY <1>2, <2>1, <3>2
        <4>2. PICK p \in Nat : p = Y * q
          BY <1>1
        <4> QED BY <1>1, <2>2, <4>1, <4>2
      <3> QED BY <2>1, <3>1, <3>2
    <2>4. (v + z) % Y = z
      BY <2>1, <2>2
    <2>5. f[j] = v + z
      BY <1>6, <2>2
    <2> QED BY <1>5, <2>2, <2>3, <2>4, <2>5
  <1>8. ASSUME NEW i \in X PROVE \E j \in T : f[j] = i
    <2>1. i \in Nat /\ i < c /\ i % Y = z
      BY <1>5
    <2>2. PICK j \in Nat : i = Y * j + z
      <3>1. i \div Y \in Nat /\ i = Y * (i \div Y) + (i % Y)
        BY <2>1
      <3> QED BY <2>1, <3>1
    <2>3. PICK v \in Nat, p \in Nat : v = Y * j /\ p = Y * q
      BY <1>1
    <2>4. j <= N - 1
      <3>1. ~ (j > q)
        <4> SUFFICES ASSUME j >= q + 1 PROVE FALSE
          OBVIOUS
        <4>1. Y * j >= Y * (q + 1) /\ Y * (q + 1) = p + Y
          BY <1>1, <2>2, <2>3
        <4> QED BY <1>1, <2>1, <2>2, <2>3, <4>1
      <3>2. j = q => z < r
        BY <1>1, <2>1, <2>2, <2>3
      <3> QED BY <1>1, <1>2, <3>1, <3>2
    <2>5. j \in T
      BY <1>2, <1>3, <2>4
    <2>6. f[j] = i
      BY <1>6, <2>2, <2>3, <2>5
    <2> QED BY <2>5, <2>6
  <1>9. ASSUME NEW i \in T, NEW j \in T, f[i] = f[j] PROVE i = j
    <2>1. i \in Nat /\ j \in Nat
      BY <1>3
    <2>2. Y * i = Y * j
      BY <1>6, <1>9, <2>1
    <2> QED BY <2>1, <2>2
  <1>10. f \in Bijection(T, X)
    <2>1. f \in [T -> X]
      BY <1>6, <1>7
    <2> QED BY <2>1, <1>8, <1>9 DEF Bijection, Injection, IsInjective, Surjection
  <1>11. Cardinality(X) = Cardinality(T)
    BY <1>4, <1>10, FS_Bijection DEF ExistsBijection
  <1> QED BY <1>1, <1>2, <1>4, <1>5, <1>11

\* Year y is in one more of the weeks X if it is among the first.
TakesTurn(y, Y, yr, X) ==
    LET c == Cardinality(X)
    IN  /\ c \in Nat
        /\ Cardinality({k \in X : y \in yr[k]}) = c \div Y + IF y - 1 < c % Y THEN 1 ELSE 0

\* _assign_week_content (study_plan.py): the years of the examination take turns.
LEMMA YearsTakeTurns ==
  ASSUME NEW st, NEW n \in Nat, DOMAIN st = 1 .. n, NEW Y \in Nat,
         NEW yr, yr = [k \in 1 .. n |-> Guide!ExamYear(st, k, Y)],
         NEW y \in 1 .. Y
  PROVE  TakesTurn(y, Y, yr, {j \in 1 .. n : st[j] = 4})
  <1>1. PICK X : X = {j \in 1 .. n : st[j] = 4} /\ X \subseteq 1 .. n
    OBVIOUS
  <1>2. PICK c, r : Counted(X, c, r)
    BY <1>1, CountedFromBelow
  <1>3. /\ c \in Nat /\ IsFiniteSet(X) /\ c = Cardinality(X)
        /\ \A k \in X : r[k] \in Nat /\ r[k] < c /\ r[k] = Cardinality({j \in X : j < k})
        /\ \A j, k \in X : j < k => r[j] < r[k]
        /\ \A i \in Nat : i < c => \E k \in X : r[k] = i
    BY <1>2 DEF Counted
  <1>4. Y > 0 /\ y - 1 \in Nat /\ y - 1 < Y
    OBVIOUS
  <1>5. ASSUME NEW k \in X PROVE y \in yr[k] <=> r[k] % Y = y - 1
    <2>1. k \in 1 .. n /\ st[k] = 4
      BY <1>1
    <2>2. {j \in 1 .. k - 1 : st[j] = 4} = {j \in X : j < k}
      <3>1. \A j \in 1 .. k - 1 : j \in 1 .. n /\ j < k
        BY <2>1
      <3>2. \A j \in X : j < k => j \in 1 .. k - 1
        BY <1>1, <2>1
      <3> QED BY <1>1, <3>1, <3>2
    <2>3. Guide!Cardinality({j \in 1 .. k - 1 : st[j] = 4}) = r[k]
      BY <1>3, <2>2, GuideCounts
    <2>4. yr[k] = {(r[k] % Y) + 1}
      <3>1. ~ (Y = 0) /\ Y > 0 /\ ~ (st[k] = 5) /\ st[k] = 4
        BY <1>4, <2>1
      <3>2. yr[k] = Guide!ExamYear(st, k, Y)
        BY <2>1
      <3> QED BY <2>3, <3>1, <3>2 DEF Guide!ExamYear, Guide!Rotation, Guide!MockExam
    <2>5. PICK a \in Nat : a = r[k] /\ a % Y \in Int
      <3>1. r[k] \in Nat
        BY <1>3
      <3>2. \A a \in Nat : a % Y \in Int
        BY <1>4
      <3> QED BY <3>1, <3>2
    <2>6. PICK b \in Int : b = r[k] % Y
      BY <2>5
    <2>7. y \in {b + 1} <=> b = y - 1
      BY <2>6
    <2> QED BY <2>4, <2>6, <2>7
  <1>6. PICK V : V = {k \in X : y \in yr[k]} /\ V \subseteq X
    OBVIOUS
  <1>7. PICK U : U = {i \in 0 .. c - 1 : i % Y = y - 1}
    OBVIOUS
  <1>8. PICK f : f = [k \in V |-> r[k]]
    OBVIOUS
  <1>9. f \in [V -> U]
    <2>1. ASSUME NEW k \in V PROVE r[k] \in U
      <3>1. k \in X /\ y \in yr[k]
        BY <1>6
      <3>2. r[k] \in Nat /\ r[k] < c /\ r[k] % Y = y - 1
        BY <1>3, <1>5, <3>1
      <3> QED BY <1>3, <1>7, <3>2
    <2> QED BY <1>8, <2>1
  <1>10. ASSUME NEW i \in U PROVE \E k \in V : f[k] = i
    <2>1. i \in Nat /\ i < c /\ i % Y = y - 1
      BY <1>3, <1>7
    <2>2. PICK k \in X : r[k] = i
      BY <1>3, <2>1
    <2>3. k \in V
      BY <1>5, <1>6, <2>1, <2>2
    <2> QED BY <1>8, <2>2, <2>3
  <1>11. ASSUME NEW j \in V, NEW k \in V, f[j] = f[k] PROVE j = k
    <2>1. j \in X /\ k \in X /\ j \in Int /\ k \in Int
      BY <1>1, <1>6
    <2>2. r[j] = r[k] /\ r[j] \in Nat
      BY <1>3, <1>8, <1>11, <2>1
    <2>3. ~ (j < k)
      BY <1>3, <2>1, <2>2
    <2>4. ~ (k < j)
      BY <1>3, <2>1, <2>2
    <2> QED BY <2>1, <2>3, <2>4
  <1>12. f \in Bijection(V, U)
    BY <1>9, <1>10, <1>11 DEF Bijection, Injection, IsInjective, Surjection
  <1>13. IsFiniteSet(V)
    <2>1. V \in SUBSET X
      BY <1>6
    <2> QED BY <1>3, <2>1, FS_Subset
  <1>14. Cardinality(U) = Cardinality(V)
    BY <1>12, <1>13, FS_Bijection DEF ExistsBijection
  <1>15. Cardinality(U) = c \div Y + IF y - 1 < c % Y THEN 1 ELSE 0
    <2>1. PICK z \in Nat : z = y - 1
      BY <1>4
    <2>2. z < Y /\ Y \in Nat \ {0}
      BY <1>4, <2>1
    <2>3. Cardinality({i \in 0 .. c - 1 : i % Y = z}) = c \div Y + IF z < c % Y THEN 1 ELSE 0
      BY <1>3, <2>2, EveryYth
    <2> QED BY <1>7, <2>1, <2>3
  <1> QED BY <1>1, <1>3, <1>6, <1>14, <1>15 DEF TakesTurn

\* What the plan says of the contents, if they are those of _assign_week_content.
PlanContents ==
    /\ tutorials = [k \in DOMAIN stages |-> Guide!Tutorials(stages, k, request.tutorials)]
    /\ year = [k \in DOMAIN stages |-> Guide!ExamYear(stages, k, request.years)]

LEMMA ContentsAreDealt ==
  ASSUME PlanContents, NEW n \in Nat, DOMAIN stages = 1 .. n, request.tutorials \in Nat, request.years \in Nat
  PROVE  Guide!ContentOnce
  <1>1. PICK m \in Nat, Y \in Nat : m = request.tutorials /\ Y = request.years
    OBVIOUS
  <1>2. tutorials = [k \in 1 .. n |-> Guide!Tutorials(stages, k, m)]
    BY <1>1 DEF PlanContents
  <1>3. year = [k \in 1 .. n |-> Guide!ExamYear(stages, k, Y)]
    BY <1>1 DEF PlanContents
  <1>4. (\A t \in 1 .. m : InOneWeek(t, tutorials, stages, n)) /\ InOrder(tutorials, n)
    BY <1>2, TutorialsDealt
  <1> DEFINE Times(y) == Guide!Cardinality({k \in Guide!Weeks(Guide!Rotation) : y \in year[k]})
  <1>5. PICK c : c = Cardinality({j \in 1 .. n : stages[j] = 4})
    OBVIOUS
  <1>6. ASSUME NEW y \in 1 .. Y
        PROVE  c \in Nat /\ Times(y) = c \div Y + IF y - 1 < c % Y THEN 1 ELSE 0
    <2>1. Guide!Weeks(Guide!Rotation) = {j \in 1 .. n : stages[j] = 4}
      BY DEF Guide!Weeks, Guide!Rotation
    <2>2. TakesTurn(y, Y, year, {j \in 1 .. n : stages[j] = 4})
      BY <1>3, YearsTakeTurns
    <2> QED BY <1>5, <2>1, <2>2, GuideCounts DEF TakesTurn
  <1>7. ASSUME NEW y \in 1 .. Y, NEW z \in 1 .. Y, y <= z PROVE Times(y) - Times(z) \in {0, 1}
    <2>1. PICK a, b : a = Times(y) /\ b = Times(z)
      OBVIOUS
    <2>2. c \in Nat /\ a = c \div Y + IF y - 1 < c % Y THEN 1 ELSE 0
      BY <1>6, <2>1
    <2>3. b = c \div Y + IF z - 1 < c % Y THEN 1 ELSE 0
      BY <1>6, <2>1
    <2>4. PICK q \in Int, r \in Int : q = c \div Y /\ r = c % Y
      BY <2>2
    <2>5. a - b \in {0, 1}
      BY <1>7, <2>2, <2>3, <2>4
    <2> QED BY <2>1, <2>5
  <1>8. \A t \in 1 .. m :
           LET in == {k \in 1 .. n : t \in tutorials[k]}
           IN  IF \E k \in 1 .. n : stages[k] \in 1 .. 3
               THEN Guide!Cardinality(in) = 1 /\ \A k \in in : stages[k] \in 1 .. 3
               ELSE in = {}
    BY <1>4, GuideCounts DEF InOneWeek
  <1>9. \A t \in 1 .. request.tutorials :
           LET in == {k \in DOMAIN stages : t \in tutorials[k]}
           IN  IF \E k \in DOMAIN stages : stages[k] \in Guide!Teaching
               THEN Guide!Cardinality(in) = 1 /\ \A k \in in : stages[k] \in Guide!Teaching
               ELSE in = {}
    BY <1>1, <1>8, Zenon DEF Guide!Teaching
  <1>10. \A y, z \in 1 .. request.years : y <= z => Times(y) - Times(z) \in {0, 1}
    BY <1>1, <1>7
  <1>11. \A j, k \in DOMAIN stages : j < k => \A t \in tutorials[j], u \in tutorials[k] : t < u
    BY <1>4 DEF InOrder
  <1> QED BY <1>9, <1>10, <1>11 DEF Guide!ContentOnce

\* What build_study_plan has made of the request, and _fallback_plan of an empty one.
PlanInv ==
    /\ request \in Inputs
    /\ planPc = "done" /\ request.user # <<>> =>
          /\ PlanWeeks /\ PlanContents
          /\ hours \in Guide!Allocations(Guide!Accuracies, request.week)
    /\ planPc = "done" /\ request.user = <<>> => hours = Guide!FallbackHours(request.week)

LEMMA PlanInit == ASSUME Guide!Init PROVE PlanInv
  BY DEF Guide!Init, PlanInv

LEMMA PlanNext == ASSUME PlanInv, Guide!Next PROVE PlanInv'
  <1>1. CASE Guide!Recommend
    BY <1>1 DEF PlanInv, Guide!Recommend
  <1>2. CASE Guide!Plan
    <2>1. UNCHANGED request
      BY <1>2 DEF Guide!Plan
    <2>2. PlanWeeks'
      BY <1>2, <2>1 DEF Guide!Plan, PlanWeeks
    <2>3. PlanContents'
      BY <1>2, <2>1 DEF Guide!Plan, PlanContents
    <2>4. (hours \in Guide!Allocations(Guide!Accuracies, request.week))'
      BY <1>2, <2>1 DEF Guide!Plan, Guide!Accuracies
    <2>5. request.user # <<>>
      BY <1>2 DEF Guide!Plan
    <2> QED BY <2>1, <2>2, <2>3, <2>4, <2>5 DEF PlanInv
  <1>3. CASE Guide!FallbackPlan
    BY <1>3 DEF PlanInv, Guide!FallbackPlan
  <1>4. CASE Guide!Done
    BY <1>4 DEF PlanInv, PlanWeeks, PlanContents, Guide!Done, Guide!vars, Guide!plan, Guide!Accuracies
  <1> QED BY <1>1, <1>2, <1>3, <1>4 DEF Guide!Next

LEMMA PlanStays == ASSUME PlanInv, UNCHANGED plan PROVE PlanInv'
  BY DEF PlanInv, PlanWeeks, PlanContents, plan, Guide!Accuracies

\* What holds of each holds of the sums.
LinearlyBelow(f, g, S, a, b, c) ==
    /\ a \in Int /\ b \in Int /\ c \in Int
    /\ \A x \in S : f[x] \in Int /\ g[x] \in Int /\ a * f[x] <= b * g[x] + c

LEMMA LinearSums ==
  ASSUME NEW S, IsFiniteSet(S), NEW f, NEW g, NEW a, NEW b, NEW c, LinearlyBelow(f, g, S, a, b, c)
  PROVE  a * SumFunctionOnSet(f, S) <= b * SumFunctionOnSet(g, S) + Cardinality(S) * c
  <1>a. a \in Int /\ b \in Int /\ c \in Int
    BY DEF LinearlyBelow
  <1>b. \A x \in S : f[x] \in Int /\ g[x] \in Int /\ a * f[x] <= b * g[x] + c
    BY DEF LinearlyBelow
  <1>1. PICK af, bg, cs, right : /\ af = [x \in S |-> a * f[x]] /\ bg = [x \in S |-> b * g[x]]
                                 /\ cs = [x \in S |-> c] /\ right = [x \in S |-> bg[x] + cs[x]]
    OBVIOUS
  <1>2. \A x \in S : af[x] = a * f[x] /\ bg[x] = b * g[x] /\ cs[x] = c /\ right[x] = bg[x] + cs[x]
    BY <1>1
  <1>3. \A x \in S : f[x] \in Int /\ af[x] = a * f[x]
    BY <1>b, <1>2
  <1>4. \A x \in S : g[x] \in Int /\ bg[x] = b * g[x]
    BY <1>b, <1>2
  <1>5. SumFunctionOnSet(af, S) = a * SumFunctionOnSet(f, S)
    BY <1>a, <1>3, SumOfMultiples
  <1>6. SumFunctionOnSet(bg, S) = b * SumFunctionOnSet(g, S)
    BY <1>a, <1>4, SumOfMultiples
  <1>7. SumFunctionOnSet(cs, S) = Cardinality(S) * c
    <2>1. \A x \in S : cs[x] = c
      BY <1>2
    <2> QED BY <1>a, <2>1, SumOfSame
  <1>8. \A x \in S : bg[x] \in Int /\ cs[x] \in Int /\ right[x] = bg[x] + cs[x]
    BY <1>a, <1>2, <1>4
  <1>9. SumFunctionOnSet(right, S) = SumFunctionOnSet(bg, S) + SumFunctionOnSet(cs, S)
    BY <1>8, SumOfBoth
  <1>10. \A x \in S : af[x] \in Int /\ right[x] \in Int /\ af[x] <= right[x]
    <2> SUFFICES ASSUME NEW x \in S PROVE af[x] \in Int /\ right[x] \in Int /\ af[x] <= right[x]
      OBVIOUS
    <2>1. PICK p \in Int, q \in Int : p = a * f[x] /\ q = b * g[x]
      BY <1>a, <1>b
    <2>2. p <= q + c
      BY <1>b, <2>1
    <2> QED BY <1>a, <1>2, <2>1, <2>2
  <1>11. SumFunctionOnSet(af, S) <= SumFunctionOnSet(right, S)
    BY <1>10, SumGrows
  <1> QED BY <1>5, <1>6, <1>7, <1>9, <1>11

\* The largest hours, of equal ones the first.
LEMMA LargestIsMost ==
  ASSUME NEW n \in Nat \ {0}, NEW g, DOMAIN g = 1 .. n, \A i \in 1 .. n : g[i] \in Nat
  PROVE  Guide!Largest(g) \in 1 .. n /\ \A j \in 1 .. n : g[j] <= g[Guide!Largest(g)]
  <1>1. PICK D : D = 1 .. n
    OBVIOUS
  <1>2. IsFiniteSet(D) /\ D # {} /\ D \subseteq Nat /\ \A i \in D : g[i] \in Nat
    BY <1>1, UpToIsFinite
  <1>3. PICK t \in Nat : t = SumFunctionOnSet(g, D)
    BY <1>2, SumOfNaturals
  <1>4. \A i \in D : g[i] <= t
    BY <1>2, <1>3, SumOfPart
  <1>5. PICK V : V = {g[i] : i \in D}
    OBVIOUS
  <1>6. V \subseteq 0 .. t /\ V # {}
    <2>1. \A i \in D : g[i] \in 0 .. t
      BY <1>2, <1>3, <1>4
    <2> QED BY <1>2, <1>5, <2>1
  <1>7. PICK v \in V : \A k \in V : k <= v
    BY <1>6, GreatestNumber
  <1>8. PICK I : I = {i \in D : g[i] = v}
    OBVIOUS
  <1>9. I \subseteq Nat /\ I # {}
    BY <1>2, <1>5, <1>8
  <1>10. PICK m \in I : \A k \in I : m <= k
    BY <1>9, LeastNumber
  <1>11. m \in D /\ \A j \in D : g[j] < g[m] \/ (g[j] = g[m] /\ m <= j)
    <2>1. m \in D /\ g[m] = v
      BY <1>8
    <2>2. ASSUME NEW j \in D PROVE g[j] < g[m] \/ (g[j] = g[m] /\ m <= j)
      <3>1. g[j] <= v /\ g[j] \in Nat /\ v \in Nat
        BY <1>2, <1>5, <1>7
      <3>2. g[j] = v => m <= j
        BY <1>8, <1>10
      <3> QED BY <2>1, <3>1, <3>2
    <2> QED BY <2>1, <2>2
  <1>12. DOMAIN g = D
    BY <1>1
  <1>13. PICK L : L = Guide!Largest(g)
    OBVIOUS
  <1>14. L \in D /\ \A j \in D : g[j] < g[L] \/ (g[j] = g[L] /\ L <= j)
    BY <1>11, <1>12, <1>13, Zenon DEF Guide!Largest
  <1>15. \A j \in D : g[j] <= g[L]
    BY <1>2, <1>14
  <1> QED BY <1>1, <1>13, <1>14, <1>15

\* Step 4, exactly: the largest has what the others leave of the week.
Fixed(h, g, D, L, week) ==
    /\ L \in D /\ DOMAIN h = D
    /\ \A i \in D : g[i] <= g[L]
    /\ h[L] = g[L] + (week - SumFunctionOnSet(g, D))
    /\ \A i \in D : i # L => h[i] = g[i]
    /\ SumFunctionOnSet(h, D) = week

LEMMA RepairedAt ==
  ASSUME NEW n \in Nat \ {0}, NEW g, DOMAIN g = 1 .. n, \A i \in 1 .. n : g[i] \in Nat, NEW week \in Nat
  PROVE  \E L : Fixed(Guide!Repaired(g, week), g, 1 .. n, L, week)
  <1>1. PICK D : D = 1 .. n
    OBVIOUS
  <1>2. IsFiniteSet(D) /\ DOMAIN g = D /\ \A i \in D : g[i] \in Nat
    BY <1>1, UpToIsFinite
  <1>3. PICK L \in D : L = Guide!Largest(g) /\ \A i \in D : g[i] <= g[L]
    BY <1>1, LargestIsMost
  <1>4. PICK G \in Nat : G = SumFunctionOnSet(g, D)
    BY <1>2, SumOfNaturals
  <1>5. PICK d \in Int : d = week - G
    OBVIOUS
  <1>7. PICK h : h = [g EXCEPT ![L] = g[L] + d]
    OBVIOUS
  <1>8. h = Guide!Repaired(g, week)
    <2>1. Guide!Total(g) = G
      BY <1>2, <1>4, GuideSums
    <2>2. g[L] \in Nat /\ G \in Nat /\ week \in Nat
      BY <1>2
    <2>3. g[L] + week - G = g[L] + d
      BY <1>5, <2>2
    <2>4. Guide!Repaired(g, week) = [g EXCEPT ![L] = g[L] + week - G]
      BY <1>3, <2>1 DEF Guide!Repaired
    <2> QED BY <1>7, <2>3, <2>4, Zenon
  <1>9. DOMAIN h = D /\ h[L] = g[L] + d /\ \A i \in D : i # L => h[i] = g[i]
    BY <1>2, <1>7
  <1>12. SumFunctionOnSet(h, D) = week
    <2>1. \A i \in D : g[i] \in Int
      BY <1>2
    <2>2. SumFunctionOnSet(h, D) = SumFunctionOnSet(g, D) + d
      <3>1. IsFiniteSet(D)
        BY <1>2, Zenon
      <3>2. h[L] = g[L] + d
        BY <1>9, Zenon
      <3>3. \A i \in D : i # L => h[i] = g[i]
        BY <1>9, Zenon
      <3>4. Moved(h, g, D, L, d)
        BY <2>1, <3>2, <3>3, Zenon DEF Moved
      <3> QED BY <3>1, <3>4, SumMoves
    <2> QED BY <1>4, <1>5, <2>2
  <1>13. Fixed(h, g, D, L, week)
    BY <1>3, <1>4, <1>5, <1>9, <1>12 DEF Fixed
  <1> QED BY <1>1, <1>8, <1>13

\* How the hours of a week come about: a first attempt, and a second if that left negative ones.
LEMMA HoursArise ==
  ASSUME NEW acc, NEW week \in Nat, week # 0, NEW h \in Guide!Allocations(acc, week),
         NEW sh, sh = Guide!Shares(acc)
  PROVE  \E h1 : /\ IsRepaired(h1, sh, week)
                 /\ \/ ~ (\E k \in DOMAIN h1 : h1[k] < 0) /\ h = h1
                    \/ /\ \E k \in DOMAIN h1 : h1[k] < 0
                       /\ \E h2 : IsRepaired(h2, Guide!Scaled(h1), week) /\ h = CutOff(h2)
  <1>1. PICK first : first = {Guide!Repaired(Guide!Rounded(sh, week, up), week) : up \in SUBSET Guide!Halfway(sh, week)}
    OBVIOUS
  <1>2. PICK h1 \in first :
           h \in IF \E k \in DOMAIN h1 : h1[k] < 0
                 THEN LET sc == Guide!Scaled(h1)
                      IN  {LET g == Guide!Repaired(Guide!Rounded(sc, week, up), week)
                           IN  [k \in DOMAIN g |-> Guide!Max({g[k], 0})] : up \in SUBSET Guide!Halfway(sc, week)}
                 ELSE {h1}
    BY <1>1, Zenon DEF Guide!Allocations
  <1>3. PICK X : X = LET sc == Guide!Scaled(h1)
                     IN  {LET g == Guide!Repaired(Guide!Rounded(sc, week, up), week)
                          IN  [k \in DOMAIN g |-> Guide!Max({g[k], 0})] : up \in SUBSET Guide!Halfway(sc, week)}
    OBVIOUS
  <1>4. IsRepaired(h1, sh, week)
    BY <1>1, Zenon DEF IsRepaired
  <1>5. CASE ~ \E k \in DOMAIN h1 : h1[k] < 0
    <2>1. h = h1
      BY <1>2, <1>5, Zenon
    <2> QED BY <1>4, <1>5, <2>1, Zenon
  <1>6. CASE \E k \in DOMAIN h1 : h1[k] < 0
    <2>1. h \in X
      BY <1>2, <1>3, <1>6
    <2>2. PICK sc : sc = Guide!Scaled(h1)
      OBVIOUS
    <2>3. PICK up2 \in SUBSET Guide!Halfway(sc, week) :
             h = LET g == Guide!Repaired(Guide!Rounded(sc, week, up2), week)
                 IN  [k \in DOMAIN g |-> Guide!Max({g[k], 0})]
      BY <1>3, <2>1, <2>2
    <2>4. PICK h2 : h2 = Guide!Repaired(Guide!Rounded(sc, week, up2), week)
      OBVIOUS
    <2>5. h = CutOff(h2)
      BY <2>3, <2>4, Zenon DEF CutOff
    <2>6. IsRepaired(h2, sc, week)
      BY <2>4, Zenon DEF IsRepaired
    <2> QED BY <1>4, <1>6, <2>2, <2>5, <2>6, Zenon
  <1> QED BY <1>5, <1>6

LEMMA Attempt ==
  ASSUME NEW n \in Nat \ {0}, NEW unit \in Nat \ {0}, NEW f, NEW sh,
         DOMAIN sh.part = 1 .. n, sh.unit = unit, sh.part = f, \A i \in 1 .. n : f[i] \in Nat,
         NEW week \in Nat, NEW h, IsRepaired(h, sh, week)
  PROVE  \E g, L : NearAll(g, 1 .. n, f, unit, week) /\ Fixed(h, g, 1 .. n, L, week)
  <1>1. PICK D : D = 1 .. n
    OBVIOUS
  <1>2. PICK up \in SUBSET Guide!Halfway(sh, week) : h = Guide!Repaired(Guide!Rounded(sh, week, up), week)
    BY DEF IsRepaired
  <1>3. PICK g : g = Guide!Rounded(sh, week, up)
    OBVIOUS
  <1>4. NearAll(g, D, f, unit, week)
    BY <1>1, <1>3, RoundedFacts
  <1>5. DOMAIN g = 1 .. n /\ \A i \in 1 .. n : g[i] \in Nat
    BY <1>1, <1>4 DEF NearAll
  <1>6. PICK L : Fixed(Guide!Repaired(g, week), g, 1 .. n, L, week)
    BY <1>5, RepairedAt
  <1>7. Fixed(h, g, 1 .. n, L, week)
    BY <1>2, <1>3, <1>6
  <1> QED BY <1>1, <1>4, <1>7, Zenon

\* Rounding adds no more than a half of each.
LEMMA RoundingAdds ==
  ASSUME NEW n \in Nat, NEW D, IsFiniteSet(D), Cardinality(D) = n, NEW unit \in Nat \ {0},
         NEW f, \A i \in D : f[i] \in Nat, SumFunctionOnSet(f, D) = unit,
         NEW week \in Nat, NEW g, NearAll(g, D, f, unit, week)
  PROVE  SumFunctionOnSet(g, D) \in Nat /\ 2 * SumFunctionOnSet(g, D) <= 2 * week + n
  <1>1. \A i \in D : g[i] \in Nat /\ 2 * unit * g[i] <= 2 * week * f[i] + unit
    BY DEF NearAll
  <1>2. PICK u2 \in Int, w2 \in Int, un \in Int : u2 = 2 * unit /\ w2 = 2 * week /\ un = unit
    OBVIOUS
  <1>3. LinearlyBelow(g, f, D, u2, w2, un)
    BY <1>1, <1>2 DEF LinearlyBelow
  <1>4. PICK G \in Nat : G = SumFunctionOnSet(g, D)
    BY <1>1, SumOfNaturals
  <1>5. u2 * G <= w2 * un + n * un
    BY <1>2, <1>3, <1>4, LinearSums
  <1>6. un * (2 * week + n) >= un * (2 * G)
    BY <1>2, <1>5
  <1>7. 2 * week + n >= 2 * G
    <2>1. un \in Nat \ {0} /\ 2 * week + n \in Int /\ 2 * G \in Int
      BY <1>2
    <2> QED BY <1>6, <2>1, Cancelled
  <1> QED BY <1>4, <1>7

\* The largest is no less than the mean.
LEMMA MostIsAboveMean ==
  ASSUME NEW n \in Nat, NEW D, IsFiniteSet(D), Cardinality(D) = n, NEW g, \A i \in D : g[i] \in Nat,
         NEW L \in D, \A i \in D : g[i] <= g[L]
  PROVE  SumFunctionOnSet(g, D) <= n * g[L]
  <1>1. PICK m \in Nat : m = g[L]
    OBVIOUS
  <1>2. PICK same : same = [i \in D |-> m]
    OBVIOUS
  <1>3. \A i \in D : same[i] = m
    BY <1>2
  <1>4. m \in Int
    OBVIOUS
  <1>5. SumFunctionOnSet(same, D) = n * m
    BY <1>3, <1>4, SumOfSame
  <1>6. \A i \in D : g[i] \in Int /\ same[i] \in Int /\ g[i] <= same[i]
    BY <1>1, <1>3
  <1>7. SumFunctionOnSet(g, D) <= SumFunctionOnSet(same, D)
    BY <1>6, SumGrows
  <1> QED BY <1>1, <1>5, <1>7

\* The hours of a week: none is negative, and they make the week if that is not too short.
HoursMake(h, n, week) ==
    /\ DOMAIN h = 1 .. n /\ \A i \in 1 .. n : h[i] \in Nat
    /\ 2 * (SumFunctionOnSet(h, 1 .. n) - week) \in 0 .. n
    /\ 2 * week >= n * (n - 1) => SumFunctionOnSet(h, 1 .. n) = week

LEMMA SecondAttempt ==
  ASSUME NEW n \in Nat \ {0}, NEW T \in Nat \ {0}, NEW c, \A i \in 1 .. n : c[i] \in Nat,
         SumFunctionOnSet(c, 1 .. n) = T, NEW week \in Nat, NEW g, NEW L, NEW h2,
         NearAll(g, 1 .. n, c, T, week), Fixed(h2, g, 1 .. n, L, week), NEW h, h = CutOff(h2)
  PROVE  HoursMake(h, n, week)
  <1>1. PICK D : D = 1 .. n
    OBVIOUS
  <1>2. IsFiniteSet(D) /\ Cardinality(D) = n
    BY <1>1, UpToIsFinite
  <1>3. \A i \in D : g[i] \in Nat
    BY <1>1 DEF NearAll
  <1>4. /\ L \in D /\ DOMAIN h2 = D
        /\ \A i \in D : g[i] <= g[L]
        /\ h2[L] = g[L] + (week - SumFunctionOnSet(g, D))
        /\ \A i \in D : i # L => h2[i] = g[i]
        /\ SumFunctionOnSet(h2, D) = week
    BY <1>1 DEF Fixed
  <1>5. PICK G \in Nat : G = SumFunctionOnSet(g, D)
    BY <1>2, <1>3, SumOfNaturals
  <1>6. 2 * G <= 2 * week + n
    <2>1. n \in Nat /\ T \in Nat \ {0}
      OBVIOUS
    <2>2. (\A i \in D : c[i] \in Nat) /\ SumFunctionOnSet(c, D) = T
      BY <1>1
    <2>3. NearAll(g, D, c, T, week)
      BY <1>1
    <2> QED BY <1>2, <1>5, <2>1, <2>2, <2>3, RoundingAdds
  <1>7. PICK m \in Nat : m = g[L]
    BY <1>3, <1>4
  <1>8. G <= n * m
    <2>1. n \in Nat /\ L \in D
      BY <1>4
    <2> QED BY <1>2, <1>3, <1>4, <1>5, <1>7, <2>1, MostIsAboveMean
  <1>9. PICK y \in Int : y = h2[L] /\ y = m + (week - G)
    BY <1>4, <1>5, <1>7
  <1>10. \A i \in D : h2[i] \in Int
    BY <1>3, <1>4, <1>9
  <1>11. DOMAIN h = D /\ \A i \in D : h[i] = IF h2[i] >= 0 THEN h2[i] ELSE 0
    <2>1. DOMAIN h = D /\ \A i \in D : h[i] = Guide!Max({h2[i], 0})
      BY <1>4 DEF CutOff
    <2>2. ASSUME NEW i \in D PROVE h[i] = IF h2[i] >= 0 THEN h2[i] ELSE 0
      <3>1. PICK x \in Int : x = h2[i]
        BY <1>10
      <3>2. Guide!Max({x, 0}) = IF x >= 0 THEN x ELSE 0
        BY GreaterOfTwo
      <3> QED BY <2>1, <3>1, <3>2
    <2> QED BY <2>1, <2>2
  <1>12. \A i \in D : h[i] \in Nat
    BY <1>10, <1>11
  <1>13. \A i \in D : i # L => h[i] = h2[i]
    BY <1>3, <1>4, <1>11
  <1>14. PICK e \in Nat : e = (IF y >= 0 THEN 0 ELSE 0 - y) /\ h[L] = y + e
    BY <1>4, <1>9, <1>11
  <1>15. SumFunctionOnSet(h, D) = week + e
    <2>1. Moved(h, h2, D, L, e)
      BY <1>4, <1>9, <1>10, <1>13, <1>14 DEF Moved
    <2>2. SumFunctionOnSet(h, D) = SumFunctionOnSet(h2, D) + e
      BY <1>2, <2>1, SumMoves
    <2> QED BY <1>4, <2>2
  <1>16. 2 * e <= n
    BY <1>6, <1>9, <1>14
  <1>17. ASSUME 2 * week >= n * (n - 1) PROVE e = 0
    <2> SUFFICES ASSUME y < 0 PROVE FALSE
      BY <1>14
    <2>1. m + 1 <= G - week /\ 2 * (G - week) <= n
      BY <1>6, <1>9
    <2>2. 2 * m <= n - 2
      BY <2>1
    <2>3. PICK k \in Nat : n = k + 1
      <3>1. n - 1 \in Nat /\ n = (n - 1) + 1
        OBVIOUS
      <3> QED BY <3>1
    <2>4. PICK p \in Nat : p = k * m /\ n * m = p + m
      BY <2>3
    <2>5. week + 1 <= p
      BY <1>8, <2>1, <2>4
    <2>6. 2 * p <= k * (n - 2)
      <3>1. k * (2 * m) <= k * (n - 2)
        BY <2>2, <2>3
      <3>2. k * (2 * m) = 2 * p
        BY <2>4
      <3> QED BY <3>1, <3>2
    <2>7. n * (n - 1) = k * (n - 2) + k + k
      <3>1. n - 1 = k /\ n * k = k * n
        BY <2>3
      <3>2. k * (n - 2) = k * n - k - k
        BY <2>3
      <3> QED BY <3>1, <3>2
    <2>8. PICK z \in Int : z = k * (n - 2)
      BY <2>3
    <2>9. 2 * week >= z + k + k /\ 2 * p <= z
      BY <1>17, <2>6, <2>7, <2>8
    <2> QED BY <2>3, <2>5, <2>9
  <1>18. 2 * (SumFunctionOnSet(h, D) - week) \in 0 .. n
    BY <1>15, <1>16
  <1>19. 2 * week >= n * (n - 1) => SumFunctionOnSet(h, D) = week
    BY <1>15, <1>17
  <1> QED BY <1>1, <1>11, <1>12, <1>18, <1>19 DEF HoursMake

\* The first attempt from parts f of the unit, and the second from what it leaves.
FirstHours(h, g, L, f, unit, n, week) == NearAll(g, 1 .. n, f, unit, week) /\ Fixed(h, g, 1 .. n, L, week)
SecondHours(h, h1, n, week) ==
    \E c, T, g, L, h2 :
       /\ \A i \in 1 .. n : c[i] \in Nat /\ c[i] = IF h1[i] >= 0 THEN h1[i] ELSE 0
       /\ T = SumFunctionOnSet(c, 1 .. n) /\ T \in Nat \ {0} /\ week <= T
       /\ NearAll(g, 1 .. n, c, T, week) /\ Fixed(h2, g, 1 .. n, L, week) /\ h = CutOff(h2)

LEMMA FixedAreNumbers ==
  ASSUME NEW n \in Nat \ {0}, NEW g, NEW L, NEW h, NEW week \in Nat, NEW f, NEW unit,
         NearAll(g, 1 .. n, f, unit, week), Fixed(h, g, 1 .. n, L, week)
  PROVE  DOMAIN h = 1 .. n /\ \A i \in 1 .. n : h[i] \in Int
  <1>1. PICK D : D = 1 .. n
    OBVIOUS
  <1>2. IsFiniteSet(D) /\ \A i \in D : g[i] \in Nat
    BY <1>1, UpToIsFinite DEF NearAll
  <1>3. PICK G \in Nat : G = SumFunctionOnSet(g, D)
    BY <1>2, SumOfNaturals
  <1>4. L \in D /\ DOMAIN h = D /\ h[L] = g[L] + (week - G) /\ \A i \in D : i # L => h[i] = g[i]
    BY <1>1, <1>3 DEF Fixed
  <1>5. h[L] \in Int
    BY <1>2, <1>4
  <1>6. \A i \in D : h[i] \in Int
    BY <1>2, <1>4, <1>5
  <1> QED BY <1>1, <1>4, <1>6

LEMMA TwoAttempts ==
  ASSUME NEW n \in Nat \ {0}, NEW acc, NEW week \in Nat, week # 0, NEW h \in Guide!Allocations(acc, week),
         NEW sh, sh = Guide!Shares(acc), NEW unit \in Nat \ {0}, NEW f,
         DOMAIN sh.part = 1 .. n, sh.unit = unit, sh.part = f, \A i \in 1 .. n : f[i] \in Nat
  PROVE  \E h1, g, L :
            /\ FirstHours(h1, g, L, f, unit, n, week)
            /\ \/ ((\A i \in 1 .. n : h1[i] >= 0) /\ h = h1)
               \/ ((\E i \in 1 .. n : h1[i] < 0) /\ SecondHours(h, h1, n, week))
  <1>1. PICK h1 : /\ IsRepaired(h1, sh, week)
                  /\ \/ ~ (\E k \in DOMAIN h1 : h1[k] < 0) /\ h = h1
                     \/ /\ \E k \in DOMAIN h1 : h1[k] < 0
                        /\ \E h2 : IsRepaired(h2, Guide!Scaled(h1), week) /\ h = CutOff(h2)
    BY HoursArise
  <1>2. PICK g, L : NearAll(g, 1 .. n, f, unit, week) /\ Fixed(h1, g, 1 .. n, L, week)
    BY <1>1, Attempt
  <1>3. FirstHours(h1, g, L, f, unit, n, week)
    BY <1>2 DEF FirstHours
  <1>4. DOMAIN h1 = 1 .. n /\ \A i \in 1 .. n : h1[i] \in Int
    BY <1>2, FixedAreNumbers
  <1>5. SumFunctionOnSet(h1, 1 .. n) = week
    BY <1>2 DEF Fixed
  <1>6. CASE \E k \in 1 .. n : h1[k] < 0
    <2>1. PICK sc : sc = Guide!Scaled(h1)
      OBVIOUS
    <2>2. PICK h2 : IsRepaired(h2, sc, week) /\ h = CutOff(h2)
      BY <1>1, <1>4, <1>6, <2>1
    <2>3. PICK c, T : c = sc.part /\ T = sc.unit
      OBVIOUS
    <2>8. PICK D : D = 1 .. n
      OBVIOUS
    <2>9. DOMAIN h1 = D /\ (\A k \in D : h1[k] \in Int) /\ SumFunctionOnSet(h1, D) = week
      BY <1>4, <1>5, <2>8
    <2>10. /\ DOMAIN sc.part = D
           /\ \A k \in D : c[k] \in Nat /\ c[k] = IF h1[k] >= 0 THEN h1[k] ELSE 0
           /\ T = SumFunctionOnSet(c, D) /\ T \in Nat /\ week <= T
      BY <2>1, <2>3, <2>8, <2>9, ScaledHours, SMTT(60)
    <2>4. /\ DOMAIN sc.part = 1 .. n
          /\ \A k \in 1 .. n : c[k] \in Nat /\ c[k] = IF h1[k] >= 0 THEN h1[k] ELSE 0
          /\ T = SumFunctionOnSet(c, 1 .. n) /\ T \in Nat /\ week <= T
      BY <2>8, <2>10
    <2>5. T \in Nat \ {0} /\ sc.part = c /\ sc.unit = T /\ DOMAIN sc.part = 1 .. n /\ \A k \in 1 .. n : c[k] \in Nat
      BY <2>3, <2>4
    <2>6. PICK g2, L2 : NearAll(g2, 1 .. n, c, T, week) /\ Fixed(h2, g2, 1 .. n, L2, week)
      BY <2>2, <2>5, Attempt
    <2>7. SecondHours(h, h1, n, week)
      BY <2>2, <2>4, <2>5, <2>6, Zenon DEF SecondHours
    <2> QED BY <1>3, <1>6, <2>7, Zenon
  <1>7. CASE ~ \E k \in 1 .. n : h1[k] < 0
    <2>1. \A i \in 1 .. n : h1[i] >= 0
      BY <1>4, <1>7
    <2>2. h = h1
      BY <1>1, <1>4, <1>7
    <2> QED BY <1>3, <2>1, <2>2, Zenon
  <1> QED BY <1>6, <1>7

\* _allocate_subject_hours (study_plan.py): the hours of a week are those the user has, and none is
\* negative, unless the week is too short for the rounding.
LEMMA HoursAreMade ==
  ASSUME NEW n \in 1 .. 8, NEW acc, AreAccuracies(acc, n), NEW week \in Nat, NEW h \in Guide!Allocations(acc, week)
  PROVE  HoursMake(h, n, week) /\ (week = 0 => SumFunctionOnSet(h, 1 .. n) = 0)
  <1>1. PICK D : D = 1 .. n
    OBVIOUS
  <1>2. n \in Nat \ {0} /\ IsFiniteSet(D)
    BY <1>1, UpToIsFinite
  <1>3. CASE week = 0
    <2>1. h = [k \in D |-> 0]
      BY <1>1, <1>3 DEF Guide!Allocations, AreAccuracies
    <2>2. \A k \in D : h[k] = 0
      BY <2>1
    <2>3. SumFunctionOnSet(h, D) = 0
      BY <1>2, <2>2, SumOfZeros
    <2>4. DOMAIN h = D
      BY <2>1
    <2> QED BY <1>1, <1>3, <2>2, <2>3, <2>4 DEF HoursMake
  <1>4. CASE week # 0
    <2>1. PICK sh : sh = Guide!Shares(acc)
      OBVIOUS
    <2>2. Shared(sh, 1 .. n, acc)
      BY <2>1, SharesFacts
    <2>3. PICK unit, f :
             /\ unit \in Nat \ {0} /\ sh.unit = unit /\ sh.part = f
             /\ DOMAIN f = 1 .. n /\ \A k \in 1 .. n : f[k] \in Nat
      BY <1>2, <2>2, SharedFacts
    <2>4. PICK h1, g, L :
            /\ FirstHours(h1, g, L, f, unit, n, week)
            /\ \/ ((\A i \in 1 .. n : h1[i] >= 0) /\ h = h1)
               \/ ((\E i \in 1 .. n : h1[i] < 0) /\ SecondHours(h, h1, n, week))
      <3>1. DOMAIN sh.part = 1 .. n /\ sh.unit = unit /\ sh.part = f /\ \A k \in 1 .. n : f[k] \in Nat
        BY <2>3
      <3>2. unit \in Nat \ {0} /\ n \in Nat \ {0}
        BY <1>2, <2>3
      <3> QED BY <1>4, <2>1, <3>1, <3>2, TwoAttempts
    <2>5. NearAll(g, 1 .. n, f, unit, week) /\ Fixed(h1, g, 1 .. n, L, week)
      BY <2>4 DEF FirstHours
    <2>6. CASE (\A i \in 1 .. n : h1[i] >= 0) /\ h = h1
      <3>1. DOMAIN h1 = 1 .. n /\ \A i \in 1 .. n : h1[i] \in Int
        BY <1>2, <2>5, FixedAreNumbers
      <3>2. SumFunctionOnSet(h, 1 .. n) = week
        BY <2>5, <2>6 DEF Fixed
      <3>3. DOMAIN h = 1 .. n /\ \A i \in 1 .. n : h[i] \in Nat
        BY <2>6, <3>1
      <3> QED BY <1>4, <3>2, <3>3 DEF HoursMake
    <2>7. CASE SecondHours(h, h1, n, week)
      <3>1. PICK c, T, g2, L2, h2 :
               /\ \A i \in 1 .. n : c[i] \in Nat /\ c[i] = IF h1[i] >= 0 THEN h1[i] ELSE 0
               /\ T = SumFunctionOnSet(c, 1 .. n) /\ T \in Nat \ {0} /\ week <= T
               /\ NearAll(g2, 1 .. n, c, T, week) /\ Fixed(h2, g2, 1 .. n, L2, week) /\ h = CutOff(h2)
        BY <2>7, Zenon DEF SecondHours
      <3>2. T \in Nat \ {0} /\ \A i \in 1 .. n : c[i] \in Nat
        BY <3>1
      <3>3. HoursMake(h, n, week)
        BY <1>2, <3>1, <3>2, SecondAttempt
      <3> QED BY <1>4, <3>3
    <2> QED BY <2>4, <2>6, <2>7
  <1> QED BY <1>3, <1>4

\* _fallback_plan (study_plan.py): the first subject takes what the others leave.
LEMMA FallbackMakes ==
  ASSUME NEW week \in Nat, NEW h, h = Guide!FallbackHours(week)
  PROVE  /\ DOMAIN h = 1 .. 5 /\ SumFunctionOnSet(h, 1 .. 5) = week /\ Len(h) = 5
         /\ 2 * week >= 5 * (5 - 1) => (\A i \in 1 .. 5 : h[i] >= 0)
  <1>0. PICK b \in Int : b = 5
    OBVIOUS
  <1>1. PICK D : D = 1 .. 5 /\ IsFiniteSet(D) /\ Cardinality(D) = 5 /\ 1 \in D
    <2>1. IsFiniteSet(1 .. b) /\ Cardinality(1 .. b) = IF 1 > b THEN 0 ELSE b - 1 + 1
      BY FS_Interval
    <2>2. ~ (1 > b) /\ b - 1 + 1 = 5
      BY <1>0
    <2>3. Cardinality(1 .. b) = 5
      BY <2>1, <2>2
    <2> QED BY <1>0, <2>1, <2>3
  <1>2. PICK e \in Nat : e = (2 * week + 5) \div 10
    OBVIOUS
  <1>3. h = [i \in D |-> IF i = 1 THEN week - 4 * e ELSE e]
    BY <1>1, <1>2 DEF Guide!FallbackHours
  <1>4. PICK same : same = [i \in D |-> e]
    OBVIOUS
  <1>5. \A i \in D : same[i] = e
    BY <1>4
  <1>6. e \in Int
    OBVIOUS
  <1>7. SumFunctionOnSet(same, D) = 5 * e
    BY <1>1, <1>5, <1>6, SumOfSame
  <1>8. PICK d \in Int : d = week - 5 * e
    OBVIOUS
  <1>9. Moved(h, same, D, 1, d)
    <2>1. h[1] = same[1] + d
      BY <1>1, <1>3, <1>5, <1>8
    <2>2. \A x \in D : x # 1 => h[x] = same[x]
      BY <1>3, <1>5
    <2>3. \A x \in D : same[x] \in Int
      BY <1>5
    <2> QED BY <1>1, <2>1, <2>2, <2>3 DEF Moved
  <1>10. SumFunctionOnSet(h, D) = SumFunctionOnSet(same, D) + d
    BY <1>1, <1>9, SumMoves
  <1>11. SumFunctionOnSet(h, D) = week
    BY <1>7, <1>8, <1>10
  <1>12. ASSUME week >= 10 PROVE (\A i \in D : h[i] >= 0)
    <2>1. 10 * e <= 2 * week + 5
      BY <1>2
    <2>2. week - 4 * e >= 0
      BY <1>12, <2>1
    <2> QED BY <1>3, <2>2
  <1>13. Len(h) = 5 /\ DOMAIN h = D
    BY <1>1, <1>3
  <1> QED BY <1>1, <1>11, <1>12, <1>13

\* _subject_weight (study_plan.py), and the weights of all.
LEMMA WeightOf ==
  ASSUME NEW a \in 0 .. 10
  PROVE  /\ Guide!SubjectWeight(a) \in 0 .. 15
         /\ Guide!SubjectWeight(a) = IF a < 4 THEN 15 - a ELSE IF a < 7 THEN 10 - a ELSE 0
  BY DEF Guide!SubjectWeight, Guide!Stable, Guide!FailRisk

AllStable(w, D, acc) == \A i \in D : acc[i] >= 7 /\ w[i] = 1
ByWeakness(w, D, acc) == \A i \in D : w[i] = Guide!SubjectWeight(acc[i])

LEMMA WeightsAre ==
  ASSUME NEW n \in 1 .. 8, NEW acc, AreAccuracies(acc, n), NEW w, w = Guide!Weights(acc)
  PROVE  AllStable(w, 1 .. n, acc)
         \/ (ByWeakness(w, 1 .. n, acc) /\ \E j \in 1 .. n : acc[j] < 7)
  <1>1. PICK D : D = 1 .. n
    OBVIOUS
  <1>2. IsFiniteSet(D)
    BY <1>1, UpToIsFinite
  <1>3. PICK w0 : w0 = [i \in D |-> Guide!SubjectWeight(acc[i])]
    OBVIOUS
  <1>4. \A i \in D : acc[i] \in 0 .. 10
    BY <1>1 DEF AreAccuracies
  <1>5. \A i \in D : /\ w0[i] \in Nat /\ (acc[i] >= 7 => w0[i] = 0) /\ (acc[i] < 7 => w0[i] > 0)
    BY <1>3, <1>4, SubjectWeightFacts
  <1>6. PICK t \in Nat : t = SumFunctionOnSet(w0, D)
    BY <1>2, <1>5, SumOfNaturals
  <1>7. \A i \in D : w0[i] <= t
    BY <1>2, <1>5, <1>6, SumOfPart
  <1>8. DOMAIN acc = D /\ DOMAIN w0 = D
    BY <1>1, <1>3 DEF AreAccuracies
  <1>9. w = IF t = 0 THEN [i \in D |-> 1] ELSE w0
    BY <1>3, <1>6, <1>8, GuideSums DEF Guide!Weights
  <1>10. ASSUME t = 0 PROVE AllStable(w, D, acc)
    <2> SUFFICES ASSUME NEW i \in D PROVE acc[i] >= 7 /\ w[i] = 1
      BY DEF AllStable
    <2>1. w0[i] <= 0 /\ w0[i] \in Nat
      BY <1>5, <1>7, <1>10
    <2>2. acc[i] >= 7
      BY <1>4, <1>5, <2>1
    <2> QED BY <1>9, <1>10, <2>2
  <1>11. ASSUME t # 0 PROVE ByWeakness(w, D, acc) /\ \E j \in D : acc[j] < 7
    <2>1. ByWeakness(w, D, acc)
      BY <1>3, <1>9, <1>11 DEF ByWeakness
    <2>2. SUFFICES ASSUME \A j \in D : ~ (acc[j] < 7) PROVE FALSE
      BY <2>1
    <2>3. \A j \in D : w0[j] = 0
      BY <1>4, <1>5, <2>2
    <2>4. SumFunctionOnSet(w0, D) = 0
      BY <1>2, <2>3, SumOfZeros
    <2> QED BY <1>6, <1>11, <2>4
  <1> QED BY <1>1, <1>10, <1>11

\* No subject weighs more than 15.
LEMMA OthersWeigh ==
  ASSUME NEW D, IsFiniteSet(D), NEW n \in Nat, Cardinality(D) = n, NEW w, \A i \in D : w[i] \in 0 .. 15,
         NEW s \in D
  PROVE  /\ SumFunctionOnSet(w, D) \in Nat
         /\ SumFunctionOnSet(w, D) <= w[s] + 15 * (n - 1)
         /\ \A j \in D \ {s} : SumFunctionOnSet(w, D) <= w[s] + w[j] + 15 * (n - 2)
  <1>1. \A i \in D : w[i] \in Int
    OBVIOUS
  <1>2. PICK S : S = D \ {s}
    OBVIOUS
  <1>3. IsFiniteSet(S) /\ Cardinality(S) = n - 1 /\ \A i \in S : w[i] \in Int /\ w[i] \in 0 .. 15
    BY <1>2, FS_RemoveElement
  <1>4. PICK t \in Int : t = SumFunctionOnSet(w, S)
    BY <1>3, SumFacts
  <1>5. SumFunctionOnSet(w, D) = w[s] + t
    BY <1>1, <1>2, <1>4, SumFacts
  <1>6. PICK a \in Int, b \in Int, c \in Int : a = 1 /\ b = 0 /\ c = 15
    OBVIOUS
  <1>7. t <= 15 * (n - 1)
    <2>1. LinearlyBelow(w, w, S, a, b, c)
      BY <1>3, <1>6 DEF LinearlyBelow
    <2>2. a * t <= b * t + Cardinality(S) * c
      BY <1>3, <1>4, <2>1, LinearSums
    <2> QED BY <1>3, <1>6, <2>2
  <1>8. ASSUME NEW j \in S PROVE t <= w[j] + 15 * (n - 2)
    <2>1. PICK R : R = S \ {j}
      OBVIOUS
    <2>2. IsFiniteSet(R) /\ Cardinality(R) = n - 2 /\ \A i \in R : w[i] \in Int /\ w[i] \in 0 .. 15
      BY <1>3, <2>1, FS_RemoveElement
    <2>3. PICK r \in Int : r = SumFunctionOnSet(w, R)
      BY <2>2, SumFacts
    <2>4. t = w[j] + r
      BY <1>3, <1>4, <2>1, <2>3, SumFacts
    <2>5. LinearlyBelow(w, w, R, a, b, c)
      BY <1>6, <2>2 DEF LinearlyBelow
    <2>6. a * r <= b * r + Cardinality(R) * c
      BY <2>2, <2>3, <2>5, LinearSums
    <2>7. r <= 15 * (n - 2)
      BY <1>6, <2>2, <2>6
    <2> QED BY <1>3, <2>4, <2>7
  <1>9. \A i \in D : w[i] \in Nat
    OBVIOUS
  <1>10. SumFunctionOnSet(w, D) \in Nat
    BY <1>9, SumOfNaturals
  <1>11. w[s] \in Int
    BY <1>1
  <1>12. SumFunctionOnSet(w, D) <= w[s] + 15 * (n - 1)
    BY <1>4, <1>5, <1>7, <1>11
  <1>13. ASSUME NEW j \in D \ {s} PROVE SumFunctionOnSet(w, D) <= w[s] + w[j] + 15 * (n - 2)
    <2>1. t <= w[j] + 15 * (n - 2) /\ w[j] \in Int
      BY <1>1, <1>2, <1>8
    <2> QED BY <1>4, <1>5, <1>11, <2>1
  <1> QED BY <1>10, <1>12, <1>13

\* What the shares are made of, before and after the floor of the failing ones.
SharedBy(sh, D, n, acc, w, W, base, raised, needed, spare, K, left) ==
    /\ W \in Nat \ {0} /\ W = SumFunctionOnSet(w, D) /\ DOMAIN w = D /\ \A i \in D : w[i] \in Nat
    /\ \A i \in D : base[i] \in Nat /\ base[i] = W + (20 - n) * w[i] /\ base[i] >= W
    /\ \A i \in D : raised[i] = IF acc[i] < 4 /\ base[i] < 3 * W THEN 3 * W ELSE base[i]
    /\ needed \in Nat /\ needed = SumFunctionOnSet(raised, D) - SumFunctionOnSet(base, D)
    /\ spare \in Nat /\ \E over : /\ \A i \in D : over[i] = base[i] - W
                                  /\ spare = SumFunctionOnSet(over, {i \in D : acc[i] >= 4})
    /\ K = (IF spare >= 1 THEN spare ELSE 1)
    /\ left = (IF spare - needed >= 0 THEN spare - needed ELSE 0)
    /\ sh.unit = 20 * W * K /\ DOMAIN sh.part = D
    /\ \A i \in D : sh.part[i] = IF acc[i] < 4 THEN raised[i] * K ELSE W * K + (base[i] - W) * left

LEMMA SharesAre ==
  ASSUME NEW n \in 1 .. 8, NEW acc, AreAccuracies(acc, n), NEW sh, sh = Guide!Shares(acc)
  PROVE  \E W, base, raised, needed, spare, K, left :
            SharedBy(sh, 1 .. n, n, acc, Guide!Weights(acc), W, base, raised, needed, spare, K, left)
  <1>1. PICK D : D = 1 .. n
    OBVIOUS
  <1>2. IsFiniteSet(D) /\ Cardinality(D) = n
    <2>1. n \in Nat
      OBVIOUS
    <2> QED BY <1>1, <2>1, UpToIsFinite
  <1>3. PICK w : w = Guide!Weights(acc)
    OBVIOUS
  <1>4. /\ DOMAIN w = D /\ \A i \in D : w[i] \in Nat
        /\ SumFunctionOnSet(w, D) \in Nat \ {0}
    <2>1. Weighed(w, D, acc)
      BY <1>1, <1>3, WeightsFacts, Zenon
    <2> QED BY <2>1 DEF Weighed
  <1>5. PICK W \in Nat \ {0} : W = SumFunctionOnSet(w, D)
    BY <1>4
  <1>6. PICK base : base = [i \in D |-> W + (20 - n) * w[i]]
    OBVIOUS
  <1>7. PICK raised : raised = [i \in D |-> IF acc[i] < 4 THEN Guide!Max({base[i], 3 * W}) ELSE base[i]]
    OBVIOUS
  <1>8. PICK N : N = {i \in D : acc[i] >= 4}
    OBVIOUS
  <1>9. PICK over : over = [i \in D |-> base[i] - W]
    OBVIOUS
  <1>10. \A i \in D : acc[i] \in 0 .. 10
    BY <1>1 DEF AreAccuracies
  <1>12. \A i \in D : /\ base[i] \in Nat /\ base[i] = W + (20 - n) * w[i] /\ base[i] >= W
                      /\ over[i] \in Nat /\ over[i] = base[i] - W
    <2> SUFFICES ASSUME NEW i \in D
                 PROVE  /\ base[i] \in Nat /\ base[i] = W + (20 - n) * w[i] /\ base[i] >= W
                        /\ over[i] \in Nat /\ over[i] = base[i] - W
      OBVIOUS
    <2>1. PICK x \in Nat : x = (20 - n) * w[i]
      <3>1. 20 - n \in Nat /\ w[i] \in Nat
        BY <1>4
      <3> QED BY <3>1
    <2>2. base[i] = W + x /\ over[i] = base[i] - W
      BY <1>6, <1>9, <2>1
    <2> QED BY <2>1, <2>2
  <1>13. \A i \in D : /\ raised[i] \in Nat /\ raised[i] >= base[i]
                      /\ raised[i] = IF acc[i] < 4 /\ base[i] < 3 * W THEN 3 * W ELSE base[i]
    <2> SUFFICES ASSUME NEW i \in D
                 PROVE  /\ raised[i] \in Nat /\ raised[i] >= base[i]
                        /\ raised[i] = IF acc[i] < 4 /\ base[i] < 3 * W THEN 3 * W ELSE base[i]
      OBVIOUS
    <2>1. PICK b \in Nat, m \in Nat : b = base[i] /\ m = 3 * W
      BY <1>12
    <2>2. Guide!Max({b, m}) = IF b >= m THEN b ELSE m
      BY GreaterOfTwo
    <2>3. raised[i] = IF acc[i] < 4 THEN Guide!Max({b, m}) ELSE b
      BY <1>7, <2>1
    <2> QED BY <2>1, <2>2, <2>3
  <1>14. PICK spare \in Nat : spare = SumFunctionOnSet(over, N)
    <2>1. IsFiniteSet(N) /\ \A i \in N : over[i] \in Nat
      BY <1>2, <1>8, <1>12, FS_Subset
    <2> QED BY <2>1, SumOfNaturals
  <1>15. PICK needed \in Nat : needed = SumFunctionOnSet(raised, D) - SumFunctionOnSet(base, D)
    <2>1. SumFunctionOnSet(base, D) <= SumFunctionOnSet(raised, D)
      BY <1>2, <1>12, <1>13, SumGrows
    <2>2. SumFunctionOnSet(base, D) \in Nat /\ SumFunctionOnSet(raised, D) \in Nat
      BY <1>2, <1>12, <1>13, SumOfNaturals
    <2> QED BY <2>1, <2>2
  <1>16. PICK K \in Nat \ {0} : K = Guide!Max({spare, 1}) /\ K = (IF spare >= 1 THEN spare ELSE 1)
    BY GreaterOfTwo
  <1>17. PICK left \in Nat : left = Guide!Max({spare - needed, 0})
                          /\ left = (IF spare - needed >= 0 THEN spare - needed ELSE 0)
    <2>1. PICK d \in Int : d = spare - needed
      OBVIOUS
    <2>2. Guide!Max({d, 0}) = IF d >= 0 THEN d ELSE 0
      BY GreaterOfTwo
    <2> QED BY <2>1, <2>2
  <1>18. PICK g : g = [i \in D |-> IF acc[i] < 4 THEN raised[i] * K ELSE W * K + (base[i] - W) * left]
    OBVIOUS
  <1>19. sh = [unit |-> 20 * W * K, part |-> g]
    <2>1. DOMAIN acc = D /\ Len(acc) = n /\ DOMAIN base = D /\ DOMAIN raised = D
      BY <1>1, <1>6, <1>7 DEF AreAccuracies
    <2>2. Guide!Total(w) = W /\ Guide!Total(raised) - Guide!Total(base) = needed
      BY <1>4, <1>5, <1>15, <2>1, GuideSums
    <2>3. Guide!SumFunctionOnSet(over, N) = spare
      BY <1>14, GuideSums
    <2> QED
      BY <1>3, <1>6, <1>7, <1>8, <1>9, <1>16, <1>17, <1>18, <2>1, <2>2, <2>3, ZenonT(60)
      DEF Guide!Shares, Guide!FailRisk
  <1>20. sh.unit = 20 * W * K /\ sh.part = g
    BY <1>19
  <1>21. SharedBy(sh, D, n, acc, w, W, base, raised, needed, spare, K, left)
    <2>1. W \in Nat \ {0} /\ W = SumFunctionOnSet(w, D) /\ DOMAIN w = D /\ \A i \in D : w[i] \in Nat
      BY <1>4, <1>5
    <2>2. \A i \in D : base[i] \in Nat /\ base[i] = W + (20 - n) * w[i] /\ base[i] >= W
      BY <1>12
    <2>3. \A i \in D : raised[i] = IF acc[i] < 4 /\ base[i] < 3 * W THEN 3 * W ELSE base[i]
      BY <1>13
    <2>4. spare \in Nat /\ \E ov : /\ \A i \in D : ov[i] = base[i] - W
                                   /\ spare = SumFunctionOnSet(ov, {i \in D : acc[i] >= 4})
      BY <1>8, <1>12, <1>14
    <2>5. \A i \in D : sh.part[i] = IF acc[i] < 4 THEN raised[i] * K ELSE W * K + (base[i] - W) * left
      BY <1>18, <1>20
    <2>6. DOMAIN sh.part = D
      BY <1>18, <1>20
    <2> QED BY <1>15, <1>16, <1>17, <1>20, <2>1, <2>2, <2>3, <2>4, <2>5, <2>6, Zenon DEF SharedBy
  <1> QED BY <1>1, <1>3, <1>21, Zenon

\* The shares of up to six subjects: of each the floor it has in the code, in the order of the
\* weakness.  The floors of six failing subjects may need a little more than there is: E of 20 W.
Portions(p, w, D, n, acc, W, E) ==
    /\ W \in Nat \ {0} /\ E \in Nat /\ W = SumFunctionOnSet(w, D) /\ \A i \in D : w[i] \in Nat
    /\ \A i \in D : p[i] \in Nat /\ p[i] >= W /\ (acc[i] < 4 => p[i] >= 3 * W)
    /\ SumFunctionOnSet(p, D) = 20 * W + E
    /\ \A i, j \in D : acc[i] < acc[j] => p[i] >= p[j] + E
    /\ E = 0 => \A i \in D : p[i] = W + (20 - n) * w[i]
    /\ E # 0 => /\ n = 6 /\ E <= 6 /\ W >= 85 /\ \A i \in D : acc[i] < 4
                /\ \E s \in D : p[s] = 3 * W /\ \A j \in D : j # s => p[j] >= 3 * W + 8

\* What the weights alone make: nothing is missing.
LEMMA WholePortions ==
  ASSUME NEW n \in 1 .. 6, NEW D, IsFiniteSet(D), Cardinality(D) = n, NEW acc, \A i \in D : acc[i] \in 0 .. 10,
         NEW w, \A i \in D : w[i] \in Nat, AllStable(w, D, acc) \/ ByWeakness(w, D, acc),
         NEW W \in Nat \ {0}, W = SumFunctionOnSet(w, D),
         NEW base, \A i \in D : base[i] \in Nat /\ base[i] = W + (20 - n) * w[i] /\ base[i] >= W,
         \A i \in D : acc[i] < 4 => base[i] >= 3 * W
  PROVE  Portions(base, w, D, n, acc, W, 0)
  <1>1. SumFunctionOnSet(base, D) = 20 * W
    <2>1. PICK all, over : all = [i \in D |-> W] /\ over = [i \in D |-> (20 - n) * w[i]]
      OBVIOUS
    <2>2. \A i \in D : all[i] = W /\ over[i] = (20 - n) * w[i]
      BY <2>1
    <2>3. ASSUME NEW i \in D PROVE all[i] \in Int /\ over[i] \in Int /\ base[i] = all[i] + over[i]
      <3>1. PICK x \in Int : x = (20 - n) * w[i]
        OBVIOUS
      <3> QED BY <2>2, <3>1
    <2>4. SumFunctionOnSet(base, D) = SumFunctionOnSet(all, D) + SumFunctionOnSet(over, D)
      BY <2>3, SumOfBoth
    <2>5. SumFunctionOnSet(all, D) + SumFunctionOnSet(over, D) = 20 * W
      <3>1. n \in Nat /\ W \in Int /\ \A i \in D : w[i] \in Int
        OBVIOUS
      <3> QED BY <2>2, <3>1, PoolIsWhole
    <2> QED BY <2>4, <2>5
  <1>2. ASSUME NEW i \in D, NEW j \in D, acc[i] < acc[j] PROVE base[i] >= base[j] + 0
    <2>1. PICK x \in Nat, y \in Nat, k \in Nat : x = w[i] /\ y = w[j] /\ k = 20 - n
      OBVIOUS
    <2>2. x >= y
      <3>1. CASE AllStable(w, D, acc)
        BY <2>1, <3>1 DEF AllStable
      <3>2. CASE ByWeakness(w, D, acc)
        <4>1. acc[i] \in 0 .. 10 /\ acc[j] \in 0 .. 10
          OBVIOUS
        <4>2. x = Guide!SubjectWeight(acc[i]) /\ y = Guide!SubjectWeight(acc[j])
          BY <2>1, <3>2 DEF ByWeakness
        <4>3. x = IF acc[i] < 4 THEN 15 - acc[i] ELSE IF acc[i] < 7 THEN 10 - acc[i] ELSE 0
          BY <4>1, <4>2, WeightOf
        <4>4. y = IF acc[j] < 4 THEN 15 - acc[j] ELSE IF acc[j] < 7 THEN 10 - acc[j] ELSE 0
          BY <4>1, <4>2, WeightOf
        <4> QED BY <1>2, <4>1, <4>3, <4>4
      <3> QED BY <3>1, <3>2
    <2>3. k * x >= k * y
      <3>1. PICK d \in Nat : x = y + d
        <4>1. x - y \in Nat /\ x = y + (x - y)
          BY <2>2
        <4> QED BY <4>1
      <3>2. k * x = k * y + k * d /\ k * d \in Nat /\ k * y \in Int
        BY <3>1
      <3> QED BY <3>2
    <2>4. base[i] = W + k * x /\ base[j] = W + k * y
      BY <2>1
    <2>5. k * x \in Int /\ k * y \in Int
      OBVIOUS
    <2> QED BY <2>3, <2>4, <2>5
  <1>3. \A i \in D : base[i] \in Nat /\ base[i] >= W /\ (acc[i] < 4 => base[i] >= 3 * W)
    OBVIOUS
  <1>4. SumFunctionOnSet(base, D) = 20 * W + 0
    BY <1>1
  <1>5. 0 \in Nat /\ \A i \in D : base[i] = W + (20 - n) * w[i]
    OBVIOUS
  <1> QED BY <1>2, <1>3, <1>4, <1>5 DEF Portions

\* Only six subjects, all of them failing, can be too weak for their floors: one of them has an
\* accuracy of 0.3, and the others weigh so much that it does not get its 15%.
LEMMA FloorsAreShort ==
  ASSUME NEW n \in 1 .. 6, NEW D, IsFiniteSet(D), Cardinality(D) = n, NEW acc, \A i \in D : acc[i] \in 0 .. 10,
         NEW w, ByWeakness(w, D, acc), NEW W, W = SumFunctionOnSet(w, D),
         NEW s \in D, acc[s] < 4, NEW b \in Int, b = W + (20 - n) * w[s], b < 3 * W
  PROVE  /\ n = 6 /\ w[s] = 12 /\ acc[s] = 3 /\ W \in 85 .. 87
         /\ \A j \in D : j # s => w[j] \in 13 .. 15 /\ acc[j] = 15 - w[j] /\ acc[j] < 3
  <1>1. \A i \in D : /\ w[i] \in 0 .. 15
                     /\ w[i] = IF acc[i] < 4 THEN 15 - acc[i] ELSE IF acc[i] < 7 THEN 10 - acc[i] ELSE 0
    BY WeightOf DEF ByWeakness
  <1>2. /\ W \in Nat /\ W <= w[s] + 15 * (n - 1)
        /\ \A j \in D \ {s} : W <= w[s] + w[j] + 15 * (n - 2)
    <2>1. n \in Nat /\ \A i \in D : w[i] \in 0 .. 15
      BY <1>1
    <2> QED BY <2>1, OthersWeigh
  <1>3. PICK x \in 12 .. 15 : x = w[s] /\ x = 15 - acc[s]
    BY <1>1
  <1>4. n = 6
    <2> SUFFICES ASSUME n <= 5 PROVE FALSE
      OBVIOUS
    <2>1. PICK d \in Nat : 20 - n = 15 + d
      <3>1. 5 - n \in Nat /\ 20 - n = 15 + (5 - n)
        OBVIOUS
      <3> QED BY <3>1
    <2>2. (20 - n) * x = 15 * x + d * x /\ d * x \in Nat
      BY <2>1
    <2>3. W + 15 * x < 3 * W
      BY <1>2, <1>3, <2>2
    <2>4. W <= x + 60 /\ W \in Nat
      <3>1. W <= x + 15 * (n - 1) /\ W \in Nat
        BY <1>2, <1>3
      <3>2. 15 * (n - 1) <= 60
        OBVIOUS
      <3> QED BY <3>1, <3>2
    <2> QED BY <2>3, <2>4
  <1>5. W + 14 * x < 3 * W /\ W <= x + 75
    BY <1>2, <1>3, <1>4
  <1>6. x = 12 /\ W \in 85 .. 87
    BY <1>2, <1>5
  <1>7. ASSUME NEW j \in D, j # s PROVE w[j] \in 13 .. 15 /\ acc[j] = 15 - w[j] /\ acc[j] < 3
    <2>1. PICK y \in 0 .. 15, a \in 0 .. 10 :
             /\ y = w[j] /\ a = acc[j]
             /\ y = IF a < 4 THEN 15 - a ELSE IF a < 7 THEN 10 - a ELSE 0
      BY <1>1
    <2>2. W <= x + y + 60
      <3>1. \A k \in D \ {s} : W <= w[s] + w[k] + 15 * (n - 2)
        BY <1>2
      <3>2. W <= w[s] + w[j] + 15 * (n - 2)
        BY <1>7, <3>1
      <3>3. W <= x + y + 15 * (6 - 2)
        BY <1>3, <1>4, <2>1, <3>2
      <3> QED BY <1>2, <3>3
    <2>3. y >= 13
      BY <1>6, <2>2
    <2> QED BY <2>1, <2>3
  <1>8. acc[s] = 3
    BY <1>3, <1>6
  <1> QED BY <1>3, <1>4, <1>6, <1>7, <1>8

LEMMA ShortPortions ==
  ASSUME NEW n \in 1 .. 6, NEW D, IsFiniteSet(D), Cardinality(D) = n, NEW acc, \A i \in D : acc[i] \in 0 .. 10,
         NEW w, \A i \in D : w[i] \in Nat, ByWeakness(w, D, acc), NEW W \in Nat \ {0}, W = SumFunctionOnSet(w, D),
         NEW base, \A i \in D : base[i] \in Nat /\ base[i] = W + (20 - n) * w[i] /\ base[i] >= W,
         NEW raised, \A i \in D : raised[i] = IF acc[i] < 4 /\ base[i] < 3 * W THEN 3 * W ELSE base[i],
         NEW s \in D, acc[s] < 4, base[s] < 3 * W
  PROVE  Portions(raised, w, D, n, acc, W, 2 * W - 168) /\ \A i \in D : acc[i] < 4
  <1>1. /\ n = 6 /\ w[s] = 12 /\ acc[s] = 3 /\ W \in 85 .. 87
        /\ \A j \in D : j # s => w[j] \in 13 .. 15 /\ acc[j] = 15 - w[j] /\ acc[j] < 3
    <2>1. PICK b \in Int : b = base[s]
      OBVIOUS
    <2>2. b = W + (20 - n) * w[s] /\ b < 3 * W
      BY <2>1
    <2> QED BY <2>2, FloorsAreShort
  <1>2. PICK E \in Nat : E = 2 * W - 168
    BY <1>1
  <1>3. base[s] = W + 168 /\ raised[s] = 3 * W /\ raised[s] = base[s] + E
    <2>1. base[s] = W + 14 * 12
      BY <1>1
    <2> QED BY <1>2, <2>1
  <1>4. ASSUME NEW j \in D, j # s
        PROVE  raised[j] = base[j] /\ raised[j] = W + 14 * (15 - acc[j]) /\ raised[j] >= 3 * W + 8 /\ acc[j] < 3
    <2>1. PICK x \in 13 .. 15 : x = w[j] /\ acc[j] = 15 - x /\ acc[j] < 3
      BY <1>1, <1>4
    <2>2. base[j] = W + 14 * x
      BY <1>1, <2>1
    <2>3. W + 14 * x >= 3 * W + 8
      BY <1>1
    <2>4. raised[j] = base[j]
      BY <2>2, <2>3
    <2>5. 15 - acc[j] = x
      BY <2>1
    <2> QED BY <2>1, <2>2, <2>3, <2>4, <2>5
  <1>5. SumFunctionOnSet(raised, D) = 20 * W + E
    <2>1. \A i \in D : base[i] \in Int
      OBVIOUS
    <2>2. Moved(raised, base, D, s, E)
      BY <1>3, <1>4, <2>1 DEF Moved
    <2>3. SumFunctionOnSet(raised, D) = SumFunctionOnSet(base, D) + E
      BY <2>2, SumMoves
    <2>4. PICK all, over : all = [i \in D |-> W] /\ over = [i \in D |-> (20 - n) * w[i]]
      OBVIOUS
    <2>5. \A i \in D : all[i] = W /\ over[i] = (20 - n) * w[i]
      BY <2>4
    <2>6. ASSUME NEW i \in D PROVE all[i] \in Int /\ over[i] \in Int /\ base[i] = all[i] + over[i]
      <3>1. PICK x \in Int : x = (20 - n) * w[i]
        OBVIOUS
      <3> QED BY <2>5, <3>1
    <2>7. SumFunctionOnSet(base, D) = SumFunctionOnSet(all, D) + SumFunctionOnSet(over, D)
      BY <2>6, SumOfBoth
    <2>8. SumFunctionOnSet(all, D) + SumFunctionOnSet(over, D) = 20 * W
      <3>1. n \in Nat /\ W \in Int /\ \A i \in D : w[i] \in Int
        OBVIOUS
      <3> QED BY <2>5, <3>1, PoolIsWhole
    <2> QED BY <2>3, <2>7, <2>8
  <1>6. \A i \in D : acc[i] < 4
    BY <1>1
  <1>7. \A i \in D : raised[i] \in Nat /\ raised[i] >= W /\ raised[i] >= 3 * W
    <2> SUFFICES ASSUME NEW i \in D PROVE raised[i] \in Nat /\ raised[i] >= W /\ raised[i] >= 3 * W
      OBVIOUS
    <2>1. PICK x \in Nat : x = base[i]
      OBVIOUS
    <2>2. raised[i] = IF x < 3 * W THEN 3 * W ELSE x
      BY <1>6, <2>1
    <2> QED BY <2>2
  <1>8. ASSUME NEW i \in D, NEW j \in D, acc[i] < acc[j] PROVE raised[i] >= raised[j] + E
    <2>1. E <= 6
      BY <1>1, <1>2
    <2>2. i # s
      <3> SUFFICES ASSUME i = s PROVE FALSE
        OBVIOUS
      <3>1. acc[i] = 3 /\ acc[j] \in Int /\ (j # s => acc[j] < 3) /\ (j = s => acc[j] = 3)
        BY <1>1
      <3> QED BY <1>8, <3>1
    <2>3. CASE j = s
      <3>1. raised[i] >= 3 * W + 8 /\ raised[j] = 3 * W /\ raised[i] \in Nat
        BY <1>3, <1>4, <1>7, <2>2, <2>3
      <3> QED BY <2>1, <3>1
    <2>4. CASE j # s
      <3>1. raised[i] = W + 14 * (15 - acc[i]) /\ raised[j] = W + 14 * (15 - acc[j])
        BY <1>4, <2>2, <2>4
      <3>2. acc[i] \in Int /\ acc[j] \in Int
        OBVIOUS
      <3> QED BY <1>8, <2>1, <3>1, <3>2
    <2> QED BY <2>3, <2>4
  <1>9. E # 0 /\ E <= 6 /\ W >= 85
    BY <1>1, <1>2
  <1>10. raised[s] = 3 * W /\ \A j \in D : j # s => raised[j] >= 3 * W + 8
    BY <1>3, <1>4
  <1>11. Portions(raised, w, D, n, acc, W, E)
    BY <1>1, <1>5, <1>6, <1>7, <1>8, <1>9, <1>10 DEF Portions
  <1> QED BY <1>2, <1>6, <1>11

Dealt(sh, n, acc, p, W, E, K) ==
    /\ Portions(p, Guide!Weights(acc), 1 .. n, n, acc, W, E)
    /\ K \in Nat \ {0} /\ sh.unit = K * (20 * W)
    /\ DOMAIN sh.part = 1 .. n /\ \A i \in 1 .. n : sh.part[i] = K * p[i]

LEMMA PortionsAre ==
  ASSUME NEW n \in 1 .. 6, NEW acc, AreAccuracies(acc, n), NEW sh, sh = Guide!Shares(acc)
  PROVE  \E p, W, E, K : Dealt(sh, n, acc, p, W, E, K)
  <1>0. n \in 1 .. 8
    OBVIOUS
  <1>1. PICK D : D = 1 .. n
    OBVIOUS
  <1>2. IsFiniteSet(D) /\ Cardinality(D) = n
    <2>1. n \in Nat
      OBVIOUS
    <2> QED BY <1>1, <2>1, UpToIsFinite
  <1>3. PICK w : w = Guide!Weights(acc)
    OBVIOUS
  <1>4. PICK W, base, raised, needed, spare, K, left :
           SharedBy(sh, D, n, acc, w, W, base, raised, needed, spare, K, left)
    BY <1>0, <1>1, <1>3, SharesAre
  <1>5. /\ W \in Nat \ {0} /\ W = SumFunctionOnSet(w, D) /\ DOMAIN w = D /\ \A i \in D : w[i] \in Nat
        /\ \A i \in D : base[i] \in Nat /\ base[i] = W + (20 - n) * w[i] /\ base[i] >= W
        /\ \A i \in D : raised[i] = IF acc[i] < 4 /\ base[i] < 3 * W THEN 3 * W ELSE base[i]
        /\ needed \in Nat /\ needed = SumFunctionOnSet(raised, D) - SumFunctionOnSet(base, D)
        /\ spare \in Nat
        /\ K = (IF spare >= 1 THEN spare ELSE 1)
        /\ left = (IF spare - needed >= 0 THEN spare - needed ELSE 0)
        /\ sh.unit = 20 * W * K /\ DOMAIN sh.part = D
        /\ \A i \in D : sh.part[i] = IF acc[i] < 4 THEN raised[i] * K ELSE W * K + (base[i] - W) * left
    BY <1>4 DEF SharedBy
  <1>6. K \in Nat \ {0} /\ left \in Nat
    BY <1>5
  <1>7. sh.unit = K * (20 * W)
    BY <1>5, <1>6
  <1>8. AllStable(w, D, acc) \/ ByWeakness(w, D, acc)
    BY <1>0, <1>1, <1>3, WeightsAre
  <1>9. \A i \in D : acc[i] \in 0 .. 10
    BY <1>1 DEF AreAccuracies
  <1>10. CASE \A i \in D : acc[i] < 4 => base[i] >= 3 * W
    <2>1. Portions(base, w, D, n, acc, W, 0)
      <3>1. \A i \in D : base[i] \in Nat /\ base[i] = W + (20 - n) * w[i] /\ base[i] >= W
        BY <1>5, Zenon
      <3>2. W \in Nat \ {0} /\ W = SumFunctionOnSet(w, D) /\ \A i \in D : w[i] \in Nat
        BY <1>5, Zenon
      <3> QED BY <1>2, <1>8, <1>9, <1>10, <3>1, <3>2, WholePortions
    <2>2. \A i \in D : raised[i] = base[i]
      <3> SUFFICES ASSUME NEW i \in D PROVE raised[i] = base[i]
        OBVIOUS
      <3>1. PICK b \in Nat : b = base[i] /\ (acc[i] < 4 => b >= 3 * W)
        BY <1>5, <1>10
      <3>2. raised[i] = IF acc[i] < 4 /\ b < 3 * W THEN 3 * W ELSE b
        BY <1>5, <3>1
      <3>3. ~ (acc[i] < 4 /\ b < 3 * W)
        BY <1>5, <3>1
      <3> QED BY <3>1, <3>2, <3>3
    <2>3. needed = 0
      <3>1. PICK B \in Int : B = SumFunctionOnSet(base, D)
        BY <1>2, <1>5, SumFacts
      <3>2. SumFunctionOnSet(raised, D) = B
        <4>1. PICK a \in Int : a = 1
          OBVIOUS
        <4>2. \A i \in D : base[i] \in Int /\ raised[i] = a * base[i]
          BY <1>5, <2>2, <4>1
        <4>3. SumFunctionOnSet(raised, D) = a * B
          BY <1>2, <3>1, <4>2, SumOfMultiples
        <4> QED BY <4>1, <4>3
      <3> QED BY <1>5, <3>1, <3>2
    <2>4. left = spare
      BY <1>5, <2>3
    <2>5. PICK over : /\ \A i \in D : over[i] = base[i] - W
                      /\ spare = SumFunctionOnSet(over, {i \in D : acc[i] >= 4})
      BY <1>4 DEF SharedBy
    <2>6. ASSUME NEW i \in D PROVE sh.part[i] = K * base[i]
      <3>1. PICK b \in Nat : b = base[i] /\ raised[i] = b
        BY <1>5, <2>2
      <3>2. CASE acc[i] < 4
        BY <1>5, <1>6, <3>1, <3>2
      <3>3. CASE ~ (acc[i] < 4)
        <4>1. sh.part[i] = W * K + (b - W) * left
          BY <1>5, <3>1, <3>3
        <4>2. CASE spare >= 1
          <5>1. left = K
            BY <1>5, <2>4, <4>2
          <5>2. W * K + (b - W) * K = K * b
            BY <1>5, <1>6
          <5> QED BY <3>1, <4>1, <5>1, <5>2
        <4>3. CASE spare = 0
          <5>1. PICK N : N = {k \in D : acc[k] >= 4}
            OBVIOUS
          <5>2. IsFiniteSet(N) /\ i \in N
            BY <1>2, <1>9, <3>3, <5>1, FS_Subset
          <5>3. \A k \in N : over[k] \in Nat
            BY <1>5, <2>5, <5>1
          <5>4. over[i] <= 0
            BY <2>5, <4>3, <5>1, <5>2, <5>3, SumOfPart
          <5>5. b - W <= 0 /\ b >= W
            BY <1>5, <2>5, <3>1, <5>4
          <5>6. b = W /\ K = 1
            BY <1>5, <4>3, <5>5
          <5>7. W * 1 + (W - W) * left = 1 * W
            BY <1>5, <1>6
          <5> QED BY <3>1, <4>1, <5>6, <5>7
        <4> QED BY <1>5, <4>2, <4>3
      <3> QED BY <3>2, <3>3
    <2>7. Portions(base, Guide!Weights(acc), 1 .. n, n, acc, W, 0)
      BY <1>1, <1>3, <2>1
    <2>8. K \in Nat \ {0} /\ DOMAIN sh.part = 1 .. n /\ \A i \in 1 .. n : sh.part[i] = K * base[i]
      BY <1>1, <1>5, <1>6, <2>6
    <2>9. Dealt(sh, n, acc, base, W, 0, K)
      BY <1>7, <2>7, <2>8, Zenon DEF Dealt
    <2> QED BY <2>9, Zenon
  <1>11. CASE \E s \in D : acc[s] < 4 /\ ~ (base[s] >= 3 * W)
    <2>1. PICK s \in D : acc[s] < 4 /\ base[s] < 3 * W
      BY <1>5, <1>11
    <2>2. ByWeakness(w, D, acc)
      <3>1. ~ AllStable(w, D, acc)
        BY <1>9, <2>1 DEF AllStable
      <3> QED BY <1>8, <3>1
    <2>3. Portions(raised, w, D, n, acc, W, 2 * W - 168) /\ \A i \in D : acc[i] < 4
      <3>1. \A i \in D : base[i] \in Nat /\ base[i] = W + (20 - n) * w[i] /\ base[i] >= W
        BY <1>5, Zenon
      <3>2. \A i \in D : raised[i] = IF acc[i] < 4 /\ base[i] < 3 * W THEN 3 * W ELSE base[i]
        BY <1>5, Zenon
      <3>3. W \in Nat \ {0} /\ W = SumFunctionOnSet(w, D) /\ \A i \in D : w[i] \in Nat
        BY <1>5, Zenon
      <3> QED BY <1>2, <1>9, <2>1, <2>2, <3>1, <3>2, <3>3, ShortPortions, SMTT(60)
    <2>4. ASSUME NEW i \in D PROVE sh.part[i] = K * raised[i]
      <3>1. raised[i] \in Nat
        BY <2>3 DEF Portions
      <3>2. sh.part[i] = raised[i] * K
        BY <1>5, <2>3
      <3> QED BY <1>6, <3>1, <3>2
    <2>5. Portions(raised, Guide!Weights(acc), 1 .. n, n, acc, W, 2 * W - 168)
      BY <1>1, <1>3, <2>3
    <2>6. K \in Nat \ {0} /\ DOMAIN sh.part = 1 .. n /\ \A i \in 1 .. n : sh.part[i] = K * raised[i]
      BY <1>1, <1>5, <1>6, <2>4
    <2>7. Dealt(sh, n, acc, raised, W, 2 * W - 168, K)
      BY <1>7, <2>5, <2>6, Zenon DEF Dealt
    <2> QED BY <2>7, Zenon
  <1> QED BY <1>10, <1>11, Zenon

\* What all parts have in common does not matter.
LEMMA NearCancelled ==
  ASSUME NEW K \in Nat \ {0}, NEW U \in Nat \ {0}, NEW unit, unit = K * U, NEW D, NEW f, NEW p,
         \A i \in D : p[i] \in Nat /\ f[i] = K * p[i], NEW week \in Nat, NEW g, NearAll(g, D, f, unit, week)
  PROVE  NearAll(g, D, p, U, week)
  <1>1. ASSUME NEW i \in D
        PROVE  /\ g[i] \in Nat
               /\ 2 * U * g[i] <= 2 * week * p[i] + U
               /\ 2 * week * p[i] <= 2 * U * g[i] + U
    <2>1. PICK x \in Nat, q \in Nat : x = g[i] /\ q = p[i]
      BY DEF NearAll
    <2>2. /\ 2 * unit * x <= 2 * week * (K * q) + unit
          /\ 2 * week * (K * q) <= 2 * unit * x + unit
      BY <2>1 DEF NearAll
    <2>3. PICK a \in Nat, b \in Nat : a = 2 * U * x /\ b = 2 * week * q
      OBVIOUS
    <2>4. 2 * unit * x = K * a
      BY <2>3
    <2>5. 2 * week * (K * q) = K * b
      BY <2>3
    <2>6. PICK c \in Int, d \in Int : c = a + U /\ d = b + U
      OBVIOUS
    <2>7. K * c = K * a + unit /\ K * d = K * b + unit
      BY <2>6
    <2>8. K * d >= K * a /\ K * c >= K * b
      BY <2>2, <2>4, <2>5, <2>7
    <2>9. d >= a /\ c >= b
      <3>1. a \in Int /\ b \in Int
        OBVIOUS
      <3> QED BY <2>8, <3>1, Cancelled
    <2> QED BY <2>1, <2>3, <2>6, <2>9
  <1>2. DOMAIN g = D
    BY DEF NearAll
  <1> QED BY <1>1, <1>2 DEF NearAll

\* The hours of the one that takes what the others leave.
LEMMA LargestIsNear ==
  ASSUME NEW n \in 1 .. 6, NEW D, IsFiniteSet(D), Cardinality(D) = n, NEW U \in Nat \ {0}, NEW E \in Nat,
         NEW p, \A i \in D : p[i] \in Nat, SumFunctionOnSet(p, D) = U + E, NEW week \in Nat,
         NEW g, NEW h, NEW L, NearAll(g, D, p, U, week), Fixed(h, g, D, L, week)
  PROVE  /\ L \in D /\ h[L] \in Int
         /\ 2 * U * h[L] <= 2 * week * (p[L] - E) + n * U
         /\ 2 * week * (p[L] - E) <= 2 * U * h[L] + n * U
  <1>1. \A i \in D : /\ g[i] \in Nat
                     /\ 2 * U * g[i] <= 2 * week * p[i] + U
                     /\ 2 * week * p[i] <= 2 * U * g[i] + U
    BY DEF NearAll
  <1>2. L \in D /\ h[L] = g[L] + (week - SumFunctionOnSet(g, D))
    BY DEF Fixed
  <1>3. PICK S : S = D \ {L}
    OBVIOUS
  <1>4. IsFiniteSet(S) /\ Cardinality(S) = n - 1 /\ S \subseteq D
    BY <1>2, <1>3, FS_RemoveElement
  <1>5. (\A i \in D : g[i] \in Int) /\ (\A i \in D : p[i] \in Int)
    BY <1>1
  <1>6. (\A i \in S : g[i] \in Int) /\ (\A i \in S : p[i] \in Int)
    BY <1>4, <1>5
  <1>7. PICK R \in Int : R = SumFunctionOnSet(g, S)
    BY <1>4, <1>6, SumFacts
  <1>8. PICK Q \in Int : Q = SumFunctionOnSet(p, S)
    BY <1>4, <1>6, SumFacts
  <1>9. SumFunctionOnSet(g, D) = g[L] + R
    BY <1>2, <1>3, <1>5, <1>7, SumFacts
  <1>10. U + E = p[L] + Q
    BY <1>2, <1>3, <1>5, <1>8, SumFacts
  <1>11. PICK a \in Int, b \in Int, c \in Int : a = 2 * U /\ b = 2 * week /\ c = U
    OBVIOUS
  <1>12. a * R <= b * Q + (n - 1) * c
    <2>1. LinearlyBelow(g, p, S, a, b, c)
      BY <1>1, <1>4, <1>6, <1>11 DEF LinearlyBelow
    <2> QED BY <1>4, <1>7, <1>8, <2>1, LinearSums
  <1>13. b * Q <= a * R + (n - 1) * c
    <2>1. LinearlyBelow(p, g, S, b, a, c)
      BY <1>1, <1>4, <1>6, <1>11 DEF LinearlyBelow
    <2> QED BY <1>4, <1>7, <1>8, <2>1, LinearSums
  <1>14. PICK x \in Nat, y \in Int, q \in Nat : x = g[L] /\ y = h[L] /\ q = p[L] /\ y = week - R
    <2>1. g[L] \in Nat /\ p[L] \in Nat
      BY <1>1, <1>2
    <2>2. h[L] = week - R /\ week - R \in Int
      BY <1>2, <1>7, <1>9, <2>1
    <2> QED BY <2>1, <2>2
  <1>15. a * y = a * week - a * R
    BY <1>11, <1>14
  <1>16. b * (q - E) = a * week - b * Q
    <2>1. q - E = U - Q
      BY <1>10, <1>14
    <2>2. b * (U - Q) = b * U - b * Q
      BY <1>11
    <2>3. b * U = a * week
      BY <1>11
    <2> QED BY <2>1, <2>2, <2>3
  <1>17. (n - 1) * c <= n * U
    BY <1>11
  <1>18. PICK u1 \in Int, u2 \in Int, u3 \in Int, u4 \in Int, u5 \in Int :
            u1 = a * R /\ u2 = b * Q /\ u3 = (n - 1) * c /\ u4 = n * U /\ u5 = a * week
    BY <1>11
  <1>19. a * y <= b * (q - E) + n * U /\ b * (q - E) <= a * y + n * U
    BY <1>12, <1>13, <1>15, <1>16, <1>17, <1>18
  <1>20. 2 * U * h[L] = a * y /\ 2 * week * (p[L] - E) = b * (q - E)
    BY <1>11, <1>14
  <1> QED BY <1>2, <1>14, <1>19, <1>20

\* The hours of the first attempt, to n/2 hundredths of what they should be; what is short comes
\* from the largest.
HoursNear(h, p, D, L, U, E, n, week) ==
    \A i \in D : /\ h[i] \in Int
                 /\ 2 * U * h[i] <= 2 * week * (p[i] - IF i = L THEN E ELSE 0) + n * U
                 /\ 2 * week * (p[i] - IF i = L THEN E ELSE 0) <= 2 * U * h[i] + n * U

LEMMA FirstIsNear ==
  ASSUME NEW n \in 1 .. 6, NEW D, IsFiniteSet(D), Cardinality(D) = n, NEW U \in Nat \ {0}, NEW E \in Nat,
         NEW p, \A i \in D : p[i] \in Nat, SumFunctionOnSet(p, D) = U + E, NEW week \in Nat,
         NEW g, NEW h, NEW L, NearAll(g, D, p, U, week), Fixed(h, g, D, L, week)
  PROVE  HoursNear(h, p, D, L, U, E, n, week)
  <1>1. /\ L \in D /\ h[L] \in Int
        /\ 2 * U * h[L] <= 2 * week * (p[L] - E) + n * U
        /\ 2 * week * (p[L] - E) <= 2 * U * h[L] + n * U
    BY LargestIsNear
  <1> SUFFICES ASSUME NEW i \in D
               PROVE  /\ h[i] \in Int
                      /\ 2 * U * h[i] <= 2 * week * (p[i] - IF i = L THEN E ELSE 0) + n * U
                      /\ 2 * week * (p[i] - IF i = L THEN E ELSE 0) <= 2 * U * h[i] + n * U
    BY DEF HoursNear
  <1>2. CASE i = L
    BY <1>1, <1>2
  <1>3. CASE i # L
    <2>1. PICK x \in Nat, q \in Nat : x = g[i] /\ q = p[i] /\ h[i] = x
      BY <1>3 DEF NearAll, Fixed
    <2>2. 2 * U * x <= 2 * week * q + U /\ 2 * week * q <= 2 * U * x + U
      BY <2>1 DEF NearAll
    <2>3. U <= n * U
      OBVIOUS
    <2>4. PICK a \in Int, b \in Int, c \in Int : a = 2 * U * x /\ b = 2 * week * q /\ c = n * U
      OBVIOUS
    <2>5. a <= b + c /\ b <= a + c
      BY <2>2, <2>3, <2>4
    <2>6. p[i] - (IF i = L THEN E ELSE 0) = q
      BY <1>3, <2>1
    <2> QED BY <2>1, <2>4, <2>5, <2>6
  <1> QED BY <1>2, <1>3

\* What the floors are short of does not take the weakest below the 15%, to the rounding: it is
\* the largest only of hours that are nearly equal.
LEMMA ShortIsSmall ==
  ASSUME NEW D, NEW U \in Nat \ {0}, NEW E \in 0 .. 6, NEW p, \A i \in D : p[i] \in Nat, NEW week \in Nat,
         NEW g, NearAll(g, D, p, U, week), NEW s \in D, NEW j \in D, p[j] >= p[s] + 8, g[j] <= g[s]
  PROVE  week * E <= U
  <1>1. PICK x \in Nat, y \in Nat, q \in Nat, r \in Nat : x = g[s] /\ y = g[j] /\ q = p[s] /\ r = p[j]
    BY DEF NearAll
  <1>2. 2 * U * x <= 2 * week * q + U /\ 2 * week * r <= 2 * U * y + U
    BY <1>1 DEF NearAll
  <1>3. PICK d \in Nat : r = q + E + d
    <2>1. r - q - E \in Nat /\ r = q + E + (r - q - E)
      BY <1>1
    <2> QED BY <2>1
  <1>4. PICK k \in Nat : x = y + k
    <2>1. x - y \in Nat /\ x = y + (x - y)
      BY <1>1
    <2> QED BY <2>1
  <1>5. PICK a \in Nat, b \in Nat, c \in Nat, e \in Nat, u \in Nat :
           a = week * q /\ b = week * E /\ c = week * d /\ e = U * y /\ u = U * k
    OBVIOUS
  <1>6. 2 * week * r = 2 * a + 2 * b + 2 * c
    BY <1>3, <1>5
  <1>7. 2 * week * q = 2 * a
    BY <1>5
  <1>8. 2 * U * x = 2 * e + 2 * u /\ 2 * U * y = 2 * e
    BY <1>4, <1>5
  <1> QED BY <1>2, <1>5, <1>6, <1>7, <1>8

LEMMA Multiplied ==
  ASSUME NEW u \in Nat, NEW a \in Int, NEW b \in Int, a <= b
  PROVE  u * a <= u * b
  <1>1. PICK d \in Nat : b = a + d
    <2>1. b - a \in Nat /\ b = a + (b - a)
      OBVIOUS
    <2> QED BY <2>1
  <1>2. u * b = u * a + u * d /\ u * d \in Nat /\ u * a \in Int
    BY <1>1
  <1> QED BY <1>2

\* A weaker subject has no less, to the rounding.
LEMMA WeakerHasMore ==
  ASSUME NEW n \in 1 .. 6, NEW D, NEW U \in Nat \ {0}, NEW E \in Nat, NEW p, \A k \in D : p[k] \in Nat,
         NEW week \in Nat, NEW h, NEW L, HoursNear(h, p, D, L, U, E, n, week),
         NEW i \in D, NEW j \in D, p[i] >= p[j] + E
  PROVE  h[j] <= h[i] + n
  <1>0. h[i] \in Int /\ h[j] \in Int /\ p[i] \in Nat /\ p[j] \in Nat
    BY Zenon DEF HoursNear
  <1>a. PICK q \in Nat, r \in Nat : q = p[i] /\ r = p[j]
    BY <1>0, Zenon
  <1>1. PICK x \in Int, y \in Int : x = h[i] /\ y = h[j] /\ q = p[i] /\ r = p[j]
    BY <1>0, <1>a, Zenon
  <1>b. PICK s \in Nat : s = IF i = L THEN E ELSE 0
    OBVIOUS
  <1>c. PICK t \in Nat : t = IF j = L THEN E ELSE 0
    OBVIOUS
  <1>d. PICK a \in Int : a = q - s
    OBVIOUS
  <1>e. PICK b \in Int : b = r - t
    OBVIOUS
  <1>2. a = q - (IF i = L THEN E ELSE 0) /\ b = r - (IF j = L THEN E ELSE 0)
    BY <1>b, <1>c, <1>d, <1>e, Zenon
  <1>3. 2 * week * a <= 2 * U * x + n * U
    BY <1>1, <1>2 DEF HoursNear
  <1>4. 2 * U * y <= 2 * week * b + n * U
    BY <1>1, <1>2 DEF HoursNear
  <1>5. b <= a
    BY <1>1, <1>b, <1>c, <1>d, <1>e
  <1>6. PICK w2 \in Nat : w2 = 2 * week
    OBVIOUS
  <1>7. w2 * b <= w2 * a
    BY <1>5, <1>6, Multiplied
  <1>8. PICK c \in Int, d \in Int, e \in Int, f \in Int, m \in Int :
           c = w2 * b /\ d = w2 * a /\ e = 2 * U * x /\ f = 2 * U * y /\ m = n * U
    BY <1>6
  <1>9. f <= e + 2 * m
    BY <1>3, <1>4, <1>6, <1>7, <1>8
  <1>10. U * (2 * x + 2 * n) = e + 2 * m /\ U * (2 * y) = f
    BY <1>8
  <1>11. U * (2 * x + 2 * n) >= U * (2 * y)
    BY <1>9, <1>10
  <1>12. 2 * x + 2 * n >= 2 * y
    <2>1. 2 * x + 2 * n \in Int /\ 2 * y \in Int
      OBVIOUS
    <2> QED BY <1>11, <2>1, Cancelled
  <1> QED BY <1>1, <1>12

\* The hours of each are no more than its part of the week, and no less, to the rounding; of six
\* failing subjects each has the 15%.
HoursFair(h, p, D, n, acc, W, E, week) ==
    \A i \in D :
       /\ h[i] \in Int
       /\ 20 * W * h[i] <= week * p[i] + 10 * n * W
       /\ week * (IF E = 0 THEN p[i] ELSE 3 * W) <= 20 * W * (h[i] + n)
       /\ \A j \in D : acc[i] < acc[j] => h[j] <= h[i] + n

LEMMA NoMoreThanFair ==
  ASSUME NEW n \in 1 .. 6, NEW W \in Nat \ {0}, NEW E \in Nat, NEW q \in Nat, NEW e \in {0, E},
         NEW week \in Nat, NEW x \in Int, 2 * (20 * W) * x <= 2 * week * (q - e) + n * (20 * W)
  PROVE  20 * W * x <= week * q + 10 * n * W
  <1>1. week * e \in Nat /\ e \in Nat
    OBVIOUS
  <1>2. PICK a \in Int, b \in Nat, c \in Nat, m \in Nat :
           a = W * x /\ b = week * q /\ c = week * e /\ m = n * W
    BY <1>1
  <1>3. 2 * (20 * W) * x = 40 * a /\ n * (20 * W) = 20 * m
    BY <1>2
  <1>4. 2 * week * (q - e) = 2 * b - 2 * c
    BY <1>1, <1>2
  <1>5. 40 * a <= 2 * b - 2 * c + 20 * m
    BY <1>3, <1>4
  <1>6. 20 * W * x = 20 * a /\ 10 * n * W = 10 * m
    BY <1>2
  <1> QED BY <1>2, <1>5, <1>6

LEMMA NoLessThanFair ==
  ASSUME NEW n \in 1 .. 6, NEW W \in Nat \ {0}, NEW e \in Nat, NEW q \in Nat, NEW lo \in Nat,
         NEW week \in Nat, NEW x \in Int, 2 * week * (q - e) <= 2 * (20 * W) * x + n * (20 * W),
         lo <= q - e \/ (lo = q /\ week * e <= 20 * W /\ n = 6)
  PROVE  week * lo <= 20 * W * (x + n)
  <1>1. PICK U \in Nat : U = 20 * W
    OBVIOUS
  <1>2. PICK a \in Int, b \in Int, c \in Nat, m \in Nat, l \in Nat :
           a = U * x /\ b = week * (q - e) /\ c = week * e /\ m = n * U /\ l = week * lo
    BY <1>1
  <1>3. 2 * b <= 2 * a + m
    BY <1>1, <1>2
  <1>4. 20 * W * (x + n) = a + m
    BY <1>1, <1>2
  <1>5. CASE lo <= q - e
    <2>1. week * lo <= week * (q - e)
      BY <1>5, Multiplied
    <2> QED BY <1>2, <1>3, <1>4, <2>1
  <1>6. CASE lo = q /\ week * e <= 20 * W /\ n = 6
    <2>1. b = l - c
      BY <1>2, <1>6
    <2>2. c <= U /\ m = 6 * U
      BY <1>1, <1>2, <1>6
    <2> QED BY <1>2, <1>3, <1>4, <2>1, <2>2
  <1> QED BY <1>5, <1>6

LEMMA FirstIsFair ==
  ASSUME NEW n \in 1 .. 6, NEW D, IsFiniteSet(D), Cardinality(D) = n, NEW acc, NEW w, NEW p,
         NEW W \in Nat \ {0}, NEW E \in Nat, Portions(p, w, D, n, acc, W, E), NEW week \in Nat,
         NEW g, NEW h, NEW L, NearAll(g, D, p, 20 * W, week), Fixed(h, g, D, L, week)
  PROVE  HoursFair(h, p, D, n, acc, W, E, week)
  <1>1. \A i \in D : p[i] \in Nat /\ p[i] >= W /\ (acc[i] < 4 => p[i] >= 3 * W)
    BY DEF Portions
  <1>2. SumFunctionOnSet(p, D) = 20 * W + E
    BY DEF Portions
  <1>3. \A i, j \in D : acc[i] < acc[j] => p[i] >= p[j] + E
    BY DEF Portions
  <1>4. E # 0 => /\ n = 6 /\ E <= 6 /\ W >= 85 /\ \A i \in D : acc[i] < 4
                 /\ \E s \in D : p[s] = 3 * W /\ \A j \in D : j # s => p[j] >= 3 * W + 8
    BY DEF Portions
  <1>5. PICK U \in Nat \ {0} : U = 20 * W
    OBVIOUS
  <1>6. HoursNear(h, p, D, L, U, E, n, week)
    <2>1. (\A i \in D : p[i] \in Nat) /\ SumFunctionOnSet(p, D) = U + E /\ NearAll(g, D, p, U, week)
      BY <1>1, <1>2, <1>5
    <2> QED BY <2>1, FirstIsNear
  <1>7. L \in D /\ \A i \in D : g[i] <= g[L]
    BY DEF Fixed
  <1> SUFFICES ASSUME NEW i \in D
               PROVE  /\ h[i] \in Int
                      /\ 20 * W * h[i] <= week * p[i] + 10 * n * W
                      /\ week * (IF E = 0 THEN p[i] ELSE 3 * W) <= 20 * W * (h[i] + n)
                      /\ \A j \in D : acc[i] < acc[j] => h[j] <= h[i] + n
    BY DEF HoursFair
  <1>8. PICK x \in Int, q \in Nat, e \in {0, E} : x = h[i] /\ q = p[i] /\ e = IF i = L THEN E ELSE 0
    BY <1>1, <1>6 DEF HoursNear
  <1>9. /\ 2 * (20 * W) * x <= 2 * week * (q - e) + n * (20 * W)
        /\ 2 * week * (q - e) <= 2 * (20 * W) * x + n * (20 * W)
    BY <1>5, <1>6, <1>8 DEF HoursNear
  <1>10. 20 * W * x <= week * q + 10 * n * W
    BY <1>9, NoMoreThanFair
  <1>11. PICK lo \in Nat : lo = IF E = 0 THEN q ELSE 3 * W
    OBVIOUS
  <1>12. lo <= q - e \/ (lo = q /\ week * e <= 20 * W /\ n = 6)
    <2>1. CASE E = 0
      BY <1>8, <1>11, <2>1
    <2>2. CASE E # 0
      <3>1. n = 6 /\ E <= 6 /\ (\A k \in D : acc[k] < 4) /\ lo = 3 * W
        BY <1>4, <1>11, <2>2
      <3>2. PICK s \in D : p[s] = 3 * W /\ \A j \in D : j # s => p[j] >= 3 * W + 8
        BY <1>4, <2>2
      <3>3. q >= 3 * W
        BY <1>1, <1>8, <3>1
      <3>4. CASE i # L
        BY <1>8, <3>1, <3>3, <3>4
      <3>5. CASE i = L /\ i # s
        <4>1. q >= 3 * W + 8
          BY <1>8, <3>2, <3>5
        <4> QED BY <1>8, <3>1, <3>5, <4>1
      <3>6. CASE i = L /\ i = s
        <4>1. PICK j \in D : j # s
          <5>1. Cardinality(D \ {s}) = n - 1 /\ IsFiniteSet(D \ {s})
            BY <3>2, FS_RemoveElement
          <5>2. Cardinality(D \ {s}) # 0
            BY <3>1, <5>1
          <5>3. D \ {s} # {}
            BY <5>2, FS_EmptySet
          <5> QED BY <5>3
        <4>2. p[j] >= p[s] + 8 /\ g[j] <= g[s]
          BY <1>7, <3>2, <3>6, <4>1
        <4>3. week * E <= U
          <5>1. E \in 0 .. 6 /\ (\A k \in D : p[k] \in Nat) /\ NearAll(g, D, p, U, week)
            BY <1>1, <1>5, <3>1
          <5> QED BY <4>2, <5>1, ShortIsSmall
        <4> QED BY <1>5, <1>8, <3>1, <3>2, <3>6, <4>3
      <3> QED BY <3>4, <3>5, <3>6
    <2> QED BY <2>1, <2>2
  <1>13. week * lo <= 20 * W * (x + n)
    <2>1. e \in Nat
      BY <1>8
    <2> QED BY <1>9, <1>12, <2>1, NoLessThanFair
  <1>14. \A j \in D : acc[i] < acc[j] => h[j] <= h[i] + n
    <2>1. \A k \in D : p[k] \in Nat
      BY <1>1
    <2> SUFFICES ASSUME NEW j \in D, acc[i] < acc[j] PROVE h[j] <= h[i] + n
      OBVIOUS
    <2>2. p[i] >= p[j] + E
      BY <1>3
    <2> QED BY <1>6, <2>1, <2>2, WeakerHasMore
  <1> QED BY <1>8, <1>10, <1>11, <1>13, <1>14

\* A first attempt with negative hours: the week has less than two hundredths for each of the
\* subjects.
LEMMA ShortWeeks ==
  ASSUME NEW n \in 1 .. 6, NEW week \in Nat, NEW m \in Nat, NEW s \in Nat, m < s,
         week + s <= n * m, 200 * s <= week + 100 * n
  PROVE  2 * week <= 3 * n /\ 2 * (s - 1) <= n
  <1>1. n * m <= n * (s - 1)
    BY Multiplied
  <1>2. CASE n = 1
    BY <1>1, <1>2
  <1>3. CASE n = 2
    BY <1>1, <1>3
  <1>4. CASE n = 3
    BY <1>1, <1>4
  <1>5. CASE n = 4
    BY <1>1, <1>5
  <1>6. CASE n = 5
    BY <1>1, <1>6
  <1>7. CASE n = 6
    BY <1>1, <1>7
  <1> QED BY <1>2, <1>3, <1>4, <1>5, <1>6, <1>7

\* Rounding adds little to the week, also when the floors are short.
ShortFloors(p, D, n, U, E) ==
    /\ n \in 1 .. 6 /\ IsFiniteSet(D) /\ Cardinality(D) = n
    /\ U \in Nat \ {0} /\ E \in Nat /\ 200 * E <= U
    /\ \A i \in D : p[i] \in Nat
    /\ SumFunctionOnSet(p, D) = U + E

AddsLittle(g, D, n, week) ==
    \E G \in Nat : G = SumFunctionOnSet(g, D) /\ 200 * (G - week) <= week + 100 * n

LEMMA RoundingAddsLittle ==
  ASSUME NEW p, NEW D, NEW n, NEW U, NEW E, ShortFloors(p, D, n, U, E), NEW week \in Nat,
         NEW g, NearAll(g, D, p, U, week)
  PROVE  AddsLittle(g, D, n, week)
  <1> USE DEF ShortFloors
  <1>1. \A i \in D : g[i] \in Nat /\ 2 * U * g[i] <= 2 * week * p[i] + U
    BY DEF NearAll
  <1>2. PICK a \in Int, b \in Int, c \in Int : a = 2 * U /\ b = 2 * week /\ c = U
    OBVIOUS
  <1>3. LinearlyBelow(g, p, D, a, b, c)
    BY <1>1, <1>2 DEF LinearlyBelow
  <1>4. PICK G \in Nat : G = SumFunctionOnSet(g, D)
    BY <1>1, SumOfNaturals
  <1>5. a * G <= b * (U + E) + n * c
    BY <1>3, <1>4, LinearSums
  <1>6. week * (200 * E) <= week * U
    BY Multiplied
  <1>7. PICK x \in Nat, y \in Nat, z \in Nat, v \in Nat : x = U * G /\ y = week * U /\ z = week * E /\ v = n * U
    OBVIOUS
  <1>8. a * G = 2 * x /\ b * (U + E) = 2 * y + 2 * z /\ n * c = v
    BY <1>2, <1>7
  <1>9. 2 * x <= 2 * y + 2 * z + v
    BY <1>5, <1>8
  <1>10. 200 * z <= y
    BY <1>6, <1>7
  <1>11. 200 * x <= 201 * y + 100 * v
    BY <1>9, <1>10
  <1>12. U * (201 * week + 100 * n) = 201 * y + 100 * v /\ U * (200 * G) = 200 * x
    BY <1>7
  <1>13. U * (201 * week + 100 * n) >= U * (200 * G)
    BY <1>11, <1>12
  <1>14. 201 * week + 100 * n >= 200 * G
    <2>1. 201 * week + 100 * n \in Int /\ 200 * G \in Int
      BY <1>4
    <2> QED BY <1>13, <2>1, Cancelled
  <1> QED BY <1>4, <1>14 DEF AddsLittle

\* The hours of a second attempt are as small as what rounding may add.
HoursSmall(h, D, n, week) == 2 * week <= 3 * n /\ \A i \in D : h[i] \in 0 .. n

LEMMA FirstIsShort ==
  ASSUME NEW n \in 1 .. 6, NEW D, IsFiniteSet(D), Cardinality(D) = n, NEW U \in Nat \ {0}, NEW E \in Nat, 200 * E <= U,
         NEW p, \A i \in D : p[i] \in Nat, SumFunctionOnSet(p, D) = U + E, NEW week \in Nat,
         NEW g, NEW h, NEW L, NearAll(g, D, p, U, week), Fixed(h, g, D, L, week), \E i \in D : h[i] < 0
  PROVE  2 * week <= 3 * n /\ \A i \in D : h[i] \in Int /\ 2 * h[i] <= n
  <1>1. \A i \in D : g[i] \in Nat
    BY DEF NearAll
  <1>2. /\ L \in D /\ \A i \in D : g[i] <= g[L]
        /\ h[L] = g[L] + (week - SumFunctionOnSet(g, D))
        /\ \A i \in D : i # L => h[i] = g[i]
    BY DEF Fixed
  <1>3. PICK G \in Nat : G = SumFunctionOnSet(g, D) /\ 200 * (G - week) <= week + 100 * n
    <2>1. ShortFloors(p, D, n, U, E)
      BY DEF ShortFloors
    <2>2. AddsLittle(g, D, n, week)
      BY <2>1, RoundingAddsLittle
    <2> QED BY <2>2 DEF AddsLittle
  <1>4. PICK m \in Nat : m = g[L]
    BY <1>1, <1>2
  <1>5. h[L] = m - (G - week)
    BY <1>2, <1>3, <1>4
  <1>6. h[L] < 0
    <2> SUFFICES ASSUME NEW i \in D, h[i] < 0, i # L PROVE FALSE
      OBVIOUS
    <2>1. h[i] = g[i] /\ g[i] \in Nat
      BY <1>1, <1>2
    <2> QED BY <2>1
  <1>7. PICK s \in Nat : s = G - week /\ m < s
    BY <1>3, <1>4, <1>5, <1>6
  <1>8. G <= n * m
    <2>1. n \in Nat /\ L \in D
      BY <1>2
    <2> QED BY <1>1, <1>2, <1>3, <1>4, <2>1, MostIsAboveMean
  <1>9. week + s <= n * m /\ 200 * s <= week + 100 * n
    BY <1>3, <1>7, <1>8
  <1>10. 2 * week <= 3 * n /\ 2 * (s - 1) <= n
    BY <1>7, <1>9, ShortWeeks
  <1>11. ASSUME NEW i \in D PROVE h[i] \in Int /\ 2 * h[i] <= n
    <2>1. CASE i = L
      BY <1>3, <1>4, <1>5, <1>6, <2>1
    <2>2. CASE i # L
      <3>1. PICK y \in Nat : y = g[i] /\ y <= m /\ h[i] = y
        BY <1>1, <1>2, <1>4, <2>2
      <3> QED BY <1>7, <1>10, <3>1
    <2> QED BY <2>1, <2>2
  <1> QED BY <1>10, <1>11

LEMMA SecondIsSmall ==
  ASSUME NEW n \in 1 .. 6, NEW D, IsFiniteSet(D), Cardinality(D) = n, NEW week \in Nat, 2 * week <= 3 * n,
         NEW h1, \A i \in D : h1[i] \in Int /\ 2 * h1[i] <= n,
         NEW c, \A i \in D : c[i] \in Nat /\ c[i] = IF h1[i] >= 0 THEN h1[i] ELSE 0,
         NEW T \in Nat \ {0}, T = SumFunctionOnSet(c, D), week <= T,
         NEW g, NEW h2, NEW L, NearAll(g, D, c, T, week), Fixed(h2, g, D, L, week), NEW h, h = CutOff(h2)
  PROVE  HoursSmall(h, D, n, week)
  <1>1. \A i \in D : g[i] \in Nat
    BY DEF NearAll
  <1>2. /\ L \in D /\ DOMAIN h2 = D
        /\ h2[L] = g[L] + (week - SumFunctionOnSet(g, D))
        /\ \A i \in D : i # L => h2[i] = g[i]
    BY DEF Fixed
  <1>3. SumFunctionOnSet(g, D) \in Nat /\ 2 * SumFunctionOnSet(g, D) + n >= 2 * week
    <2>1. n \in Nat /\ (\A i \in D : c[i] \in Nat) /\ SumFunctionOnSet(c, D) >= T
      OBVIOUS
    <2> QED BY <2>1, RoundingLoses
  <1>4. PICK G \in Nat : G = SumFunctionOnSet(g, D) /\ 2 * (week - G) <= n
    BY <1>3
  <1>5. ASSUME NEW i \in D PROVE 2 * g[i] <= n
    <2>1. c[i] \in Nat /\ 2 * c[i] <= n
      <3>1. PICK x \in Int : x = h1[i] /\ 2 * x <= n
        OBVIOUS
      <3>2. c[i] = IF x >= 0 THEN x ELSE 0
        BY <3>1
      <3> QED BY <3>1, <3>2
    <2>2. g[i] <= c[i]
      BY <2>1, RoundedDown
    <2> QED BY <1>1, <2>1, <2>2
  <1>6. ASSUME NEW i \in D PROVE h2[i] \in Int /\ h2[i] <= n
    <2>1. PICK x \in Nat : x = g[i] /\ 2 * x <= n
      BY <1>1, <1>5
    <2>2. CASE i = L
      <3>1. h2[i] = x + (week - G)
        BY <1>2, <1>4, <2>1, <2>2
      <3> QED BY <1>4, <2>1, <3>1
    <2>3. CASE i # L
      <3>1. h2[i] = x
        BY <1>2, <2>1, <2>3
      <3> QED BY <2>1, <3>1
    <2> QED BY <2>2, <2>3
  <1>7. ASSUME NEW i \in D PROVE h[i] \in 0 .. n
    <2>1. PICK x \in Int : x = h2[i] /\ x <= n
      BY <1>6
    <2>2. h[i] = Guide!Max({x, 0})
      BY <1>2, <2>1 DEF CutOff
    <2>3. h[i] = IF x >= 0 THEN x ELSE 0
      BY <2>2, GreaterOfTwo
    <2> QED BY <2>1, <2>3
  <1> QED BY <1>7 DEF HoursSmall

\* The hours of a week, by how they come about.
LEMMA HoursAreOfAKind ==
  ASSUME NEW n \in 1 .. 6, NEW acc, AreAccuracies(acc, n), NEW week \in Nat, week # 0,
         NEW h \in Guide!Allocations(acc, week)
  PROVE  \E p, W, E : /\ Portions(p, Guide!Weights(acc), 1 .. n, n, acc, W, E)
                      /\ \/ HoursFair(h, p, 1 .. n, n, acc, W, E, week)
                         \/ HoursSmall(h, 1 .. n, n, week)
  <1>1. PICK D : D = 1 .. n
    OBVIOUS
  <1>2. IsFiniteSet(D) /\ Cardinality(D) = n
    <2>1. n \in Nat
      OBVIOUS
    <2> QED BY <1>1, <2>1, UpToIsFinite
  <1>3. PICK sh, w : sh = Guide!Shares(acc) /\ w = Guide!Weights(acc)
    OBVIOUS
  <1>4. PICK p, W, E, K : Dealt(sh, n, acc, p, W, E, K)
    BY <1>3, PortionsAre
  <1>5. Portions(p, w, D, n, acc, W, E)
    BY <1>1, <1>3, <1>4 DEF Dealt
  <1>6. K \in Nat \ {0} /\ sh.unit = K * (20 * W) /\ DOMAIN sh.part = D /\ \A i \in D : sh.part[i] = K * p[i]
    BY <1>1, <1>4 DEF Dealt
  <1>7. /\ W \in Nat \ {0} /\ E \in Nat /\ \A i \in D : p[i] \in Nat
        /\ SumFunctionOnSet(p, D) = 20 * W + E
        /\ E # 0 => E <= 6 /\ W >= 85
    BY <1>5 DEF Portions
  <1>8. PICK U \in Nat \ {0} : U = 20 * W
    BY <1>7
  <1>9. PICK unit, f : unit \in Nat \ {0} /\ unit = K * U /\ f = sh.part /\ sh.unit = unit
    <2>1. K * U \in Nat \ {0} /\ sh.unit = K * U
      BY <1>6, <1>8
    <2> QED BY <2>1
  <1>10. \A i \in D : f[i] = K * p[i] /\ f[i] \in Nat
    BY <1>6, <1>7, <1>9
  <1>11. PICK h1, g, L :
            /\ FirstHours(h1, g, L, f, unit, n, week)
            /\ \/ ((\A i \in 1 .. n : h1[i] >= 0) /\ h = h1)
               \/ ((\E i \in 1 .. n : h1[i] < 0) /\ SecondHours(h, h1, n, week))
    <2>1. DOMAIN sh.part = 1 .. n /\ sh.unit = unit /\ sh.part = f /\ \A i \in 1 .. n : f[i] \in Nat
      BY <1>1, <1>6, <1>9, <1>10
    <2>2. n \in Nat \ {0} /\ unit \in Nat \ {0}
      BY <1>9
    <2> QED BY <1>3, <2>1, <2>2, TwoAttempts
  <1>12. NearAll(g, D, f, unit, week) /\ Fixed(h1, g, D, L, week)
    BY <1>1, <1>11 DEF FirstHours
  <1>13. NearAll(g, D, p, U, week)
    <2>1. \A i \in D : p[i] \in Nat /\ f[i] = K * p[i]
      BY <1>7, <1>10
    <2>2. K \in Nat \ {0} /\ unit = K * U /\ unit \in Nat \ {0}
      BY <1>6, <1>9
    <2> QED BY <1>12, <2>1, <2>2, NearCancelled
  <1>14. CASE h = h1
    <2>1. NearAll(g, D, p, 20 * W, week)
      BY <1>8, <1>13
    <2>2. W \in Nat \ {0} /\ E \in Nat
      BY <1>7
    <2>3. HoursFair(h1, p, D, n, acc, W, E, week)
      BY <1>2, <1>5, <1>12, <2>1, <2>2, FirstIsFair
    <2> QED BY <1>1, <1>3, <1>5, <1>14, <2>3, Zenon
  <1>15. CASE (\E i \in 1 .. n : h1[i] < 0) /\ SecondHours(h, h1, n, week)
    <2>1. 200 * E <= U
      BY <1>7, <1>8
    <2>2. 2 * week <= 3 * n /\ \A i \in D : h1[i] \in Int /\ 2 * h1[i] <= n
      <3>1. (\A i \in D : p[i] \in Nat) /\ SumFunctionOnSet(p, D) = U + E /\ E \in Nat
        BY <1>7, <1>8
      <3>2. \E i \in D : h1[i] < 0
        BY <1>1, <1>15
      <3> QED BY <1>2, <1>12, <1>13, <2>1, <3>1, <3>2, FirstIsShort
    <2>3. PICK c, T, g2, L2, h2 :
             /\ \A i \in 1 .. n : c[i] \in Nat /\ c[i] = IF h1[i] >= 0 THEN h1[i] ELSE 0
             /\ T = SumFunctionOnSet(c, 1 .. n) /\ T \in Nat \ {0} /\ week <= T
             /\ NearAll(g2, 1 .. n, c, T, week) /\ Fixed(h2, g2, 1 .. n, L2, week) /\ h = CutOff(h2)
      BY <1>15, Zenon DEF SecondHours
    <2>4. HoursSmall(h, D, n, week)
      <3>1. /\ \A i \in D : c[i] \in Nat /\ c[i] = IF h1[i] >= 0 THEN h1[i] ELSE 0
            /\ T = SumFunctionOnSet(c, D) /\ T \in Nat \ {0} /\ week <= T
            /\ NearAll(g2, D, c, T, week) /\ Fixed(h2, g2, D, L2, week) /\ h = CutOff(h2)
        BY <1>1, <2>3, Zenon
      <3>2. T \in Nat \ {0} /\ T = SumFunctionOnSet(c, D) /\ week <= T
        BY <3>1
      <3>3. \A i \in D : c[i] \in Nat /\ c[i] = IF h1[i] >= 0 THEN h1[i] ELSE 0
        BY <3>1, Zenon
      <3>4. NearAll(g2, D, c, T, week) /\ Fixed(h2, g2, D, L2, week) /\ h = CutOff(h2)
        BY <3>1, Zenon
      <3>5. (2 * week <= 3 * n) /\ (\A i \in D : h1[i] \in Int /\ 2 * h1[i] <= n)
        BY <2>2, Zenon
      <3> QED BY <1>2, <3>2, <3>3, <3>4, <3>5, SecondIsSmall
    <2> QED BY <1>1, <1>3, <1>5, <2>4, Zenon
  <1> QED BY <1>11, <1>14, <1>15, Zenon

\* What a subject would get if the user had been better in it.
Better(acc, i, b) == [acc EXCEPT ![i] = b]

\* The weight of one subject falls, that of the others stays.
Fallen(w, v, i, n, A, B) ==
    /\ A = SumFunctionOnSet(w, 1 .. n) /\ B = SumFunctionOnSet(v, 1 .. n)
    /\ w[i] \in 0 .. 15 /\ v[i] \in 0 .. 6
    /\ \/ v[i] <= w[i] /\ w[i] <= A /\ B = A - w[i] + v[i]
       \/ v[i] = 1 /\ B = n /\ A = w[i]

LEMMA WeightsFall ==
  ASSUME NEW n \in 1 .. 6, NEW acc, AreAccuracies(acc, n), NEW i \in 1 .. n, NEW b \in {4, 7}, acc[i] < b
  PROVE  /\ AreAccuracies(Better(acc, i, b), n)
         /\ \E j \in 1 .. n : ~ (Better(acc, i, b)[j] < 4)
         /\ \E A, B : Fallen(Guide!Weights(acc), Guide!Weights(Better(acc, i, b)), i, n, A, B)
  <1>1. PICK D : D = 1 .. n
    OBVIOUS
  <1>2. IsFiniteSet(D) /\ i \in D /\ Cardinality(D) = n
    <2>1. n \in Nat
      OBVIOUS
    <2> QED BY <1>1, <2>1, UpToIsFinite
  <1>3. PICK new : new = Better(acc, i, b)
    OBVIOUS
  <1>4. \A k \in D : acc[k] \in 0 .. 10
    BY <1>1 DEF AreAccuracies
  <1>5. DOMAIN acc = D /\ Len(acc) = n
    BY <1>1 DEF AreAccuracies
  <1>6. new[i] = b /\ DOMAIN new = D /\ \A k \in D : k # i => new[k] = acc[k]
    BY <1>2, <1>3, <1>5 DEF Better
  <1>7. \A k \in D : new[k] \in 0 .. 10
    BY <1>4, <1>6
  <1>8. AreAccuracies(new, n)
    <2>1. new \in [1 .. n -> 0 .. 10]
      <3>1. new = [k \in D |-> new[k]]
        BY <1>3, <1>5 DEF Better
      <3> QED BY <1>1, <1>7, <3>1
    <2>2. Len(new) = n
      BY <2>1
    <2> QED BY <1>1, <1>6, <1>7, <2>2 DEF AreAccuracies
  <1>9. PICK w, v : w = Guide!Weights(acc) /\ v = Guide!Weights(new)
    OBVIOUS
  <1>10. ByWeakness(w, D, acc)
    <2>1. n \in 1 .. 8
      OBVIOUS
    <2>2. ~ AllStable(w, D, acc)
      BY <1>2, <1>4 DEF AllStable
    <2> QED BY <1>1, <1>9, <2>1, <2>2, WeightsAre
  <1>11. \A k \in D : w[k] \in 0 .. 15
    BY <1>4, <1>10, WeightOf DEF ByWeakness
  <1>12. PICK x \in 0 .. 15 : x = w[i] /\ x = IF acc[i] < 4 THEN 15 - acc[i] ELSE IF acc[i] < 7 THEN 10 - acc[i] ELSE 0
    BY <1>2, <1>4, <1>10, WeightOf DEF ByWeakness
  <1>13. \A k \in D : w[k] \in Nat /\ w[k] \in Int
    BY <1>11
  <1>14. PICK W \in Nat : W = SumFunctionOnSet(w, D) /\ x <= W
    <2>1. \A k \in D : w[k] \in Nat
      BY <1>13
    <2>2. SumFunctionOnSet(w, D) \in Nat
      BY <1>2, <2>1, SumOfNaturals
    <2>3. w[i] <= SumFunctionOnSet(w, D)
      BY <1>2, <2>1, SumOfPart
    <2> QED BY <1>12, <2>2, <2>3
  <1>15. ASSUME AllStable(v, D, new) PROVE \E A, B : Fallen(w, v, i, n, A, B)
    <2>1. \A k \in D : new[k] >= 7 /\ v[k] = 1
      BY <1>15 DEF AllStable
    <2>2. PICK c \in Int : c = 1
      OBVIOUS
    <2>3. SumFunctionOnSet(v, D) = n
      <3>1. \A k \in D : v[k] = c
        BY <2>1, <2>2
      <3>2. IsFiniteSet(D) /\ Cardinality(D) = n
        BY <1>2, Zenon
      <3>3. SumFunctionOnSet(v, D) = Cardinality(D) * c
        BY <3>1, <3>2, SumOfSame, Zenon
      <3> QED BY <2>2, <3>2, <3>3
    <2>4. PICK S : S = D \ {i}
      OBVIOUS
    <2>5. ASSUME NEW k \in S PROVE w[k] = 0
      <3>1. k \in D /\ acc[k] = new[k] /\ acc[k] \in 0 .. 10 /\ acc[k] >= 7
        <4>1. k \in D /\ k # i
          BY <2>4
        <4>2. new[k] = acc[k] /\ new[k] >= 7 /\ acc[k] \in 0 .. 10
          BY <1>4, <1>6, <2>1, <4>1
        <4> QED BY <4>1, <4>2
      <3>2. w[k] = Guide!SubjectWeight(acc[k])
        BY <1>10, <3>1 DEF ByWeakness
      <3> QED BY <3>1, <3>2, SubjectWeightFacts
    <2>6. SumFunctionOnSet(w, S) = 0
      <3>1. IsFiniteSet(S)
        BY <1>2, <2>4, FS_RemoveElement
      <3> QED BY <2>5, <3>1, SumOfZeros
    <2>7. W = x
      <3>1. \A k \in D : w[k] \in Int
        BY <1>13
      <3>2. SumFunctionOnSet(w, D) = w[i] + SumFunctionOnSet(w, D \ {i})
        <4>1. IsFiniteSet(D)
          BY <1>2
        <4>2. i \in D
          BY <1>2
        <4>3. \A y \in D : SumFunctionOnSet(w, D) = w[y] + SumFunctionOnSet(w, D \ {y})
          BY <3>1, <4>1, SumFacts, ZenonT(60)
        <4> QED BY <4>2, <4>3, Zenon
      <3>3. SumFunctionOnSet(w, D \ {i}) = 0
        BY <2>4, <2>6, Zenon
      <3>4. W = x + SumFunctionOnSet(w, D \ {i})
        BY <1>12, <1>14, <3>2, Zenon
      <3>5. PICK t : t = SumFunctionOnSet(w, D \ {i})
        OBVIOUS
      <3>6. W = x + t /\ t = 0
        BY <3>3, <3>4, <3>5
      <3> QED BY <3>6
    <2>8. v[i] = 1
      BY <1>2, <2>1
    <2>9. Fallen(w, v, i, n, W, n)
      BY <1>1, <1>12, <1>14, <2>3, <2>7, <2>8 DEF Fallen
    <2> QED BY <2>9
  <1>16. ASSUME ByWeakness(v, D, new) PROVE \E A, B : Fallen(w, v, i, n, A, B)
    <2>1. PICK y \in 0 .. 6 : y = v[i] /\ y <= x
      <3>1. v[i] = Guide!SubjectWeight(b)
        BY <1>2, <1>6, <1>16 DEF ByWeakness
      <3>2. b \in 0 .. 10
        OBVIOUS
      <3>3. v[i] = IF b < 4 THEN 15 - b ELSE IF b < 7 THEN 10 - b ELSE 0
        BY <3>1, <3>2, WeightOf
      <3>4. acc[i] \in 0 .. 10
        BY <1>2, <1>4
      <3> QED BY <1>12, <3>3, <3>4
    <2>2. \A k \in D : k # i => v[k] = w[k]
      BY <1>6, <1>10, <1>16 DEF ByWeakness
    <2>3. PICK d \in Int : d = y - x
      OBVIOUS
    <2>4. Moved(v, w, D, i, d)
      <3>1. v[i] = w[i] + d
        BY <1>12, <2>1, <2>3
      <3> QED BY <1>2, <1>13, <2>2, <3>1 DEF Moved
    <2>5. SumFunctionOnSet(v, D) = W + d
      BY <1>2, <1>14, <2>4, SumMoves
    <2>6. SumFunctionOnSet(v, D) = W - x + y
      BY <2>3, <2>5
    <2>7. Fallen(w, v, i, n, W, W - x + y)
      BY <1>1, <1>12, <1>14, <2>1, <2>6 DEF Fallen
    <2> QED BY <2>7
  <1>17. AllStable(v, D, new) \/ ByWeakness(v, D, new)
    <2>1. n \in 1 .. 8
      OBVIOUS
    <2> QED BY <1>1, <1>8, <1>9, <2>1, WeightsAre
  <1>18. \E A, B : Fallen(w, v, i, n, A, B)
    BY <1>15, <1>16, <1>17, Zenon
  <1>19. ~ (new[i] < 4)
    BY <1>6
  <1>20. \E j \in 1 .. n : ~ (new[j] < 4)
    BY <1>19
  <1>21. \E A, B : Fallen(Guide!Weights(acc), Guide!Weights(new), i, n, A, B)
    BY <1>9, <1>18, Zenon
  <1> QED BY <1>3, <1>8, <1>20, <1>21, Zenon

\* The part of a subject does not grow with its accuracy.
LEMMA PartsFall ==
  ASSUME NEW k \in Nat, NEW n \in Nat \ {0}, NEW W \in Nat \ {0}, NEW V \in Nat \ {0}, NEW x \in Nat, NEW y \in Nat,
         \/ y <= x /\ x <= W /\ V = W - x + y
         \/ y = 1 /\ V = n /\ W = x
  PROVE  (V + k * y) * W <= (W + k * x) * V
  <1>1. y * W <= x * V
    <2>1. CASE y <= x /\ x <= W /\ V = W - x + y
      <3>1. PICK d \in Nat : x = y + d
        <4>1. x - y \in Nat /\ x = y + (x - y)
          BY <2>1
        <4> QED BY <4>1
      <3>2. PICK e \in Nat : W = x + e
        <4>1. W - x \in Nat /\ W = x + (W - x)
          BY <2>1
        <4> QED BY <4>1
      <3>3. V = e + y
        BY <2>1, <3>2
      <3>4. y * W = y * y + y * d + y * e
        BY <3>1, <3>2
      <3>5. x * V = y * e + y * y + d * e + d * y
        BY <3>1, <3>3
      <3>6. d * e \in Nat /\ d * y = y * d /\ y * d \in Nat /\ y * e \in Nat /\ y * y \in Nat
        OBVIOUS
      <3> QED BY <3>4, <3>5, <3>6
    <2>2. CASE y = 1 /\ V = n /\ W = x
      <3>1. y * W = x /\ x * V = x * n
        BY <2>2
      <3>2. x * 1 <= x * n
        BY Multiplied
      <3> QED BY <3>1, <3>2
    <2> QED BY <2>1, <2>2
  <1>2. k * (y * W) <= k * (x * V)
    <2>1. y * W \in Int /\ x * V \in Int
      OBVIOUS
    <2> QED BY <1>1, <2>1, Multiplied
  <1>3. PICK a \in Nat, b \in Nat, c \in Nat : a = V * W /\ b = k * (y * W) /\ c = k * (x * V)
    OBVIOUS
  <1>4. (V + k * y) * W = a + b
    BY <1>3
  <1>5. (W + k * x) * V = a + c
    BY <1>3
  <1> QED BY <1>2, <1>3, <1>4, <1>5

\* What is a smaller part of the week makes no more hours, to the rounding.
LEMMA HoursFall ==
  ASSUME NEW n \in Nat, NEW W \in Nat \ {0}, NEW V \in Nat \ {0}, NEW lo \in Nat, NEW q \in Nat, NEW week \in Nat,
         NEW x \in Nat, NEW y \in Nat, q * W <= lo * V,
         week * lo <= 20 * W * (x + n), 20 * V * y <= week * q + 10 * n * V
  PROVE  y <= x + 2 * n
  <1>1. PICK a \in Nat, b \in Nat, c \in Nat, d \in Nat : a = week * lo /\ b = 20 * W * (x + n) /\ c = 20 * V * y /\ d = week * q
    OBVIOUS
  <1>2. PICK m \in Nat : m = 10 * n * V
    OBVIOUS
  <1>3. V * a <= V * b
    BY <1>1, Multiplied
  <1>4. W * c <= W * (d + m)
    <2>1. c \in Int /\ d + m \in Int /\ c <= d + m
      BY <1>1, <1>2
    <2> QED BY <2>1, Multiplied
  <1>5. week * (q * W) <= week * (lo * V)
    <2>1. q * W \in Int /\ lo * V \in Int
      OBVIOUS
    <2> QED BY <2>1, Multiplied
  <1>6. V * a = week * (lo * V) /\ W * d = week * (q * W)
    BY <1>1
  <1>7. PICK u \in Nat \ {0} : u = V * W
    OBVIOUS
  <1>8. V * b = u * (20 * (x + n)) /\ W * c = u * (20 * y) /\ W * m = u * (10 * n)
    BY <1>1, <1>2, <1>7
  <1>9. W * (d + m) = W * d + W * m
    OBVIOUS
  <1>10. u * (20 * y) <= u * (20 * (x + n)) + u * (10 * n)
    <2>1. PICK z1 \in Int, z2 \in Int, z3 \in Int, z4 \in Int, z5 \in Int :
             z1 = V * a /\ z2 = W * d /\ z3 = V * b /\ z4 = W * c /\ z5 = W * m
      OBVIOUS
    <2>2. z1 <= z3 /\ z4 <= z2 + z5 /\ z2 <= z1
      BY <1>3, <1>4, <1>5, <1>6, <1>9, <2>1
    <2>3. z4 <= z3 + z5
      BY <2>2
    <2> QED BY <1>8, <2>1, <2>3
  <1>11. u * (20 * x + 30 * n) >= u * (20 * y)
    <2>1. u * (20 * x + 30 * n) = u * (20 * (x + n)) + u * (10 * n)
      OBVIOUS
    <2> QED BY <1>10, <2>1
  <1>12. 20 * x + 30 * n >= 20 * y
    <2>1. 20 * x + 30 * n \in Int /\ 20 * y \in Int
      OBVIOUS
    <2> QED BY <1>11, <2>1, Cancelled
  <1> QED BY <1>12

\* Had the user been better in a subject, it would have no more, to the rounding.
LEMMA BetterIsNoMore ==
  ASSUME NEW n \in 1 .. 6, NEW acc, AreAccuracies(acc, n), NEW i \in 1 .. n, NEW b \in {4, 7}, acc[i] < b,
         NEW week \in Nat, NEW h \in Guide!Allocations(acc, week),
         NEW k \in Guide!Allocations(Better(acc, i, b), week)
  PROVE  k[i] <= h[i] + 2 * n
  <1>1. PICK new : new = Better(acc, i, b)
    OBVIOUS
  <1>2. PICK w, v : w = Guide!Weights(acc) /\ v = Guide!Weights(new)
    OBVIOUS
  <1>a. AreAccuracies(new, n) /\ (\E j \in 1 .. n : ~ (new[j] < 4)) /\ \E A, B : Fallen(w, v, i, n, A, B)
    BY <1>1, <1>2, WeightsFall, ZenonT(60)
  <1>b. PICK A, B : Fallen(w, v, i, n, A, B)
    BY <1>a
  <1>c. A = SumFunctionOnSet(w, 1 .. n) /\ B = SumFunctionOnSet(v, 1 .. n)
    BY <1>b DEF Fallen
  <1>3. /\ AreAccuracies(new, n)
        /\ \E j \in 1 .. n : ~ (new[j] < 4)
        /\ w[i] \in 0 .. 15 /\ v[i] \in 0 .. 6
        /\ \/ v[i] <= w[i] /\ w[i] <= A /\ B = A - w[i] + v[i]
           \/ v[i] = 1 /\ B = n /\ A = w[i]
    BY <1>a, <1>b DEF Fallen
  <1>4. n \in 1 .. 8
    OBVIOUS
  <1>5. PICK x \in Nat : x = h[i]
    BY <1>4, HoursAreMade DEF HoursMake
  <1>6. DOMAIN k = 1 .. n /\ \A j \in 1 .. n : k[j] \in Nat
    BY <1>1, <1>3, <1>4, HoursAreMade DEF HoursMake
  <1>7. PICK y \in Nat : y = k[i]
    BY <1>6
  <1>8. CASE week = 0
    <2>1. k = [j \in DOMAIN new |-> 0]
      BY <1>1, <1>8 DEF Guide!Allocations
    <2>2. DOMAIN new = 1 .. n
      BY <1>3 DEF AreAccuracies
    <2>3. k[i] = 0
      BY <2>1, <2>2
    <2> QED BY <1>5, <2>3
  <1>9. CASE week # 0
    <2>1. PICK p, W, E : /\ Portions(p, w, 1 .. n, n, acc, W, E)
                         /\ \/ HoursFair(h, p, 1 .. n, n, acc, W, E, week)
                            \/ HoursSmall(h, 1 .. n, n, week)
      BY <1>2, <1>9, HoursAreOfAKind
    <2>2. PICK q, V, F : /\ Portions(q, v, 1 .. n, n, new, V, F)
                         /\ \/ HoursFair(k, q, 1 .. n, n, new, V, F, week)
                            \/ HoursSmall(k, 1 .. n, n, week)
      BY <1>1, <1>2, <1>3, <1>9, HoursAreOfAKind
    <2>3. /\ W \in Nat \ {0} /\ W = A /\ E \in Nat /\ p[i] \in Nat
          /\ E = 0 => p[i] = W + (20 - n) * w[i]
          /\ E # 0 => n = 6 /\ W >= 85
      BY <1>c, <2>1 DEF Portions
    <2>4. F = 0
      BY <1>3, <2>2 DEF Portions
    <2>5. V \in Nat \ {0} /\ V = B /\ q[i] \in Nat /\ q[i] = V + (20 - n) * v[i]
      BY <1>c, <2>2, <2>4 DEF Portions
    <2>6. q[i] <= 20 * V
      <3>1. (\A j \in 1 .. n : q[j] \in Nat) /\ SumFunctionOnSet(q, 1 .. n) = 20 * V + F
        BY <2>2 DEF Portions
      <3>2. IsFiniteSet(1 .. n)
        BY UpToIsFinite
      <3>3. q[i] <= SumFunctionOnSet(q, 1 .. n)
        BY <3>1, <3>2, SumOfPart
      <3> QED BY <2>4, <2>5, <3>1, <3>3
    <2>7. PICK r \in Nat : r = q[i]
      BY <2>5
    <2>8. CASE HoursSmall(k, 1 .. n, n, week)
      <3>1. k[i] \in 0 .. n
        BY <2>8 DEF HoursSmall
      <3> QED BY <1>5, <1>7, <3>1
    <2>9. CASE HoursFair(k, q, 1 .. n, n, new, V, F, week)
      <3>1. 20 * V * y <= week * r + 10 * n * V
        BY <1>7, <2>7, <2>9 DEF HoursFair
      <3>2. CASE HoursSmall(h, 1 .. n, n, week)
        <4>1. 2 * week <= 3 * n
          BY <3>2 DEF HoursSmall
        <4>2. week * r <= week * (20 * V)
          BY <2>5, <2>6, <2>7, Multiplied
        <4>3. 20 * V * y <= week * (20 * V) + 10 * n * V
          <5>1. PICK z1 \in Int, z2 \in Int, z3 \in Int, z4 \in Int :
                   z1 = 20 * V * y /\ z2 = week * r /\ z3 = 10 * n * V /\ z4 = week * (20 * V)
            BY <2>5
          <5> QED BY <3>1, <4>2, <5>1
        <4>4. V * (20 * week + 10 * n) >= V * (20 * y)
          <5>1. V * (20 * week + 10 * n) = week * (20 * V) + 10 * n * V /\ V * (20 * y) = 20 * V * y
            BY <2>5
          <5> QED BY <4>3, <5>1
        <4>5. 20 * week + 10 * n >= 20 * y
          <5>1. 20 * week + 10 * n \in Int /\ 20 * y \in Int
            OBVIOUS
          <5> QED BY <2>5, <4>4, <5>1, Cancelled
        <4> QED BY <1>5, <1>7, <4>1, <4>5
      <3>3. CASE HoursFair(h, p, 1 .. n, n, acc, W, E, week)
        <4>1. PICK lo \in Nat : lo = IF E = 0 THEN p[i] ELSE 3 * W
          BY <2>3
        <4>2. week * lo <= 20 * W * (x + n)
          BY <1>5, <3>3, <4>1 DEF HoursFair
        <4>3. PICK s \in 0 .. 15, t \in 0 .. 6 : s = w[i] /\ t = v[i]
          BY <1>3
        <4>4. \/ t <= s /\ s <= W /\ V = W - s + t
              \/ t = 1 /\ V = n /\ W = s
          BY <1>3, <2>3, <2>5, <4>3
        <4>5. PICK m \in Nat : m = 20 - n
          OBVIOUS
        <4>6. r = V + m * t
          BY <2>5, <2>7, <4>3, <4>5
        <4>7. r * W <= lo * V
          <5>1. CASE E = 0
            <6>1. lo = W + m * s
              BY <2>3, <4>1, <4>3, <4>5, <5>1
            <6>2. n \in Nat \ {0} /\ s \in Nat /\ t \in Nat /\ W \in Nat \ {0} /\ V \in Nat \ {0}
              BY <2>3, <2>5
            <6>3. (V + m * t) * W <= (W + m * s) * V
              BY <4>4, <6>2, PartsFall
            <6> QED BY <4>6, <6>1, <6>3
          <5>2. CASE E # 0
            <6>1. n = 6 /\ W >= 85 /\ lo = 3 * W
              BY <2>3, <4>1, <5>2
            <6>2. r = V + 14 * t
              BY <4>5, <4>6, <6>1
            <6>3. V = W - s + t
              BY <4>4, <6>1
            <6>4. r <= 3 * V
              BY <2>3, <6>1, <6>2, <6>3
            <6>5. W * r <= W * (3 * V)
              BY <2>3, <2>5, <6>4, Multiplied
            <6>6. r * W = W * r /\ W * (3 * V) = lo * V
              BY <2>3, <2>5, <6>1
            <6> QED BY <6>5, <6>6
          <5> QED BY <5>1, <5>2
        <4>8. y <= x + 2 * n
          <5>1. n \in Nat
            OBVIOUS
          <5> QED BY <2>3, <2>5, <3>1, <4>2, <4>7, <5>1, HoursFall
        <4> QED BY <1>5, <1>7, <4>8
      <3> QED BY <2>1, <3>2, <3>3
    <2> QED BY <2>2, <2>8, <2>9
  <1> QED BY <1>8, <1>9

LEMMA HoursAreAList ==
  ASSUME NEW acc, NEW week \in Nat, NEW h \in Guide!Allocations(acc, week)
  PROVE  h = [k \in DOMAIN h |-> h[k]]
  <1>1. CASE week = 0
    <2>1. h = [k \in DOMAIN acc |-> 0]
      BY <1>1 DEF Guide!Allocations
    <2> QED BY <2>1
  <1>2. CASE week # 0
    <2>1. PICK sh : sh = Guide!Shares(acc)
      OBVIOUS
    <2>2. PICK h1 : /\ IsRepaired(h1, sh, week)
                    /\ \/ ~ (\E k \in DOMAIN h1 : h1[k] < 0) /\ h = h1
                       \/ /\ \E k \in DOMAIN h1 : h1[k] < 0
                          /\ \E h2 : IsRepaired(h2, Guide!Scaled(h1), week) /\ h = CutOff(h2)
      BY <1>2, <2>1, HoursArise
    <2>3. CASE h = h1
      <3>1. PICK g, v : h = [g EXCEPT ![Guide!Largest(g)] = v]
        <4>1. PICK up \in SUBSET Guide!Halfway(sh, week) : h1 = Guide!Repaired(Guide!Rounded(sh, week, up), week)
          BY <2>2 DEF IsRepaired
        <4>2. PICK g : g = Guide!Rounded(sh, week, up)
          OBVIOUS
        <4>3. h1 = Guide!Repaired(g, week)
          BY <4>1, <4>2
        <4> QED BY <2>3, <4>3 DEF Guide!Repaired
      <3> QED BY <3>1
    <2>4. CASE \E h2 : h = CutOff(h2)
      <3>1. PICK h2 : h = [k \in DOMAIN h2 |-> Guide!Max({h2[k], 0})]
        BY <2>4 DEF CutOff
      <3>2. DOMAIN h = DOMAIN h2 /\ \A k \in DOMAIN h2 : h[k] = Guide!Max({h2[k], 0})
        BY <3>1
      <3> QED BY <3>1, <3>2
    <2> QED BY <2>2, <2>3, <2>4
  <1> QED BY <1>1, <1>2

LEMMA LengthOf ==
  ASSUME NEW n \in Nat, NEW f, f = [k \in DOMAIN f |-> f[k]], DOMAIN f = 1 .. n, \A k \in 1 .. n : f[k] \in Int
  PROVE  Len(f) = n
  <1>1. f \in [1 .. n -> Int]
    OBVIOUS
  <1> QED BY <1>1

\* What the plan has made of the hours is as _allocate_subject_hours and _fallback_plan would have
\* them: the week is dealt out, the weaker subject has the more, and being better costs nothing.
LEMMA HoursFollow ==
  ASSUME PlanInv, planPc = "done", request.user # <<>>
  PROVE  /\ 2 * (Guide!Total(hours) - request.week) \in 0 .. Len(hours)
         /\ request.week = 0 \/ 2 * request.week >= Len(hours) * (Len(hours) - 1) => Guide!Total(hours) = request.week
         /\ \A i \in DOMAIN hours : hours[i] >= 0
         /\ Len(request.user) <= 6 =>
               \A i \in DOMAIN request.user :
                  LET a == Guide!Accuracies[i] IN
                  /\ 20 * (hours[i] + Guide!Slack) >= (IF a < Guide!FailRisk THEN 3 ELSE 1) * request.week
                  /\ \A j \in DOMAIN request.user :
                        a < Guide!Accuracies[j] => hours[i] + Guide!Slack >= hours[j]
                  /\ \A b \in {4, 7} :
                        a < b => \A h \in Guide!Allocations([Guide!Accuracies EXCEPT ![i] = b], request.week) :
                                     h[i] <= hours[i] + 2 * Guide!Slack
  <1>1. PICK user, week, acc, n : user = request.user /\ week = request.week /\ acc = Guide!Accuracies /\ n = Len(user)
    OBVIOUS
  <1>2. IsRequest(request)
    BY RequestFacts DEF PlanInv
  <1>3. UserStates(user) /\ week \in Nat /\ n \in Nat /\ DOMAIN user = 1 .. n
    BY <1>1, <1>2 DEF IsRequest
  <1>4. n \in 1 .. 8
    <2>1. Len(request.user) \in 0 .. 8 /\ request \in Inputs
      BY PlanningAssumption DEF Guide!GuidanceAssumption, PlanInv
    <2>2. n # 0
      <3> SUFFICES ASSUME n = 0 PROVE FALSE
        OBVIOUS
      <3>1. user = <<>>
        BY <1>1, PlanningAssumption DEF Guide!GuidanceAssumption
      <3> QED BY <1>1, <3>1
    <2> QED BY <1>1, <2>1, <2>2
  <1>5. AreAccuracies(acc, n)
    <2>1. acc = [i \in DOMAIN user |-> user[i].acc]
      BY <1>1 DEF Guide!Accuracies
    <2> QED BY <1>3, <1>4, <2>1, AccuraciesFacts
  <1>6. hours \in Guide!Allocations(acc, week)
    BY <1>1 DEF PlanInv
  <1>7. HoursMake(hours, n, week) /\ (week = 0 => SumFunctionOnSet(hours, 1 .. n) = 0)
    BY <1>3, <1>4, <1>5, <1>6, HoursAreMade
  <1>8. /\ DOMAIN hours = 1 .. n /\ \A i \in 1 .. n : hours[i] \in Nat
        /\ 2 * (SumFunctionOnSet(hours, 1 .. n) - week) \in 0 .. n
        /\ 2 * week >= n * (n - 1) => SumFunctionOnSet(hours, 1 .. n) = week
    BY <1>7 DEF HoursMake
  <1>9. Len(hours) = n
    <2>1. hours = [k \in DOMAIN hours |-> hours[k]]
      BY <1>3, <1>6, HoursAreAList
    <2>2. \A k \in 1 .. n : hours[k] \in Int
      BY <1>8
    <2> QED BY <1>3, <1>8, <2>1, <2>2, LengthOf
  <1>10. Guide!Total(hours) = SumFunctionOnSet(hours, 1 .. n)
    BY <1>8, GuideSums
  <1>11. 2 * (Guide!Total(hours) - request.week) \in 0 .. Len(hours)
    BY <1>1, <1>8, <1>9, <1>10, Zenon
  <1>12. request.week = 0 \/ 2 * request.week >= Len(hours) * (Len(hours) - 1) => Guide!Total(hours) = request.week
    BY <1>1, <1>7, <1>8, <1>9, <1>10, Zenon
  <1>13. \A i \in DOMAIN hours : hours[i] >= 0
    BY <1>8
  <1>14. ASSUME n <= 6, NEW i \in 1 .. n
         PROVE  /\ 20 * (hours[i] + n) >= (IF acc[i] < 4 THEN 3 ELSE 1) * week
                /\ \A j \in 1 .. n : acc[i] < acc[j] => hours[i] + n >= hours[j]
                /\ \A b \in {4, 7} :
                      acc[i] < b => \A h \in Guide!Allocations([acc EXCEPT ![i] = b], week) : h[i] <= hours[i] + 2 * n
    <2>1. n \in 1 .. 6
      BY <1>4, <1>14
    <2>2. \A b \in {4, 7} :
             acc[i] < b => \A h \in Guide!Allocations([acc EXCEPT ![i] = b], week) : h[i] <= hours[i] + 2 * n
      <3> SUFFICES ASSUME NEW b \in {4, 7}, acc[i] < b, NEW h \in Guide!Allocations(Better(acc, i, b), week)
                   PROVE  h[i] <= hours[i] + 2 * n
        BY DEF Better
      <3> QED BY <1>3, <1>5, <1>6, <1>14, <2>1, BetterIsNoMore
    <2>3. PICK x \in Nat : x = hours[i]
      BY <1>8, <1>14
    <2>4. CASE week = 0
      <3>1. SumFunctionOnSet(hours, 1 .. n) = 0
        BY <1>7, <2>4
      <3>2. \A j \in 1 .. n : hours[j] \in Nat /\ hours[j] <= 0
        <4>1. IsFiniteSet(1 .. n)
          BY <1>3, UpToIsFinite
        <4>2. \A j \in 1 .. n : hours[j] <= SumFunctionOnSet(hours, 1 .. n)
          BY <1>8, <4>1, SumOfPart
        <4> QED BY <1>8, <3>1, <4>2
      <3>3. \A j \in 1 .. n : acc[i] < acc[j] => hours[i] + n >= hours[j]
        BY <1>3, <1>14, <3>2
      <3>4. 20 * (x + n) >= (IF acc[i] < 4 THEN 3 ELSE 1) * week
        BY <1>3, <2>4
      <3> QED BY <2>2, <2>3, <3>3, <3>4
    <2>5. CASE week # 0
      <3>1. PICK p, W, E : /\ Portions(p, Guide!Weights(acc), 1 .. n, n, acc, W, E)
                           /\ \/ HoursFair(hours, p, 1 .. n, n, acc, W, E, week)
                              \/ HoursSmall(hours, 1 .. n, n, week)
        BY <1>3, <1>5, <1>6, <2>1, <2>5, HoursAreOfAKind
      <3>2. CASE HoursSmall(hours, 1 .. n, n, week)
        <4>1. 2 * week <= 3 * n /\ \A j \in 1 .. n : hours[j] \in 0 .. n
          BY <3>2 DEF HoursSmall
        <4>2. 20 * (x + n) >= (IF acc[i] < 4 THEN 3 ELSE 1) * week
          BY <1>3, <4>1
        <4>3. \A j \in 1 .. n : acc[i] < acc[j] => hours[i] + n >= hours[j]
          BY <1>3, <1>14, <4>1
        <4> QED BY <2>2, <2>3, <4>2, <4>3
      <3>3. CASE HoursFair(hours, p, 1 .. n, n, acc, W, E, week)
        <4>1. /\ week * (IF E = 0 THEN p[i] ELSE 3 * W) <= 20 * W * (x + n)
              /\ \A j \in 1 .. n : acc[i] < acc[j] => hours[j] <= hours[i] + n
          BY <1>14, <2>3, <3>3 DEF HoursFair
        <4>2. /\ W \in Nat \ {0} /\ p[i] \in Nat /\ p[i] >= W /\ (acc[i] < 4 => p[i] >= 3 * W)
          BY <1>14, <3>1 DEF Portions
        <4>3. PICK c \in Nat : c = IF acc[i] < 4 THEN 3 ELSE 1
          OBVIOUS
        <4>4. PICK lo \in Nat : lo = (IF E = 0 THEN p[i] ELSE 3 * W) /\ lo >= c * W
          BY <4>2, <4>3
        <4>5. week * (c * W) <= week * lo
          <5>1. c * W \in Int
            BY <4>2
          <5> QED BY <1>3, <4>4, <5>1, Multiplied, SMTT(60)
        <4>6. W * (20 * (x + n)) >= W * (c * week)
          <5>1. W * (20 * (x + n)) = 20 * W * (x + n) /\ W * (c * week) = week * (c * W)
            BY <1>3, <4>2
          <5>2. PICK z1 \in Int, z2 \in Int, z3 \in Int :
                   z1 = week * (c * W) /\ z2 = week * lo /\ z3 = 20 * W * (x + n)
            BY <1>3, <4>2
          <5>3. z1 <= z2 /\ z2 <= z3
            BY <4>1, <4>4, <4>5, <5>2
          <5> QED BY <5>1, <5>2, <5>3
        <4>7. 20 * (x + n) >= c * week
          <5>1. 20 * (x + n) \in Int /\ c * week \in Int
            BY <1>3
          <5> QED BY <4>2, <4>6, <5>1, Cancelled
        <4>8. \A j \in 1 .. n : acc[i] < acc[j] => hours[i] + n >= hours[j]
          <5> SUFFICES ASSUME NEW j \in 1 .. n, acc[i] < acc[j] PROVE hours[i] + n >= hours[j]
            OBVIOUS
          <5>1. hours[j] <= hours[i] + n /\ hours[i] \in Nat /\ hours[j] \in Nat
            BY <1>8, <1>14, <4>1
          <5> QED BY <1>3, <5>1
        <4> QED BY <2>2, <2>3, <4>3, <4>7, <4>8
      <3> QED BY <3>1, <3>2, <3>3
    <2> QED BY <2>4, <2>5
  <1>15. Guide!Slack = n
    BY <1>1 DEF Guide!Slack
  <1>16. Len(request.user) <= 6 =>
               \A i \in DOMAIN request.user :
                  LET a == Guide!Accuracies[i] IN
                  /\ 20 * (hours[i] + Guide!Slack) >= (IF a < Guide!FailRisk THEN 3 ELSE 1) * request.week
                  /\ \A j \in DOMAIN request.user :
                        a < Guide!Accuracies[j] => hours[i] + Guide!Slack >= hours[j]
                  /\ \A b \in {4, 7} :
                        a < b => \A h \in Guide!Allocations([Guide!Accuracies EXCEPT ![i] = b], request.week) :
                                     h[i] <= hours[i] + 2 * Guide!Slack
    BY <1>1, <1>3, <1>14, <1>15, Zenon DEF Guide!FailRisk
  <1> QED BY <1>11, <1>12, <1>13, <1>16, Zenon

LEMMA FallbackFollows ==
  ASSUME PlanInv, planPc = "done", request.user = <<>>
  PROVE  /\ 2 * (Guide!Total(hours) - request.week) \in 0 .. Len(hours)
         /\ request.week = 0 \/ 2 * request.week >= Len(hours) * (Len(hours) - 1) => Guide!Total(hours) = request.week
         /\ 2 * request.week >= Len(hours) * (Len(hours) - 1) => \A i \in DOMAIN hours : hours[i] >= 0
  <1>1. PICK week \in Nat : week = request.week
    BY RequestFacts DEF PlanInv, IsRequest
  <1>2. hours = Guide!FallbackHours(week)
    BY <1>1 DEF PlanInv
  <1>3. /\ DOMAIN hours = 1 .. 5 /\ SumFunctionOnSet(hours, 1 .. 5) = week /\ Len(hours) = 5
        /\ 2 * week >= 5 * (5 - 1) => (\A i \in 1 .. 5 : hours[i] >= 0)
    BY <1>2, FallbackMakes
  <1>4. Guide!Total(hours) = week
    BY <1>3, GuideSums
  <1>5. 2 * (Guide!Total(hours) - request.week) \in 0 .. Len(hours)
    <2>1. 2 * (week - week) \in 0 .. 5
      OBVIOUS
    <2> QED BY <1>1, <1>3, <1>4, <2>1
  <1> QED BY <1>1, <1>3, <1>4, <1>5

LEMMA PlanFits == ASSUME PlanInv PROVE Guide!WeeksLeadToExam /\ Guide!ContentOnce /\ Guide!HoursFollowWeakness
  <1>1. /\ request.days \in Nat /\ request.stage \in 1 .. 6
        /\ request.tutorials \in Nat /\ request.years \in Nat
    BY PlanningAssumption DEF PlanInv, Guide!GuidanceAssumption, Guide!Stages
  <1>2. CASE Guide!Planned
    <2>1. planPc = "done" /\ request.user # <<>>
      BY <1>2 DEF Guide!Planned
    <2>2. PlanWeeks /\ PlanContents
      BY <2>1 DEF PlanInv
    <2>3. Guide!WeeksLeadToExam
      BY <1>1, <2>2, WeeksReachExam
    <2>4. PICK n \in Nat : DOMAIN stages = 1 .. n
      <3>1. PICK T : T = Guide!TotalWeeks(request.days)
        OBVIOUS
      <3>2. T \in Nat \ {0}
        BY <1>1, <3>1, WeeksCover
      <3>3. PICK c \in 1 .. 6 : c = request.stage
        BY <1>1
      <3>4. PICK w : w = Guide!StageWeeks(c, T)
        OBVIOUS
      <3>5. PICK a \in c .. 6 : Scheduled(w, a, T)
        BY <3>2, <3>4, StagesAreScheduled
      <3>6. stages = Guide!WeekStages(w)
        BY <2>2, <3>1, <3>3, <3>4 DEF PlanWeeks
      <3> QED BY <3>2, <3>3, <3>5, <3>6, WeekIsOfStage
    <2>5. Guide!ContentOnce
      BY <1>1, <2>2, <2>4, ContentsAreDealt
    <2>6. Guide!HoursFollowWeakness
      BY <2>1, HoursFollow, Zenon DEF Guide!HoursFollowWeakness
    <2> QED BY <2>3, <2>5, <2>6
  <1>3. CASE planPc = "done" /\ request.user = <<>>
    <2>1. Guide!HoursFollowWeakness
      BY <1>3, FallbackFollows, Zenon DEF Guide!HoursFollowWeakness
    <2> QED BY <1>3, <2>1 DEF Guide!WeeksLeadToExam, Guide!ContentOnce, Guide!Planned
  <1>4. CASE planPc # "done"
    BY <1>4 DEF Guide!WeeksLeadToExam, Guide!ContentOnce, Guide!HoursFollowWeakness, Guide!Planned
  <1> QED BY <1>2, <1>3, <1>4 DEF Guide!Planned

=============================================================================
