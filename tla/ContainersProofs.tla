--------------------------- MODULE ContainersProofs ---------------------------
(***************************************************************************)
(* Lemmas about lists, numbers and sums that the theorems about the        *)
(* components rest on: what is selected from a list, a list without        *)
(* repetition, what lists make when they are joined, sorted lists, sums    *)
(* over finite sets and the mean of rates.  Recursion is reasoned about    *)
(* by the least number at which a claim would fail.                        *)
(***************************************************************************)
EXTENDS Containers, SequencesExt, FiniteSetTheorems, TLAPS, WellFoundedInduction

-----------------------------------------------------------------------------
(* Least numbers, and parts of lists.                                      *)

LEMMA LeastNumber ==
  ASSUME NEW S, S \subseteq Nat, S # {}
  PROVE  \E m \in S : \A n \in S : m <= n
  <1> DEFINE R == OpToRel(<, Nat)
  <1>1. IsWellFoundedOn(R, Nat)
    BY NatLessThanWellFounded
  <1>2. PICK m \in S : \A n \in S : <<n, m>> \notin R
    <2> HIDE DEF R
    <2> QED BY <1>1, WFMin
  <1>3. \A n \in S : <<n, m>> \in R <=> n < m
    BY DEF OpToRel
  <1> HIDE DEF R
  <1>4. \A n \in S : ~ (n < m)
    BY <1>2, <1>3, Zenon
  <1> QED
    BY <1>4

\* The values of Selected up to each position.
UpTo(f, s, T, n) ==
    f = [i \in 0 .. n |->
            IF i = 0 THEN <<>>
            ELSE IF s[i] \in T THEN Append(f[i - 1], s[i]) ELSE f[i - 1]]

LEMMA UpToExists ==
  ASSUME NEW s, NEW T, NEW n \in Nat
  PROVE  \E f : UpTo(f, s, T, n)
  <1> SUFFICES ASSUME ~ \E f : UpTo(f, s, T, n) PROVE FALSE
    OBVIOUS
  <1> DEFINE Failing == {k \in Nat : ~ \E f : UpTo(f, s, T, k)}
  <1>1. PICK m \in Failing : \A k \in Failing : m <= k
    BY LeastNumber
  <1>2. \E f : UpTo(f, s, T, 0)
    <2>1. UpTo([i \in 0 .. 0 |-> <<>>], s, T, 0)
      BY DEF UpTo
    <2> QED BY <2>1
  <1>3. m - 1 \in Nat /\ m - 1 \notin Failing
    BY <1>1, <1>2
  <1>4. PICK f : UpTo(f, s, T, m - 1)
    BY <1>3
  <1> DEFINE g == [i \in 0 .. m |->
                     IF i = m THEN IF s[m] \in T THEN Append(f[m - 1], s[m]) ELSE f[m - 1]
                     ELSE f[i]]
  <1>5. UpTo(g, s, T, m)
    <2>1. \A i \in 0 .. m - 1 : g[i] = f[i]
      BY <1>1
    <2>2. ASSUME NEW i \in 0 .. m
          PROVE  g[i] = IF i = 0 THEN <<>>
                        ELSE IF s[i] \in T THEN Append(g[i - 1], s[i]) ELSE g[i - 1]
      <3>1. CASE i = m
        BY <3>1, <1>3, <2>1
      <3>2. CASE i # m
        <4>1. i \in 0 .. m - 1 /\ (i # 0 => i - 1 \in 0 .. m - 1)
          BY <3>2, <1>1
        <4>2. f[i] = IF i = 0 THEN <<>>
                     ELSE IF s[i] \in T THEN Append(f[i - 1], s[i]) ELSE f[i - 1]
          BY <4>1, <1>4 DEF UpTo
        <4> HIDE DEF g
        <4> QED BY <4>1, <4>2, <2>1
      <3> QED BY <3>1, <3>2
    <2>3. g = [i \in 0 .. m |-> g[i]]
      OBVIOUS
    <2> HIDE DEF g
    <2> QED BY <2>2, <2>3 DEF UpTo
  <1> QED
    BY <1>1, <1>5

LEMMA SelectedIsLast ==
  ASSUME NEW s, NEW T, Len(s) \in Nat
  PROVE  \E f : UpTo(f, s, T, Len(s)) /\ Selected(s, T) = f[Len(s)]
  <1> DEFINE up[i \in 0 .. Len(s)] ==
        IF i = 0 THEN <<>> ELSE IF s[i] \in T THEN Append(up[i - 1], s[i]) ELSE up[i - 1]
  <1>1. \E f : UpTo(f, s, T, Len(s))
    BY UpToExists
  <1>2. up = [i \in 0 .. Len(s) |->
                IF i = 0 THEN <<>> ELSE IF s[i] \in T THEN Append(up[i - 1], s[i]) ELSE up[i - 1]]
    BY <1>1, Zenon DEF UpTo
  <1>3. Selected(s, T) = up[Len(s)]
    BY DEF Selected
  <1> HIDE DEF up
  <1> QED
    BY <1>2, <1>3 DEF UpTo

\* The positions that f has taken: at[k] is that of the k-th element.
Taken(at, f, s, T, n) ==
    /\ at \in [1 .. Len(f[n]) -> 1 .. n]
    /\ \A k \in 1 .. Len(f[n]) : f[n][k] = s[at[k]] /\ s[at[k]] \in T
    /\ \A j, k \in 1 .. Len(f[n]) : j < k => at[j] < at[k]

\* The positions of what is selected.
SelectedAt(at, s, T) ==
    /\ at \in [1 .. Len(Selected(s, T)) -> 1 .. Len(s)]
    /\ \A k \in DOMAIN at : Selected(s, T)[k] = s[at[k]]
    /\ \A j, k \in DOMAIN at : j < k => at[j] < at[k]

\* What is selected is a subsequence, of elements that are in the set.
LEMMA SelectedIsSubsequence ==
  ASSUME NEW S, NEW s \in Seq(S), NEW T
  PROVE  /\ Selected(s, T) \in Seq(S \cap T)
         /\ \E at : SelectedAt(at, s, T)
  <1> DEFINE N0 == Len(s)
  <1>1. N0 \in Nat /\ \A i \in 1 .. N0 : s[i] \in S
    OBVIOUS
  <1>2. PICK f : UpTo(f, s, T, N0) /\ Selected(s, T) = f[N0]
    BY <1>1, SelectedIsLast
  <1> HIDE DEF N0
  <1> DEFINE Holds(n) == f[n] \in Seq(S \cap T) /\ \E at : Taken(at, f, s, T, n)
             Failing == {n \in 0 .. N0 : ~ Holds(n)}
  <1>3. ASSUME Failing # {} PROVE FALSE
    <2>1. PICK m \in Failing : \A n \in Failing : m <= n
      <3>1. Failing \subseteq Nat
        BY <1>1
      <3> HIDE DEF Failing
      <3> QED BY <1>3, <3>1, LeastNumber
    <2>2. Holds(0)
      <3>1. f[0] = <<>>
        BY <1>1, <1>2 DEF UpTo
      <3>2. Taken([k \in 1 .. 0 |-> 0], f, s, T, 0)
        BY <3>1 DEF Taken
      <3> QED BY <3>1, <3>2
    <2>3. m \in 1 .. N0 /\ m - 1 \in 0 .. N0 /\ m - 1 \notin Failing
      BY <2>1, <2>2, <1>1
    <2>4. f[m] = IF s[m] \in T THEN Append(f[m - 1], s[m]) ELSE f[m - 1]
      <3>1. m \in 0 .. N0 /\ m # 0
        BY <2>3, <1>1
      <3> HIDE DEF Holds, Failing
      <3>2. f = [i \in 0 .. N0 |-> IF i = 0 THEN <<>>
                                  ELSE IF s[i] \in T THEN Append(f[i - 1], s[i]) ELSE f[i - 1]]
        BY <1>2 DEF UpTo, N0
      <3> QED BY <3>1, <3>2
    <2>5. f[m - 1] \in Seq(S \cap T)
      BY <2>3
    <2>6. PICK at : Taken(at, f, s, T, m - 1)
      BY <2>3
    <2> DEFINE l == Len(f[m - 1])
    <2>7. CASE s[m] \in T
      <3> DEFINE to == [k \in 1 .. l + 1 |-> IF k = l + 1 THEN m ELSE at[k]]
      <3>1. f[m] = Append(f[m - 1], s[m]) /\ s[m] \in S \cap T /\ l \in Nat
        BY <2>3, <2>4, <2>5, <2>7, <1>1
      <3>2. f[m] \in Seq(S \cap T) /\ Len(f[m]) = l + 1
        BY <3>1, <2>5
      <3>3. \A k \in 1 .. l + 1 : f[m][k] = IF k = l + 1 THEN s[m] ELSE f[m - 1][k]
        BY <3>1, <2>5
      <3>4. \A k \in 1 .. l : at[k] \in 1 .. m - 1
        BY <2>6 DEF Taken
      <3>5. Taken(to, f, s, T, m)
        <4>1. to \in [1 .. l + 1 -> 1 .. m]
          BY <3>1, <3>4, <2>3
        <4>2. ASSUME NEW k \in 1 .. l + 1 PROVE f[m][k] = s[to[k]] /\ s[to[k]] \in T
          BY <3>3, <2>6, <2>7, <3>1 DEF Taken
        <4>3. ASSUME NEW j \in 1 .. l + 1, NEW k \in 1 .. l + 1, j < k PROVE to[j] < to[k]
          <5>1. CASE k = l + 1
            <6>1. j \in 1 .. l
              BY <5>1, <4>3, <3>1
            <6>2. to[j] = at[j] /\ to[k] = m
              BY <5>1, <6>1, <3>1
            <6> QED
              BY <6>1, <6>2, <3>4, <2>3
          <5>2. CASE k # l + 1
            <6>1. j \in 1 .. l /\ k \in 1 .. l
              BY <5>2, <4>3, <3>1
            <6>2. to[j] = at[j] /\ to[k] = at[k]
              BY <6>1, <3>1
            <6> QED
              BY <6>1, <6>2, <4>3, <2>6 DEF Taken
          <5> QED
            BY <5>1, <5>2
        <4> HIDE DEF to
        <4> QED BY <4>1, <4>2, <4>3, <3>2 DEF Taken
      <3> QED BY <3>2, <3>5, <2>1
    <2>8. CASE s[m] \notin T
      <3>1. f[m] = f[m - 1]
        BY <2>4, <2>8
      <3>2. Taken(at, f, s, T, m)
        BY <3>1, <2>6, <2>3, <2>5 DEF Taken
      <3> QED BY <3>1, <3>2, <2>1, <2>5
    <2> QED BY <2>7, <2>8
  <1>4. Holds(N0)
    BY <1>3, <1>1
  <1>5. PICK at : Taken(at, f, s, T, N0)
    BY <1>4
  <1>6. DOMAIN at = 1 .. Len(f[N0]) /\ at \in [1 .. Len(f[N0]) -> 1 .. N0]
    BY <1>5 DEF Taken
  <1>7. \A k \in DOMAIN at : f[N0][k] = s[at[k]]
    BY <1>5, <1>6 DEF Taken
  <1>8. \A j, k \in DOMAIN at : j < k => at[j] < at[k]
    BY <1>5, <1>6 DEF Taken
  <1> QED
    BY <1>2, <1>4, <1>6, <1>7, <1>8 DEF N0, SelectedAt

\* Everything of the list that is in the set is selected.
LEMMA SelectedIsComplete ==
  ASSUME NEW S, NEW s \in Seq(S), NEW T
  PROVE  \A i \in 1 .. Len(s) : s[i] \in T => \E k \in DOMAIN Selected(s, T) : Selected(s, T)[k] = s[i]
  <1> DEFINE N0 == Len(s)
  <1>1. N0 \in Nat /\ \A i \in 1 .. N0 : s[i] \in S
    OBVIOUS
  <1>2. PICK f : UpTo(f, s, T, N0) /\ Selected(s, T) = f[N0]
    BY <1>1, SelectedIsLast
  <1> DEFINE Holds(n) ==
        /\ f[n] \in Seq(S)
        /\ \A i \in 1 .. n : s[i] \in T => \E k \in 1 .. Len(f[n]) : f[n][k] = s[i]
  <1>3. \A n \in 0 .. N0 : Holds(n)
    <2> SUFFICES ASSUME NEW n \in 0 .. N0, ~Holds(n) PROVE FALSE
      OBVIOUS
    <2> DEFINE Failing == {k \in 0 .. N0 : ~Holds(k)}
    <2>1. PICK m \in Failing : \A k \in Failing : m <= k
      <3>1. n \in Failing /\ Failing \subseteq Nat
        BY <1>1
      <3> HIDE DEF Failing
      <3> QED BY <3>1, LeastNumber
    <2>2. Holds(0)
      BY <1>1, <1>2 DEF UpTo
    <2>3. m \in 1 .. N0 /\ m - 1 \in 0 .. N0 /\ m - 1 \notin Failing
      <3>1. m \in 0 .. N0 /\ m # 0
        BY <2>1, <2>2
      <3> HIDE DEF Failing
      <3> QED BY <3>1, <2>1, <1>1
    <2>4. f[m] = IF s[m] \in T THEN Append(f[m - 1], s[m]) ELSE f[m - 1]
      <3>1. m \in 0 .. N0 /\ m # 0
        BY <2>3, <1>1
      <3> HIDE DEF Holds, Failing
      <3>2. f = [i \in 0 .. N0 |-> IF i = 0 THEN <<>>
                                  ELSE IF s[i] \in T THEN Append(f[i - 1], s[i]) ELSE f[i - 1]]
        BY <1>2 DEF UpTo, N0
      <3> QED BY <3>1, <3>2
    <2>5. Holds(m - 1) /\ s[m] \in S
      BY <1>1, <2>3
    <2>6. f[m] \in Seq(S)
      BY <2>4, <2>5
    <2>7. ASSUME NEW i \in 1 .. m, s[i] \in T PROVE \E k \in 1 .. Len(f[m]) : f[m][k] = s[i]
      <3>1. CASE i = m
        <4>1. f[m] = Append(f[m - 1], s[i])
          BY <2>4, <2>7, <3>1
        <4>2. Len(f[m - 1]) + 1 \in 1 .. Len(f[m]) /\ f[m][Len(f[m - 1]) + 1] = s[i]
          BY <4>1, <2>5
        <4> QED BY <4>2
      <3>2. CASE i # m
        <4>1. PICK k \in 1 .. Len(f[m - 1]) : f[m - 1][k] = s[i]
          BY <2>5, <2>7, <2>3, <3>2
        <4>2. k \in 1 .. Len(f[m]) /\ f[m][k] = s[i]
          BY <4>1, <2>4, <2>5
        <4> QED BY <4>2
      <3> QED BY <3>1, <3>2
    <2> QED BY <2>1, <2>6, <2>7
  <1>4. Holds(N0)
    BY <1>1, <1>3
  <1>5. DOMAIN Selected(s, T) = 1 .. Len(f[N0])
    BY <1>2, <1>4
  <1> QED BY <1>2, <1>4, <1>5 DEF N0

-----------------------------------------------------------------------------
(* Increasing lists of numbers.                                            *)

Increasing(s) == s \in Seq(Nat) /\ \A j, k \in 1 .. Len(s) : j < k => s[j] < s[k]

LEMMA NumbersSelected ==
  ASSUME NEW n \in Nat, NEW S
  PROVE  /\ Increasing(Selected(Numbers(n), S))
         /\ Range(Selected(Numbers(n), S)) = S \cap 1 .. n
  <1> DEFINE s == Numbers(n)
             t == Selected(s, S)
  <1>1. s \in Seq(1 .. n) /\ Len(s) = n /\ \A i \in 1 .. n : s[i] = i
    BY DEF Numbers
  <1> HIDE DEF s
  <1>2. t \in Seq(1 .. n \cap S) /\ \E at : SelectedAt(at, s, S)
    BY <1>1, SelectedIsSubsequence
  <1>3. PICK at : SelectedAt(at, s, S)
    BY <1>2
  <1>4. t \in Seq(Nat) /\ Len(t) \in Nat /\ \A k \in 1 .. Len(t) : t[k] \in 1 .. n /\ t[k] \in S
    BY <1>2
  <1>5. \A j, k \in 1 .. Len(t) : j < k => t[j] < t[k]
    BY <1>1, <1>3 DEF SelectedAt
  <1>6. \A i \in 1 .. n : i \in S => \E k \in DOMAIN t : t[k] = i
    BY <1>1, SelectedIsComplete
  <1>7. DOMAIN t = 1 .. Len(t)
    BY <1>4
  <1> QED
    BY <1>4, <1>5, <1>6, <1>7 DEF Increasing, Range, s

\* An increasing list is known by its elements: the first difference would be one that
\* the other list has skipped.
LEMMA IncreasingIsPrefix ==
  ASSUME NEW s, NEW t, Increasing(s), Increasing(t), Range(s) = Range(t)
  PROVE  \A i \in 1 .. Len(s) : i \in 1 .. Len(t) /\ s[i] = t[i]
  <1> DEFINE Failing == {i \in 1 .. Len(s) : ~ (i \in 1 .. Len(t) /\ s[i] = t[i])}
  <1>1. /\ Len(s) \in Nat /\ DOMAIN s = 1 .. Len(s) /\ \A i \in 1 .. Len(s) : s[i] \in Nat
        /\ Len(t) \in Nat /\ DOMAIN t = 1 .. Len(t) /\ \A i \in 1 .. Len(t) : t[i] \in Nat
    BY DEF Increasing
  <1> SUFFICES ASSUME Failing # {} PROVE FALSE
    OBVIOUS
  <1>2. PICK m \in Failing : \A k \in Failing : m <= k
    <2>1. Failing \subseteq Nat
      BY <1>1
    <2> HIDE DEF Failing
    <2> QED BY <2>1, LeastNumber
  <1>3. m \in 1 .. Len(s) /\ \A j \in 1 .. m - 1 : j \in 1 .. Len(t) /\ s[j] = t[j]
    BY <1>1, <1>2
  <1>4. PICK j \in 1 .. Len(t) : t[j] = s[m]
    BY <1>1, <1>3, ZenonT(60) DEF Range
  <1>5. j >= m
    BY <1>1, <1>3, <1>4 DEF Increasing
  <1>6. m \in 1 .. Len(t) /\ t[m] <= s[m]
    <2>1. m \in 1 .. Len(t) /\ j \in Nat /\ m \in Nat
      BY <1>1, <1>3, <1>4, <1>5
    <2>2. CASE m = j
      BY <1>1, <1>3, <1>4, <2>1, <2>2
    <2>3. CASE m # j
      <3>1. m < j
        BY <1>5, <2>1, <2>3
      <3>2. t[m] < t[j]
        BY <1>4, <2>1, <3>1 DEF Increasing
      <3>3. t[m] \in Nat /\ s[m] \in Nat
        BY <1>1, <1>3, <2>1
      <3> QED BY <1>4, <2>1, <3>2, <3>3
    <2> QED BY <2>2, <2>3
  <1>7. PICK k \in 1 .. Len(s) : s[k] = t[m]
    BY <1>1, <1>6 DEF Range
  <1>8. s[k] < s[m]
    BY <1>1, <1>2, <1>6, <1>7
  <1>9. k < m
    <2>1. k # m /\ ~ (m < k)
      BY <1>1, <1>3, <1>7, <1>8, SMTT(60) DEF Increasing
    <2> QED BY <1>1, <1>3, <1>7, <2>1
  <1>10. t[k] = t[m] /\ k \in 1 .. Len(t)
    BY <1>1, <1>3, <1>7, <1>9
  <1> QED
    BY <1>1, <1>6, <1>9, <1>10 DEF Increasing

LEMMA IncreasingIsUnique ==
  ASSUME NEW s, NEW t, Increasing(s), Increasing(t), Range(s) = Range(t)
  PROVE  s = t
  <1>1. \A i \in 1 .. Len(s) : i \in 1 .. Len(t) /\ s[i] = t[i]
    BY IncreasingIsPrefix
  <1>2. \A i \in 1 .. Len(t) : i \in 1 .. Len(s) /\ t[i] = s[i]
    BY IncreasingIsPrefix
  <1>3. s \in Seq(Nat) /\ t \in Seq(Nat)
    BY DEF Increasing
  <1>4. Len(s) = Len(t)
    BY <1>1, <1>2, <1>3, SMTT(60)
  <1> QED
    BY <1>1, <1>3, <1>4

LEMMA IncreasingFacts ==
  ASSUME NEW s, Increasing(s)
  PROVE  /\ Len(s) \in Nat /\ DOMAIN s = 1 .. Len(s) /\ s \in Seq(Nat)
         /\ \A i \in 1 .. Len(s) : s[i] \in Nat /\ s[i] \in Range(s)
         /\ \A x \in Range(s) : \E i \in 1 .. Len(s) : s[i] = x
         /\ \A j, k \in 1 .. Len(s) : s[j] < s[k] <=> j < k
  <1>1. s \in Seq(Nat)
    BY DEF Increasing
  <1>2. Len(s) \in Nat /\ DOMAIN s = 1 .. Len(s)
    BY <1>1
  <1>3. \A i \in 1 .. Len(s) : s[i] \in Nat
    BY <1>1
  <1>4. ASSUME NEW j \in 1 .. Len(s), NEW k \in 1 .. Len(s) PROVE s[j] < s[k] <=> j < k
    <2>1. j \in Nat /\ k \in Nat /\ s[j] \in Nat /\ s[k] \in Nat
      BY <1>2, <1>3
    <2>2. (j < k => s[j] < s[k]) /\ (k < j => s[k] < s[j])
      BY DEF Increasing
    <2>3. CASE j = k
      BY <2>1, <2>3
    <2> QED BY <2>1, <2>2, <2>3
  <1> QED
    BY <1>1, <1>2, <1>3, <1>4 DEF Range

\* The numbers after the P-th one of an increasing list are the rest of the list.
LEMMA RestOfIncreasing ==
  ASSUME NEW w, NEW t, Increasing(w), Increasing(t), NEW P \in Nat, P <= Len(w), NEW c,
         Range(t) = {x \in Range(w) : x > c}, \A x \in Range(w) : x > 0,
         c = IF P = 0 THEN 0 ELSE w[P]
  PROVE  Len(t) = Len(w) - P /\ \A i \in 1 .. Len(t) : t[i] = w[P + i]
  <1>1. /\ Len(w) \in Nat /\ \A i \in 1 .. Len(w) : w[i] \in Nat /\ w[i] \in Range(w)
        /\ \A x \in Range(w) : \E i \in 1 .. Len(w) : w[i] = x
        /\ \A j, k \in 1 .. Len(w) : w[j] < w[k] <=> j < k
    BY IncreasingFacts
  <1>2. PICK l : l = Len(w) - P
    OBVIOUS
  <1>3. PICK u : u = [i \in 1 .. l |-> w[P + i]]
    OBVIOUS
  <1>4. l \in Nat /\ \A i \in 1 .. l : P + i \in 1 .. Len(w)
    BY <1>1, <1>2
  <1>5. u \in Seq(Nat) /\ Len(u) = l /\ DOMAIN u = 1 .. l /\ \A i \in 1 .. l : u[i] = w[P + i]
    BY <1>1, <1>3, <1>4
  <1>6. Increasing(u)
    <2>1. ASSUME NEW j \in 1 .. l, NEW k \in 1 .. l, j < k PROVE u[j] < u[k]
      <3>1. P + j < P + k
        BY <1>4, <2>1
      <3>2. w[P + j] < w[P + k]
        BY <1>1, <1>4, <3>1
      <3> QED BY <1>5, <3>2
    <2> QED BY <1>5, <2>1 DEF Increasing
  <1>7. \A j \in 1 .. Len(w) : w[j] > c <=> j > P
    <2>1. CASE P = 0
      <3>1. c = 0 /\ \A j \in 1 .. Len(w) : w[j] > 0 /\ j > 0
        BY <1>1, <2>1
      <3> QED BY <2>1, <3>1
    <2>2. CASE P # 0
      <3>1. P \in 1 .. Len(w) /\ c = w[P]
        BY <1>1, <2>2
      <3>2. \A j \in 1 .. Len(w) : w[P] < w[j] <=> P < j
        BY <1>1, <3>1
      <3> QED BY <1>1, <3>1, <3>2
    <2> QED BY <2>1, <2>2
  <1>8. \A x \in Range(t) : \E i \in 1 .. l : u[i] = x
    <2> SUFFICES ASSUME NEW x \in Range(t) PROVE \E i \in 1 .. l : u[i] = x
      OBVIOUS
    <2>1. PICK j \in 1 .. Len(w) : w[j] = x /\ w[j] > c
      BY <1>1
    <2>2. j > P
      BY <1>7, <2>1
    <2>3. j - P \in 1 .. l /\ P + (j - P) = j
      BY <1>1, <1>2, <2>2
    <2> QED BY <1>5, <2>1, <2>3
  <1>9. \A i \in 1 .. l : u[i] \in Range(t)
    <2> SUFFICES ASSUME NEW i \in 1 .. l PROVE u[i] \in Range(t)
      OBVIOUS
    <2>1. P + i \in 1 .. Len(w) /\ P + i > P
      BY <1>4
    <2>2. w[P + i] > c /\ w[P + i] \in Range(w)
      BY <1>1, <1>7, <2>1
    <2> QED BY <1>5, <2>2
  <1>10. Range(u) = {u[i] : i \in 1 .. l}
    BY <1>5 DEF Range
  <1>11. Range(u) = Range(t)
    <2> HIDE DEF Increasing
    <2> QED BY <1>8, <1>9, <1>10
  <1>12. u = t
    BY <1>6, <1>11, IncreasingIsUnique
  <1> QED
    BY <1>2, <1>5, <1>12

\* The first elements of a list.
LEMMA FirstFacts ==
  ASSUME NEW U, NEW s \in Seq(U), NEW n \in Nat
  PROVE  /\ FirstOf(s, n) \in Seq(U)
         /\ Len(FirstOf(s, n)) = IF Len(s) < n THEN Len(s) ELSE n
         /\ \A i \in 1 .. Len(FirstOf(s, n)) : FirstOf(s, n)[i] = s[i]
  <1>1. PICK m : m = IF Len(s) < n THEN Len(s) ELSE n
    OBVIOUS
  <1>2. m \in 0 .. Len(s) /\ FirstOf(s, n) = SubSeq(s, 1, m)
    BY <1>1 DEF FirstOf
  <1>3. SubSeq(s, 1, m) \in Seq(U) /\ Len(SubSeq(s, 1, m)) = m /\ \A i \in 1 .. m : SubSeq(s, 1, m)[i] = s[i]
    BY <1>2
  <1> QED
    BY <1>1, <1>2, <1>3

-----------------------------------------------------------------------------
IsList(s) == s \in Seq(Range(s))

LEMMA ListFacts ==
  ASSUME NEW s, IsList(s)
  PROVE  /\ Len(s) \in Nat /\ DOMAIN s = 1 .. Len(s)
         /\ \A i \in DOMAIN s : s[i] \in Range(s)
         /\ \A U : Range(s) \subseteq U => s \in Seq(U)
  <1>1. PICK R : R = Range(s)
    OBVIOUS
  <1>2. s \in Seq(R)
    BY <1>1 DEF IsList
  <1>3. Len(s) \in Nat /\ DOMAIN s = 1 .. Len(s) /\ \A i \in DOMAIN s : s[i] \in R
    BY <1>2
  <1>4. \A U : R \subseteq U => s \in Seq(U)
    BY <1>2
  <1> QED
    BY <1>1, <1>3, <1>4

LEMMA ListOf ==
  ASSUME NEW U, NEW s \in Seq(U)
  PROVE  IsList(s)
  <1>1. DOMAIN s = 1 .. Len(s) /\ Len(s) \in Nat
    OBVIOUS
  <1>2. \A i \in 1 .. Len(s) : s[i] \in Range(s)
    BY <1>1 DEF Range
  <1> DEFINE R == Range(s)
  <1>3. s = [i \in 1 .. Len(s) |-> s[i]]
    OBVIOUS
  <1> HIDE DEF R
  <1>4. [i \in 1 .. Len(s) |-> s[i]] \in Seq(R)
    BY <1>1, <1>2 DEF R
  <1> QED
    BY <1>3, <1>4 DEF IsList, R

LEMMA Joined ==
  ASSUME NEW s, NEW t, IsList(s), IsList(t)
  PROVE  /\ IsList(s \o t) /\ Range(s \o t) = Range(s) \cup Range(t)
         /\ DOMAIN (s \o t) = 1 .. Len(s) + Len(t) /\ Len(s) \in Nat /\ Len(t) \in Nat
         /\ \A i \in 1 .. Len(s) : (s \o t)[i] = s[i]
         /\ \A i \in 1 .. Len(t) : (s \o t)[Len(s) + i] = t[i]
         /\ \A i \in 1 .. Len(s) + Len(t) : i > Len(s) => i - Len(s) \in 1 .. Len(t) /\ (s \o t)[i] = t[i - Len(s)]
  <1>1. PICK U : U = Range(s) \cup Range(t)
    OBVIOUS
  <1>2. s \in Seq(U) /\ t \in Seq(U)
    BY <1>1, ListFacts
  <1>3. PICK j : j = s \o t
    OBVIOUS
  <1>4. /\ j \in Seq(U) /\ Len(j) = Len(s) + Len(t) /\ Len(s) \in Nat /\ Len(t) \in Nat
        /\ \A i \in 1 .. Len(s) : j[i] = s[i]
        /\ \A i \in 1 .. Len(t) : j[Len(s) + i] = t[i]
    BY <1>2, <1>3
  <1>5. DOMAIN j = 1 .. Len(s) + Len(t) /\ DOMAIN s = 1 .. Len(s) /\ DOMAIN t = 1 .. Len(t)
    BY <1>2, <1>4
  <1>6. ASSUME NEW i \in 1 .. Len(s) + Len(t), i > Len(s)
        PROVE  i - Len(s) \in 1 .. Len(t) /\ j[i] = t[i - Len(s)]
    <2>1. i - Len(s) \in 1 .. Len(t) /\ i = Len(s) + (i - Len(s))
      BY <1>4, <1>6
    <2> QED
      BY <2>1, <1>4
  <1>7. Range(j) = Range(s) \cup Range(t)
    <2>1. ASSUME NEW i \in DOMAIN j PROVE j[i] \in Range(s) \cup Range(t)
      <3>1. CASE i \in DOMAIN s
        BY <3>1, <1>4, <1>5 DEF Range
      <3>2. CASE i \notin DOMAIN s
        <4>1. i - Len(s) \in DOMAIN t /\ j[i] = t[i - Len(s)]
          BY <3>2, <1>4, <1>5, <1>6
        <4> QED BY <4>1 DEF Range
      <3> QED BY <3>1, <3>2
    <2>2. ASSUME NEW i \in DOMAIN s PROVE s[i] \in Range(j)
      <3>1. i \in DOMAIN j /\ j[i] = s[i]
        BY <1>4, <1>5
      <3> QED BY <3>1 DEF Range
    <2>3. ASSUME NEW i \in DOMAIN t PROVE t[i] \in Range(j)
      <3>1. Len(s) + i \in DOMAIN j /\ j[Len(s) + i] = t[i]
        BY <1>4, <1>5
      <3> QED BY <3>1 DEF Range
    <2> QED
      BY <2>1, <2>2, <2>3 DEF Range
  <1>8. IsList(j)
    BY <1>4, ListOf
  <1> QED
    BY <1>3, <1>4, <1>5, <1>6, <1>7, <1>8

LEMMA Appended ==
  ASSUME NEW s, NEW e, IsList(s)
  PROVE  /\ IsList(Append(s, e)) /\ Range(Append(s, e)) = Range(s) \cup {e}
         /\ Len(Append(s, e)) = Len(s) + 1 /\ Len(s) \in Nat
         /\ \A i \in 1 .. Len(s) : Append(s, e)[i] = s[i]
         /\ Append(s, e)[Len(s) + 1] = e
  <1>1. PICK U : U = Range(s) \cup {e}
    OBVIOUS
  <1>2. s \in Seq(U)
    BY <1>1, ListFacts
  <1>3. PICK j : j = Append(s, e)
    OBVIOUS
  <1>4. /\ j \in Seq(U) /\ Len(j) = Len(s) + 1 /\ Len(s) \in Nat
        /\ \A i \in 1 .. Len(s) : j[i] = s[i]
        /\ j[Len(s) + 1] = e
    BY <1>1, <1>2, <1>3
  <1>5. DOMAIN j = 1 .. Len(s) + 1 /\ DOMAIN s = 1 .. Len(s)
    BY <1>2, <1>4
  <1>6. Range(j) = Range(s) \cup {e}
    BY <1>4, <1>5 DEF Range
  <1>7. IsList(j)
    BY <1>4, ListOf
  <1> QED
    BY <1>3, <1>4, <1>6, <1>7

LEMMA PrefixFacts ==
  ASSUME NEW s, NEW t, IsList(s), IsList(t)
  PROVE  IsPrefix(s, t) <=> Len(s) <= Len(t) /\ \A i \in 1 .. Len(s) : s[i] = t[i]
  <1>1. PICK U : U = Range(s) \cup Range(t)
    OBVIOUS
  <1>2. s \in Seq(U) /\ t \in Seq(U)
    BY <1>1, ListFacts
  <1>3. SubSeq(s, 1, Len(s)) = s
    BY <1>2
  <1>4. ASSUME Len(s) <= Len(t) PROVE s = SubSeq(t, 1, Len(s)) <=> \A i \in 1 .. Len(s) : s[i] = t[i]
    <2>1. PICK p : p = SubSeq(t, 1, Len(s))
      OBVIOUS
    <2>2. p \in Seq(U) /\ Len(p) = Len(s) /\ \A i \in 1 .. Len(s) : p[i] = t[i]
      BY <1>2, <1>4, <2>1
    <2>3. s = p <=> \A i \in 1 .. Len(s) : s[i] = p[i]
      BY <1>2, <2>2
    <2> QED
      BY <2>1, <2>2, <2>3
  <1> QED
    BY <1>3, <1>4 DEF IsPrefix

LEMMA NothingIsAList == IsList(<<>>) /\ Range(<<>>) = {}
  <1>1. Range(<<>>) = {}
    BY DEF Range
  <1>2. <<>> \in Seq({})
    OBVIOUS
  <1> QED
    BY <1>1, <1>2 DEF IsList

LEMMA HeadOfList ==
  ASSUME NEW s, IsList(s), s # <<>>
  PROVE  Head(s) \in Range(s)
  <1>1. PICK R : R = Range(s)
    OBVIOUS
  <1>2. s \in Seq(R)
    BY <1>1 DEF IsList
  <1>3. Head(s) \in R
    BY <1>2
  <1> QED
    BY <1>1, <1>3

LEMMA TailOfList ==
  ASSUME NEW s, IsList(s), s # <<>>
  PROVE  IsList(Tail(s)) /\ Range(Tail(s)) \subseteq Range(s)
  <1>1. PICK R : R = Range(s)
    OBVIOUS
  <1>2. s \in Seq(R)
    BY <1>1 DEF IsList
  <1>3. PICK t : t = Tail(s)
    OBVIOUS
  <1>4. t \in Seq(R)
    BY <1>2, <1>3
  <1>5. IsList(t)
    BY <1>4, ListOf
  <1>6. Range(t) \subseteq R
    BY <1>4 DEF Range
  <1> QED
    BY <1>1, <1>3, <1>5, <1>6


\* The values of FlattenSeq up to each position.
FlatTo(f, ss, n) ==
    f = [i \in 1 .. n |-> IF i = 1 THEN ss[i] ELSE f[i - 1] \o ss[i]]

LEMMA FlatToExists ==
  ASSUME NEW ss, NEW n \in Nat
  PROVE  \E f : FlatTo(f, ss, n)
  <1> SUFFICES ASSUME ~ \E f : FlatTo(f, ss, n) PROVE FALSE
    OBVIOUS
  <1> DEFINE Failing == {k \in Nat : ~ \E f : FlatTo(f, ss, k)}
  <1>1. PICK m \in Failing : \A k \in Failing : m <= k
    BY LeastNumber
  <1>2. \E f : FlatTo(f, ss, 0)
    <2>1. FlatTo([i \in 1 .. 0 |-> <<>>], ss, 0)
      BY DEF FlatTo
    <2> QED BY <2>1
  <1>3. m - 1 \in Nat /\ m - 1 \notin Failing
    BY <1>1, <1>2
  <1>4. PICK f : FlatTo(f, ss, m - 1)
    BY <1>3
  <1> DEFINE g == [i \in 1 .. m |->
                     IF i = m THEN IF m = 1 THEN ss[m] ELSE f[m - 1] \o ss[m]
                     ELSE f[i]]
  <1>5. FlatTo(g, ss, m)
    <2>1. \A i \in 1 .. m - 1 : g[i] = f[i]
      BY <1>1
    <2>2. ASSUME NEW i \in 1 .. m
          PROVE  g[i] = IF i = 1 THEN ss[i] ELSE g[i - 1] \o ss[i]
      <3>1. CASE i = m
        BY <3>1, <1>3, <2>1
      <3>2. CASE i # m
        <4>1. i \in 1 .. m - 1 /\ (i # 1 => i - 1 \in 1 .. m - 1)
          BY <3>2, <1>1
        <4>2. f[i] = IF i = 1 THEN ss[i] ELSE f[i - 1] \o ss[i]
          BY <4>1, <1>4 DEF FlatTo
        <4> HIDE DEF g
        <4> QED BY <4>1, <4>2, <2>1
      <3> QED BY <3>1, <3>2
    <2>3. g = [i \in 1 .. m |-> g[i]]
      OBVIOUS
    <2> HIDE DEF g
    <2> QED BY <2>2, <2>3 DEF FlatTo
  <1> QED
    BY <1>1, <1>5

LEMMA FlattenedIsLast ==
  ASSUME NEW ss, Len(ss) \in Nat, Len(ss) # 0
  PROVE  \E f : FlatTo(f, ss, Len(ss)) /\ FlattenSeq(ss) = f[Len(ss)]
  <1> DEFINE flatten[i \in 1 .. Len(ss)] ==
        IF i = 1 THEN ss[i] ELSE flatten[i - 1] \o ss[i]
  <1>1. \E f : FlatTo(f, ss, Len(ss))
    BY FlatToExists
  <1>2. flatten = [i \in 1 .. Len(ss) |-> IF i = 1 THEN ss[i] ELSE flatten[i - 1] \o ss[i]]
    BY <1>1, Zenon DEF FlatTo
  <1>3. FlattenSeq(ss) = flatten[Len(ss)]
    BY DEF FlattenSeq
  <1> HIDE DEF flatten
  <1> QED
    BY <1>2, <1>3 DEF FlatTo

\* The list of the elements of lists; without repetition if there is none in a list
\* and no two lists have an element in common.
LEMMA Flattened ==
  ASSUME NEW ss, IsList(ss), \A d \in DOMAIN ss : IsList(ss[d])
  PROVE  /\ IsList(FlattenSeq(ss))
         /\ Range(FlattenSeq(ss)) = UNION {Range(ss[d]) : d \in DOMAIN ss}
         /\ (/\ \A d \in DOMAIN ss : IsInjective(ss[d])
             /\ \A c, d \in DOMAIN ss : c # d => Range(ss[c]) \cap Range(ss[d]) = {})
              => IsInjective(FlattenSeq(ss))
  <1> DEFINE N0 == Len(ss)
             F == FlattenSeq(ss)
             Apart == /\ \A d \in DOMAIN ss : IsInjective(ss[d])
                      /\ \A c, d \in DOMAIN ss : c # d => Range(ss[c]) \cap Range(ss[d]) = {}
  <1>1. N0 \in Nat /\ DOMAIN ss = 1 .. N0
    BY ListFacts
  <1>2. CASE N0 = 0
    <2>1. F = ss /\ DOMAIN ss = {}
      BY <1>1, <1>2 DEF FlattenSeq
    <2> QED
      BY <2>1 DEF IsInjective, Range
  <1>3. CASE N0 # 0
    <2>1. PICK f : FlatTo(f, ss, N0) /\ F = f[N0]
      BY <1>1, <1>3, FlattenedIsLast
    <2> HIDE DEF N0, F, Apart
    <2>2. \A i \in 1 .. N0 : f[i] = IF i = 1 THEN ss[i] ELSE f[i - 1] \o ss[i]
      BY <2>1 DEF FlatTo
    <2> DEFINE Holds(n) == /\ IsList(f[n])
                           /\ Range(f[n]) = UNION {Range(ss[d]) : d \in 1 .. n}
                           /\ Apart => IsInjective(f[n])
               Failing == {n \in 1 .. N0 : ~ Holds(n)}
    <2>3. ASSUME Failing # {} PROVE FALSE
      <3>1. PICK m \in Failing : \A n \in Failing : m <= n
        <4>1. Failing \subseteq Nat
          BY <1>1
        <4> HIDE DEF Failing
        <4> QED BY <2>3, <4>1, LeastNumber
      <3>2. m \in 1 .. N0 /\ m \in DOMAIN ss
        BY <1>1, <3>1
      <3>3. Holds(1)
        <4>1. f[1] = ss[1] /\ 1 \in DOMAIN ss
          BY <1>1, <2>2, <3>2
        <4>2. UNION {Range(ss[d]) : d \in 1 .. 1} = Range(ss[1])
          <5>1. 1 .. 1 = {1}
            OBVIOUS
          <5> QED BY <5>1
        <4> QED
          BY <4>1, <4>2 DEF Apart
      <3>4. m # 1 /\ m - 1 \in 1 .. N0 /\ m - 1 \notin Failing
        BY <1>1, <3>1, <3>2, <3>3
      <3>5. Holds(m - 1)
        BY <3>4
      <3> DEFINE a == f[m - 1]
                 b == ss[m]
      <3>6. f[m] = a \o b
        BY <2>2, <3>2, <3>4
      <3>7. IsList(a) /\ IsList(b)
        BY <3>2, <3>5
      <3>8. Range(a) = UNION {Range(ss[d]) : d \in 1 .. m - 1}
        BY <3>5
      <3>9. Apart => IsInjective(a) /\ IsInjective(b) /\ Range(a) \cap Range(b) = {}
        <4>1. \A d \in 1 .. m - 1 : d \in DOMAIN ss /\ d # m
          BY <1>1, <3>2
        <4> QED
          BY <3>2, <3>5, <3>8, <4>1 DEF Apart
      <3> HIDE DEF a, b, Holds
      <3>10. IsList(f[m])
        BY <3>6, <3>7, Joined
      <3>11. Range(f[m]) = UNION {Range(ss[d]) : d \in 1 .. m}
        <4>1. 1 .. m = 1 .. m - 1 \cup {m}
          BY <3>2, <1>1
        <4>2. Range(f[m]) = Range(a) \cup Range(ss[m])
          BY <3>6, <3>7, Joined DEF b
        <4> QED
          BY <3>8, <4>1, <4>2
      <3>12. ASSUME Apart PROVE IsInjective(f[m])
        <4>1. IsInjective(a) /\ IsInjective(b) /\ Range(a) \cap Range(b) = {}
          BY <3>9, <3>12
        <4>2. DOMAIN a = 1 .. Len(a) /\ DOMAIN b = 1 .. Len(b) /\ Len(a) \in Nat /\ Len(b) \in Nat
          BY <3>7, ListFacts
        <4> DEFINE g == f[m]
        <4>3. /\ DOMAIN g = 1 .. Len(a) + Len(b)
              /\ \A i \in 1 .. Len(a) : g[i] = a[i]
              /\ \A i \in 1 .. Len(a) + Len(b) : i > Len(a) => i - Len(a) \in 1 .. Len(b) /\ g[i] = b[i - Len(a)]
          BY <3>6, <3>7, Joined
        <4> HIDE DEF g
        <4>4. ASSUME NEW i \in DOMAIN g, NEW j \in DOMAIN g, g[i] = g[j] PROVE i = j
          <5>1. \A k \in DOMAIN g : \/ k \in 1 .. Len(a)
                                    \/ k > Len(a) /\ k - Len(a) \in 1 .. Len(b) /\ k \in Nat
            BY <4>2, <4>3
          <5>2. \A k \in 1 .. Len(a) : g[k] \in Range(a)
            BY <4>2, <4>3 DEF Range
          <5>3. \A k \in DOMAIN g : k > Len(a) => g[k] \in Range(b)
            BY <4>2, <4>3 DEF Range
          <5>4. CASE i \in 1 .. Len(a) /\ j \in 1 .. Len(a)
            BY <4>1, <4>2, <4>3, <4>4, <5>4 DEF IsInjective
          <5>5. CASE i > Len(a) /\ j > Len(a)
            <6>1. i - Len(a) = j - Len(a)
              BY <4>1, <4>2, <4>3, <4>4, <5>5 DEF IsInjective
            <6> QED
              BY <4>2, <4>3, <6>1
          <5> QED
            BY <4>1, <4>2, <4>4, <5>1, <5>2, <5>3, <5>4, <5>5
        <4> QED
          BY <4>4 DEF g, IsInjective
      <3>13. Holds(m)
        BY <3>10, <3>11, <3>12 DEF Holds
      <3> QED
        BY <3>1, <3>13
    <2>4. N0 \in 1 .. N0
      BY <1>1, <1>3
    <2>5. Holds(N0)
      BY <2>3, <2>4
    <2> HIDE DEF Failing
    <2> QED
      BY <1>1, <2>1, <2>5 DEF F, Apart
  <1> QED
    BY <1>2, <1>3

-----------------------------------------------------------------------------
(* Lists that are taken page by page.                                      *)

\* The first elements of a list and the first of the rest are the first elements.
LEMMA FirstsJoined ==
  ASSUME NEW U, NEW w \in Seq(U), NEW P \in Nat, P <= Len(w), NEW L \in Nat,
         NEW t \in Seq(U), Len(t) = Len(w) - P, \A i \in 1 .. Len(t) : t[i] = w[P + i]
  PROVE  FirstOf(w, P) \o FirstOf(t, L) = FirstOf(w, P + L)
  <1>1. PICK a : a = FirstOf(w, P)
    OBVIOUS
  <1>2. PICK b : b = FirstOf(t, L)
    OBVIOUS
  <1>3. PICK c : c = FirstOf(w, P + L)
    OBVIOUS
  <1>4. a \in Seq(U) /\ Len(a) = P /\ \A i \in 1 .. P : a[i] = w[i]
    BY <1>1, FirstFacts
  <1>5. b \in Seq(U) /\ Len(b) = (IF Len(t) < L THEN Len(t) ELSE L) /\ \A i \in 1 .. Len(b) : b[i] = t[i]
    BY <1>2, FirstFacts
  <1>6. /\ c \in Seq(U) /\ Len(c) = (IF Len(w) < P + L THEN Len(w) ELSE P + L)
        /\ \A i \in 1 .. Len(c) : c[i] = w[i]
    <2>1. P + L \in Nat
      OBVIOUS
    <2> QED BY <1>3, <2>1, FirstFacts
  <1>7. PICK j : j = a \o b
    OBVIOUS
  <1>8. /\ j \in Seq(U) /\ Len(j) = P + Len(b) /\ Len(b) \in Nat
        /\ \A i \in 1 .. P : j[i] = a[i]
        /\ \A i \in 1 .. Len(b) : j[P + i] = b[i]
    <2>1. IsList(a) /\ IsList(b)
      BY <1>4, <1>5, ListOf
    <2>2. j \in Seq(U) /\ Len(j) \in Nat /\ DOMAIN j = 1 .. Len(j)
      BY <1>4, <1>5, <1>7
    <2>3. Len(a) = P
      BY <1>4
    <2>4. /\ DOMAIN j = 1 .. P + Len(b) /\ Len(b) \in Nat
          /\ \A i \in 1 .. P : j[i] = a[i]
          /\ \A i \in 1 .. Len(b) : j[P + i] = b[i]
      <3>1. /\ DOMAIN (a \o b) = 1 .. Len(a) + Len(b) /\ Len(b) \in Nat
            /\ \A i \in 1 .. Len(a) : (a \o b)[i] = a[i]
            /\ \A i \in 1 .. Len(b) : (a \o b)[Len(a) + i] = b[i]
        BY <2>1, Joined
      <3> QED
        BY <1>7, <2>3, <3>1, SMTT(60)
    <2>5. Len(j) = P + Len(b)
      <3>1. PICK n \in Nat : n = P + Len(b)
        BY <2>4
      <3>2. PICK m \in Nat : m = Len(j)
        BY <2>2, ZenonT(60)
      <3>3. 1 .. m = 1 .. n
        BY <2>2, <2>4, <3>1, <3>2, ZenonT(60)
      <3>4. m = n
        BY <3>3
      <3> QED
        BY <3>1, <3>2, <3>4
    <2> QED
      BY <2>2, <2>4, <2>5
  <1>9. Len(j) = Len(c)
    BY <1>5, <1>6, <1>8
  <1>10. ASSUME NEW i \in 1 .. Len(c) PROVE j[i] = c[i]
    <2>1. CASE i <= P
      BY <1>4, <1>6, <1>8, <2>1, SMTT(60)
    <2>2. CASE i > P
      <3>1. i - P \in 1 .. Len(b) /\ P + (i - P) = i /\ i - P \in 1 .. Len(t)
        BY <1>5, <1>8, <1>9, <2>2
      <3>2. j[i] = b[i - P] /\ b[i - P] = t[i - P] /\ t[i - P] = w[i]
        BY <1>5, <1>8, <3>1
      <3> QED BY <1>6, <3>2
    <2> QED BY <2>1, <2>2
  <1>11. j = c
    <2>1. j \in Seq(U) /\ c \in Seq(U) /\ Len(j) = Len(c) /\ \A i \in 1 .. Len(c) : j[i] = c[i]
      BY <1>6, <1>8, <1>9, <1>10
    <2> QED
      BY <2>1, SMTT(60)
  <1> QED
    BY <1>1, <1>2, <1>3, <1>7, <1>11

\* The first elements of a list that is too short are all of it, however many are asked for.
LEMMA AllOfShort ==
  ASSUME NEW U, NEW w \in Seq(U), NEW m \in Nat, NEW n \in Nat, Len(w) < m, Len(w) < n
  PROVE  FirstOf(w, m) = FirstOf(w, n)
  <1>1. PICK a : a = FirstOf(w, m)
    OBVIOUS
  <1>2. PICK b : b = FirstOf(w, n)
    OBVIOUS
  <1>3. a \in Seq(U) /\ Len(a) = Len(w) /\ \A i \in 1 .. Len(a) : a[i] = w[i]
    BY <1>1, FirstFacts
  <1>4. b \in Seq(U) /\ Len(b) = Len(w) /\ \A i \in 1 .. Len(b) : b[i] = w[i]
    BY <1>2, FirstFacts
  <1>5. a = b
    BY <1>3, <1>4
  <1> QED
    BY <1>1, <1>2, <1>5
-----------------------------------------------------------------------------
(* Sorted lists.                                                           *)

StrictOrder(S, R) ==
    /\ \A x \in S : <<x, x>> \notin R
    /\ \A x, y, z \in S : <<x, y>> \in R /\ <<y, z>> \in R => <<x, z>> \in R
    /\ \A x, y \in S : x # y => <<x, y>> \in R \/ <<y, x>> \in R

LEMMA RankBelow ==
  ASSUME NEW S, IsFiniteSet(S), NEW R, StrictOrder(S, R), NEW x \in S
  PROVE  Rank(S, R, x) \in 0 .. Cardinality(S) - 1
  <1> DEFINE B == {y \in S : <<y, x>> \in R}
  <1>1. B \subseteq S \ {x}
    BY DEF StrictOrder
  <1>2. IsFiniteSet(S \ {x}) /\ Cardinality(S \ {x}) = Cardinality(S) - 1
    BY FS_RemoveElement
  <1>3. IsFiniteSet(B) /\ Cardinality(B) <= Cardinality(S \ {x})
    BY <1>1, <1>2, FS_Subset
  <1>4. Cardinality(B) \in Nat /\ Cardinality(S) \in Nat
    BY <1>3, FS_CardinalityType
  <1> HIDE DEF B
  <1>5. Cardinality(B) \in 0 .. Cardinality(S) - 1
    BY <1>2, <1>3, <1>4
  <1> QED
    BY <1>5 DEF Rank, B

LEMMA RankGrows ==
  ASSUME NEW S, IsFiniteSet(S), NEW R, StrictOrder(S, R), NEW x \in S, NEW y \in S, <<x, y>> \in R
  PROVE  Rank(S, R, x) < Rank(S, R, y)
  <1> DEFINE B == {z \in S : <<z, x>> \in R}
             C == {z \in S : <<z, y>> \in R}
  <1>1. B \cup {x} \subseteq C /\ x \notin B
    BY DEF StrictOrder
  <1>2. IsFiniteSet(B) /\ IsFiniteSet(C)
    BY FS_Subset
  <1>3. IsFiniteSet(B \cup {x}) /\ Cardinality(B \cup {x}) = Cardinality(B) + 1
    BY <1>1, <1>2, FS_AddElement
  <1>4. Cardinality(B \cup {x}) <= Cardinality(C)
    BY <1>1, <1>2, FS_Subset
  <1>5. Cardinality(B) \in Nat /\ Cardinality(C) \in Nat
    BY <1>2, FS_CardinalityType
  <1> HIDE DEF B, C
  <1>6. Cardinality(B) < Cardinality(C)
    BY <1>3, <1>4, <1>5
  <1> QED
    BY <1>6 DEF Rank, B, C

\* No two elements have one rank, so that each rank below their number is one of theirs.
LEMMA RanksAreTaken ==
  ASSUME NEW S, IsFiniteSet(S), NEW R, StrictOrder(S, R), NEW i \in 0 .. Cardinality(S) - 1
  PROVE  \E x \in S : Rank(S, R, x) = i
  <1> DEFINE N0 == Cardinality(S)
             T == 0 .. N0 - 1
             f == [x \in S |-> Rank(S, R, x)]
  <1>1. N0 \in Nat
    BY FS_CardinalityType
  <1>2. f \in [S -> T]
    BY RankBelow
  <1>3. ASSUME NEW x \in S, NEW y \in S, f[x] = f[y] PROVE x = y
    <2>1. Rank(S, R, x) \in 0 .. N0 - 1 /\ Rank(S, R, y) \in 0 .. N0 - 1
      BY RankBelow
    <2>2. <<x, y>> \in R => Rank(S, R, x) < Rank(S, R, y)
      BY RankGrows
    <2>3. <<y, x>> \in R => Rank(S, R, y) < Rank(S, R, x)
      BY RankGrows
    <2>4. ~ (<<x, y>> \in R) /\ ~ (<<y, x>> \in R)
      BY <1>1, <1>3, <2>1, <2>2, <2>3
    <2> QED
      BY <2>4 DEF StrictOrder
  <1>4. IsFiniteSet(T) /\ Cardinality(T) = N0
    <2> HIDE DEF N0
    <2>1. PICK b \in Int : b = N0 - 1
      BY <1>1
    <2>2. IsFiniteSet(0 .. b) /\ Cardinality(0 .. b) = IF 0 > b THEN 0 ELSE b - 0 + 1
      BY FS_Interval
    <2> QED
      BY <1>1, <2>1, <2>2
  <1> HIDE DEF f, T, N0
  <1>5. f \in Injection(S, T)
    BY <1>2, <1>3 DEF Injection, IsInjective
  <1>6. f \in Surjection(S, T)
    BY <1>4, <1>5, FS_Injection DEF N0
  <1>7. \E x \in S : f[x] = i
    BY <1>6 DEF Surjection, T, N0
  <1> QED
    BY <1>7 DEF f

\* Ranked lists every element, each before those that follow it in the order.
LEMMA RankedIsSorted ==
  ASSUME NEW S, IsFiniteSet(S), NEW R, StrictOrder(S, R)
  PROVE  /\ Ranked(S, R) \in Seq(S) /\ DOMAIN Ranked(S, R) = 1 .. Cardinality(S)
         /\ \A x \in S : \E i \in DOMAIN Ranked(S, R) : Ranked(S, R)[i] = x
         /\ \A i, j \in DOMAIN Ranked(S, R) :
               <<Ranked(S, R)[i], Ranked(S, R)[j]>> \in R => i < j
  <1> DEFINE s == Ranked(S, R)
             N0 == Cardinality(S)
  <1>1. N0 \in Nat
    BY FS_CardinalityType
  <1>2. DOMAIN s = 1 .. N0 /\ s = [i \in 1 .. N0 |-> s[i]]
    BY DEF Ranked
  <1>3. ASSUME NEW i \in 1 .. N0 PROVE s[i] \in S /\ Rank(S, R, s[i]) = i - 1
    <2>1. i - 1 \in 0 .. Cardinality(S) - 1
      BY <1>1
    <2>2. \E x \in S : Rank(S, R, x) = i - 1
      BY <2>1, RanksAreTaken
    <2>3. s[i] = CHOOSE x \in S : Rank(S, R, x) = i - 1
      BY DEF Ranked
    <2> QED
      BY <2>2, <2>3
  <1> HIDE DEF s
  <1>4. s \in Seq(S)
    BY <1>1, <1>2, <1>3
  <1>5. ASSUME NEW i \in 1 .. N0, NEW j \in 1 .. N0, <<s[i], s[j]>> \in R PROVE i < j
    <2>1. Rank(S, R, s[i]) < Rank(S, R, s[j])
      BY <1>3, <1>5, RankGrows
    <2> QED
      BY <1>1, <1>3, <2>1
  <1>6. ASSUME NEW x \in S PROVE \E i \in 1 .. N0 : s[i] = x
    <2>1. PICK k : k = Rank(S, R, x)
      OBVIOUS
    <2>2. k \in 0 .. N0 - 1
      BY <2>1, RankBelow
    <2>3. k + 1 \in 1 .. N0
      BY <1>1, <2>2
    <2>4. s[k + 1] \in S /\ Rank(S, R, s[k + 1]) = k
      BY <1>3, <2>2, <2>3
    <2>5. <<s[k + 1], x>> \in R => Rank(S, R, s[k + 1]) < Rank(S, R, x)
      BY <2>4, RankGrows
    <2>6. <<x, s[k + 1]>> \in R => Rank(S, R, x) < Rank(S, R, s[k + 1])
      BY <2>4, RankGrows
    <2>7. ~ (<<s[k + 1], x>> \in R) /\ ~ (<<x, s[k + 1]>> \in R)
      BY <2>1, <2>2, <2>4, <2>5, <2>6
    <2>8. s[k + 1] = x
      BY <2>4, <2>7 DEF StrictOrder
    <2> QED
      BY <2>3, <2>8
  <1> QED
    BY <1>2, <1>4, <1>5, <1>6 DEF s

-----------------------------------------------------------------------------
(* Counting what is selected.                                              *)

\* Among numbers below a bound there is a greatest one.
LEMMA GreatestNumber ==
  ASSUME NEW n \in Nat, NEW S, S \subseteq 0 .. n, S # {}
  PROVE  \E m \in S : \A k \in S : k <= m
  <1> DEFINE D == {i \in Nat : n - i \in S}
  <1>1. D # {} /\ D \subseteq Nat
    <2>1. PICK k \in S : k \in 0 .. n
      OBVIOUS
    <2>2. n - k \in Nat /\ n - (n - k) = k
      BY <2>1
    <2> QED BY <2>1, <2>2
  <1>2. PICK i \in D : \A j \in D : i <= j
    <2> HIDE DEF D
    <2> QED BY <1>1, LeastNumber
  <1>3. ASSUME NEW k \in S PROVE k <= n - i
    <2>1. k \in 0 .. n /\ n - k \in Nat /\ n - (n - k) = k
      OBVIOUS
    <2>2. i <= n - k
      BY <1>2, <1>3, <2>1
    <2>3. i \in Nat
      BY <1>2
    <2> QED BY <2>1, <2>2, <2>3
  <1> QED BY <1>2, <1>3

\* How many elements of a list are in a set.
NumberIn(s, U) == Cardinality({i \in DOMAIN s : s[i] \in U})

\* Of what is selected, as many elements are in a set as of the list are in both.
LEMMA SelectedCounts ==
  ASSUME NEW S, NEW s \in Seq(S), NEW T, NEW U
  PROVE  NumberIn(Selected(s, T), U) = NumberIn(s, T \cap U)
  <1> DEFINE N0 == Len(s)
  <1>1. N0 \in Nat /\ \A i \in 1 .. N0 : s[i] \in S
    OBVIOUS
  <1>2. PICK f : UpTo(f, s, T, N0) /\ Selected(s, T) = f[N0]
    BY <1>1, SelectedIsLast
  <1> DEFINE Of(t) == {k \in 1 .. Len(t) : t[k] \in U}
             Both(n) == {i \in 1 .. n : s[i] \in T /\ s[i] \in U}
             Holds(n) == f[n] \in Seq(S) /\ Cardinality(Of(f[n])) = Cardinality(Both(n))
  <1>3. \A n \in 0 .. N0 : Holds(n)
    <2> SUFFICES ASSUME NEW n \in 0 .. N0, ~Holds(n) PROVE FALSE
      OBVIOUS
    <2> DEFINE Failing == {k \in 0 .. N0 : ~Holds(k)}
    <2>1. PICK m \in Failing : \A k \in Failing : m <= k
      <3>1. n \in Failing /\ Failing \subseteq Nat
        BY <1>1
      <3> HIDE DEF Failing
      <3> QED BY <3>1, LeastNumber
    <2>2. Holds(0)
      <3>1. f[0] = <<>>
        BY <1>1, <1>2 DEF UpTo
      <3>2. Of(<<>>) = {} /\ Both(0) = {}
        OBVIOUS
      <3> QED BY <3>1, <3>2
    <2>3. m \in 1 .. N0 /\ m - 1 \in 0 .. N0 /\ m - 1 \notin Failing
      <3>1. m \in 0 .. N0 /\ m # 0
        BY <2>1, <2>2
      <3> HIDE DEF Failing
      <3> QED BY <3>1, <2>1, <1>1
    <2>4. f[m] = IF s[m] \in T THEN Append(f[m - 1], s[m]) ELSE f[m - 1]
      <3>1. m \in 0 .. N0 /\ m # 0
        BY <2>3, <1>1
      <3> HIDE DEF Holds, Failing
      <3>2. f = [i \in 0 .. N0 |-> IF i = 0 THEN <<>>
                                  ELSE IF s[i] \in T THEN Append(f[i - 1], s[i]) ELSE f[i - 1]]
        BY <1>2 DEF UpTo, N0
      <3> QED BY <3>1, <3>2
    <2>5. Holds(m - 1) /\ s[m] \in S
      BY <1>1, <2>3
    <2>6. PICK t : t = f[m - 1]
      OBVIOUS
    <2>7. t \in Seq(S) /\ Len(t) \in Nat /\ Cardinality(Of(t)) = Cardinality(Both(m - 1))
      BY <2>5, <2>6
    <2>8. f[m] \in Seq(S)
      BY <2>4, <2>5
    <2>9. IsFiniteSet(Of(t)) /\ IsFiniteSet(Both(m - 1))
      <3>1. IsFiniteSet(1 .. Len(t)) /\ IsFiniteSet(1 .. m - 1)
        BY <2>7, <2>3, FS_Interval
      <3> QED BY <3>1, FS_Subset
    <2>10. CASE s[m] \in T /\ s[m] \in U
      <3>1. f[m] = Append(t, s[m])
        BY <2>4, <2>6, <2>10
      <3>2. Of(f[m]) = Of(t) \cup {Len(t) + 1} /\ Len(t) + 1 \notin Of(t)
        <4>1. Len(f[m]) = Len(t) + 1 /\ \A k \in 1 .. Len(t) + 1 :
                 f[m][k] = IF k = Len(t) + 1 THEN s[m] ELSE t[k]
          BY <3>1, <2>7, <2>5
        <4> QED BY <4>1, <2>7, <2>10
      <3>3. Both(m) = Both(m - 1) \cup {m} /\ m \notin Both(m - 1)
        BY <2>3, <2>10
      <3> HIDE DEF Of, Both
      <3>4. Cardinality(Of(f[m])) = Cardinality(Of(t)) + 1
        BY <3>2, <2>9, FS_AddElement
      <3>5. Cardinality(Both(m)) = Cardinality(Both(m - 1)) + 1
        BY <3>3, <2>9, FS_AddElement
      <3> QED BY <3>4, <3>5, <2>7, <2>8, <2>1
    <2>11. CASE s[m] \in T /\ s[m] \notin U
      <3>1. f[m] = Append(t, s[m])
        BY <2>4, <2>6, <2>11
      <3>2. Of(f[m]) = Of(t)
        <4>1. Len(f[m]) = Len(t) + 1 /\ \A k \in 1 .. Len(t) + 1 :
                 f[m][k] = IF k = Len(t) + 1 THEN s[m] ELSE t[k]
          BY <3>1, <2>7, <2>5
        <4> QED BY <4>1, <2>7, <2>11
      <3>3. Both(m) = Both(m - 1)
        BY <2>3, <2>11
      <3> HIDE DEF Of, Both
      <3> QED BY <3>2, <3>3, <2>7, <2>8, <2>1
    <2>12. CASE s[m] \notin T
      <3>1. f[m] = t
        BY <2>4, <2>6, <2>12
      <3>3. Both(m) = Both(m - 1)
        BY <2>3, <2>12
      <3> HIDE DEF Of, Both
      <3> QED BY <3>1, <3>3, <2>7, <2>8, <2>1
    <2> QED BY <2>10, <2>11, <2>12
  <1>4. Holds(N0)
    <2>1. N0 \in 0 .. N0
      BY <1>1
    <2> HIDE DEF Holds
    <2> QED BY <2>1, <1>3, Zenon
  <1>5. DOMAIN Selected(s, T) = 1 .. Len(f[N0]) /\ DOMAIN s = 1 .. N0
    BY <1>2, <1>4
  <1>6. {k \in DOMAIN Selected(s, T) : Selected(s, T)[k] \in U} = Of(f[N0])
    BY <1>2, <1>5
  <1>7. {i \in DOMAIN s : s[i] \in T \cap U} = Both(N0)
    BY <1>5
  <1> QED BY <1>4, <1>6, <1>7 DEF NumberIn

LEMMA SelectedLength ==
  ASSUME NEW S, NEW s \in Seq(S), NEW T
  PROVE  Len(Selected(s, T)) = NumberIn(s, T) /\ NumberIn(s, T) \in Nat
  <1>1. Selected(s, T) \in Seq(S \cap T)
    BY SelectedIsSubsequence
  <1>2. Len(Selected(s, T)) \in Nat /\ DOMAIN Selected(s, T) = 1 .. Len(Selected(s, T))
    BY <1>1
  <1>3. NumberIn(Selected(s, T), S) = NumberIn(s, T \cap S)
    BY SelectedCounts
  <1>4. {k \in DOMAIN Selected(s, T) : Selected(s, T)[k] \in S} = 1 .. Len(Selected(s, T))
    BY <1>1, <1>2
  <1>5. {i \in DOMAIN s : s[i] \in T \cap S} = {i \in DOMAIN s : s[i] \in T}
    BY SMTT(60)
  <1>6. PICK n \in Nat : n = Len(Selected(s, T))
    BY <1>2
  <1>7. Cardinality(1 .. n) = n
    <2>1. Cardinality(1 .. n) = IF 1 > n THEN 0 ELSE n - 1 + 1
      BY FS_Interval
    <2> QED BY <2>1
  <1>8. NumberIn(s, T \cap S) = NumberIn(s, T)
    BY <1>5 DEF NumberIn
  <1>9. NumberIn(Selected(s, T), S) = n
    BY <1>4, <1>6, <1>7 DEF NumberIn
  <1> QED BY <1>2, <1>3, <1>6, <1>8, <1>9

\* Selecting from a selection.
LEMMA SelectedOfSelected ==
  ASSUME NEW S, NEW s \in Seq(S), NEW T, NEW U
  PROVE  Len(Selected(Selected(s, T), U)) = NumberIn(s, T \cap U)
  <1>1. Selected(s, T) \in Seq(S \cap T)
    BY SelectedIsSubsequence
  <1>2. Len(Selected(Selected(s, T), U)) = NumberIn(Selected(s, T), U)
    BY <1>1, SelectedLength
  <1>3. NumberIn(Selected(s, T), U) = NumberIn(s, T \cap U)
    BY SelectedCounts
  <1> QED BY <1>2, <1>3

\* The elements of a selection, at their places in the list.
LEMMA SelectedRange ==
  ASSUME NEW S, NEW s \in Seq(S), NEW T
  PROVE  /\ Selected(s, T) \in Seq(S)
         /\ Range(Selected(s, T)) = {s[i] : i \in {j \in DOMAIN s : s[j] \in T}}
  <1>1. Selected(s, T) \in Seq(S \cap T) /\ \E at : SelectedAt(at, s, T)
    BY SelectedIsSubsequence
  <1>2. PICK at : SelectedAt(at, s, T)
    BY <1>1
  <1>3. PICK t : t = Selected(s, T)
    OBVIOUS
  <1>4. t \in Seq(S) /\ DOMAIN t = 1 .. Len(t) /\ \A k \in DOMAIN t : t[k] \in T
    BY <1>1, <1>3
  <1>5. DOMAIN s = 1 .. Len(s)
    OBVIOUS
  <1>6. ASSUME NEW k \in DOMAIN t PROVE \E j \in DOMAIN s : s[j] \in T /\ t[k] = s[j]
    <2>1. k \in DOMAIN at /\ at[k] \in DOMAIN s /\ t[k] = s[at[k]]
      BY <1>2, <1>3, <1>4, <1>5 DEF SelectedAt
    <2> QED BY <1>4, <2>1
  <1>7. ASSUME NEW j \in DOMAIN s, s[j] \in T PROVE \E k \in DOMAIN t : t[k] = s[j]
    BY <1>3, <1>5, <1>7, SelectedIsComplete
  <1>8. Range(t) = {s[i] : i \in {j \in DOMAIN s : s[j] \in T}}
    BY <1>6, <1>7 DEF Range
  <1> QED BY <1>3, <1>4, <1>8

-----------------------------------------------------------------------------
(* Sums and products of a function over a finite set.                     *)

\* The sums (from 0) or products (from 1) of a function over the parts of a set, those of up
\* to n elements.
Join(start, a, b) == IF start = 0 THEN a + b ELSE a * b

SumsTo(start, g, f, S, n) ==
    g = [s \in {t \in SUBSET S : Cardinality(t) <= n} |->
            IF s = {} THEN start
            ELSE Join(start, f[CHOOSE x \in s : TRUE], g[s \ {CHOOSE x \in s : TRUE}])]

LEMMA SizeOfPart ==
  ASSUME NEW S, IsFiniteSet(S), NEW t \in SUBSET S
  PROVE  /\ IsFiniteSet(t) /\ Cardinality(t) \in Nat /\ Cardinality(t) <= Cardinality(S)
         /\ Cardinality(t) = 0 <=> t = {}
         /\ \A x \in t : Cardinality(t \ {x}) = Cardinality(t) - 1
  <1>1. IsFiniteSet(t) /\ Cardinality(t) <= Cardinality(S)
    BY FS_Subset
  <1>2. Cardinality(t) \in Nat /\ (Cardinality(t) = 0 <=> t = {})
    BY <1>1, FS_CardinalityType, FS_EmptySet
  <1>3. ASSUME NEW x \in t PROVE Cardinality(t \ {x}) = Cardinality(t) - 1
    BY <1>1, FS_RemoveElement
  <1> QED BY <1>1, <1>2, <1>3

LEMMA SumsToExist ==
  ASSUME NEW start, NEW f, NEW S, IsFiniteSet(S), NEW n \in Nat
  PROVE  \E g : SumsTo(start, g, f, S, n)
  <1> DEFINE Parts(k) == {t \in SUBSET S : Cardinality(t) <= k}
             One(s) == CHOOSE x \in s : TRUE
             Value(g, s) == IF s = {} THEN start ELSE Join(start, f[One(s)], g[s \ {One(s)}])
  <1> SUFFICES ASSUME ~ \E g : SumsTo(start, g, f, S, n) PROVE FALSE
    OBVIOUS
  <1> DEFINE Failing == {k \in Nat : ~ \E g : SumsTo(start, g, f, S, k)}
  <1>1. PICK m \in Failing : \A k \in Failing : m <= k
    BY LeastNumber
  <1>2. \A s : s # {} => One(s) \in s
    OBVIOUS
  <1>3. ASSUME NEW k \in Nat, NEW s \in Parts(k), s # {}
        PROVE  s \ {One(s)} \in Parts(k) /\ (Cardinality(s) <= k => s \ {One(s)} \in Parts(k - 1))
    <2>1. Cardinality(s \ {One(s)}) = Cardinality(s) - 1 /\ Cardinality(s) \in Nat
      BY <1>2, <1>3, SizeOfPart
    <2> HIDE DEF One
    <2> QED BY <2>1
  <1>4. \E g : SumsTo(start, g, f, S, 0)
    <2> DEFINE g == [s \in Parts(0) |-> start]
    <2>1. \A s \in Parts(0) : s = {}
      BY SizeOfPart
    <2>2. g = [s \in Parts(0) |-> Value(g, s)]
      BY <2>1
    <2> HIDE DEF g
    <2>3. SumsTo(start, g, f, S, 0)
      BY <2>2 DEF SumsTo
    <2> QED BY <2>3
  <1>5. m - 1 \in Nat /\ m - 1 \notin Failing
    BY <1>1, <1>4
  <1>6. PICK h : SumsTo(start, h, f, S, m - 1)
    BY <1>5
  <1>7. h = [s \in Parts(m - 1) |-> Value(h, s)]
    BY <1>6 DEF SumsTo
  <1> DEFINE g == [s \in Parts(m) |-> IF s \in Parts(m - 1) THEN h[s] ELSE Value(h, s)]
  <1>8. ASSUME NEW s \in Parts(m) PROVE g[s] = Value(g, s)
    <2>1. g[s] = Value(h, s)
      <3> HIDE DEF Value, Parts
      <3> QED BY <1>7, <1>8
    <2>2. CASE s = {}
      BY <2>1, <2>2
    <2>3. CASE s # {}
      <3>1. s \ {One(s)} \in Parts(m) /\ s \ {One(s)} \in Parts(m - 1)
        <4>1. m \in Nat
          BY <1>1
        <4>2. Cardinality(s) <= m
          BY <1>8
        <4> HIDE DEF Parts, One, Failing
        <4> QED BY <4>1, <4>2, <1>3, <1>8, <2>3
      <3>2. g[s \ {One(s)}] = h[s \ {One(s)}]
        <4> HIDE DEF Parts, One, Value
        <4> QED BY <3>1
      <3> HIDE DEF g, Parts, One
      <3> QED BY <2>1, <2>3, <3>2
    <2> QED BY <2>2, <2>3
  <1>9. g = [s \in Parts(m) |-> g[s]]
    OBVIOUS
  <1>10. SumsTo(start, g, f, S, m)
    <2> HIDE DEF g
    <2>1. g = [s \in Parts(m) |-> Value(g, s)]
      <3> HIDE DEF Parts, Value
      <3> QED BY <1>8, <1>9
    <2> QED BY <2>1 DEF SumsTo
  <1> QED BY <1>1, <1>10

\* What a sum or a product is computed by.
Sums(start, g, f, S) ==
    g = [s \in SUBSET S |->
            IF s = {} THEN start
            ELSE Join(start, f[CHOOSE x \in s : TRUE], g[s \ {CHOOSE x \in s : TRUE}])]

LEMMA SumsExist ==
  ASSUME NEW start, NEW f, NEW S, IsFiniteSet(S)
  PROVE  \E g : Sums(start, g, f, S)
  <1>1. PICK n \in Nat : n = Cardinality(S)
    BY FS_CardinalityType
  <1>2. PICK g : SumsTo(start, g, f, S, n)
    BY SumsToExist
  <1>3. {t \in SUBSET S : Cardinality(t) <= n} = SUBSET S
    BY <1>1, SizeOfPart
  <1>4. Sums(start, g, f, S)
    BY <1>2, <1>3 DEF SumsTo, Sums
  <1> QED BY <1>4

LEMMA SumIsLast ==
  ASSUME NEW f, NEW S, IsFiniteSet(S)
  PROVE  \E g : Sums(0, g, f, S) /\ SumFunctionOnSet(f, S) = g[S]
  <1> DEFINE it[s \in SUBSET S] ==
        IF s = {} THEN 0 ELSE f[CHOOSE x \in s : TRUE] + it[s \ {CHOOSE x \in s : TRUE}]
  <1>1. PICK g : Sums(0, g, f, S)
    BY SumsExist
  <1>2. g = [s \in SUBSET S |->
              IF s = {} THEN 0 ELSE f[CHOOSE x \in s : TRUE] + g[s \ {CHOOSE x \in s : TRUE}]]
    BY <1>1 DEF Sums, Join
  <1>3. it = [s \in SUBSET S |->
               IF s = {} THEN 0 ELSE f[CHOOSE x \in s : TRUE] + it[s \ {CHOOSE x \in s : TRUE}]]
    BY <1>2, Zenon
  <1>4. SumFunctionOnSet(f, S) = it[S]
    BY Zenon DEF SumFunctionOnSet, FoldFunctionOnSet, MapThenFoldSet
  <1> HIDE DEF it
  <1>5. Sums(0, it, f, S)
    BY <1>3 DEF Sums, Join
  <1> QED BY <1>4, <1>5

Product(f) == FoldFunction(LAMBDA a, b : a * b, 1, f)

LEMMA ProductIsLast ==
  ASSUME NEW f, IsFiniteSet(DOMAIN f)
  PROVE  \E g : Sums(1, g, f, DOMAIN f) /\ Product(f) = g[DOMAIN f]
  <1> DEFINE it[s \in SUBSET DOMAIN f] ==
        IF s = {} THEN 1 ELSE f[CHOOSE x \in s : TRUE] * it[s \ {CHOOSE x \in s : TRUE}]
  <1>1. PICK g : Sums(1, g, f, DOMAIN f)
    BY SumsExist
  <1>2. g = [s \in SUBSET DOMAIN f |->
              IF s = {} THEN 1 ELSE f[CHOOSE x \in s : TRUE] * g[s \ {CHOOSE x \in s : TRUE}]]
    BY <1>1 DEF Sums, Join
  <1>3. it = [s \in SUBSET DOMAIN f |->
               IF s = {} THEN 1 ELSE f[CHOOSE x \in s : TRUE] * it[s \ {CHOOSE x \in s : TRUE}]]
    BY <1>2, Zenon
  <1>4. Product(f) = it[DOMAIN f]
    BY Zenon DEF Product, FoldFunction, FoldFunctionOnSet, MapThenFoldSet
  <1> HIDE DEF it
  <1>5. Sums(1, it, f, DOMAIN f)
    BY <1>3 DEF Sums, Join
  <1> QED BY <1>4, <1>5

LEMMA SumsAgree ==
  ASSUME NEW f, NEW S, IsFiniteSet(S), NEW T \in SUBSET S, NEW g, NEW h,
         Sums(0, g, f, S), Sums(0, h, f, T)
  PROVE  \A s \in SUBSET T : g[s] = h[s]
  <1> DEFINE Failing == {s \in SUBSET T : g[s] # h[s]}
             Sizes == {Cardinality(s) : s \in Failing}
             One(s) == CHOOSE x \in s : TRUE
  <1> SUFFICES ASSUME Failing # {} PROVE FALSE
    OBVIOUS
  <1>1. \A s \in Failing : Cardinality(s) \in Nat
    BY SizeOfPart
  <1>2. PICK s \in Failing : \A t \in Failing : Cardinality(s) <= Cardinality(t)
    <2>1. Sizes # {} /\ Sizes \subseteq Nat
      BY <1>1
    <2>2. PICK m \in Sizes : \A k \in Sizes : m <= k
      <3> HIDE DEF Sizes
      <3> QED BY <2>1, LeastNumber
    <2> HIDE DEF Failing
    <2> QED BY <2>2
  <1>3. s \in SUBSET T /\ s \in SUBSET S /\ g[s] # h[s]
    BY <1>2
  <1>4. /\ g[s] = IF s = {} THEN 0 ELSE f[One(s)] + g[s \ {One(s)}]
        /\ h[s] = IF s = {} THEN 0 ELSE f[One(s)] + h[s \ {One(s)}]
    BY <1>3 DEF Sums, Join
  <1>5. s # {} /\ One(s) \in s
    BY <1>3, <1>4
  <1>6. Cardinality(s \ {One(s)}) = Cardinality(s) - 1 /\ Cardinality(s) \in Nat
    BY <1>3, <1>5, SizeOfPart
  <1> HIDE DEF One
  <1>7. s \ {One(s)} \notin Failing
    <2> HIDE DEF Failing
    <2> QED BY <1>2, <1>6
  <1>8. g[s \ {One(s)}] = h[s \ {One(s)}]
    BY <1>3, <1>7
  <1> QED BY <1>3, <1>4, <1>5, <1>8

\* The sum of nothing, and a sum by the element that it takes first.
LEMMA SumOfNothing ==
  ASSUME NEW f PROVE SumFunctionOnSet(f, {}) = 0
  <1>1. IsFiniteSet({})
    BY FS_EmptySet
  <1>2. PICK g : Sums(0, g, f, {}) /\ SumFunctionOnSet(f, {}) = g[{}]
    BY <1>1, SumIsLast
  <1> QED BY <1>2 DEF Sums, Join

LEMMA SumTakesOne ==
  ASSUME NEW f, NEW S, IsFiniteSet(S), S # {}
  PROVE  \E x \in S : SumFunctionOnSet(f, S) = f[x] + SumFunctionOnSet(f, S \ {x})
  <1> DEFINE c == CHOOSE x \in S : TRUE
  <1>1. c \in S /\ IsFiniteSet(S \ {c})
    BY FS_RemoveElement
  <1>2. PICK g : Sums(0, g, f, S) /\ SumFunctionOnSet(f, S) = g[S]
    BY SumIsLast
  <1>3. PICK h : Sums(0, h, f, S \ {c}) /\ SumFunctionOnSet(f, S \ {c}) = h[S \ {c}]
    BY <1>1, SumIsLast
  <1>4. g[S] = f[c] + g[S \ {c}]
    BY <1>2 DEF Sums, Join
  <1>5. g[S \ {c}] = h[S \ {c}]
    <2> HIDE DEF c
    <2>1. PICK T : T = S \ {c}
      OBVIOUS
    <2>2. T \in SUBSET S /\ T \in SUBSET T
      BY <2>1
    <2>3. Sums(0, g, f, S) /\ Sums(0, h, f, T)
      BY <1>2, <1>3, <2>1
    <2>4. \A s \in SUBSET T : g[s] = h[s]
      BY <2>2, <2>3, SumsAgree
    <2> QED BY <2>1, <2>2, <2>4
  <1> HIDE DEF c
  <1> QED BY <1>1, <1>2, <1>3, <1>4, <1>5

\* A sum is a number, and may take any element first.
LEMMA SumFacts ==
  ASSUME NEW f, NEW S, IsFiniteSet(S), \A x \in S : f[x] \in Int
  PROVE  /\ SumFunctionOnSet(f, S) \in Int
         /\ \A x \in S : SumFunctionOnSet(f, S) = f[x] + SumFunctionOnSet(f, S \ {x})
  <1> DEFINE Holds(T) == /\ SumFunctionOnSet(f, T) \in Int
                         /\ \A x \in T : SumFunctionOnSet(f, T) = f[x] + SumFunctionOnSet(f, T \ {x})
             Failing == {T \in SUBSET S : ~Holds(T)}
             Sizes == {Cardinality(T) : T \in Failing}
  <1> SUFFICES ASSUME Failing # {} PROVE FALSE
    OBVIOUS
  <1>1. \A T \in SUBSET S : Cardinality(T) \in Nat /\ IsFiniteSet(T)
    BY SizeOfPart
  <1>2. PICK T \in Failing : \A U \in Failing : Cardinality(T) <= Cardinality(U)
    <2>1. Sizes # {} /\ Sizes \subseteq Nat
      BY <1>1
    <2>2. PICK m \in Sizes : \A k \in Sizes : m <= k
      <3> HIDE DEF Sizes
      <3> QED BY <2>1, LeastNumber
    <2> HIDE DEF Failing
    <2> QED BY <2>2
  <1>3. T \in SUBSET S /\ ~Holds(T)
    BY <1>2
  <1>4. T # {}
    <2>1. SumFunctionOnSet(f, {}) \in Int
      BY SumOfNothing
    <2>2. Holds({})
      BY <2>1
    <2> HIDE DEF Holds
    <2> QED BY <1>3, <2>2
  <1>5. ASSUME NEW x \in T PROVE Holds(T \ {x})
    <2>1. Cardinality(T \ {x}) = Cardinality(T) - 1 /\ Cardinality(T) \in Nat
      BY <1>3, SizeOfPart
    <2>2. T \ {x} \notin Failing
      <3> HIDE DEF Failing
      <3> QED BY <1>2, <2>1
    <2>3. T \ {x} \in SUBSET S
      BY <1>3
    <2> HIDE DEF Holds
    <2> QED BY <2>2, <2>3
  <1>6. PICK c \in T : SumFunctionOnSet(f, T) = f[c] + SumFunctionOnSet(f, T \ {c})
    BY <1>1, <1>3, <1>4, SumTakesOne
  <1>7. f[c] \in Int /\ SumFunctionOnSet(f, T \ {c}) \in Int
    <2>1. Holds(T \ {c})
      BY <1>5
    <2> QED BY <1>3, <2>1
  <1>8. SumFunctionOnSet(f, T) \in Int
    BY <1>6, <1>7
  <1>9. ASSUME NEW x \in T PROVE SumFunctionOnSet(f, T) = f[x] + SumFunctionOnSet(f, T \ {x})
    <2>1. CASE x = c
      BY <1>6, <2>1
    <2>2. CASE x # c
      <3>1. x \in T \ {c} /\ c \in T \ {x}
        BY <2>2
      <3>2. SumFunctionOnSet(f, T \ {c}) = f[x] + SumFunctionOnSet(f, (T \ {c}) \ {x})
        <4>1. Holds(T \ {c})
          BY <1>5
        <4> QED BY <3>1, <4>1
      <3>3. /\ SumFunctionOnSet(f, T \ {x}) = f[c] + SumFunctionOnSet(f, (T \ {x}) \ {c})
            /\ SumFunctionOnSet(f, T \ {x}) \in Int
        <4>1. Holds(T \ {x})
          BY <1>5
        <4> QED BY <3>1, <4>1
      <3>4. (T \ {c}) \ {x} = (T \ {x}) \ {c}
        OBVIOUS
      <3>5. PICK u : u = SumFunctionOnSet(f, (T \ {x}) \ {c})
        OBVIOUS
      <3>6. u \in Int
        <4> DEFINE T2 == T \ {x}
        <4>1. T2 \in SUBSET S /\ c \in T2 /\ Holds(T2)
          BY <1>3, <1>5, <3>1
        <4>2. Cardinality(T2 \ {c}) = Cardinality(T2) - 1 /\ Cardinality(T2) \in Nat
          <5> HIDE DEF T2
          <5> QED BY <4>1, SizeOfPart
        <4>3. Cardinality(T2) = Cardinality(T) - 1 /\ Cardinality(T) \in Nat
          BY <1>3, SizeOfPart
        <4>4. T2 \ {c} \notin Failing
          <5> HIDE DEF Failing, T2
          <5> QED BY <1>2, <4>2, <4>3
        <4>5. T2 \ {c} \in SUBSET S
          BY <4>1
        <4>6. Holds(T2 \ {c})
          <5> HIDE DEF Holds, T2
          <5> QED BY <4>4, <4>5
        <4> QED BY <3>5, <4>6
      <3>7. PICK r, a, b : r = SumFunctionOnSet(f, T) /\ a = SumFunctionOnSet(f, T \ {c})
                            /\ b = SumFunctionOnSet(f, T \ {x})
        OBVIOUS
      <3>8. r = f[c] + a /\ a = f[x] + u /\ b = f[c] + u
        BY <1>6, <3>2, <3>3, <3>4, <3>5, <3>7
      <3>9. f[x] \in Int
        BY <1>3
      <3>10. r = f[x] + b
        BY <1>7, <3>6, <3>8, <3>9
      <3> QED BY <3>7, <3>10
    <2> QED BY <2>1, <2>2
  <1> QED BY <1>3, <1>8, <1>9

\* Sums of numbers that are not negative, and of parts.
LEMMA SumOfNaturals ==
  ASSUME NEW f, NEW S, IsFiniteSet(S), \A x \in S : f[x] \in Nat
  PROVE  SumFunctionOnSet(f, S) \in Nat
  <1> DEFINE Failing == {T \in SUBSET S : SumFunctionOnSet(f, T) \notin Nat}
             Sizes == {Cardinality(T) : T \in Failing}
  <1> SUFFICES ASSUME Failing # {} PROVE FALSE
    OBVIOUS
  <1>1. \A T \in SUBSET S : Cardinality(T) \in Nat /\ IsFiniteSet(T)
    BY SizeOfPart
  <1>2. PICK T \in Failing : \A U \in Failing : Cardinality(T) <= Cardinality(U)
    <2>1. Sizes # {} /\ Sizes \subseteq Nat
      BY <1>1
    <2>2. PICK m \in Sizes : \A k \in Sizes : m <= k
      <3> HIDE DEF Sizes
      <3> QED BY <2>1, LeastNumber
    <2> HIDE DEF Failing
    <2> QED BY <2>2
  <1>3. T \in SUBSET S /\ SumFunctionOnSet(f, T) \notin Nat
    BY <1>2
  <1>4. T # {}
    BY <1>3, SumOfNothing
  <1>5. PICK c \in T : SumFunctionOnSet(f, T) = f[c] + SumFunctionOnSet(f, T \ {c})
    BY <1>1, <1>3, <1>4, SumTakesOne
  <1>6. Cardinality(T \ {c}) = Cardinality(T) - 1 /\ Cardinality(T) \in Nat
    BY <1>3, SizeOfPart
  <1>7. T \ {c} \notin Failing /\ T \ {c} \in SUBSET S
    <2>1. T \ {c} \notin Failing
      <3> HIDE DEF Failing
      <3> QED BY <1>2, <1>6
    <2> QED BY <1>3, <2>1
  <1>8. SumFunctionOnSet(f, T \ {c}) \in Nat /\ f[c] \in Nat
    BY <1>3, <1>7
  <1> QED BY <1>3, <1>5, <1>8
\* A product of positive numbers is positive, and each of them divides it.
LEMMA ProductFacts ==
  ASSUME NEW f, IsFiniteSet(DOMAIN f), \A x \in DOMAIN f : f[x] \in Nat \ {0}
  PROVE  /\ Product(f) \in Nat \ {0}
         /\ \A x \in DOMAIN f : \E q \in Nat \ {0} : Product(f) = f[x] * q
  <1>1. PICK g : Sums(1, g, f, DOMAIN f) /\ Product(f) = g[DOMAIN f]
    BY ProductIsLast
  <1> DEFINE S == DOMAIN f
             One(s) == CHOOSE x \in s : TRUE
             Holds(T) == /\ g[T] \in Nat \ {0}
                         /\ \A x \in T : \E q \in Nat \ {0} : g[T] = f[x] * q
             Failing == {T \in SUBSET S : ~Holds(T)}
             Sizes == {Cardinality(T) : T \in Failing}
  <1>2. ASSUME Failing # {} PROVE FALSE
    <2>1. \A T \in SUBSET S : Cardinality(T) \in Nat /\ IsFiniteSet(T)
      BY SizeOfPart
    <2>2. PICK T \in Failing : \A U \in Failing : Cardinality(T) <= Cardinality(U)
      <3>1. Sizes # {} /\ Sizes \subseteq Nat
        BY <1>2, <2>1
      <3>2. PICK m \in Sizes : \A k \in Sizes : m <= k
        <4> HIDE DEF Sizes
        <4> QED BY <3>1, LeastNumber
      <3> HIDE DEF Failing
      <3> QED BY <3>2
    <2>3. T \in SUBSET S /\ ~Holds(T)
      BY <2>2
    <2>4. g[T] = IF T = {} THEN 1 ELSE f[One(T)] * g[T \ {One(T)}]
      BY <1>1, <2>3 DEF Sums, Join
    <2>5. T # {} /\ One(T) \in T
      BY <2>3, <2>4
    <2> DEFINE U == T \ {One(T)}
    <2>6. U \in SUBSET S /\ Holds(U)
      <3>1. Cardinality(U) = Cardinality(T) - 1 /\ Cardinality(T) \in Nat
        BY <2>3, <2>5, SizeOfPart
      <3>2. U \notin Failing
        <4> HIDE DEF Failing, U
        <4> QED BY <2>2, <3>1
      <3>3. U \in SUBSET S
        BY <2>3
      <3> HIDE DEF Holds, U
      <3> QED BY <3>2, <3>3
    <2>7. PICK a, b : a = f[One(T)] /\ b = g[U]
      OBVIOUS
    <2>8. a \in Nat \ {0} /\ b \in Nat \ {0} /\ g[T] = a * b
      BY <2>3, <2>4, <2>5, <2>6, <2>7
    <2>9. g[T] \in Nat \ {0}
      BY <2>8
    <2>10. ASSUME NEW x \in T PROVE \E q \in Nat \ {0} : g[T] = f[x] * q
      <3>1. CASE x = One(T)
        BY <2>7, <2>8, <3>1
      <3>2. CASE x # One(T)
        <4>1. x \in U /\ f[x] \in Nat \ {0}
          BY <2>3, <3>2
        <4>2. PICK q \in Nat \ {0} : b = f[x] * q
          BY <2>6, <2>7, <4>1
        <4>3. PICK c : c = f[x]
          OBVIOUS
        <4>4. a * (c * q) = c * (a * q) /\ a * q \in Nat \ {0}
          BY <2>8, <4>1, <4>3
        <4> QED BY <2>8, <4>2, <4>3, <4>4
      <3> QED BY <3>1, <3>2
    <2> QED BY <2>3, <2>9, <2>10
  <1>3. S \in SUBSET S /\ S \notin Failing
    BY <1>2
  <1>4. Holds(S)
    <2> HIDE DEF Holds
    <2> QED BY <1>3
  <1> QED BY <1>1, <1>4

\* Sums of two functions, of multiples, and of parts.
LEMMA SumOfBoth ==
  ASSUME NEW f, NEW g, NEW h, NEW S, IsFiniteSet(S),
         \A x \in S : f[x] \in Int /\ g[x] \in Int /\ h[x] = f[x] + g[x]
  PROVE  SumFunctionOnSet(h, S) = SumFunctionOnSet(f, S) + SumFunctionOnSet(g, S)
  <1> DEFINE Holds(T) == SumFunctionOnSet(h, T) = SumFunctionOnSet(f, T) + SumFunctionOnSet(g, T)
             Failing == {T \in SUBSET S : ~Holds(T)}
             Sizes == {Cardinality(T) : T \in Failing}
  <1> SUFFICES ASSUME Failing # {} PROVE FALSE
    OBVIOUS
  <1>1. \A T \in SUBSET S : Cardinality(T) \in Nat /\ IsFiniteSet(T)
    BY SizeOfPart
  <1>2. PICK T \in Failing : \A U \in Failing : Cardinality(T) <= Cardinality(U)
    <2>1. Sizes # {} /\ Sizes \subseteq Nat
      BY <1>1
    <2>2. PICK m \in Sizes : \A k \in Sizes : m <= k
      <3> HIDE DEF Sizes
      <3> QED BY <2>1, LeastNumber
    <2> HIDE DEF Failing
    <2> QED BY <2>2
  <1>3. T \in SUBSET S /\ ~Holds(T)
    BY <1>2
  <1>4. PICK c : c \in T
    <2>1. Holds({})
      BY SumOfNothing
    <2> HIDE DEF Holds
    <2> QED BY <1>3, <2>1
  <1> DEFINE U == T \ {c}
  <1>5. U \in SUBSET S /\ Holds(U) /\ c \in S
    <2>1. Cardinality(U) = Cardinality(T) - 1 /\ Cardinality(T) \in Nat
      BY <1>3, <1>4, SizeOfPart
    <2>2. U \notin Failing
      <3> HIDE DEF Failing, U
      <3> QED BY <1>2, <2>1
    <2>3. U \in SUBSET S /\ c \in S
      BY <1>3, <1>4
    <2> HIDE DEF Holds, U
    <2> QED BY <2>2, <2>3
  <1>6. SumFunctionOnSet(f, T) = f[c] + SumFunctionOnSet(f, U) /\ SumFunctionOnSet(f, U) \in Int
    BY <1>1, <1>3, <1>4, <1>5, SumFacts
  <1>7. SumFunctionOnSet(g, T) = g[c] + SumFunctionOnSet(g, U) /\ SumFunctionOnSet(g, U) \in Int
    BY <1>1, <1>3, <1>4, <1>5, SumFacts
  <1>8. SumFunctionOnSet(h, T) = h[c] + SumFunctionOnSet(h, U)
    <2>1. \A x \in T : h[x] \in Int
      BY <1>3
    <2> QED BY <1>1, <1>3, <1>4, <2>1, SumFacts
  <1> HIDE DEF U
  <1> QED BY <1>3, <1>5, <1>6, <1>7, <1>8

LEMMA SumOfMultiples ==
  ASSUME NEW f, NEW h, NEW S, IsFiniteSet(S), NEW a \in Int,
         \A x \in S : f[x] \in Int /\ h[x] = a * f[x]
  PROVE  SumFunctionOnSet(h, S) = a * SumFunctionOnSet(f, S)
  <1> DEFINE Holds(T) == SumFunctionOnSet(h, T) = a * SumFunctionOnSet(f, T)
             Failing == {T \in SUBSET S : ~Holds(T)}
             Sizes == {Cardinality(T) : T \in Failing}
  <1> SUFFICES ASSUME Failing # {} PROVE FALSE
    OBVIOUS
  <1>1. \A T \in SUBSET S : Cardinality(T) \in Nat /\ IsFiniteSet(T)
    BY SizeOfPart
  <1>2. PICK T \in Failing : \A U \in Failing : Cardinality(T) <= Cardinality(U)
    <2>1. Sizes # {} /\ Sizes \subseteq Nat
      BY <1>1
    <2>2. PICK m \in Sizes : \A k \in Sizes : m <= k
      <3> HIDE DEF Sizes
      <3> QED BY <2>1, LeastNumber
    <2> HIDE DEF Failing
    <2> QED BY <2>2
  <1>3. T \in SUBSET S /\ ~Holds(T)
    BY <1>2
  <1>4. PICK c : c \in T
    <2>1. a * 0 = 0
      OBVIOUS
    <2>2. Holds({})
      BY <2>1, SumOfNothing
    <2> HIDE DEF Holds
    <2> QED BY <1>3, <2>2
  <1> DEFINE U == T \ {c}
  <1>5. U \in SUBSET S /\ Holds(U) /\ c \in S
    <2>1. Cardinality(U) = Cardinality(T) - 1 /\ Cardinality(T) \in Nat
      BY <1>3, <1>4, SizeOfPart
    <2>2. U \notin Failing
      <3> HIDE DEF Failing, U
      <3> QED BY <1>2, <2>1
    <2>3. U \in SUBSET S /\ c \in S
      BY <1>3, <1>4
    <2> HIDE DEF Holds, U
    <2> QED BY <2>2, <2>3
  <1>6. SumFunctionOnSet(f, T) = f[c] + SumFunctionOnSet(f, U) /\ SumFunctionOnSet(f, U) \in Int
    <2>1. IsFiniteSet(T) /\ IsFiniteSet(U) /\ \A x \in T : f[x] \in Int
      BY <1>1, <1>3, <1>5
    <2> QED BY <1>4, <2>1, SumFacts
  <1>7. SumFunctionOnSet(h, T) = h[c] + SumFunctionOnSet(h, U)
    <2>1. \A x \in T : h[x] \in Int
      BY <1>3
    <2> QED BY <1>1, <1>3, <1>4, <2>1, SumFacts
  <1> HIDE DEF U
  <1>8. PICK b, u : b = f[c] /\ u = SumFunctionOnSet(f, U)
    OBVIOUS
  <1>9. b \in Int /\ u \in Int /\ a * (b + u) = a * b + a * u
    BY <1>5, <1>6, <1>8
  <1> QED BY <1>3, <1>5, <1>6, <1>7, <1>8, <1>9

\* A sum of more, or of greater numbers, is not less; a sum leaves out what is zero.
LEMMA SumGrows ==
  ASSUME NEW f, NEW h, NEW S, IsFiniteSet(S), \A x \in S : f[x] \in Int /\ h[x] \in Int /\ f[x] <= h[x]
  PROVE  SumFunctionOnSet(f, S) <= SumFunctionOnSet(h, S)
  <1> DEFINE d == [x \in S |-> h[x] - f[x]]
  <1>1. \A x \in S : d[x] \in Nat /\ h[x] = f[x] + d[x] /\ f[x] \in Int /\ d[x] \in Int
    OBVIOUS
  <1> HIDE DEF d
  <1>2. SumFunctionOnSet(h, S) = SumFunctionOnSet(f, S) + SumFunctionOnSet(d, S)
    BY <1>1, SumOfBoth
  <1>3. SumFunctionOnSet(d, S) \in Nat /\ SumFunctionOnSet(f, S) \in Int
    BY <1>1, SumOfNaturals, SumFacts
  <1> QED BY <1>2, <1>3

LEMMA SumOfParts ==
  ASSUME NEW f, NEW S, IsFiniteSet(S), \A x \in S : f[x] \in Int, NEW T \in SUBSET S
  PROVE  SumFunctionOnSet(f, S) = SumFunctionOnSet(f, T) + SumFunctionOnSet(f, S \ T)
  <1> DEFINE Holds(V) == SumFunctionOnSet(f, V \cup T) = SumFunctionOnSet(f, T) + SumFunctionOnSet(f, V)
             Failing == {V \in SUBSET (S \ T) : ~Holds(V)}
             Sizes == {Cardinality(V) : V \in Failing}
  <1>0. SumFunctionOnSet(f, T) \in Int
    <2>1. IsFiniteSet(T) /\ \A x \in T : f[x] \in Int
      BY FS_Subset
    <2> QED BY <2>1, SumFacts
  <1>1. ASSUME Failing # {} PROVE FALSE
    <2>1. \A V \in SUBSET S : Cardinality(V) \in Nat /\ IsFiniteSet(V)
      BY SizeOfPart
    <2>2. PICK V \in Failing : \A U \in Failing : Cardinality(V) <= Cardinality(U)
      <3>1. Sizes # {} /\ Sizes \subseteq Nat
        BY <1>1, <2>1
      <3>2. PICK m \in Sizes : \A k \in Sizes : m <= k
        <4> HIDE DEF Sizes
        <4> QED BY <3>1, LeastNumber
      <3> HIDE DEF Failing
      <3> QED BY <3>2
    <2>3. V \in SUBSET (S \ T) /\ ~Holds(V)
      BY <2>2
    <2>4. PICK c : c \in V
      <3>1. {} \cup T = T
        OBVIOUS
      <3>2. Holds({})
        BY <1>0, <3>1, SumOfNothing
      <3> HIDE DEF Holds
      <3> QED BY <2>3, <3>2
    <2> DEFINE U == V \ {c}
    <2>5. U \in SUBSET (S \ T) /\ Holds(U) /\ c \in S /\ c \notin T
      <3>1. Cardinality(U) = Cardinality(V) - 1 /\ Cardinality(V) \in Nat
        <4>1. V \in SUBSET S
          BY <2>3
        <4> QED BY <4>1, <2>4, SizeOfPart
      <3>2. U \notin Failing
        <4> HIDE DEF Failing, U
        <4> QED BY <2>2, <3>1
      <3>3. U \in SUBSET (S \ T) /\ c \in S /\ c \notin T
        BY <2>3, <2>4
      <3> HIDE DEF Holds, U
      <3> QED BY <3>2, <3>3
    <2>6. SumFunctionOnSet(f, V) = f[c] + SumFunctionOnSet(f, U) /\ SumFunctionOnSet(f, U) \in Int
      <3>1. IsFiniteSet(V) /\ IsFiniteSet(U) /\ \A x \in V : f[x] \in Int
        BY <2>1, <2>3, <2>5
      <3> QED BY <2>4, <3>1, SumFacts
    <2>7. SumFunctionOnSet(f, V \cup T) = f[c] + SumFunctionOnSet(f, U \cup T)
      <3>1. V \cup T \in SUBSET S
        BY <2>3
      <3>2. IsFiniteSet(V \cup T) /\ c \in V \cup T /\ \A x \in V \cup T : f[x] \in Int
        BY <2>1, <2>4, <3>1
      <3>3. (V \cup T) \ {c} = U \cup T
        BY <2>5
      <3> QED BY <3>2, <3>3, SumFacts
    <2>8. f[c] \in Int
      BY <2>5
    <2> HIDE DEF U
    <2> QED BY <1>0, <2>3, <2>5, <2>6, <2>7, <2>8
  <1>2. S \ T \in SUBSET (S \ T) /\ (S \ T) \cup T = S
    OBVIOUS
  <1>3. Holds(S \ T)
    <2> HIDE DEF Holds
    <2> QED BY <1>1, <1>2
  <1> QED BY <1>2, <1>3

LEMMA SumOfPart ==
  ASSUME NEW f, NEW S, IsFiniteSet(S), \A x \in S : f[x] \in Nat, NEW T \in SUBSET S
  PROVE  /\ SumFunctionOnSet(f, T) <= SumFunctionOnSet(f, S)
         /\ (\A x \in S \ T : f[x] = 0) => SumFunctionOnSet(f, T) = SumFunctionOnSet(f, S)
         /\ \A x \in S : f[x] <= SumFunctionOnSet(f, S)
  <1>1. IsFiniteSet(T) /\ IsFiniteSet(S \ T)
    BY FS_Subset
  <1>2. SumFunctionOnSet(f, T) \in Nat /\ SumFunctionOnSet(f, S \ T) \in Nat
    BY <1>1, SumOfNaturals
  <1>3. SumFunctionOnSet(f, S) = SumFunctionOnSet(f, T) + SumFunctionOnSet(f, S \ T)
    BY SumOfParts
  <1>4. ASSUME \A x \in S \ T : f[x] = 0 PROVE SumFunctionOnSet(f, S \ T) = 0
    <2> DEFINE z == [x \in S |-> 0]
    <2>1. \A x \in S \ T : z[x] \in Int /\ f[x] = 0 * z[x]
      BY <1>4
    <2> HIDE DEF z
    <2>2. SumFunctionOnSet(f, S \ T) = 0 * SumFunctionOnSet(z, S \ T)
      BY <1>1, <2>1, SumOfMultiples
    <2>3. SumFunctionOnSet(z, S \ T) \in Int
      BY <1>1, <2>1, SumFacts
    <2> QED BY <2>2, <2>3
  <1>5. ASSUME NEW x \in S PROVE f[x] <= SumFunctionOnSet(f, S)
    <2>1. IsFiniteSet(S \ {x}) /\ \A y \in S \ {x} : f[y] \in Nat
      BY FS_Subset
    <2>2. SumFunctionOnSet(f, S \ {x}) \in Nat
      BY <2>1, SumOfNaturals
    <2>3. SumFunctionOnSet(f, S) = f[x] + SumFunctionOnSet(f, S \ {x})
      BY SumFacts
    <2> QED BY <2>2, <2>3
  <1> QED BY <1>2, <1>3, <1>4, <1>5

LEMMA SumOfSame ==
  ASSUME NEW f, NEW S, IsFiniteSet(S), NEW a \in Int, \A x \in S : f[x] = a
  PROVE  SumFunctionOnSet(f, S) = Cardinality(S) * a
  <1> DEFINE Holds(T) == SumFunctionOnSet(f, T) = Cardinality(T) * a
             Failing == {T \in SUBSET S : ~Holds(T)}
             Sizes == {Cardinality(T) : T \in Failing}
  <1> SUFFICES ASSUME Failing # {} PROVE FALSE
    OBVIOUS
  <1>1. \A T \in SUBSET S : Cardinality(T) \in Nat /\ IsFiniteSet(T)
    BY SizeOfPart
  <1>2. PICK T \in Failing : \A U \in Failing : Cardinality(T) <= Cardinality(U)
    <2>1. Sizes # {} /\ Sizes \subseteq Nat
      BY <1>1
    <2>2. PICK m \in Sizes : \A k \in Sizes : m <= k
      <3> HIDE DEF Sizes
      <3> QED BY <2>1, LeastNumber
    <2> HIDE DEF Failing
    <2> QED BY <2>2
  <1>3. T \in SUBSET S /\ ~Holds(T)
    BY <1>2
  <1>4. PICK c : c \in T
    <2>1. 0 * a = 0 /\ Cardinality({}) = 0
      BY FS_EmptySet
    <2>2. Holds({})
      BY <2>1, SumOfNothing
    <2> HIDE DEF Holds
    <2> QED BY <1>3, <2>2
  <1> DEFINE U == T \ {c}
  <1>5. Cardinality(U) = Cardinality(T) - 1 /\ Cardinality(T) \in Nat /\ Cardinality(U) \in Nat
    <2>1. Cardinality(U) = Cardinality(T) - 1 /\ Cardinality(T) \in Nat /\ U \in SUBSET S
      BY <1>3, <1>4, SizeOfPart
    <2> QED BY <1>1, <2>1
  <1>6. U \in SUBSET S /\ Holds(U) /\ c \in S
    <2>2. U \notin Failing
      <3> HIDE DEF Failing, U
      <3> QED BY <1>2, <1>5
    <2>3. U \in SUBSET S /\ c \in S
      BY <1>3, <1>4
    <2> HIDE DEF Holds, U
    <2> QED BY <2>2, <2>3
  <1>7. SumFunctionOnSet(f, T) = f[c] + SumFunctionOnSet(f, U)
    <2>1. IsFiniteSet(T) /\ \A x \in T : f[x] \in Int
      BY <1>1, <1>3
    <2> QED BY <1>4, <2>1, SumFacts
  <1> HIDE DEF U
  <1>8. PICK n \in Nat, k \in Nat : n = Cardinality(T) /\ k = Cardinality(U) /\ n = k + 1
    BY <1>5
  <1>9. n * a = a + k * a
    BY <1>8
  <1> QED BY <1>3, <1>6, <1>7, <1>8, <1>9

LEMMA SumOfZeros ==
  ASSUME NEW f, NEW S, IsFiniteSet(S), \A x \in S : f[x] = 0
  PROVE  SumFunctionOnSet(f, S) = 0
  <1>1. PICK n \in Nat : n = Cardinality(S)
    BY FS_CardinalityType
  <1>2. SumFunctionOnSet(f, S) = Cardinality(S) * 0
    BY SumOfSame
  <1> QED BY <1>1, <1>2

-----------------------------------------------------------------------------
(* The mean of rates <<part, whole>>, by their common denominator.         *)

LEMMA DivExact ==
  ASSUME NEW t \in Nat \ {0}, NEW q \in Nat, NEW r \in Nat
  PROVE  (r * (t * q)) \div t = r * q
  <1>1. PICK x \in Nat : x = r * q
    OBVIOUS
  <1>2. r * (t * q) = t * x
    BY <1>1
  <1>3. PICK y : y = (t * x) \div t
    OBVIOUS
  <1>4. y \in Int /\ t * y <= t * x /\ t * x < t * y + t
    BY <1>3, SMT
  <1>5. t * (y - x) <= 0 /\ t * (x - y) < t
    BY <1>4
  <1>6. ASSUME NEW a \in Int, a >= 1 PROVE t * a >= t
    BY <1>6
  <1>7. ~ (x - y >= 1) /\ ~ (y - x >= 1)
    BY <1>4, <1>5, <1>6
  <1> QED BY <1>1, <1>2, <1>3, <1>4, <1>7

Whole(m) == Product([c \in DOMAIN m |-> m[c][2]])
Scaled(m) == [c \in DOMAIN m |-> (m[c][1] * Whole(m)) \div m[c][2]]
AreRates(m) ==
    /\ IsFiniteSet(DOMAIN m)
    /\ \A c \in DOMAIN m : m[c][1] \in Nat /\ m[c][2] \in Nat \ {0}
HalfAtLeast(m) ==
    2 * SumFunctionOnSet(Scaled(m), DOMAIN m) >= Cardinality(DOMAIN m) * Whole(m)

\* How much each rate is above a half, by that denominator.
Excess(m, q) == [c \in DOMAIN m |-> (2 * m[c][1] - m[c][2]) * q[c]]

LEMMA ExcessFacts ==
  ASSUME NEW m, AreRates(m)
  PROVE  \E W \in Nat \ {0}, q \in [DOMAIN m -> Nat \ {0}] :
            /\ \A c \in DOMAIN m : W = m[c][2] * q[c]
            /\ SumFunctionOnSet(Excess(m, q), DOMAIN m) \in Int
            /\ HalfAtLeast(m) <=> SumFunctionOnSet(Excess(m, q), DOMAIN m) >= 0
  <1> DEFINE D == DOMAIN m
             t == [c \in D |-> m[c][2]]
             W == Product(t)
  <1>1. IsFiniteSet(D) /\ DOMAIN t = D /\ \A c \in D : t[c] \in Nat \ {0} /\ t[c] = m[c][2] /\ m[c][1] \in Nat
    BY DEF AreRates
  <1>2. W \in Nat \ {0} /\ \A c \in D : \E p \in Nat \ {0} : W = t[c] * p
    <2> HIDE DEF t, D
    <2> QED BY <1>1, ProductFacts
  <1>3. Whole(m) = W
    BY DEF Whole
  <1> HIDE DEF W, t, D
  <1> DEFINE q == [c \in D |-> CHOOSE p \in Nat \ {0} : W = t[c] * p]
  <1>4. \A c \in D : q[c] \in Nat \ {0} /\ W = t[c] * q[c]
    BY <1>2
  <1>5. q \in [D -> Nat \ {0}]
    BY <1>4
  <1> HIDE DEF q
  <1>6. \A c \in D : Scaled(m)[c] = m[c][1] * q[c]
    <2> SUFFICES ASSUME NEW c \in D PROVE Scaled(m)[c] = m[c][1] * q[c]
      OBVIOUS
    <2>1. Scaled(m)[c] = (m[c][1] * W) \div m[c][2]
      BY <1>3 DEF Scaled, D
    <2>2. PICK r \in Nat, k \in Nat \ {0}, p \in Nat \ {0} : r = m[c][1] /\ k = m[c][2] /\ p = q[c]
      BY <1>1, <1>4
    <2>3. W = k * p
      BY <1>1, <1>4, <2>2
    <2>4. (r * (k * p)) \div k = r * p
      BY DivExact
    <2> QED BY <2>1, <2>2, <2>3, <2>4
  <1> DEFINE both == [c \in D |-> 2 * Scaled(m)[c]]
             minus == [c \in D |-> 0 - W]
  <1>7. \A c \in D : Scaled(m)[c] \in Nat /\ q[c] \in Nat /\ m[c][1] \in Nat /\ m[c][2] \in Nat
    BY <1>1, <1>4, <1>6
  <1>8. SumFunctionOnSet(Scaled(m), D) \in Nat
    BY <1>1, <1>7, SumOfNaturals
  <1>9. SumFunctionOnSet(both, D) = 2 * SumFunctionOnSet(Scaled(m), D)
    <2>1. \A c \in D : Scaled(m)[c] \in Int /\ both[c] = 2 * Scaled(m)[c]
      BY <1>7
    <2> HIDE DEF both
    <2> QED BY <1>1, <2>1, SumOfMultiples
  <1>10. SumFunctionOnSet(minus, D) = Cardinality(D) * (0 - W) /\ 0 - W \in Int
    <2>1. 0 - W \in Int /\ \A c \in D : minus[c] = 0 - W
      BY <1>2
    <2> HIDE DEF minus
    <2> QED BY <1>1, <2>1, SumOfSame
  <1>11. \A c \in D : both[c] \in Int /\ minus[c] \in Int /\ Excess(m, q)[c] = both[c] + minus[c]
    <2> SUFFICES ASSUME NEW c \in D
                 PROVE  both[c] \in Int /\ minus[c] \in Int /\ Excess(m, q)[c] = both[c] + minus[c]
      OBVIOUS
    <2>1. PICK r \in Nat, k \in Nat, p \in Nat : r = m[c][1] /\ k = m[c][2] /\ p = q[c]
      BY <1>7
    <2>2. W = k * p /\ Scaled(m)[c] = r * p
      BY <1>1, <1>4, <1>6, <2>1
    <2>3. Excess(m, q)[c] = (2 * r - k) * p
      BY <2>1 DEF Excess, D
    <2>4. (2 * r - k) * p = 2 * (r * p) + (0 - k * p)
      OBVIOUS
    <2> QED BY <1>2, <1>7, <2>2, <2>3, <2>4
  <1>12. /\ SumFunctionOnSet(Excess(m, q), D) = SumFunctionOnSet(both, D) + SumFunctionOnSet(minus, D)
         /\ SumFunctionOnSet(Excess(m, q), D) \in Int
    <2>1. \A c \in D : Excess(m, q)[c] \in Int
      BY <1>11
    <2> HIDE DEF both, minus
    <2> QED BY <1>1, <1>11, <2>1, SumOfBoth, SumFacts
  <1>13. PICK n \in Nat, s \in Nat : n = Cardinality(D) /\ s = SumFunctionOnSet(Scaled(m), D)
    BY <1>1, <1>8, FS_CardinalityType
  <1>14. HalfAtLeast(m) <=> 2 * s >= n * W
    BY <1>3, <1>13 DEF HalfAtLeast, D
  <1>15. SumFunctionOnSet(Excess(m, q), D) = 2 * s + n * (0 - W)
    BY <1>9, <1>10, <1>12, <1>13
  <1>16. n * (0 - W) = 0 - n * W /\ n * W \in Int
    BY <1>2
  <1>17. HalfAtLeast(m) <=> SumFunctionOnSet(Excess(m, q), D) >= 0
    BY <1>13, <1>14, <1>15, <1>16
  <1> QED BY <1>1, <1>2, <1>4, <1>5, <1>12, <1>17 DEF D

\* With denominators W and W2, a rate that has not become less.
LEMMA ExcessGrows ==
  ASSUME NEW r \in Nat, NEW t \in Nat \ {0}, NEW q \in Nat \ {0},
         NEW r2 \in Nat, NEW t2 \in Nat \ {0}, NEW q2 \in Nat \ {0}, r * t2 <= r2 * t
  PROVE  (t2 * q2) * ((2 * r - t) * q) <= (t * q) * ((2 * r2 - t2) * q2)
  <1>1. PICK a \in Nat : a = q * q2
    OBVIOUS
  <1>2. PICK x \in Int, y \in Int : x = (2 * r - t) * t2 /\ y = (2 * r2 - t2) * t
    OBVIOUS
  <1>3. x = 2 * (r * t2) - t * t2 /\ y = 2 * (r2 * t) - t * t2
    BY <1>2
  <1>4. x <= y
    BY <1>3
  <1>5. y - x \in Nat /\ a * (y - x) \in Nat /\ a * (y - x) = a * y - a * x
    BY <1>4
  <1>6. a * x <= a * y
    BY <1>1, <1>2, <1>5
  <1>7. (t2 * q2) * ((2 * r - t) * q) = a * x /\ (t * q) * ((2 * r2 - t2) * q2) = a * y
    BY <1>1, <1>2
  <1> QED BY <1>6, <1>7

\* The mean stays at a half when no rate becomes less, those that are new are at a half
\* at least, and those that are gone were at a half at most.
LEMMA MeanFollows ==
  ASSUME NEW m, NEW m2, AreRates(m), AreRates(m2),
         \A c \in DOMAIN m \cap DOMAIN m2 : m[c][1] * m2[c][2] <= m2[c][1] * m[c][2],
         \A c \in DOMAIN m2 \ DOMAIN m : m2[c][2] <= 2 * m2[c][1],
         \A c \in DOMAIN m \ DOMAIN m2 : 2 * m[c][1] <= m[c][2],
         HalfAtLeast(m)
  PROVE  HalfAtLeast(m2)
  <1> DEFINE D == DOMAIN m
             E == DOMAIN m2
             C == D \cap E
  <1>1. IsFiniteSet(D) /\ IsFiniteSet(E) /\ IsFiniteSet(C) /\ IsFiniteSet(D \ C) /\ IsFiniteSet(E \ C)
        /\ C \in SUBSET D /\ C \in SUBSET E
    <2>1. IsFiniteSet(D) /\ IsFiniteSet(E)
      BY DEF AreRates
    <2> QED BY <2>1, FS_Subset
  <1>2. PICK W \in Nat \ {0}, q \in [D -> Nat \ {0}] :
            /\ \A c \in D : W = m[c][2] * q[c]
            /\ SumFunctionOnSet(Excess(m, q), D) \in Int
            /\ HalfAtLeast(m) <=> SumFunctionOnSet(Excess(m, q), D) >= 0
    BY ExcessFacts
  <1>3. PICK W2 \in Nat \ {0}, q2 \in [E -> Nat \ {0}] :
            /\ \A c \in E : W2 = m2[c][2] * q2[c]
            /\ SumFunctionOnSet(Excess(m2, q2), E) \in Int
            /\ HalfAtLeast(m2) <=> SumFunctionOnSet(Excess(m2, q2), E) >= 0
    BY ExcessFacts
  <1> DEFINE x == Excess(m, q)
             x2 == Excess(m2, q2)
             f == [c \in D |-> W2 * x[c]]
             f2 == [c \in E |-> W * x2[c]]
  <1>4. \A c \in D : m[c][1] \in Nat /\ m[c][2] \in Nat \ {0} /\ q[c] \in Nat \ {0}
                     /\ x[c] = (2 * m[c][1] - m[c][2]) * q[c] /\ x[c] \in Int
    BY DEF AreRates, Excess
  <1>5. \A c \in E : m2[c][1] \in Nat /\ m2[c][2] \in Nat \ {0} /\ q2[c] \in Nat \ {0}
                     /\ x2[c] = (2 * m2[c][1] - m2[c][2]) * q2[c] /\ x2[c] \in Int
    BY DEF AreRates, Excess
  <1> HIDE DEF x, x2
  <1>6. \A c \in D : f[c] = W2 * x[c] /\ f[c] \in Int
    BY <1>3, <1>4
  <1>7. \A c \in E : f2[c] = W * x2[c] /\ f2[c] \in Int
    BY <1>2, <1>5
  <1> HIDE DEF f, f2
  <1>8. ASSUME NEW c \in C PROVE f[c] <= f2[c]
    <2>1. PICK r \in Nat, t \in Nat \ {0}, p \in Nat \ {0}, r2 \in Nat, t2 \in Nat \ {0}, p2 \in Nat \ {0} :
             /\ r = m[c][1] /\ t = m[c][2] /\ p = q[c]
             /\ r2 = m2[c][1] /\ t2 = m2[c][2] /\ p2 = q2[c]
      BY <1>4, <1>5
    <2>2. W = t * p /\ W2 = t2 * p2
      BY <1>2, <1>3, <2>1
    <2>3. f[c] = (t2 * p2) * ((2 * r - t) * p) /\ f2[c] = (t * p) * ((2 * r2 - t2) * p2)
      BY <1>4, <1>5, <1>6, <1>7, <2>1, <2>2
    <2>4. r * t2 <= r2 * t
      BY <2>1
    <2>5. (t2 * p2) * ((2 * r - t) * p) <= (t * p) * ((2 * r2 - t2) * p2)
      BY <2>4, ExcessGrows
    <2> QED BY <2>3, <2>5
  <1>9. ASSUME NEW c \in E \ C PROVE f2[c] \in Nat
    <2>1. PICK y \in Int, p \in Nat : y = 2 * m2[c][1] - m2[c][2] /\ p = q2[c] /\ y >= 0
      BY <1>5
    <2>2. y \in Nat /\ y * p \in Nat
      BY <2>1
    <2>3. x2[c] = y * p
      BY <1>5, <2>1
    <2> QED BY <1>2, <1>7, <2>2, <2>3
  <1>10. ASSUME NEW c \in D \ C PROVE f[c] <= 0
    <2>1. PICK y \in Nat, p \in Nat : y = m[c][2] - 2 * m[c][1] /\ p = q[c]
      BY <1>4
    <2>2. x[c] = (0 - y) * p
      BY <1>4, <2>1
    <2>3. PICK z \in Nat : z = y * p
      OBVIOUS
    <2>4. x[c] = 0 - z
      BY <2>2, <2>3
    <2>5. W2 * (0 - z) = 0 - W2 * z /\ W2 * z \in Nat
      BY <1>3
    <2> QED BY <1>6, <2>4, <2>5
  <1>11. SumFunctionOnSet(f, C) <= SumFunctionOnSet(f2, C)
    <2>1. \A c \in C : f[c] \in Int /\ f2[c] \in Int /\ f[c] <= f2[c]
      BY <1>6, <1>7, <1>8
    <2> HIDE DEF C
    <2> QED BY <1>1, <2>1, SumGrows
  <1>12. SumFunctionOnSet(f2, E) = SumFunctionOnSet(f2, C) + SumFunctionOnSet(f2, E \ C)
    <2> HIDE DEF C
    <2> QED BY <1>1, <1>7, SumOfParts
  <1>13. SumFunctionOnSet(f, D) = SumFunctionOnSet(f, C) + SumFunctionOnSet(f, D \ C)
    <2> HIDE DEF C
    <2> QED BY <1>1, <1>6, SumOfParts
  <1>14. SumFunctionOnSet(f2, E \ C) \in Nat
    <2> HIDE DEF C
    <2> QED BY <1>1, <1>9, SumOfNaturals
  <1>15. SumFunctionOnSet(f, D \ C) <= 0
    <2> DEFINE z == [c \in D |-> 0]
    <2>1. \A c \in D \ C : f[c] \in Int /\ z[c] \in Int /\ f[c] <= z[c] /\ z[c] = 0
      BY <1>6, <1>10
    <2> HIDE DEF C, z, D
    <2>2. SumFunctionOnSet(f, D \ C) <= SumFunctionOnSet(z, D \ C)
      BY <1>1, <2>1, SumGrows
    <2>3. SumFunctionOnSet(z, D \ C) = 0
      BY <1>1, <2>1, SumOfZeros
    <2> QED BY <2>2, <2>3
  <1>16. SumFunctionOnSet(f, C) \in Int /\ SumFunctionOnSet(f2, C) \in Int /\ SumFunctionOnSet(f, D \ C) \in Int
    <2>1. /\ \A c \in C : f[c] \in Int /\ f2[c] \in Int
          /\ \A c \in D \ C : f[c] \in Int
      BY <1>6, <1>7
    <2> HIDE DEF C
    <2> QED BY <1>1, <2>1, SumFacts
  <1>17. SumFunctionOnSet(f, D) = W2 * SumFunctionOnSet(x, D)
    <2>1. \A c \in D : x[c] \in Int /\ f[c] = W2 * x[c]
      BY <1>4, <1>6
    <2> HIDE DEF D
    <2> QED BY <1>1, <1>3, <2>1, SumOfMultiples
  <1>18. SumFunctionOnSet(f2, E) = W * SumFunctionOnSet(x2, E)
    <2>1. \A c \in E : x2[c] \in Int /\ f2[c] = W * x2[c]
      BY <1>5, <1>7
    <2> HIDE DEF E
    <2> QED BY <1>1, <1>2, <2>1, SumOfMultiples
  <1>19. PICK s \in Int, s2 \in Int : s = SumFunctionOnSet(x, D) /\ s2 = SumFunctionOnSet(x2, E)
    BY <1>2, <1>3 DEF x, x2
  <1>20. s >= 0 /\ W2 * s >= 0
    <2>1. s >= 0
      BY <1>2, <1>19 DEF x
    <2> QED BY <1>3, <2>1
  <1>21. W * s2 >= 0
    BY <1>11, <1>12, <1>13, <1>14, <1>15, <1>16, <1>17, <1>18, <1>19, <1>20
  <1>22. s2 >= 0
    BY <1>2, <1>21
  <1> QED BY <1>3, <1>19, <1>22 DEF x2

LEMMA ImageIsFinite ==
  ASSUME NEW f, IsFiniteSet(DOMAIN f)
  PROVE  IsFiniteSet({f[x] : x \in DOMAIN f})
  <1> DEFINE S == DOMAIN f
             T == {f[x] : x \in DOMAIN f}
             g == [x \in S |-> f[x]]
  <1>1. g \in Surjection(S, T)
    BY DEF Surjection
  <1> HIDE DEF g, T
  <1>2. IsFiniteSet(T)
    BY <1>1, FS_Surjection
  <1> QED BY <1>2 DEF T

-----------------------------------------------------------------------------
(* Counts that have grown from b to a.                                     *)

LEMMA GrownPart ==
  ASSUME NEW K, IsFiniteSet(K), NEW b \in [K -> Nat], NEW a \in [K -> Nat],
         \A k \in K : b[k] <= a[k], NEW T \in SUBSET K, NEW R \in SUBSET T
  PROVE  /\ SumFunctionOnSet(b, T) \in Nat /\ SumFunctionOnSet(a, T) \in Nat
         /\ SumFunctionOnSet(b, R) \in Nat /\ SumFunctionOnSet(a, R) \in Nat
         /\ SumFunctionOnSet(b, R) <= SumFunctionOnSet(b, T)
         /\ SumFunctionOnSet(b, T) <= SumFunctionOnSet(a, T)
         /\ (\A k \in T \ R : a[k] = b[k]) =>
               SumFunctionOnSet(a, T) - SumFunctionOnSet(b, T) = SumFunctionOnSet(a, R) - SumFunctionOnSet(b, R)
         /\ (\A k \in R : a[k] = b[k]) => SumFunctionOnSet(a, R) = SumFunctionOnSet(b, R)
  <1> DEFINE d == [k \in K |-> a[k] - b[k]]
  <1>1. IsFiniteSet(T) /\ IsFiniteSet(R) /\ R \in SUBSET K
    BY FS_Subset
  <1>2. \A k \in K : d[k] \in Nat /\ a[k] \in Nat /\ b[k] \in Nat /\ a[k] = b[k] + d[k]
    BY DEF d
  <1> HIDE DEF d
  <1>3. /\ SumFunctionOnSet(b, T) \in Nat /\ SumFunctionOnSet(a, T) \in Nat
        /\ SumFunctionOnSet(b, R) \in Nat /\ SumFunctionOnSet(a, R) \in Nat
        /\ SumFunctionOnSet(d, R) \in Nat /\ SumFunctionOnSet(d, T) \in Nat
    BY <1>1, <1>2, SumOfNaturals
  <1>4. SumFunctionOnSet(a, T) = SumFunctionOnSet(b, T) + SumFunctionOnSet(d, T)
    <2>1. \A k \in T : b[k] \in Int /\ d[k] \in Int /\ a[k] = b[k] + d[k]
      BY <1>2
    <2> QED BY <1>1, <2>1, SumOfBoth
  <1>5. SumFunctionOnSet(a, R) = SumFunctionOnSet(b, R) + SumFunctionOnSet(d, R)
    <2>1. \A k \in R : b[k] \in Int /\ d[k] \in Int /\ a[k] = b[k] + d[k]
      BY <1>2
    <2> QED BY <1>1, <2>1, SumOfBoth
  <1>6. SumFunctionOnSet(b, R) <= SumFunctionOnSet(b, T)
    <2>1. \A k \in T : b[k] \in Nat
      BY <1>2
    <2> QED BY <1>1, <2>1, SumOfPart
  <1>7. ASSUME \A k \in T \ R : a[k] = b[k]
        PROVE  SumFunctionOnSet(d, R) = SumFunctionOnSet(d, T)
    <2>1. \A k \in T : d[k] \in Nat
      BY <1>2
    <2>2. \A k \in T \ R : d[k] = 0
      BY <1>2, <1>7
    <2> QED BY <1>1, <2>1, <2>2, SumOfPart
  <1>8. ASSUME \A k \in R : a[k] = b[k]
        PROVE  SumFunctionOnSet(d, R) = 0
    <2>1. \A k \in R : d[k] = 0
      BY <1>1, <1>2, <1>8
    <2> QED BY <1>1, <2>1, SumOfZeros
  <1> QED BY <1>3, <1>4, <1>5, <1>6, <1>7, <1>8

\* A rate does not fall when its part grows as much as its whole.
LEMMA RateGrows ==
  ASSUME NEW r \in Nat, NEW t \in Nat, NEW n \in Nat, r <= t
  PROVE  r * (t + n) <= (r + n) * t
  <1>1. PICK x \in Nat : x = t - r
    OBVIOUS
  <1>2. PICK y \in Nat : y = n * x
    OBVIOUS
  <1>3. PICK z \in Int : z = r * t
    OBVIOUS
  <1>4. t = r + x
    BY <1>1
  <1>5. PICK rr \in Nat, rn \in Nat, rx \in Nat : rr = r * r /\ rn = r * n /\ rx = r * x
    OBVIOUS
  <1>6. r * (t + n) = rr + rx + rn
    BY <1>4, <1>5
  <1>7. (r + n) * t = rr + rx + rn + y
    BY <1>2, <1>4, <1>5
  <1> QED BY <1>6, <1>7

LEMMA RateOfMore ==
  ASSUME NEW r \in Nat, NEW t \in Nat, NEW u \in Nat, t <= u
  PROVE  r * t <= r * u
  <1>1. PICK x \in Nat : u = t + x
    <2>1. u - t \in Nat /\ u = t + (u - t)
      OBVIOUS
    <2> QED BY <2>1
  <1>2. r * u = r * t + r * x /\ r * x \in Nat /\ r * t \in Nat
    BY <1>1
  <1> QED BY <1>2

LEMMA ScaledFacts ==
  ASSUME NEW m, AreRates(m)
  PROVE  /\ SumFunctionOnSet(Scaled(m), DOMAIN m) \in Nat
         /\ Cardinality(DOMAIN m) \in Nat /\ Whole(m) \in Nat
  <1> DEFINE t == [c \in DOMAIN m |-> m[c][2]]
  <1>1. IsFiniteSet(DOMAIN m) /\ \A c \in DOMAIN m : m[c][1] \in Nat /\ m[c][2] \in Nat \ {0}
    BY DEF AreRates
  <1>2. Product(t) \in Nat /\ \A c \in DOMAIN m : \E q \in Nat \ {0} : Product(t) = m[c][2] * q
    <2>1. IsFiniteSet(DOMAIN t) /\ \A c \in DOMAIN t : t[c] \in Nat \ {0} /\ t[c] = m[c][2]
      BY <1>1
    <2>2. DOMAIN t = DOMAIN m
      OBVIOUS
    <2> HIDE DEF t
    <2> QED BY <2>1, <2>2, ProductFacts
  <1>3. Whole(m) = Product(t)
    BY DEF Whole
  <1>4. ASSUME NEW c \in DOMAIN m PROVE Scaled(m)[c] \in Nat
    <2>1. PICK r \in Nat, k \in Nat \ {0}, q \in Nat : r = m[c][1] /\ k = m[c][2] /\ Product(t) = k * q
      BY <1>1, <1>2
    <2>2. Scaled(m)[c] = (r * (k * q)) \div k
      BY <1>3, <2>1 DEF Scaled
    <2>3. (r * (k * q)) \div k = r * q
      BY DivExact
    <2> QED BY <2>2, <2>3
  <1>5. SumFunctionOnSet(Scaled(m), DOMAIN m) \in Nat
    BY <1>1, <1>4, SumOfNaturals
  <1> QED BY <1>1, <1>2, <1>3, <1>5, FS_CardinalityType

\* Nothing is at a half.
LEMMA HalfOfNothing ==
  ASSUME NEW m, AreRates(m), ~HalfAtLeast(m)
  PROVE  m # << >>
  <1> SUFFICES ASSUME DOMAIN m = {} PROVE FALSE
    OBVIOUS
  <1> DEFINE t == [c \in DOMAIN m |-> m[c][2]]
  <1>1. IsFiniteSet(DOMAIN t) /\ \A c \in DOMAIN t : t[c] \in Nat \ {0}
    BY DEF AreRates
  <1>2. Product(t) \in Nat
    <2> HIDE DEF t
    <2> QED BY <1>1, ProductFacts
  <1>3. PICK W \in Nat : W = Whole(m)
    BY <1>2 DEF Whole
  <1>4. SumFunctionOnSet(Scaled(m), DOMAIN m) = 0 /\ Cardinality(DOMAIN m) = 0
    BY SumOfNothing, FS_EmptySet
  <1> QED BY <1>3, <1>4 DEF HalfAtLeast
=============================================================================
