----------------------------- MODULE EnginesProofs -----------------------------
(***************************************************************************)
(* Proofs about the learning path, the benchmark, the diagnosis, the       *)
(* recommendations and the study plan, for any inputs: the path by itself, *)
(* and each as a part of the engines.                                      *)
(***************************************************************************)
EXTENDS Engines, GuidanceProofs

-----------------------------------------------------------------------------
(* The reference, Within.                                                  *)

\* What one more step of prerequisites adds to S.
Beyond(S) == {t \in Terms : \E u \in S : t \in prereq[u]}

\* The values of Within up to n.
Steps(f, start, n) ==
    f = [i \in 0 .. n |-> IF i = 0 THEN start ELSE f[i - 1] \cup Beyond(f[i - 1])]

LEMMA StepsExist ==
  ASSUME NEW start, NEW n \in Nat
  PROVE  \E f : Steps(f, start, n)
  <1> SUFFICES ASSUME ~ \E f : Steps(f, start, n) PROVE FALSE
    OBVIOUS
  <1> DEFINE Failing == {k \in Nat : ~ \E f : Steps(f, start, k)}
  <1>1. PICK m \in Failing : \A k \in Failing : m <= k
    BY LeastNumber
  <1>2. \E f : Steps(f, start, 0)
    <2>1. Steps([i \in 0 .. 0 |-> start], start, 0)
      BY DEF Steps
    <2> QED BY <2>1
  <1>3. m - 1 \in Nat /\ m - 1 \notin Failing
    BY <1>1, <1>2
  <1>4. PICK f : Steps(f, start, m - 1)
    BY <1>3
  <1> DEFINE g == [i \in 0 .. m |-> IF i = m THEN f[m - 1] \cup Beyond(f[m - 1]) ELSE f[i]]
  <1>5. Steps(g, start, m)
    <2>1. \A i \in 0 .. m - 1 : g[i] = f[i]
      BY <1>1
    <2>2. ASSUME NEW i \in 0 .. m
          PROVE  g[i] = IF i = 0 THEN start ELSE g[i - 1] \cup Beyond(g[i - 1])
      <3>1. CASE i = m
        BY <3>1, <1>3, <2>1
      <3>2. CASE i # m
        <4>1. i \in 0 .. m - 1 /\ (i # 0 => i - 1 \in 0 .. m - 1)
          BY <3>2, <1>1
        <4>2. f[i] = IF i = 0 THEN start ELSE f[i - 1] \cup Beyond(f[i - 1])
          BY <4>1, <1>4 DEF Steps
        <4> HIDE DEF g
        <4> QED BY <4>1, <4>2, <2>1
      <3> QED BY <3>1, <3>2
    <2>3. g = [i \in 0 .. m |-> g[i]]
      OBVIOUS
    <2> HIDE DEF g
    <2> QED BY <2>2, <2>3 DEF Steps
  <1> QED
    BY <1>1, <1>5

LEMMA WithinSteps ==
  ASSUME NEW start, maxDepth \in Nat
  PROVE  /\ Within(start)[0] = start
         /\ \A n \in 1 .. maxDepth :
               Within(start)[n] = Within(start)[n - 1] \cup Beyond(Within(start)[n - 1])
  <1> DEFINE w[n \in Depths] ==
        IF n = 0 THEN start
        ELSE w[n - 1] \cup {t \in Terms : \E u \in w[n - 1] : t \in prereq[u]}
  <1>1. \E f : Steps(f, start, maxDepth)
    BY StepsExist
  <1>2. w = [n \in Depths |-> IF n = 0 THEN start
                              ELSE w[n - 1] \cup {t \in Terms : \E u \in w[n - 1] : t \in prereq[u]}]
    BY <1>1, Zenon DEF Steps, Beyond, Depths
  <1>3. Within(start) = w
    BY DEF Within
  <1> HIDE DEF w
  <1>4. \A n \in 0 .. maxDepth :
           w[n] = IF n = 0 THEN start ELSE w[n - 1] \cup Beyond(w[n - 1])
    BY <1>2, Zenon DEF Beyond, Depths
  <1>5. w[0] = start
    <2>1. 0 \in 0 .. maxDepth
      OBVIOUS
    <2> QED
      BY <1>4, <2>1
  <1>6. ASSUME NEW n \in 1 .. maxDepth PROVE w[n] = w[n - 1] \cup Beyond(w[n - 1])
    <2>1. n \in 0 .. maxDepth /\ n # 0
      OBVIOUS
    <2> QED
      BY <1>4, <2>1
  <1> QED
    BY <1>3, <1>5, <1>6

-----------------------------------------------------------------------------
(* The inductive invariant                                                 *)

Fresh ==
    pc = "match" => Visited = {} /\ queue = <<>> /\ \A t \in Terms : via[t] = None

\* A visited term is a weak concept, or one step from the term it was found from.
Found(t) ==
    \/ /\ depth[t] = 0 /\ via[t] = None
       /\ \E i \in DOMAIN roots : roots[i].term = t /\ roots[i].label = goal[t]
    \/ /\ via[t] \in Visited /\ depth[t] = depth[via[t]] + 1
       /\ t \in prereq[via[t]] /\ goal[t] = goal[via[t]]

Chained == \A t \in Visited : Found(t)
Rooted == pc # "match" => \A t \in Roots : depth[t] = 0

\* The queue holds the terms of one depth and then of the next, and nothing that was
\* visited is further away: what is found now cannot be found nearer later.
LevelByLevel ==
    /\ \A i \in DOMAIN queue : queue[i] \in Visited
    /\ \A i, j \in DOMAIN queue : i < j => depth[queue[i]] <= depth[queue[j]]
    /\ pc = "visit" =>
          /\ current \in Visited
          /\ \A i \in DOMAIN queue : depth[current] <= depth[queue[i]]
          /\ \A t \in Visited : depth[t] <= depth[current] + 1
    /\ pc = "pop" /\ queue # <<>> => \A t \in Visited : depth[t] <= depth[queue[1]] + 1

Explored(t, S) == \A p \in S \cap Terms : p \in Visited /\ depth[p] <= depth[t] + 1

Waiting(t) == (\E i \in DOMAIN queue : queue[i] = t) \/ (pc = "visit" /\ t = current)

\* A term that waits no more has had all its prerequisites visited, unless it is at
\* the greatest depth.
NoneMissed ==
    /\ pc # "match" =>
          \A t \in Visited : depth[t] < maxDepth => Waiting(t) \/ Explored(t, prereq[t])
    /\ pc = "visit" =>
          /\ todo # {} => depth[current] < maxDepth /\ todo \subseteq prereq[current]
          /\ depth[current] < maxDepth => Explored(current, prereq[current] \ todo)
    /\ pc \in {"select", "done"} => queue = <<>>

Served ==
    path = <<>> \/ (pc = "done" /\ \E n \in Nat : path = Ranked(Kept(n), StudyFirst))

IInv ==
    TypeOK /\ Fresh /\ Chained /\ Rooted /\ LevelByLevel /\ NoneMissed /\ Served

-----------------------------------------------------------------------------
LEMMA InitInv ==
  ASSUME LearningPathAssumption, Init
  PROVE  IInv
  <1>1. weak \in Seq(Labels)
    <2>1. \E f \in [1 .. Cardinality(Labels) -> Labels] : IsInjective(f)
      BY FS_CardinalityType DEF LearningPathAssumption, ExistsBijection, Bijection, Injection
    <2>2. SetToSeq(Labels) \in [1 .. Cardinality(Labels) -> Labels]
      BY <2>1 DEF SetToSeq
    <2>3. Cardinality(Labels) \in Nat
      BY FS_CardinalityType DEF LearningPathAssumption
    <2>4. SetToSeq(Labels) \in Seq(Labels)
      BY <2>2, <2>3
    <2> QED
      BY <2>4 DEF Init
  <1>2. TypeOK
    BY <1>1 DEF Init, TypeOK, Depths
  <1>3. /\ Visited = {} /\ queue = <<>> /\ path = <<>> /\ pc = "match" /\ DOMAIN queue = {}
        /\ \A t \in Terms : via[t] = None
    BY DEF Init, Visited
  <1> QED
    BY <1>2, <1>3 DEF IInv, Fresh, Chained, Rooted, LevelByLevel, NoneMissed, Served

\* A term of depth 0 or more is visited, and the depths of visited terms are numbers.
LEMMA VisitedDepth ==
  ASSUME LearningPathAssumption, TypeOK
  PROVE  /\ maxDepth \in Nat
         /\ \A t \in Visited : t \in Terms /\ depth[t] \in Nat /\ depth[t] <= maxDepth
         /\ \A t \in Terms : depth[t] \in Nat => t \in Visited
  BY DEF LearningPathAssumption, TypeOK, Depths, Visited

LEMMA RootFields ==
  ASSUME TypeOK
  PROVE  /\ Len(roots) \in Nat /\ DOMAIN roots = 1 .. Len(roots)
         /\ \A i \in DOMAIN roots : roots[i].term \in Terms /\ roots[i].label \in Labels
         /\ Roots \subseteq Terms
  <1>1. PICK R : R = [term : Terms, label : Labels]
    OBVIOUS
  <1>2. roots \in Seq(R)
    BY <1>1 DEF TypeOK
  <1>3. Len(roots) \in Nat /\ DOMAIN roots = 1 .. Len(roots) /\ \A i \in DOMAIN roots : roots[i] \in R
    BY <1>2
  <1>4. \A i \in DOMAIN roots : roots[i].term \in Terms /\ roots[i].label \in Labels
    BY <1>1, <1>3
  <1> QED
    BY <1>3, <1>4 DEF Roots

LEMMA MatchStep ==
  ASSUME LearningPathAssumption, IInv, Match
  PROVE  IInv'
  <1>1. TypeOK'
    <2>1. weak' \in Seq(Labels) /\ Head(weak) \in Labels
      BY DEF Match, IInv, TypeOK
    <2>2. unmatched' \subseteq Labels
      BY <2>1 DEF Match, IInv, TypeOK
    <2>3. roots' \in Seq([term : Terms, label : Labels])
      <3>1. match[Head(weak)] \in Terms \cup {None}
        BY <2>1 DEF IInv, TypeOK
      <3>2. CASE match[Head(weak)] = None \/ match[Head(weak)] \in Roots
        <4>1. roots' = roots
          BY <3>2 DEF Match
        <4> QED
          BY <4>1 DEF IInv, TypeOK
      <3>3. CASE ~(match[Head(weak)] = None \/ match[Head(weak)] \in Roots)
        <4>1. roots' = Append(roots, [term |-> match[Head(weak)], label |-> Head(weak)])
          BY <3>3 DEF Match
        <4>2. [term |-> match[Head(weak)], label |-> Head(weak)] \in [term : Terms, label : Labels]
          BY <2>1, <3>1, <3>3
        <4>3. roots \in Seq([term : Terms, label : Labels])
          BY DEF IInv, TypeOK
        <4> QED
          BY <4>1, <4>2, <4>3
      <3> QED
        BY <3>2, <3>3
    <2> QED
      BY <2>1, <2>2, <2>3 DEF Match, IInv, TypeOK, input, nodes, Depths
  <1>2. /\ Visited = {} /\ queue = <<>> /\ pc = "match" /\ pc' = "match" /\ path = <<>>
        /\ queue' = queue /\ path' = path /\ Visited' = Visited /\ DOMAIN queue = {}
        /\ \A t \in Terms : via'[t] = None
    BY DEF Match, IInv, Fresh, Served, Visited, nodes
  <1> QED
    BY <1>1, <1>2 DEF IInv, Fresh, Chained, Rooted, LevelByLevel, NoneMissed, Served

LEMMA SeedStep ==
  ASSUME LearningPathAssumption, IInv, Seed
  PROVE  IInv'
  <1> DEFINE labelOf(t) == (CHOOSE r \in Range(roots) : r.term = t).label
  <1>1. /\ roots \in Seq([term : Terms, label : Labels]) /\ roots' = roots /\ maxDepth \in Nat
        /\ pc = "match" /\ pc' = "pop" /\ path' = path /\ path = <<>> /\ Visited = {}
        /\ prereq' = prereq /\ maxDepth' = maxDepth /\ via' = via /\ None \notin Nat
    BY DEF Seed, IInv, TypeOK, Fresh, Served, labels, input, LearningPathAssumption
  <1>2. /\ queue' \in Seq(Terms) /\ DOMAIN queue' = DOMAIN roots
        /\ \A i \in DOMAIN roots : queue'[i] = roots[i].term /\ roots[i].term \in Roots
    BY RootFields DEF Seed, Roots, IInv
  <1>3. Roots \subseteq Terms /\ Roots' = Roots
    BY <1>1, RootFields DEF Roots, IInv
  <1>4. /\ depth' \in [Terms -> Depths \cup {None}]
        /\ \A t \in Terms : depth'[t] = IF t \in Roots THEN 0 ELSE None
    BY <1>1 DEF Seed, Depths
  <1>5. Visited' = Roots
    BY <1>1, <1>3, <1>4 DEF Visited
  <1>6. \A t \in Roots : \E i \in DOMAIN roots : roots[i].term = t /\ roots[i].label = labelOf(t)
    <2> SUFFICES ASSUME NEW t \in Roots
                 PROVE  \E i \in DOMAIN roots : roots[i].term = t /\ roots[i].label = labelOf(t)
      OBVIOUS
    <2>1. \E r \in Range(roots) : r.term = t
      BY DEF Roots, Range
    <2>2. PICK r : r = CHOOSE x \in Range(roots) : x.term = t
      OBVIOUS
    <2>3. r \in Range(roots) /\ r.term = t
      BY <2>1, <2>2
    <2> QED
      BY <2>2, <2>3 DEF Range
  <1>7. \A t \in Roots : goal'[t] = labelOf(t)
    BY <1>3 DEF Seed
  <1>8. goal' \in [Terms -> Labels \cup {None}]
    <2>2. goal' = [t \in Terms |-> IF t \in Roots THEN labelOf(t) ELSE None]
      BY DEF Seed
    <2> HIDE DEF labelOf
    <2>1. \A t \in Roots : labelOf(t) \in Labels
      BY <1>6, RootFields DEF IInv
    <2> QED
      BY <2>1, <2>2
  <1> HIDE DEF labelOf
  <1>9. TypeOK'
    BY <1>1, <1>2, <1>4, <1>8 DEF Seed, IInv, TypeOK, labels, input, Depths
  <1>10. \A t \in Roots : via[t] = None
    <2>1. \A t \in Terms : via[t] = None
      BY <1>1 DEF IInv, Fresh
    <2> QED
      BY <1>3, <2>1
  <1>11. Chained' /\ Rooted'
    BY <1>1, <1>3, <1>4, <1>5, <1>6, <1>7, <1>10 DEF Chained, Found, Rooted
  <1>12. \A t \in Visited' : depth'[t] = 0
    BY <1>3, <1>4, <1>5
  <1>13. LevelByLevel'
    <2>1. \A i \in DOMAIN queue' : queue'[i] \in Visited' /\ depth'[queue'[i]] = 0
      BY <1>2, <1>5, <1>12
    <2>2. queue' # <<>> => 1 \in DOMAIN queue'
      BY <1>2
    <2> QED
      BY <1>1, <1>12, <2>1, <2>2 DEF LevelByLevel
  <1>14. NoneMissed'
    BY <1>1, <1>2, <1>5 DEF NoneMissed, Waiting, Roots
  <1> QED
    BY <1>1, <1>9, <1>11, <1>13, <1>14 DEF IInv, Fresh, Served

LEMMA QueueFields ==
  ASSUME TypeOK
  PROVE  /\ Len(queue) \in Nat /\ DOMAIN queue = 1 .. Len(queue)
         /\ \A i \in DOMAIN queue : queue[i] \in Terms
         /\ queue # <<>> => /\ 1 \in DOMAIN queue /\ Head(queue) = queue[1]
                            /\ Tail(queue) \in Seq(Terms)
                            /\ DOMAIN Tail(queue) = 1 .. Len(queue) - 1
                            /\ \A i \in DOMAIN Tail(queue) :
                                  i + 1 \in DOMAIN queue /\ Tail(queue)[i] = queue[i + 1]
  <1>1. queue \in Seq(Terms)
    BY DEF TypeOK
  <1> QED
    BY <1>1

LEMMA PopStep ==
  ASSUME LearningPathAssumption, IInv, Pop
  PROVE  IInv'
  <1> USE DEF IInv
  <1>1. /\ pc = "pop" /\ pc' = "visit" /\ queue # <<>> /\ queue' = Tail(queue)
        /\ current' = queue[1] /\ path' = path /\ path = <<>>
        /\ UNCHANGED <<prereq, maxDepth, depth, goal, via, roots>>
    BY QueueFields DEF Pop, Served, input, labels, nodes
  <1>2. todo' = IF depth[queue[1]] >= maxDepth THEN {} ELSE prereq[queue[1]]
    BY QueueFields DEF Pop
  <1>3. /\ queue[1] \in Visited /\ queue[1] \in Terms /\ depth[queue[1]] \in Nat /\ maxDepth \in Nat
        /\ prereq[queue[1]] \subseteq Ids
    BY <1>1, QueueFields, VisitedDepth DEF LevelByLevel, TypeOK
  <1>4. Visited' = Visited /\ Roots' = Roots
    BY <1>1 DEF Visited, Roots
  <1>5. TypeOK'
    <2>1. queue' \in Seq(Terms)
      BY <1>1, QueueFields
    <2>2. current' \in Terms /\ todo' \subseteq Ids
      BY <1>1, <1>2, <1>3
    <2> QED
      BY <1>1, <2>1, <2>2 DEF Pop, TypeOK, input, labels, nodes, Depths
  <1>6. Fresh' /\ Chained' /\ Rooted' /\ Served'
    BY <1>1, <1>4 DEF Fresh, Chained, Found, Rooted, Served
  <1>7. LevelByLevel'
    <2>1. ASSUME NEW i \in DOMAIN queue' PROVE queue'[i] \in Visited /\ depth[queue[1]] <= depth[queue'[i]]
      <3>1. i + 1 \in DOMAIN queue /\ queue'[i] = queue[i + 1] /\ 1 \in DOMAIN queue /\ 1 < i + 1
        BY <1>1, <2>1, QueueFields
      <3> QED
        BY <3>1 DEF LevelByLevel
    <2>2. ASSUME NEW i \in DOMAIN queue', NEW j \in DOMAIN queue', i < j
          PROVE  depth[queue'[i]] <= depth[queue'[j]]
      <3>1. /\ i + 1 \in DOMAIN queue /\ queue'[i] = queue[i + 1]
            /\ j + 1 \in DOMAIN queue /\ queue'[j] = queue[j + 1] /\ i + 1 < j + 1
        BY <1>1, <2>2, QueueFields
      <3> QED
        BY <3>1 DEF LevelByLevel
    <2>3. \A t \in Visited : depth[t] <= depth[queue[1]] + 1
      BY <1>1 DEF LevelByLevel
    <2> QED
      BY <1>1, <1>3, <1>4, <2>1, <2>2, <2>3 DEF LevelByLevel
  <1>8. NoneMissed'
    <2>1. ASSUME NEW t \in Visited, depth[t] < maxDepth PROVE Waiting(t)' \/ Explored(t, prereq[t])
      <3>1. CASE Explored(t, prereq[t])
        BY <3>1
      <3>2. CASE t = queue[1]
        BY <1>1, <3>2 DEF Waiting
      <3>3. ASSUME NEW i \in DOMAIN queue, queue[i] = t, t # queue[1] PROVE Waiting(t)'
        <4>1. i - 1 \in DOMAIN queue'
          BY <1>1, <3>3, QueueFields
        <4>2. queue'[i - 1] = queue[i - 1 + 1]
          BY <1>1, <4>1, QueueFields
        <4>3. queue'[i - 1] = t
          BY <3>3, <4>2, QueueFields
        <4> QED
          BY <4>1, <4>3 DEF Waiting
      <3> QED
        BY <1>1, <2>1, <3>1, <3>2, <3>3 DEF NoneMissed, Waiting
    <2>2. todo' # {} => depth[queue[1]] < maxDepth /\ todo' \subseteq prereq[queue[1]]
      BY <1>2, <1>3
    <2>3. depth[queue[1]] < maxDepth => prereq[queue[1]] \ todo' = {}
      BY <1>2, <1>3
    <2>4. \A t \in Visited : Explored(t, prereq[t])' = Explored(t, prereq[t])
      BY <1>1, <1>4 DEF Explored
    <2> QED
      BY <1>1, <1>4, <2>1, <2>2, <2>3, <2>4 DEF NoneMissed, Explored
  <1> QED
    BY <1>5, <1>6, <1>7, <1>8

LEMMA EndVisitStep ==
  ASSUME LearningPathAssumption, IInv, EndVisit
  PROVE  IInv'
  <1> USE DEF IInv
  <1>1. /\ pc = "visit" /\ pc' = "pop" /\ todo = {} /\ path' = path /\ path = <<>>
        /\ UNCHANGED <<prereq, maxDepth, depth, goal, via, roots, queue, todo>>
    BY DEF EndVisit, Served, input, labels, nodes
  <1>2. Visited' = Visited /\ Roots' = Roots
    BY <1>1 DEF Visited, Roots
  <1>3. TypeOK'
    BY <1>1 DEF EndVisit, TypeOK, input, labels, nodes, Depths
  <1>4. Fresh' /\ Chained' /\ Rooted' /\ Served'
    BY <1>1, <1>2 DEF Fresh, Chained, Found, Rooted, Served
  <1>5. LevelByLevel'
    <2>1. ASSUME queue # <<>>, NEW t \in Visited PROVE depth[t] <= depth[queue[1]] + 1
      <3>1. 1 \in DOMAIN queue
        BY <2>1, QueueFields
      <3>2. /\ current \in Visited /\ queue[1] \in Visited
            /\ depth[current] <= depth[queue[1]] /\ depth[t] <= depth[current] + 1
        BY <1>1, <3>1 DEF LevelByLevel
      <3>3. depth[current] \in Nat /\ depth[queue[1]] \in Nat /\ depth[t] \in Nat
        BY <3>2, VisitedDepth
      <3> QED
        BY <3>2, <3>3
    <2> QED
      BY <1>1, <1>2, <2>1 DEF LevelByLevel
  <1>6. NoneMissed'
    <2>1. ASSUME NEW t \in Visited, depth[t] < maxDepth PROVE Waiting(t)' \/ Explored(t, prereq[t])
      <3>1. prereq[current] \ todo = prereq[current]
        BY <1>1
      <3> QED
        BY <1>1, <2>1, <3>1 DEF NoneMissed, Waiting
    <2>2. \A t \in Visited : Explored(t, prereq[t])' = Explored(t, prereq[t])
      BY <1>1, <1>2 DEF Explored
    <2> QED
      BY <1>1, <1>2, <2>1, <2>2 DEF NoneMissed
  <1> QED
    BY <1>3, <1>4, <1>5, <1>6

LEMMA EndTraceStep ==
  ASSUME LearningPathAssumption, IInv, EndTrace
  PROVE  IInv'
  <1> USE DEF IInv
  <1>1. /\ pc = "pop" /\ pc' = "select" /\ queue = <<>> /\ path' = path /\ path = <<>>
        /\ UNCHANGED <<prereq, maxDepth, depth, goal, via, roots, queue, current, todo>>
    BY DEF EndTrace, Served, input, labels, nodes
  <1>2. Visited' = Visited /\ Roots' = Roots
    BY <1>1 DEF Visited, Roots
  <1>3. TypeOK'
    BY <1>1 DEF EndTrace, TypeOK, input, labels, nodes, Depths
  <1>4. Fresh' /\ Chained' /\ Rooted' /\ Served' /\ LevelByLevel'
    BY <1>1, <1>2 DEF Fresh, Chained, Found, Rooted, Served, LevelByLevel
  <1>5. NoneMissed'
    BY <1>1, <1>2 DEF NoneMissed, Waiting, Explored
  <1> QED
    BY <1>3, <1>4, <1>5

-----------------------------------------------------------------------------
(* The order of selection and of the path.                                 *)

LEMMA StrictOrders ==
  ASSUME LearningPathAssumption, TypeOK
  PROVE  /\ IsFiniteSet(Visited)
         /\ StrictOrder(Visited, NearestFirst) /\ StrictOrder(Visited, StudyFirst)
  <1>1. Visited \subseteq Terms
    BY DEF Visited
  <1>2. IsFiniteSet(Visited)
    BY <1>1, FS_Subset DEF LearningPathAssumption
  <1>3. \A t \in Visited : t \in Nat /\ depth[t] \in Nat
    BY <1>1, VisitedDepth DEF LearningPathAssumption
  <1>4. \A t, u \in Visited :
           /\ <<t, u>> \in NearestFirst <=> depth[t] < depth[u] \/ (depth[t] = depth[u] /\ t < u)
           /\ <<t, u>> \in StudyFirst <=> depth[t] > depth[u] \/ (depth[t] = depth[u] /\ t < u)
    BY DEF NearestFirst, StudyFirst, Before
  <1> HIDE DEF NearestFirst, StudyFirst
  <1>5. StrictOrder(Visited, NearestFirst)
    BY <1>3, <1>4 DEF StrictOrder
  <1>6. StrictOrder(Visited, StudyFirst)
    BY <1>3, <1>4 DEF StrictOrder
  <1> QED
    BY <1>2, <1>5, <1>6

LEMMA KeptSorted ==
  ASSUME LearningPathAssumption, TypeOK, NEW n
  PROVE  LET s == Ranked(Kept(n), StudyFirst)
         IN  /\ s \in Seq(Terms) /\ Kept(n) \subseteq Visited
             /\ \A i \in DOMAIN s : s[i] \in Kept(n)
             /\ \A t \in Kept(n) : \E i \in DOMAIN s : s[i] = t
             /\ \A i, j \in DOMAIN s : <<s[i], s[j]>> \in StudyFirst => i < j
  <1> DEFINE s == Ranked(Kept(n), StudyFirst)
  <1>1. Kept(n) \subseteq Visited /\ Visited \subseteq Terms
    BY DEF Kept, Visited
  <1>2. IsFiniteSet(Kept(n)) /\ StrictOrder(Kept(n), StudyFirst)
    BY <1>1, StrictOrders, FS_Subset DEF StrictOrder
  <1>3. s \in Seq(Kept(n))
    BY <1>2, RankedIsSorted
  <1>4. s \in Seq(Terms) /\ \A i \in DOMAIN s : s[i] \in Kept(n)
    <2> HIDE DEF s
    <2> QED
      BY <1>1, <1>3
  <1>5. /\ \A t \in Kept(n) : \E i \in DOMAIN s : s[i] = t
        /\ \A i, j \in DOMAIN s : <<s[i], s[j]>> \in StudyFirst => i < j
    BY <1>2, RankedIsSorted
  <1> QED
    BY <1>1, <1>4, <1>5

-----------------------------------------------------------------------------
LEMMA VisitStep ==
  ASSUME LearningPathAssumption, IInv, NEW p \in Ids, Visit(p)
  PROVE  IInv'
  <1> USE DEF IInv
  <1>1. /\ pc = "visit" /\ pc' = "visit" /\ path' = path /\ path = <<>>
        /\ p \in todo /\ todo' = todo \ {p}
        /\ UNCHANGED <<prereq, maxDepth, roots, current>>
    BY DEF Visit, Served, input, labels
  <1>2. /\ current \in Visited /\ current \in Terms /\ depth[current] < maxDepth
        /\ todo \subseteq prereq[current] /\ p \in prereq[current]
    BY <1>1, VisitedDepth DEF LevelByLevel, NoneMissed
  <1>3. /\ depth[current] \in Nat /\ maxDepth \in Nat
        /\ \A t \in Visited : t \in Terms /\ depth[t] \in Nat /\ depth[t] <= depth[current] + 1
    BY <1>1, <1>2, VisitedDepth DEF LevelByLevel
  <1>4. CASE p \in Terms /\ p \notin Visited
    <2>1. /\ depth' = [depth EXCEPT ![p] = depth[current] + 1]
          /\ goal' = [goal EXCEPT ![p] = goal[current]]
          /\ via' = [via EXCEPT ![p] = current]
          /\ queue' = Append(queue, p)
      BY <1>4 DEF Visit
    <2>2. /\ depth \in [Terms -> Depths \cup {None}] /\ goal \in [Terms -> Labels \cup {None}]
          /\ via \in [Terms -> Terms \cup {None}] /\ queue \in Seq(Terms)
      BY DEF TypeOK
    <2>3. /\ depth'[p] = depth[current] + 1 /\ goal'[p] = goal[current] /\ via'[p] = current
          /\ \A t \in Terms \ {p} : depth'[t] = depth[t] /\ goal'[t] = goal[t] /\ via'[t] = via[t]
      BY <1>4, <2>1, <2>2
    <2>4. depth[current] + 1 \in Depths /\ depth[current] + 1 \in Nat /\ depth[current] + 1 # None
      BY <1>2, <1>3 DEF Depths, LearningPathAssumption
    <2>5. Visited' = Visited \cup {p} /\ Roots' = Roots
      BY <1>1, <1>4, <2>3, <2>4 DEF Visited, Roots
    <2>6. TypeOK'
      <3>1. /\ depth' \in [Terms -> Depths \cup {None}] /\ goal' \in [Terms -> Labels \cup {None}]
            /\ via' \in [Terms -> Terms \cup {None}] /\ queue' \in Seq(Terms)
        BY <1>2, <1>4, <2>1, <2>2, <2>4
      <3> QED
        BY <1>1, <3>1 DEF Visit, TypeOK, input, labels, Depths
    <2>7. Chained'
      <3>1. Found(p)'
        BY <1>1, <1>2, <2>3, <2>5, <1>4 DEF Found
      <3>2. ASSUME NEW t \in Visited PROVE Found(t)'
        <4>1. t \in Terms \ {p} /\ (via[t] \in Visited => via[t] \in Terms \ {p})
          BY <1>3, <1>4
        <4>2. Found(t)
          BY DEF Chained
        <4> QED
          BY <1>1, <2>3, <2>5, <4>1, <4>2 DEF Found
      <3> QED
        BY <2>5, <3>1, <3>2 DEF Chained
    <2>8. Rooted'
      <3>1. \A t \in Roots : t \in Terms /\ depth[t] = 0
        BY <1>1, RootFields DEF Rooted
      <3>2. \A t \in Roots : t \in Terms \ {p}
        BY <1>4, <3>1, VisitedDepth
      <3> QED
        BY <2>3, <2>5, <3>1, <3>2 DEF Rooted
    <2>9. \A i \in DOMAIN queue : queue[i] \in Visited /\ queue[i] \in Terms \ {p}
      BY <1>3, <1>4 DEF LevelByLevel
    <2>10. /\ Len(queue) \in Nat /\ DOMAIN queue = 1 .. Len(queue) /\ DOMAIN queue' = 1 .. Len(queue) + 1
           /\ \A i \in DOMAIN queue : queue'[i] = queue[i]
           /\ queue'[Len(queue) + 1] = p
      BY <2>1, <2>2
    <2>11. LevelByLevel'
      <3>1. \A i \in DOMAIN queue' : i \in DOMAIN queue \/ i = Len(queue) + 1
        BY <2>10
      <3>2. ASSUME NEW i \in DOMAIN queue'
            PROVE  queue'[i] \in Visited' /\ depth[current] <= depth'[queue'[i]]
        <4>1. CASE i \in DOMAIN queue
          BY <1>1, <2>3, <2>5, <2>9, <2>10, <4>1 DEF LevelByLevel
        <4>2. CASE i = Len(queue) + 1
          BY <1>3, <2>3, <2>5, <2>10, <4>2
        <4> QED
          BY <3>1, <4>1, <4>2
      <3>3. ASSUME NEW i \in DOMAIN queue', NEW j \in DOMAIN queue', i < j
            PROVE  depth'[queue'[i]] <= depth'[queue'[j]]
        <4>1. i \in DOMAIN queue
          BY <2>10, <3>3
        <4>2. depth'[queue'[i]] = depth[queue[i]] /\ queue[i] \in Visited
          BY <2>3, <2>9, <2>10, <4>1
        <4>3. CASE j \in DOMAIN queue
          <5>1. depth'[queue'[j]] = depth[queue[j]]
            BY <2>3, <2>9, <2>10, <4>3
          <5> QED
            BY <3>3, <4>1, <4>2, <4>3, <5>1 DEF LevelByLevel
        <4>4. CASE j = Len(queue) + 1
          <5>1. depth'[queue'[j]] = depth[current] + 1
            BY <2>3, <2>10, <4>4
          <5> QED
            BY <1>3, <4>2, <5>1
        <4> QED
          BY <3>1, <4>3, <4>4
      <3>4. \A t \in Visited' : depth'[t] <= depth[current] + 1
        BY <1>3, <1>4, <2>3, <2>4, <2>5
      <3>5. depth'[current] = depth[current]
        BY <1>2, <1>4, <2>3
      <3> QED
        BY <1>1, <1>2, <2>5, <3>2, <3>3, <3>4, <3>5 DEF LevelByLevel
    <2>12. NoneMissed'
      <3>1. ASSUME NEW t \in Visited', depth'[t] < maxDepth
            PROVE  Waiting(t)' \/ Explored(t, prereq[t])'
        <4>1. CASE t = p
          <5>1. Len(queue) + 1 \in DOMAIN queue'
            BY <2>10
          <5> QED
            BY <2>10, <4>1, <5>1 DEF Waiting
        <4>2. CASE t \in Visited
          <5>1. t \in Terms \ {p} /\ depth'[t] = depth[t]
            BY <1>3, <1>4, <2>3, <4>2
          <5>2. CASE Waiting(t)
            BY <1>1, <2>10, <5>2 DEF Waiting
          <5>3. CASE Explored(t, prereq[t])
            <6>1. \A u \in prereq[t] \cap Terms : u \in Visited /\ u \in Terms \ {p} /\ depth[u] <= depth[t] + 1
              BY <1>3, <1>4, <5>3 DEF Explored
            <6> QED
              BY <1>1, <2>3, <2>5, <5>1, <6>1 DEF Explored
          <5> QED
            BY <1>1, <3>1, <4>2, <5>1, <5>2, <5>3 DEF NoneMissed
        <4> QED
          BY <2>5, <4>1, <4>2
      <3>2. Explored(current, prereq[current] \ todo)'
        <4>1. Explored(current, prereq[current] \ todo)
          BY <1>1, <1>2 DEF NoneMissed
        <4>2. ASSUME NEW u \in (prereq[current] \ todo') \cap Terms
              PROVE  u \in Visited' /\ depth'[u] <= depth'[current] + 1
          <5>1. depth'[current] = depth[current]
            BY <1>2, <1>4, <2>3
          <5>2. CASE u = p
            BY <1>3, <2>3, <2>5, <5>1, <5>2
          <5>3. CASE u # p
            <6>1. u \in (prereq[current] \ todo) \cap Terms
              BY <1>1, <5>3
            <6>2. u \in Visited /\ depth[u] <= depth[current] + 1
              BY <4>1, <6>1 DEF Explored
            <6>3. depth'[u] = depth[u]
              BY <2>3, <5>3, <6>1
            <6> QED
              BY <2>5, <5>1, <6>2, <6>3
          <5> QED
            BY <5>2, <5>3
        <4> QED
          BY <1>1, <4>2 DEF Explored
      <3>3. todo' \subseteq prereq[current] /\ depth'[current] < maxDepth
        BY <1>1, <1>2, <1>4, <2>3
      <3> QED
        BY <1>1, <3>1, <3>2, <3>3 DEF NoneMissed
    <2> QED
      BY <1>1, <2>6, <2>7, <2>8, <2>11, <2>12 DEF Fresh, Served
  <1>5. CASE ~(p \in Terms /\ p \notin Visited)
    <2>1. UNCHANGED <<depth, goal, via, queue>>
      BY <1>5 DEF Visit, nodes
    <2>2. Visited' = Visited /\ Roots' = Roots
      BY <1>1, <2>1 DEF Visited, Roots
    <2>3. TypeOK'
      BY <1>1, <2>1 DEF Visit, TypeOK, input, labels, Depths
    <2>4. Chained' /\ Rooted' /\ LevelByLevel'
      BY <1>1, <2>1, <2>2 DEF Chained, Found, Rooted, LevelByLevel
    <2>5. NoneMissed'
      <3>1. \A t \in Visited : Waiting(t)' = Waiting(t) /\ Explored(t, prereq[t])' = Explored(t, prereq[t])
        BY <1>1, <2>1, <2>2 DEF Waiting, Explored
      <3>2. Explored(current, prereq[current] \ todo)
        BY <1>1, <1>2 DEF NoneMissed
      <3>3. \A u \in (prereq[current] \ todo') \cap Terms : u \in Visited /\ depth[u] <= depth[current] + 1
        BY <1>1, <1>3, <1>5, <3>2 DEF Explored
      <3>4. Explored(current, prereq[current] \ todo)'
        BY <1>1, <2>1, <2>2, <3>3 DEF Explored
      <3>5. todo' \subseteq prereq[current]
        BY <1>1, <1>2
      <3> QED
        BY <1>1, <1>2, <2>1, <2>2, <3>1, <3>4, <3>5 DEF NoneMissed
    <2> QED
      BY <1>1, <2>3, <2>4, <2>5 DEF Fresh, Served
  <1> QED
    BY <1>4, <1>5

LEMMA SelectStep ==
  ASSUME LearningPathAssumption, IInv, NEW n \in 0 .. Cardinality(Terms), Select(n)
  PROVE  IInv'
  <1> USE DEF IInv
  <1>1. /\ pc = "select" /\ pc' = "done" /\ path' = Ranked(Kept(n), StudyFirst) /\ queue = <<>>
        /\ UNCHANGED <<prereq, match, maxDepth, depth, goal, via, roots, queue, current, todo>>
    BY DEF Select, NoneMissed, input, labels, nodes
  <1>2. Visited' = Visited /\ Roots' = Roots /\ StudyFirst' = StudyFirst /\ NearestFirst' = NearestFirst
    BY <1>1 DEF Visited, Roots, StudyFirst, NearestFirst, Before
  <1>3. n \in Nat /\ path' \in Seq(Terms)
    BY <1>1, KeptSorted
  <1>4. Kept(n)' = Kept(n)
    BY <1>2 DEF Kept
  <1>5. TypeOK'
    BY <1>1, <1>3 DEF Select, TypeOK, input, labels, nodes, Depths
  <1>6. Fresh' /\ Chained' /\ Rooted' /\ LevelByLevel'
    BY <1>1, <1>2 DEF Fresh, Chained, Found, Rooted, LevelByLevel
  <1>7. NoneMissed'
    BY <1>1, <1>2 DEF NoneMissed, Waiting, Explored
  <1>8. Served'
    BY <1>1, <1>2, <1>3, <1>4 DEF Served
  <1> QED
    BY <1>5, <1>6, <1>7, <1>8

LEMMA DoneStep ==
  ASSUME IInv, UNCHANGED vars
  PROVE  IInv'
  <1> USE DEF IInv
  <1>1. /\ UNCHANGED <<prereq, match, maxDepth, weak, unmatched, roots, depth, goal, via, queue>>
        /\ UNCHANGED <<current, todo, path, pc>>
    BY DEF vars, input, labels, nodes
  <1>2. Visited' = Visited /\ Roots' = Roots /\ StudyFirst' = StudyFirst /\ NearestFirst' = NearestFirst
    BY <1>1 DEF Visited, Roots, StudyFirst, NearestFirst, Before
  <1>3. \A n \in Nat : Kept(n)' = Kept(n)
    BY <1>2 DEF Kept
  <1>4. TypeOK' /\ Fresh' /\ Chained' /\ Rooted' /\ LevelByLevel'
    BY <1>1, <1>2 DEF TypeOK, Depths, Fresh, Chained, Found, Rooted, LevelByLevel
  <1>5. NoneMissed' /\ Served'
    BY <1>1, <1>2, <1>3 DEF NoneMissed, Waiting, Explored, Served
  <1> QED
    BY <1>4, <1>5

LEMMA NextInv ==
  ASSUME LearningPathAssumption, IInv, [Next]_vars
  PROVE  IInv'
  <1>1. ASSUME NEW p \in Ids, Visit(p) PROVE IInv'
    BY <1>1, VisitStep
  <1>2. ASSUME NEW n \in 0 .. Cardinality(Terms), Select(n) PROVE IInv'
    BY <1>2, SelectStep
  <1> QED
    BY <1>1, <1>2, MatchStep, SeedStep, PopStep, EndVisitStep, EndTraceStep, DoneStep
    DEF Next, Work, Done

-----------------------------------------------------------------------------
(* What the invariant says of the path                                     *)

\* The roots are the terms of depth 0, and the others one step from another term.
LEMMA FoundFrom ==
  ASSUME LearningPathAssumption, IInv, NEW t \in Visited
  PROVE  \/ t \in Roots /\ depth[t] = 0
         \/ /\ t \notin Roots \/ pc = "match"
            /\ via[t] \in Visited /\ depth[t] = depth[via[t]] + 1 /\ depth[via[t]] \in Nat
            /\ t \in prereq[via[t]] /\ goal[t] = goal[via[t]]
  <1>1. Found(t)
    BY DEF IInv, Chained
  <1>2. CASE depth[t] = 0 /\ \E i \in DOMAIN roots : roots[i].term = t
    BY <1>2 DEF Roots
  <1>3. CASE via[t] \in Visited /\ depth[t] = depth[via[t]] + 1
    <2>1. depth[via[t]] \in Nat
      BY <1>3, VisitedDepth DEF IInv
    <2>2. t \in Roots => pc = "match"
      BY <1>3, <2>1 DEF IInv, Rooted
    <2>3. depth[t] # 0
      BY <1>3, <2>1
    <2> QED
      BY <1>1, <1>3, <2>1, <2>2, <2>3 DEF Found
  <1> QED
    BY <1>1, <1>2, <1>3 DEF Found

LEMMA DepthIsNearest ==
  ASSUME LearningPathAssumption, IInv
  PROVE  DepthIsDistance
  <1> SUFFICES ASSUME pc \in {"select", "done"}
               PROVE  \A n \in Depths : {t \in Visited : depth[t] <= n} = Within(Roots)[n]
    BY DEF DepthIsDistance
  <1> DEFINE Near(n) == {t \in Visited : depth[t] <= n}
             Failing == {n \in Depths : Near(n) # Within(Roots)[n]}
  <1>1. /\ maxDepth \in Nat
        /\ \A t \in Visited : t \in Terms /\ depth[t] \in Nat
        /\ \A t \in Terms : depth[t] \in Nat => t \in Visited
    BY VisitedDepth DEF IInv
  <1>2. /\ Within(Roots)[0] = Roots
        /\ \A n \in 1 .. maxDepth :
              Within(Roots)[n] = Within(Roots)[n - 1] \cup Beyond(Within(Roots)[n - 1])
    BY <1>1, WithinSteps
  <1>3. ASSUME Failing # {} PROVE FALSE
    <2>1. PICK m \in Failing : \A n \in Failing : m <= n
      <3>1. Failing \subseteq Nat
        BY <1>1 DEF Depths
      <3> HIDE DEF Failing
      <3> QED
        BY <1>3, <3>1, LeastNumber
    <2>2. Near(0) = Roots
      <3>1. \A t \in Roots : t \in Terms /\ depth[t] = 0
        BY RootFields DEF IInv, Rooted
      <3>2. ASSUME NEW t \in Near(0) PROVE t \in Roots
        <4>1. t \in Visited /\ depth[t] = 0
          BY <1>1
        <4> QED
          BY <4>1, FoundFrom
      <3> QED
        BY <1>1, <3>1, <3>2
    <2>3. m \in 1 .. maxDepth /\ m - 1 \in Depths /\ m - 1 \notin Failing
      <3>1. m \in 0 .. maxDepth /\ m # 0
        BY <2>1, <2>2, <1>2 DEF Depths
      <3> HIDE DEF Failing
      <3> QED
        BY <1>1, <2>1, <3>1 DEF Depths
    <2>4. Within(Roots)[m] = Near(m - 1) \cup Beyond(Near(m - 1))
      BY <1>2, <2>3
    <2>5. ASSUME NEW t \in Near(m) PROVE t \in Near(m - 1) \cup Beyond(Near(m - 1))
      <3>1. CASE depth[t] = m
        <4>1. via[t] \in Visited /\ depth[t] = depth[via[t]] + 1 /\ depth[via[t]] \in Nat /\ t \in prereq[via[t]]
          BY <2>3, <3>1, FoundFrom
        <4>2. via[t] \in Near(m - 1) /\ t \in Terms
          BY <1>1, <2>3, <3>1, <4>1
        <4> QED
          BY <4>1, <4>2 DEF Beyond
      <3>2. CASE depth[t] # m
        BY <1>1, <2>3, <3>2
      <3> QED
        BY <3>1, <3>2
    <2>6. ASSUME NEW t \in Beyond(Near(m - 1)) PROVE t \in Near(m)
      <3>1. PICK u \in Visited : t \in Terms /\ t \in prereq[u] /\ depth[u] <= m - 1
        BY DEF Beyond
      <3>2. depth[u] \in Nat /\ depth[u] < maxDepth
        BY <1>1, <2>3, <3>1
      <3>3. ~Waiting(u)
        BY DEF IInv, NoneMissed, Waiting
      <3>4. Explored(u, prereq[u])
        BY <3>2, <3>3 DEF IInv, NoneMissed
      <3>5. t \in Visited /\ depth[t] <= depth[u] + 1
        BY <3>1, <3>4 DEF Explored
      <3> QED
        BY <1>1, <2>3, <3>1, <3>2, <3>5
    <2>7. Near(m - 1) \subseteq Near(m)
      BY <1>1, <2>3
    <2>8. Near(m) = Within(Roots)[m]
      BY <2>4, <2>5, <2>6, <2>7
    <2> QED
      BY <2>1, <2>8
  <1> QED
    BY <1>3

LEMMA WhysAreTrue ==
  ASSUME LearningPathAssumption, IInv
  PROVE  WhyIsTrue
  <1> DEFINE named(g) == {roots[i].term : i \in {j \in DOMAIN roots : roots[j].label = g}}
  <1> SUFFICES ASSUME pc \in {"select", "done"}
               PROVE  \A t \in Visited :
                         /\ t \in Within(named(goal[t]))[depth[t]]
                         /\ via[t] # None => t \in prereq[via[t]] /\ goal[via[t]] = goal[t]
    BY DEF WhyIsTrue
  <1>1. /\ maxDepth \in Nat
        /\ \A t \in Visited : t \in Terms /\ depth[t] \in Nat /\ depth[t] <= maxDepth
    BY VisitedDepth DEF IInv
  <1>2. \A t \in Visited : via[t] # None => t \in prereq[via[t]] /\ goal[via[t]] = goal[t]
    BY DEF IInv, Chained, Found
  <1> DEFINE Wrong == {t \in Visited : t \notin Within(named(goal[t]))[depth[t]]}
             Failing == {n \in Nat : \E t \in Wrong : depth[t] = n}
  <1>3. ASSUME Wrong # {} PROVE FALSE
    <2>1. PICK m \in Failing : \A n \in Failing : m <= n
      <3>1. Failing # {} /\ Failing \subseteq Nat
        BY <1>1, <1>3
      <3> HIDE DEF Failing
      <3> QED
        BY <3>1, LeastNumber
    <2>2. PICK t \in Wrong : depth[t] = m
      BY <2>1
    <2>3. PICK W : W = Within(named(goal[t]))
      OBVIOUS
    <2>4. /\ W[0] = named(goal[t])
          /\ \A n \in 1 .. maxDepth : W[n] = W[n - 1] \cup Beyond(W[n - 1])
      BY <1>1, <2>3, WithinSteps
    <2>5. t \in Visited /\ t \in Terms /\ m \in Nat /\ m <= maxDepth /\ t \notin W[m]
      BY <1>1, <2>2, <2>3
    <2>6. Found(t)
      BY <2>5 DEF IInv, Chained
    <2>7. CASE depth[t] = 0 /\ \E i \in DOMAIN roots : roots[i].term = t /\ roots[i].label = goal[t]
      BY <2>2, <2>4, <2>5, <2>7
    <2>8. CASE via[t] \in Visited /\ depth[t] = depth[via[t]] + 1 /\ t \in prereq[via[t]] /\ goal[t] = goal[via[t]]
      <3>1. depth[via[t]] = m - 1 /\ m - 1 \in Nat /\ m \in 1 .. maxDepth
        BY <1>1, <2>2, <2>5, <2>8
      <3>2. m - 1 \notin Failing
        <4> HIDE DEF Failing
        <4> QED
          BY <2>1, <2>5, <3>1
      <3>3. via[t] \in W[m - 1]
        BY <2>3, <2>8, <3>1, <3>2
      <3>4. t \in Beyond(W[m - 1])
        BY <2>5, <2>8, <3>3 DEF Beyond
      <3> QED
        BY <2>4, <2>5, <3>1, <3>4
    <2> QED
      BY <2>6, <2>7, <2>8 DEF Found
  <1> QED
    BY <1>2, <1>3

\* What is kept holds, with a term, all that come before it in the selection.
LEMMA KeptIsNearest ==
  ASSUME LearningPathAssumption, TypeOK, NEW n \in Nat,
         NEW t \in Kept(n), NEW u \in Visited, <<u, t>> \in NearestFirst
  PROVE  u \in Kept(n)
  <1>1. t \in Visited /\ Rank(Visited, NearestFirst, t) < n
    BY DEF Kept
  <1>2. Rank(Visited, NearestFirst, u) < Rank(Visited, NearestFirst, t)
    BY <1>1, StrictOrders, RankGrows
  <1>3. /\ Rank(Visited, NearestFirst, u) \in 0 .. Cardinality(Visited) - 1
        /\ Rank(Visited, NearestFirst, t) \in 0 .. Cardinality(Visited) - 1
        /\ Cardinality(Visited) \in Nat
    BY <1>1, StrictOrders, RankBelow, FS_CardinalityType
  <1>4. Rank(Visited, NearestFirst, u) < n
    BY <1>1, <1>2, <1>3
  <1> QED
    BY <1>4 DEF Kept

LEMMA RootsAreServed ==
  ASSUME LearningPathAssumption, IInv
  PROVE  PathServesRoots
  <1>1. TypeOK
    BY DEF IInv
  <1>2. CASE path = <<>>
    BY <1>2 DEF PathServesRoots, Kepts
  <1>3. ASSUME pc = "done", NEW n \in Nat, path = Ranked(Kept(n), StudyFirst) PROVE PathServesRoots
    <2>1. /\ Kept(n) \subseteq Visited
          /\ \A i \in DOMAIN path : path[i] \in Kept(n)
          /\ \A t \in Kept(n) : \E i \in DOMAIN path : path[i] = t
          /\ \A i, j \in DOMAIN path : <<path[i], path[j]>> \in StudyFirst => i < j
      BY <1>1, <1>3, KeptSorted
    <2>2. \A t \in Visited : t \in Terms /\ depth[t] \in Nat
      BY <1>1, VisitedDepth
    <2>3. ASSUME NEW i \in DOMAIN path, path[i] \notin Roots
          PROVE  \E j \in DOMAIN path : j > i /\ path[j] = via[path[i]]
      <3>1. PICK t : t = path[i]
        OBVIOUS
      <3>2. t \in Kept(n) /\ t \in Visited /\ t \notin Roots
        BY <2>1, <2>3, <3>1
      <3>3. via[t] \in Visited /\ depth[t] = depth[via[t]] + 1 /\ depth[via[t]] \in Nat
        BY <3>2, FoundFrom
      <3>4. <<via[t], t>> \in NearestFirst /\ <<t, via[t]>> \in StudyFirst
        BY <3>2, <3>3 DEF NearestFirst, StudyFirst, Before
      <3>5. via[t] \in Kept(n)
        BY <1>1, <3>2, <3>3, <3>4, KeptIsNearest
      <3>6. PICK j \in DOMAIN path : path[j] = via[t]
        BY <2>1, <3>5
      <3>7. i < j
        BY <2>1, <3>1, <3>4, <3>6
      <3>8. i \in Nat /\ j \in Nat
        BY <1>1 DEF TypeOK
      <3> QED
        BY <3>1, <3>6, <3>7, <3>8
    <2>4. ASSUME NEW t \in Kepts \ Roots, NEW r \in Roots PROVE r \in Kepts
      <3>1. t \in Kept(n) /\ t \in Visited /\ t \notin Roots
        BY <2>1 DEF Kepts
      <3>2. depth[t] # 0
        BY <1>3, <3>1, FoundFrom
      <3>3. r \in Terms /\ depth[r] = 0
        BY <1>1, <1>3, RootFields DEF IInv, Rooted
      <3>4. r \in Visited
        BY <1>1, <3>3, VisitedDepth
      <3>5. <<r, t>> \in NearestFirst
        BY <2>2, <3>1, <3>2, <3>3, <3>4 DEF NearestFirst, Before
      <3>6. r \in Kept(n)
        BY <1>1, <3>1, <3>4, <3>5, KeptIsNearest
      <3> QED
        BY <2>1, <3>6 DEF Kepts
    <2> QED
      BY <2>3, <2>4 DEF PathServesRoots
  <1> QED
    BY <1>2, <1>3 DEF IInv, Served

-----------------------------------------------------------------------------
\* build_learning_path, for any graph of prerequisites, cyclic or with terms that are
\* missing, any labels and any limits: every depth is the distance, every "why" is
\* true, and whatever is cut off, no prerequisite is without what it is for.
THEOREM PathIsSound ==
  ASSUME LearningPathAssumption
  PROVE  Spec => [](DepthIsDistance /\ WhyIsTrue /\ PathServesRoots)
  <1>1. Init => IInv
    BY InitInv
  <1>2. IInv /\ [Next]_vars => IInv'
    BY NextInv
  <1>3. IInv => DepthIsDistance /\ WhyIsTrue /\ PathServesRoots
    BY DepthIsNearest, WhysAreTrue, RootsAreServed
  <1> QED
    BY <1>1, <1>2, <1>3, PTL DEF Spec

-----------------------------------------------------------------------------
(* One engine runs, and the others have no state.                          *)

\* IInv is the invariant of the learning path.
PathRuns == part = "path" => IInv

\* build_learning_path (learning_path.py) serves the learner for any table of terms, any weakness
\* and any limits: the depth of a term is its distance from what the learner is weak at, its
\* "why" is true, and nothing on the path is there for nothing.
THEOREM PathServesLearnerHolds ==
  EnginesSpec => []PathServesLearner
  <1>1. EnginesInit => PathRuns
    BY EnginesAssumption, InitInv DEF EnginesInit, PathRuns
  <1>2. PathRuns /\ [EnginesNext]_allVars => PathRuns'
    <2> SUFFICES ASSUME PathRuns, [EnginesNext]_allVars, part' = "path" PROVE IInv'
      BY DEF PathRuns
    <2>1. part' = part /\ [Next]_vars
      BY DEF EnginesNext, allVars
    <2> QED
      BY <2>1, EnginesAssumption, NextInv DEF PathRuns
  <1>3. PathRuns => PathServesLearner
    BY EnginesAssumption, DepthIsNearest, WhysAreTrue, RootsAreServed DEF PathRuns, PathServesLearner, IInv
  <1> QED
    BY <1>1, <1>2, <1>3, PTL DEF EnginesSpec

\* An instance has the operators of the libraries it uses.
LEMMA Cardinalities == \A S : Bench!Cardinality(S) = Cardinality(S)
  BY DEF Bench!Cardinality, Cardinality

-----------------------------------------------------------------------------
(* The vote of an ensemble.                                                *)

\* The members with an answer.
Who(chosen, a) == {j \in DOMAIN chosen : chosen[j] = a}

\* They are as many as a number up to the size of the ensemble.
LEMMA WhoFacts ==
  ASSUME NEW n \in Nat, NEW chosen \in [1 .. n -> Nat \cup {-1}], NEW a
  PROVE  /\ Who(chosen, a) \subseteq 1 .. n
         /\ IsFiniteSet(Who(chosen, a)) /\ Cardinality(Who(chosen, a)) \in 0 .. n
         /\ Cardinality(Who(chosen, a)) = 0 <=> Who(chosen, a) = {}
  <1>1. Who(chosen, a) \subseteq 1 .. n
    BY DEF Who
  <1>2. IsFiniteSet(1 .. n) /\ Cardinality(1 .. n) = n
    <2>1. Cardinality(1 .. n) = IF 1 > n THEN 0 ELSE n - 1 + 1
      BY FS_Interval
    <2> QED BY <2>1, FS_Interval
  <1>3. IsFiniteSet(Who(chosen, a)) /\ Cardinality(Who(chosen, a)) <= n
    BY <1>1, <1>2, FS_Subset
  <1>4. Cardinality(Who(chosen, a)) \in Nat
    BY <1>3, FS_CardinalityType
  <1>5. Cardinality(Who(chosen, a)) = 0 <=> Who(chosen, a) = {}
    BY <1>3, FS_EmptySet
  <1> QED BY <1>1, <1>3, <1>4, <1>5

\* votes keeps the members that have an answer, so that Count counts them (ensemble.py).
LEMMA VotesCounted ==
  ASSUME NEW n \in Nat, NEW chosen \in [1 .. n -> Nat \cup {-1}],
         NEW vs, vs = Bench!votes(chosen)
  PROVE  /\ vs \in Seq(Nat) /\ Len(vs) = Cardinality({i \in 1 .. n : chosen[i] \in Nat})
         /\ Bench!Range(vs) = {chosen[i] : i \in {j \in 1 .. n : chosen[j] \in Nat}}
         /\ \A a \in Nat : Bench!Count(vs, a) = Cardinality(Who(chosen, a))
  <1> DEFINE V == Nat \cup {-1}
  <1>1. chosen \in Seq(V) /\ DOMAIN chosen = 1 .. n
    OBVIOUS
  <1>2. vs = Selected(chosen, Nat)
    BY DEF Bench!votes, Bench!Selected, Selected
  <1>3. vs \in Seq(V \cap Nat) /\ \E at : SelectedAt(at, chosen, Nat)
    BY <1>1, <1>2, SelectedIsSubsequence
  <1>4. Len(vs) = NumberIn(chosen, Nat)
    BY <1>1, <1>2, SelectedLength
  <1>5. ASSUME NEW a \in Nat PROVE Bench!Count(vs, a) = Cardinality(Who(chosen, a))
    <2>1. Bench!Count(vs, a) = NumberIn(vs, {a})
      <3>1. {i \in DOMAIN vs : vs[i] = a} = {i \in DOMAIN vs : vs[i] \in {a}}
        OBVIOUS
      <3> QED BY <3>1, Cardinalities DEF Bench!Count, NumberIn
    <2>2. NumberIn(vs, {a}) = NumberIn(chosen, Nat \cap {a})
      BY <1>1, <1>2, SelectedCounts
    <2>3. {i \in DOMAIN chosen : chosen[i] \in Nat \cap {a}} = Who(chosen, a)
      BY DEF Who
    <2> QED BY <2>1, <2>2, <2>3 DEF NumberIn
  <1>6. PICK at : SelectedAt(at, chosen, Nat)
    BY <1>3
  <1>7. Len(chosen) = n /\ DOMAIN vs = 1 .. Len(vs)
    BY <1>1, <1>3
  <1>8. ASSUME NEW k \in DOMAIN vs PROVE \E j \in 1 .. n : chosen[j] \in Nat /\ vs[k] = chosen[j]
    <2>1. k \in DOMAIN at /\ at[k] \in 1 .. n /\ vs[k] = chosen[at[k]]
      BY <1>2, <1>6, <1>7 DEF SelectedAt
    <2>2. vs[k] \in Nat
      BY <1>3
    <2> QED BY <2>1, <2>2
  <1>9. ASSUME NEW j \in 1 .. n, chosen[j] \in Nat PROVE \E k \in DOMAIN vs : vs[k] = chosen[j]
    <2>1. \A i \in 1 .. Len(chosen) : chosen[i] \in Nat =>
             \E k \in DOMAIN Selected(chosen, Nat) : Selected(chosen, Nat)[k] = chosen[i]
      <3> HIDE DEF V
      <3> QED BY <1>1, SelectedIsComplete
    <2> QED BY <1>2, <1>7, <1>9, <2>1
  <1>10. Bench!Range(vs) = {chosen[i] : i \in {j \in 1 .. n : chosen[j] \in Nat}}
    BY <1>8, <1>9 DEF Bench!Range
  <1>11. vs \in Seq(Nat)
    <2>1. V \cap Nat = Nat
      OBVIOUS
    <2> QED BY <1>3, <2>1
  <1>12. {i \in DOMAIN chosen : chosen[i] \in Nat} = {i \in 1 .. n : chosen[i] \in Nat}
    OBVIOUS
  <1> QED BY <1>4, <1>5, <1>10, <1>11, <1>12 DEF NumberIn

\* What the members elect: the answer of most of those that have one.
Elects(chosen, answer, unanimous) ==
    IF Who(chosen, -1) = DOMAIN chosen THEN answer = -1
    ELSE /\ answer \in Nat /\ Who(chosen, answer) # {}
         /\ \A a \in Nat :
              \/ Cardinality(Who(chosen, a)) < Cardinality(Who(chosen, answer))
              \/ a = answer
              \/ /\ Cardinality(Who(chosen, a)) = Cardinality(Who(chosen, answer))
                 /\ Bench!Min(Who(chosen, answer)) < Bench!Min(Who(chosen, a))
         /\ unanimous <=> Who(chosen, answer) = DOMAIN chosen

\* Least and greatest.
LEMMA MinFacts ==
  ASSUME NEW S, S \subseteq Nat, S # {}
  PROVE  Bench!Min(S) \in S /\ \A k \in S : Bench!Min(S) <= k
  <1>1. \E m \in S : \A k \in S : m <= k
    BY LeastNumber
  <1> QED BY <1>1, Zenon DEF Bench!Min

LEMMA MaxFacts ==
  ASSUME NEW n \in Nat, NEW S, S \subseteq 0 .. n, S # {}
  PROVE  Bench!Max(S) \in S /\ \A k \in S : k <= Bench!Max(S)
  <1>1. PICK m \in S : \A k \in S : k <= m
    BY GreatestNumber
  <1>2. \A k \in S : m >= k
    BY <1>1
  <1>3. Bench!Max(S) \in S /\ \A k \in S : Bench!Max(S) >= k
    BY <1>2, Zenon DEF Bench!Max
  <1> QED BY <1>3

\* A field that is a truth value.
LEMMA Fields ==
  ASSUME NEW e, NEW a, NEW b, NEW u, e = [chosen |-> a, agreement |-> b, unanimous |-> u]
  PROVE  e.unanimous = u
  OBVIOUS

\* EnsembleSolver takes the answer of most members, of those tied the one given first, and
\* calls it unanimous when all members gave it.
LEMMA EnsembleElects ==
  ASSUME NEW n \in Nat, NEW chosen \in [1 .. n -> Nat \cup {-1}],
         NEW e, e = Bench!EnsembleSolver(chosen)
  PROVE  Elects(chosen, e.chosen, e.unanimous)
  <1> DEFINE vs == Bench!votes(chosen)
             V == Bench!Range(vs)
             Counts == {Bench!Count(vs, v) : v \in V}
             top == Bench!Max(Counts)
             Tied == {v \in V : Bench!Count(vs, v) = top}
             At == {i \in DOMAIN chosen : chosen[i] \in Tied}
             first == Bench!Min(At)
             Voters == {j \in 1 .. n : chosen[j] \in Nat}
  <1>1. e = IF vs = <<>> THEN [chosen |-> -1, agreement |-> <<0, 1>>, unanimous |-> FALSE]
            ELSE [chosen |-> chosen[first], agreement |-> <<top, Len(vs)>>,
                  unanimous |-> Bench!Cardinality(V) = 1 /\ Len(vs) = Len(chosen)]
    BY Zenon DEF Bench!EnsembleSolver
  <1>2. /\ vs \in Seq(Nat) /\ Len(vs) = Cardinality(Voters)
        /\ V = {chosen[i] : i \in Voters}
        /\ \A a \in Nat : Bench!Count(vs, a) = Cardinality(Who(chosen, a))
    BY VotesCounted
  <1> HIDE DEF vs
  <1>3. DOMAIN chosen = 1 .. n
    OBVIOUS
  <1>4. IsFiniteSet(1 .. n) /\ Cardinality(1 .. n) = n
    <2>1. Cardinality(1 .. n) = IF 1 > n THEN 0 ELSE n - 1 + 1
      BY FS_Interval
    <2> QED BY <2>1, FS_Interval
  <1>5. IsFiniteSet(Voters)
    <2>1. Voters \subseteq 1 .. n
      OBVIOUS
    <2> QED BY <1>4, <2>1, FS_Subset
  <1>6. vs = <<>> <=> Voters = {}
    <2>1. vs = <<>> <=> Len(vs) = 0
      BY <1>2
    <2> QED BY <1>2, <1>5, <2>1, FS_EmptySet
  <1>7. Voters = {} <=> Who(chosen, -1) = DOMAIN chosen
    BY <1>3 DEF Who
  <1>8. CASE Voters = {}
    <2>1. e.chosen = -1
      BY <1>1, <1>6, <1>8
    <2> QED BY <1>7, <1>8, <2>1 DEF Elects
  <1>9. CASE Voters # {}
    <2>1. e = [chosen |-> chosen[first], agreement |-> <<top, Len(vs)>>,
               unanimous |-> Bench!Cardinality(V) = 1 /\ Len(vs) = Len(chosen)]
      BY <1>1, <1>6, <1>9, Zenon
    <2>2. /\ e.chosen = chosen[first]
          /\ e.unanimous <=> Cardinality(V) = 1 /\ Len(vs) = n
      <3>1. Len(chosen) = n
        OBVIOUS
      <3> HIDE DEF V, first, top
      <3>2. Bench!Cardinality(V) = Cardinality(V)
        BY Cardinalities
      <3>3. e.chosen = chosen[first]
        BY <2>1
      <3>4. e.unanimous = (Bench!Cardinality(V) = 1 /\ Len(vs) = Len(chosen))
        BY <2>1, Fields, ZenonT(60)
      <3> QED BY <3>1, <3>2, <3>3, <3>4, Zenon
    <2>3. \A x : x \in V <=> \E i \in Voters : x = chosen[i]
      <3> HIDE DEF V
      <3> QED BY <1>2
    <2> HIDE DEF V
    <2>4. V \subseteq Nat /\ V # {}
      BY <1>9, <2>3
    <2>5. \A v \in V : Bench!Count(vs, v) = Cardinality(Who(chosen, v)) /\ Who(chosen, v) # {}
      BY <1>2, <1>3, <2>3, <2>4 DEF Who
    <2>6. top \in Counts /\ \A k \in Counts : k <= top
      <3>1. Counts \subseteq 0 .. n
        BY <2>5, WhoFacts
      <3>2. Counts # {}
        BY <2>4
      <3> HIDE DEF Counts
      <3> QED BY <3>1, <3>2, MaxFacts
    <2> HIDE DEF top
    <2>7. At # {} /\ At \subseteq Nat
      <3>1. PICK v \in V : Bench!Count(vs, v) = top
        BY <2>6
      <3> QED BY <2>3, <3>1
    <2>8. first \in At /\ \A i \in At : first <= i
      <3> HIDE DEF At
      <3> QED BY <2>7, MinFacts
    <2> HIDE DEF first
    <2> DEFINE c == chosen[first]
    <2>9. c \in V /\ Cardinality(Who(chosen, c)) = top /\ c \in Nat
      BY <2>4, <2>5, <2>8
    <2>10. top \in Nat /\ top # 0
      <3>1. top \in 0 .. n /\ (top = 0 <=> Who(chosen, c) = {})
        BY <2>9, WhoFacts
      <3> QED BY <2>5, <2>9, <3>1
    <2>11. first \in Who(chosen, c) /\ Who(chosen, c) \subseteq At
      BY <1>3, <2>8 DEF Who
    <2>12. Bench!Min(Who(chosen, c)) = first
      <3>1. Who(chosen, c) \subseteq Nat /\ Who(chosen, c) # {}
        BY <2>7, <2>11
      <3>2. Bench!Min(Who(chosen, c)) \in Who(chosen, c) /\ Bench!Min(Who(chosen, c)) <= first
        BY <2>11, <3>1, MinFacts
      <3>3. first <= Bench!Min(Who(chosen, c))
        BY <2>8, <2>11, <3>2
      <3>4. Bench!Min(Who(chosen, c)) \in Nat /\ first \in Nat
        BY <2>7, <2>8, <3>1, <3>2
      <3> QED BY <3>2, <3>3, <3>4
    <2>13. ASSUME NEW a \in Nat, a # c, ~(Cardinality(Who(chosen, a)) < top)
           PROVE  Cardinality(Who(chosen, a)) = top /\ first < Bench!Min(Who(chosen, a))
      <3>1. Cardinality(Who(chosen, a)) \in Nat /\ (Cardinality(Who(chosen, a)) = 0 <=> Who(chosen, a) = {})
        BY WhoFacts
      <3>2. Who(chosen, a) # {}
        BY <2>10, <2>13, <3>1
      <3>3. a \in V
        BY <1>3, <2>3, <2>13, <3>2 DEF Who
      <3>4. Cardinality(Who(chosen, a)) = top
        BY <2>5, <2>6, <2>10, <2>13, <3>1, <3>3
      <3>5. a \in Tied
        BY <2>5, <3>3, <3>4
      <3>6. Who(chosen, a) \subseteq At
        BY <1>3, <3>5 DEF Who
      <3>7. Bench!Min(Who(chosen, a)) \in Who(chosen, a)
        BY <2>7, <3>2, <3>6, MinFacts
      <3>8. first <= Bench!Min(Who(chosen, a)) /\ first # Bench!Min(Who(chosen, a))
        BY <2>8, <2>13, <3>6, <3>7 DEF Who
      <3>9. first \in Nat /\ Bench!Min(Who(chosen, a)) \in Nat
        BY <2>7, <2>8, <3>6, <3>7
      <3> QED BY <3>4, <3>8, <3>9
    <2>14. (Cardinality(V) = 1 /\ Len(vs) = n) <=> Who(chosen, c) = 1 .. n
      <3>1. ASSUME Cardinality(V) = 1, Len(vs) = n PROVE Who(chosen, c) = 1 .. n
        <4>1. Voters = 1 .. n
          <5>1. Voters \subseteq 1 .. n /\ Cardinality(Voters) = Cardinality(1 .. n)
            BY <1>2, <1>4, <3>1
          <5> HIDE DEF Voters
          <5> QED BY <1>4, <5>1, FS_Subset
        <4>2. PICK x : V = {x}
          <5>1. IsFiniteSet(V)
            <6> DEFINE f == [i \in Voters |-> chosen[i]]
            <6>1. f \in Surjection(Voters, V)
              BY <2>3 DEF Surjection
            <6> HIDE DEF f, Voters
            <6> QED BY <1>5, <6>1, FS_Surjection
          <5> HIDE DEF V
          <5> QED BY <3>1, <5>1, FS_Singleton
        <4>3. \A i \in 1 .. n : chosen[i] = c
          BY <2>3, <2>9, <4>1, <4>2
        <4> QED BY <1>3, <4>3 DEF Who
      <3>2. ASSUME Who(chosen, c) = 1 .. n PROVE Cardinality(V) = 1 /\ Len(vs) = n
        <4>1. \A i \in 1 .. n : chosen[i] = c
          BY <3>2 DEF Who
        <4>2. Voters = 1 .. n
          BY <2>9, <4>1
        <4>3. V = {c}
          BY <1>9, <2>3, <2>9, <4>1, <4>2
        <4> QED BY <1>2, <1>4, <4>2, <4>3, FS_Singleton
      <3> QED BY <3>1, <3>2
    <2>15. e.chosen = c /\ (e.unanimous <=> Who(chosen, c) = DOMAIN chosen)
      BY <1>3, <2>2, <2>14
    <2>16. ASSUME NEW a \in Nat
           PROVE  \/ Cardinality(Who(chosen, a)) < Cardinality(Who(chosen, c))
                  \/ a = c
                  \/ /\ Cardinality(Who(chosen, a)) = Cardinality(Who(chosen, c))
                     /\ Bench!Min(Who(chosen, c)) < Bench!Min(Who(chosen, a))
      <3> HIDE DEF c
      <3> QED BY <2>9, <2>12, <2>13
    <2>17. Who(chosen, c) # {}
      BY <2>11
    <2> HIDE DEF c
    <2> QED BY <1>7, <1>9, <2>9, <2>15, <2>16, <2>17 DEF Elects
  <1> QED BY <1>8, <1>9

-----------------------------------------------------------------------------
(* What a backend says, and the score it makes.                            *)

\* What a backend may have said, and what is taken from it.
Says == Bench!Written \cup {Bench!Raised}
Heard(q, said) == [j \in DOMAIN said |-> Bench!_extract_answer_index(said[j], q)]
Failure(said) == \E j \in DOMAIN said : said[j] = Bench!Raised

\* What the score of a question owes to what was said.
Told(q, said, score) ==
    /\ score.subject = q.subject /\ score.flagged = q.flagged
    /\ score.chosen \in Nat \cup {-1}
    /\ score.correct <=> score.chosen = q.correct_choice
    /\ Failure(said) => score.chosen = -1
    /\ score.chosen # -1 => \E j \in DOMAIN said : said[j].said = score.chosen

\* An ensemble elects the answer it is scored for, when no member raised an exception.
Elected(q, said, score) ==
    Failure(said) \/ Elects(Heard(q, said), score.chosen, score.unanimous)

\* A question of the bank.
IsQuestion(q) ==
    q.choices \in Nat /\ q.correct_choice \in Nat /\ q.flagged \in BOOLEAN /\ q.subject # None

\* An exception is none of the texts, and a backend gives texts and exceptions only.
LEMMA RaisedIsNoText == Bench!Raised \notin Bench!Written
  BY DEF Bench!Raised, Bench!Written

LEMMA RepliesAreSaid ==
  ASSUME NEW b \in Bench!Backends
  PROVE  Bench!Replies(b) \subseteq Says
  <1>1. Texts \subseteq Bench!Written
    BY EnginesAssumption DEF Bench!BenchmarkAssumption
  <1>2. [said |-> None, cites |-> 0, insufficient |-> FALSE] \in Bench!Written
    BY DEF Bench!Written
  <1>3. ASSUME NEW f \in BOOLEAN, NEW t \in BOOLEAN, NEW m \in Texts \cup {None},
               NEW s \in Texts \cup {None}, NEW rc \in {0, 1}
        PROVE  Bench!codex_invoke(f, t, m, s, rc) \in Says
    BY <1>1, <1>2, <1>3 DEF Bench!codex_invoke, Bench!OrElse, Says
  <1>4. ASSUME NEW n \in 0 .. 3, NEW t \in Texts PROVE Bench!_call_anthropic(n, t) \in Says
    BY <1>1 DEF Bench!_call_anthropic, Says
  <1>5. ASSUME NEW ok \in BOOLEAN, NEW t \in Texts PROVE Bench!ollama_invoke(ok, t) \in Says
    BY <1>1 DEF Bench!ollama_invoke, Says
  <1>6. CASE b = "codex"
    <2> SUFFICES ASSUME NEW r \in Bench!Replies(b) PROVE r \in Says
      OBVIOUS
    <2>1. Bench!Replies(b) = {Bench!codex_invoke(f, t, m, s, rc) :
              f \in BOOLEAN, t \in BOOLEAN, m \in Texts \cup {None}, s \in Texts \cup {None}, rc \in {0, 1}}
      BY <1>6 DEF Bench!Replies
    <2>2. \E f \in BOOLEAN, t \in BOOLEAN, m \in Texts \cup {None}, s \in Texts \cup {None}, rc \in {0, 1} :
             r = Bench!codex_invoke(f, t, m, s, rc)
      BY <2>1
    <2> QED BY <1>3, <2>2
  <1>7. CASE b = "anthropic"
    <2>1. Bench!Replies(b) = {Bench!_call_anthropic(n, t) : n \in 0 .. 3, t \in Texts}
      BY <1>7 DEF Bench!Replies
    <2> QED BY <1>4, <2>1
  <1>8. CASE b = "ollama"
    <2>1. Bench!Replies(b) = {Bench!ollama_invoke(ok, t) : ok \in BOOLEAN, t \in Texts}
      BY <1>8 DEF Bench!Replies
    <2> QED BY <1>5, <2>1
  <1> QED BY <1>6, <1>7, <1>8 DEF Bench!Backends

\* The answer taken from a text is the one it says, or -1.
LEMMA Extracted ==
  ASSUME NEW q, IsQuestion(q), NEW t \in Bench!Written, NEW x, x = Bench!_extract_answer_index(t, q)
  PROVE  x \in Nat \cup {-1} /\ (x # -1 => t.said = x)
  <1>1. t.said \in Nat \cup {None} /\ None \notin Nat
    BY EnginesAssumption DEF Bench!Written, Bench!BenchmarkAssumption
  <1> QED BY <1>1 DEF Bench!_extract_answer_index, IsQuestion

\* The fields of a score.
LEMMA GradeFacts ==
  ASSUME NEW q, NEW r, NEW score, score = Bench!grade(q, r)
  PROVE  /\ score.subject = q.subject /\ score.flagged = q.flagged
         /\ score.chosen = r.chosen /\ score.unanimous = r.unanimous
         /\ score.correct <=> r.chosen = q.correct_choice
  <1> DEFINE c == r.chosen = q.correct_choice
  <1>1. score = [subject |-> q.subject, difficulty |-> q.difficulty, unit |-> q.unit, correct |-> c,
           chosen |-> r.chosen, cites |-> r.cites, insufficient |-> r.insufficient,
           parsed |-> r.said # None /\ r.chosen >= 0,
           hit |-> Bench!_attractor_hit(q, r.chosen, c), flagged |-> q.flagged,
           unanimous |-> r.unanimous]
    BY DEF Bench!grade
  <1>2. /\ score.subject = q.subject /\ score.flagged = q.flagged
        /\ score.chosen = r.chosen /\ score.unanimous = r.unanimous
    <2> HIDE DEF c
    <2> QED BY <1>1
  <1>3. score.correct = c
    <2> HIDE DEF c
    <2> QED BY <1>1
  <1> QED BY <1>2, <1>3, Zenon

\* The result of a question whose solving raised an exception.
LEMMA ErrorIsTold ==
  ASSUME NEW q, IsQuestion(q), NEW said, NEW score, score = Bench!grade(q, Bench!Error)
  PROVE  Told(q, said, score)
  <1>1. Bench!Error.chosen = -1
    BY DEF Bench!Error
  <1>2. /\ score.subject = q.subject /\ score.flagged = q.flagged
        /\ score.chosen = -1
        /\ score.correct <=> -1 = q.correct_choice
    BY <1>1, GradeFacts
  <1> QED BY <1>2 DEF Told, IsQuestion

\* One text that no member has failed to give.
LEMMA TextIsTold ==
  ASSUME NEW q, IsQuestion(q), NEW said, NEW t \in Bench!Written, DOMAIN said = {1}, said[1] = t,
         NEW score, score = Bench!grade(q, Bench!_solve_live(q, t))
  PROVE  Told(q, said, score)
  <1>1. PICK x : x = Bench!_extract_answer_index(t, q)
    OBVIOUS
  <1>2. x \in Nat \cup {-1} /\ (x # -1 => t.said = x)
    BY <1>1, Extracted
  <1>3. Bench!_solve_live(q, t).chosen = x
    BY <1>1 DEF Bench!_solve_live
  <1>4. /\ score.subject = q.subject /\ score.flagged = q.flagged
        /\ score.chosen = x
        /\ score.correct <=> x = q.correct_choice
    BY <1>3, GradeFacts
  <1>5. ~Failure(said)
    BY RaisedIsNoText DEF Failure
  <1> QED BY <1>2, <1>4, <1>5 DEF Told

\* What a single backend said.
LEMMA VerdictIsTold ==
  ASSUME NEW q, IsQuestion(q), NEW n \in Nat, n # 0, NEW said \in [1 .. n -> Bench!Written],
         NEW score, score = Bench!grade(q, Bench!Verdict(said, q))
  PROVE  Told(q, said, score) /\ Elected(q, said, score)
  <1> DEFINE chosen == Heard(q, said)
  <1>1. chosen \in [1 .. n -> Nat \cup {-1}]
    BY Extracted DEF Heard
  <1>2. PICK e : e = Bench!EnsembleSolver(chosen)
    OBVIOUS
  <1>3. Elects(chosen, e.chosen, e.unanimous)
    <2> HIDE DEF chosen
    <2> QED BY <1>1, <1>2, EnsembleElects
  <1>4. Bench!Verdict(said, q).chosen = e.chosen /\ Bench!Verdict(said, q).unanimous = e.unanimous
    BY <1>2 DEF Bench!Verdict, Heard
  <1>5. /\ score.subject = q.subject /\ score.flagged = q.flagged
        /\ score.chosen = e.chosen /\ score.unanimous = e.unanimous
        /\ score.correct <=> e.chosen = q.correct_choice
    BY <1>4, GradeFacts
  <1>6. ~Failure(said)
    BY RaisedIsNoText DEF Failure
  <1>7. e.chosen = -1 \/ \E j \in DOMAIN chosen : e.chosen \in Nat /\ chosen[j] = e.chosen
    <2> HIDE DEF chosen
    <2> QED BY <1>3 DEF Elects, Who
  <1>8. e.chosen # -1 => \E j \in DOMAIN said : said[j].said = e.chosen
    <2> SUFFICES ASSUME e.chosen # -1 PROVE \E j \in DOMAIN said : said[j].said = e.chosen
      OBVIOUS
    <2>1. PICK j \in 1 .. n : chosen[j] = e.chosen
      BY <1>1, <1>7
    <2>2. chosen[j] = Bench!_extract_answer_index(said[j], q)
      BY DEF Heard
    <2>3. chosen[j] # -1 => said[j].said = chosen[j]
      BY <2>2, Extracted
    <2> QED BY <2>1, <2>3
  <1>9. Told(q, said, score)
    BY <1>5, <1>6, <1>7, <1>8 DEF Told
  <1>10. Elects(chosen, score.chosen, score.unanimous)
    BY <1>3, <1>5, Zenon
  <1> QED BY <1>9, <1>10 DEF Elected

\* The solver that create_solver makes.
Ensemble(s) == s.kind = "ensemble" /\ \E n \in Nat \ {0} : DOMAIN s.members = 1 .. n
Alone(s) == s.kind \in {"live", "routing"}
NoModel(s) == s.kind \in Bench!Modes \cup {"unknown"}
Shape(s) == Ensemble(s) \/ Alone(s) \/ NoModel(s)

\* create_solver makes one of these for any command and environment.
LEMMA SolverShape ==
  ASSUME NEW c \in Commands
  PROVE  Shape(Bench!Solver(c))
  <1>1. c.backends \in Seq(STRING)
    BY EnginesAssumption DEF Bench!BenchmarkAssumption
  <1>2. ASSUME NEW b PROVE Alone(Bench!create_live(b))
    BY DEF Alone, Bench!create_live, Bench!create_routing_solver, Bench!Single
  <1>3. ASSUME NEW m, NEW b, NEW bs \in Seq(STRING) PROVE Shape(Bench!create_solver(m, b, bs))
    <2>1. CASE Len(bs) >= 2
      <3>1. Bench!create_solver(m, b, bs) = Bench!create_ensemble_solver(bs)
        BY <2>1 DEF Bench!create_solver
      <3>2. Len(bs) \in Nat \ {0} /\ DOMAIN bs = 1 .. Len(bs)
        BY <2>1, SMTT(60)
      <3>3. Ensemble(Bench!create_ensemble_solver(bs))
        BY <3>2 DEF Ensemble, Bench!create_ensemble_solver
      <3> QED BY <3>1, <3>3 DEF Shape
    <2>2. CASE Len(bs) < 2
      <3>1. \/ Bench!create_solver(m, b, bs) = Bench!create_live(b)
            \/ \E k \in Bench!Modes \cup {"unknown"} : Bench!create_solver(m, b, bs) = [kind |-> k]
        <4> DEFINE mode == Bench!OrElse(m, Bench!OrElse(environment.mode, "reasoned"))
                   k == IF mode \in Bench!Modes THEN mode ELSE "unknown"
        <4>1. Len(bs) \in Nat /\ ~(Len(bs) >= 2)
          BY <2>2
        <4>2. Bench!create_solver(m, b, bs) = IF mode = "live" THEN Bench!create_live(b) ELSE [kind |-> k]
          BY <2>2, <4>1 DEF Bench!create_solver
        <4>3. k \in Bench!Modes \cup {"unknown"}
          OBVIOUS
        <4> HIDE DEF mode, k
        <4> QED BY <4>2, <4>3
      <3> QED BY <1>2, <3>1 DEF Shape, NoModel
    <2> QED BY <2>1, <2>2
  <1>4. <<>> \in Seq(STRING)
    OBVIOUS
  <1>5. \/ Bench!Solver(c) = Bench!create_solver(None, None, c.backends)
        \/ Bench!Solver(c) = Bench!create_solver("live", c.backend, <<>>)
        \/ Bench!Solver(c) = Bench!create_solver(c.mode, None, <<>>)
    BY DEF Bench!Solver
  <1> QED BY <1>1, <1>3, <1>4, <1>5

\* Who is asked.
LEMMA MembersFacts ==
  ASSUME Shape(solver), NEW q
  PROVE  /\ Ensemble(solver) => \E n \in Nat \ {0} : DOMAIN Bench!Asked(q) = 1 .. n
         /\ Alone(solver) => DOMAIN Bench!Asked(q) = {1}
         /\ NoModel(solver) => Bench!Asked(q) = <<>>
         /\ \A i \in DOMAIN Bench!Asked(q) : Bench!Asked(q)[i] \in Bench!Named(solver)
  <1>1. Ensemble(solver) => Bench!Members(solver) = solver.members
    BY DEF Ensemble, Bench!Members
  <1>2. Alone(solver) => Bench!Members(solver) = <<solver>>
    BY DEF Alone, Bench!Members
  <1>3. NoModel(solver) => Bench!Members(solver) = <<>>
    BY DEF NoModel, Bench!Modes, Bench!Members
  <1>4. DOMAIN Bench!Asked(q) = DOMAIN Bench!Members(solver)
    BY DEF Bench!Asked
  <1>5. NoModel(solver) => Bench!Asked(q) = <<>>
    BY <1>3 DEF Bench!Asked
  <1>6. ASSUME NEW i \in DOMAIN Bench!Asked(q) PROVE Bench!Asked(q)[i] \in Bench!Named(solver)
    <2>1. PICK m : m = Bench!Members(solver)[i]
      OBVIOUS
    <2>2. m \in Bench!Range(Bench!Members(solver))
      BY <1>4, <2>1 DEF Bench!Range
    <2>3. Bench!Asked(q)[i] = Bench!backend_of(m, q.subject)
      BY <1>4, <2>1 DEF Bench!Asked
    <2>4. Bench!backend_of(m, q.subject) \in {m.default} \cup Bench!Range(m.routes)
      BY DEF Bench!backend_of, Bench!Range
    <2> QED BY <2>2, <2>3, <2>4 DEF Bench!Named
  <1> QED BY <1>1, <1>2, <1>4, <1>5, <1>6 DEF Ensemble

\* The result of a question is what its backends said of it.
LEMMA ResultIsTold ==
  ASSUME Shape(solver), Bench!Named(solver) \subseteq Bench!Backends,
         NEW q, IsQuestion(q), Bench!Asked(q) # <<>>,
         NEW S, NEW said \in [DOMAIN Bench!Asked(q) -> S],
         \A i \in DOMAIN said : said[i] \in Bench!Replies(Bench!Asked(q)[i]),
         NEW score, score = Bench!grade(q, Bench!Result(q, said))
  PROVE  Told(q, said, score) /\ (solver.kind = "ensemble" => Elected(q, said, score))
  <1>1. \A i \in DOMAIN said : said[i] \in Says
    BY MembersFacts, RepliesAreSaid
  <1>2. CASE Failure(said)
    <2>1. Bench!Result(q, said) = Bench!Error
      BY <1>2 DEF Bench!Result, Failure
    <2> QED BY <1>2, <2>1, ErrorIsTold DEF Elected
  <1>3. CASE ~Failure(said)
    <2>1. \A i \in DOMAIN said : said[i] \in Bench!Written
      BY <1>1, <1>3 DEF Says, Failure
    <2>2. Bench!Result(q, said)
            = IF solver.kind = "ensemble" THEN Bench!Verdict(said, q) ELSE Bench!_solve_live(q, said[1])
      BY <1>3 DEF Bench!Result, Failure
    <2>3. CASE solver.kind = "ensemble"
      <3>1. Ensemble(solver)
        BY <2>3 DEF Shape, Alone, NoModel, Bench!Modes
      <3>2. PICK n \in Nat \ {0} : DOMAIN said = 1 .. n
        BY <3>1, MembersFacts
      <3>3. said \in [1 .. n -> Bench!Written]
        BY <2>1, <3>2
      <3> QED BY <2>2, <2>3, <3>3, VerdictIsTold
    <2>4. CASE solver.kind # "ensemble"
      <3>1. Alone(solver)
        BY <2>4, MembersFacts DEF Shape, Ensemble
      <3>2. DOMAIN said = {1}
        BY <3>1, MembersFacts
      <3>3. said[1] \in Bench!Written
        BY <2>1, <3>2
      <3> QED BY <2>2, <2>4, <3>2, <3>3, TextIsTold
    <2> QED BY <2>3, <2>4
  <1> QED BY <1>2, <1>3

\* Without a model the answer is the one of the solver.
LEMMA OfflineIsTold ==
  ASSUME solver.kind \in Bench!Modes, NEW q, IsQuestion(q), NEW c \in Bench!Answers(q),
         NEW score, score = Bench!grade(q, Bench!OfflineResult(c))
  PROVE  Told(q, <<[said |-> c]>>, score)
  <1>1. c \in Nat \cup {-1}
    BY DEF Bench!Answers, IsQuestion, Bench!Modes
  <1>2. Bench!OfflineResult(c).chosen = c
    BY DEF Bench!OfflineResult, Bench!Error
  <1>3. /\ score.subject = q.subject /\ score.flagged = q.flagged
        /\ score.chosen = c
        /\ score.correct <=> c = q.correct_choice
    BY <1>2, GradeFacts
  <1>4. PICK said : said = <<[said |-> c]>>
    OBVIOUS
  <1>5. DOMAIN said = {1} /\ said[1].said = c /\ said[1] # Bench!Raised
    BY <1>4 DEF Bench!Raised
  <1>6. ~Failure(said)
    BY <1>5 DEF Failure
  <1> QED BY <1>1, <1>3, <1>4, <1>5, <1>6 DEF Told

-----------------------------------------------------------------------------
(* The run of a benchmark.                                                 *)

\* The inductive invariant: each question solved so far has its score, told by what was said
\* of it, and the report is the summary of all of them.
BenchInv ==
    /\ bank \in Banks /\ command \in Commands
    /\ IsList(scores) /\ IsList(answers)
    /\ Len(answers) = Len(scores) /\ Len(scores) <= Len(bank)
    /\ \A i \in 1 .. Len(scores) : Told(bank[i], answers[i], scores[i])
    /\ solver # None => benchPc # "create"
    /\ benchPc = "create" => scores = <<>> /\ answers = <<>>
    /\ benchPc # "create" =>
          /\ Shape(solver)
          /\ solver.kind = "ensemble" =>
                \A i \in 1 .. Len(scores) : Elected(bank[i], answers[i], scores[i])
    /\ benchPc = "solve" => Bench!Named(solver) \subseteq Bench!Backends
    /\ benchPc = "done" => Len(scores) = Len(bank) /\ report = Bench!Summary

\* The bank that is loaded.
LEMMA BankFacts ==
  ASSUME NEW b \in Banks
  PROVE  /\ Len(b) \in Nat /\ DOMAIN b = 1 .. Len(b)
         /\ \A i \in 1 .. Len(b) : IsQuestion(b[i])
  <1>1. b \in Seq(Bench!Range(b)) /\ \A q \in Bench!Range(b) : IsQuestion(q)
    BY EnginesAssumption DEF Bench!BenchmarkAssumption, IsQuestion
  <1>2. PICK R : R = Bench!Range(b)
    OBVIOUS
  <1>3. b \in Seq(R) /\ \A q \in R : IsQuestion(q)
    BY <1>1, <1>2
  <1>4. \A i \in 1 .. Len(b) : b[i] \in R
    BY <1>3
  <1> QED BY <1>3, <1>4

\* Before create_solver nothing is solved.
LEMMA BenchInit ==
  ASSUME Bench!Init PROVE BenchInv
  <1>1. scores = <<>> /\ answers = <<>> /\ bank \in Banks /\ command \in Commands
        /\ solver = None /\ benchPc = "create"
    BY DEF Bench!Init
  <1>2. Len(bank) \in Nat /\ Len(scores) = 0 /\ Len(answers) = 0
    BY <1>1, BankFacts
  <1> QED BY <1>1, <1>2, NothingIsAList DEF BenchInv

\* A question is solved and graded.
LEMMA GradedInv ==
  ASSUME BenchInv, Bench!More, NEW outcome, NEW said, Bench!Graded(outcome, said),
         NEW score, score = Bench!grade(Bench!Question, outcome), Told(Bench!Question, said, score),
         solver.kind = "ensemble" => Elected(Bench!Question, said, score)
  PROVE  BenchInv'
  <1> DEFINE n == Len(scores)
  <1>1. n \in Nat /\ Len(bank) \in Nat /\ n + 1 <= Len(bank) /\ n + 1 \in 1 .. Len(bank)
    BY BankFacts, ListFacts DEF BenchInv, Bench!More
  <1>2. scores' = Append(scores, score) /\ answers' = Append(answers, said)
    BY DEF Bench!Graded
  <1>3. UNCHANGED <<bank, command, environment, solver, report, benchPc>>
    BY DEF Bench!Graded
  <1>4. Bench!Question = bank[n + 1] /\ benchPc = "solve"
    BY DEF Bench!Question, Bench!More
  <1>5. /\ IsList(scores') /\ Len(scores') = n + 1
        /\ \A i \in 1 .. n : scores'[i] = scores[i]
        /\ scores'[n + 1] = score
    BY <1>2, Appended DEF BenchInv
  <1>6. /\ IsList(answers') /\ Len(answers') = n + 1
        /\ \A i \in 1 .. n : answers'[i] = answers[i]
        /\ answers'[n + 1] = said
    BY <1>2, Appended DEF BenchInv
  <1>7. \A i \in 1 .. n + 1 : i \in 1 .. n \/ i = n + 1
    BY <1>1
  <1>8. \A i \in 1 .. n + 1 : Told(bank[i], answers'[i], scores'[i])
    BY <1>4, <1>5, <1>6, <1>7 DEF BenchInv
  <1>9. solver.kind = "ensemble" => \A i \in 1 .. n + 1 : Elected(bank[i], answers'[i], scores'[i])
    BY <1>4, <1>5, <1>6, <1>7 DEF BenchInv
  <1>10. Shape(solver)
    BY <1>4 DEF BenchInv
  <1> HIDE DEF n
  <1>11. /\ (solver # None => benchPc # "create")'
         /\ (benchPc # "create" => Shape(solver))'
         /\ (benchPc = "solve" => Bench!Named(solver) \subseteq Bench!Backends)'
    <2>1. Bench!Named(solver)' = Bench!Named(solver)
      BY <1>3 DEF Bench!Named, Bench!Members
    <2>2. Shape(solver)' = Shape(solver)
      BY <1>3 DEF Shape, Ensemble, Alone, NoModel
    <2> QED BY <1>3, <1>4, <1>10, <2>1, <2>2 DEF BenchInv
  <1>12. (solver.kind = "ensemble" =>
            \A i \in 1 .. Len(scores) : Elected(bank[i], answers[i], scores[i]))'
    BY <1>3, <1>5, <1>9
  <1>13. (\A i \in 1 .. Len(scores) : Told(bank[i], answers[i], scores[i]))'
    BY <1>3, <1>5, <1>8
  <1> QED BY <1>1, <1>3, <1>4, <1>5, <1>6, <1>11, <1>12, <1>13 DEF BenchInv

\* Every step of the run keeps the invariant.
LEMMA BenchNext ==
  ASSUME BenchInv, Bench!Next PROVE BenchInv'
  <1>1. CASE Bench!Create
    <2>1. scores' = <<>> /\ answers' = <<>> /\ scores = <<>> /\ answers = <<>>
      BY <1>1 DEF Bench!Create, BenchInv
    <2>2. bank' \in Banks /\ command' \in Commands /\ bank' = bank /\ command' = command
      BY <1>1 DEF Bench!Create, BenchInv
    <2>3. solver' = Bench!Solver(command)
      BY <1>1 DEF Bench!Create
    <2>4. Shape(solver')
      BY <2>2, <2>3, SolverShape
    <2>5. benchPc' \in {"unknown", "no questions", "solve"}
          /\ (benchPc' = "solve" => Bench!Named(solver') \subseteq Bench!Backends)
      BY <1>1 DEF Bench!Create
    <2>6. Len(bank) \in Nat /\ Len(scores') = 0 /\ Len(answers') = 0
      BY <2>1, <2>2, BankFacts
    <2>7. IsList(scores') /\ IsList(answers')
      BY <2>1, NothingIsAList
    <2>8. 1 .. Len(scores') = {}
      BY <2>6
    <2>9. benchPc' # "create" /\ benchPc' # "done"
      BY <2>5
    <2>10. /\ (\A i \in 1 .. Len(scores) : Told(bank[i], answers[i], scores[i]))'
           /\ (\A i \in 1 .. Len(scores) : Elected(bank[i], answers[i], scores[i]))'
      BY <2>8
    <2>11. /\ (benchPc # "create" => Shape(solver))'
           /\ (benchPc = "solve" => Bench!Named(solver) \subseteq Bench!Backends)'
      BY <2>4, <2>5
    <2>12. (Len(answers) = Len(scores) /\ Len(scores) <= Len(bank))'
      BY <2>2, <2>6
    <2> QED BY <2>2, <2>7, <2>9, <2>10, <2>11, <2>12 DEF BenchInv
  <1>2. ASSUME Bench!More
        PROVE  /\ IsQuestion(Bench!Question) /\ Shape(solver)
               /\ Bench!Named(solver) \subseteq Bench!Backends
    <2>1. Len(scores) + 1 \in 1 .. Len(bank) /\ benchPc = "solve"
      BY <1>2, BankFacts, ListFacts DEF BenchInv, Bench!More
    <2> QED BY <2>1, BankFacts DEF BenchInv, Bench!Question
  <1>3. CASE Bench!Solve
    <2>1. Bench!More /\ Bench!Asked(Bench!Question) # <<>>
      BY <1>3 DEF Bench!Solve
    <2>2. PICK S : S = UNION {Bench!Replies(b) : b \in Bench!Range(Bench!Asked(Bench!Question))}
      OBVIOUS
    <2>3. PICK said \in [DOMAIN Bench!Asked(Bench!Question) -> S] :
             /\ \A i \in DOMAIN said : said[i] \in Bench!Replies(Bench!Asked(Bench!Question)[i])
             /\ Bench!Graded(Bench!Result(Bench!Question, said), said)
      BY <1>3, <2>2, Zenon DEF Bench!Solve
    <2>4. PICK q, score : q = Bench!Question /\ score = Bench!grade(q, Bench!Result(q, said))
      OBVIOUS
    <2>5. Told(q, said, score) /\ (solver.kind = "ensemble" => Elected(q, said, score))
      BY <1>2, <2>1, <2>3, <2>4, ResultIsTold
    <2> QED BY <2>1, <2>3, <2>4, <2>5, GradedInv
  <1>4. CASE Bench!SolveOffline
    <2>1. Bench!More /\ solver.kind \in Bench!Modes
      BY <1>4 DEF Bench!SolveOffline
    <2>2. PICK c \in Bench!Answers(Bench!Question) : Bench!Graded(Bench!OfflineResult(c), <<[said |-> c]>>)
      BY <1>4 DEF Bench!SolveOffline
    <2>3. PICK q, score : q = Bench!Question /\ score = Bench!grade(q, Bench!OfflineResult(c))
      OBVIOUS
    <2>4. Told(q, <<[said |-> c]>>, score) /\ solver.kind # "ensemble"
      BY <1>2, <2>1, <2>2, <2>3, OfflineIsTold DEF Bench!Modes
    <2> QED BY <2>1, <2>2, <2>3, <2>4, GradedInv
  <1>5. CASE Bench!SolveUnknown
    <2>1. Bench!More /\ solver.kind = "unknown" /\ Bench!Graded(Bench!Error, <<Bench!Raised>>)
      BY <1>5 DEF Bench!SolveUnknown
    <2>2. PICK q, score : q = Bench!Question /\ score = Bench!grade(q, Bench!Error)
      OBVIOUS
    <2>3. Told(q, <<Bench!Raised>>, score)
      BY <1>2, <2>1, <2>2, ErrorIsTold
    <2> QED BY <2>1, <2>2, <2>3, GradedInv
  <1>6. CASE Bench!Report
    <2>1. UNCHANGED <<bank, command, environment, solver, scores, answers>>
      BY <1>6 DEF Bench!Report
    <2>2. benchPc = "solve" /\ Len(scores) = Len(bank)
          /\ (benchPc' = "nothing to grade" \/ (benchPc' = "done" /\ report' = Bench!Summary))
      BY <1>6 DEF Bench!Report
    <2>3. Bench!Summary' = Bench!Summary
      BY <2>1 DEF Bench!Summary, Bench!graded
    <2>4. Shape(solver)' = Shape(solver)
      BY <2>1 DEF Shape, Ensemble, Alone, NoModel
    <2> QED BY <2>1, <2>2, <2>3, <2>4 DEF BenchInv
  <1> QED BY <1>1, <1>3, <1>4, <1>5, <1>6 DEF Bench!Next

\* So does a step of another engine.
LEMMA BenchStays ==
  ASSUME BenchInv, UNCHANGED bench PROVE BenchInv'
  <1>1. UNCHANGED <<bank, command, solver, scores, answers, report, benchPc>>
    BY DEF bench
  <1>2. Bench!Summary' = Bench!Summary
    BY <1>1 DEF Bench!Summary, Bench!graded
  <1>3. Shape(solver)' = Shape(solver)
    BY <1>1 DEF Shape, Ensemble, Alone, NoModel
  <1>4. Bench!Named(solver)' = Bench!Named(solver)
    BY <1>1 DEF Bench!Named, Bench!Members
  <1> QED BY <1>1, <1>2, <1>3, <1>4 DEF BenchInv

-----------------------------------------------------------------------------
(* Counts of a group.                                                      *)

\* What Tally counts as correct.
Correct(s) == {x \in Range(s) : x.correct}

\* The two numbers of a tally.
LEMMA TallyFacts ==
  ASSUME NEW S, NEW s \in Seq(S)
  PROVE  Bench!Tally(s) = [total |-> Len(s), correct |-> NumberIn(s, Correct(s))]
  <1>1. Bench!Range(s) = Range(s)
    BY DEF Bench!Range, Range
  <1>2. Bench!Selected(s, Correct(s)) = Selected(s, Correct(s))
    BY DEF Bench!Selected, Selected
  <1>3. Len(Selected(s, Correct(s))) = NumberIn(s, Correct(s))
    BY SelectedLength
  <1> QED BY <1>1, <1>2, <1>3 DEF Bench!Tally, Correct

\* A tally of what is selected counts places of the list.
LEMMA TallyOfSelected ==
  ASSUME NEW S, NEW s \in Seq(S), NEW T
  PROVE  Bench!Tally(Selected(s, T))
           = [total |-> NumberIn(s, T), correct |-> NumberIn(s, {x \in T : x.correct})]
  <1> DEFINE t == Selected(s, T)
  <1>1. t \in Seq(S) /\ Range(t) = {s[i] : i \in {j \in DOMAIN s : s[j] \in T}}
    BY SelectedRange
  <1>2. Len(t) = NumberIn(s, T)
    BY SelectedLength
  <1>3. NumberIn(t, Correct(t)) = NumberIn(s, T \cap Correct(t))
    BY SelectedCounts
  <1>4. {i \in DOMAIN s : s[i] \in T \cap Correct(t)} = {i \in DOMAIN s : s[i] \in {x \in T : x.correct}}
    <2> HIDE DEF t
    <2> QED BY <1>1 DEF Correct
  <1>5. NumberIn(s, T \cap Correct(t)) = NumberIn(s, {x \in T : x.correct})
    BY <1>4 DEF NumberIn
  <1>6. Bench!Tally(t) = [total |-> Len(t), correct |-> NumberIn(t, Correct(t))]
    BY <1>1, TallyFacts
  <1> HIDE DEF t
  <1>7. Bench!Tally(t) = [total |-> NumberIn(s, T), correct |-> NumberIn(s, {x \in T : x.correct})]
    BY <1>2, <1>3, <1>5, <1>6
  <1> QED BY <1>7 DEF t

\* So does one of a selection from a selection.
LEMMA TallyOfBoth ==
  ASSUME NEW S, NEW s \in Seq(S), NEW T, NEW U
  PROVE  Bench!Tally(Selected(Selected(s, T), U))
           = [total |-> NumberIn(s, T \cap U), correct |-> NumberIn(s, {x \in T \cap U : x.correct})]
  <1>1. Selected(s, T) \in Seq(S)
    BY SelectedRange
  <1>2. Bench!Tally(Selected(Selected(s, T), U))
          = [total |-> NumberIn(Selected(s, T), U),
             correct |-> NumberIn(Selected(s, T), {x \in U : x.correct})]
    BY <1>1, TallyOfSelected
  <1>3. NumberIn(Selected(s, T), U) = NumberIn(s, T \cap U)
    BY SelectedCounts
  <1>4. NumberIn(Selected(s, T), {x \in U : x.correct}) = NumberIn(s, T \cap {x \in U : x.correct})
    BY SelectedCounts
  <1>5. T \cap {x \in U : x.correct} = {x \in T \cap U : x.correct}
    OBVIOUS
  <1> QED BY <1>2, <1>3, <1>4, <1>5

\* Those of one subject.
OfSubject(g, k) == {x \in Range(g) : x.subject = k}

\* A report by subject has a tally for each of them.
LEMMA BySubject ==
  ASSUME NEW S, NEW g \in Seq(S),
         NEW r, r = Bench!_group_accuracy(g, [x \in Bench!Range(g) |-> x.subject])
  PROVE  /\ DOMAIN r = {x.subject : x \in Range(g)} \ {None}
         /\ \A k \in DOMAIN r : r[k] = Bench!Tally(Selected(g, OfSubject(g, k)))
  <1> DEFINE key == [x \in Bench!Range(g) |-> x.subject]
  <1>1. Bench!Range(g) = Range(g)
    BY DEF Bench!Range, Range
  <1>2. r = [k \in Bench!Range(key) \ {None} |->
               Bench!Tally(Bench!Selected(g, {x \in Bench!Range(g) : key[x] = k}))]
    BY Zenon DEF Bench!_group_accuracy
  <1>3. Bench!Range(key) = {x.subject : x \in Range(g)}
    BY <1>1 DEF Bench!Range
  <1>4. ASSUME NEW k
        PROVE  Bench!Selected(g, {x \in Bench!Range(g) : key[x] = k})
                 = Selected(g, {x \in Range(g) : x.subject = k})
    <2>1. {x \in Bench!Range(g) : key[x] = k} = {x \in Range(g) : x.subject = k}
      BY <1>1
    <2>2. \A T : Bench!Selected(g, T) = Selected(g, T)
      BY DEF Bench!Selected, Selected
    <2> QED BY <2>1, <2>2
  <1> HIDE DEF key
  <1>5. DOMAIN r = Bench!Range(key) \ {None}
    BY <1>2
  <1>6. ASSUME NEW k \in DOMAIN r
        PROVE  r[k] = Bench!Tally(Selected(g, OfSubject(g, k)))
    BY <1>2, <1>4, <1>5 DEF OfSubject
  <1> QED BY <1>3, <1>5, <1>6

\* The report says how many were answered right, overall and by subject.
LEMMA ReportAgrees ==
  ASSUME BenchInv PROVE Bench!ReportIsTrue
  <1> SUFFICES ASSUME benchPc = "done" PROVE Bench!ReportIsTrue
    BY DEF Bench!ReportIsTrue
  <1> DEFINE n == Len(bank)
             counted == {i \in DOMAIN bank : ~bank[i].flagged}
             right == {i \in counted : Bench!Right(i)}
             Of(P, s) == Cardinality({i \in P : bank[i].subject = s})
             U == {x \in Range(scores) : ~x.flagged}
             g == Selected(scores, U)
  <1>1. /\ n \in Nat /\ DOMAIN bank = 1 .. n /\ DOMAIN scores = 1 .. n /\ Len(scores) = n
        /\ \A i \in 1 .. n : IsQuestion(bank[i]) /\ Told(bank[i], answers[i], scores[i])
    BY BankFacts, ListFacts DEF BenchInv
  <1>2. \A i \in 1 .. n : scores[i] \in U <=> i \in counted
    BY <1>1 DEF Range, Told
  <1>3. ASSUME NEW i \in 1 .. n
        PROVE  /\ Bench!Right(i) <=> scores[i].correct
               /\ Bench!Right(i) => \E j \in DOMAIN answers[i] : answers[i][j].said = bank[i].correct_choice
    <2>1. bank[i].correct_choice # -1
      BY <1>1 DEF IsQuestion
    <2>2. Bench!Failed(i) <=> Failure(answers[i])
      BY DEF Bench!Failed, Failure
    <2> QED BY <1>1, <2>1, <2>2 DEF Bench!Right, Told
  <1>4. counted \subseteq 1 .. n /\ right \subseteq counted
    BY <1>1
  <1>5. IsFiniteSet(1 .. n) /\ IsFiniteSet(counted) /\ IsFiniteSet(right)
    <2> HIDE DEF counted, right
    <2>1. IsFiniteSet(1 .. n)
      BY <1>1, FS_Interval
    <2> QED BY <1>4, <2>1, FS_Subset
  <1>6. scores \in Seq(Range(scores))
    BY DEF BenchInv, IsList
  <1>7. Bench!graded = g
    <2>1. Bench!Range(scores) = Range(scores)
      BY DEF Bench!Range, Range
    <2> QED BY <2>1 DEF Bench!graded, Bench!Selected, Selected
  <1>8. g \in Seq(Range(scores)) /\ Range(g) = {scores[i] : i \in counted}
    <2>1. {j \in DOMAIN scores : scores[j] \in U} = counted
      BY <1>1, <1>2
    <2>2. /\ g \in Seq(Range(scores))
          /\ Range(g) = {scores[i] : i \in {j \in DOMAIN scores : scores[j] \in U}}
      <3> HIDE DEF U
      <3> QED BY <1>6, SelectedRange
    <2> QED BY <2>1, <2>2
  <1>9. Len(g) = Cardinality(counted) /\ NumberIn(scores, {x \in U : x.correct}) = Cardinality(right)
    <2>1. Len(g) = NumberIn(scores, U)
      BY <1>6, SelectedLength
    <2>2. {i \in DOMAIN scores : scores[i] \in U} = counted
      BY <1>1, <1>2
    <2>3. {i \in DOMAIN scores : scores[i] \in {x \in U : x.correct}} = right
      BY <1>1, <1>2, <1>3
    <2> QED BY <2>1, <2>2, <2>3 DEF NumberIn
  <1>10. Bench!Tally(g) = [total |-> Cardinality(counted), correct |-> Cardinality(right)]
    <2>1. Bench!Tally(g) = [total |-> NumberIn(scores, U), correct |-> NumberIn(scores, {x \in U : x.correct})]
      BY <1>6, TallyOfSelected
    <2>2. Len(g) = NumberIn(scores, U)
      BY <1>6, SelectedLength
    <2> QED BY <1>9, <2>1, <2>2
  <1>11. PICK r : r = Bench!_group_accuracy(g, [x \in Bench!Range(g) |-> x.subject])
    OBVIOUS
  <1>12. DOMAIN r = {bank[i].subject : i \in counted}
    <2>1. DOMAIN r = {x.subject : x \in Range(g)} \ {None}
      BY <1>8, <1>11, BySubject
    <2>2. \A i \in counted : scores[i].subject = bank[i].subject /\ bank[i].subject # None
      BY <1>1, <1>4 DEF Told, IsQuestion
    <2> HIDE DEF counted, g
    <2> QED BY <1>8, <2>1, <2>2
  <1>13. ASSUME NEW s \in DOMAIN r
         PROVE  r[s] = [total |-> Of(counted, s), correct |-> Of(right, s)]
    <2> DEFINE K == {x \in Range(g) : x.subject = s}
    <2>1. r[s] = Bench!Tally(Selected(g, K))
      <3>1. \A k \in DOMAIN r : r[k] = Bench!Tally(Selected(g, OfSubject(g, k)))
        <4> HIDE DEF g
        <4> QED BY <1>8, <1>11, BySubject
      <3> HIDE DEF g
      <3> QED BY <3>1 DEF OfSubject
    <2>2. Bench!Tally(Selected(g, K))
            = [total |-> NumberIn(scores, U \cap K), correct |-> NumberIn(scores, {x \in U \cap K : x.correct})]
      <3> HIDE DEF K, U
      <3> QED BY <1>6, TallyOfBoth, ZenonT(60)
    <2>3. ASSUME NEW i \in 1 .. n
          PROVE  scores[i] \in U \cap K <=> i \in counted /\ bank[i].subject = s
      <3>1. scores[i].subject = bank[i].subject
        BY <1>1 DEF Told
      <3> HIDE DEF U, counted, g
      <3> QED BY <1>2, <1>8, <3>1
    <2>4. {i \in DOMAIN scores : scores[i] \in U \cap K} = {i \in counted : bank[i].subject = s}
      <3> HIDE DEF U, K, counted
      <3> QED BY <1>1, <1>4, <2>3
    <2>5. {i \in DOMAIN scores : scores[i] \in {x \in U \cap K : x.correct}} = {i \in right : bank[i].subject = s}
      <3>1. \A i \in 1 .. n : i \in right <=> i \in counted /\ scores[i].correct
        BY <1>3, <1>4
      <3> HIDE DEF U, K, counted, right
      <3> QED BY <1>1, <1>4, <2>3, <3>1
    <2> QED BY <2>1, <2>2, <2>4, <2>5 DEF NumberIn
  <1>14. PICK u : u = Bench!_pass_status(r, Bench!Tally(g))
    OBVIOUS
  <1>15. PICK q : q = Bench!_compute_quality_metrics(g)
    OBVIOUS
  <1>16. report.overall = Bench!Tally(g) /\ report.per_subject = r /\ report.would_pass = u /\ report.quality = q
    <2>1. report = Bench!Summary
      BY DEF BenchInv
    <2> HIDE DEF g
    <2> QED BY <1>7, <1>11, <1>14, <1>15, <2>1 DEF Bench!Summary
  <1>17. Cardinality(counted) \in Nat /\ Cardinality(right) \in Nat
    BY <1>5, FS_CardinalityType
  <1>18. ASSUME NEW s PROVE Of(counted, s) \in Nat /\ Of(right, s) \in Nat
    <2> HIDE DEF counted, right
    <2>1. IsFiniteSet({i \in counted : bank[i].subject = s}) /\ IsFiniteSet({i \in right : bank[i].subject = s})
      BY <1>5, FS_Subset
    <2> QED BY <2>1, FS_CardinalityType
  <1>19. u <=> /\ 5 * Cardinality(right) >= 3 * Cardinality(counted)
               /\ \A i \in counted : 5 * Of(right, bank[i].subject) >= 2 * Of(counted, bank[i].subject)
    <2>1. u <=> Bench!AtLeast(Bench!Tally(g), 60) /\ \A s \in DOMAIN r : Bench!AtLeast(r[s], 40)
      BY <1>14 DEF Bench!_pass_status
    <2>2. Bench!AtLeast(Bench!Tally(g), 60) <=> 5 * Cardinality(right) >= 3 * Cardinality(counted)
      <3> HIDE DEF g, counted, right
      <3> QED BY <1>10, <1>17 DEF Bench!AtLeast
    <2>3. ASSUME NEW s \in DOMAIN r
          PROVE  Bench!AtLeast(r[s], 40) <=> 5 * Of(right, s) >= 2 * Of(counted, s)
      <3>1. r[s] = [total |-> Of(counted, s), correct |-> Of(right, s)]
        BY <1>13
      <3>2. PICK a \in Nat, b \in Nat : a = Of(counted, s) /\ b = Of(right, s)
        BY <1>18
      <3>3. r[s].total = a /\ r[s].correct = b
        BY <3>1, <3>2
      <3>4. Bench!AtLeast(r[s], 40) <=> 5 * b >= 2 * a
        BY <3>3 DEF Bench!AtLeast
      <3> HIDE DEF Of
      <3> QED BY <3>2, <3>4
    <2> HIDE DEF Of, counted, right, g
    <2> QED BY <1>12, <2>1, <2>2, <2>3
  <1>20. q.hits <= q.trapped /\ q.trapped + Cardinality(right) <= Cardinality(counted)
    <2> DEFINE TR == {x \in Bench!Range(g) : ~x.correct /\ x.hit # None}
               H == {x \in TR : x.hit}
               A == {i \in DOMAIN scores : scores[i] \in U \cap TR}
               B == {i \in DOMAIN g : g[i] \in TR}
    <2>1. q.trapped = Len(Bench!Selected(g, TR)) /\ q.hits = Len(Bench!Selected(g, H))
      BY <1>15 DEF Bench!_compute_quality_metrics
    <2>2. \A T : Bench!Selected(g, T) = Selected(g, T)
      BY DEF Bench!Selected, Selected
    <2>3. q.trapped = NumberIn(g, TR) /\ q.hits = NumberIn(g, H)
      <3> HIDE DEF TR, H, g
      <3> QED BY <1>8, <2>1, <2>2, SelectedLength
    <2>4. NumberIn(g, TR) = NumberIn(scores, U \cap TR)
      <3> HIDE DEF U, TR
      <3> QED BY <1>6, SelectedCounts
    <2>5. q.trapped = Cardinality(A)
      BY <2>3, <2>4 DEF NumberIn
    <2>6. q.trapped = Cardinality(B) /\ q.hits = Cardinality({i \in DOMAIN g : g[i] \in H})
      BY <2>3 DEF NumberIn
    <2>7. IsFiniteSet(B)
      <3>1. DOMAIN g = 1 .. Len(g) /\ Len(g) \in Nat
        BY <1>8
      <3>2. IsFiniteSet(1 .. Len(g))
        BY <3>1, FS_Interval
      <3> QED BY <3>1, <3>2, FS_Subset
    <2>8. q.hits <= q.trapped
      <3>1. {i \in DOMAIN g : g[i] \in H} \subseteq B
        OBVIOUS
      <3> HIDE DEF B, H, g
      <3> QED BY <2>6, <2>7, <3>1, FS_Subset
    <2>9. A \cup right \subseteq counted /\ A \cap right = {}
      <3>1. \A i \in 1 .. n : i \in right <=> i \in counted /\ scores[i].correct
        BY <1>3, <1>4
      <3>2. \A i \in A : i \in 1 .. n /\ i \in counted /\ ~scores[i].correct
        BY <1>1, <1>2
      <3> HIDE DEF A, counted, right
      <3> QED BY <1>4, <3>1, <3>2
    <2> HIDE DEF A, counted, right
    <2>10. IsFiniteSet(A) /\ IsFiniteSet(A \cup right)
           /\ Cardinality(A \cup right) <= Cardinality(counted)
      BY <1>5, <2>9, FS_Subset
    <2>11. Cardinality(A \cup right) = Cardinality(A) + Cardinality(right) - Cardinality(A \cap right)
      BY <1>5, <2>10, FS_Union
    <2>12. Cardinality(A \cap right) = 0 /\ Cardinality(A) \in Nat
      BY <2>9, <2>10, FS_EmptySet, FS_CardinalityType
    <2> QED BY <1>17, <2>5, <2>8, <2>10, <2>11, <2>12
  <1>21. \A i \in right : \E j \in DOMAIN answers[i] : answers[i][j].said = bank[i].correct_choice
    BY <1>3, <1>4
  <1> DEFINE BOf(P, s) == Bench!Cardinality({i \in P : bank[i].subject = s})
  <1>22. \A P, s : BOf(P, s) = Of(P, s)
    BY Cardinalities
  <1>23. Bench!Cardinality(counted) = Cardinality(counted) /\ Bench!Cardinality(right) = Cardinality(right)
    BY Cardinalities
  <1>24. /\ report.overall = [total |-> Bench!Cardinality(counted), correct |-> Bench!Cardinality(right)]
         /\ \A s \in {bank[i].subject : i \in counted} :
               report.per_subject[s] = [total |-> BOf(counted, s), correct |-> BOf(right, s)]
    <2> HIDE DEF BOf, Of, counted, right, g
    <2> QED BY <1>10, <1>12, <1>13, <1>16, <1>22, <1>23
  <1>25. report.would_pass <=>
           /\ 5 * Bench!Cardinality(right) >= 3 * Bench!Cardinality(counted)
           /\ \A i \in counted : 5 * BOf(right, bank[i].subject) >= 2 * BOf(counted, bank[i].subject)
    <2> HIDE DEF BOf, Of, counted, right, g
    <2> QED BY <1>16, <1>19, <1>22, <1>23
  <1>26. /\ report.quality.hits <= report.quality.trapped
         /\ report.quality.trapped + Bench!Cardinality(right) <= Bench!Cardinality(counted)
    <2> HIDE DEF counted, right, g
    <2> QED BY <1>16, <1>20, <1>23
  <1> QED
    BY <1>21, <1>24, <1>25, <1>26, Zenon DEF Bench!ReportIsTrue

\* The answers of the members are the votes that are counted.
LEMMA VotesAreFollowed ==
  ASSUME BenchInv PROVE Bench!EnsembleFollowsVotes
  <1> SUFFICES ASSUME solver # None, solver.kind = "ensemble", NEW i \in DOMAIN scores, ~Bench!Failed(i)
               PROVE  LET who(a) == {j \in DOMAIN answers[i] : Bench!Spoken(i, j) = a}
                          chosen == scores[i].chosen
                      IN  IF who(-1) = DOMAIN answers[i] THEN chosen = -1
                          ELSE /\ chosen # -1
                               /\ \A a \in 0 .. bank[i].choices - 1 :
                                    \/ Bench!Cardinality(who(a)) < Bench!Cardinality(who(chosen))
                                    \/ a = chosen
                                    \/ /\ Bench!Cardinality(who(a)) = Bench!Cardinality(who(chosen))
                                       /\ Bench!Min(who(chosen)) < Bench!Min(who(a))
                               /\ scores[i].unanimous <=> who(chosen) = DOMAIN answers[i]
    BY Zenon DEF Bench!EnsembleFollowsVotes
  <1> DEFINE who(a) == {j \in DOMAIN answers[i] : Bench!Spoken(i, j) = a}
             taken == Heard(bank[i], answers[i])
             chosen == scores[i].chosen
  <1>1. i \in 1 .. Len(scores) /\ Len(scores) \in Nat /\ Len(scores) <= Len(bank) /\ Len(bank) \in Nat
    BY BankFacts, ListFacts DEF BenchInv
  <1>2. IsQuestion(bank[i])
    BY <1>1, BankFacts DEF BenchInv
  <1>3. ~Failure(answers[i])
    BY DEF Bench!Failed, Failure
  <1>4. Elects(taken, chosen, scores[i].unanimous)
    BY <1>1, <1>3 DEF BenchInv, Elected
  <1>5. DOMAIN taken = DOMAIN answers[i] /\ \A a : Who(taken, a) = who(a)
    BY DEF Heard, Who, Bench!Spoken
  <1>6. \A a : Cardinality(who(a)) = Bench!Cardinality(who(a))
    BY Cardinalities
  <1>7. bank[i].choices \in Nat /\ -1 \notin Nat
    BY <1>2 DEF IsQuestion
  <1> HIDE DEF who, taken, chosen
  <1>8. CASE who(-1) = DOMAIN answers[i]
    <2>1. chosen = -1
      BY <1>4, <1>5, <1>8 DEF Elects
    <2> QED BY <1>8, <2>1 DEF who, chosen
  <1>9. CASE who(-1) # DOMAIN answers[i]
    <2>1. /\ chosen \in Nat
          /\ \A a \in Nat :
               \/ Cardinality(who(a)) < Cardinality(who(chosen))
               \/ a = chosen
               \/ /\ Cardinality(who(a)) = Cardinality(who(chosen))
                  /\ Bench!Min(who(chosen)) < Bench!Min(who(a))
          /\ scores[i].unanimous <=> who(chosen) = DOMAIN answers[i]
      BY <1>4, <1>5, <1>9 DEF Elects
    <2>2. ASSUME NEW a \in 0 .. bank[i].choices - 1
          PROVE  \/ Bench!Cardinality(who(a)) < Bench!Cardinality(who(chosen))
                 \/ a = chosen
                 \/ /\ Bench!Cardinality(who(a)) = Bench!Cardinality(who(chosen))
                    /\ Bench!Min(who(chosen)) < Bench!Min(who(a))
      <3>1. a \in Nat
        BY <1>7
      <3> QED BY <1>6, <2>1, <3>1
    <2>3. chosen # -1
      BY <1>7, <2>1
    <2> QED BY <1>9, <2>1, <2>2, <2>3, Zenon DEF who, chosen
  <1> QED BY <1>8, <1>9

\* The benchmark runs, or another engine does.
BenchRuns == part = "benchmark" => BenchInv

LEMMA BenchHolds == EnginesSpec => []BenchRuns
  <1>1. EnginesInit => BenchRuns
    BY BenchInit DEF EnginesInit, BenchRuns
  <1>2. BenchRuns /\ [EnginesNext]_allVars => BenchRuns'
    <2> SUFFICES ASSUME BenchRuns, [EnginesNext]_allVars, part' = "benchmark" PROVE BenchInv'
      BY DEF BenchRuns
    <2>1. part' = part /\ (Bench!Next \/ UNCHANGED bench)
      BY DEF EnginesNext, allVars
    <2> QED
      BY <2>1, BenchNext, BenchStays DEF BenchRuns
  <1> QED
    BY <1>1, <1>2, PTL DEF EnginesSpec

\* _compute_quality_metrics (runner.py) reports what the scores say, whatever the bank, the
\* command and the answers of the backends.
THEOREM ReportIsTrueHolds ==
  EnginesSpec => []ReportIsTrue
  <1>1. BenchRuns => ReportIsTrue
    BY ReportAgrees DEF BenchRuns, ReportIsTrue
  <1> QED
    BY <1>1, BenchHolds, PTL

\* An ensemble of any size, with any answers of its members, is scored for the answer of most
\* of them, of those tied for the one given first.
THEOREM EnsembleFollowsVotesHolds ==
  EnginesSpec => []EnsembleFollowsVotes
  <1>1. BenchRuns => EnsembleFollowsVotes
    BY VotesAreFollowed DEF BenchRuns, EnsembleFollowsVotes
  <1> QED
    BY <1>1, BenchHolds, PTL

-----------------------------------------------------------------------------
(* A learner and their logs.                                               *)

Bags == [Kinds -> Nat]

\* A sum is that of the library, in the instance too.
LEMMA LearnerSums ==
  /\ \A f, S : Learner!SumFunctionOnSet(f, S) = SumFunctionOnSet(f, S)
  /\ \A f : Learner!Total(f) = SumFunctionOnSet(f, DOMAIN f)
  BY DEF Learner!SumFunctionOnSet, SumFunctionOnSet, Learner!Total, Learner!FoldFunction,
         FoldFunctionOnSet, Learner!FoldFunctionOnSet, MapThenFoldSet, Learner!MapThenFoldSet

LEMMA BagFacts ==
  ASSUME NEW bag \in Bags, NEW S, S \subseteq Kinds
  PROVE  Learner!Total(bag) \in Nat /\ Learner!SumFunctionOnSet(bag, S) \in Nat
  <1>1. IsFiniteSet(Kinds) /\ IsFiniteSet(S)
    <2>1. IsFiniteSet(Kinds)
      BY EnginesAssumption DEF Learner!DiagnosisAssumption, Learner!IsFiniteSet, IsFiniteSet
    <2> QED BY <2>1, FS_Subset
  <1>2. SumFunctionOnSet(bag, Kinds) \in Nat /\ SumFunctionOnSet(bag, S) \in Nat
    BY <1>1, SumOfNaturals DEF Bags
  <1> QED BY <1>2, LearnerSums DEF Bags

LEMMA RightFacts ==
  ASSUME NEW bag \in Bags
  PROVE  Learner!Of(bag, LAMBDA k : k.correct) \in Nat
  <1>1. {k \in Kinds : k.correct} \subseteq Kinds
    OBVIOUS
  <1>2. Learner!SumFunctionOnSet(bag, {k \in Kinds : k.correct}) \in Nat
    BY <1>1, BagFacts
  <1> QED BY <1>2 DEF Learner!Of

\* How many of these thresholds are reached.
LEMMA OneMore ==
  ASSUME NEW S, IsFiniteSet(S), NEW n \in Nat, Cardinality(S) = n, NEW x, x \notin S
  PROVE  IsFiniteSet(S \cup {x}) /\ Cardinality(S \cup {x}) = n + 1
  BY FS_AddElement

LEMMA AmountSizes ==
  /\ Cardinality({}) = 0
  /\ Cardinality({1}) = 1
  /\ Cardinality({1, 30}) = 2
  /\ Cardinality({1, 30, 80}) = 3
  /\ Cardinality({1, 30, 80, 200}) = 4
  /\ Cardinality({1, 30, 80, 200, 400}) = 5
  <1>1. IsFiniteSet({}) /\ Cardinality({}) = 0
    BY FS_EmptySet
  <1>2. IsFiniteSet({1}) /\ Cardinality({1}) = 1
    BY FS_Singleton
  <1>3. IsFiniteSet({1, 30}) /\ Cardinality({1, 30}) = 2
    <2>1. {1, 30} = {1} \cup {30} /\ 30 \notin {1}
      OBVIOUS
    <2>2. PICK S : S = {1}
      OBVIOUS
    <2>3. IsFiniteSet(S \cup {30}) /\ Cardinality(S \cup {30}) = 2
      BY <1>2, <2>1, <2>2, OneMore
    <2> QED BY <2>1, <2>2, <2>3
  <1>4. IsFiniteSet({1, 30, 80}) /\ Cardinality({1, 30, 80}) = 3
    <2>1. {1, 30, 80} = {1, 30} \cup {80} /\ 80 \notin {1, 30}
      OBVIOUS
    <2>2. PICK S : S = {1, 30}
      OBVIOUS
    <2>3. IsFiniteSet(S \cup {80}) /\ Cardinality(S \cup {80}) = 3
      BY <1>3, <2>1, <2>2, OneMore
    <2> QED BY <2>1, <2>2, <2>3
  <1>5. IsFiniteSet({1, 30, 80, 200}) /\ Cardinality({1, 30, 80, 200}) = 4
    <2>1. {1, 30, 80, 200} = {1, 30, 80} \cup {200} /\ 200 \notin {1, 30, 80}
      OBVIOUS
    <2>2. PICK S : S = {1, 30, 80}
      OBVIOUS
    <2>3. IsFiniteSet(S \cup {200}) /\ Cardinality(S \cup {200}) = 4
      BY <1>4, <2>1, <2>2, OneMore
    <2> QED BY <2>1, <2>2, <2>3
  <1>6. IsFiniteSet({1, 30, 80, 200, 400}) /\ Cardinality({1, 30, 80, 200, 400}) = 5
    <2>1. {1, 30, 80, 200, 400} = {1, 30, 80, 200} \cup {400} /\ 400 \notin {1, 30, 80, 200}
      OBVIOUS
    <2>2. PICK S : S = {1, 30, 80, 200}
      OBVIOUS
    <2>3. IsFiniteSet(S \cup {400}) /\ Cardinality(S \cup {400}) = 5
      BY <1>5, <2>1, <2>2, OneMore
    <2> QED BY <2>1, <2>2, <2>3
  <1> QED BY <1>1, <1>2, <1>3, <1>4, <1>5, <1>6

LEMMA RateSizes ==
  /\ Cardinality({}) = 0
  /\ Cardinality({50}) = 1
  /\ Cardinality({50, 62}) = 2
  /\ Cardinality({50, 62, 72}) = 3
  <1>1. IsFiniteSet({}) /\ Cardinality({}) = 0
    BY FS_EmptySet
  <1>2. IsFiniteSet({50}) /\ Cardinality({50}) = 1
    BY FS_Singleton
  <1>3. IsFiniteSet({50, 62}) /\ Cardinality({50, 62}) = 2
    <2>1. {50, 62} = {50} \cup {62} /\ 62 \notin {50}
      OBVIOUS
    <2>2. PICK S : S = {50}
      OBVIOUS
    <2>3. IsFiniteSet(S \cup {62}) /\ Cardinality(S \cup {62}) = 2
      BY <1>2, <2>1, <2>2, OneMore
    <2> QED BY <2>1, <2>2, <2>3
  <1>4. IsFiniteSet({50, 62, 72}) /\ Cardinality({50, 62, 72}) = 3
    <2>1. {50, 62, 72} = {50, 62} \cup {72} /\ 72 \notin {50, 62}
      OBVIOUS
    <2>2. PICK S : S = {50, 62}
      OBVIOUS
    <2>3. IsFiniteSet(S \cup {72}) /\ Cardinality(S \cup {72}) = 3
      BY <1>3, <2>1, <2>2, OneMore
    <2> QED BY <2>1, <2>2, <2>3
  <1> QED BY <1>1, <1>2, <1>3, <1>4

Amounts(n) == {m \in {1, 30, 80, 200, 400} : n >= m}
Rates(n, c) == {p \in {50, 62, 72} : 100 * c >= p * n}

LEMMA AmountFacts ==
  ASSUME NEW n \in Nat
  PROVE  Cardinality(Amounts(n)) =
            IF n = 0 THEN 0 ELSE IF n < 30 THEN 1 ELSE IF n < 80 THEN 2
            ELSE IF n < 200 THEN 3 ELSE IF n < 400 THEN 4 ELSE 5
  <1>1. /\ Cardinality({}) = 0 /\ Cardinality({1}) = 1 /\ Cardinality({1, 30}) = 2
        /\ Cardinality({1, 30, 80}) = 3 /\ Cardinality({1, 30, 80, 200}) = 4
        /\ Cardinality({1, 30, 80, 200, 400}) = 5
    BY AmountSizes
  <1>2. CASE n = 0
    <2>1. Amounts(n) = {}
      BY <1>2 DEF Amounts
    <2> QED BY <1>1, <1>2, <2>1
  <1>3. CASE n \in 1 .. 29
    <2>1. Amounts(n) = {1}
      BY <1>3 DEF Amounts
    <2> QED BY <1>1, <1>3, <2>1
  <1>4. CASE n \in 30 .. 79
    <2>1. Amounts(n) = {1, 30}
      BY <1>4 DEF Amounts
    <2> QED BY <1>1, <1>4, <2>1
  <1>5. CASE n \in 80 .. 199
    <2>1. Amounts(n) = {1, 30, 80}
      BY <1>5 DEF Amounts
    <2> QED BY <1>1, <1>5, <2>1
  <1>6. CASE n \in 200 .. 399
    <2>1. Amounts(n) = {1, 30, 80, 200}
      BY <1>6 DEF Amounts
    <2> QED BY <1>1, <1>6, <2>1
  <1>7. CASE n >= 400
    <2>1. Amounts(n) = {1, 30, 80, 200, 400}
      BY <1>7 DEF Amounts
    <2> QED BY <1>1, <1>7, <2>1
  <1> QED BY <1>2, <1>3, <1>4, <1>5, <1>6, <1>7

LEMMA RateFacts ==
  ASSUME NEW n \in Nat, NEW c \in Nat
  PROVE  Cardinality(Rates(n, c)) =
            IF 100 * c < 50 * n THEN 0 ELSE IF 100 * c < 62 * n THEN 1
            ELSE IF 100 * c < 72 * n THEN 2 ELSE 3
  <1>1. /\ Cardinality({}) = 0 /\ Cardinality({50}) = 1 /\ Cardinality({50, 62}) = 2
        /\ Cardinality({50, 62, 72}) = 3
    BY RateSizes
  <1>2. CASE 100 * c < 50 * n
    <2>1. Rates(n, c) = {}
      BY <1>2 DEF Rates
    <2> QED BY <1>1, <1>2, <2>1
  <1>3. CASE 50 * n <= 100 * c /\ 100 * c < 62 * n
    <2>1. Rates(n, c) = {50}
      BY <1>3 DEF Rates
    <2> QED BY <1>1, <1>3, <2>1
  <1>4. CASE 62 * n <= 100 * c /\ 100 * c < 72 * n
    <2>1. Rates(n, c) = {50, 62}
      BY <1>4 DEF Rates
    <2> QED BY <1>1, <1>4, <2>1
  <1>5. CASE 72 * n <= 100 * c
    <2>1. Rates(n, c) = {50, 62, 72}
      BY <1>5 DEF Rates
    <2> QED BY <1>1, <1>5, <2>1
  <1> QED BY <1>2, <1>3, <1>4, <1>5

LEMMA LeastOfTwo ==
  ASSUME NEW a \in Nat, NEW b \in Nat
  PROVE  Learner!Min({a, b}) = IF a <= b THEN a ELSE b
  <1>1. PICK S : S = {a, b}
    OBVIOUS
  <1>2. \E m \in S : \A k \in S : m <= k
    BY <1>1
  <1>3. Learner!Min(S) \in S /\ \A k \in S : Learner!Min(S) <= k
    BY <1>2, Zenon DEF Learner!Min
  <1> QED BY <1>1, <1>3

\* infer_current_stage (aggregate.py) takes the weaker of the two.
LEMMA StageOfBoth ==
  ASSUME NEW n \in Nat, NEW c \in Nat
  PROVE  Learner!infer_current_stage(n, c) =
            IF n < 30 THEN Cardinality(Amounts(n)) + 1
            ELSE Learner!Min({Cardinality(Amounts(n)) + 1, 3 + Cardinality(Rates(n, c))})
  <1>1. PICK a \in Nat : a = Cardinality(Amounts(n)) + 1 /\
            a = IF n = 0 THEN 1 ELSE IF n < 30 THEN 2 ELSE IF n < 80 THEN 3
                ELSE IF n < 200 THEN 4 ELSE IF n < 400 THEN 5 ELSE 6
    BY AmountFacts
  <1>2. PICK r \in Nat : r = 3 + Cardinality(Rates(n, c)) /\
            r = IF 100 * c < 50 * n THEN 3 ELSE IF 100 * c < 62 * n THEN 4
                ELSE IF 100 * c < 72 * n THEN 5 ELSE 6
    BY RateFacts
  <1>3. Learner!Min({a, r}) = IF a <= r THEN a ELSE r
    BY LeastOfTwo
  <1>4. \A p : Learner!Below(<<c, n>>, p) <=> n = 0 \/ 100 * c < p * n
    BY DEF Learner!Below
  <1>5. Learner!infer_current_stage(n, c) = IF n < 30 THEN a ELSE IF a <= r THEN a ELSE r
    <2>1. CASE n = 0
      BY <1>1, <2>1 DEF Learner!infer_current_stage
    <2>2. CASE n \in 1 .. 29
      BY <1>1, <2>2 DEF Learner!infer_current_stage
    <2>3. CASE n >= 30
      <3>1. \A p \in {50, 62, 72} : Learner!Below(<<c, n>>, p) <=> 100 * c < p * n
        BY <1>4, <2>3
      <3>2. CASE n < 80 \/ 100 * c < 50 * n
        BY <1>1, <1>2, <2>3, <3>1, <3>2 DEF Learner!infer_current_stage
      <3>3. CASE ~ (n < 80 \/ 100 * c < 50 * n) /\ (n < 200 \/ 100 * c < 62 * n)
        BY <1>1, <1>2, <2>3, <3>1, <3>3 DEF Learner!infer_current_stage
      <3>4. CASE ~ (n < 200 \/ 100 * c < 62 * n) /\ (n < 400 \/ 100 * c < 72 * n)
        BY <1>1, <1>2, <2>3, <3>1, <3>4 DEF Learner!infer_current_stage
      <3>5. CASE ~ (n < 400 \/ 100 * c < 72 * n)
        BY <1>1, <1>2, <2>3, <3>1, <3>5 DEF Learner!infer_current_stage
      <3> QED BY <3>2, <3>3, <3>4, <3>5
    <2> QED BY <2>1, <2>2, <2>3
  <1> QED BY <1>1, <1>2, <1>3, <1>5

\* The inductive invariant: logs are counted, and a prescription is that of its logs.
Prescribed(p) ==
    p.logs \in Bags /\ p.context \in Contexts /\ p = Learner!prescribe(p.logs, p.context)
LearnerInv ==
    /\ logs \in Bags
    /\ rx # None => Prescribed(rx)
    /\ before # None => Prescribed(before) /\ before.context = rx.context

LEMMA LearnerInit ==
  ASSUME Learner!Init PROVE LearnerInv
  BY EnginesAssumption DEF Learner!Init, LearnerInv, Learner!DiagnosisAssumption, Bags

LEMMA PrescribeFacts ==
  ASSUME NEW bag, NEW c, NEW p, p = Learner!prescribe(bag, c)
  PROVE  p.logs = bag /\ p.context = c /\ p.state = Learner!aggregate_user_state(bag, c)
  BY DEF Learner!prescribe

LEMMA LearnerNext ==
  ASSUME LearnerInv, Learner!Next PROVE LearnerInv'
  <1>1. CASE \E k \in Kinds : Learner!AddLog(k)
    <2>1. PICK k \in Kinds : Learner!AddLog(k)
      BY <1>1
    <2>2. logs' \in Bags /\ before' = None /\ rx' = rx
      BY <2>1 DEF Learner!AddLog, LearnerInv, Bags
    <2> QED BY <2>2 DEF LearnerInv, Prescribed
  <1>2. CASE Learner!ClearLogs
    <2>1. logs' \in Bags /\ before' = None /\ rx' = rx
      BY <1>2 DEF Learner!ClearLogs, Bags
    <2> QED BY <2>1 DEF LearnerInv, Prescribed
  <1>3. CASE Learner!Refresh
    <2>1. PICK c \in Contexts :
             /\ rx' = Learner!prescribe(logs, c)
             /\ before' = CASE rx' = rx -> before
                          [] rx' # rx /\ rx # None -> IF rx.context = c THEN rx ELSE None
                          [] OTHER -> None
      BY <1>3, Zenon DEF Learner!Refresh
    <2>2. logs' = logs
      BY <1>3 DEF Learner!Refresh
    <2>3. rx'.logs = logs /\ rx'.context = c
      BY <2>1, PrescribeFacts
    <2>4. Prescribed(rx)'
      BY <2>1, <2>2, <2>3 DEF Prescribed, LearnerInv
    <2>5. CASE rx' = rx
      BY <2>1, <2>2, <2>4, <2>5 DEF LearnerInv, Prescribed
    <2>6. CASE rx' # rx /\ before' # None
      <3>1. before' = rx /\ rx # None /\ rx.context = c
        BY <2>1, <2>6
      <3>2. Prescribed(rx)
        BY <3>1 DEF LearnerInv
      <3>3. Prescribed(before)'
        BY <3>1, <3>2 DEF Prescribed
      <3> QED BY <2>2, <2>3, <2>4, <3>1, <3>3 DEF LearnerInv
    <2>7. CASE before' = None
      BY <2>2, <2>4, <2>7 DEF LearnerInv
    <2> QED BY <2>5, <2>6, <2>7
  <1> QED BY <1>1, <1>2, <1>3 DEF Learner!Next

LEMMA StageFollows ==
  ASSUME LearnerInv PROVE Learner!StageIsEarned
  <1> SUFFICES ASSUME rx # None PROVE Learner!StageIsEarned
    BY DEF Learner!StageIsEarned
  <1> DEFINE n == Learner!Total(rx.logs)
             right == Learner!Of(rx.logs, LAMBDA k : k.correct)
             stage == rx.context.stage
             byAmount == Learner!Cardinality({m \in {1, 30, 80, 200, 400} : n >= m}) + 1
             byAccuracy == 3 + Learner!Cardinality({p \in {50, 62, 72} : 100 * right >= p * n})
  <1>1. rx.logs \in Bags /\ rx.state = Learner!aggregate_user_state(rx.logs, rx.context)
    BY PrescribeFacts DEF LearnerInv, Prescribed
  <1>2. n \in Nat /\ right \in Nat
    BY <1>1, BagFacts, RightFacts
  <1>3. rx.state.stage = IF stage # None THEN stage ELSE Learner!infer_current_stage(n, right)
    BY <1>1 DEF Learner!aggregate_user_state
  <1>4. byAmount = Cardinality(Amounts(n)) + 1 /\ byAccuracy = 3 + Cardinality(Rates(n, right))
    BY DEF Amounts, Rates, Learner!Cardinality, Cardinality
  <1> HIDE DEF n, right, stage, byAmount, byAccuracy
  <1>5. IF stage # None THEN rx.state.stage = stage
        ELSE rx.state.stage = IF n < 30 THEN byAmount ELSE Learner!Min({byAmount, byAccuracy})
    BY <1>2, <1>3, <1>4, StageOfBoth
  <1> QED
    BY <1>5, Zenon DEF Learner!StageIsEarned, n, right, stage, byAmount, byAccuracy

LEMMA LearnerSets ==
  /\ IsFiniteSet(Kinds) /\ IsFiniteSet(DOMAIN Rules)
  /\ \A c \in Contexts : c.stage \in 1 .. 6 \cup {None}
  BY EnginesAssumption DEF Learner!DiagnosisAssumption, Learner!IsFiniteSet, IsFiniteSet

LEMMA Products ==
  /\ \A m : Learner!FoldFunction(LAMBDA a, b : a * b, 1, m) = Product(m)
  /\ \A S : Learner!Cardinality(S) = Cardinality(S)
  BY DEF Product, FoldFunction, Learner!FoldFunction, FoldFunctionOnSet, Learner!FoldFunctionOnSet,
         MapThenFoldSet, Learner!MapThenFoldSet, Learner!Cardinality, Cardinality

\* Gaps (prescribe.py) are what keeps the mean of the rates below a half.
LEMMA GapsAre ==
  ASSUME NEW m, AreRates(m) PROVE Learner!Gaps(m) <=> ~HalfAtLeast(m)
  <1> DEFINE t == [c \in DOMAIN m |-> m[c][2]]
  <1>1. Learner!FoldFunction(LAMBDA a, b : a * b, 1, t) = Whole(m)
    BY Products DEF Whole
  <1>2. Learner!Total([c \in DOMAIN m |-> (m[c][1] * Whole(m)) \div m[c][2]])
           = SumFunctionOnSet(Scaled(m), DOMAIN m)
    <2>1. DOMAIN Scaled(m) = DOMAIN m
      BY DEF Scaled
    <2> QED BY <2>1, LearnerSums DEF Scaled
  <1>3. Learner!Gaps(m) <=> m # << >> /\ 2 * SumFunctionOnSet(Scaled(m), DOMAIN m) < Cardinality(DOMAIN m) * Whole(m)
    BY <1>1, <1>2, Products DEF Learner!Gaps
  <1>4. PICK s \in Nat, n \in Nat, w \in Nat : s = SumFunctionOnSet(Scaled(m), DOMAIN m) /\ n = Cardinality(DOMAIN m) /\ w = Whole(m)
    BY ScaledFacts
  <1>5. HalfAtLeast(m) <=> ~ (2 * s < n * w)
    BY <1>4 DEF HalfAtLeast
  <1>6. ~HalfAtLeast(m) => m # << >>
    BY HalfOfNothing
  <1> QED BY <1>3, <1>4, <1>5, <1>6

\* The kinds of log that count for a concept of a subject.
Ones(s, c) == {k \in Kinds : Learner!Subject(k) = s /\ Learner!Concept(k) = c}
RightOnes(s, c) == {k \in Ones(s, c) : k.correct}

LEMMA MasteryFacts ==
  ASSUME NEW bag \in Bags, NEW s, NEW m, m = Learner!_aggregate_concept_mastery(bag, s)
  PROVE  /\ AreRates(m)
         /\ \A c : c \in DOMAIN m <=> c # None /\ \E k \in Ones(s, c) : bag[k] > 0
         /\ \A c \in DOMAIN m : /\ m[c][1] = SumFunctionOnSet(bag, RightOnes(s, c))
                                /\ m[c][2] = SumFunctionOnSet(bag, Ones(s, c))
  <1> DEFINE with == {k \in Kinds : bag[k] > 0 /\ Learner!Subject(k) = s /\ Learner!Concept(k) # None}
             D == {Learner!Concept(k) : k \in with}
             all(c) == {k \in Kinds : k \in with /\ Learner!Concept(k) = c}
             right(c) == {k \in Kinds : k \in with /\ Learner!Concept(k) = c /\ k.correct}
  <1>1. m = [c \in D |-> <<SumFunctionOnSet(bag, right(c)), SumFunctionOnSet(bag, all(c))>>]
    BY LearnerSums DEF Learner!_aggregate_concept_mastery, Learner!Of
  <1>2. IsFiniteSet(D)
    <2>1. IsFiniteSet(with)
      BY LearnerSets, FS_Subset
    <2>2. PICK f : f = [k \in with |-> Learner!Concept(k)]
      OBVIOUS
    <2>3. DOMAIN f = with /\ \A k \in with : f[k] = Learner!Concept(k)
      BY <2>2
    <2>4. IsFiniteSet({f[k] : k \in DOMAIN f})
      BY <2>1, <2>3, ImageIsFinite
    <2> HIDE DEF with
    <2>5. {f[k] : k \in DOMAIN f} = D
      BY <2>3
    <2> QED BY <2>4, <2>5
  <1>3. DOMAIN m = D
    BY <1>1
  <1>4. \A c : c \in D <=> c # None /\ \E k \in Ones(s, c) : bag[k] > 0
    BY DEF Ones
  <1>5. ASSUME NEW c \in D
        PROVE  /\ SumFunctionOnSet(bag, right(c)) = SumFunctionOnSet(bag, RightOnes(s, c))
               /\ SumFunctionOnSet(bag, all(c)) = SumFunctionOnSet(bag, Ones(s, c))
               /\ SumFunctionOnSet(bag, all(c)) \in Nat \ {0}
               /\ SumFunctionOnSet(bag, right(c)) \in Nat
    <2>1. c # None
      BY <1>4
    <2>2. /\ right(c) \in SUBSET RightOnes(s, c) /\ all(c) \in SUBSET Ones(s, c)
          /\ \A k \in RightOnes(s, c) \ right(c) : ~ (bag[k] > 0)
          /\ \A k \in Ones(s, c) \ all(c) : ~ (bag[k] > 0)
      BY <2>1 DEF RightOnes, Ones
    <2>3. /\ IsFiniteSet(RightOnes(s, c)) /\ IsFiniteSet(Ones(s, c))
          /\ \A k \in RightOnes(s, c) : bag[k] \in Nat
          /\ \A k \in Ones(s, c) : bag[k] \in Nat
      <3>1. RightOnes(s, c) \subseteq Kinds /\ Ones(s, c) \subseteq Kinds
        BY DEF RightOnes, Ones
      <3> QED BY <3>1, LearnerSets, FS_Subset DEF Bags
    <2>4. PICK k \in Ones(s, c) : bag[k] > 0
      BY <1>4
    <2> HIDE DEF D, all, right
    <2>5. /\ \A x \in RightOnes(s, c) \ right(c) : bag[x] = 0
          /\ \A x \in Ones(s, c) \ all(c) : bag[x] = 0
      BY <2>2, <2>3
    <2>6. SumFunctionOnSet(bag, right(c)) = SumFunctionOnSet(bag, RightOnes(s, c))
      BY <2>2, <2>3, <2>5, SumOfPart
    <2>7. SumFunctionOnSet(bag, all(c)) = SumFunctionOnSet(bag, Ones(s, c))
      BY <2>2, <2>3, <2>5, SumOfPart
    <2>8. bag[k] <= SumFunctionOnSet(bag, Ones(s, c))
      BY <2>3, <2>4, SumOfPart
    <2>9. SumFunctionOnSet(bag, RightOnes(s, c)) \in Nat /\ SumFunctionOnSet(bag, Ones(s, c)) \in Nat
      BY <2>3, SumOfNaturals
    <2>10. bag[k] \in Nat
      BY <2>3, <2>4
    <2> QED BY <2>4, <2>6, <2>7, <2>8, <2>9, <2>10
  <1> HIDE DEF D, all, right
  <1>6. \A c \in DOMAIN m : m[c][1] = SumFunctionOnSet(bag, right(c)) /\ m[c][2] = SumFunctionOnSet(bag, all(c))
    BY <1>1
  <1>7. AreRates(m)
    BY <1>2, <1>3, <1>5, <1>6 DEF AreRates
  <1> QED BY <1>3, <1>4, <1>5, <1>6, <1>7

\* Answers that were added to b, all of them right.
LEMMA MasteryOfRight ==
  ASSUME NEW b \in Bags, NEW a \in Bags, \A k \in Kinds : b[k] <= a[k],
         \A k \in Kinds : b[k] < a[k] => k.correct, NEW s,
         Learner!Gaps(Learner!_aggregate_concept_mastery(a, s))
  PROVE  Learner!Gaps(Learner!_aggregate_concept_mastery(b, s))
  <1>1. PICK m : m = Learner!_aggregate_concept_mastery(b, s)
    OBVIOUS
  <1>2. PICK m2 : m2 = Learner!_aggregate_concept_mastery(a, s)
    OBVIOUS
  <1>3. /\ AreRates(m)
        /\ \A c : c \in DOMAIN m <=> c # None /\ \E k \in Ones(s, c) : b[k] > 0
        /\ \A c \in DOMAIN m : /\ m[c][1] = SumFunctionOnSet(b, RightOnes(s, c))
                               /\ m[c][2] = SumFunctionOnSet(b, Ones(s, c))
    BY <1>1, MasteryFacts
  <1>4. /\ AreRates(m2)
        /\ \A c : c \in DOMAIN m2 <=> c # None /\ \E k \in Ones(s, c) : a[k] > 0
        /\ \A c \in DOMAIN m2 : /\ m2[c][1] = SumFunctionOnSet(a, RightOnes(s, c))
                                /\ m2[c][2] = SumFunctionOnSet(a, Ones(s, c))
    BY <1>2, MasteryFacts
  <1>5. DOMAIN m \ DOMAIN m2 = {}
    <2>1. \A c : \A k \in Ones(s, c) : b[k] > 0 => a[k] > 0
      BY DEF Ones, Bags
    <2> QED BY <1>3, <1>4, <2>1
  <1>6. ASSUME NEW c
        PROVE  \E r \in Nat, t \in Nat, n \in Nat :
                  /\ r = SumFunctionOnSet(b, RightOnes(s, c)) /\ t = SumFunctionOnSet(b, Ones(s, c)) /\ r <= t
                  /\ r + n = SumFunctionOnSet(a, RightOnes(s, c)) /\ t + n = SumFunctionOnSet(a, Ones(s, c))
    <2>1. Ones(s, c) \in SUBSET Kinds /\ RightOnes(s, c) \in SUBSET Ones(s, c)
      BY DEF Ones, RightOnes
    <2>2. \A k \in Ones(s, c) \ RightOnes(s, c) : a[k] = b[k]
      BY <2>1 DEF RightOnes, Bags
    <2>3. b \in [Kinds -> Nat] /\ a \in [Kinds -> Nat] /\ IsFiniteSet(Kinds)
      BY LearnerSets DEF Bags
    <2>4. PICK T, R : T = Ones(s, c) /\ R = RightOnes(s, c)
      OBVIOUS
    <2>5. /\ SumFunctionOnSet(b, T) \in Nat /\ SumFunctionOnSet(a, T) \in Nat
          /\ SumFunctionOnSet(b, R) \in Nat /\ SumFunctionOnSet(a, R) \in Nat
          /\ SumFunctionOnSet(b, R) <= SumFunctionOnSet(b, T)
          /\ SumFunctionOnSet(b, T) <= SumFunctionOnSet(a, T)
          /\ SumFunctionOnSet(a, T) - SumFunctionOnSet(b, T) = SumFunctionOnSet(a, R) - SumFunctionOnSet(b, R)
      BY <2>1, <2>2, <2>3, <2>4, GrownPart
    <2>6. PICK r \in Nat, t \in Nat, n \in Nat :
             /\ r = SumFunctionOnSet(b, R) /\ t = SumFunctionOnSet(b, T)
             /\ n = SumFunctionOnSet(a, T) - SumFunctionOnSet(b, T)
      BY <2>5
    <2>7. r <= t /\ r + n = SumFunctionOnSet(a, R) /\ t + n = SumFunctionOnSet(a, T)
      BY <2>5, <2>6
    <2> QED BY <2>4, <2>6, <2>7
  <1>7. \A c \in DOMAIN m \cap DOMAIN m2 : m[c][1] * m2[c][2] <= m2[c][1] * m[c][2]
    <2> SUFFICES ASSUME NEW c \in DOMAIN m \cap DOMAIN m2
                 PROVE  m[c][1] * m2[c][2] <= m2[c][1] * m[c][2]
      OBVIOUS
    <2>1. PICK r \in Nat, t \in Nat, n \in Nat :
             /\ r = m[c][1] /\ t = m[c][2] /\ r <= t /\ r + n = m2[c][1] /\ t + n = m2[c][2]
      BY <1>3, <1>4, <1>6
    <2>2. r * (t + n) <= (r + n) * t
      BY <2>1, RateGrows
    <2> QED BY <2>1, <2>2
  <1>8. \A c \in DOMAIN m2 \ DOMAIN m : m2[c][2] <= 2 * m2[c][1]
    <2> SUFFICES ASSUME NEW c \in DOMAIN m2 \ DOMAIN m PROVE m2[c][2] <= 2 * m2[c][1]
      OBVIOUS
    <2>1. PICK r \in Nat, t \in Nat, n \in Nat :
             /\ r <= t /\ t = SumFunctionOnSet(b, Ones(s, c))
             /\ r + n = m2[c][1] /\ t + n = m2[c][2]
      BY <1>4, <1>6
    <2>2. \A k \in Ones(s, c) : ~ (b[k] > 0)
      BY <1>3, <1>4
    <2>3. \A k \in Ones(s, c) : b[k] = 0
      BY <2>2 DEF Ones, Bags
    <2>4. IsFiniteSet(Ones(s, c))
      <3>1. Ones(s, c) \subseteq Kinds
        BY DEF Ones
      <3> QED BY <3>1, LearnerSets, FS_Subset
    <2>5. t = 0
      BY <2>1, <2>3, <2>4, SumOfZeros
    <2> QED BY <2>1, <2>5
  <1>9. ~HalfAtLeast(m2)
    BY <1>2, <1>4, GapsAre
  <1>10. ~HalfAtLeast(m)
    <2>1. \A c \in DOMAIN m \ DOMAIN m2 : 2 * m[c][1] <= m[c][2]
      BY <1>5
    <2> QED BY <1>3, <1>4, <1>7, <1>8, <1>9, <2>1, MeanFollows
  <1> QED BY <1>1, <1>3, <1>10, GapsAre

\* Answers that were added to b, all of them wrong.
LEMMA MasteryOfWrong ==
  ASSUME NEW b \in Bags, NEW a \in Bags, \A k \in Kinds : b[k] <= a[k],
         \A k \in Kinds : b[k] < a[k] => ~k.correct, NEW s,
         Learner!Gaps(Learner!_aggregate_concept_mastery(b, s))
  PROVE  Learner!Gaps(Learner!_aggregate_concept_mastery(a, s))
  <1>1. PICK m : m = Learner!_aggregate_concept_mastery(b, s)
    OBVIOUS
  <1>2. PICK m2 : m2 = Learner!_aggregate_concept_mastery(a, s)
    OBVIOUS
  <1>3. /\ AreRates(m)
        /\ \A c : c \in DOMAIN m <=> c # None /\ \E k \in Ones(s, c) : b[k] > 0
        /\ \A c \in DOMAIN m : /\ m[c][1] = SumFunctionOnSet(b, RightOnes(s, c))
                               /\ m[c][2] = SumFunctionOnSet(b, Ones(s, c))
    BY <1>1, MasteryFacts
  <1>4. /\ AreRates(m2)
        /\ \A c : c \in DOMAIN m2 <=> c # None /\ \E k \in Ones(s, c) : a[k] > 0
        /\ \A c \in DOMAIN m2 : /\ m2[c][1] = SumFunctionOnSet(a, RightOnes(s, c))
                                /\ m2[c][2] = SumFunctionOnSet(a, Ones(s, c))
    BY <1>2, MasteryFacts
  <1>5. DOMAIN m \ DOMAIN m2 = {}
    <2>1. \A c : \A k \in Ones(s, c) : b[k] > 0 => a[k] > 0
      BY DEF Ones, Bags
    <2> QED BY <1>3, <1>4, <2>1
  <1>6. ASSUME NEW c
        PROVE  \E r \in Nat, t \in Nat, u \in Nat :
                  /\ r = SumFunctionOnSet(b, RightOnes(s, c)) /\ t = SumFunctionOnSet(b, Ones(s, c))
                  /\ r <= t /\ t <= u
                  /\ r = SumFunctionOnSet(a, RightOnes(s, c)) /\ u = SumFunctionOnSet(a, Ones(s, c))
    <2>1. Ones(s, c) \in SUBSET Kinds /\ RightOnes(s, c) \in SUBSET Ones(s, c)
      BY DEF Ones, RightOnes
    <2>2. \A k \in RightOnes(s, c) : a[k] = b[k]
      BY <2>1 DEF RightOnes, Bags
    <2>3. b \in [Kinds -> Nat] /\ a \in [Kinds -> Nat] /\ IsFiniteSet(Kinds)
      BY LearnerSets DEF Bags
    <2>4. PICK T, R : T = Ones(s, c) /\ R = RightOnes(s, c)
      OBVIOUS
    <2>5. /\ SumFunctionOnSet(b, T) \in Nat /\ SumFunctionOnSet(a, T) \in Nat
          /\ SumFunctionOnSet(b, R) \in Nat /\ SumFunctionOnSet(a, R) \in Nat
          /\ SumFunctionOnSet(b, R) <= SumFunctionOnSet(b, T)
          /\ SumFunctionOnSet(b, T) <= SumFunctionOnSet(a, T)
          /\ SumFunctionOnSet(a, R) = SumFunctionOnSet(b, R)
      BY <2>1, <2>2, <2>3, <2>4, GrownPart
    <2> QED BY <2>4, <2>5
  <1>7. \A c \in DOMAIN m2 \cap DOMAIN m : m2[c][1] * m[c][2] <= m[c][1] * m2[c][2]
    <2> SUFFICES ASSUME NEW c \in DOMAIN m2 \cap DOMAIN m
                 PROVE  m2[c][1] * m[c][2] <= m[c][1] * m2[c][2]
      OBVIOUS
    <2>1. PICK r \in Nat, t \in Nat, u \in Nat :
             r = m[c][1] /\ t = m[c][2] /\ t <= u /\ r = m2[c][1] /\ u = m2[c][2]
      BY <1>3, <1>4, <1>6
    <2>2. r * t <= r * u
      BY <2>1, RateOfMore
    <2> QED BY <2>1, <2>2
  <1>8. \A c \in DOMAIN m2 \ DOMAIN m : 2 * m2[c][1] <= m2[c][2]
    <2> SUFFICES ASSUME NEW c \in DOMAIN m2 \ DOMAIN m PROVE 2 * m2[c][1] <= m2[c][2]
      OBVIOUS
    <2>1. PICK r \in Nat, t \in Nat, u \in Nat :
             /\ r <= t /\ t <= u /\ t = SumFunctionOnSet(b, Ones(s, c))
             /\ r = m2[c][1] /\ u = m2[c][2]
      BY <1>4, <1>6
    <2>2. \A k \in Ones(s, c) : ~ (b[k] > 0)
      BY <1>3, <1>4
    <2>3. \A k \in Ones(s, c) : b[k] = 0
      BY <2>2 DEF Ones, Bags
    <2>4. IsFiniteSet(Ones(s, c))
      <3>1. Ones(s, c) \subseteq Kinds
        BY DEF Ones
      <3> QED BY <3>1, LearnerSets, FS_Subset
    <2>5. t = 0
      BY <2>1, <2>3, <2>4, SumOfZeros
    <2> QED BY <2>1, <2>5
  <1>9. ~HalfAtLeast(m)
    BY <1>1, <1>3, GapsAre
  <1>10. ~HalfAtLeast(m2)
    <2>1. \A c \in DOMAIN m \ DOMAIN m2 : m[c][2] <= 2 * m[c][1]
      BY <1>5
    <2> QED BY <1>3, <1>4, <1>7, <1>8, <1>9, <2>1, MeanFollows
  <1> QED BY <1>2, <1>4, <1>10, GapsAre

Answers(s) == {k \in Kinds : Learner!Subject(k) = s}
RightAnswers(s) == {k \in Kinds : Learner!Subject(k) = s /\ k.correct}
TimedAnswers(s) == {k \in Kinds : Learner!Subject(k) = s /\ Problems[k.problem].timed}
SlowAnswers(s) == {k \in Kinds : Learner!Subject(k) = s /\ Problems[k.problem].timed /\ k.slow}

\* What a subject adds to the risk (prescribe.py).
LEMMA RiskOf ==
  ASSUME NEW bag, NEW s
  PROVE  Learner!SubjectRisk(Learner!aggregate_subject_state(bag, s)) =
            (IF Learner!Below(Learner!Accuracy(bag, s), 40) THEN 20 ELSE 0)
            + (IF 100 * SumFunctionOnSet(bag, SlowAnswers(s)) > 30 * SumFunctionOnSet(bag, TimedAnswers(s))
               THEN 15 ELSE 0)
            + (IF Learner!Gaps(Learner!_aggregate_concept_mastery(bag, s)) THEN 15 ELSE 0)
  <1>1. PICK st : st = Learner!aggregate_subject_state(bag, s)
    OBVIOUS
  <1>2. /\ st.accuracy = Learner!Accuracy(bag, s)
        /\ st.overrun = Learner!Overrun(bag, s)
        /\ st.mastery = Learner!_aggregate_concept_mastery(bag, s)
    BY <1>1 DEF Learner!aggregate_subject_state
  <1>3. Learner!Overrun(bag, s) = <<SumFunctionOnSet(bag, SlowAnswers(s)), SumFunctionOnSet(bag, TimedAnswers(s))>>
    BY LearnerSums DEF Learner!Overrun, Learner!Of, SlowAnswers, TimedAnswers
  <1>4. /\ st.overrun[1] = SumFunctionOnSet(bag, SlowAnswers(s))
        /\ st.overrun[2] = SumFunctionOnSet(bag, TimedAnswers(s))
    BY <1>2, <1>3
  <1>5. Learner!SubjectRisk(st) =
            (IF Learner!Below(st.accuracy, 40) THEN 20 ELSE 0)
            + (IF 100 * st.overrun[1] > 30 * st.overrun[2] THEN 15 ELSE 0)
            + (IF Learner!Gaps(st.mastery) THEN 15 ELSE 0)
    BY DEF Learner!SubjectRisk
  <1> QED BY <1>1, <1>2, <1>4, <1>5

LEMMA AccuracyIs ==
  ASSUME NEW bag, NEW s
  PROVE  Learner!Below(Learner!Accuracy(bag, s), 40) <=>
            \/ SumFunctionOnSet(bag, Answers(s)) = 0
            \/ 100 * SumFunctionOnSet(bag, RightAnswers(s)) < 40 * SumFunctionOnSet(bag, Answers(s))
  <1>1. Learner!Accuracy(bag, s) = <<SumFunctionOnSet(bag, RightAnswers(s)), SumFunctionOnSet(bag, Answers(s))>>
    BY LearnerSums DEF Learner!Accuracy, Learner!Of, RightAnswers, Answers
  <1> QED BY <1>1 DEF Learner!Below

LEMMA AnswersGrow ==
  ASSUME NEW b \in Bags, NEW a \in Bags, \A k \in Kinds : b[k] <= a[k],
         NEW T, T \subseteq Kinds, NEW R, R \subseteq T
  PROVE  /\ SumFunctionOnSet(b, T) \in Nat /\ SumFunctionOnSet(a, T) \in Nat
         /\ SumFunctionOnSet(b, R) \in Nat /\ SumFunctionOnSet(a, R) \in Nat
         /\ SumFunctionOnSet(b, R) <= SumFunctionOnSet(b, T)
         /\ SumFunctionOnSet(b, T) <= SumFunctionOnSet(a, T)
         /\ (\A k \in T \ R : ~ (b[k] < a[k])) =>
               SumFunctionOnSet(a, T) - SumFunctionOnSet(b, T) = SumFunctionOnSet(a, R) - SumFunctionOnSet(b, R)
         /\ (\A k \in R : ~ (b[k] < a[k])) => SumFunctionOnSet(a, R) = SumFunctionOnSet(b, R)
  <1>1. IsFiniteSet(Kinds) /\ b \in [Kinds -> Nat] /\ a \in [Kinds -> Nat]
    BY LearnerSets DEF Bags
  <1>2. \A k \in Kinds : ~ (b[k] < a[k]) => a[k] = b[k]
    BY DEF Bags
  <1>3. T \in SUBSET Kinds /\ R \in SUBSET T
    OBVIOUS
  <1>4. /\ (\A k \in T \ R : ~ (b[k] < a[k])) => \A k \in T \ R : a[k] = b[k]
        /\ (\A k \in R : ~ (b[k] < a[k])) => \A k \in R : a[k] = b[k]
    BY <1>2
  <1>5. /\ SumFunctionOnSet(b, T) \in Nat /\ SumFunctionOnSet(a, T) \in Nat
        /\ SumFunctionOnSet(b, R) \in Nat /\ SumFunctionOnSet(a, R) \in Nat
        /\ SumFunctionOnSet(b, R) <= SumFunctionOnSet(b, T)
        /\ SumFunctionOnSet(b, T) <= SumFunctionOnSet(a, T)
        /\ (\A k \in T \ R : a[k] = b[k]) =>
              SumFunctionOnSet(a, T) - SumFunctionOnSet(b, T) = SumFunctionOnSet(a, R) - SumFunctionOnSet(b, R)
        /\ (\A k \in R : a[k] = b[k]) => SumFunctionOnSet(a, R) = SumFunctionOnSet(b, R)
    BY <1>1, <1>3, GrownPart
  <1> QED BY <1>4, <1>5

LEMMA SomeAnswer ==
  ASSUME NEW b \in Bags, NEW k \in Kinds, b[k] > 0
  PROVE  SumFunctionOnSet(b, Answers(Learner!Subject(k))) > 0
  <1>1. PICK T : T = Answers(Learner!Subject(k))
    OBVIOUS
  <1>2. IsFiniteSet(T) /\ k \in T /\ \A x \in T : b[x] \in Nat
    <2>1. T \subseteq Kinds /\ k \in T
      BY <1>1 DEF Answers
    <2> QED BY <2>1, LearnerSets, FS_Subset DEF Bags
  <1>3. b[k] <= SumFunctionOnSet(b, T) /\ SumFunctionOnSet(b, T) \in Nat /\ b[k] \in Nat
    BY <1>2, SumOfPart, SumOfNaturals
  <1> QED BY <1>1, <1>3

LEMMA RiskIsNumber ==
  ASSUME NEW bag, NEW s
  PROVE  Learner!SubjectRisk(Learner!aggregate_subject_state(bag, s)) \in Nat
  <1>1. PICK x \in Nat, y \in Nat, z \in Nat :
           /\ x = (IF Learner!Below(Learner!Accuracy(bag, s), 40) THEN 20 ELSE 0)
           /\ y = (IF 100 * SumFunctionOnSet(bag, SlowAnswers(s)) > 30 * SumFunctionOnSet(bag, TimedAnswers(s))
                   THEN 15 ELSE 0)
           /\ z = (IF Learner!Gaps(Learner!_aggregate_concept_mastery(bag, s)) THEN 15 ELSE 0)
    OBVIOUS
  <1>2. Learner!SubjectRisk(Learner!aggregate_subject_state(bag, s)) = x + y + z
    BY <1>1, RiskOf
  <1> QED BY <1>2

\* Right and quick answers make no subject a greater risk.
LEMMA RiskOfRight ==
  ASSUME NEW b \in Bags, NEW a \in Bags, \A k \in Kinds : b[k] <= a[k],
         \A k \in Kinds : b[k] < a[k] => k.correct /\ ~k.slow,
         NEW s, \E k \in Kinds : b[k] > 0 /\ Learner!Subject(k) = s
  PROVE  Learner!SubjectRisk(Learner!aggregate_subject_state(a, s))
            <= Learner!SubjectRisk(Learner!aggregate_subject_state(b, s))
  <1>1. Learner!Below(Learner!Accuracy(a, s), 40) => Learner!Below(Learner!Accuracy(b, s), 40)
    <2>1. PICK T, R : T = Answers(s) /\ R = RightAnswers(s)
      OBVIOUS
    <2>2. T \subseteq Kinds /\ R \subseteq T /\ \A k \in T \ R : ~ (b[k] < a[k])
      BY <2>1 DEF Answers, RightAnswers
    <2>3. /\ SumFunctionOnSet(b, T) \in Nat /\ SumFunctionOnSet(a, T) \in Nat
          /\ SumFunctionOnSet(b, R) \in Nat /\ SumFunctionOnSet(a, R) \in Nat
          /\ SumFunctionOnSet(b, R) <= SumFunctionOnSet(b, T)
          /\ SumFunctionOnSet(b, T) <= SumFunctionOnSet(a, T)
          /\ SumFunctionOnSet(a, T) - SumFunctionOnSet(b, T) = SumFunctionOnSet(a, R) - SumFunctionOnSet(b, R)
      BY <2>2, AnswersGrow
    <2>4. SumFunctionOnSet(b, T) > 0
      BY <2>1, SomeAnswer
    <2>5. PICK t \in Nat, u \in Nat, r \in Nat, q \in Nat :
             /\ t = SumFunctionOnSet(b, T) /\ u = SumFunctionOnSet(a, T)
             /\ r = SumFunctionOnSet(b, R) /\ q = SumFunctionOnSet(a, R)
      BY <2>3
    <2>6. t > 0 /\ t <= u /\ u - t = q - r
      BY <2>3, <2>4, <2>5
    <2>7. (u = 0 \/ 100 * q < 40 * u) => (t = 0 \/ 100 * r < 40 * t)
      BY <2>6
    <2>8. /\ Learner!Below(Learner!Accuracy(b, s), 40) <=> t = 0 \/ 100 * r < 40 * t
          /\ Learner!Below(Learner!Accuracy(a, s), 40) <=> u = 0 \/ 100 * q < 40 * u
      BY <2>1, <2>5, AccuracyIs
    <2> QED BY <2>7, <2>8
  <1>2. PICK T, R : T = TimedAnswers(s) /\ R = SlowAnswers(s)
    OBVIOUS
  <1>3. T \subseteq Kinds /\ R \subseteq T /\ \A k \in R : ~ (b[k] < a[k])
    BY <1>2 DEF TimedAnswers, SlowAnswers
  <1>4. /\ SumFunctionOnSet(b, T) \in Nat /\ SumFunctionOnSet(a, T) \in Nat
        /\ SumFunctionOnSet(b, R) \in Nat /\ SumFunctionOnSet(a, R) = SumFunctionOnSet(b, R)
        /\ SumFunctionOnSet(b, T) <= SumFunctionOnSet(a, T)
    BY <1>3, AnswersGrow
  <1>5. 100 * SumFunctionOnSet(a, R) > 30 * SumFunctionOnSet(a, T)
           => 100 * SumFunctionOnSet(b, R) > 30 * SumFunctionOnSet(b, T)
    BY <1>4
  <1>6. Learner!Gaps(Learner!_aggregate_concept_mastery(a, s))
           => Learner!Gaps(Learner!_aggregate_concept_mastery(b, s))
    BY MasteryOfRight
  <1> QED BY <1>1, <1>2, <1>5, <1>6, RiskOf

\* Wrong and slow answers make no subject a smaller one.
LEMMA RiskOfWrong ==
  ASSUME NEW b \in Bags, NEW a \in Bags, \A k \in Kinds : b[k] <= a[k],
         \A k \in Kinds : b[k] < a[k] => ~k.correct /\ (k.slow \/ ~Problems[k.problem].timed),
         NEW s, \E k \in Kinds : b[k] > 0 /\ Learner!Subject(k) = s
  PROVE  Learner!SubjectRisk(Learner!aggregate_subject_state(b, s))
            <= Learner!SubjectRisk(Learner!aggregate_subject_state(a, s))
  <1>1. Learner!Below(Learner!Accuracy(b, s), 40) => Learner!Below(Learner!Accuracy(a, s), 40)
    <2>1. PICK T, R : T = Answers(s) /\ R = RightAnswers(s)
      OBVIOUS
    <2>2. T \subseteq Kinds /\ R \subseteq T /\ \A k \in R : ~ (b[k] < a[k])
      BY <2>1 DEF Answers, RightAnswers
    <2>3. /\ SumFunctionOnSet(b, T) \in Nat /\ SumFunctionOnSet(a, T) \in Nat
          /\ SumFunctionOnSet(b, R) \in Nat /\ SumFunctionOnSet(a, R) = SumFunctionOnSet(b, R)
          /\ SumFunctionOnSet(b, T) <= SumFunctionOnSet(a, T)
      BY <2>2, AnswersGrow
    <2>4. SumFunctionOnSet(b, T) > 0
      BY <2>1, SomeAnswer
    <2>5. PICK t \in Nat, u \in Nat, r \in Nat :
             /\ t = SumFunctionOnSet(b, T) /\ u = SumFunctionOnSet(a, T)
             /\ r = SumFunctionOnSet(b, R) /\ r = SumFunctionOnSet(a, R)
      BY <2>3
    <2>6. t > 0 /\ t <= u
      BY <2>3, <2>4, <2>5
    <2>7. (t = 0 \/ 100 * r < 40 * t) => (u = 0 \/ 100 * r < 40 * u)
      BY <2>6
    <2>8. /\ Learner!Below(Learner!Accuracy(b, s), 40) <=> t = 0 \/ 100 * r < 40 * t
          /\ Learner!Below(Learner!Accuracy(a, s), 40) <=> u = 0 \/ 100 * r < 40 * u
      BY <2>1, <2>5, AccuracyIs
    <2> QED BY <2>7, <2>8
  <1>2. PICK T, R : T = TimedAnswers(s) /\ R = SlowAnswers(s)
    OBVIOUS
  <1>3. T \subseteq Kinds /\ R \subseteq T /\ \A k \in T \ R : ~ (b[k] < a[k])
    BY <1>2 DEF TimedAnswers, SlowAnswers
  <1>4. /\ SumFunctionOnSet(b, T) \in Nat /\ SumFunctionOnSet(a, T) \in Nat
        /\ SumFunctionOnSet(b, R) \in Nat /\ SumFunctionOnSet(a, R) \in Nat
        /\ SumFunctionOnSet(b, T) <= SumFunctionOnSet(a, T)
        /\ SumFunctionOnSet(a, T) - SumFunctionOnSet(b, T) = SumFunctionOnSet(a, R) - SumFunctionOnSet(b, R)
    BY <1>3, AnswersGrow
  <1>5. 100 * SumFunctionOnSet(b, R) > 30 * SumFunctionOnSet(b, T)
           => 100 * SumFunctionOnSet(a, R) > 30 * SumFunctionOnSet(a, T)
    BY <1>4
  <1>6. Learner!Gaps(Learner!_aggregate_concept_mastery(b, s))
           => Learner!Gaps(Learner!_aggregate_concept_mastery(a, s))
    BY MasteryOfWrong
  <1> QED BY <1>1, <1>2, <1>5, <1>6, RiskOf

LEMMA StageFacts ==
  ASSUME NEW bag, NEW c, NEW st, st = Learner!aggregate_user_state(bag, c)
  PROVE  st.stage = IF c.stage # None THEN c.stage
                    ELSE Learner!infer_current_stage(Learner!Total(bag), Learner!Of(bag, LAMBDA k : k.correct))
  BY DEF Learner!aggregate_user_state

LEMMA SubjectFacts ==
  ASSUME NEW bag, NEW c, NEW st, st = Learner!aggregate_user_state(bag, c)
  PROVE  /\ st.days = c.days
         /\ IsFiniteSet(DOMAIN st.subjects)
         /\ \A s : s \in DOMAIN st.subjects
                      <=> s \in Known /\ \E k \in Kinds : bag[k] > 0 /\ Learner!Subject(k) = s
         /\ \A s \in DOMAIN st.subjects : st.subjects[s] = Learner!aggregate_subject_state(bag, s)
  <1> DEFINE given == {j \in Kinds : bag[j] > 0}
             D == {Learner!Subject(k) : k \in given} \cap Known
  <1>1. /\ st.days = c.days
        /\ st.subjects = [s \in D |-> Learner!aggregate_subject_state(bag, s)]
    BY DEF Learner!aggregate_user_state
  <1>2. IsFiniteSet(D)
    <2>1. IsFiniteSet(given)
      BY LearnerSets, FS_Subset
    <2>2. PICK f : f = [k \in given |-> Learner!Subject(k)]
      OBVIOUS
    <2>3. DOMAIN f = given /\ \A k \in given : f[k] = Learner!Subject(k)
      BY <2>2
    <2>4. IsFiniteSet({f[k] : k \in DOMAIN f})
      BY <2>1, <2>3, ImageIsFinite
    <2>5. D \subseteq {f[k] : k \in DOMAIN f}
      BY <2>3
    <2> QED BY <2>4, <2>5, FS_Subset
  <1>3. \A s : s \in D <=> s \in Known /\ \E k \in Kinds : bag[k] > 0 /\ Learner!Subject(k) = s
    OBVIOUS
  <1> HIDE DEF D
  <1> QED BY <1>1, <1>2, <1>3

\* What the exam's date and the number of rules add to the score.
LEMMA LevelGrows ==
  ASSUME NEW st, NEW st2, st2.days = st.days, DOMAIN st2.subjects = DOMAIN st.subjects,
         IsFiniteSet(DOMAIN st.subjects),
         \A s \in DOMAIN st.subjects :
            /\ Learner!SubjectRisk(st.subjects[s]) \in Nat
            /\ Learner!SubjectRisk(st2.subjects[s]) \in Nat
            /\ Learner!SubjectRisk(st.subjects[s]) <= Learner!SubjectRisk(st2.subjects[s]),
         NEW M, NEW M2, Learner!Cardinality(M) \in Nat, Learner!Cardinality(M2) \in Nat,
         Learner!Cardinality(M) <= Learner!Cardinality(M2)
  PROVE  Learner!RiskLevel(Learner!_risk_score(st, M)) <= Learner!RiskLevel(Learner!_risk_score(st2, M2))
  <1> DEFINE S == DOMAIN st.subjects
             f == [s \in S |-> Learner!SubjectRisk(st.subjects[s])]
             f2 == [s \in S |-> Learner!SubjectRisk(st2.subjects[s])]
             d == CASE st.days < 30 -> 25 [] st.days \in 30 .. 59 -> 10 [] OTHER -> 0
             r == CASE Learner!Cardinality(M) >= 5 -> 20 [] Learner!Cardinality(M) \in 3 .. 4 -> 10 [] OTHER -> 0
             r2 == CASE Learner!Cardinality(M2) >= 5 -> 20 [] Learner!Cardinality(M2) \in 3 .. 4 -> 10 [] OTHER -> 0
  <1>1. SumFunctionOnSet(f, S) \in Nat /\ SumFunctionOnSet(f2, S) \in Nat
        /\ SumFunctionOnSet(f, S) <= SumFunctionOnSet(f2, S)
    <2>1. \A s \in S : f[s] \in Nat /\ f2[s] \in Nat /\ f[s] \in Int /\ f2[s] \in Int /\ f[s] <= f2[s]
      OBVIOUS
    <2>2. IsFiniteSet(S)
      OBVIOUS
    <2> HIDE DEF f, f2, S
    <2> QED BY <2>1, <2>2, SumOfNaturals, SumGrows
  <1>2. DOMAIN f = S /\ DOMAIN f2 = S
    OBVIOUS
  <1>3. d \in Nat
    OBVIOUS
  <1>4. r \in Nat /\ r2 \in Nat /\ r <= r2
    <2>1. PICK m \in Nat, m2 \in Nat : m = Learner!Cardinality(M) /\ m2 = Learner!Cardinality(M2) /\ m <= m2
      OBVIOUS
    <2>2. /\ r = (CASE m >= 5 -> 20 [] m \in 3 .. 4 -> 10 [] OTHER -> 0)
          /\ r2 = (CASE m2 >= 5 -> 20 [] m2 \in 3 .. 4 -> 10 [] OTHER -> 0)
      BY <2>1
    <2> HIDE DEF r, r2
    <2>3. /\ r = (IF m >= 5 THEN 20 ELSE IF m >= 3 THEN 10 ELSE 0)
          /\ r2 = (IF m2 >= 5 THEN 20 ELSE IF m2 >= 3 THEN 10 ELSE 0)
      BY <2>1, <2>2
    <2> QED BY <2>1, <2>3
  <1>5. /\ Learner!_risk_score(st, M) = Learner!Min({100, SumFunctionOnSet(f, S) + d + r})
        /\ Learner!_risk_score(st2, M2) = Learner!Min({100, SumFunctionOnSet(f2, S) + d + r2})
    <2>1. Learner!_risk_score(st, M) = Learner!Min({100, Learner!Total(f) + d + r})
      BY Zenon DEF Learner!_risk_score
    <2>2. Learner!_risk_score(st2, M2) = Learner!Min({100, Learner!Total(f2) + d + r2})
      BY Zenon DEF Learner!_risk_score
    <2> HIDE DEF f, f2, d, r, r2
    <2> QED BY <1>2, <2>1, <2>2, LearnerSums
  <1> HIDE DEF f, f2, d, r, r2, S
  <1>6. PICK x \in Nat, y \in Nat : x = SumFunctionOnSet(f, S) + d + r /\ y = SumFunctionOnSet(f2, S) + d + r2 /\ x <= y
    BY <1>1, <1>3, <1>4
  <1>7. /\ Learner!_risk_score(st, M) = Learner!Min({100, x})
        /\ Learner!_risk_score(st2, M2) = Learner!Min({100, y})
    BY <1>5, <1>6
  <1>8. Learner!Min({100, x}) = (IF 100 <= x THEN 100 ELSE x) /\ Learner!Min({100, y}) = IF 100 <= y THEN 100 ELSE y
    BY LeastOfTwo
  <1>9. PICK v \in Nat, w \in Nat : v = Learner!_risk_score(st, M) /\ w = Learner!_risk_score(st2, M2) /\ v <= w
    BY <1>6, <1>7, <1>8
  <1>10. /\ Learner!RiskLevel(v) = IF v >= 50 THEN 3 ELSE IF v >= 25 THEN 2 ELSE 1
         /\ Learner!RiskLevel(w) = IF w >= 50 THEN 3 ELSE IF w >= 25 THEN 2 ELSE 1
    BY DEF Learner!RiskLevel
  <1>11. Learner!RiskLevel(v) <= Learner!RiskLevel(w)
    BY <1>9, <1>10
  <1> QED BY <1>9, <1>11

LEMMA StageIsNumber ==
  ASSUME NEW n \in Nat, NEW c \in Nat PROVE Learner!infer_current_stage(n, c) \in Nat
  <1>1. PICK a \in Nat : a = Cardinality(Amounts(n)) + 1
    BY AmountFacts
  <1>2. PICK r \in Nat : r = 3 + Cardinality(Rates(n, c))
    BY RateFacts
  <1>3. Learner!infer_current_stage(n, c) = IF n < 30 THEN a ELSE Learner!Min({a, r})
    BY <1>1, <1>2, StageOfBoth
  <1> QED BY <1>3, LeastOfTwo

\* More right answers do not lower the stage.
LEMMA StageGrows ==
  ASSUME NEW n \in Nat, NEW c \in Nat, NEW m \in Nat, NEW e \in Nat,
         c <= n, n <= m, m - n = e - c
  PROVE  Learner!infer_current_stage(n, c) <= Learner!infer_current_stage(m, e)
  <1>1. PICK a \in Nat : a = Cardinality(Amounts(n)) + 1 /\
            a = IF n = 0 THEN 1 ELSE IF n < 30 THEN 2 ELSE IF n < 80 THEN 3
                ELSE IF n < 200 THEN 4 ELSE IF n < 400 THEN 5 ELSE 6
    BY AmountFacts
  <1>2. PICK r \in Nat : r = 3 + Cardinality(Rates(n, c)) /\
            r = IF 100 * c < 50 * n THEN 3 ELSE IF 100 * c < 62 * n THEN 4
                ELSE IF 100 * c < 72 * n THEN 5 ELSE 6
    BY RateFacts
  <1>3. PICK a2 \in Nat : a2 = Cardinality(Amounts(m)) + 1 /\
            a2 = IF m = 0 THEN 1 ELSE IF m < 30 THEN 2 ELSE IF m < 80 THEN 3
                 ELSE IF m < 200 THEN 4 ELSE IF m < 400 THEN 5 ELSE 6
    BY AmountFacts
  <1>4. PICK r2 \in Nat : r2 = 3 + Cardinality(Rates(m, e)) /\
            r2 = IF 100 * e < 50 * m THEN 3 ELSE IF 100 * e < 62 * m THEN 4
                 ELSE IF 100 * e < 72 * m THEN 5 ELSE 6
    BY RateFacts
  <1>5. /\ Learner!infer_current_stage(n, c) = IF n < 30 THEN a ELSE Learner!Min({a, r})
        /\ Learner!infer_current_stage(m, e) = IF m < 30 THEN a2 ELSE Learner!Min({a2, r2})
    <2>1. Cardinality(Amounts(n)) + 1 = a /\ 3 + Cardinality(Rates(n, c)) = r
      BY <1>1, <1>2
    <2>2. Cardinality(Amounts(m)) + 1 = a2 /\ 3 + Cardinality(Rates(m, e)) = r2
      BY <1>3, <1>4
    <2>3. Learner!infer_current_stage(n, c) = IF n < 30 THEN a ELSE Learner!Min({a, r})
      BY <2>1, StageOfBoth
    <2>4. Learner!infer_current_stage(m, e) = IF m < 30 THEN a2 ELSE Learner!Min({a2, r2})
      BY <2>2, StageOfBoth
    <2> QED BY <2>3, <2>4
  <1>6. Learner!Min({a, r}) = (IF a <= r THEN a ELSE r) /\ Learner!Min({a2, r2}) = IF a2 <= r2 THEN a2 ELSE r2
    BY LeastOfTwo
  <1>7. a <= a2
    BY <1>1, <1>3
  <1>8. r <= r2
    BY <1>2, <1>4
  <1>9. n < 30 => a <= 2
    BY <1>1
  <1>10. m >= 30 => a2 >= 3 /\ r2 >= 3
    BY <1>3, <1>4
  <1> QED BY <1>5, <1>6, <1>7, <1>8, <1>9, <1>10

LEMMA MatchedSize ==
  ASSUME NEW st PROVE Learner!Cardinality(Learner!Matched(st)) \in Nat
  <1>1. IsFiniteSet(Learner!Matched(st))
    <2>1. Learner!Matched(st) \subseteq DOMAIN Rules
      BY DEF Learner!Matched
    <2> QED BY <2>1, LearnerSets, FS_Subset
  <1>2. Cardinality(Learner!Matched(st)) \in Nat
    BY <1>1, FS_CardinalityType
  <1> QED BY <1>2, Products

LEMMA PrescriptionFacts ==
  ASSUME NEW p, Prescribed(p)
  PROVE  /\ p.logs \in Bags /\ p.context \in Contexts
         /\ p.state = Learner!aggregate_user_state(p.logs, p.context)
         /\ p.matched = Learner!Matched(p.state)
         /\ p.level = Learner!RiskLevel(Learner!_risk_score(p.state, p.matched))
  BY DEF Prescribed, Learner!prescribe

\* Answers to subjects there were answers in: the same subjects are judged.
LEMMA SameSubjects ==
  ASSUME NEW b \in Bags, NEW a \in Bags, \A k \in Kinds : b[k] <= a[k], NEW c,
         \A k \in Kinds : b[k] < a[k] =>
            Learner!Subject(k) \in DOMAIN Learner!aggregate_user_state(b, c).subjects
  PROVE  DOMAIN Learner!aggregate_user_state(a, c).subjects
            = DOMAIN Learner!aggregate_user_state(b, c).subjects
  <1>1. PICK st : st = Learner!aggregate_user_state(b, c)
    OBVIOUS
  <1>2. PICK st2 : st2 = Learner!aggregate_user_state(a, c)
    OBVIOUS
  <1>3. \A s : s \in DOMAIN st.subjects
                  <=> s \in Known /\ \E k \in Kinds : b[k] > 0 /\ Learner!Subject(k) = s
    BY <1>1, SubjectFacts
  <1>4. \A s : s \in DOMAIN st2.subjects
                  <=> s \in Known /\ \E k \in Kinds : a[k] > 0 /\ Learner!Subject(k) = s
    BY <1>2, SubjectFacts
  <1>5. \A k \in Kinds : /\ b[k] > 0 => a[k] > 0
                         /\ a[k] > 0 => b[k] > 0 \/ b[k] < a[k]
    BY DEF Bags
  <1>6. \A s : s \in DOMAIN st.subjects => s \in DOMAIN st2.subjects
    BY <1>3, <1>4, <1>5
  <1>7. \A s : s \in DOMAIN st2.subjects => s \in DOMAIN st.subjects
    <2> SUFFICES ASSUME NEW s, s \in DOMAIN st2.subjects PROVE s \in DOMAIN st.subjects
      OBVIOUS
    <2>1. PICK k \in Kinds : a[k] > 0 /\ Learner!Subject(k) = s
      BY <1>4
    <2>2. CASE b[k] > 0
      BY <1>3, <1>4, <2>1, <2>2
    <2>3. CASE b[k] < a[k]
      BY <1>1, <2>1, <2>3
    <2> QED BY <1>5, <2>1, <2>2, <2>3
  <1> QED BY <1>1, <1>2, <1>6, <1>7

\* A state of logs and one of more logs, for the same context.
More(p, q) ==
    /\ Prescribed(p) /\ Prescribed(q) /\ q.context = p.context
    /\ \A k \in Kinds : p.logs[k] <= q.logs[k]
    /\ \A k \in Kinds : p.logs[k] < q.logs[k] => Learner!Subject(k) \in DOMAIN p.state.subjects

Risk(p, s) == Learner!SubjectRisk(p.state.subjects[s])

LEMMA MoreFacts ==
  ASSUME NEW p, NEW q, More(p, q)
  PROVE  /\ p.logs \in Bags /\ q.logs \in Bags
         /\ \A k \in Kinds : p.logs[k] <= q.logs[k]
         /\ DOMAIN q.state.subjects = DOMAIN p.state.subjects /\ IsFiniteSet(DOMAIN p.state.subjects)
         /\ q.state.days = p.state.days
         /\ \A s \in DOMAIN p.state.subjects :
               /\ \E k \in Kinds : p.logs[k] > 0 /\ Learner!Subject(k) = s
               /\ p.state.subjects[s] = Learner!aggregate_subject_state(p.logs, s)
               /\ q.state.subjects[s] = Learner!aggregate_subject_state(q.logs, s)
               /\ Risk(p, s) \in Nat /\ Risk(q, s) \in Nat
  <1>1. PICK b, a, c : b = p.logs /\ a = q.logs /\ c = p.context /\ c = q.context
    BY DEF More
  <1>2. /\ b \in Bags /\ a \in Bags
        /\ p.state = Learner!aggregate_user_state(b, c)
        /\ q.state = Learner!aggregate_user_state(a, c)
    BY <1>1, PrescriptionFacts DEF More
  <1>3. /\ \A k \in Kinds : b[k] <= a[k]
        /\ \A k \in Kinds : b[k] < a[k] => Learner!Subject(k) \in DOMAIN p.state.subjects
    BY <1>1 DEF More
  <1>4. DOMAIN q.state.subjects = DOMAIN p.state.subjects
    BY <1>2, <1>3, SameSubjects
  <1>5. PICK st : st = p.state
    OBVIOUS
  <1>6. PICK st2 : st2 = q.state
    OBVIOUS
  <1>7. /\ st.days = c.days /\ IsFiniteSet(DOMAIN st.subjects)
        /\ \A s : s \in DOMAIN st.subjects
                     <=> s \in Known /\ \E k \in Kinds : b[k] > 0 /\ Learner!Subject(k) = s
        /\ \A s \in DOMAIN st.subjects : st.subjects[s] = Learner!aggregate_subject_state(b, s)
    <2>1. st = Learner!aggregate_user_state(b, c)
      BY <1>2, <1>5
    <2> QED BY <2>1, SubjectFacts
  <1>8. /\ st2.days = c.days
        /\ \A s \in DOMAIN st2.subjects : st2.subjects[s] = Learner!aggregate_subject_state(a, s)
    <2>1. st2 = Learner!aggregate_user_state(a, c)
      BY <1>2, <1>6
    <2> QED BY <2>1, SubjectFacts
  <1>9. ASSUME NEW s \in DOMAIN p.state.subjects
        PROVE  /\ \E k \in Kinds : b[k] > 0 /\ Learner!Subject(k) = s
               /\ p.state.subjects[s] = Learner!aggregate_subject_state(b, s)
               /\ q.state.subjects[s] = Learner!aggregate_subject_state(a, s)
    BY <1>4, <1>5, <1>6, <1>7, <1>8
  <1>10. ASSUME NEW s \in DOMAIN p.state.subjects
         PROVE  Risk(p, s) \in Nat /\ Risk(q, s) \in Nat
    BY <1>9, RiskIsNumber DEF Risk
  <1> QED BY <1>1, <1>2, <1>3, <1>4, <1>5, <1>6, <1>7, <1>8, <1>9, <1>10

LEMMA MoreRight ==
  ASSUME NEW p, NEW q, More(p, q),
         \A k \in Kinds : p.logs[k] < q.logs[k] => k.correct /\ ~k.slow
  PROVE  /\ \A s \in DOMAIN p.state.subjects : Risk(q, s) <= Risk(p, s)
         /\ q.state.stage >= p.state.stage
         /\ Learner!Cardinality(q.matched) <= Learner!Cardinality(p.matched) => q.level <= p.level
  <1>1. /\ p.logs \in Bags /\ q.logs \in Bags
        /\ \A k \in Kinds : p.logs[k] <= q.logs[k]
        /\ DOMAIN q.state.subjects = DOMAIN p.state.subjects /\ IsFiniteSet(DOMAIN p.state.subjects)
        /\ q.state.days = p.state.days
        /\ \A s \in DOMAIN p.state.subjects :
              /\ \E k \in Kinds : p.logs[k] > 0 /\ Learner!Subject(k) = s
              /\ p.state.subjects[s] = Learner!aggregate_subject_state(p.logs, s)
              /\ q.state.subjects[s] = Learner!aggregate_subject_state(q.logs, s)
              /\ Risk(p, s) \in Nat /\ Risk(q, s) \in Nat
    BY MoreFacts
  <1>2. ASSUME NEW s \in DOMAIN p.state.subjects PROVE Risk(q, s) <= Risk(p, s)
    <2>1. PICK b, a : b = p.logs /\ a = q.logs
      OBVIOUS
    <2>2. /\ b \in Bags /\ a \in Bags /\ \A k \in Kinds : b[k] <= a[k]
          /\ \A k \in Kinds : b[k] < a[k] => k.correct /\ ~k.slow
          /\ \E k \in Kinds : b[k] > 0 /\ Learner!Subject(k) = s
      BY <1>1, <2>1
    <2>3. Learner!SubjectRisk(Learner!aggregate_subject_state(a, s))
            <= Learner!SubjectRisk(Learner!aggregate_subject_state(b, s))
      BY <2>2, RiskOfRight
    <2> QED BY <1>1, <2>1, <2>3 DEF Risk
  <1>3. q.state.stage >= p.state.stage
    <2>1. PICK b, a, c : b = p.logs /\ a = q.logs /\ c = p.context /\ c = q.context /\ c \in Contexts
      BY PrescriptionFacts DEF More
    <2>2. /\ p.state = Learner!aggregate_user_state(b, c)
          /\ q.state = Learner!aggregate_user_state(a, c)
      BY <2>1, PrescriptionFacts DEF More
    <2>3. PICK n, r : n = Learner!Total(b) /\ r = Learner!Of(b, LAMBDA k : k.correct)
      OBVIOUS
    <2>4. PICK m, e : m = Learner!Total(a) /\ e = Learner!Of(a, LAMBDA k : k.correct)
      OBVIOUS
    <2>5. /\ p.state.stage = IF c.stage # None THEN c.stage ELSE Learner!infer_current_stage(n, r)
          /\ q.state.stage = IF c.stage # None THEN c.stage ELSE Learner!infer_current_stage(m, e)
      BY <2>2, <2>3, <2>4, StageFacts
    <2>6. CASE c.stage # None
      <3>1. c.stage \in 1 .. 6
        BY <2>1, <2>6, LearnerSets
      <3> QED BY <2>5, <2>6, <3>1
    <2>7. CASE c.stage = None
      <3>1. PICK R : R = {k \in Kinds : k.correct}
        OBVIOUS
      <3>2. R \subseteq Kinds /\ Kinds \subseteq Kinds /\ b \in Bags /\ a \in Bags
            /\ (\A k \in Kinds : b[k] <= a[k]) /\ \A k \in Kinds \ R : ~ (b[k] < a[k])
        BY <1>1, <2>1, <3>1
      <3>3. /\ SumFunctionOnSet(b, Kinds) \in Nat /\ SumFunctionOnSet(a, Kinds) \in Nat
            /\ SumFunctionOnSet(b, R) \in Nat /\ SumFunctionOnSet(a, R) \in Nat
            /\ SumFunctionOnSet(b, R) <= SumFunctionOnSet(b, Kinds)
            /\ SumFunctionOnSet(b, Kinds) <= SumFunctionOnSet(a, Kinds)
            /\ SumFunctionOnSet(a, Kinds) - SumFunctionOnSet(b, Kinds)
                  = SumFunctionOnSet(a, R) - SumFunctionOnSet(b, R)
        BY <3>2, AnswersGrow
      <3>4. /\ n = SumFunctionOnSet(b, Kinds) /\ m = SumFunctionOnSet(a, Kinds)
            /\ r = SumFunctionOnSet(b, R) /\ e = SumFunctionOnSet(a, R)
        <4>1. DOMAIN b = Kinds /\ DOMAIN a = Kinds
          BY <3>2 DEF Bags
        <4> QED BY <2>3, <2>4, <3>1, <4>1, LearnerSums DEF Learner!Of
      <3>5. n \in Nat /\ r \in Nat /\ m \in Nat /\ e \in Nat /\ r <= n /\ n <= m /\ m - n = e - r
        BY <3>3, <3>4
      <3>6. Learner!infer_current_stage(n, r) <= Learner!infer_current_stage(m, e)
        BY <3>5, StageGrows
      <3>7. Learner!infer_current_stage(n, r) \in Nat /\ Learner!infer_current_stage(m, e) \in Nat
        BY <3>5, StageIsNumber
      <3> QED BY <2>5, <2>7, <3>6, <3>7
    <2> QED BY <2>6, <2>7
  <1>4. ASSUME Learner!Cardinality(q.matched) <= Learner!Cardinality(p.matched)
        PROVE  q.level <= p.level
    <2>1. PICK st, M, st2, M2 : st = q.state /\ M = q.matched /\ st2 = p.state /\ M2 = p.matched
      OBVIOUS
    <2>2. /\ Learner!Cardinality(M) \in Nat /\ Learner!Cardinality(M2) \in Nat
          /\ q.level = Learner!RiskLevel(Learner!_risk_score(st, M))
          /\ p.level = Learner!RiskLevel(Learner!_risk_score(st2, M2))
      BY <2>1, PrescriptionFacts, MatchedSize DEF More
    <2>3. /\ st2.days = st.days /\ DOMAIN st2.subjects = DOMAIN st.subjects
          /\ IsFiniteSet(DOMAIN st.subjects)
          /\ \A s \in DOMAIN st.subjects :
                /\ Learner!SubjectRisk(st.subjects[s]) \in Nat
                /\ Learner!SubjectRisk(st2.subjects[s]) \in Nat
                /\ Learner!SubjectRisk(st.subjects[s]) <= Learner!SubjectRisk(st2.subjects[s])
      BY <1>1, <1>2, <2>1 DEF Risk
    <2>4. Learner!RiskLevel(Learner!_risk_score(st, M)) <= Learner!RiskLevel(Learner!_risk_score(st2, M2))
      BY <1>4, <2>1, <2>2, <2>3, LevelGrows
    <2> QED BY <2>2, <2>4
  <1> QED BY <1>2, <1>3, <1>4

LEMMA MoreWrong ==
  ASSUME NEW p, NEW q, More(p, q),
         \A k \in Kinds : p.logs[k] < q.logs[k] => ~k.correct /\ (k.slow \/ ~Problems[k.problem].timed)
  PROVE  /\ \A s \in DOMAIN p.state.subjects : Risk(q, s) >= Risk(p, s)
         /\ Learner!Cardinality(q.matched) >= Learner!Cardinality(p.matched) => q.level >= p.level
  <1>1. /\ p.logs \in Bags /\ q.logs \in Bags
        /\ \A k \in Kinds : p.logs[k] <= q.logs[k]
        /\ DOMAIN q.state.subjects = DOMAIN p.state.subjects /\ IsFiniteSet(DOMAIN p.state.subjects)
        /\ q.state.days = p.state.days
        /\ \A s \in DOMAIN p.state.subjects :
              /\ \E k \in Kinds : p.logs[k] > 0 /\ Learner!Subject(k) = s
              /\ p.state.subjects[s] = Learner!aggregate_subject_state(p.logs, s)
              /\ q.state.subjects[s] = Learner!aggregate_subject_state(q.logs, s)
              /\ Risk(p, s) \in Nat /\ Risk(q, s) \in Nat
    BY MoreFacts
  <1>2. ASSUME NEW s \in DOMAIN p.state.subjects PROVE Risk(p, s) <= Risk(q, s)
    <2>1. PICK b, a : b = p.logs /\ a = q.logs
      OBVIOUS
    <2>2. /\ b \in Bags /\ a \in Bags /\ \A k \in Kinds : b[k] <= a[k]
          /\ \A k \in Kinds : b[k] < a[k] => ~k.correct /\ (k.slow \/ ~Problems[k.problem].timed)
          /\ \E k \in Kinds : b[k] > 0 /\ Learner!Subject(k) = s
      BY <1>1, <2>1
    <2>3. Learner!SubjectRisk(Learner!aggregate_subject_state(b, s))
            <= Learner!SubjectRisk(Learner!aggregate_subject_state(a, s))
      BY <2>2, RiskOfWrong
    <2> QED BY <1>1, <2>1, <2>3 DEF Risk
  <1>3. ASSUME Learner!Cardinality(q.matched) >= Learner!Cardinality(p.matched)
        PROVE  p.level <= q.level /\ p.level \in Nat /\ q.level \in Nat
    <2>1. PICK st, M, st2, M2 : st = p.state /\ M = p.matched /\ st2 = q.state /\ M2 = q.matched
      OBVIOUS
    <2>2. /\ Learner!Cardinality(M) \in Nat /\ Learner!Cardinality(M2) \in Nat
          /\ p.level = Learner!RiskLevel(Learner!_risk_score(st, M))
          /\ q.level = Learner!RiskLevel(Learner!_risk_score(st2, M2))
      BY <2>1, PrescriptionFacts, MatchedSize DEF More
    <2>3. /\ st2.days = st.days /\ DOMAIN st2.subjects = DOMAIN st.subjects
          /\ IsFiniteSet(DOMAIN st.subjects)
          /\ \A s \in DOMAIN st.subjects :
                /\ Learner!SubjectRisk(st.subjects[s]) \in Nat
                /\ Learner!SubjectRisk(st2.subjects[s]) \in Nat
                /\ Learner!SubjectRisk(st.subjects[s]) <= Learner!SubjectRisk(st2.subjects[s])
      BY <1>1, <1>2, <2>1 DEF Risk
    <2>4. Learner!RiskLevel(Learner!_risk_score(st, M)) <= Learner!RiskLevel(Learner!_risk_score(st2, M2))
      <3>1. Learner!Cardinality(M) <= Learner!Cardinality(M2)
        BY <1>3, <2>1, <2>2
      <3> QED BY <2>2, <2>3, <3>1, LevelGrows
    <2>5. \A x : Learner!RiskLevel(x) \in Nat
      BY DEF Learner!RiskLevel
    <2> QED BY <2>2, <2>4, <2>5
  <1> QED BY <1>1, <1>2, <1>3

LEMMA RiskFollows ==
  ASSUME LearnerInv PROVE Learner!RiskFollowsAnswers
  <1>1. ASSUME rx # None, before # None, \A k \in Kinds : rx.logs[k] >= before.logs[k],
               \A k \in Kinds : rx.logs[k] > before.logs[k] =>
                  Learner!Subject(k) \in DOMAIN before.state.subjects
        PROVE  /\ More(before, rx)
               /\ \A k \in Kinds : before.logs[k] < rx.logs[k] <=> rx.logs[k] > before.logs[k]
    <2>1. Prescribed(rx) /\ Prescribed(before) /\ before.context = rx.context
      BY <1>1 DEF LearnerInv
    <2>2. \A k \in Kinds : rx.logs[k] \in Nat /\ before.logs[k] \in Nat
      BY <2>1, PrescriptionFacts DEF Bags
    <2>3. \A k \in Kinds : before.logs[k] <= rx.logs[k] /\
                (before.logs[k] < rx.logs[k] <=> rx.logs[k] > before.logs[k])
      BY <1>1, <2>2
    <2> QED BY <1>1, <2>1, <2>3 DEF More
  <1>2. ASSUME Learner!OnlyAdded(LAMBDA k : k.correct /\ ~k.slow)
        PROVE  /\ \A s \in DOMAIN before.state.subjects : Risk(rx, s) <= Risk(before, s)
               /\ rx.state.stage >= before.state.stage
               /\ Learner!Cardinality(rx.matched) <= Learner!Cardinality(before.matched)
                     => rx.level <= before.level
    <2>1. /\ rx # None /\ before # None
          /\ \A k \in Kinds : rx.logs[k] >= before.logs[k]
          /\ \A k \in Kinds : rx.logs[k] > before.logs[k] =>
                k.correct /\ ~k.slow /\ Learner!Subject(k) \in DOMAIN before.state.subjects
      BY <1>2 DEF Learner!OnlyAdded
    <2>2. /\ More(before, rx)
          /\ \A k \in Kinds : before.logs[k] < rx.logs[k] => k.correct /\ ~k.slow
      BY <1>1, <2>1
    <2>3. PICK p, q : p = before /\ q = rx
      OBVIOUS
    <2>4. /\ \A s \in DOMAIN p.state.subjects : Risk(q, s) <= Risk(p, s)
          /\ q.state.stage >= p.state.stage
          /\ Learner!Cardinality(q.matched) <= Learner!Cardinality(p.matched) => q.level <= p.level
      BY <2>2, <2>3, MoreRight
    <2> QED BY <2>3, <2>4
  <1>3. ASSUME Learner!OnlyAdded(LAMBDA k : ~k.correct /\ (k.slow \/ ~Problems[k.problem].timed))
        PROVE  /\ \A s \in DOMAIN before.state.subjects : Risk(rx, s) >= Risk(before, s)
               /\ Learner!Cardinality(rx.matched) >= Learner!Cardinality(before.matched)
                     => rx.level >= before.level
    <2>1. /\ rx # None /\ before # None
          /\ \A k \in Kinds : rx.logs[k] >= before.logs[k]
          /\ \A k \in Kinds : rx.logs[k] > before.logs[k] =>
                /\ ~k.correct /\ (k.slow \/ ~Problems[k.problem].timed)
                /\ Learner!Subject(k) \in DOMAIN before.state.subjects
      BY <1>3 DEF Learner!OnlyAdded
    <2>2. /\ More(before, rx)
          /\ \A k \in Kinds : before.logs[k] < rx.logs[k] => ~k.correct /\ (k.slow \/ ~Problems[k.problem].timed)
      BY <1>1, <2>1
    <2>3. PICK p, q : p = before /\ q = rx
      OBVIOUS
    <2>4. /\ \A s \in DOMAIN p.state.subjects : Risk(q, s) >= Risk(p, s)
          /\ Learner!Cardinality(q.matched) >= Learner!Cardinality(p.matched) => q.level >= p.level
      BY <2>2, <2>3, MoreWrong
    <2> QED BY <2>3, <2>4
  <1> QED BY <1>2, <1>3 DEF Learner!RiskFollowsAnswers, Risk

\* The loop of a learner runs, or another engine does.
LearnerRuns == part = "diagnosis" => LearnerInv

LEMMA LearnerStays ==
  ASSUME LearnerInv, UNCHANGED state PROVE LearnerInv'
  BY DEF LearnerInv, Prescribed, state

LEMMA LearnerHolds == EnginesSpec => []LearnerRuns
  <1>1. EnginesInit => LearnerRuns
    BY LearnerInit DEF EnginesInit, LearnerRuns
  <1>2. LearnerRuns /\ [EnginesNext]_allVars => LearnerRuns'
    <2> SUFFICES ASSUME LearnerRuns, [EnginesNext]_allVars, part' = "diagnosis" PROVE LearnerInv'
      BY DEF LearnerRuns
    <2>1. part' = part /\ (Learner!Next \/ UNCHANGED state)
      BY DEF EnginesNext, allVars
    <2> QED
      BY <2>1, LearnerNext, LearnerStays DEF LearnerRuns
  <1> QED
    BY <1>1, <1>2, PTL DEF EnginesSpec

\* infer_current_stage (aggregate.py) goes by the weaker of the amount and the accuracy of the
\* logs, for any problems and any number of logs.
THEOREM StageIsEarnedHolds ==
  EnginesSpec => []StageIsEarned
  <1>1. LearnerRuns => StageIsEarned
    BY StageFollows DEF LearnerRuns, StageIsEarned
  <1> QED
    BY <1>1, LearnerHolds, PTL

\* aggregate.py and prescribe.py never hold right and quick answers against a learner, nor
\* count wrong and slow ones to their credit, for any problems, rules and number of logs.
THEOREM RiskFollowsAnswersHolds ==
  EnginesSpec => []RiskFollowsAnswers
  <1>1. LearnerRuns => RiskFollowsAnswers
    BY RiskFollows DEF LearnerRuns, RiskFollowsAnswers
  <1> QED
    BY <1>1, LearnerHolds, PTL

-----------------------------------------------------------------------------
(* The recommendations and the study plan.                                 *)

\* The recommendations run, or another engine does.
PracticeRuns == part = "plan" => PracticeInv

\* recommend_problems (recommend.py) puts problems of failing subjects first, whatever else is in
\* favour of others, takes turns for a user of whom nothing is known, and does not skip what is to
\* be solved; what is skipped is of a subject that study_plan.py gives no more than its 5%, to the
\* rounding.  For any requests of up to eight subjects.
THEOREM PracticeFitsLearnerHolds ==
  EnginesSpec => []PracticeFitsLearner
  <1>1. EnginesInit => PracticeRuns
    BY PracticeInit DEF EnginesInit, PracticeRuns
  <1>2. PracticeRuns /\ [EnginesNext]_allVars => PracticeRuns'
    <2> SUFFICES ASSUME PracticeRuns, [EnginesNext]_allVars, part' = "plan" PROVE PracticeInv'
      BY DEF PracticeRuns
    <2>1. part' = part /\ (Guide!Next \/ UNCHANGED plan)
      BY DEF EnginesNext, allVars
    <2> QED
      BY <2>1, PracticeNext, PracticeStays DEF PracticeRuns
  <1>3. PracticeRuns => PracticeFitsLearner
    BY FailingComesFirst, SkipsAreKept DEF PracticeRuns, PracticeFitsLearner
  <1> QED
    BY <1>1, <1>2, <1>3, PTL DEF EnginesSpec

\* The plan runs, or another engine does.
PlanRuns == part = "plan" => PlanInv

\* build_study_plan (study_plan.py): the weeks lead to the examination in the order of the stages,
\* every tutorial is in one of them, the hours of a week are those the user has, and with up to
\* six subjects the weaker has the more, to the rounding.  For any requests of up to eight subjects,
\* any days and any number of weeks.
THEOREM PlanFitsLearnerHolds ==
  EnginesSpec => []PlanFitsLearner
  <1>1. EnginesInit => PlanRuns
    BY PlanInit DEF EnginesInit, PlanRuns
  <1>2. PlanRuns /\ [EnginesNext]_allVars => PlanRuns'
    <2> SUFFICES ASSUME PlanRuns, [EnginesNext]_allVars, part' = "plan" PROVE PlanInv'
      BY DEF PlanRuns
    <2>1. part' = part /\ (Guide!Next \/ UNCHANGED plan)
      BY DEF EnginesNext, allVars
    <2> QED
      BY <2>1, PlanNext, PlanStays DEF PlanRuns
  <1>3. PlanRuns => PlanFitsLearner
    BY PlanFits DEF PlanRuns, PlanFitsLearner
  <1> QED
    BY <1>1, <1>2, <1>3, PTL DEF EnginesSpec
=============================================================================
