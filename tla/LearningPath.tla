----------------------------- MODULE LearningPath -----------------------------
(***************************************************************************)
(* build_learning_path: from the concepts a learner is weak at, back along *)
(* the prerequisites of the term graph, to a list of what to study first.  *)
(* The labels are matched to terms; a breadth-first search finds the terms *)
(* they rest on, up to a depth; the nearest ones are kept, and the path    *)
(* lists the kept ones, the deepest first.                                 *)
(*                                                                         *)
(* A state is one of the loops' rounds.  The graph is any graph: the seeds *)
(* may hold cycles and name terms that are in no seed.  Which term a label *)
(* matches (_match_concept) is an input, and so is the order in which the  *)
(* prerequisites of a term are listed: the search takes them in any order. *)
(***************************************************************************)
EXTENDS Naturals, FiniteSets, Sequences, SequencesExt, Containers

CONSTANTS
    Terms,          \* the terms of the seeds, by number in the order of their ids
    Missing,        \* ids the seeds name as prerequisites and do not define
    Labels,         \* the weak concepts
    MaxPrereqs,     \* bound on the prerequisites of a term
    MaxDepth,       \* bound on max_depth
    None

Ids == Terms \cup Missing

LearningPathAssumption ==
    /\ Terms \subseteq Nat /\ IsFiniteSet(Terms) /\ IsFiniteSet(Labels)
    /\ Missing \cap Terms = {}
    /\ MaxPrereqs \in Nat /\ MaxDepth \in Nat
    /\ None \notin Ids /\ None \notin Nat /\ None \notin Labels

VARIABLES
    prereq,     \* prerequisite_terms of each term
    match,      \* the term each label matches, None when there is none
    maxDepth,   \* max_depth
    weak,       \* the labels that are still to be matched
    unmatched,  \* labels that match nothing
    roots,      \* terms matched, with their labels, in order
    depth,      \* nodes: how far a visited term is from the weak concepts
    goal,       \* nodes: the label its "why" names
    via,        \* nodes: the term its "why" says it is a prerequisite of
    queue,      \* terms whose prerequisites are still to be visited
    current,    \* the term popped from the queue
    todo,       \* its prerequisites that the loop has yet to look at
    path,       \* the answer
    pc

input == <<prereq, match, maxDepth>>
labels == <<weak, unmatched, roots>>
nodes == <<depth, goal, via>>
vars == <<input, labels, nodes, queue, current, todo, path, pc>>

Depths == 0 .. maxDepth
Visited == {t \in Terms : depth[t] # None}
Roots == {roots[i].term : i \in DOMAIN roots}

TypeOK ==
    /\ prereq \in [Terms -> SUBSET Ids]
    /\ match \in [Labels -> Terms \cup {None}]
    /\ maxDepth \in 0 .. MaxDepth
    /\ weak \in Seq(Labels)
    /\ unmatched \subseteq Labels
    /\ roots \in Seq([term : Terms, label : Labels])
    /\ depth \in [Terms -> Depths \cup {None}]
    /\ goal \in [Terms -> Labels \cup {None}]
    /\ via \in [Terms -> Terms \cup {None}]
    /\ queue \in Seq(Terms)
    /\ current \in Terms \cup {None}
    /\ todo \subseteq Ids
    /\ path \in Seq(Terms)
    /\ pc \in {"match", "seed", "pop", "visit", "select", "done"}

\* Every label is given twice; in which order makes no difference, as each of them
\* may match any term.
Init ==
    /\ prereq \in [Terms -> {S \in SUBSET Ids : Cardinality(S) <= MaxPrereqs}]
    /\ match \in [Labels -> Terms \cup {None}]
    /\ maxDepth \in 0 .. MaxDepth
    /\ weak = SetToSeq(Labels) \o SetToSeq(Labels)
    /\ unmatched = {} /\ roots = <<>>
    /\ depth = [t \in Terms |-> None]
    /\ goal = [t \in Terms |-> None]
    /\ via = [t \in Terms |-> None]
    /\ queue = <<>> /\ current = None /\ todo = {} /\ path = <<>>
    /\ pc = "match"

-----------------------------------------------------------------------------
\* One label of weak_concepts: a term is taken once, with its first label.
Match ==
    /\ pc = "match" /\ weak # <<>>
    /\ weak' = Tail(weak)
    /\ LET l == Head(weak)
           t == match[l]
       IN  /\ unmatched' = IF t = None THEN unmatched \cup {l} ELSE unmatched
           /\ roots' = IF t = None \/ t \in Roots THEN roots
                       ELSE Append(roots, [term |-> t, label |-> l])
    /\ UNCHANGED <<input, nodes, queue, current, todo, path, pc>>

\* _trace_prerequisites: the roots are visited at depth 0.
Seed ==
    /\ pc = "match" /\ weak = <<>>
    /\ queue' = [i \in DOMAIN roots |-> roots[i].term]
    /\ depth' = [t \in Terms |-> IF t \in Roots THEN 0 ELSE None]
    /\ goal' = [t \in Terms |->
                  IF t \in Roots THEN (CHOOSE r \in Range(roots) : r.term = t).label ELSE None]
    /\ pc' = "pop"
    /\ UNCHANGED <<input, labels, via, current, todo, path>>

\* Mutant: the depth is not limited.
PopUnlimited ==
    /\ pc = "pop" /\ queue # <<>>
    /\ queue' = Tail(queue)
    /\ current' = Head(queue)
    /\ todo' = prereq[Head(queue)]
    /\ pc' = "visit"
    /\ UNCHANGED <<input, labels, nodes, path>>

\* popleft; the prerequisites of a term at the greatest depth are not looked at.
Pop ==
    /\ pc = "pop" /\ queue # <<>>
    /\ queue' = Tail(queue)
    /\ current' = Head(queue)
    /\ todo' = IF depth[Head(queue)] >= maxDepth THEN {} ELSE prereq[Head(queue)]
    /\ pc' = "visit"
    /\ UNCHANGED <<input, labels, nodes, path>>

\* Mutant: a prerequisite is queued again when it is found again, unless six
\* terms are waiting.
VisitAgain(p) ==
    /\ pc = "visit" /\ p \in todo
    /\ todo' = todo \ {p}
    /\ IF p \in Terms
       THEN /\ depth' = [depth EXCEPT ![p] = IF @ = None THEN depth[current] + 1 ELSE @]
            /\ goal' = [goal EXCEPT ![p] = IF @ = None THEN goal[current] ELSE @]
            /\ via' = [via EXCEPT ![p] = IF depth[p] = None THEN current ELSE @]
            /\ queue' = IF Len(queue) < 6 THEN Append(queue, p) ELSE queue
       ELSE UNCHANGED <<nodes, queue>>
    /\ UNCHANGED <<input, labels, current, path, pc>>

\* Mutant: a term that was visited gets the new depth.
VisitDeepens(p) ==
    /\ pc = "visit" /\ p \in todo
    /\ todo' = todo \ {p}
    /\ IF p \in Terms
       THEN /\ depth' = [depth EXCEPT ![p] = depth[current] + 1]
            /\ goal' = [goal EXCEPT ![p] = goal[current]]
            /\ via' = [via EXCEPT ![p] = current]
            /\ queue' = IF p \in Visited THEN queue ELSE Append(queue, p)
       ELSE UNCHANGED <<nodes, queue>>
    /\ UNCHANGED <<input, labels, current, path, pc>>

\* Mutant: the "why" of a term names the first weak concept.
VisitForFirst(p) ==
    /\ pc = "visit" /\ p \in todo
    /\ todo' = todo \ {p}
    /\ IF p \in Terms /\ p \notin Visited
       THEN /\ depth' = [depth EXCEPT ![p] = depth[current] + 1]
            /\ goal' = [goal EXCEPT ![p] = roots[1].label]
            /\ via' = [via EXCEPT ![p] = current]
            /\ queue' = Append(queue, p)
       ELSE UNCHANGED <<nodes, queue>>
    /\ UNCHANGED <<input, labels, current, path, pc>>

\* One prerequisite of the current term: one that was visited keeps its depth,
\* and one that no seed defines is left out.
Visit(p) ==
    /\ pc = "visit" /\ p \in todo
    /\ todo' = todo \ {p}
    /\ IF p \in Terms /\ p \notin Visited
       THEN /\ depth' = [depth EXCEPT ![p] = depth[current] + 1]
            /\ goal' = [goal EXCEPT ![p] = goal[current]]
            /\ via' = [via EXCEPT ![p] = current]
            /\ queue' = Append(queue, p)
       ELSE UNCHANGED <<nodes, queue>>
    /\ UNCHANGED <<input, labels, current, path, pc>>

EndVisit ==
    /\ pc = "visit" /\ todo = {}
    /\ current' = None
    /\ pc' = "pop"
    /\ UNCHANGED <<input, labels, nodes, queue, todo, path>>

EndTrace ==
    /\ pc = "pop" /\ queue = <<>>
    /\ pc' = "select"
    /\ UNCHANGED <<input, labels, nodes, queue, current, todo, path>>

-----------------------------------------------------------------------------
\* Of equal depth, the terms are in the order of their ids.
Before(t, u, first) == first \/ (depth[t] = depth[u] /\ t < u)

\* Mutant: the deepest terms are kept.
DeepestFirst ==
    {p \in Visited \X Visited : Before(p[1], p[2], depth[p[1]] > depth[p[2]])}

\* selection_order, and the order of the path.
NearestFirst ==
    {p \in Visited \X Visited : Before(p[1], p[2], depth[p[1]] < depth[p[2]])}

StudyFirst ==
    {p \in Visited \X Visited : Before(p[1], p[2], depth[p[1]] > depth[p[2]])}

\* The first n visited terms in the order of selection.
Kept(n) == {t \in Visited : Rank(Visited, NearestFirst, t) < n}

\* max_nodes is n.
Select(n) ==
    /\ pc = "select"
    /\ path' = Ranked(Kept(n), StudyFirst)
    /\ pc' = "done"
    /\ UNCHANGED <<input, labels, nodes, queue, current, todo>>

Work ==
    \/ Match \/ Seed \/ Pop \/ EndVisit \/ EndTrace
    \/ \E p \in Ids : Visit(p)
    \/ \E n \in 0 .. Cardinality(Terms) : Select(n)

\* The response has been sent.
Done == pc = "done" /\ UNCHANGED vars

Next == Work \/ Done

Spec == Init /\ [][Next]_vars
FairSpec == Spec /\ WF_vars(Work)

-----------------------------------------------------------------------------
(* Properties                                                              *)

\* The reference: the terms that some chain of at most n prerequisites leads to
\* from the weak concepts.
Within(start) ==
    LET w[n \in Depths] ==
            IF n = 0 THEN start
            ELSE w[n - 1] \cup {t \in Terms : \E u \in w[n - 1] : t \in prereq[u]}
    IN  w

\* When the search ends, the depth of every term is the least number of steps it
\* is away from a weak concept, and no term within max_depth has been missed.
DepthIsDistance ==
    pc \in {"select", "done"} =>
        \A n \in Depths : {t \in Visited : depth[t] <= n} = Within(Roots)[n]

\* The depth a "why" tells is the distance from the very concept it names.
WhyIsTrue ==
    pc \in {"select", "done"} =>
        \A t \in Visited :
            LET named == {roots[i].term : i \in {j \in DOMAIN roots : roots[j].label = goal[t]}}
            IN  /\ t \in Within(named)[depth[t]]
                /\ via[t] # None => t \in prereq[via[t]] /\ goal[via[t]] = goal[t]

Kepts == {path[i] : i \in DOMAIN path}

\* Whatever max_nodes cuts off, no prerequisite is left without what it is for:
\* every term of the path is a weak concept, or the term its "why" names comes
\* later in the path.  Weak concepts are given up only when nothing else is left.
PathServesRoots ==
    /\ \A i \in DOMAIN path :
          \/ path[i] \in Roots
          \/ \E j \in DOMAIN path : j > i /\ path[j] = via[path[i]]
    /\ Kepts \subseteq Roots \/ Roots \subseteq Kepts

\* The search ends on any graph, cycles included.
Terminates == <>(pc = "done")
=============================================================================
