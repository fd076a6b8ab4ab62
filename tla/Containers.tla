----------------------------- MODULE Containers -----------------------------
(***************************************************************************)
(* Lists and dictionaries of the code.  SelectSeq, SetToSortSeq and @@ of   *)
(* the libraries say the same, but are closed to the provers.              *)
(***************************************************************************)
EXTENDS Integers, Sequences, FiniteSets

\* The elements of a list that are in a set, in their order.
Selected(s, T) ==
    LET upTo[i \in 0 .. Len(s)] ==
            IF i = 0 THEN <<>>
            ELSE IF s[i] \in T THEN Append(upTo[i - 1], s[i]) ELSE upTo[i - 1]
    IN  upTo[Len(s)]

\* The first n elements, or all.
FirstOf(s, n) == SubSeq(s, 1, IF Len(s) < n THEN Len(s) ELSE n)

Numbers(n) == [i \in 1 .. n |-> i]

\* sorted(): the elements of a set by their rank in an order, a set of pairs.
Rank(S, R, x) == Cardinality({y \in S : <<y, x>> \in R})
Ranked(S, R) == [i \in 1 .. Cardinality(S) |-> CHOOSE x \in S : Rank(S, R, x) = i - 1]

\* {**g, **f}: the fields of both; of those that both have, the values of f.
Over(f, g) == [x \in DOMAIN f \cup DOMAIN g |-> IF x \in DOMAIN f THEN f[x] ELSE g[x]]
=============================================================================
