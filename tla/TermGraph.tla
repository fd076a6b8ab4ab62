------------------------------- MODULE TermGraph -------------------------------
(***************************************************************************)
(* The glossary and what is built on it: the seed scripts write the term   *)
(* files, build_term_graph.py makes edges of them, and rag/search.py with  *)
(* rag/term_index.py finds chunks of text for a question.                  *)
(*                                                                         *)
(* A text is the set of the forms (names and aliases of terms) in it, each *)
(* [form, apart]: apart when no letter or digit is next to it.  A form is  *)
(* a record [ascii, length, tokens]; names of forms stand for them.        *)
(* Scores are in 120ths, so that those of small queries are exact; topic   *)
(* tags and the unit, which only add to a score, are left out.             *)
(***************************************************************************)
EXTENDS Integers, Sequences, FiniteSets, FiniteSetsExt, SequencesExt, Functions

CONSTANTS
    Forms,          \* by name
    Phases,         \* the seed scripts: sequences of terms they write, by id
    Drafts,         \* what they write: [forms, confusable, prerequisites]
    Targets,        \* what terms are looked for in, by number: [kind, subject, keywords, text]
    Queries,        \* [text, tokens, subject]
    TopK,
    None

\* Not of every form the search makes words ("M&A", "P/E"), but of one of each term.
GlossaryAssumption ==
    /\ IsFiniteSet(DOMAIN Forms) /\ TopK \in Nat
    /\ \A f \in DOMAIN Forms : IsFiniteSet(Forms[f].tokens)
    /\ \A p \in DOMAIN Phases : Phases[p] # <<>> /\ Phases[p] \in Seq(DOMAIN Drafts)
    /\ \A t \in DOMAIN Drafts :
          /\ Drafts[t].forms \subseteq DOMAIN Forms
          /\ \E f \in Drafts[t].forms : Forms[f].length >= 2 /\ Forms[f].tokens # {}
    /\ DOMAIN Targets = 1 .. Len(Targets) /\ Len(Targets) \in Nat
    /\ \A c \in DOMAIN Targets : IsFiniteSet(Targets[c].keywords) /\ {w.form : w \in Targets[c].text} \subseteq DOMAIN Forms
    /\ \A q \in Queries : IsFiniteSet(q.tokens) /\ {w.form : w \in q.text} \subseteq DOMAIN Forms

VARIABLES
    terms,      \* the term files
    edges,      \* edges.jsonl
    seeding,    \* the seed script that runs: [phase, next], or None
    builtOf,    \* history: the term files that edges was built from
    hits        \* the last search: [query, index (its terms and edges), found], until
                \* a file changes

vars == <<terms, edges, seeding, builtOf, hits>>

Init ==
    /\ terms = <<>> /\ edges = {} /\ seeding = None
    /\ builtOf = <<>> /\ hits = None
-----------------------------------------------------------------------------
(* Forms and texts *)

\* An ASCII word must stand apart, any other form may be part of a word.
_contains(text, f) ==
    \E w \in text : w.form = f /\ (Forms[f].ascii => w.apart)

\* Forms of one character match too much.
_surface_forms(term) == {f \in term.forms : Forms[f].length >= 2}
-----------------------------------------------------------------------------
(* The seed scripts: one file after the other is overwritten. *)

StartSeeding(p) ==
    /\ seeding = None
    /\ seeding' = [phase |-> p, next |-> 1]
    /\ hits' = None
    /\ UNCHANGED <<terms, edges, builtOf>>

WriteTerm ==
    /\ seeding # None
    /\ LET ids == Phases[seeding.phase]
           id == ids[seeding.next]
       IN  /\ terms' = [t \in DOMAIN terms \cup {id} |-> IF t = id THEN Drafts[id] ELSE terms[t]]
           /\ seeding' = IF seeding.next = Len(ids) THEN None ELSE [seeding EXCEPT !.next = @ + 1]
    /\ hits' = None
    /\ UNCHANGED <<edges, builtOf>>

\* The script is stopped between two files.
StopSeeding ==
    /\ seeding # None /\ seeding.next > 1
    /\ seeding' = None
    /\ hits' = None
    /\ UNCHANGED <<terms, edges, builtOf>>
-----------------------------------------------------------------------------
(* build_term_graph.py *)

\* Mutant: abbreviations are taken for too short.
forms_of_words(term) == {f \in term.forms : Forms[f].length > 2}

BuilderForms(term) == _surface_forms(term)

Edge(from, kind, to, relation, weight) ==
    [from_term |-> from, to_kind |-> kind, to_id |-> to, relation |-> relation, weight |-> weight]

Relation(kind) ==
    CASE kind = "rag_chunk" -> "defined_in"
      [] kind = "problem" -> "tested_in"
      [] kind = "tutorial" -> "explained_in"

\* A keyword of a chunk, or a required concept of a problem, is worth more than a
\* mention; a tutorial only has mentions.
edges_to_targets(ts) ==
    LET keyword(t, c) == BuilderForms(ts[t]) \cap Targets[c].keywords # {}
        mention(t, c) == \E f \in BuilderForms(ts[t]) : _contains(Targets[c].text, f)
    IN  {Edge(p[1], Targets[p[2]].kind, p[2], Relation(Targets[p[2]].kind),
              IF keyword(p[1], p[2]) THEN 2 ELSE 1) :
            p \in {q \in (DOMAIN ts) \X (DOMAIN Targets) : keyword(q[1], q[2]) \/ mention(q[1], q[2])}}

\* Both ways, also for a term that is not among the seeds.
edges_confusable(ts) ==
    UNION {UNION {{Edge(t, "term", u, "confusable_with", 1), Edge(u, "term", t, "confusable_with", 1)} :
                     u \in ts[t].confusable} : t \in DOMAIN ts}

edges_prerequisite(ts) ==
    UNION {{Edge(u, "term", t, "prerequisite_of", 1) : u \in ts[t].prerequisites} : t \in DOMAIN ts}

\* Of several edges for the same pair and relation the one of most weight.
build_edges(ts) ==
    LET all == edges_to_targets(ts) \cup edges_confusable(ts) \cup edges_prerequisite(ts)
        same(e, d) == [e EXCEPT !.weight = 0] = [d EXCEPT !.weight = 0]
    IN  {e \in all : \A d \in all : same(e, d) => d.weight <= e.weight}

Build ==
    /\ edges' = build_edges(terms)
    /\ builtOf' = terms
    /\ hits' = None
    /\ UNCHANGED <<terms, seeding>>
-----------------------------------------------------------------------------
(* term_index.py: the index of terms and edges that were loaded together. *)

matched_terms(ix, text) ==
    {t \in DOMAIN ix.terms : \E f \in _surface_forms(ix.terms[t]) : _contains(text, f)}

\* Confusable terms count as far as they are among the seeds.
expand_query(ix, text) ==
    UNION {_surface_forms(ix.terms[t])
               \cup UNION {_surface_forms(ix.terms[u]) : u \in ix.terms[t].confusable \cap DOMAIN ix.terms} :
           t \in matched_terms(ix, text)}

chunk_defined_by(ix, c) ==
    {e.from_term : e \in {d \in ix.edges : d.to_kind = "rag_chunk" /\ d.relation = "defined_in" /\ d.to_id = c}}
-----------------------------------------------------------------------------
(* search.py *)

Chunks == {c \in DOMAIN Targets : Targets[c].kind = "rag_chunk"}

Tokens(fs) == UNION {Forms[f].tokens : f \in fs}

\* A keyword in the query 2, one that shares a word with it 1; the share of the words of
\* the query that the chunk has too, 3/2 at most.
_score_chunk(c, words, forms) ==
    LET chunk == Targets[c]
        shared == Tokens({w.form : w \in chunk.text}) \cap words
    IN  SumFunctionOnSet([k \in chunk.keywords |->
            IF k \in forms THEN 240 ELSE IF Forms[k].tokens \cap words # {} THEN 120 ELSE 0],
            chunk.keywords)
        + (180 * Cardinality(shared)) \div Cardinality(words)

MinScore == 60

Bonus(ix, c, matched) == IF chunk_defined_by(ix, c) \cap matched # {} THEN 60 ELSE 0

\* With an index or, where ix is None, without one.
retrieve(ix, q) ==
    LET expansions == IF ix = None THEN {} ELSE expand_query(ix, q.text)
        matched == IF ix = None THEN {} ELSE matched_terms(ix, q.text)
        words == q.tokens \cup Tokens({w.form : w \in q.text} \cup expansions)
        forms == {w.form : w \in q.text} \cup expansions
        score == [c \in Chunks |->
                     _score_chunk(c, words, forms) + (IF ix = None THEN 0 ELSE Bonus(ix, c, matched))]
        candidates == {c \in Chunks :
                          Targets[c].subject \in {q.subject, "general"} /\ score[c] >= MinScore}
        ahead(c) == {d \in candidates : score[d] > score[c] \/ (score[d] = score[c] /\ d < c)}
        order == [i \in 1 .. Cardinality(candidates) |->
                     CHOOSE c \in candidates : Cardinality(ahead(c)) = i - 1]
    IN  IF words = {} THEN <<>> ELSE SubSeq(order, 1, Min({TopK, Len(order)}))

Search(q) ==
    /\ \E ix \in {None, [terms |-> terms, edges |-> edges]} :
          hits' = [query |-> q, index |-> ix, fresh |-> builtOf = terms, found |-> retrieve(ix, q)]
    /\ UNCHANGED <<terms, edges, seeding, builtOf>>

Next ==
    \/ \E p \in DOMAIN Phases : StartSeeding(p)
    \/ WriteTerm \/ StopSeeding \/ Build
    \/ \E q \in Queries : Search(q)

Spec == Init /\ [][Next]_vars
-----------------------------------------------------------------------------
(* Properties *)

\* Of a graph that was built of the terms there are, a search gets each chunk of the
\* subject that has a form of a term of the question in its text, unless it gets TopK
\* others: the index finds the terms and the builder has found the chunk, although each
\* has matching of its own, and the words that the terms add to the question do not
\* crowd the chunk out.
DefinitionsAreFound ==
    hits # None /\ hits.index # None /\ hits.fresh /\ Len(hits.found) < TopK =>
        \A c \in Chunks :
            /\ Targets[c].subject \in {hits.query.subject, "general"}
            /\ \E t \in DOMAIN hits.index.terms : \E f \in hits.index.terms[t].forms :
                  Forms[f].length >= 2 /\ _contains(hits.query.text, f) /\ _contains(Targets[c].text, f)
            => c \in Range(hits.found)
=============================================================================
