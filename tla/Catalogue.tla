------------------------------ MODULE Catalogue ------------------------------
(***************************************************************************)
(* The catalogues of the API that everybody may read, and the pages that   *)
(* show them: GET /practice hands out the questions page by page to        *)
(* loadPracticeList of prototype/app.js, GET /terms/search answers the     *)
(* search box of the term view, GET /terms/{id} its links.                 *)
(*                                                                         *)
(* Questions and terms are numbered in the order of their ids.  The words  *)
(* of a term and of a query are abstracted to the terms a query occurs in. *)
(***************************************************************************)
EXTENDS Naturals, Sequences, FiniteSets, SequencesExt, Containers

CONSTANTS
    Practices,      \* catalogues: sequences of questions [subject, source]
    Filters,        \* what a client may ask for: [subject, source], None for any
    Limit,          \* of a page: 50
    MaxPages,       \* pages that a client takes: 40
    Queries,        \* "" is that of an empty box
    Finds,          \* by query: the terms with a form that holds it
    Starts,         \* by query: the terms with a name that starts with it
    MaxRequests,    \* bound on the open requests of the search box
    None

CatalogueAssumption ==
    /\ \A catalogue \in Practices : Len(catalogue) \in Nat
    /\ {Limit, MaxPages} \subseteq Nat \ {0}

VARIABLES
    practice_questions,     \* of the server, sorted at its start
    walk,           \* loadPracticeList: [filter, all, cursor, page], or None
    problemSolutionMaps,    \* what the last walk has brought: [filter, all]
    box,            \* the search box: what was typed last
    timer,          \* the search that waits for a pause, or None
    searches,       \* open requests: a bag of queries
    meta,           \* the line over the results: [kind, query]
    results         \* the results on the page: [query, terms]

walks == <<practice_questions, walk, problemSolutionMaps>>
search == <<box, timer, searches, meta, results>>
vars == <<walks, search>>

Init ==
    /\ practice_questions \in Practices
    /\ walk = None /\ problemSolutionMaps = None
    /\ box = "" /\ timer = None
    /\ searches = [q \in Queries |-> 0]
    /\ meta = [kind |-> "hint", query |-> ""]
    /\ results = [query |-> "", terms |-> <<>>]
-----------------------------------------------------------------------------
\* The questions that a filter lets through.
Wanted(f) ==
    {i \in DOMAIN practice_questions : /\ f.subject \in {None, practice_questions[i].subject}
                                      /\ f.source \in {None, practice_questions[i].source}}

\* Mutant: a page starts with the question the last one has ended with.
list_practice_again(f, after) ==
    LET ids == Selected(Numbers(Len(practice_questions)), {i \in Wanted(f) : i >= after})
        out == FirstOf(ids, Limit)
    IN  [questions |-> out, next_cursor |-> IF Len(out) = Limit THEN Last(out) ELSE 0]

\* The questions after a cursor, 0 for none; a full page ends with a cursor.
list_practice(f, after) ==
    LET ids == Selected(Numbers(Len(practice_questions)), {i \in Wanted(f) : i > after})
        out == FirstOf(ids, Limit)
    IN  [questions |-> out, next_cursor |-> IF Len(out) = Limit THEN Last(out) ELSE 0]

loadPracticeList(f) ==
    /\ walk = None
    /\ walk' = [filter |-> f, all |-> <<>>, cursor |-> 0, page |-> 0]
    /\ UNCHANGED <<practice_questions, problemSolutionMaps, search>>

\* An empty page ends the walk as a page without a cursor does.
Page ==
    /\ walk # None
    /\ LET data == list_practice(walk.filter, walk.cursor)
           all == walk.all \o data.questions
       IN  IF data.next_cursor # 0 /\ data.questions # <<>> /\ walk.page + 1 < MaxPages
           THEN /\ walk' = [walk EXCEPT !.all = all, !.cursor = data.next_cursor, !.page = @ + 1]
                /\ UNCHANGED problemSolutionMaps
           ELSE walk' = None /\ problemSolutionMaps' = [filter |-> walk.filter, all |-> all]
    /\ UNCHANGED <<practice_questions, search>>

\* A page that fails leaves what was there.
PageFails ==
    /\ walk # None
    /\ walk' = None
    /\ UNCHANGED <<practice_questions, problemSolutionMaps, search>>
-----------------------------------------------------------------------------
\* Names that start with the query first, by id among themselves.
search_terms(q) ==
    IF q = "" THEN <<>>
    ELSE LET Sorted(S) == Selected(Numbers(Cardinality(UNION {Finds[p] : p \in Queries})), S)
         IN  Sorted(Finds[q] \cap Starts[q]) \o Sorted(Finds[q] \ Starts[q])

\* Every key sets the timer anew; a query that was typed last already does nothing.
Type(q) ==
    /\ q # box
    /\ box' = q /\ timer' = q
    /\ UNCHANGED <<walks, searches, meta, results>>

\* An empty query is answered on the spot.
runTermSearch ==
    /\ timer # None
    /\ timer' = None
    /\ IF timer = "" THEN /\ meta' = [kind |-> "hint", query |-> ""]
                          /\ results' = [query |-> "", terms |-> <<>>]
                          /\ UNCHANGED searches
       ELSE /\ searches[timer] < MaxRequests
            /\ meta' = [kind |-> "searching", query |-> timer]
            /\ searches' = [searches EXCEPT ![timer] = @ + 1]
            /\ UNCHANGED results
    /\ UNCHANGED <<walks, box>>

Ended(q) == searches[q] > 0 /\ searches' = [searches EXCEPT ![q] = @ - 1]

\* Mutant: the line names what is in the box.
render_as_typed(q) ==
    /\ meta' = [kind |-> "count", query |-> box]
    /\ results' = [query |-> q, terms |-> search_terms(q)]

renderTermResults(q) ==
    /\ meta' = [kind |-> "count", query |-> q]
    /\ results' = [query |-> q, terms |-> search_terms(q)]

\* Responses come in any order.
Found(q) == Ended(q) /\ renderTermResults(q) /\ UNCHANGED <<walks, box, timer>>

SearchFails(q) ==
    /\ Ended(q)
    /\ meta' = [kind |-> "failed", query |-> q]
    /\ results' = [query |-> q, terms |-> <<>>]
    /\ UNCHANGED <<walks, box, timer>>

Next ==
    \/ \E f \in Filters : loadPracticeList(f)
    \/ Page \/ PageFails
    \/ \E q \in Queries : Type(q) \/ Found(q) \/ SearchFails(q)
    \/ runTermSearch

\* Timers fire, and every request ends.
Fairness ==
    /\ WF_vars(Page \/ PageFails) /\ WF_vars(runTermSearch)
    /\ \A q \in Queries : WF_vars(Found(q) \/ SearchFails(q))

Spec == Init /\ [][Next]_vars /\ Fairness
-----------------------------------------------------------------------------
\* The list of the page is the whole catalogue, every question once and in order, if it
\* fits into the pages a client takes: also when the last page is exactly full.
CatalogueIsWhole ==
    problemSolutionMaps # None =>
        LET all == Selected(Numbers(Len(practice_questions)), Wanted(problemSolutionMaps.filter))
        IN  problemSolutionMaps.all = FirstOf(all, Limit * MaxPages)

\* Responses of searches may overtake each other, but the line over the results names the
\* query whose answer they are.
ResultsAreLabelled == meta.kind = "count" => results = [query |-> meta.query, terms |-> search_terms(meta.query)]

\* A search line says "searching" no longer than a request is open.
SearchingEnds == meta.kind = "searching" ~> meta.kind # "searching"

WalkEnds == walk # None ~> walk = None
=============================================================================
