----------------------------- MODULE MCBrowser -----------------------------
(***************************************************************************)
(* Browser for TLC: two forms, two problems, catalogues whose last page is *)
(* full and one question more than a client takes, three queries.          *)
(***************************************************************************)
EXTENDS Browser, Sequences

CONSTANTS f1, c1, c2, c3, p1, p2

Item(subject, source) == [subject |-> subject, source |-> source]
Whole == <<Item("tax", "real"), Item("law", "real"), Item("tax", "seed"), Item("tax", "real"), Item("law", "seed")>>
ThePractices == {SubSeq(Whole, 1, k) : k \in 3 .. 5}
TheFilters == {Item(None, None), Item("tax", None), Item(None, "real")}

By(query, a, ab) == [q \in {"", "a", "ab"} |-> CASE q = "a" -> a [] q = "ab" -> ab [] q = "" -> query]
TheFinds == By(1 .. 3, 1 .. 3, {2, 3})
TheStarts == By({}, {2}, {3})

\* The parts that do not move have one initial state each.
MCInit ==
    /\ BrowserInit
    /\ part = "tab" \/ (form = "form1" /\ saved = None /\ tabCall[c1] # Tab!Idle)
    /\ part = "problem" \/ (selected = p1 /\ attempted = {} /\ pageCall[c1] # Problem!Idle)
    /\ part = "catalogue" \/ Len(practice_questions) = 3

BrowserFairSpec == MCInit /\ [][BrowserNext]_allVars /\ Fairness
-----------------------------------------------------------------------------
\* No page waits for ever: a call that met a 401, a diagnosis, a problem's text, a
\* search and a walk through the catalogue all come to an end.  The calls of
\* SpaSession are interchangeable, so one of them stands for all.
PageSettles ==
    /\ DeniedIsResolved(f1)
    /\ Tab!LoadingEnds
    /\ (part = "problem" => Problem!StemArrives)
    /\ Cat!SearchingEnds /\ Cat!WalkEnds
=============================================================================
