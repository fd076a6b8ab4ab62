------------------------------- MODULE Browser -------------------------------
(***************************************************************************)
(* The pages of the browser.  They meet in requests and answers only, and  *)
(* every module has both ends of those it is about.  So one part moves in  *)
(* a behaviour, and the variables of the others stay at an initial state   *)
(* of theirs.                                                              *)
(***************************************************************************)
EXTENDS SpaSession

CONSTANTS
    Forms, Empty, TabCalls, MaxEdits,
    Problems, Options, PageCalls, MaxClicks,
    Practices, Filters, Limit, MaxPages, Queries, Finds, Starts, MaxRequests,
    Failing, None

VARIABLES
    part,
    form, timer, inflight, latest, status, saved, edits, tabCall, tabOverlapped,
    selected, stem, board, choice, verdict, answer, explain, attempted, clicks, pageCall, pageOverlapped,
    practice_questions, walk, problemSolutionMaps, box, boxTimer, searches, meta, results

Tab == INSTANCE DiagnoseTab WITH Calls <- TabCalls, call <- tabCall, overlapped <- tabOverlapped

Problem == INSTANCE PracticeView WITH Choices <- Options, Calls <- PageCalls, call <- pageCall, overlapped <- pageOverlapped

Cat == INSTANCE Catalogue WITH timer <- boxTimer

tabPage == <<form, timer, inflight, latest, status, saved, edits, tabCall>>
tab == <<tabPage, tabOverlapped>>
problemPage == <<selected, stem, board, choice, verdict, answer, explain, attempted, clicks, pageCall>>
problem == <<problemPage, pageOverlapped>>
cat == <<practice_questions, walk, problemSolutionMaps, box, boxTimer, searches, meta, results>>
allVars == <<part, vars, tab, problem, cat>>

ASSUME BrowserAssumption ==
    /\ SpaAssumption /\ StoreAssumption
    /\ Tab!DiagnoseTabAssumption /\ Problem!PracticeViewAssumption /\ Cat!CatalogueAssumption

-----------------------------------------------------------------------------
BrowserInit ==
    /\ part \in {"session", "tab", "problem", "catalogue"}
    /\ Init /\ Tab!Init /\ Problem!Init /\ Cat!Init

BrowserNext ==
    \/ part = "session" /\ Next /\ UNCHANGED <<part, tab, problem, cat>>
    \/ part = "tab" /\ Tab!Next /\ UNCHANGED <<part, vars, problem, cat>>
    \/ part = "problem" /\ Problem!Next /\ UNCHANGED <<part, vars, tab, cat>>
    \/ part = "catalogue" /\ Cat!Next /\ UNCHANGED <<part, vars, tab, problem>>

BrowserSpec == BrowserInit /\ [][BrowserNext]_allVars

\* The fairness of the modules, for the part that moves.
Fairness ==
    /\ \A f \in Calls : WF_system(part = "session" /\ Network(f))
    /\ WF_tabPage(part = "tab" /\ \E c \in TabCalls : Tab!TimerFires(c))
    /\ \A c \in TabCalls : WF_tabPage(part = "tab" /\ Tab!Network(c))
    /\ \A c \in PageCalls : WF_problemPage(part = "problem" /\ Problem!Network(c))
    /\ WF_cat(part = "catalogue" /\ (Cat!Page \/ Cat!PageFails))
    /\ WF_cat(part = "catalogue" /\ Cat!runTermSearch)
    /\ \A q \in Queries : WF_cat(part = "catalogue" /\ (Cat!Found(q) \/ Cat!SearchFails(q)))

-----------------------------------------------------------------------------
\* diagnose(): the page never goes back to the diagnosis of an older form.
NoOlderDiagnosis == Tab!NoOlderDiagnosis

\* What a page says is true of what it shows and of what the server holds: the status
\* bar of the diagnosis, the problem page's text, choices and verdict, the catalogue
\* of questions that loadPracticeList walks, and the line over the search results.
PageIsTrue ==
    /\ TypeOK
    /\ Tab!StatusIsTrue
    /\ Problem!PageOfSelected /\ Problem!PanelOfSelected
    /\ Cat!CatalogueIsWhole /\ Cat!ResultsAreLabelled
=============================================================================
