------------------------------ MODULE MCEngines ------------------------------
(* The engines, with small inputs for TLC. *)
EXTENDS Engines, TLC

CONSTANTS l1, l2

-----------------------------------------------------------------------------
\* Any graph of three terms; the last of them may name a fourth that is not defined.
ThreeTerms == 1 .. 3
Undefined == {99}
TwoLabels == {l1, l2}
GraphIsSmall == part = "path" => 99 \notin prereq[1] \cup prereq[2]

(* Requests for a prescription, in which one of its parts has many inputs. *)

Acc == {0, 3, 4, 6, 7, 9}

Subject(s, a, h) == [subject |-> s, acc |-> a, hurried |-> h]
Item(s, m, seen, short) == [subject |-> s, matched |-> m, seen |-> seen, short |-> short]

Users ==
    {<<>>}
    \cup {<<Subject(s, a, h)>> : s \in {1, 2}, a \in Acc, h \in BOOLEAN}
    \cup {<<Subject(2, a, TRUE), Subject(1, b, FALSE)>> : a \in {3, 4, 7, 9}, b \in {3, 6, 9}}

Items ==
    {Item(s, m, FALSE, FALSE) : s \in {1, 2}, m \in BOOLEAN}
    \cup {Item(s, m, seen, TRUE) : s \in {1, 2}, m \in BOOLEAN, seen \in BOOLEAN}

\* Three problems of two subjects.
Selections ==
    [user : Users, problems : [1 .. 3 -> Items], nSolve : {2}, nSkip : {2},
     week : {350}, days : {7}, stage : {1}, tutorials : {0}, years : {0}]

\* None to eight subjects, the order of up to three of them, and small weeks, in which
\* rounding tells, one of 3/100 of an hour.
Sorted(n) == {a \in [1 .. n -> {0, 3, 4, 6, 9}] : \A i \in 1 .. n - 1 : a[i] <= a[i + 1]}
Allotments ==
    [user : {[i \in DOMAIN a |-> Subject(i, a[i], FALSE)] :
                 a \in UNION {[1 .. n -> Acc] : n \in 0 .. 3} \cup UNION {Sorted(n) : n \in 4 .. 8}},
     problems : {<<>>}, nSolve : {1}, nSkip : {1},
     week : {0, 3, 350, 2800}, days : {0}, stage : {6}, tutorials : {0}, years : {0}]

\* Up to three weeks more than max_weeks, from every stage.
Horizons ==
    [user : {<<Subject(1, 4, FALSE)>>}, problems : {<<>>}, nSolve : {1}, nSkip : {1},
     week : {350}, days : 0 .. 7 * 20 + 21, stage : 1 .. 6,
     tutorials : {0, 1, 5, 9}, years : {0, 3}]

Requests == Selections \cup Allotments \cup Horizons

-----------------------------------------------------------------------------
(* Learners with few and with many logs, next to the thresholds of stages. *)

P(s, c, t) == [subject |-> s, concept |-> c, timed |-> t]
LoggedProblems == "a1" :> P("accounting", 1, TRUE) @@ "a2" :> P("accounting", 2, FALSE)
         @@ "t1" :> P("tax", 3, TRUE) @@ "x" :> P("history", None, TRUE)
K(p, c, s, t) == [problem |-> p, correct |-> c, slow |-> s, tags |-> t]
RightA == K("a1", TRUE, FALSE, {})
WrongA == K("a1", FALSE, TRUE, {})
RightT == K("t1", TRUE, FALSE, {})
WrongT == K("t1", FALSE, TRUE, {})
LogKinds == {RightA, WrongA, RightT, WrongT, K("a1", TRUE, TRUE, {}), K("a2", FALSE, FALSE, {}), K("a2", TRUE, FALSE, {}),
          K("a1", FALSE, FALSE, {3, 4}), K("a1", FALSE, FALSE, {2}), K("x", TRUE, FALSE, {})}
Bag(r, w) == [k \in LogKinds |-> IF k = RightA THEN r ELSE IF k = WrongA THEN w ELSE 0]
Mixed == [k \in LogKinds |-> CASE k = RightA -> 4 [] k = RightT -> 6 [] OTHER -> 0]
LogHistories == {Bag(0, 0), Bag(14, 15), Bag(50, 30), Bag(124, 75), Bag(287, 112), Mixed}
DecisionRules == <<[stages |-> {2, 3, 4}, subjects |-> {"accounting"}, tags |-> {1}, count |-> 0],
           [stages |-> 3 .. 5, subjects |-> {"accounting"}, tags |-> {5}, count |-> 0],
           [stages |-> 3 .. 5, subjects |-> {"accounting", "tax", "accounting_tax"}, tags |-> {}, count |-> 0],
           [stages |-> 2 .. 6, subjects |-> {"accounting_tax"}, tags |-> {}, count |-> 8],
           [stages |-> 3 .. 6, subjects |-> {"tax"}, tags |-> {3}, count |-> 5],
           [stages |-> 3 .. 6, subjects |-> {"accounting", "tax", "accounting_tax"}, tags |-> {5}, count |-> 1],
           [stages |-> 3 .. 6, subjects |-> {"accounting", "tax", "accounting_tax"}, tags |-> {}, count |-> 0]>>

RefreshContexts == {[days |-> 20, stage |-> None], [days |-> 90, stage |-> 4]}
TwoSubjects == {"accounting", "tax"}
SubjectGroups == [accounting_tax |-> {"accounting", "tax"}]

-----------------------------------------------------------------------------
(* Command lines, environments, question banks and answers of a backend. *)

Q(subject, choices, key, flagged, traps) ==
    [subject |-> subject, unit |-> "u", difficulty |-> None, choices |-> choices,
     correct_choice |-> key, flagged |-> flagged, traps |-> traps]
QuestionBanks == {<<>>,
  <<Q("tax", 2, 0, TRUE, None)>>,
  <<Q("tax", 3, 2, FALSE, {0}), Q("law", 2, 0, FALSE, None)>>,
  <<Q("tax", 3, 2, TRUE, None), Q("tax", 3, 0, FALSE, {1, 2})>>}
Cmd(m, b, bs) == [mode |-> m, backend |-> b, backends |-> bs]
CommandLines == {Cmd(None, None, <<>>), Cmd("stub", None, <<>>), Cmd("mock", None, <<>>), Cmd("live", None, <<>>), Cmd(None, "codex", <<>>),
   Cmd(None, None, <<"ollama">>), Cmd(None, None, <<"codex", "gpt">>), Cmd(None, None, <<"anthropic", "codex", "ollama">>)}
Env(m, b, r) == [mode |-> m, backend |-> b, routes |-> r]
EnvironmentSettings == {Env(None, None, <<>>), Env("live", "ollama", [tax |-> "codex"]), Env("fast", None, <<>>)}
Text(said, cites, insufficient) == [said |-> said, cites |-> cites, insufficient |-> insufficient]
\* 2 is the last of three choices, and none of two.
WrittenTexts == {Text(None, 0, TRUE), Text(0, 1, FALSE), Text(2, 0, FALSE)}

-----------------------------------------------------------------------------
MCInit == EnginesInit /\ GraphIsSmall
MCSpec == MCInit /\ [][EnginesNext]_allVars
MCFairSpec == MCSpec /\ WF_vars(part = "path" /\ Work)
=============================================================================
