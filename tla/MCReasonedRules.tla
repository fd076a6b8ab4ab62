--------------------------- MODULE MCReasonedRules ---------------------------
(***************************************************************************)
(* Questions for the rules.  A case is a question of each kind the rules    *)
(* know, with the numbers of tests/test_reasoned_rules.py (rounded where    *)
(* that file has fractions; tax amounts in millions of won) and the         *)
(* position of its right choice.  A question put to the solver is a case    *)
(* whose stem may also mention what another case is about, and which a      *)
(* twist may turn into a question that the rule of the case does not solve: *)
(* then no choice counts as right.                                          *)
(***************************************************************************)
EXTENDS ReasonedRules

CONSTANTS LossMaking   \* whether the NPV of the case "npv" is negative

Plain(unit, v) == [v |-> v, unit |-> unit, says |-> {}, also |-> {}]
In(unit, values) == [i \in DOMAIN values |-> Plain(unit, values[i])]
Won(values) == In("won", values)
Percent(values) == In("percent", values)
Naming(v, says, also) == [v |-> v, unit |-> "won", says |-> says, also |-> also]

Case(words, num, choices, right, twists) ==
    [words |-> words, num |-> num, choices |-> choices, right |-> right,
     twists |-> twists, asks |-> "amount"]

FinanceCases ==
    [npv |-> Case({"NPV"},
        [discount_rate |-> 10, years_later |-> <<<<1, 600>>, <<2, 600>>>>,
         invest_today |-> IF LossMaking THEN 1082 ELSE 1000],
        IF LossMaking THEN Won(<<41, -41, 200, -200>>) ELSE Won(<<41, 149, 200, 1041>>),
        IF LossMaking THEN 2 ELSE 1, {}),
     npv_annuity |-> Case({"NPV", "annuity factor", "each year"},
        [discount_rate |-> 10, invest_today |-> 8000, each_year |-> 3200, factor_pct |-> 249],
        Won(<<-2000, -1600, 0, -32>>), 4, {}),
     irr |-> Case({"IRR"},
        [invest_today |-> 10, years_later |-> <<<<1, 6>>, <<2, 6>>>>],
        Percent(<<10, 13, 20, 25>>), 2, {}),
     gordon_growth |-> Case({"Gordon", "EPS"},
        [eps |-> 1000, payout |-> 40, roe |-> 10, required_return |-> 14],
        Won(<<4000, 5000, 10000>>), 2, {}),
     perpetuity_pv |-> Case({"perpetuity", "forever"},
        [each_year |-> 200000, discount_rate |-> 8],
        Won(<<1250000, 2000000, 2500000, 16000000>>), 3, {"growth"}),
     growing_perpetuity_pv |-> Case({"growing perpetuity", "increase"},
        [each_year |-> 1000000, payment_growth |-> 5, discount_rate |-> 10],
        Won(<<10000000, 15000000, 20000000, 25000000>>), 3, {}),
     ordinary_annuity_pv |-> Case({"ordinary annuity"},
        [each_year |-> 300000, factor_pct |-> 317, discount_rate |-> 10],
        Won(<<951000, 1000000, 1200000, 1300000>>), 1, {"annuity due", "at start", "perpetual"}),
     capm_required_return |-> Case({"CAPM", "beta", "required return"},
        [beta_pct |-> 150, risk_free |-> 3, market_return |-> 9],
        Percent(<<8, 12, 14, 16>>), 2, {"weight"}),
     portfolio_expected_return |-> [Case({"portfolio", "weight", "expected return"},
        [weights |-> <<60, 40>>, expected_returns |-> <<15, 5>>, deviations |-> <<20, 10>>,
         correlation_pct |-> 50],
        Percent(<<9, 10, 11, 12>>), 3, {}) EXCEPT !.asks = "expected return"],
     portfolio_std_dev |-> [Case({"portfolio", "standard deviation"},
        [equal_weight |-> 50, deviations |-> <<20, 10>>, correlation_pct |-> -100],
        Percent(<<0, 5, 10, 15>>), 2, {}) EXCEPT !.asks = "standard deviation"],
     wacc |-> Case({"WACC"},
        [equity_weight |-> 60, debt_weight |-> 40, equity_cost |-> 15, debt_cost |-> 10,
         tax_rate |-> 25],
        Percent(<<9, 12, 13, 14>>), 2, {"beta", "market premium", "refinancing", "preferred"}),
     put_call_parity |-> Case({"put-call parity", "put option", "continuous", "not continuous"},
        [strike |-> 1000, spot |-> 950, risk_free |-> 5, call |-> 80],
        Won(<<30, 82, 130, 182>>), 2, {"dividend", "binomial", "e^"})]

AccountingCases ==
    [moving_average_inventory |-> Case({"moving average", "ending inventory"},
        [opening_lot |-> <<100, 100>>, purchases |-> <<<<100, 120>>, <<100, 130>>>>,
         sold_after_first |-> 150, ending_quantity |-> 150],
        Won(<<18000, 18500, 19000>>), 2, {}),
     effective_interest |-> Case({"effective rate", "interest income", "truncate"},
        [acquired_for |-> 95026, effective_rate |-> 10],
        Won(<<8000, 9502, 9503>>), 2, {}),
     revaluation_loss |-> Case({"revaluation model", "revaluation loss"},
        [amounts |-> <<1000, 0, 1200, 700>>, life |-> 5],
        Won(<<0, 10, 100>>), 1, {"transfers surplus"}),
     straight_line_depreciation |-> Case({"straight line", "depreciation"},
        [cost |-> 1000000, life |-> 5, residual |-> 100000],
        Won(<<150000, 180000, 200000, 220000>>), 2, {"accumulated depreciation"}),
     eps |-> Case({"EPS"},
        [net_income |-> 11000000, preferred_dividend |-> 1000000, shares |-> 10000],
        Won(<<900, 1000, 1100, 1200>>), 2, {}),
     cogs |-> Case({"cost of sales"},
        [opening_stock |-> 200000, purchased |-> 1500000, closing_stock |-> 300000],
        Won(<<1300000, 1400000, 1500000, 1600000>>), 2,
        {"valuation loss", "shrinkage", "abnormal", "gross margin ratio"}),
     impairment_loss |-> Case({"impairment", "recoverable amount", "straight line"},
        [acquired_for |-> 1000000, life |-> 5, residual |-> 100000, value_in_use |-> 360000,
         fair_value |-> 400000, acquired_year |-> 1, impaired_year |-> 3],
        Won(<<240000, 280000, 320000, 640000>>), 1,
        {"revaluation", "reversal", "declining balance", "units of production"}),
     transaction_price_allocation |-> Case({"stand-alone price", "on delivery"},
        [sold_for |-> 500, prices |-> <<<<"A", 400>>, <<"service", 200>>>>, delivered |-> "A"],
        Won(<<300, 333, 400, 500>>), 2, {"variable consideration", "refund", "licence"}),
     indirect_cash_flow |-> Case({"indirect method", "operating activities", "depreciation",
                                  "net income", "disposal", "increase"},
        [net_income |-> 500, items |->
            << [kind |-> "depreciation", moves |-> "", amount |-> 120],
               [kind |-> "gain on disposal", moves |-> "", amount |-> 30],
               [kind |-> "receivable", moves |-> "increase", amount |-> 50],
               [kind |-> "payable", moves |-> "increase", amount |-> 40] >>],
        Won(<<550, 580, 620, 740>>), 2, {"direct method"}),
     treasury_reissue_entry |-> Case({"treasury", "reissue", "accounting treatment"},
        [treasury_cost |-> 5, reissued |-> <<60, 7>>],
        << Naming(420, {"capital surplus", "treasury gain"}, {420, 300, 120}),
           Naming(420, {}, {420}),
           Naming(420, {"profit or loss", "treasury gain"}, {420, 300, 120}),
           Naming(420, {"capital surplus", "debit"}, {420, 120}) >>, 1, {"retirement"}),
     treasury_multi_transaction |-> Case({"treasury", "disposal", "total equity",
                                          "no gain before", "retirement"},
        [treasury_cost |-> 7, disposals |-> << <<100, 9>>, <<50, 6>> >>],
        << Naming(1200, {"increase", "treasury gain"}, {1200, 150}),
           Naming(900, {"increase", "treasury gain"}, {900, 150}),
           Naming(1200, {"increase", "treasury gain"}, {1200, 200}),
           Naming(900, {"increase", "treasury loss"}, {900, 50}) >>, 1, {})]

CostCases ==
    [bep_sales |-> Case({"break-even", "sales"},
        [fixed_cost |-> 3000, contribution_ratio |-> 30],
        Won(<<7000, 9000, 10000, 12000>>), 3, {}),
     manufacturing_cogs |-> Case({"cost of sales", "opening work in process",
                                  "closing work in process"},
        [opening_wip |-> 80, materials |-> 220, labour |-> 180, overhead |-> 150,
         closing_wip |-> 110, opening_goods |-> 40, closing_goods |-> 70],
        Won(<<490, 520, 550, 580>>), 1, {"overhead variance", "underapplied", "cost ratio"}),
     overhead_application_variance |-> Case({"overhead variance", "predetermined overhead"},
        [budgeted_overhead |-> 600, budgeted_hours |-> 30, actual_overhead |-> 500,
         actual_hours |-> 28],
        << Naming(40, {"overapplied"}, {}), Naming(40, {"underapplied"}, {}),
           Naming(60, {"overapplied"}, {}), Naming(60, {"underapplied"}, {}) >>, 3, {}),
     margin_of_safety_ratio |-> Case({"safety margin ratio"},
        [sales |-> 5000, variable_cost |-> 3000, fixed_cost |-> 1200],
        Percent(<<20, 40, 60, 70>>), 2, {"per unit", "safety margin sales", "quantity"}),
     dol_profit_change |-> Case({"operating income", "contribution", "increase"},
        [operating_income |-> 400, contribution_margin |-> 1200, sales_growth |-> 10],
        Percent(<<10, 20, 30, 33>>), 3, {"unit contribution", "table", "each product"}),
     special_order |-> Case({"special order", "no further fixed cost"},
        [unit_variable_cost |-> 120, order |-> <<5000, 150>>, fixed_cost |-> 800000],
        << Naming(150000, {"decrease"}, {}), Naming(100000, {"increase"}, {}),
           Naming(150000, {"increase"}, {}), Naming(750000, {"increase"}, {}) >>, 3,
        {"no idle capacity", "gives up sales", "variable selling cost"}),
     bep_units_and_safety_sales |-> Case({"break-even", "safety margin"},
        [unit_price |-> 50, unit_variable_cost |-> 30, fixed_cost |-> 40000, safety_ratio |-> 20],
        << Naming(100000, {}, {1600}), Naming(125000, {}, {2000}),
           Naming(20000, {}, {2000}), Naming(100000, {}, {2500}) >>, 2, {}),
     eoq |-> Case({"EOQ"},
        [demand |-> 50000, order_cost |-> 50, holding_cost |-> 20],
        In("pieces", <<250, 354, 500, 1000>>), 3, {"discount", "safety stock", "lead time", "days"})]

Line(amount, says) == [amounts |-> {amount}, says |-> says]

TaxCases ==
    [corporate_tax |-> Case({"corporate tax rate", "assessed tax"},
        [business_income |-> 500, loss_carried |-> 100],
        Won(<<38, 56, 76>>), 2, {}),
     entertainment_expense_limit |-> Case({"entertainment", "over the limit", "0.3%", "0.2%"},
        [booked |-> 80, sales |-> 20000, basic_limit |-> 12],
        Won(<<8, 18, 20, 30>>), 2, {"no credit card", "no receipt", "culture entertainment"}),
     taxable_income_adjustment |-> Case({"business year income", "net income", "entertainment",
                                         "over the limit", "depreciation"},
        [net_income |-> 200, lines |-> << Line(30, {"corporate tax"}), Line(5, {"over the limit"}),
            Line(1, {"over the limit", "loss recognised late"}), Line(4, {"treasury gain"}) >>],
        Won(<<230, 238, 240, 245>>), 2, {"donation"}),
     vat_output_tax |-> Case({"output tax"},
        [domestic_sales |-> 200, gifts |-> 10],
        Won(<<20, 21, 30, 31>>), 2, {"deductible", "apportionment", "tax base"}),
     vat_payable |-> Case({"tax payable"},
        [domestic_sales |-> 500, materials_bought |-> 300, supplies_bought |-> 20, bad_debt |-> 22],
        Won(<<14, 15, 16, 18>>), 3, {"common input tax", "exempt business", "price with tax"}),
     vat_common_input |-> Case({"used in common", "deduct"},
        [taxable_supplies |-> <<200, 300>>, exempt_supplies |-> <<100, 200>>,
         common_assets |-> <<800, 80>>, other_input_tax |-> 30],
        Won(<<75, 78, 80, 85, 88>>), 4, {}),
     financial_income_grossup |-> Case({"financial income", "gross-up", "how much"},
        [income_items |-> << [kind |-> "domestic dividend", amount |-> 12],
             [kind |-> "domestic dividend", amount |-> 18], [kind |-> "mutual aid", amount |-> 5],
             [kind |-> "interest", amount |-> 10] >>],
        Won(<<40, 42, 43, 45>>), 2, {}),
     acquisition_tax_base |-> Case({"acquisition tax", "assessed tax", "local education tax",
                                    "rural tax", "excluding", "not included"},
        [acquisition_price |-> 1200, standard_rate |-> 4, brokerage |-> 50],
        Won(<<48, 50, 52, 54>>), 2, {"heavy rate", "in total", "deemed"}),
     acquisition_tax_with_surtaxes |-> Case({"acquisition tax", "in total",
                                             "local education tax", "rural tax", "2%"},
        [acquisition_price |-> 1000, standard_rate |-> 4],
        Won(<<40, 46, 48>>), 2, {})]

EconomicsCases ==
    [quantity_theory_inflation |-> Case({"quantity theory", "inflation", "velocity", "constant"},
        [money_growth |-> 5, income_growth |-> 2],
        Percent(<<2, 3, 5, 7>>), 2, {}),
     uip_return_gap |-> Case({"UIP", "Korea", "US", "expected return"},
        [nominal_rates |-> <<2, 5>>, currency_rise |-> 2],
        In("points", <<0, 1, 3, 5>>), 2, {"falls"})]

Cases == FinanceCases @@ AccountingCases @@ CostCases @@ TaxCases @@ EconomicsCases

Topics == DOMAIN Cases

NoTwist == "none"

\* Stems that the solver takes for something else: a rule that is tried
\* earlier finds a yearly payment and a discount rate, or a factor, and asks
\* no further (README, section 5).  In the last pair the mention ("in total")
\* really asks for something else.
Shadowed ==
    { <<"npv_annuity", "ordinary_annuity_pv">>, <<"npv_annuity", "perpetuity_pv">>,
      <<"ordinary_annuity_pv", "perpetuity_pv">>,
      <<"acquisition_tax_base", "acquisition_tax_with_surtaxes">> }

\* The reviewed answer of a question of the bank: its text is that of the
\* second choice; the position is that of an earlier order of the choices.
Keys(c) == { [choice |-> Nothing, answer |-> NoText], [choice |-> 1, answer |-> c.choices[2]] }

Asked(c, mentioned, x, key) ==
    [words   |-> WithParts(c.words \cup mentioned \cup {x}),
     num     |-> c.num,
     choices |-> c.choices,
     asks    |-> c.asks,
     key     |-> key]

\* The case and the twist are kept for the properties, and whether the stem
\* mentions nothing else.
VARIABLES topic, twist, pure

vars == <<question, tried, result, topic, twist, pure>>

Init ==
    /\ topic \in Topics
    /\ twist \in {NoTwist} \cup Cases[topic].twists
    /\ \E mention \in Topics, key \in Keys(Cases[topic]) :
          /\ <<topic, mention>> \notin Shadowed
          /\ pure = (mention = topic)
          /\ question = Asked(Cases[topic], Cases[mention].words, twist, key)
    /\ tried = 0
    /\ result = Pending

Next == SolveNext /\ UNCHANGED <<topic, twist, pure>>

Spec == Init /\ [][Next]_vars

RuleNames == {RULES[i] : i \in DOMAIN RULES}

\* A rule leaves a question alone rather than answer it wrongly: whatever
\* else the stem mentions, an answer computed by a rule is the right choice,
\* and a question that a twist turned into another one gets none.
NeverWrong ==
    result.rule \in RuleNames =>
        /\ result.index = Cases[topic].right
        /\ twist = NoTwist

\* The order of the rules does not matter: no other rule would have chosen
\* another answer than the rule that came first.
OrderDoesNotMatter ==
    result.rule \in RuleNames =>
        \A r \in RuleNames : Rule(r, question) \in {Nothing, result.index}

\* A question of a kind the solver knows, that mentions nothing else, is
\* answered by the rule made for it, not by a neighbour that happens to fit,
\* even if its reviewed answer is known.
OwnRuleAnswers ==
    result # Pending /\ pure /\ twist = NoTwist => result.rule = topic

\* A question no rule answers gets its reviewed answer, by its text where the
\* order of the choices has changed since the review.
BankFollowsText ==
    result.rule \in {"known_solution_bank", "unsupported"} =>
        IF question.key.answer = NoText THEN result.index = Nothing
        ELSE question.choices[result.index] = question.key.answer
=============================================================================
