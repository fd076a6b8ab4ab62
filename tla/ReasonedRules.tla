--------------------------- MODULE ReasonedRules ---------------------------
(***************************************************************************)
(* The deterministic solver, solver/reasoned.py: 42 rules are tried in a   *)
(* fixed order; the first that recognises the stem and finds its data      *)
(* answers with the choice closest to the value it computes.               *)
(*                                                                         *)
(* A question is a record:                                                 *)
(*   words    the phrases its stem contains (substrings, so that "tax base *)
(*            table" also contains "table": see WithParts)                 *)
(*   num      the data a regular expression finds, by label; a label of    *)
(*            several matches has the sequence of them                     *)
(*   choices  records [v, unit, says, also]: the number of the choice, its *)
(*            unit, the phrases it contains and its further numbers        *)
(*   key      [choice, answer]: the reviewed answer, if there is one       *)
(* Positions of choices count from 1, Nothing is no answer.  Amounts of    *)
(* money are in units of which MILLION make a million won.                 *)
(***************************************************************************)
EXTENDS Integers, Sequences, FiniteSets, SequencesExt, FiniteSetsExt

CONSTANTS MILLION

Nothing == 0
NoText == [v |-> 0, unit |-> "none", says |-> {}, also |-> {}]

-----------------------------------------------------------------------------
(* Reading the stem.                                                        *)

Says(q, phrases) == phrases \subseteq q.words
AnyOf(q, phrases) == q.words \cap phrases # {}
NoneOf(q, phrases) == q.words \cap phrases = {}
Given(q, labels) == labels \subseteq DOMAIN q.num
Opt(q, label) == IF label \in DOMAIN q.num THEN q.num[label] ELSE 0

\* A phrase contains its parts.
WithParts(words) ==
    LET part(a, b) == IF words \cap a # {} THEN b ELSE {}
    IN  words
        \cup part({"revaluation model", "revaluation loss"}, {"revaluation"})
        \cup part({"revaluation loss"}, {"valuation loss"})
        \cup part({"cost of sales", "sales revenue", "output tax"}, {"sales"})
        \cup part({"contribution ratio", "unit contribution"}, {"contribution"})
        \cup part({"safety margin ratio", "safety margin sales"}, {"safety margin"})
        \cup part({"growing perpetuity"}, {"perpetuity", "perpetual", "growth"})
        \cup part({"perpetuity", "forever"}, {"perpetual"})
        \cup part({"standard deviation", "tax base", "standard rate"}, {"table"})
        \cup part({"discount rate", "discount coupon", "quantity discount"}, {"discount"})
        \cup part({"quantity discount"}, {"quantity"})
        \cup part({"entertainment", "culture entertainment"}, {"hospitality"})
        \cup part({"treasury gain"}, {"treasury", "disposal"})
        \cup part({"accumulated depreciation"}, {"depreciation"})

-----------------------------------------------------------------------------
(* Numbers and choices.                                                     *)

RoundDiv(n, d) ==   \* round(n / d), d > 0: to the nearest, a tie to the even
    LET k == n \div d
        r == 2 * (n % d)
    IN  IF r < d \/ (r = d /\ k % 2 = 0) THEN k ELSE k + 1

Magnitude(x) == IF x < 0 THEN -x ELSE x
Least(x, y) == IF x < y THEN x ELSE y
Greatest(x, y) == IF x > y THEN x ELSE y
Total(s) == FoldSeq(LAMBDA x, y : x + y, 0, s)

Leading(v) ==   \* the digits before the first comma of an amount
    LET a == Magnitude(v)
    IN  IF a < 1000 THEN a ELSE IF a < 1000000 THEN a \div 1000 ELSE a \div 1000000

\* What the helpers read of a choice: _money_values drops the sign,
\* _signed_choice_value keeps it, _pct_value takes the first number it finds.
Readable(how, c) ==
    CASE how \in {"money", "signed"} -> c.unit = "won"
      [] how = "percent"             -> c.unit \in {"percent", "points"}
      [] how = "points"              -> c.unit = "points"
      [] how = "pieces"              -> c.unit = "pieces"
      [] how = "number"              -> c.unit # "none"

Read(how, c) ==
    CASE how \in {"money", "pieces"}               -> Magnitude(c.v)
      [] how = "number" /\ c.unit \in {"won", "pieces"} -> Leading(c.v)
      [] OTHER                                     -> c.v

\* The readable choice nearest to n/d, of several the first.
Closest(q, how, n, d) ==
    LET legible == {i \in DOMAIN q.choices : Readable(how, q.choices[i])}
        far(i)  == Magnitude(Read(how, q.choices[i]) * d - n)
    IN  IF legible = {} THEN Nothing
        ELSE CHOOSE i \in legible : \A j \in legible :
                far(i) < far(j) \/ (far(i) = far(j) /\ i <= j)

Money(q, n, d) == Closest(q, "money", RoundDiv(n, d), 1)

Truncated(q, n, d) ==   \* the stem may ask for truncation
    Closest(q, "money", IF Says(q, {"truncate"}) THEN n \div d ELSE RoundDiv(n, d), 1)

FirstChoice(q, Fits(_)) ==
    LET fit == {i \in DOMAIN q.choices : Fits(q.choices[i])}
    IN  IF fit = {} THEN Nothing ELSE Min(fit)

-----------------------------------------------------------------------------
(* Finance: the value of cash flows.                                        *)

Discounted(flows, r, years) ==   \* times (100 + r)^years
    Total([i \in DOMAIN flows |->
        flows[i][2] * 100 ^ flows[i][1] * (100 + r) ^ (years - flows[i][1])])

LastYear(flows) == Max({flows[i][1] : i \in DOMAIN flows})

npv(q) ==
    IF Says(q, {"NPV"}) /\ Given(q, {"discount_rate", "years_later", "invest_today"})
    THEN LET flows == q.num.years_later
             years == LastYear(flows)
             d     == (100 + q.num.discount_rate) ^ years
         IN  Truncated(q, Discounted(flows, q.num.discount_rate, years)
                            - q.num.invest_today * d, d)
    ELSE Nothing

npv_annuity(q) ==
    IF /\ Says(q, {"NPV", "annuity factor", "each year"})
       /\ Given(q, {"invest_today", "each_year", "factor_pct"})
    THEN Closest(q, "signed",
                 RoundDiv(q.num.each_year * q.num.factor_pct, 100) - q.num.invest_today, 1)
    ELSE Nothing

irr(q) ==   \* the choice itself whose NPV is nearest to zero
    IF /\ Says(q, {"IRR"}) /\ Given(q, {"invest_today", "years_later"})
       /\ \A i \in DOMAIN q.choices : Readable("percent", q.choices[i])
    THEN LET flows  == q.num.years_later
             years  == LastYear(flows)
             off(r) == Magnitude(Discounted(flows, r, years)
                                   - q.num.invest_today * (100 + r) ^ years)
             \* compare |NPV| of rates r and s, over (100 + rate)^years
             nearer(r, s) == off(r) * (100 + s) ^ years - off(s) * (100 + r) ^ years
         IN  CHOOSE i \in DOMAIN q.choices : \A j \in DOMAIN q.choices :
                LET gap == nearer(q.choices[i].v, q.choices[j].v)
                IN  gap < 0 \/ (gap = 0 /\ i <= j)
    ELSE Nothing

gordon_growth(q) ==   \* dividend / (required return - retention * ROE)
    IF Says(q, {"Gordon", "EPS"}) /\ Given(q, {"eps", "payout", "roe", "required_return"})
    THEN LET spread == q.num.required_return * 100 - (100 - q.num.payout) * q.num.roe
         IN  IF spread <= 0 THEN Nothing
             ELSE Money(q, q.num.eps * q.num.payout * 100, spread)
    ELSE Nothing

perpetuity_pv(q) ==
    IF /\ Says(q, {"perpetuity", "forever"}) /\ NoneOf(q, {"growth"})
       /\ Given(q, {"each_year", "discount_rate"}) /\ q.num.discount_rate > 0
    THEN Money(q, q.num.each_year * 100, q.num.discount_rate)
    ELSE Nothing

growing_perpetuity_pv(q) ==
    IF /\ Says(q, {"growing perpetuity", "increase"})
       /\ Given(q, {"each_year", "payment_growth", "discount_rate"})
       /\ q.num.discount_rate > q.num.payment_growth
    THEN Money(q, q.num.each_year * 100, q.num.discount_rate - q.num.payment_growth)
    ELSE Nothing

\* Mutant: payments at the start of the year are taken for payments at its end.
ordinary_annuity_of_any_kind(q) ==
    IF Says(q, {"ordinary annuity"}) /\ Given(q, {"each_year", "factor_pct"})
    THEN Money(q, q.num.each_year * q.num.factor_pct, 100)
    ELSE Nothing

ordinary_annuity_pv(q) ==
    IF /\ Says(q, {"ordinary annuity"}) /\ NoneOf(q, {"perpetual", "annuity due", "at start"})
       /\ Given(q, {"each_year", "factor_pct"})
    THEN Money(q, q.num.each_year * q.num.factor_pct, 100)
    ELSE Nothing

capm_required_return(q) ==
    IF /\ AnyOf(q, {"CAPM", "beta"}) /\ AnyOf(q, {"required return", "expected return"})
       /\ NoneOf(q, {"weight"})
       /\ Given(q, {"beta_pct", "risk_free", "market_return"})
    THEN Closest(q, "number", q.num.risk_free * 100
                    + q.num.beta_pct * (q.num.market_return - q.num.risk_free), 100)
    ELSE Nothing

portfolio_expected_return(q) ==   \* q.asks: what the last words of the stem ask for
    IF /\ Says(q, {"portfolio", "weight"}) /\ q.asks = "expected return"
       /\ Given(q, {"weights", "expected_returns"})
       /\ q.num.weights[1] + q.num.weights[2] = 100
    THEN Closest(q, "number", q.num.weights[1] * q.num.expected_returns[1]
                                + q.num.weights[2] * q.num.expected_returns[2], 100)
    ELSE Nothing

portfolio_std_dev(q) ==   \* distances are compared squared: the root is irrational
    IF /\ Says(q, {"portfolio"}) /\ q.asks = "standard deviation"
       /\ Given(q, {"equal_weight", "deviations", "correlation_pct"})
    THEN LET w == q.num.equal_weight
             a == w * q.num.deviations[1]
             b == (100 - w) * q.num.deviations[2]
             variance == Greatest(0, a * a + b * b + (2 * a * b * q.num.correlation_pct) \div 100)
             root == CHOOSE x \in 0 .. 3000 : x * x <= variance /\ variance < (x + 1) * (x + 1)
         IN  Closest(q, "number", root, 100)
    ELSE Nothing

wacc(q) ==
    IF /\ Says(q, {"WACC"}) /\ NoneOf(q, {"beta", "market premium", "CAPM", "refinancing", "preferred"})
       /\ Given(q, {"equity_weight", "debt_weight", "equity_cost", "debt_cost", "tax_rate"})
    THEN Closest(q, "number", q.num.equity_weight * q.num.equity_cost * 100
                    + q.num.debt_weight * q.num.debt_cost * (100 - q.num.tax_rate), 10000)
    ELSE Nothing

put_call_parity(q) ==
    IF /\ Says(q, {"put-call parity", "put option"})
       /\ NoneOf(q, {"dividend", "binomial", "volatility", "e^"})
       /\ ("continuous" \in q.words => "not continuous" \in q.words)
       /\ Given(q, {"strike", "spot", "risk_free", "call"})
    THEN LET d == 100 + q.num.risk_free
         IN  Money(q, (q.num.call - q.num.spot) * d + q.num.strike * 100, d)
    ELSE Nothing

-----------------------------------------------------------------------------
(* Accounting.                                                              *)

moving_average_inventory(q) ==   \* purchases: <<quantity, unit price>>
    IF /\ Says(q, {"moving average", "ending inventory"})
       /\ Given(q, {"opening_lot", "purchases", "sold_after_first", "ending_quantity"})
       /\ Len(q.num.purchases) >= 2
    THEN LET lot1 == q.num.purchases[1]
             lot2 == q.num.purchases[2]
             pool == q.num.opening_lot[1] + lot1[1]
             cost == q.num.opening_lot[1] * q.num.opening_lot[2] + lot1[1] * lot1[2]
             left == pool - q.num.sold_after_first
         IN  IF left + lot2[1] # q.num.ending_quantity THEN Nothing
             ELSE Money(q, left * cost + lot2[1] * lot2[2] * pool, pool)
    ELSE Nothing

effective_interest(q) ==
    IF /\ Says(q, {"effective rate", "interest income"})
       /\ Given(q, {"acquired_for", "effective_rate"})
    THEN Truncated(q, q.num.acquired_for * q.num.effective_rate, 100)
    ELSE Nothing

revaluation_loss(q) ==   \* first, second, last but one and last amount of the stem
    IF /\ Says(q, {"revaluation model", "revaluation loss"})
       /\ ("transfers surplus" \in q.words => "keeps surplus" \in q.words)
       /\ Given(q, {"amounts", "life"}) /\ Len(q.num.amounts) >= 4
    THEN LET m    == q.num.amounts
             life == q.num.life
             fair == m[Len(m) - 1]
             \* times life * (life - 1)
             surplus  == Greatest(0, (fair - m[1]) * life + m[1] - m[2]) * (life - 1)
             decrease == (fair * (life - 1) - fair - m[Len(m)] * (life - 1)) * life
         IN  Money(q, Greatest(0, decrease - surplus), life * (life - 1))
    ELSE Nothing

straight_line_depreciation(q) ==
    IF /\ Says(q, {"straight line", "depreciation"}) /\ NoneOf(q, {"accumulated depreciation"})
       /\ Given(q, {"cost", "life"}) /\ q.num.life > 0
    THEN Truncated(q, q.num.cost - Opt(q, "residual"), q.num.life)
    ELSE Nothing

eps(q) ==
    IF Says(q, {"EPS"}) /\ Given(q, {"net_income", "shares"}) /\ q.num.shares > 0
    THEN Money(q, q.num.net_income - Opt(q, "preferred_dividend"), q.num.shares)
    ELSE Nothing

cogs(q) ==
    IF /\ Says(q, {"cost of sales"})
       /\ NoneOf(q, {"valuation loss", "shrinkage", "abnormal", "cost ratio", "gross margin ratio"})
       /\ Given(q, {"opening_stock", "purchased", "closing_stock"})
    THEN Money(q, q.num.opening_stock + q.num.purchased - q.num.closing_stock, 1)
    ELSE Nothing

impairment_loss(q) ==   \* impaired: the last year named before the impairment
    IF /\ Says(q, {"impairment", "recoverable amount"})
       /\ NoneOf(q, {"revaluation", "reversal", "declining balance", "sum of digits",
                     "double declining", "units of production"})
       /\ Given(q, {"acquired_for", "life", "value_in_use", "fair_value", "acquired_year",
                    "impaired_year"})
       /\ q.num.life > 0
       /\ q.num.impaired_year - q.num.acquired_year \in 0 .. q.num.life
    THEN LET n == q.num
             loss == RoundDiv(n.acquired_for * n.life
                        - (n.acquired_for - Opt(q, "residual")) * (n.impaired_year - n.acquired_year)
                        - Greatest(n.value_in_use, n.fair_value) * n.life, n.life)
         IN  IF loss <= 0 THEN Nothing ELSE Money(q, loss, 1)
    ELSE Nothing

transaction_price_allocation(q) ==   \* prices: <<item, stand-alone price>>
    IF /\ Says(q, {"stand-alone price", "on delivery"})
       /\ NoneOf(q, {"variable consideration", "refund", "warranty", "discount coupon", "licence"})
       /\ Given(q, {"sold_for", "prices", "delivered"})
       /\ Len(q.num.prices) >= 2
       /\ \E i \in DOMAIN q.num.prices : q.num.prices[i][1] = q.num.delivered
    THEN LET all    == Total([i \in DOMAIN q.num.prices |-> q.num.prices[i][2]])
             target == SelectSeq(q.num.prices, LAMBDA p : p[1] = q.num.delivered)[1][2]
         IN  Money(q, q.num.sold_for * target, all)
    ELSE Nothing

\* The sign of an item of the indirect method: 0 is an item nobody knows.
classify_cf_item(item) ==
    CASE item.kind \in {"depreciation", "loss on disposal"} -> 1
      [] item.kind \in {"gain on disposal", "reversal"}      -> -1
      [] item.kind = "payable" /\ item.moves = "increase"    -> 1
      [] item.kind = "payable" /\ item.moves = "decrease"    -> -1
      [] item.kind = "receivable" /\ item.moves = "increase" -> -1
      [] item.kind = "receivable" /\ item.moves = "decrease" -> 1
      [] OTHER                                               -> 0

indirect_cash_flow(q) ==   \* items: what follows the net income, in the order of the stem
    IF /\ Says(q, {"indirect method", "operating activities"}) /\ NoneOf(q, {"direct method"})
       /\ Given(q, {"net_income", "items"})
       /\ \A i \in DOMAIN q.num.items : classify_cf_item(q.num.items[i]) # 0
    THEN Money(q, q.num.net_income + Total([i \in DOMAIN q.num.items |->
                     classify_cf_item(q.num.items[i]) * q.num.items[i].amount]), 1)
    ELSE Nothing

gain_or_loss(x) == IF x >= 0 THEN "treasury gain" ELSE "treasury loss"

treasury_reissue_entry(q) ==
    IF /\ Says(q, {"treasury"}) /\ AnyOf(q, {"reissue", "disposal"})
       /\ AnyOf(q, {"accounting treatment", "entry"}) /\ NoneOf(q, {"retirement"})
       /\ Given(q, {"treasury_cost", "reissued"})
    THEN LET cash == q.num.reissued[1] * q.num.reissued[2]
             book == q.num.reissued[1] * q.num.treasury_cost
             Fits(c) == /\ {cash, book, Magnitude(cash - book)} \subseteq c.also
                        /\ {"capital surplus", gain_or_loss(cash - book)} \subseteq c.says
                        /\ c.says \cap {"profit or loss", "debit"} = {}
         IN  FirstChoice(q, Fits)
    ELSE Nothing

treasury_multi_transaction(q) ==
    IF /\ Says(q, {"treasury", "disposal", "total equity", "no gain before"})
       /\ Given(q, {"treasury_cost", "disposals"}) /\ Len(q.num.disposals) >= 1
    THEN LET cash == Total([i \in DOMAIN q.num.disposals |->
                          q.num.disposals[i][1] * q.num.disposals[i][2]])
             gain == Total([i \in DOMAIN q.num.disposals |->
                          q.num.disposals[i][1] * (q.num.disposals[i][2] - q.num.treasury_cost)])
             Fits(c) == /\ {cash, Magnitude(gain)} \subseteq c.also
                        /\ {"increase", gain_or_loss(gain)} \subseteq c.says
         IN  FirstChoice(q, Fits)
    ELSE Nothing

-----------------------------------------------------------------------------
(* Cost and management accounting.                                          *)

bep_sales(q) ==
    IF /\ Says(q, {"break-even", "sales"})
       /\ Given(q, {"fixed_cost", "contribution_ratio"}) /\ q.num.contribution_ratio > 0
    THEN Money(q, q.num.fixed_cost * 100, q.num.contribution_ratio)
    ELSE Nothing

manufacturing_cogs(q) ==
    IF /\ Says(q, {"cost of sales", "opening work in process", "closing work in process"})
       /\ NoneOf(q, {"overhead variance", "predetermined overhead", "overapplied",
                     "underapplied", "cost ratio", "gross margin ratio"})
       /\ Given(q, {"opening_wip", "materials", "labour", "overhead", "closing_wip",
                    "opening_goods", "closing_goods"})
    THEN Money(q, q.num.opening_goods
                    + (q.num.opening_wip + q.num.materials + q.num.labour
                         + q.num.overhead - q.num.closing_wip)
                    - q.num.closing_goods, 1)
    ELSE Nothing

overhead_application_variance(q) ==   \* amount and direction must both fit
    IF /\ Says(q, {"overhead variance"}) /\ AnyOf(q, {"predetermined overhead", "budgeted overhead"})
       /\ Given(q, {"budgeted_overhead", "budgeted_hours", "actual_overhead", "actual_hours"})
       /\ q.num.budgeted_hours > 0
    THEN LET d    == q.num.budgeted_hours
             diff == q.num.actual_overhead * d - q.num.actual_hours * q.num.budgeted_overhead
             Fits(c) == /\ c.unit = "won"
                        /\ Magnitude(c.v) = RoundDiv(Magnitude(diff), d)
                        /\ (IF diff > 0 THEN "underapplied" ELSE "overapplied") \in c.says
         IN  FirstChoice(q, Fits)
    ELSE Nothing

margin_of_safety_ratio(q) ==   \* (sales - fixed / ratio) / sales, in percent
    IF /\ Says(q, {"safety margin ratio"})
       /\ NoneOf(q, {"per unit", "safety margin sales", "table", "quantity"})
       /\ Given(q, {"sales", "variable_cost", "fixed_cost"})
       /\ q.num.sales > 0 /\ q.num.sales > q.num.variable_cost
    THEN LET margin == q.num.sales - q.num.variable_cost
         IN  Closest(q, "percent", (margin - q.num.fixed_cost) * 100, margin)
    ELSE Nothing

dol_profit_change(q) ==
    IF /\ Says(q, {"operating income", "contribution"})
       /\ AnyOf(q, {"increase", "change", "decrease"})
       /\ NoneOf(q, {"unit contribution", "table", "each product"})
       /\ Given(q, {"operating_income", "contribution_margin", "sales_growth"})
       /\ q.num.operating_income > 0
    THEN Closest(q, "percent", q.num.contribution_margin * q.num.sales_growth, q.num.operating_income)
    ELSE Nothing

special_order(q) ==   \* order: <<units, price>>; choices that say decrease are left out
    IF /\ Says(q, {"special order", "no further fixed cost"})
       /\ NoneOf(q, {"no idle capacity", "gives up sales", "cannibalisation", "variable selling cost"})
       /\ Given(q, {"unit_variable_cost", "order"})
       /\ q.num.order[2] > q.num.unit_variable_cost /\ q.num.order[1] > 0
    THEN LET kept == [i \in DOMAIN q.choices |->
                         IF "decrease" \in q.choices[i].says /\ "increase" \notin q.choices[i].says
                         THEN NoText ELSE q.choices[i]]
         IN  Money([q EXCEPT !.choices = kept],
                   (q.num.order[2] - q.num.unit_variable_cost) * q.num.order[1], 1)
    ELSE Nothing

bep_units_and_safety_sales(q) ==   \* the chosen pair must name the break-even units too
    IF /\ Says(q, {"break-even", "safety margin"})
       /\ Given(q, {"unit_price", "unit_variable_cost", "fixed_cost", "safety_ratio"})
       /\ q.num.unit_price > q.num.unit_variable_cost /\ q.num.safety_ratio < 100
    THEN LET unit  == q.num.unit_price - q.num.unit_variable_cost
             units == RoundDiv(q.num.fixed_cost, unit)
             best  == Money(q, q.num.fixed_cost * q.num.unit_price * 100,
                            unit * (100 - q.num.safety_ratio))
         IN  IF best # Nothing /\ units \in q.choices[best].also THEN best ELSE Nothing
    ELSE Nothing

eoq(q) ==   \* the rounded root of 2DS/H
    IF /\ Says(q, {"EOQ"})
       /\ NoneOf(q, {"discount", "quantity discount", "safety stock", "reorder point",
                     "lead time", "stockout", "days"})
       /\ Given(q, {"demand", "order_cost", "holding_cost"})
       /\ q.num.demand > 0 /\ q.num.order_cost > 0 /\ q.num.holding_cost > 0
    THEN LET square == 2 * q.num.demand * q.num.order_cost
             h    == q.num.holding_cost
             root == CHOOSE x \in 0 .. 1000 : /\ (2 * x - 1) * (2 * x - 1) * h <= 4 * square
                                              /\ 4 * square < (2 * x + 1) * (2 * x + 1) * h
         IN  Closest(q, "pieces", root, 1)
    ELSE Nothing

-----------------------------------------------------------------------------
(* Tax.                                                                     *)

Bracket(x, from, to) == Greatest(0, Least(x, to) - from)

corporate_tax_2026(base) ==   \* in hundredths; base at most 2 * 10^9 \div 24
    9 * Least(base, 200 * MILLION)
      + 19 * Bracket(base, 200 * MILLION, 20000 * MILLION)
      + 21 * Bracket(base, 20000 * MILLION, 300000 * MILLION)
      + 24 * Greatest(0, base - 300000 * MILLION)

extract_tax_base(q) ==   \* of a stem that gives the base itself or the income
    LET loss  == Opt(q, "loss_carried")
        limit == IF AnyOf(q, {"80%", "ordinary loss"})
                 THEN (q.num.business_income * 8) \div 10 ELSE loss
    IN  IF Given(q, {"tax_base"}) THEN q.num.tax_base
        ELSE q.num.business_income - Least(loss, limit)
               - Opt(q, "exempt_income") - Opt(q, "income_deduction")

corporate_tax(q) ==
    IF /\ Says(q, {"corporate tax rate", "assessed tax"})
       /\ DOMAIN q.num \cap {"tax_base", "business_income"} # {}
    THEN Money(q, corporate_tax_2026(extract_tax_base(q)), 100)
    ELSE Nothing

entertainment_expense_limit(q) ==
    IF /\ Says(q, {"entertainment", "over the limit", "0.3%", "0.2%"})
       /\ ("culture entertainment" \in q.words => "nil" \in q.words)
       /\ NoneOf(q, {"no credit card", "no receipt", "30,000 won"})
       /\ Given(q, {"booked", "sales", "basic_limit"})
    THEN LET r    == q.num.sales
             over == RoundDiv((q.num.booked - q.num.basic_limit) * 10000
                        - 30 * Least(r, 10000 * MILLION)
                        - 20 * Bracket(r, 10000 * MILLION, 50000 * MILLION)
                        - 3 * Greatest(0, r - 50000 * MILLION), 10000)
         IN  IF over <= 0 THEN Nothing ELSE Money(q, over, 1)
    ELSE Nothing

Subtracts(line) ==
    \/ line.says \cap {"loss recognised late", "income excluded"} # {}
    \/ "expense included" \in line.says /\ "expense excluded" \notin line.says

Adds(line) ==
    line.says \cap {"corporate tax", "over the limit", "expense excluded",
                    "income included", "treasury gain"} # {}

\* lines: the lines of the stem with amounts, but that of the net income.
taxable_income_adjustment(q) ==
    IF /\ Says(q, {"business year income", "net income"}) /\ NoneOf(q, {"donation"})
       /\ Given(q, {"net_income", "lines"})
       /\ \A i \in DOMAIN q.num.lines :
             /\ Cardinality(q.num.lines[i].amounts) = 1
             /\ Subtracts(q.num.lines[i]) \/ Adds(q.num.lines[i])
    THEN LET signed(line) == LET x == CHOOSE x \in line.amounts : TRUE
                             IN  IF Subtracts(line) THEN -x ELSE x
         IN  Money(q, q.num.net_income
                        + Total([i \in DOMAIN q.num.lines |-> signed(q.num.lines[i])]), 1)
    ELSE Nothing

\* Mutant: the rule does not ask whether more than the output tax is asked for.
vat_output_tax_of_any_stem(q) ==
    IF Says(q, {"output tax"}) /\ Given(q, {"domestic_sales"})
    THEN Money(q, q.num.domestic_sales + Opt(q, "gifts"), 10)
    ELSE Nothing

vat_output_tax(q) ==
    IF /\ Says(q, {"output tax"})
       /\ NoneOf(q, {"tax payable", "deductible", "apportionment", "tax base", "common input tax"})
       /\ Given(q, {"domestic_sales"})
    THEN Money(q, q.num.domestic_sales + Opt(q, "gifts"), 10)
    ELSE Nothing

vat_payable(q) ==
    IF /\ Says(q, {"tax payable"})
       /\ NoneOf(q, {"common input tax", "apportionment", "exempt business"})
       /\ Given(q, {"domestic_sales"})
       /\ NoneOf(q, {"price with tax"})   \* said next to the sales
       /\ DOMAIN q.num \cap {"materials_bought", "supplies_bought"} # {}
    THEN Money(q, 11 * (q.num.domestic_sales - Opt(q, "materials_bought")
                          - Opt(q, "supplies_bought")) - 10 * Opt(q, "bad_debt"), 110)
    ELSE Nothing

vat_common_input(q) ==
    IF /\ AnyOf(q, {"common input tax", "used in common"}) /\ AnyOf(q, {"deduct", "deductible"})
       /\ Given(q, {"taxable_supplies", "exempt_supplies", "common_assets"})
    THEN LET taxable == Total(q.num.taxable_supplies)
             all     == taxable + Total(q.num.exempt_supplies)
         IN  IF all <= 0 THEN Nothing
             ELSE Money(q, Total(q.num.common_assets) * taxable
                             + 10 * all * Opt(q, "other_input_tax"), 10 * all)
    ELSE Nothing

\* Of the items (kind, amount): interest and foreign dividends fill the
\* threshold of 20 million first; domestic dividends above it are grossed up.
financial_income_grossup(q) ==
    IF /\ Says(q, {"financial income"}) /\ AnyOf(q, {"gross-up", "addition"})
       /\ AnyOf(q, {"how much", "compute"}) /\ Given(q, {"income_items"})
       /\ Len(q.num.income_items) >= 2
       /\ \A i \in DOMAIN q.num.income_items :
             q.num.income_items[i].kind \in {"mutual aid", "foreign dividend",
                                             "domestic dividend", "interest"}
    THEN LET of(kinds) == Total([i \in DOMAIN q.num.income_items |->
                 IF q.num.income_items[i].kind \in kinds
                 THEN q.num.income_items[i].amount ELSE 0])
             first    == of({"interest", "foreign dividend"})
             dividend == of({"domestic dividend"})
             rate     == IF Given(q, {"grossup_rate"}) THEN q.num.grossup_rate ELSE 10
             base     == Greatest(0, dividend - Greatest(0, 20 * MILLION - first))
         IN  IF first + dividend <= 0 THEN Nothing
             ELSE Money(q, 100 * (first + dividend) + base * rate, 100)
    ELSE Nothing

acquisition_tax_base(q) ==
    IF /\ Says(q, {"acquisition tax", "assessed tax"}) /\ NoneOf(q, {"in total"})
       /\ ("local education tax" \in q.words => "excluding" \in q.words)
       /\ ("rural tax" \in q.words => "excluding" \in q.words)
       /\ (AnyOf(q, {"heavy rate", "standard value", "deemed", "original acquisition"})
             => "not heavily taxed" \in q.words)
       /\ Given(q, {"acquisition_price", "standard_rate"})
    THEN LET added == IF /\ Says(q, {"not included"})
                         /\ NoneOf(q, {"not in the tax base", "already included"})
                      THEN Opt(q, "brokerage") ELSE 0
         IN  Money(q, (q.num.acquisition_price + added) * q.num.standard_rate, 100)
    ELSE Nothing

acquisition_tax_with_surtaxes(q) ==   \* 4% + (4% - 2%) * 20% + 2% * 10%
    IF /\ Says(q, {"acquisition tax", "in total", "local education tax", "rural tax", "2%"})
       /\ Given(q, {"acquisition_price", "standard_rate"})
       /\ q.num.standard_rate = 4
    THEN Money(q, q.num.acquisition_price * 46, 1000)
    ELSE Nothing

-----------------------------------------------------------------------------
(* Economics.                                                               *)

quantity_theory_inflation(q) ==
    IF /\ AnyOf(q, {"quantity theory", "MV"}) /\ AnyOf(q, {"inflation"})
       /\ ("velocity" \in q.words => "constant" \in q.words)
       /\ Given(q, {"money_growth", "income_growth"})
    THEN Closest(q, "percent", q.num.money_growth - q.num.income_growth, 1)
    ELSE Nothing

uip_return_gap(q) ==   \* rates: in the order in which the stem names the countries
    IF /\ Says(q, {"UIP", "Korea", "US"}) /\ AnyOf(q, {"expected return", "how many points"})
       /\ ("falls" \in q.words => "rises" \in q.words)
       /\ Given(q, {"nominal_rates", "currency_rise"})
    THEN LET korea == IF Says(q, {"Korea first"}) THEN 1 ELSE 2
         IN  Closest(q, "points", q.num.nominal_rates[korea]
                - (q.num.nominal_rates[3 - korea] + q.num.currency_rise), 1)
    ELSE Nothing

-----------------------------------------------------------------------------
(* The solver.                                                              *)

RULES ==
    << "npv", "moving_average_inventory", "effective_interest", "gordon_growth",
       "revaluation_loss", "corporate_tax", "straight_line_depreciation", "bep_sales",
       "cogs", "eps", "manufacturing_cogs", "overhead_application_variance",
       "margin_of_safety_ratio", "dol_profit_change", "special_order",
       "bep_units_and_safety_sales", "perpetuity_pv", "growing_perpetuity_pv",
       "ordinary_annuity_pv", "capm_required_return", "portfolio_expected_return",
       "portfolio_std_dev", "npv_annuity", "irr", "wacc", "put_call_parity",
       "impairment_loss", "transaction_price_allocation", "indirect_cash_flow",
       "treasury_reissue_entry", "treasury_multi_transaction",
       "entertainment_expense_limit", "taxable_income_adjustment", "vat_output_tax",
       "vat_payable", "vat_common_input", "financial_income_grossup",
       "acquisition_tax_base", "acquisition_tax_with_surtaxes",
       "quantity_theory_inflation", "uip_return_gap", "eoq" >>

Rule(r, q) ==
    CASE r = "npv" -> npv(q)
      [] r = "moving_average_inventory" -> moving_average_inventory(q)
      [] r = "effective_interest" -> effective_interest(q)
      [] r = "gordon_growth" -> gordon_growth(q)
      [] r = "revaluation_loss" -> revaluation_loss(q)
      [] r = "corporate_tax" -> corporate_tax(q)
      [] r = "straight_line_depreciation" -> straight_line_depreciation(q)
      [] r = "bep_sales" -> bep_sales(q)
      [] r = "cogs" -> cogs(q)
      [] r = "eps" -> eps(q)
      [] r = "manufacturing_cogs" -> manufacturing_cogs(q)
      [] r = "overhead_application_variance" -> overhead_application_variance(q)
      [] r = "margin_of_safety_ratio" -> margin_of_safety_ratio(q)
      [] r = "dol_profit_change" -> dol_profit_change(q)
      [] r = "special_order" -> special_order(q)
      [] r = "bep_units_and_safety_sales" -> bep_units_and_safety_sales(q)
      [] r = "perpetuity_pv" -> perpetuity_pv(q)
      [] r = "growing_perpetuity_pv" -> growing_perpetuity_pv(q)
      [] r = "ordinary_annuity_pv" -> ordinary_annuity_pv(q)
      [] r = "capm_required_return" -> capm_required_return(q)
      [] r = "portfolio_expected_return" -> portfolio_expected_return(q)
      [] r = "portfolio_std_dev" -> portfolio_std_dev(q)
      [] r = "npv_annuity" -> npv_annuity(q)
      [] r = "irr" -> irr(q)
      [] r = "wacc" -> wacc(q)
      [] r = "put_call_parity" -> put_call_parity(q)
      [] r = "impairment_loss" -> impairment_loss(q)
      [] r = "transaction_price_allocation" -> transaction_price_allocation(q)
      [] r = "indirect_cash_flow" -> indirect_cash_flow(q)
      [] r = "treasury_reissue_entry" -> treasury_reissue_entry(q)
      [] r = "treasury_multi_transaction" -> treasury_multi_transaction(q)
      [] r = "entertainment_expense_limit" -> entertainment_expense_limit(q)
      [] r = "taxable_income_adjustment" -> taxable_income_adjustment(q)
      [] r = "vat_output_tax" -> vat_output_tax(q)
      [] r = "vat_payable" -> vat_payable(q)
      [] r = "vat_common_input" -> vat_common_input(q)
      [] r = "financial_income_grossup" -> financial_income_grossup(q)
      [] r = "acquisition_tax_base" -> acquisition_tax_base(q)
      [] r = "acquisition_tax_with_surtaxes" -> acquisition_tax_with_surtaxes(q)
      [] r = "quantity_theory_inflation" -> quantity_theory_inflation(q)
      [] r = "uip_return_gap" -> uip_return_gap(q)
      [] r = "eoq" -> eoq(q)

\* Mutant: the position is believed, whatever stands there now.
known_solution_by_position(q) ==
    IF q.key.choice \in DOMAIN q.choices THEN q.key.choice ELSE Nothing

known_solution(q) ==   \* the reviewed answer of a question of the bank
    LET n == Len(q.choices)
        c == q.key.choice
        a == q.key.answer
        named == {i \in DOMAIN q.choices : q.choices[i] = a}
    IN  IF c \in 1 .. n /\ q.choices[c] = a THEN c
        ELSE IF named # {} THEN Min(named)
        ELSE IF c \in 1 .. n THEN c
        ELSE Nothing

VARIABLES
    question,  \* the question
    tried,     \* how many rules have been tried
    result     \* [rule, index] when the solver has answered

rvars == <<question, tried, result>>

Pending == [rule |-> "pending", index |-> Nothing]

TryRule ==   \* one iteration of solve_reasoned
    /\ result = Pending
    /\ tried < Len(RULES)
    /\ tried' = tried + 1
    /\ LET i == Rule(RULES[tried + 1], question)
       IN  result' = IF i = Nothing THEN Pending ELSE [rule |-> RULES[tried + 1], index |-> i]
    /\ UNCHANGED question

\* Mutant: the bank is asked before the rules.
FallBackFirst ==
    /\ result = Pending
    /\ LET i == known_solution(question)
       IN  result' = IF i = Nothing THEN Pending ELSE [rule |-> "known_solution_bank", index |-> i]
    /\ tried' = Len(RULES)
    /\ UNCHANGED question

FallBack ==
    /\ result = Pending
    /\ tried = Len(RULES)
    /\ LET i == known_solution(question)
       IN  result' = IF i = Nothing THEN [rule |-> "unsupported", index |-> Nothing]
                     ELSE [rule |-> "known_solution_bank", index |-> i]
    /\ UNCHANGED <<question, tried>>

SolveNext == TryRule \/ FallBack
=============================================================================
