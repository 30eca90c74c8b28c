----------------------------- MODULE CostBooks -----------------------------
(***************************************************************************)
(* The in-memory books: the price of a request (cost.py:32-65, 145-248),   *)
(* CostTracker (cost.py:406-473), UsageBudget (budget.py) and              *)
(* _record_anthropic_cost() (server.py:1398-1429), which writes both.      *)
(* Amounts are in the unit in which every price is a whole number, so the  *)
(* rounding to eight decimals has nothing to round.  A model id is the     *)
(* sequence of its parts: <<"claude", "opus", "4">>.                       *)
(***************************************************************************)
EXTENDS SSEUsage

CONSTANTS
  PriceTable   \* PRICE_TABLE for one provider: model prefixes -> prices per axis

\* A row may leave the prices of the cache axes out (None in the code).
ASSUME CostBooksAssumption ==
  \A p \in DOMAIN PriceTable :
    /\ p \in Seq(STRING)
    /\ DOMAIN PriceTable[p] \subseteq Axes
    /\ \A a \in DOMAIN PriceTable[p] : PriceTable[p][a] \in Nat

VARIABLES
  byModel,        \* CostTracker: model -> [requests, tokens, usd]
  totalUsd, totalRequests, unmatched,
  chars, tokens   \* UsageBudget

trackerVars == <<byModel, totalUsd, totalRequests, unmatched>>
budgetVars == <<chars, tokens>>
bookVars == <<trackerVars, budgetVars>>

BooksInit ==
  /\ byModel = [m \in {} |-> 0]
  /\ totalUsd = 0 /\ totalRequests = 0 /\ unmatched = 0
  /\ chars = 0 /\ tokens = 0

SumOver(axes, f) == FoldFunctionOnSet(+, 0, f, axes)

\* Mutant: the shortest prefix that matches.
LookupAny(m) ==
  LET matching == {p \in DOMAIN PriceTable : IsPrefix(p, m)}
  IN {p \in matching : \A q \in matching : Len(q) >= Len(p)}

\* lookup_price(): the longest prefix of m in the table, if there is one.
LookupPrice(m) ==
  LET matching == {p \in DOMAIN PriceTable : IsPrefix(p, m)}
  IN {p \in matching : \A q \in matching : Len(q) <= Len(p)}

Matched(m) == LookupPrice(m) # {}

\* PriceEntry.total_usd()
TotalUsd(price, usage) ==
  SumOver(DOMAIN price, [a \in DOMAIN price |-> usage[a] * price[a]])

\* estimate(): nothing for a model without a row.
Estimate(m, usage) ==
  IF Matched(m)
    THEN TotalUsd(PriceTable[CHOOSE p \in LookupPrice(m) : TRUE], usage)
    ELSE 0

NoRow == [requests |-> 0, tokens |-> NoUsage, usd |-> 0]

\* CostTracker.record()
Track(m, usage) ==
  LET row   == IF m \in DOMAIN byModel THEN byModel[m] ELSE NoRow
      after == [requests |-> row.requests + 1,
                tokens |-> [a \in Axes |-> row.tokens[a] + usage[a]],
                usd |-> row.usd + Estimate(m, usage)]
  IN /\ byModel' = [n \in DOMAIN byModel \cup {m} |->
                     IF n = m THEN after ELSE byModel[n]]
     /\ totalUsd' = totalUsd + Estimate(m, usage)
     /\ totalRequests' = totalRequests + 1
     /\ unmatched' = unmatched + (IF Matched(m) THEN 0 ELSE 1)

\* Tokens read from the upstream's prompt cache are not counted against it.
BudgetAxes == Axes \ {"cache_read_tokens"}

\* Mutant: cached tokens count.
SpendAll(usage, bytesIn) ==
  /\ chars' = chars + bytesIn
  /\ tokens' = tokens + SumOver(Axes, usage)

\* UsageBudget.record()
Spend(usage, bytesIn) ==
  /\ chars' = chars + bytesIn
  /\ tokens' = tokens + SumOver(BudgetAxes, usage)

\* _record_anthropic_cost()
Charge(m, usage, bytesIn) == Track(m, usage) /\ Spend(usage, bytesIn)

ResetBudget == chars' = 0 /\ tokens' = 0

\* POST /cost/reset
CostReset ==
  /\ byModel' = [m \in {} |-> 0]
  /\ totalUsd' = 0 /\ totalRequests' = 0 /\ unmatched' = 0
  /\ ResetBudget

\* POST /budget/reset
BudgetReset == ResetBudget /\ UNCHANGED trackerVars

-----------------------------------------------------------------------------
SumRows(f(_)) == SumOver(DOMAIN byModel, [m \in DOMAIN byModel |-> f(byModel[m])])

\* The snapshot of GET /cost adds up: the totals are the sums of the rows, the
\* requests without a price are those of the models without one, and each row
\* costs what its tokens cost at its model's price - after any sequence of
\* records and resets.
TotalsAddUp ==
  /\ totalUsd = SumRows(LAMBDA r : r.usd)
  /\ totalRequests = SumRows(LAMBDA r : r.requests)
  /\ unmatched = SumOver({m \in DOMAIN byModel : ~Matched(m)},
                         [m \in DOMAIN byModel |-> byModel[m].requests])
  /\ \A m \in DOMAIN byModel :
       LET rows == {p \in DOMAIN PriceTable : IsPrefix(p, m)}
       IN \E best \in rows \cup {<<"no", "row">>} :
            /\ \A p \in rows : best \in rows /\ Len(p) <= Len(best)
            /\ byModel[m].usd =
                 IF rows = {} THEN 0 ELSE TotalUsd(PriceTable[best], byModel[m].tokens)

\* Tokens in the rows that count against the budget.
TrackedTokens ==
  SumRows(LAMBDA r : r.tokens["input_tokens"] + r.tokens["output_tokens"]
                       + r.tokens["cache_write_tokens"])
=============================================================================
