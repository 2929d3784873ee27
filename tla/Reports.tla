------------------------------- MODULE Reports -------------------------------
(***************************************************************************)
(* What the books say of a portfolio, computed in three ways: the list of  *)
(* its funds (GetPortfolioFunds), the history of its funds that fills the  *)
(* cache (calculateFundsForDate, summed by SQL over the cached rows), and  *)
(* the history of its sums (calculatePortfolioSummaryForDate) that is      *)
(* served when the cache is stale.  All work on what LoadForPortfolios     *)
(* loads: the rows up to the end day, and of dividends, prices and gains   *)
(* only those from the oldest transaction of the requested portfolios on.  *)
(*                                                                         *)
(* Today is LastDay.  Amounts are exact; rounding to cents is left out.    *)
(***************************************************************************)
EXTENDS Dividends, FiniteSetsExt

CONSTANT Month       \* the list of funds looks for a price this many days back

ASSUME MonthAssumption == Month \in Nat

(* SumFunction, for amounts.                                               *)
Total(f) == FoldFunction(Plus, Whole(0), f)

(***************************************************************************)
(* What is loaded for the portfolios ps up to day end.  The ex-date is     *)
(* stored with a time of day and compared as text with the end day, so a   *)
(* dividend of the end day itself is missing.                              *)
(***************************************************************************)
PfsOfAll(ps) == {x \in DOMAIN pfs : pfs[x].portfolio \in ps}

OldestTransaction(ps) ==
  LET days == {transaction[i].day : i \in {i \in DOMAIN transaction : transaction[i].pf \in PfsOfAll(ps)}}
  IN IF days = {} THEN 0 ELSE CHOOSE d \in days : \A e \in days : d <= e

Loaded(ps, end) ==
  LET from == OldestTransaction(ps)
  IN [from |-> from,
      end |-> end,
      dividends |-> {d \in DOMAIN dividend : /\ dividend[d].pf \in PfsOfAll(ps)
                                             /\ from <= dividend[d].ex /\ dividend[d].ex < end},
      prices |-> [f \in Funds |-> {d \in DOMAIN price[f] : from <= d /\ d <= end}],
      gains |-> {g \in gains : g.portfolio \in ps /\ from <= g.day /\ g.day <= end}]

(***************************************************************************)
(* Shares and amounts of dividends up to a day.  The reinvestments are     *)
(* looked up among the rows the caller has at hand; their own dates do not *)
(* matter.                                                                 *)
(***************************************************************************)
DividendsUpTo(data, x, day) ==
  {d \in data.dividends : dividend[d].pf = x /\ dividend[d].ex <= day}

DividendSharesForDate(data, x, rows, day) ==
  SumFunction(
    [d \in {d \in DividendsUpTo(data, x, day) : dividend[d].link \in UpTo(transaction, rows, data.end)} |->
       transaction[dividend[d].link].shares])
DividendAmountForDate(data, x, day) == SumFunction([d \in DividendsUpTo(data, x, day) |-> dividend[d].total])

GainsUpTo(G, day) == {g \in G : g.day <= day}
ProceedsOf(G) == SumFunction([g \in G |-> g.proceeds])
BasisOf(G) == Total([g \in G |-> g.basis])
MapRealizedGainsByPF(data, x) == {g \in data.gains : g.fund = pfs[x].fund}

(* The price of the latest day, of all or of those up to a day.            *)
PriceOn(f, days) == IF days = {} THEN 0 ELSE price[f][CHOOSE d \in days : \A e \in days : e <= d]
PriceForDate(data, f, day) == PriceOn(f, {d \in data.prices[f] : d <= day})
LatestPrice(f) == PriceOn(f, {d \in DOMAIN price[f] : LastDay - Month <= d})

(***************************************************************************)
(* The list of funds, as of today.                                         *)
(***************************************************************************)
FundToday(p, x) ==
  LET data == Loaded({p}, LastDay)
      m == FundMetrics(transaction, x, LastDay,
                       DividendSharesForDate(data, x, RowsOf(transaction, x), LastDay))
      realized == GainsUpTo(MapRealizedGainsByPF(data, x), LastDay)
  IN [shares |-> m.shares, cost |-> m.cost, fees |-> m.fees,
      value |-> m.shares * LatestPrice(pfs[x].fund),
      dividends |-> DividendAmountForDate(data, x, LastDay),
      proceeds |-> ProceedsOf(realized), basis |-> BasisOf(realized)]

(***************************************************************************)
(* The history of the funds.                                               *)
(***************************************************************************)
FundEntry(data, x, day) ==
  LET m == FundMetrics(transaction, x, day,
                       DividendSharesForDate(data, x, RowsOf(transaction, x), day))
      realized == GainsUpTo(MapRealizedGainsByPF(data, x), day)
  IN [shares |-> m.shares, cost |-> m.cost, fees |-> m.fees,
      value |-> m.shares * PriceForDate(data, pfs[x].fund, day),
      dividends |-> DividendAmountForDate(data, x, day),
      proceeds |-> ProceedsOf(realized), basis |-> BasisOf(realized)]

(* Mutant.                                                                 *)
BlankWithoutShares(entry) == entry.shares = 0

(* An entry without any amount is left out; a fund sold off keeps its own. *)
Blank(entry) ==
  entry.shares = 0 /\ entry.fees = 0 /\ entry.dividends = 0 /\ entry.proceeds = 0 /\ entry.basis.n = 0

SumOfEntries(E) ==
  [value |-> SumFunction([x \in DOMAIN E |-> E[x].value]),
   cost |-> Total([x \in DOMAIN E |-> E[x].cost]),
   dividends |-> SumFunction([x \in DOMAIN E |-> E[x].dividends]),
   proceeds |-> SumFunction([x \in DOMAIN E |-> E[x].proceeds]),
   basis |-> Total([x \in DOMAIN E |-> E[x].basis])]

(* The sums over the rows a regeneration puts into the cache for a day.    *)
MaterializedSummary(p, day) ==
  LET data == Loaded({p}, LastDay)
      entry == [x \in PfsOf(p) |-> FundEntry(data, x, day)]
  IN SumOfEntries([x \in {x \in PfsOf(p) : ~Blank(entry[x])} |-> entry[x]])

(***************************************************************************)
(* The history of the sums, for the portfolios of one request.             *)
(***************************************************************************)
NotNegative(v) == IF v < 0 THEN 0 ELSE v

(* All dividends of a portfolio are added up from one list, fund by fund   *)
(* in the order in which Go happens to go through a map, each fund's by    *)
(* their ex-dates, up to the first that is later than the day.  So it ends *)
(* with the first fund that has a later one, which still counts.           *)
LaterDividends(data, x, day) == {d \in data.dividends : dividend[d].pf = x /\ dividend[d].ex > day}

DividendTotals(data, p, day) ==
  LET ended == {x \in PfsOf(p) : LaterDividends(data, x, day) = {}}
      stretches == {S \in SUBSET PfsOf(p) : IF ended = PfsOf(p) THEN S = ended
                                            ELSE \E x \in S : S \ ended = {x}}
  IN {SumFunction([x \in S |-> DividendAmountForDate(data, x, day)]) : S \in stretches}

(* The summary with one of these totals.                                   *)
PortfolioSummary(ps, p, day, total) ==
  LET data == Loaded(ps, LastDay)
      rows == UNION {RowsOf(transaction, x) : x \in PfsOf(p)}
      traded == {x \in PfsOf(p) : UpTo(transaction, RowsOf(transaction, x), LastDay) # {}}
      m == [x \in traded |-> FundMetrics(transaction, x, day, DividendSharesForDate(data, x, rows, day))]
      realized == GainsUpTo({g \in data.gains : g.portfolio = p}, day)
  IN [value |-> NotNegative(SumFunction([x \in traded |-> m[x].shares * PriceForDate(data, pfs[x].fund, day)])),
      cost |-> Total([x \in traded |-> m[x].cost]),
      dividends |-> total,
      proceeds |-> ProceedsOf(realized), basis |-> BasisOf(realized)]

PortfolioSummaries(ps, p, day) ==
  {PortfolioSummary(ps, p, day, total) : total \in DividendTotals(Loaded(ps, LastDay), p, day)}

(* A portfolio is in the history of a day once it has a transaction.       *)
HasStarted(p, day) == \E i \in DOMAIN transaction : transaction[i].pf \in PfsOf(p) /\ transaction[i].day <= day

(* A request without a portfolio is about all that are neither archived    *)
(* nor excluded.                                                           *)
PortfoliosForRequest == {p \in Portfolios : portfolio[p] = "active"}
=============================================================================
