-------------------------------- MODULE Books --------------------------------
(***************************************************************************)
(* The ledger: portfolios, funds, the portfolio_funds that join them, the  *)
(* transactions of a portfolio_fund and the realized gains of its sells,   *)
(* with the operations of transaction_service.go, portfolio_service.go and *)
(* fund_service.go on them.  Each of these runs in one database            *)
(* transaction and is one action.  Module Dividends adds the dividends,    *)
(* whose operations read before their transaction begins, and module       *)
(* BooksApi the answers the HTTP handlers give.                            *)
(*                                                                         *)
(* The rows of IBKR's inbox that a transaction may settle are modelled in  *)
(* IbkrInbox and the regenerations every operation asks for in             *)
(* MaterializedCache.  A request that fails changes nothing: its error is  *)
(* the value of an operator XxxError, "none" when it succeeds.             *)
(***************************************************************************)
EXTENDS Position, TLC

CONSTANTS
  Portfolios, Funds,
  MaxPfs,            \* bound: rows of portfolio_fund
  MaxTxns,           \* bound: rows of transaction
  MaxDividends,      \* bound: rows of dividend
  LastDay,           \* bound: days are 1..LastDay
  Clients,           \* dividend requests and price updates that may be in flight at once
  Inputs             \* name -> the requests a behaviour may make, and its first rows

ASSUME BoundsAssumption ==
  /\ MaxPfs \in Nat /\ MaxTxns \in Nat /\ MaxDividends \in Nat /\ LastDay \in Nat

VARIABLES
  portfolio,      \* portfolio -> "none", "active" or "archived"
  fund,           \* fund -> its dividend_type, "none" when there is no row
  price,          \* fund_price: fund -> (day -> price)
  pfs,            \* portfolio_fund: row -> [portfolio, fund]
  transaction,    \* transaction: row -> [pf, type, day, shares, price]
  gains,          \* realized_gain_loss
  dividend,       \* dividend: row -> see module Dividends
  request,        \* client -> the dividend request or price update it has in flight
  past,           \* what happened to the rows: see History
  mix             \* the name of the inputs this behaviour uses

vars == <<portfolio, fund, price, pfs, transaction, gains, dividend, request, past, mix>>

Days == 1..LastDay
Idle == [step |-> "idle"]

(***************************************************************************)
(* Rows.  SQLite numbers a new row one above the highest; an id a request  *)
(* still holds is not used again (they are UUIDs).                         *)
(***************************************************************************)
Without(f, S) == [x \in DOMAIN f \ S |-> f[x]]
With(f, x, v) == [y \in DOMAIN f \cup {x} |-> IF y = x THEN v ELSE f[y]]
Over(f, g) == [x \in DOMAIN f \cup DOMAIN g |-> IF x \in DOMAIN f THEN f[x] ELSE g[x]]

InFlight == {c \in Clients : request[c] # Idle}
NextRow(S, bound) ==
  IF \E n \in 1..bound : \A m \in S : m < n
  THEN CHOOSE n \in 1..bound : (\A m \in S : m < n) /\ \A k \in 1..(n - 1) : \E m \in S : m >= k
  ELSE 0

DividendRequests == {c \in InFlight : "row" \in DOMAIN request[c]}
NewPf == NextRow(DOMAIN pfs \cup {request[c].row.pf : c \in DividendRequests}, MaxPfs)
NewTxn == NextRow(DOMAIN transaction \cup {request[c].row.link : c \in DividendRequests}, MaxTxns)

PfsOf(p) == {x \in DOMAIN pfs : pfs[x].portfolio = p}
PfsOfFund(f) == {x \in DOMAIN pfs : pfs[x].fund = f}
Linked(D) == {D[d].link : d \in DOMAIN D} \ {0}

(***************************************************************************)
(* History of the rows, for the properties only.                           *)
(*   revised   portfolio_funds a sell of which was not booked at its place *)
(*             in the calendar, or whose earlier rows changed since        *)
(*   unbooked  rows written as or from a sell by something that keeps no   *)
(*             gains (the CSV import and a dividend's reinvestment), until *)
(*             a user updates them while they are sells                    *)
(*   loose     dividend transactions nobody linked, or that lost their     *)
(*             link to a request that read it too early                    *)
(*   entered   the latest price a user gave for a fund and a day           *)
(*   filled    funds and days a price update reported to have a price for  *)
(***************************************************************************)
Earlier(T, i) == {<<j, T[j]>> : j \in {j \in RowsOf(T, T[i].pf) : Precedes(T, j, i)}}
IsLast(T, i) == \A j \in RowsOf(T, T[i].pf) \ {i} : Precedes(T, j, i)

SellsOf(T) == {i \in DOMAIN T : T[i].type = "sell"}
Untouched(T, T2, i) == i \in DOMAIN T /\ T[i] = T2[i] /\ Earlier(T, i) = Earlier(T2, i)
OutOfPlace(T, T2, booked) ==
  {i \in SellsOf(T2) : IF i \in booked \ past.unbooked THEN ~IsLast(T2, i)
                       ELSE ~Untouched(T, T2, i)}
SellsTouched(T, T2) ==
  {i \in SellsOf(T) \cup SellsOf(T2) :
     i \in DOMAIN T2 /\ (i \in DOMAIN T => T[i] # T2[i])}

Remember(T2, D2, booked, loosened) ==
  past' = [past EXCEPT
           !.revised = (past.revised \cup {T2[i].pf : i \in OutOfPlace(transaction, T2, booked)})
                         \cap DOMAIN pfs',
           !.unbooked = ((past.unbooked \ (booked \cap SellsOf(transaction))) \cup
                           (SellsTouched(transaction, T2) \ booked)) \cap DOMAIN T2,
           !.loose = {i \in past.loose \cup loosened : i \in DOMAIN T2 /\ i \notin Linked(D2)}]

(* A write to the ledger: what changed, and what it means for the history. *)
(* booked: the rows this write computed the gain of, if they are sells.    *)
Stores(T2, D2, booked, loosened) ==
  /\ transaction' = T2
  /\ dividend' = D2
  /\ Remember(T2, D2, booked, loosened)

(***************************************************************************)
(* Transactions.                                                           *)
(***************************************************************************)
TransactionTypes == {"buy", "sell", "dividend", "fee"}

(* Mutant.                                                                 *)
ValidWithoutShares(t) == t.type \in TransactionTypes /\ t.price > 0

(* ValidateCreateTransaction; an update is validated for what it names.    *)
ValidTransaction(t) == t.type \in TransactionTypes /\ t.shares > 0 /\ t.price > 0
ValidChanges(c) ==
  /\ "type" \in DOMAIN c => c.type \in TransactionTypes
  /\ "shares" \in DOMAIN c => c.shares > 0
  /\ "price" \in DOMAIN c => c.price > 0

(* A sell is checked against, and costed at, the position of all the other *)
(* rows of the portfolio_fund, whatever their dates.                       *)
CanSell(T, i) == CurrentPosition(T, T[i].pf, i).shares >= T[i].shares

Gain(T, i) ==
  LET position == CurrentPosition(T, T[i].pf, i)
      t == T[i]
  IN [of |-> i,
      portfolio |-> pfs[t.pf].portfolio,
      fund |-> pfs[t.pf].fund,
      day |-> t.day,
      shares |-> t.shares,
      basis |-> IF position.shares > 0 THEN Scaled(position.cost, t.shares, position.shares)
                ELSE Whole(0),
      proceeds |-> t.shares * t.price]

GainsWithout(i) == {g \in gains : g.of # i}
GainOf(T, i) == IF T[i].type = "sell" THEN {Gain(T, i)} ELSE {}

CreateTransactionError(t) ==
  IF ~ValidTransaction(t) THEN "invalid"
  ELSE IF t.pf \notin DOMAIN pfs THEN "portfolioFundNotFound"
  ELSE IF t.type = "sell" /\ CurrentPosition(transaction, t.pf, 0).shares < t.shares
       THEN "insufficientShares"
  ELSE "none"

CreateTransaction(t) ==
  LET i == NewTxn
      T2 == With(transaction, i, t)
  IN /\ i # 0
     /\ CreateTransactionError(t) = "none"
     /\ gains' = gains \cup GainOf(T2, i)
     /\ UNCHANGED <<portfolio, fund, price, pfs, request, mix>>
     /\ Stores(T2, dividend, {i}, IF t.type = "dividend" THEN {i} ELSE {})

(* applyTransactionUpdates: the fields a request names replace the row's.  *)
Applied(changes, row) ==
  [k \in DOMAIN row |-> IF k \in DOMAIN changes THEN changes[k] ELSE row[k]]

UpdateTransactionError(i, c) ==
  IF ~ValidChanges(c) THEN "invalid"
  ELSE IF i \notin DOMAIN transaction THEN "transactionNotFound"
  ELSE IF "pf" \in DOMAIN c /\ c.pf \notin DOMAIN pfs THEN "portfolioFundNotFound"
  ELSE LET T2 == [transaction EXCEPT ![i] = Applied(c, @)]
       IN IF T2[i].type = "sell" /\ ~CanSell(T2, i) THEN "insufficientShares" ELSE "none"

(* Mutant.                                                                 *)
KeepsTheOldGain(i, c) ==
  /\ UpdateTransactionError(i, c) = "none"
  /\ UNCHANGED <<portfolio, fund, price, pfs, request, mix>>
  /\ LET T2 == [transaction EXCEPT ![i] = Applied(c, @)]
     IN gains' = gains \cup GainOf(T2, i) /\ Stores(T2, dividend, {i}, {})

(* The position is taken before the row is written, without the row.       *)
UpdateTransaction(i, c) ==
  /\ UpdateTransactionError(i, c) = "none"
  /\ UNCHANGED <<portfolio, fund, price, pfs, request, mix>>
  /\ LET T2 == [transaction EXCEPT ![i] = Applied(c, @)]
     IN /\ gains' = GainOf(T2, i) \cup
                    (IF transaction[i].type = "sell" THEN GainsWithout(i) ELSE gains)
        /\ Stores(T2, dividend, {i}, IF T2[i].type = "dividend" THEN {i} ELSE {})

(* The link of a dividend forbids the deletion (ON DELETE RESTRICT).       *)
DeleteTransactionError(i) ==
  IF i \notin DOMAIN transaction THEN "transactionNotFound"
  ELSE IF i \in Linked(dividend) THEN "constraint"
  ELSE "none"

(* A gain goes with its row, by the service for a sell and by the foreign  *)
(* key in any case.                                                        *)
DeleteTransaction(i) ==
  /\ DeleteTransactionError(i) = "none"
  /\ UNCHANGED <<portfolio, fund, price, pfs, request, mix>>
  /\ gains' = GainsWithout(i)
  /\ Stores(Without(transaction, {i}), dividend, {}, {})

(* The CSV import inserts the rows of a file, all or none, as they are: it *)
(* checks no position, writes no gain, and lets a cost be zero.            *)
ValidImportRow(t) == t.type \in TransactionTypes /\ t.shares > 0 /\ t.price >= 0

ImportTransactionsError(pf, rows) ==
  IF pf \notin DOMAIN pfs THEN "portfolioFundNotFound"
  ELSE IF rows = <<>> \/ \E k \in DOMAIN rows : ~ValidImportRow(rows[k]) THEN "invalid"
  ELSE "none"

ImportTransactions(pf, rows) ==
  LET first == NewTxn
      imported == first..(first + Len(rows) - 1)
      T2 == [i \in DOMAIN transaction \cup imported |->
               IF i \in imported THEN Over(rows[i - first + 1], [pf |-> pf]) ELSE transaction[i]]
  IN /\ first # 0 /\ first + Len(rows) - 1 <= MaxTxns
     /\ ImportTransactionsError(pf, rows) = "none"
     /\ UNCHANGED <<portfolio, fund, price, pfs, gains, request, mix>>
     /\ Stores(T2, dividend, {}, {i \in imported : T2[i].type = "dividend"})

(***************************************************************************)
(* Portfolios and funds.                                                   *)
(***************************************************************************)
CreatePortfolio(p) ==
  /\ portfolio[p] = "none"
  /\ portfolio' = [portfolio EXCEPT ![p] = "active"]
  /\ UNCHANGED <<fund, price, pfs, transaction, gains, dividend, request, past, mix>>

PortfolioError(p) == IF portfolio[p] = "none" THEN "portfolioNotFound" ELSE "none"

(* ArchivePortfolio, UnarchivePortfolio and the flag of UpdatePortfolio.   *)
UpdatePortfolio(p, flag) ==
  /\ PortfolioError(p) = "none"
  /\ portfolio' = [portfolio EXCEPT ![p] = flag]
  /\ UNCHANGED <<fund, price, pfs, transaction, gains, dividend, request, past, mix>>

(* Deleting rows of portfolio_fund deletes, one after the other in the     *)
(* order of the rows, their transactions with the gains of those, and      *)
(* their dividends.  It fails at a transaction that a dividend still       *)
(* there links.  The portfolios dropped take their gains along.            *)
CascadeFails(gone) ==
  \E d \in DOMAIN dividend :
     /\ dividend[d].link # 0
     /\ transaction[dividend[d].link].pf \in gone
     /\ ~(dividend[d].pf \in gone /\ dividend[d].pf <= transaction[dividend[d].link].pf)

Cascades(gone, dropped) ==
  LET dead == UNION {RowsOf(transaction, x) : x \in gone}
      unpaid == {d \in DOMAIN dividend : dividend[d].pf \in gone}
      T2 == Without(transaction, dead)
      D2 == Without(dividend, unpaid)
  IN /\ ~CascadeFails(gone)
     /\ pfs' = Without(pfs, gone)
     /\ gains' = {g \in gains : g.of \notin dead /\ g.portfolio \notin dropped}
     /\ Stores(T2, D2, {}, Linked(dividend) \ Linked(D2))

DeletePortfolioError(p) ==
  IF portfolio[p] = "none" THEN "portfolioNotFound"
  ELSE IF CascadeFails(PfsOf(p)) THEN "constraint"
  ELSE "none"

DeletePortfolio(p) ==
  /\ DeletePortfolioError(p) = "none"
  /\ Cascades(PfsOf(p), {p})
  /\ portfolio' = [portfolio EXCEPT ![p] = "none"]
  /\ UNCHANGED <<fund, price, request, mix>>

CreatePortfolioFundError(p, f) ==
  IF portfolio[p] = "none" THEN "portfolioNotFound"
  ELSE IF fund[f] = "none" THEN "fundNotFound"
  ELSE IF PfsOf(p) \cap PfsOfFund(f) # {} THEN "constraint"
  ELSE "none"

CreatePortfolioFund(p, f) ==
  /\ NewPf # 0
  /\ CreatePortfolioFundError(p, f) = "none"
  /\ pfs' = With(pfs, NewPf, [portfolio |-> p, fund |-> f])
  /\ UNCHANGED <<portfolio, fund, price, transaction, gains, dividend, request, past, mix>>

DeletePortfolioFundError(x) ==
  IF x \notin DOMAIN pfs THEN "portfolioFundNotFound"
  ELSE IF CascadeFails({x}) THEN "constraint"
  ELSE "none"

DeletePortfolioFund(x) ==
  /\ DeletePortfolioFundError(x) = "none"
  /\ Cascades({x}, {})
  /\ UNCHANGED <<portfolio, fund, price, request, mix>>

(* A fund of the model is an ISIN: creating it a second time breaks the    *)
(* unique key.                                                             *)
CreateFundError(f) == IF fund[f] # "none" THEN "constraint" ELSE "none"

CreateFund(f, type) ==
  /\ CreateFundError(f) = "none"
  /\ fund' = [fund EXCEPT ![f] = type]
  /\ UNCHANGED <<portfolio, price, pfs, transaction, gains, dividend, request, past, mix>>

UpdateFundError(f) == IF fund[f] = "none" THEN "fundNotFound" ELSE "none"

UpdateFund(f, type) ==
  /\ UpdateFundError(f) = "none"
  /\ fund' = [fund EXCEPT ![f] = type]
  /\ UNCHANGED <<portfolio, price, pfs, transaction, gains, dividend, request, past, mix>>

(* CheckUsage looks at portfolio_fund only; prices, dividends and gains    *)
(* hold the fund by a foreign key as well.                                 *)
DeleteFundError(f) ==
  IF fund[f] = "none" THEN "fundNotFound"
  ELSE IF PfsOfFund(f) # {} THEN "inUse"
  ELSE IF \/ DOMAIN price[f] # {}
          \/ \E d \in DOMAIN dividend : dividend[d].fund = f
          \/ \E g \in gains : g.fund = f
       THEN "constraint"
  ELSE "none"

DeleteFund(f) ==
  /\ DeleteFundError(f) = "none"
  /\ fund' = [fund EXCEPT ![f] = "none"]
  /\ UNCHANGED <<portfolio, price, pfs, transaction, gains, dividend, request, past, mix>>
=============================================================================
