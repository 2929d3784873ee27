------------------------------ MODULE BooksApi ------------------------------
(***************************************************************************)
(* The requests of the HTTP API on portfolios, funds, prices, transactions *)
(* and dividends: what the handlers answer, and the behaviours of the      *)
(* books under them.  XxxAnswer is the status a request gets now; a        *)
(* request changes the tables when its status is below 400.                *)
(***************************************************************************)
EXTENDS Reports, FundPrices

(* told: the errors a handler knows, with the status it answers; it        *)
(* answers 500 to all others.                                              *)
Answer(ok, told, error) ==
  IF error = "none" THEN ok ELSE IF error \in DOMAIN told THEN told[error] ELSE 500

Accepted(status) == status < 400
Told(S, status) == [error \in S |-> status]

(* Mutant.                                                                 *)
OversoldIsUnknown(t) ==
  Answer(201, Told({"invalid", "portfolioFundNotFound"}, 400), CreateTransactionError(t))

CreateTransactionAnswer(t) ==
  Answer(201, Told({"invalid", "insufficientShares", "portfolioFundNotFound"}, 400),
         CreateTransactionError(t))
UpdateTransactionAnswer(i, c) ==
  Answer(200, Over(Told({"invalid", "insufficientShares"}, 400), Told({"transactionNotFound"}, 404)),
         UpdateTransactionError(i, c))
DeleteTransactionAnswer(i) ==
  Answer(204, Told({"transactionNotFound"}, 404), DeleteTransactionError(i))
ImportTransactionsAnswer(pf, rows) ==
  Answer(200, Told({"portfolioFundNotFound"}, 400), ImportTransactionsError(pf, rows))

CreateDividendAnswer(r) == Answer(201, Told({"invalid"}, 400), CreateDividendError(r))
UpdateDividendAnswer(d, c) ==
  Answer(200, Over(Told({"invalid"}, 400), Told({"dividendNotFound"}, 404)), UpdateDividendError(d, c))
DeleteDividendAnswer(d) == Answer(204, Told({"dividendNotFound"}, 404), DeleteDividendError(d))

UpdatePortfolioAnswer(p) == Answer(200, Told({"portfolioNotFound"}, 404), PortfolioError(p))
ArchivePortfolioAnswer(p) == UpdatePortfolioAnswer(p)
UnarchivePortfolioAnswer(p) == UpdatePortfolioAnswer(p)
DeletePortfolioAnswer(p) == Answer(204, Told({"portfolioNotFound"}, 404), DeletePortfolioError(p))
CreatePortfolioFundAnswer(p, f) ==
  Answer(201, Told({"portfolioNotFound", "fundNotFound"}, 404), CreatePortfolioFundError(p, f))
DeletePortfolioFundAnswer(x, confirmed) ==
  IF ~confirmed THEN 409
  ELSE Answer(204, Told({"portfolioFundNotFound"}, 404), DeletePortfolioFundError(x))

(* ValidDividendType, the values the service compares with.                *)
ValidDividendType == {"CASH", "STOCK", "NONE"}
CreateFundAnswer(f, type) ==
  IF type \notin ValidDividendType THEN 400 ELSE Answer(201, <<>>, CreateFundError(f))
UpdateFundAnswer(f, type) ==
  IF type \notin ValidDividendType THEN 400
  ELSE Answer(200, Told({"fundNotFound"}, 404), UpdateFundError(f))
DeleteFundAnswer(f) ==
  Answer(204, Over(Told({"fundNotFound"}, 404), Told({"inUse"}, 409)), DeleteFundError(f))
SetFundPriceAnswer(f, quote) == Answer(200, Told({"invalid"}, 400), SetFundPriceError(f, quote))
ImportFundPricesAnswer(f, rows) ==
  Answer(200, Told({"fundNotFound"}, 400), ImportFundPricesError(f, rows))

(***************************************************************************)
(* Behaviours.                                                             *)
(***************************************************************************)
Asked == Inputs[mix]

(* What a behaviour starts from and is asked for.  The first rows are ones *)
(* the tables can hold, with nothing sold or reinvested yet; the requests  *)
(* are what the handlers decode, with dates of the calendar; a chart may   *)
(* lack prices.                                                            *)
ASSUME InputsAssumption ==
  \A name \in DOMAIN Inputs :
    LET input == Inputs[name]
        ints(c, K) == \A k \in K \cap DOMAIN c : c[k] \in Int
    IN /\ input.fund \in [Funds -> ValidDividendType]
       /\ \A x \in DOMAIN input.pfs :
            /\ x \in 1..MaxPfs /\ input.pfs[x] \in [portfolio : Portfolios, fund : Funds]
            /\ \A y \in DOMAIN input.pfs \ {x} : input.pfs[y] # input.pfs[x]
       /\ \A i \in DOMAIN input.transaction :
            /\ i \in 1..MaxTxns
            /\ input.transaction[i] \in [pf : DOMAIN input.pfs, type : {"buy", "fee"}, day : Days,
                                        shares : Nat \ {0}, price : Nat]
       /\ \A d \in DOMAIN input.dividend :
            /\ d \in 1..MaxDividends
            /\ input.dividend[d] \in
                 [fund : Funds, pf : DOMAIN input.pfs, ex : Days, rate : Nat, owned : Int, total : Int,
                  status : {"PENDING", "COMPLETED"}, bought : Days \cup {0}, link : {0}]
       /\ input.transactions \subseteq
            [pf : Int, type : STRING, day : Days, shares : Int, price : Int]
       /\ \A c \in input.changes :
            /\ "day" \in DOMAIN c => c.day \in Days
            /\ ints(c, {"pf", "shares", "price"})
       /\ input.imports \subseteq Seq([type : STRING, day : Days, shares : Int, price : Int])
       /\ input.dividends \subseteq
            [pf : Int, ex : Days, rate : Int, bought : Days \cup {0}, shares : Int, price : Int]
       /\ \A c \in input.updates :
            /\ DOMAIN c \subseteq {"pf", "ex", "rate", "bought", "shares", "price"}
            /\ "ex" \in DOMAIN c => c.ex \in Days
            /\ "bought" \in DOMAIN c => c.bought \in Days
            /\ ints(c, {"pf", "rate", "shares", "price"})
       /\ input.portfolios \subseteq Portfolios /\ input.funds \subseteq Funds
       /\ input.prices \subseteq [day : Days, price : Int]
       /\ input.priceRows \subseteq Seq([day : Days, price : Int])
       /\ input.charts \subseteq Seq([day : Days] \cup [day : Days, close : Int])

Init ==
  /\ mix \in DOMAIN Inputs
  /\ portfolio = [p \in Portfolios |-> "active"]
  /\ fund = Asked.fund
  /\ price = [f \in Funds |-> <<>>]
  /\ pfs = Asked.pfs
  /\ transaction = Asked.transaction
  /\ gains = {}
  /\ dividend = Asked.dividend
  /\ request = [c \in Clients |-> Idle]
  /\ past = [revised |-> {}, unbooked |-> {}, loose |-> {}, entered |-> {}, filled |-> {}]

TransactionRequest ==
  \/ \E t \in Asked.transactions :
       Accepted(CreateTransactionAnswer(t)) /\ CreateTransaction(t)
  \/ \E i \in DOMAIN transaction, c \in Asked.changes :
       Accepted(UpdateTransactionAnswer(i, c)) /\ UpdateTransaction(i, c)
  \/ \E i \in DOMAIN transaction :
       Asked.deletes /\ Accepted(DeleteTransactionAnswer(i)) /\ DeleteTransaction(i)
  \/ \E rows \in Asked.imports, x \in DOMAIN pfs :
       Accepted(ImportTransactionsAnswer(x, rows)) /\ ImportTransactions(x, rows)

DividendRequest(c) ==
  /\ Cardinality(InFlight) < Asked.inFlight
  /\ \/ \E r \in Asked.dividends : Accepted(CreateDividendAnswer(r)) /\ CreateDividend(c, r)
     \/ \E d \in DOMAIN dividend, u \in Asked.updates :
          Accepted(UpdateDividendAnswer(d, u)) /\ UpdateDividend(c, d, u)
     \/ \E d \in DOMAIN dividend : Accepted(DeleteDividendAnswer(d)) /\ DeleteDividend(c, d)

PortfolioRequest(p) ==
  \/ CreatePortfolio(p)
  \/ Accepted(ArchivePortfolioAnswer(p)) /\ UpdatePortfolio(p, "archived")
  \/ Accepted(UnarchivePortfolioAnswer(p)) /\ UpdatePortfolio(p, "active")
  \/ Accepted(DeletePortfolioAnswer(p)) /\ DeletePortfolio(p)
  \/ \E f \in Funds : Accepted(CreatePortfolioFundAnswer(p, f)) /\ CreatePortfolioFund(p, f)

FundRequest(f) ==
  \/ \E type \in Asked.types :
       \/ Accepted(CreateFundAnswer(f, type)) /\ CreateFund(f, type)
       \/ Accepted(UpdateFundAnswer(f, type)) /\ UpdateFund(f, type)
  \/ Accepted(DeleteFundAnswer(f)) /\ DeleteFund(f)
  \/ \E x \in PfsOfFund(f) : Accepted(DeletePortfolioFundAnswer(x, TRUE)) /\ DeletePortfolioFund(x)
  \/ \E q \in Asked.prices : Accepted(SetFundPriceAnswer(f, q)) /\ SetFundPrice(f, q)
  \/ \E rows \in Asked.priceRows :
       Accepted(ImportFundPricesAnswer(f, rows)) /\ ImportFundPrices(f, rows)

FundPriceRequest(c) ==
  \/ /\ Asked.charts # {} /\ Cardinality(InFlight) < Asked.inFlight
     /\ \/ \E f \in Asked.funds : UpdateCurrentFundPrice(c, f) \/ UpdateHistoricalFundPrice(c, f)
        \/ UpdateAllFundHistory(c)
  \/ \E chart \in Asked.charts : GetIndicatorForDate(c, chart) \/ FilterMissingPrices(c, chart)

Next ==
  \/ TransactionRequest
  \/ \E c \in Clients : DividendRequest(c) \/ DividendStep(c)
  \/ \E c \in Clients : FundPriceRequest(c) \/ FundPriceStep(c)
  \/ \E p \in Asked.portfolios : PortfolioRequest(p)
  \/ \E f \in Asked.funds : FundRequest(f)

Spec == Init /\ [][Next]_vars

(***************************************************************************)
(* Properties.                                                             *)
(***************************************************************************)
Transactions ==
  [pf : 1..MaxPfs, type : TransactionTypes, day : Days, shares : Nat \ {0}, price : Nat]

(* Every table holds rows of its columns' types, of portfolio_funds that   *)
(* exist, and shares are positive, whatever requests bring.                *)
BooksTypeOK ==
  /\ mix \in DOMAIN Inputs
  /\ portfolio \in [Portfolios -> {"none", "active", "archived"}]
  /\ fund \in [Funds -> ValidDividendType \cup {"none"}]
  /\ \A f \in Funds : DOMAIN price[f] \subseteq Days
  /\ \A x \in DOMAIN pfs : /\ x \in 1..MaxPfs
                          /\ portfolio[pfs[x].portfolio] # "none" /\ fund[pfs[x].fund] # "none"
  /\ \A i \in DOMAIN transaction : /\ i \in 1..MaxTxns /\ transaction[i] \in Transactions
                                  /\ transaction[i].pf \in DOMAIN pfs
  /\ \A d \in DOMAIN dividend : /\ d \in 1..MaxDividends
                               /\ dividend[d].pf \in DOMAIN pfs
                               /\ fund[dividend[d].fund] # "none"
                               /\ dividend[d].status \in Statuses
                               /\ dividend[d].link \in DOMAIN transaction \cup {0}
  /\ \A c \in Clients :
       request[c].step \in {"idle", "count", "reread", "write", "check", "fetch", "recheck",
                           "insert", "oldest", "missing", "next"}

(* Every sell has exactly one realized gain, and the gain has its day, its *)
(* shares, its proceeds and its fund; only sells have gains.  Excepted are *)
(* rows written by what keeps no gains (the import, a reinvestment that a  *)
(* user turned into a sell).                                               *)
GainsFollowSells ==
  LET recorded == {g.of : g \in gains}
  IN /\ (SellsOf(transaction) \ past.unbooked) \subseteq recorded
     /\ recorded \subseteq DOMAIN transaction
     /\ (recorded \ past.unbooked) \subseteq SellsOf(transaction)
     /\ \A g \in {g \in gains : g.of \notin past.unbooked} :
          LET t == transaction[g.of]
          IN /\ \A h \in gains : g.of = h.of => g = h
             /\ g.day = t.day /\ g.shares = t.shares /\ g.proceeds = t.shares * t.price
             /\ [portfolio |-> g.portfolio, fund |-> g.fund] = pfs[t.pf]

(* While sells are booked in the order of the calendar, money is neither   *)
(* made nor lost: what a portfolio_fund still costs and the bases of its   *)
(* sells add up to what was paid in and to the fees.                       *)
BooksBalance ==
  \A x \in DOMAIN pfs \ past.revised :
    LET paidIn(t) == CASE t.type \in {"buy", "dividend"} -> Amount(t)
                       [] t.type = "fee" -> Whole(t.price)
                       [] OTHER -> Whole(0)
        basis(i) == IF transaction[i].type # "sell" THEN Whole(0)
                    ELSE (CHOOSE g \in gains : g.of = i).basis
        rows == ByDate(transaction, RowsOf(transaction, x))
        paid[k \in 0..Len(rows)] ==
          IF k = 0 THEN Whole(0) ELSE Plus(paid[k - 1], paidIn(transaction[rows[k]]))
        sold[k \in 0..Len(rows)] ==
          IF k = 0 THEN Whole(0) ELSE Plus(sold[k - 1], basis(rows[k]))
    IN Plus(CurrentPosition(transaction, x, 0).cost, sold[Len(rows)]) = paid[Len(rows)]

(* A reinvestment and its dividend come and go together: a transaction of  *)
(* type dividend is linked by exactly one dividend, unless a user entered  *)
(* it or its link was lost to a request that read the dividend too early;  *)
(* and a partly reinvested dividend has its transaction.                   *)
ReinvestmentsAreLinked ==
  /\ \A i \in DOMAIN transaction :
       transaction[i].type = "dividend" => (i \in past.loose <=> i \notin Linked(dividend))
  /\ \A d \in DOMAIN dividend, e \in DOMAIN dividend :
       dividend[d].link # 0 /\ dividend[d].link = dividend[e].link => d = e
  /\ \A d \in DOMAIN dividend : dividend[d].status = "PARTIAL" => dividend[d].link # 0

(* The three counts of shares agree when every reinvestment in the         *)
(* portfolio_fund belongs to a dividend of it that the overview loads; and *)
(* without reinvestments the two costs agree as well.                      *)
SharesCountedAlike ==
  \A x \in DOMAIN pfs :
    LET p == pfs[x].portfolio
        reinvested == {i \in RowsOf(transaction, x) : transaction[i].type = "dividend"}
        counted == {dividend[d].link : d \in DividendsUpTo(Loaded({p}, LastDay), x, LastDay)}
        overview == FundToday(p, x)
        position == CurrentPosition(transaction, x, 0)
    IN reinvested = counted \cap RowsOf(transaction, x) =>
         /\ overview.shares = position.shares
         /\ SharesOnDate(transaction, x, LastDay) = position.shares
         /\ reinvested = {} => overview.cost = position.cost

(* What the reports may differ over.                                       *)
(*   MovesReinvestments  a reinvestment is in another portfolio_fund than  *)
(*                       its dividend                                      *)
(*   LeavesGains         a gain stayed with a fund the portfolio holds no  *)
(*                       more                                              *)
(*   SellsTooMuch        a portfolio_fund has sold more than it had, and   *)
(*                       may end with no shares and a cost                 *)
(*   PricesAreOld        the latest price of a fund is older than a month  *)
(*   DatesFromBefore     something is dated before the portfolio began     *)
(*   DividendsInterleave one of its funds has a dividend after the day,    *)
(*                       where adding them up may end, another one before  *)
MovesReinvestments(p) ==
  \E d \in DOMAIN dividend : /\ dividend[d].pf \in PfsOf(p) /\ dividend[d].link # 0
                            /\ transaction[dividend[d].link].pf # dividend[d].pf
LeavesGains(p) == \E g \in gains : g.portfolio = p /\ \A x \in PfsOf(p) : pfs[x].fund # g.fund
SellsTooMuch(p, day) ==
  \E x \in PfsOf(p) : LET entry == FundEntry(Loaded({p}, LastDay), x, day)
                      IN entry.shares < 0 \/ (entry.shares = 0 /\ entry.cost.n > 0)
PricesAreOld(p) ==
  \E x \in PfsOf(p) : LET days == {d \in DOMAIN price[pfs[x].fund] : d >= OldestTransaction({p})}
                      IN days # {} /\ \A d \in days : d < LastDay - Month
DatesFromBefore(p) ==
  LET began == OldestTransaction({p})
  IN \/ \E d \in DOMAIN dividend : dividend[d].pf \in PfsOf(p) /\ dividend[d].ex < began
     \/ \E x \in PfsOf(p) : \E d \in DOMAIN price[pfs[x].fund] : d < began
     \/ \E g \in gains : g.portfolio = p /\ g.day < began

DividendsInterleave(p, day) ==
  LET data == Loaded({p}, LastDay)
  IN \E x, y \in PfsOf(p) : x # y /\ LaterDividends(data, x, day) # {} /\ DividendsUpTo(data, y, day) # {}

(* What the cache serves of a portfolio for a day is what is computed when *)
(* it is stale, whatever the order of the funds, but for the dividends     *)
(* when they interleave.                                                   *)
ServedAsComputed(p, day) ==
  ~MovesReinvestments(p) /\ ~LeavesGains(p) /\ ~SellsTooMuch(p, day) =>
    LET served == MaterializedSummary(p, day)
    IN \A computed \in PortfolioSummaries({p}, p, day) :
         \/ computed = served
         \/ DividendsInterleave(p, day) /\ [computed EXCEPT !.dividends = served.dividends] = served

(* The list of its funds adds up to what is computed for today.            *)
ListedAsComputed(p) ==
  (/\ ~MovesReinvestments(p) /\ ~LeavesGains(p) /\ ~SellsTooMuch(p, LastDay)
   /\ ~PricesAreOld(p) /\ ~DatesFromBefore(p)) =>
    PortfolioSummaries({p}, p, LastDay) = {SumOfEntries([x \in PfsOf(p) |-> FundToday(p, x)])}

(* A request for all portfolios may compute for each what one for it alone *)
(* may compute.                                                            *)
ComputedTogether(p, day) ==
  p \in PortfoliosForRequest /\ ~DatesFromBefore(p) =>
    PortfolioSummaries(PortfoliosForRequest, p, day) = PortfolioSummaries({p}, p, day)

(* The ways to report a portfolio agree from its first transaction on,     *)
(* today and on every day of its history.                                  *)
ReportsAgree ==
  \A p \in {p \in Portfolios : portfolio[p] # "none"} : \A day \in {d \in Days : HasStarted(p, d)} :
    /\ ServedAsComputed(p, day)
    /\ day = LastDay => ListedAsComputed(p)
    /\ ComputedTogether(p, day)

(* The dividends of a portfolio up to a day are all dividends of its funds *)
(* up to that day.                                                         *)
DividendsAddUp ==
  \A p \in Portfolios, day \in Days :
    LET data == Loaded({p}, LastDay)
    IN DividendTotals(data, p, day) = {SumFunction([x \in PfsOf(p) |-> DividendAmountForDate(data, x, day)])}

(* A reinvestment in S whose dividend has been moved elsewhere.            *)
Strayed(S) ==
  \E d \in DOMAIN dividend :
    dividend[d].link # 0 /\ transaction[dividend[d].link].pf \in S
      /\ dividend[d].pf # transaction[dividend[d].link].pf

LedgerErrorsAreForeseen ==
  /\ \A t \in Asked.transactions : CreateTransactionAnswer(t) # 500
  /\ \A i \in 1..MaxTxns, c \in Asked.changes :
       UpdateTransactionAnswer(i, c) = 500 => "pf" \in DOMAIN c /\ c.pf \notin DOMAIN pfs
  /\ \A i \in 1..MaxTxns : DeleteTransactionAnswer(i) = 500 => i \in Linked(dividend)
  /\ \A r \in Asked.dividends : CreateDividendAnswer(r) = 500 => r.pf \notin DOMAIN pfs
  /\ \A d \in 1..MaxDividends, u \in Asked.updates :
       UpdateDividendAnswer(d, u) = 500 => "pf" \in DOMAIN u /\ u.pf \notin DOMAIN pfs

CatalogErrorsAreForeseen ==
  /\ \A p \in Portfolios :
       /\ UpdatePortfolioAnswer(p) # 500
       /\ DeletePortfolioAnswer(p) = 500 => Strayed(PfsOf(p))
  /\ \A x \in 1..MaxPfs : DeletePortfolioFundAnswer(x, TRUE) = 500 => Strayed({x})
  /\ \A f \in Funds :
       DeleteFundAnswer(f) = 500 =>
         \/ DOMAIN price[f] # {}
         \/ \E d \in DOMAIN dividend : dividend[d].fund = f /\ pfs[dividend[d].pf].fund # f
         \/ \E g \in gains : g.fund = f /\ g.of \in past.unbooked

(* The API answers 500 to a request only for a reason known here: an       *)
(* import with an invalid row, a portfolio_fund that is not there, a       *)
(* unique key, a reinvestment still linked, a fund with prices, rows moved *)
(* away from their portfolio_fund, and a gain left behind by one.          *)
InternalErrorsAreForeseen == LedgerErrorsAreForeseen /\ CatalogErrorsAreForeseen

(* An update from Yahoo only ever adds prices: what a user entered for a   *)
(* day is what the day has until the user enters another, although the     *)
(* updates look for a price before they ask and insert afterwards; and a   *)
(* price of a day that has not ended was entered by a user.                *)
EnteredPricesStay ==
  /\ \A e \in past.entered : e.day \in DOMAIN price[e.fund] /\ price[e.fund][e.day] = e.price
  /\ \A f \in Funds :
       Today \in DOMAIN price[f] => \E e \in past.entered : e.fund = f /\ e.day = Today

(* When an update of a fund's history succeeds, every day from its oldest  *)
(* transaction to yesterday that Yahoo has a price of has one, whatever    *)
(* users and other updates did while it waited for Yahoo.                  *)
UpdatesFillGaps == \A x \in past.filled : x[2] \in DOMAIN price[x[1]]
=============================================================================
