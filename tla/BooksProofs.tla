----------------------------- MODULE BooksProofs -----------------------------
(***************************************************************************)
(* Proofs about the books under the requests of the API: the tables keep   *)
(* their types and references, every sell has its gain, dividends and      *)
(* reinvestments come and go together, and the API answers 500 only for    *)
(* the reasons it is known to.                                             *)
(*                                                                         *)
(* All rest on one invariant, BooksInv.  Its types say what the tables     *)
(* hold and, for each step a request in flight may be at, what its record  *)
(* holds; OwnFund and OwnLink relate what a request read of a dividend to  *)
(* what is in the tables when it writes.  Every step is first shown to be  *)
(* of one of nine kinds (KindsOfSteps), and each part of the invariant to  *)
(* be kept by each kind.                                                   *)
(***************************************************************************)
EXTENDS BooksApi, FiniteSetTheorems, WellFoundedInduction, TLAPS

(***************************************************************************)
(* The invariant.                                                          *)
(***************************************************************************)

DividendFields == {"step", "op", "id", "asked", "type", "plan", "found", "row"}
RowFields == {"fund", "pf", "ex", "rate", "owned", "total", "status", "bought", "link"}
UpdateFields == {"op", "step", "fund", "todo", "from", "missing", "found", "claimed"}

(* A row of dividend, in the table or about to be written. *)
IsRow(row) ==
  /\ DOMAIN row = RowFields
  /\ row.pf \in 1..MaxPfs /\ row.fund \in Funds
  /\ row.link \in 0..MaxTxns /\ row.bought \in Days \cup {0}
  /\ row.ex \in Days /\ row.rate \in Int /\ row.total \in Int
  /\ row.status \in Statuses

(* A dividend request in flight: what it will write fits what it was asked and what it read. *)
IsDividendRequest(r) ==
  /\ DOMAIN r = DividendFields
  /\ r.step \in {"count", "reread", "write"}
  /\ r.op \in {"create", "update", "delete"}
  /\ r.plan \in {"plain", "insert", "rewrite"}
  /\ r.id \in 0..MaxDividends
  /\ IsRow(r.row)
  /\ r.op = "create" => r.id = 0 /\ r.row.link = 0
  /\ r.op = "delete" => r.plan = "plain"
  /\ r.plan # "plain" => /\ r.row.bought # 0
                         /\ r.asked.shares \in Nat \ {0} /\ r.asked.price \in Nat \ {0}
  /\ r.plan = "insert" => r.row.link = 0
  /\ r.plan = "rewrite" => r.row.link # 0 /\ (r.step = "write" => r.found \in TransactionTypes)

ClosedDays == {d \in Days : d < Today}
Positive == Nat \ {0}

(* A price update in flight: it carries prices of days that have ended only, and positive ones to *)
(* the insertion. *)
IsPriceUpdate(r) ==
  /\ DOMAIN r = UpdateFields
  /\ \/ r.op = "latest" /\ r.step \in {"check", "fetch", "recheck", "insert"}
     \/ r.op \in {"history", "all"} /\ r.step \in {"oldest", "missing", "fetch", "insert", "next"}
  /\ r.todo \subseteq Funds
  /\ r.step # "next" => r.fund \in Funds
  /\ r.op # "latest" /\ r.step \in {"missing", "fetch", "insert"} => r.from \in Days
  /\ r.missing \subseteq ClosedDays
  /\ r.step \in {"recheck", "insert"} => DOMAIN r.found \subseteq ClosedDays
  /\ r.step = "recheck" => DOMAIN r.found # {}
  /\ r.step = "recheck" => \A d \in DOMAIN r.found : r.found[d] \in Int
  /\ r.step = "insert" => \A d \in DOMAIN r.found : r.found[d] \in Positive

RequestsOK ==
  /\ DOMAIN request = Clients
  /\ \A c \in Clients :
       request[c] = Idle \/ IsDividendRequest(request[c]) \/ IsPriceUpdate(request[c])

CatalogOK ==
  /\ mix \in DOMAIN Inputs
  /\ portfolio \in [Portfolios -> {"none", "active", "archived"}]
  /\ fund \in [Funds -> ValidDividendType \cup {"none"}]
  /\ \A x \in DOMAIN pfs :
       /\ x \in 1..MaxPfs /\ pfs[x] \in [portfolio : Portfolios, fund : Funds]
       /\ portfolio[pfs[x].portfolio] # "none" /\ fund[pfs[x].fund] # "none"
       /\ \A y \in DOMAIN pfs \ {x} : pfs[y] # pfs[x]

LedgerOK ==
  /\ \A i \in DOMAIN transaction : /\ i \in 1..MaxTxns /\ transaction[i] \in Transactions
                                  /\ transaction[i].pf \in DOMAIN pfs
  /\ \A d \in DOMAIN dividend : /\ d \in 1..MaxDividends /\ IsRow(dividend[d])
                               /\ dividend[d].pf \in DOMAIN pfs
                               /\ fund[dividend[d].fund] # "none"
                               /\ dividend[d].link \in DOMAIN transaction \cup {0}

PricesOK ==
  /\ DOMAIN price = Funds
  /\ \A f \in Funds : DOMAIN price[f] \subseteq Days /\ \A d \in DOMAIN price[f] : price[f][d] \in Positive

HistoryOK ==
  /\ DOMAIN past = {"revised", "unbooked", "loose", "entered", "filled"}
  /\ past.unbooked \subseteq DOMAIN transaction
  /\ past.entered \subseteq [fund : Funds, day : Days, price : Int]

Row(c) == request[c].row

(* The row a request will write names the fund of the portfolio_fund it creates a dividend for, *)
(* and of the dividend it updates, as long as these are there. *)
OwnFund ==
  \A c \in DividendRequests :
    /\ request[c].op = "create" /\ Row(c).pf \in DOMAIN pfs => pfs[Row(c).pf].fund = Row(c).fund
    /\ request[c].op # "create" /\ request[c].id \in DOMAIN dividend =>
         dividend[request[c].id].fund = Row(c).fund

(* A transaction is the reinvestment of one dividend, among those in the table and those read by *)
(* requests in flight. *)
OwnLink ==
  /\ \A d, e \in DOMAIN dividend :
       dividend[d].link # 0 /\ dividend[d].link = dividend[e].link => d = e
  /\ \A c \in DividendRequests, d \in DOMAIN dividend :
       dividend[d].link # 0 /\ dividend[d].link = Row(c).link => d = request[c].id
  /\ \A c, k \in DividendRequests :
       Row(c).link # 0 /\ Row(c).link = Row(k).link => request[c].id = request[k].id

-----------------------------------------------------------------------------
(* Minima, new numbers, and what the requests of a behaviour look like. *)

(* A set of numbers that is not empty has a least one: the induction that is stated with sets. *)
LEMMA LeastNatural ==
  ASSUME NEW S \in SUBSET Nat, S # {}
  PROVE  \E n \in S : \A m \in S : n <= m
<1>1. PICK n \in S : \A m \in S : <<m, n>> \notin OpToRel(<, Nat)
  BY NatLessThanWellFounded, WFMin
<1>2. \A m \in S : ~(m < n)
  BY <1>1 DEF OpToRel
<1> QED
  BY <1>2

(* A nonempty set of places of a sequence has a greatest.                  *)
LEMMA GreatestPlace ==
  ASSUME NEW n \in Nat, NEW S \in SUBSET (1..n), S # {}
  PROVE  \E k \in S : \A m \in S : k >= m
<1> DEFINE Upper == {u \in Nat : \A m \in S : m <= u}
<1>1. n \in Upper
  OBVIOUS
<1>2. PICK u \in Upper : \A v \in Upper : u <= v
  BY <1>1, LeastNatural
<1>3. u \in S
  <2>1. PICK s \in S : TRUE
    OBVIOUS
  <2> SUFFICES ASSUME u \notin S PROVE FALSE
    OBVIOUS
  <2>2. u - 1 \in Nat /\ \A m \in S : m <= u - 1
    BY <2>1, <1>2
  <2> QED
    BY <2>2, <1>2
<1> QED
  BY <1>2, <1>3

(* Min and Max of a set of places are in it.                               *)
LEMMA EndsOfPlaces ==
  ASSUME NEW n \in Nat, NEW S \in SUBSET (1..n), S # {}
  PROVE  Min(S) \in S /\ Max(S) \in S
<1>1. S \in SUBSET Nat
  OBVIOUS
<1>2. \E x \in S : \A y \in S : x <= y
  BY <1>1, LeastNatural
<1>3. \E x \in S : \A y \in S : x >= y
  BY GreatestPlace
<1> QED
  BY <1>2, <1>3 DEF Min, Max

(* A new row's number is above all numbers in use. *)
LEMMA NextRowIsNew ==
  ASSUME NEW S \in SUBSET Int, NEW bound \in Nat
  PROVE  /\ NextRow(S, bound) \in 0..bound
         /\ NextRow(S, bound) # 0 => \A m \in S : m < NextRow(S, bound)
<1> DEFINE Above == {n \in 1..bound : \A m \in S : m < n}
<1>1. CASE Above = {}
  <2>1. NextRow(S, bound) = 0
    BY <1>1, Zenon DEF NextRow
  <2> QED
    BY <2>1
<1>2. CASE Above # {}
  <2>1. PICK n \in Above : \A m \in Above : n <= m
    <3>1. Above \in SUBSET Nat
      OBVIOUS
    <3> HIDE DEF Above
    <3> QED
      BY <1>2, <3>1, LeastNatural
  <2>2. \A k \in 1..(n - 1) : \E m \in S : m >= k
    BY <2>1
  <2>3. NextRow(S, bound) = CHOOSE i \in 1..bound : /\ \A m \in S : m < i
                                                  /\ \A k \in 1..(i - 1) : \E m \in S : m >= k
    BY <1>2 DEF NextRow
  <2>4. NextRow(S, bound) \in 1..bound /\ \A m \in S : m < NextRow(S, bound)
    BY <2>1, <2>2, <2>3
  <2> QED
    BY <2>4
<1> QED
  BY <1>1, <1>2

(* The fields of a decoded request have the types of its Go struct.        *)
LEMMA AskedIsShaped ==
  ASSUME mix \in DOMAIN Inputs
  PROVE  /\ \A t \in Asked.transactions :
              t \in [pf : Int, type : STRING, day : Days, shares : Int, price : Int]
         /\ \A c \in Asked.changes :
              /\ "day" \in DOMAIN c => c.day \in Days
              /\ "shares" \in DOMAIN c => c.shares \in Int
              /\ "price" \in DOMAIN c => c.price \in Int
         /\ \A rows \in Asked.imports :
              rows \in Seq([type : STRING, day : Days, shares : Int, price : Int])
         /\ \A r \in Asked.dividends :
              r \in [pf : Int, ex : Days, rate : Int, bought : Days \cup {0}, shares : Int, price : Int]
         /\ \A c \in Asked.updates :
              /\ DOMAIN c \subseteq {"pf", "ex", "rate", "bought", "shares", "price"}
              /\ "ex" \in DOMAIN c => c.ex \in Days
              /\ "bought" \in DOMAIN c => c.bought \in Days
              /\ "rate" \in DOMAIN c => c.rate \in Int
              /\ "shares" \in DOMAIN c => c.shares \in Int
              /\ "price" \in DOMAIN c => c.price \in Int
         /\ Asked.portfolios \subseteq Portfolios /\ Asked.funds \subseteq Funds
         /\ \A q \in Asked.prices : q \in [day : Days, price : Int]
         /\ \A rows \in Asked.priceRows : rows \in Seq([day : Days, price : Int])
         /\ \A chart \in Asked.charts : chart \in Seq([day : Days] \cup [day : Days, close : Int])
<1>1. PICK input : input = Inputs[mix]
  OBVIOUS
<1> HIDE DEF InputsAssumption
<1> QED
  BY <1>1, InputsAssumption DEF Asked, InputsAssumption
-----------------------------------------------------------------------------
(* Requests. *)

IsRequest(q) == q = Idle \/ IsDividendRequest(q) \/ IsPriceUpdate(q)

(* A well-formed request put in flight leaves the others as they are.      *)
LEMMA RequestsAfter ==
  ASSUME RequestsOK, NEW c \in Clients, NEW q, IsRequest(q), request' = [request EXCEPT ![c] = q]
  PROVE  /\ RequestsOK'
         /\ request'[c] = q
         /\ \A k \in Clients \ {c} : request'[k] = request[k]
<1>1. DOMAIN request = Clients
  BY DEF RequestsOK
<1>2. request'[c] = q /\ DOMAIN request' = Clients /\ \A k \in Clients \ {c} : request'[k] = request[k]
  BY <1>1
<1>3. \A k \in Clients : IsRequest(request[k])
  BY DEF RequestsOK, IsRequest
<1>4. \A k \in Clients : IsRequest(request'[k])
  BY <1>2, <1>3
<1>5. RequestsOK' <=> DOMAIN request' = Clients /\ \A k \in Clients : IsRequest(request'[k])
  BY DEF RequestsOK, IsRequest
<1> QED
  BY <1>2, <1>4, <1>5

(* The step a request is at tells what it is. *)
LEMMA KindsOfRequests ==
  ASSUME RequestsOK, NEW c \in Clients
  PROVE  /\ request[c].step \in {"count", "reread", "write"} => IsDividendRequest(request[c])
         /\ request[c].step \in {"check", "fetch", "recheck", "insert", "oldest", "missing", "next"} =>
              IsPriceUpdate(request[c])
         /\ c \in DividendRequests <=> IsDividendRequest(request[c])
         /\ c \in DividendRequests => request[c].step \in {"count", "reread", "write"}
<1>1. PICK r : r = request[c]
  OBVIOUS
<1>2. r = Idle \/ IsDividendRequest(r) \/ IsPriceUpdate(r)
  BY <1>1 DEF RequestsOK
<1>3. /\ Idle.step = "idle" /\ DOMAIN Idle = {"step"}
  BY DEF Idle
<1>4. c \in DividendRequests <=> r # Idle /\ "row" \in DOMAIN r
  BY <1>1 DEF DividendRequests, InFlight
<1>5. r = Idle => r.step = "idle" /\ "row" \notin DOMAIN r
  BY <1>3
<1>6. IsDividendRequest(r) => /\ r.step \in {"count", "reread", "write"}
                             /\ "row" \in DOMAIN r
                             /\ r # Idle
  BY <1>3 DEF IsDividendRequest, DividendFields
<1>7. IsPriceUpdate(r) => /\ r.step \in {"check", "fetch", "recheck", "insert", "oldest", "missing", "next"}
                         /\ "row" \notin DOMAIN r
  BY DEF IsPriceUpdate, UpdateFields
<1> QED
  BY <1>1, <1>2, <1>4, <1>5, <1>6, <1>7
-----------------------------------------------------------------------------
(* Updates of prices. *)

(* An update of prices begins well-formed.                                 *)
LEMMA NewUpdate ==
  ASSUME NEW op, NEW step, NEW f, NEW todo \in SUBSET Funds,
         \/ op = "latest" /\ step = "check"
         \/ op \in {"history", "all"} /\ step \in {"oldest", "next"},
         step # "next" => f \in Funds
  PROVE  IsPriceUpdate(Update(op, step, f, todo))
  BY DEF IsPriceUpdate, Update, UpdateFields

(* What follows an ended update is none, or its continuation with the next *)
(* fund.                                                                   *)
LEMMA EndedUpdate ==
  ASSUME NEW r, IsPriceUpdate(r)
  PROVE  Ended(r) = Idle \/ IsPriceUpdate(Ended(r))
  BY DEF IsPriceUpdate, Ended, UpdateFields

(* A quote of a closed day can be carried to the insertion.                *)
LEMMA InsertingUpdate ==
  ASSUME NEW r, IsPriceUpdate(r), r.op = "latest", NEW quote, quote.day \in ClosedDays, quote.close \in Int,
         NEW step \in {"recheck", "insert"}
  PROVE  Inserting(r, quote, step) = Idle \/ IsPriceUpdate(Inserting(r, quote, step))
<1>1. CASE step = "insert" /\ quote.close <= 0
  BY <1>1 DEF Inserting
<1>2. CASE ~(step = "insert" /\ quote.close <= 0)
  <2>1. PICK q : q = [r EXCEPT !.step = step, !.found = [d \in {quote.day} |-> quote.close]]
    OBVIOUS
  <2>2. /\ DOMAIN q = UpdateFields /\ q.step = step /\ q.op = "latest" /\ q.todo = r.todo
        /\ q.fund = r.fund /\ q.missing = r.missing /\ DOMAIN q.found = {quote.day}
        /\ q.found[quote.day] = quote.close
    BY <2>1 DEF IsPriceUpdate, UpdateFields
  <2>3. r.todo \subseteq Funds /\ r.fund \in Funds /\ r.missing \subseteq ClosedDays
    BY DEF IsPriceUpdate
  <2>4. IsPriceUpdate(q)
    BY <1>2, <2>2, <2>3 DEF IsPriceUpdate, Positive
  <2> QED
    BY <1>2, <2>1, <2>4 DEF Inserting
<1> QED
  BY <1>1, <1>2

Continued(c) ==
  /\ UNCHANGED <<portfolio, fund, pfs, transaction, gains, dividend, mix>>
  /\ \E q : (q = Idle \/ IsPriceUpdate(q)) /\ request' = [request EXCEPT ![c] = q]

(* The three requests that start an update put one in flight and touch no  *)
(* price.                                                                  *)
LEMMA UpdatesBegin ==
  ASSUME RequestsOK, CatalogOK, NEW c \in Clients, NEW f \in Funds
  PROVE  /\ UpdateCurrentFundPrice(c, f) => Continued(c) /\ UNCHANGED <<price, past>>
         /\ UpdateHistoricalFundPrice(c, f) => Continued(c) /\ UNCHANGED <<price, past>>
         /\ UpdateAllFundHistory(c) => Continued(c) /\ UNCHANGED <<price, past>>
<1>1. ASSUME UpdateCurrentFundPrice(c, f) PROVE Continued(c) /\ UNCHANGED <<price, past>>
  <2>1. IsPriceUpdate(Update("latest", "check", f, {}))
    BY NewUpdate
  <2> QED
    BY <1>1, <2>1 DEF UpdateCurrentFundPrice, GoesOn, ContinuesWith, Continued
<1>2. ASSUME UpdateHistoricalFundPrice(c, f) PROVE Continued(c) /\ UNCHANGED <<price, past>>
  <2>1. IsPriceUpdate(Update("history", "oldest", f, {}))
    BY NewUpdate
  <2> QED
    BY <1>2, <2>1 DEF UpdateHistoricalFundPrice, GoesOn, ContinuesWith, Continued
<1>3. ASSUME UpdateAllFundHistory(c) PROVE Continued(c) /\ UNCHANGED <<price, past>>
  <2>1. IsPriceUpdate(Update("all", "next", "", {g \in Funds : fund[g] # "none"}))
    <3>1. {g \in Funds : fund[g] # "none"} \in SUBSET Funds
      OBVIOUS
    <3> QED
      BY <3>1, NewUpdate
  <2> QED
    BY <1>3, <2>1 DEF UpdateAllFundHistory, GoesOn, ContinuesWith, Continued
<1> QED
  BY <1>1, <1>2, <1>3

(* ParseChart keeps quotes of days that have ended; its first and last are *)
(* such.                                                                   *)
LEMMA ChartDays ==
  ASSUME NEW chart \in Seq([day : Days] \cup [day : Days, close : Int])
  PROVE  /\ ParseChart(chart) \subseteq 1..Len(chart)
         /\ \A k \in ParseChart(chart) : chart[k].day \in ClosedDays /\ chart[k].close \in Int
         /\ \A S \in SUBSET ParseChart(chart) : S # {} => Min(S) \in S /\ Max(S) \in S
<1>1. ParseChart(chart) \subseteq 1..Len(chart)
  BY DEF ParseChart
<1>2. \A k \in 1..Len(chart) : chart[k].day \in Days /\ ("close" \in DOMAIN chart[k] => chart[k].close \in Int)
  <2>1. \A k \in 1..Len(chart) : chart[k] \in [day : Days] \cup [day : Days, close : Int]
    OBVIOUS
  <2> QED
    BY <2>1
<1>3. \A k \in ParseChart(chart) : chart[k].day \in ClosedDays /\ chart[k].close \in Int
  BY <1>1, <1>2 DEF ParseChart, ClosedDays
<1>4. ASSUME NEW S \in SUBSET ParseChart(chart), S # {} PROVE Min(S) \in S /\ Max(S) \in S
  <2>1. S \in SUBSET (1..Len(chart)) /\ Len(chart) \in Nat
    BY <1>1
  <2> QED
    BY <1>4, <2>1, EndsOfPlaces
<1> QED
  BY <1>1, <1>3, <1>4

(* The quotes that fill missing days have a positive price.                *)
LEMMA ClosesArePositive ==
  ASSUME NEW chart \in Seq([day : Days] \cup [day : Days, close : Int]), NEW days,
         NEW d \in DOMAIN Closes(chart, days)
  PROVE  Closes(chart, days)[d] \in Positive
<1>1. PICK priced : priced = {k \in ParseChart(chart) : chart[k].close > 0}
  OBVIOUS
<1>2. PICK S : S = {k \in priced : chart[k].day = d}
  OBVIOUS
<1>3. Closes(chart, days) = [e \in days \cap {chart[k].day : k \in priced} |->
                               chart[Max({k \in priced : chart[k].day = e})].close]
  BY <1>1 DEF Closes
<1>4. d \in days \cap {chart[k].day : k \in priced} /\ Closes(chart, days)[d] = chart[Max(S)].close
  BY <1>2, <1>3
<1>5. S # {} /\ S \in SUBSET ParseChart(chart)
  BY <1>1, <1>2, <1>4
<1>6. Max(S) \in S
  BY <1>5, ChartDays
<1>7. chart[Max(S)].close \in Int /\ chart[Max(S)].close > 0
  BY <1>1, <1>2, <1>5, <1>6, ChartDays
<1> QED
  BY <1>4, <1>7 DEF Positive

(* The checks and the fetch of an update of the latest price touch no      *)
(* price.                                                                  *)
LEMMA LatestSteps ==
  ASSUME RequestsOK, NEW c \in Clients
  PROVE  /\ CheckExistingPrice(c) => Continued(c) /\ UNCHANGED <<price, past>>
         /\ RecheckExistingPrice(c) => Continued(c) /\ UNCHANGED <<price, past>>
         /\ \A chart \in Seq([day : Days] \cup [day : Days, close : Int]) :
              GetIndicatorForDate(c, chart) => Continued(c) /\ UNCHANGED <<price, past>>
<1>1. PICK r : r = request[c]
  OBVIOUS
<1>2. r.step \in {"check", "fetch", "recheck"} => IsPriceUpdate(r)
  BY <1>1, KindsOfRequests
<1>3. ASSUME CheckExistingPrice(c) PROVE Continued(c) /\ UNCHANGED <<price, past>>
  <2>1. IsPriceUpdate(r) /\ r.step = "check"
    BY <1>1, <1>2, <1>3 DEF CheckExistingPrice
  <2>2. PICK q : q = [r EXCEPT !.step = "fetch"]
    OBVIOUS
  <2>3. IsPriceUpdate(q)
    BY <2>1, <2>2 DEF IsPriceUpdate, UpdateFields
  <2> QED
    BY <1>1, <1>3, <2>2, <2>3 DEF CheckExistingPrice, GoesOn, ContinuesWith, Continued
<1>4. ASSUME RecheckExistingPrice(c) PROVE Continued(c) /\ UNCHANGED <<price, past>>
  <2>1. IsPriceUpdate(r) /\ r.step = "recheck"
    BY <1>1, <1>2, <1>4 DEF RecheckExistingPrice
  <2>2. PICK day : day = CHOOSE d \in DOMAIN r.found : TRUE
    OBVIOUS
  <2>3. day \in ClosedDays /\ r.op = "latest" /\ r.found[day] \in Int
    BY <2>1, <2>2 DEF IsPriceUpdate
  <2>4. PICK q : q = Inserting(r, [day |-> day, close |-> r.found[day]], "insert")
    OBVIOUS
  <2>5. q = Idle \/ IsPriceUpdate(q)
    BY <2>1, <2>3, <2>4, InsertingUpdate
  <2> QED
    BY <1>1, <1>4, <2>2, <2>4, <2>5 DEF RecheckExistingPrice, GoesOn, ContinuesWith, Continued
<1>5. ASSUME NEW chart \in Seq([day : Days] \cup [day : Days, close : Int]),
             GetIndicatorForDate(c, chart)
      PROVE  Continued(c) /\ UNCHANGED <<price, past>>
  <2>1. IsPriceUpdate(r) /\ r.op = "latest"
    BY <1>1, <1>2, <1>5 DEF GetIndicatorForDate
  <2>2. PICK Q : Q = ParseChart(chart)
    OBVIOUS
  <2>3. PICK Y : Y = {k \in Q : chart[k].day = Yesterday}
    OBVIOUS
  <2>4. PICK q : q = IF Q = {} THEN Idle
                     ELSE IF Y # {} THEN Inserting(r, chart[Min(Y)], "insert")
                     ELSE Inserting(r, chart[Max(Q)], "recheck")
    OBVIOUS
  <2>5. Y # {} => chart[Min(Y)].day \in ClosedDays /\ chart[Min(Y)].close \in Int
    BY <2>2, <2>3, ChartDays
  <2>6. Q # {} => chart[Max(Q)].day \in ClosedDays /\ chart[Max(Q)].close \in Int
    BY <2>2, ChartDays
  <2>7. q = Idle \/ IsPriceUpdate(q)
    BY <2>1, <2>4, <2>5, <2>6, InsertingUpdate
  <2>8. request' = [request EXCEPT ![c] = q]
    BY <1>1, <1>5, <2>2, <2>3, <2>4 DEF GetIndicatorForDate, GoesOn, ContinuesWith
  <2> QED
    BY <1>5, <2>7, <2>8 DEF GetIndicatorForDate, GoesOn, ContinuesWith, Continued
<1> QED
  BY <1>3, <1>4, <1>5

(* What an update of a history reads first touches no price.               *)
LEMMA HistoryReads ==
  ASSUME RequestsOK, CatalogOK, LedgerOK, NEW c \in Clients
  PROVE  /\ \A f \in Funds : NextFund(c, f) => Continued(c) /\ UNCHANGED <<price, past>>
         /\ AllFundsDone(c) => Continued(c) /\ UNCHANGED <<price, past>>
         /\ ReadOldestTransaction(c) => Continued(c) /\ UNCHANGED <<price, past>>
<1>1. PICK r : r = request[c]
  OBVIOUS
<1>2. r.step \in {"next", "oldest"} => IsPriceUpdate(r)
  BY <1>1, KindsOfRequests
<1>3. ASSUME NEW f \in Funds, NextFund(c, f) PROVE Continued(c) /\ UNCHANGED <<price, past>>
  <2>1. r.todo \ {f} \in SUBSET Funds
    BY <1>1, <1>2, <1>3 DEF NextFund, IsPriceUpdate
  <2>2. PICK step \in {"next", "oldest"} : step = IF fund[f] = "none" THEN "next" ELSE "oldest"
    OBVIOUS
  <2>3. IsPriceUpdate(Update("all", step, f, r.todo \ {f}))
    BY <2>1, NewUpdate
  <2> QED
    BY <1>1, <1>3, <2>2, <2>3 DEF NextFund, GoesOn, ContinuesWith, Continued
<1>4. ASSUME AllFundsDone(c) PROVE Continued(c) /\ UNCHANGED <<price, past>>
  BY <1>4 DEF AllFundsDone, GoesOn, ContinuesWith, Continued
<1>5. ASSUME ReadOldestTransaction(c) PROVE Continued(c) /\ UNCHANGED <<price, past>>
  <2>1. IsPriceUpdate(r) /\ r.step = "oldest"
    BY <1>1, <1>2, <1>5 DEF ReadOldestTransaction
  <2>2. PICK days : days = {transaction[i].day :
                              i \in UNION {RowsOf(transaction, x) : x \in PfsOfFund(r.fund)}}
    OBVIOUS
  <2>3. days \subseteq Days
    BY <2>2 DEF RowsOf, LedgerOK, Transactions
  <2>4. days # {} => Min(days) \in Days
    <3>1. LastDay \in Nat /\ days \in SUBSET (1..LastDay)
      BY <2>3, BoundsAssumption DEF Days
    <3> QED
      BY <2>3, <3>1, EndsOfPlaces
  <2>5. PICK from : from = Min(days)
    OBVIOUS
  <2>6. PICK q : q = IF days = {} THEN Ended(r) ELSE [r EXCEPT !.step = "missing", !.from = from]
    OBVIOUS
  <2>7. q = Idle \/ IsPriceUpdate(q)
    <3>1. CASE days = {}
      BY <2>1, <2>6, <3>1, EndedUpdate
    <3>2. CASE days # {}
      <4>1. q = [r EXCEPT !.step = "missing", !.from = from] /\ from \in Days
        BY <2>4, <2>5, <2>6, <3>2
      <4> QED
        BY <2>1, <4>1 DEF IsPriceUpdate, UpdateFields
    <3> QED
      BY <3>1, <3>2
  <2>8. request' = [request EXCEPT ![c] = q]
    BY <1>1, <1>5, <2>2, <2>5, <2>6 DEF ReadOldestTransaction, GoesOn, ContinuesWith
  <2> QED
    BY <1>5, <2>7, <2>8 DEF ReadOldestTransaction, GoesOn, ContinuesWith, Continued
<1> QED
  BY <1>3, <1>4, <1>5

(* What an update with nothing to insert claims to have filled. *)
Claims(f, days) == Fills(f, days) /\ UNCHANGED price

(* The later steps of an update of a history insert prices or claim filled *)
(* days, or neither.                                                       *)
LEMMA HistoryWaits ==
  ASSUME RequestsOK, NEW c \in Clients
  PROVE  /\ ReadMissingDates(c) =>
              /\ Continued(c)
              /\ \/ UNCHANGED <<price, past>>
                 \/ \E days : Claims(request[c].fund, days)
         /\ \A chart \in Seq([day : Days] \cup [day : Days, close : Int]) :
              FilterMissingPrices(c, chart) =>
                /\ Continued(c)
                /\ \/ UNCHANGED <<price, past>>
                   \/ \E days : Claims(request[c].fund, days)
         /\ YahooFails(c) => Continued(c) /\ UNCHANGED <<price, past>>
         /\ InsertFundPricesFails(c) => Continued(c) /\ UNCHANGED <<price, past>>
         /\ InsertFundPrices(c) => Continued(c)
<1>1. PICK r : r = request[c]
  OBVIOUS
<1>2. r.step \in {"missing", "fetch", "insert"} => IsPriceUpdate(r)
  BY <1>1, KindsOfRequests
<1>3. IsPriceUpdate(r) => Ended(r) = Idle \/ IsPriceUpdate(Ended(r))
  BY EndedUpdate
<1>4. ASSUME ReadMissingDates(c)
      PROVE  /\ Continued(c)
             /\ \/ UNCHANGED <<price, past>>
                \/ \E days : Claims(request[c].fund, days)
  <2>1. IsPriceUpdate(r) /\ r.step = "missing"
    BY <1>1, <1>2, <1>4 DEF ReadMissingDates
  <2>2. PICK missing : missing = BuildMissingDatesMap(r.from, r.fund)
    OBVIOUS
  <2>3. CASE missing = {}
    BY <1>1, <1>3, <1>4, <2>1, <2>2, <2>3 DEF ReadMissingDates, ContinuesWith, Continued, Claims
  <2>4. CASE missing # {}
    <3>1. missing \subseteq ClosedDays
      <4>1. r.from \in Days
        BY <2>1 DEF IsPriceUpdate
      <4> QED
        BY <2>2, <4>1, BoundsAssumption DEF BuildMissingDatesMap, ClosedDays, Days, Today, Yesterday
    <3>2. PICK q : q = [r EXCEPT !.step = "fetch", !.missing = missing]
      OBVIOUS
    <3>3. IsPriceUpdate(q)
      BY <2>1, <3>1, <3>2 DEF IsPriceUpdate, UpdateFields
    <3> QED
      BY <1>1, <1>4, <2>2, <2>4, <3>2, <3>3 DEF ReadMissingDates, GoesOn, ContinuesWith, Continued
  <2> QED
    BY <2>3, <2>4
<1>5. ASSUME NEW chart \in Seq([day : Days] \cup [day : Days, close : Int]),
             FilterMissingPrices(c, chart)
      PROVE  /\ Continued(c)
             /\ \/ UNCHANGED <<price, past>>
                \/ \E days : Claims(request[c].fund, days)
  <2>1. IsPriceUpdate(r) /\ r.step = "fetch" /\ r.op # "latest"
    BY <1>1, <1>2, <1>5 DEF FilterMissingPrices
  <2>2. PICK found : found = Closes(chart, r.missing)
    OBVIOUS
  <2>3. PICK claimed : claimed = ((r.from..Yesterday) \ r.missing) \cup
                                   DOMAIN Closes(chart, r.from..Yesterday)
    OBVIOUS
  <2>4. CASE DOMAIN found = {}
    BY <1>1, <1>3, <1>5, <2>1, <2>2, <2>3, <2>4
    DEF FilterMissingPrices, ContinuesWith, Continued, Claims
  <2>5. CASE DOMAIN found # {}
    <3>1. DOMAIN found \subseteq ClosedDays
      <4>1. r.missing \subseteq ClosedDays
        BY <2>1 DEF IsPriceUpdate
      <4> QED
        BY <2>2, <4>1 DEF Closes
    <3>9. \A d \in DOMAIN found : found[d] \in Positive
      BY <1>5, <2>2, ClosesArePositive
    <3>2. PICK q : q = [r EXCEPT !.step = "insert", !.found = found, !.claimed = claimed]
      OBVIOUS
    <3>3. IsPriceUpdate(q)
      BY <2>1, <3>1, <3>2, <3>9 DEF IsPriceUpdate, UpdateFields
    <3> QED
      BY <1>1, <1>5, <2>2, <2>3, <2>5, <3>2, <3>3
      DEF FilterMissingPrices, GoesOn, ContinuesWith, Continued
  <2> QED
    BY <2>4, <2>5
<1>6. ASSUME YahooFails(c) PROVE Continued(c) /\ UNCHANGED <<price, past>>
  BY <1>1, <1>2, <1>3, <1>6 DEF YahooFails, GivesUp, ContinuesWith, Continued
<1>7. ASSUME InsertFundPricesFails(c) PROVE Continued(c) /\ UNCHANGED <<price, past>>
  BY <1>1, <1>2, <1>3, <1>7 DEF InsertFundPricesFails, GivesUp, ContinuesWith, Continued
<1>8. ASSUME InsertFundPrices(c) PROVE Continued(c)
  BY <1>1, <1>2, <1>3, <1>8 DEF InsertFundPrices, ContinuesWith, Continued
<1> QED
  BY <1>4, <1>5, <1>6, <1>7, <1>8

KeepsHistory ==
  /\ DOMAIN past' = DOMAIN past
  /\ past'.unbooked = past.unbooked /\ past'.loose = past.loose
  /\ past'.revised = past.revised /\ past'.entered = past.entered

(* Every step of an update leaves it well-formed and the history as it has *)
(* to be.                                                                  *)
LEMMA UpdatesContinue ==
  ASSUME RequestsOK, CatalogOK, LedgerOK, HistoryOK, NEW c \in Clients,
         FundPriceRequest(c) \/ FundPriceStep(c)
  PROVE  Continued(c) /\ KeepsHistory
<1>1. mix \in DOMAIN Inputs
  BY DEF CatalogOK
<1>2. UNCHANGED past => KeepsHistory
  BY DEF KeepsHistory
<1>3. ASSUME NEW f, NEW days, Fills(f, days) PROVE KeepsHistory
  BY <1>3 DEF Fills, KeepsHistory, HistoryOK
<1>4. ASSUME FundPriceRequest(c) PROVE Continued(c) /\ KeepsHistory
  <2>1. CASE \E f \in Asked.funds : UpdateCurrentFundPrice(c, f) \/ UpdateHistoricalFundPrice(c, f)
    BY <1>1, <1>2, <2>1, AskedIsShaped, UpdatesBegin
  <2>2. CASE UpdateAllFundHistory(c)
    <3>1. \E f \in Funds : fund[f] # "none"
      BY <2>2 DEF UpdateAllFundHistory
    <3> QED
      BY <1>2, <2>2, <3>1, UpdatesBegin
  <2>3. CASE \E chart \in Asked.charts : GetIndicatorForDate(c, chart) \/ FilterMissingPrices(c, chart)
    BY <1>1, <1>2, <1>3, <2>3, AskedIsShaped, LatestSteps, HistoryWaits DEF Claims
  <2> QED
    BY <1>4, <2>1, <2>2, <2>3 DEF FundPriceRequest
<1>5. ASSUME FundPriceStep(c) PROVE Continued(c) /\ KeepsHistory
  <2>1. CASE CheckExistingPrice(c) \/ RecheckExistingPrice(c)
    BY <1>2, <2>1, LatestSteps
  <2>2. CASE (\E f \in Funds : NextFund(c, f)) \/ AllFundsDone(c) \/ ReadOldestTransaction(c)
    BY <1>2, <2>2, HistoryReads
  <2>3. CASE ReadMissingDates(c) \/ YahooFails(c) \/ InsertFundPricesFails(c)
    BY <1>2, <1>3, <2>3, HistoryWaits DEF Claims
  <2>4. CASE InsertFundPrices(c)
    BY <1>3, <2>4, HistoryWaits DEF InsertFundPrices
  <2> QED
    BY <1>5, <2>1, <2>2, <2>3, <2>4 DEF FundPriceStep
<1> QED
  BY <1>4, <1>5
-----------------------------------------------------------------------------
(* The rows of a portfolio_fund in the order of the calendar.              *)

(* The rows of S before the row i.                                         *)
RowsBefore(T, S, i) == {j \in S : Precedes(T, j, i)}

(* ORDER BY date, insertion gives each row the place after those before it. *)
LEMMA ByDatePlaces ==
  ASSUME NEW T, NEW S \in SUBSET Nat, IsFiniteSet(S), \A i \in S : T[i].day \in Nat
  PROVE  /\ Cardinality(S) \in Nat /\ Len(ByDate(T, S)) = Cardinality(S)
         /\ \A k \in 1..Cardinality(S) :
              ByDate(T, S)[k] \in S /\ Cardinality(RowsBefore(T, S, ByDate(T, S)[k])) = k - 1
         /\ \A i \in S : Cardinality(RowsBefore(T, S, i)) \in Nat /\ Cardinality(RowsBefore(T, S, i)) + 1 \in 1..Cardinality(S)
         /\ \A i, j \in S : /\ i = j \/ Precedes(T, i, j) \/ Precedes(T, j, i)
                            /\ Precedes(T, i, j) =>
                                 Cardinality(RowsBefore(T, S, i)) < Cardinality(RowsBefore(T, S, j))
         /\ \A i, j \in S : Cardinality(RowsBefore(T, S, i)) = Cardinality(RowsBefore(T, S, j)) => i = j
<1> DEFINE Before(i) == {j \in S : Precedes(T, j, i)}
           n == Cardinality(S)
           place == [i \in S |-> Cardinality(Before(i))]
<1>1. n \in Nat
  BY FS_CardinalityType
<1>2. \A i \in S : /\ IsFiniteSet(Before(i)) /\ Cardinality(Before(i)) \in Nat
  <2> SUFFICES ASSUME NEW i \in S PROVE IsFiniteSet(Before(i)) /\ Cardinality(Before(i)) \in Nat
    OBVIOUS
  <2>1. Before(i) \in SUBSET S
    OBVIOUS
  <2> HIDE DEF Before
  <2> QED
    BY <2>1, FS_Subset, FS_CardinalityType
<1>3. ASSUME NEW i \in S, NEW j \in S, Precedes(T, i, j)
      PROVE  Cardinality(Before(i)) < Cardinality(Before(j))
  <2>0. \A m \in S : m \in Nat /\ T[m].day \in Nat
    OBVIOUS
  <2>1. Before(i) \in SUBSET Before(j) /\ i \in Before(j) /\ i \notin Before(i)
    <3>1. \A m \in S : Precedes(T, m, i) => Precedes(T, m, j)
      BY <1>3, <2>0 DEF Precedes
    <3>2. ~Precedes(T, i, i)
      BY <2>0 DEF Precedes
    <3> QED
      BY <1>3, <3>1, <3>2
  <2> HIDE DEF Before
  <2>2. IsFiniteSet(Before(j)) /\ Cardinality(Before(i)) \in Nat /\ Cardinality(Before(j)) \in Nat
    BY <1>2
  <2>3. Cardinality(Before(i)) <= Cardinality(Before(j)) /\ Cardinality(Before(i)) # Cardinality(Before(j))
    BY <2>1, <2>2, FS_Subset
  <2> QED
    BY <2>2, <2>3
<1>4. \A i, j \in S : i = j \/ Precedes(T, i, j) \/ Precedes(T, j, i)
  <2>1. \A m \in S : m \in Nat /\ T[m].day \in Nat
    OBVIOUS
  <2> QED
    BY <2>1 DEF Precedes
<1>5. \A i \in S : Cardinality(Before(i)) < n
  <2> SUFFICES ASSUME NEW i \in S PROVE Cardinality(Before(i)) < n
    OBVIOUS
  <2>1. Before(i) \in SUBSET S /\ i \in S /\ i \notin Before(i)
    BY DEF Precedes
  <2> HIDE DEF Before
  <2>2. Cardinality(Before(i)) <= n /\ Cardinality(Before(i)) # n /\ Cardinality(Before(i)) \in Nat
    BY <1>2, <2>1, FS_Subset
  <2> QED
    BY <1>1, <2>2
<1>6. place \in Injection(S, 0..(n - 1))
  <2>1. \A i \in S : Cardinality(Before(i)) \in 0..(n - 1)
    BY <1>1, <1>2, <1>5
  <2> HIDE DEF Before
  <2>2. place \in [S -> 0..(n - 1)]
    BY <2>1
  <2>3. \A i, j \in S : place[i] = place[j] => i = j
    BY <1>2, <1>3, <1>4
  <2> HIDE DEF place
  <2> QED
    BY <2>2, <2>3 DEF Injection, IsInjective
<1>7. IsFiniteSet(0..(n - 1)) /\ Cardinality(0..(n - 1)) = n
  <2>1. 0 \in Int /\ n - 1 \in Int
    BY <1>1
  <2>2. IsFiniteSet(0..(n - 1)) /\ Cardinality(0..(n - 1)) = IF 0 > n - 1 THEN 0 ELSE (n - 1) - 0 + 1
    BY <2>1, FS_Interval, Zenon
  <2> HIDE DEF n
  <2> QED
    BY <1>1, <2>2
<1>8. place \in Surjection(S, 0..(n - 1))
  <2> HIDE DEF place
  <2> QED
    BY <1>6, <1>7, FS_Injection
<1>9. \A k \in 1..n : \E i \in S : Cardinality(Before(i)) = k - 1
  <2> SUFFICES ASSUME NEW k \in 1..n PROVE \E i \in S : place[i] = k - 1
    OBVIOUS
  <2>1. k - 1 \in 0..(n - 1)
    BY <1>1
  <2> HIDE DEF place
  <2> QED
    BY <1>8, <2>1 DEF Surjection
<1>10. ByDate(T, S) = [k \in 1..n |-> CHOOSE i \in S : Cardinality(Before(i)) = k - 1]
  BY Zenon DEF ByDate
<1>11. \A k \in 1..n : ByDate(T, S)[k] \in S /\ Cardinality(Before(ByDate(T, S)[k])) = k - 1
  <2> HIDE DEF Before
  <2> SUFFICES ASSUME NEW k \in 1..n
               PROVE  ByDate(T, S)[k] \in S /\ Cardinality(Before(ByDate(T, S)[k])) = k - 1
    OBVIOUS
  <2>1. ByDate(T, S)[k] = CHOOSE i \in S : Cardinality(Before(i)) = k - 1
    BY <1>10
  <2> QED
    BY <1>9, <2>1
<1> HIDE DEF Before
<1>12. \A i \in S : \A j \in S : Cardinality(Before(i)) = Cardinality(Before(j)) => i = j
  BY <1>2, <1>3, <1>4
<1>13. \A i \in S : Cardinality(Before(i)) + 1 \in 1..n
  BY <1>1, <1>2, <1>5
<1>14. Len(ByDate(T, S)) = n
  BY <1>1, <1>10
<1> QED
  BY <1>1, <1>2, <1>3, <1>4, <1>11, <1>12, <1>13, <1>14 DEF Before, RowsBefore

(* So it lists every row once.                                             *)
LEMMA ByDateListsRows ==
  ASSUME NEW T, NEW S \in SUBSET Nat, IsFiniteSet(S), \A i \in S : T[i].day \in Nat
  PROVE  /\ Cardinality(S) \in Nat /\ Len(ByDate(T, S)) = Cardinality(S)
         /\ \A k \in 1..Cardinality(S) : ByDate(T, S)[k] \in S
         /\ \A i \in S : \E k \in 1..Cardinality(S) : ByDate(T, S)[k] = i
         /\ \A j, k \in 1..Cardinality(S) : ByDate(T, S)[j] = ByDate(T, S)[k] => j = k
<1> DEFINE L == ByDate(T, S)
           n == Cardinality(S)
<1>1. \A i \in S : \A j \in S : Cardinality(RowsBefore(T, S, i)) = Cardinality(RowsBefore(T, S, j)) => i = j
  BY ByDatePlaces, Zenon
<1>2. /\ n \in Nat /\ Len(L) = n
      /\ \A k \in 1..n : L[k] \in S /\ Cardinality(RowsBefore(T, S, L[k])) = k - 1
      /\ \A i \in S : /\ Cardinality(RowsBefore(T, S, i)) \in Nat
                       /\ Cardinality(RowsBefore(T, S, i)) + 1 \in 1..n
  BY ByDatePlaces, Zenon
<1> HIDE DEF L, n
<1>3. \A i \in S : \E k \in 1..n : L[k] = i
  <2> SUFFICES ASSUME NEW i \in S PROVE \E k \in 1..n : L[k] = i
    OBVIOUS
  <2>1. PICK k \in 1..n : k = Cardinality(RowsBefore(T, S, i)) + 1
    BY <1>2
  <2>2. Cardinality(RowsBefore(T, S, i)) = k - 1
    BY <1>2, <2>1
  <2> QED
    BY <1>1, <1>2, <2>2
<1>4. \A j, k \in 1..n : L[j] = L[k] => j = k
  BY <1>2
<1> QED
  BY <1>2, <1>3, <1>4 DEF L, n

(* The SQL sum after each row.                                             *)
Counts(T, rows, n, g) ==
  g = [k \in 0..n |-> IF k = 0 THEN 0 ELSE g[k - 1] + SharesAdded(T[rows[k]])]

(* There is such a list of sums.                                           *)
LEMMA CountsExist ==
  ASSUME NEW T, NEW rows, NEW n \in Nat
  PROVE  \E g : Counts(T, rows, n, g)
<1> DEFINE Unrolled(g) == [k \in 0..n |-> IF k = 0 THEN 0 ELSE g[k - 1] + SharesAdded(T[rows[k]])]
           Solves(g, m) == \A k \in 0..n : k <= m => g[k] = Unrolled(g)[k]
           Missing == {m \in Nat : ~\E g : Solves(g, m)}
<1>1. \A g : \A k \in 0..n : Unrolled(g)[k] = IF k = 0 THEN 0 ELSE g[k - 1] + SharesAdded(T[rows[k]])
  OBVIOUS
<1>2. ASSUME NEW g, NEW m \in Nat, \A k \in 0..n : k <= m - 1 => g[k] = Unrolled(g)[k]
      PROVE  Solves(Unrolled(g), m)
  <2> SUFFICES ASSUME NEW k \in 0..n, k <= m PROVE Unrolled(g)[k] = Unrolled(Unrolled(g))[k]
    OBVIOUS
  <2> HIDE DEF Unrolled
  <2>1. CASE k = 0
    BY <1>1, <2>1
  <2>2. CASE k # 0
    <3>1. k - 1 \in 0..n /\ k - 1 <= m - 1
      BY <2>2
    <3>2. g[k - 1] = Unrolled(g)[k - 1]
      BY <1>2, <3>1
    <3> QED
      BY <1>1, <2>2, <3>2
  <2> QED
    BY <2>1, <2>2
<1>3. Missing = {}
  <2> HIDE DEF Unrolled
  <2> SUFFICES ASSUME Missing # {} PROVE FALSE
    OBVIOUS
  <2>1. PICK m \in Missing : \A l \in Missing : m <= l
    <3>1. Missing \in SUBSET Nat
      OBVIOUS
    <3> HIDE DEF Missing
    <3> QED
      BY <3>1, LeastNatural
  <2>2. CASE m = 0
    <3>1. \A k \in 0..n : ~(k <= m - 1)
      BY <2>2
    <3>2. Solves(Unrolled(0), m)
      BY <1>2, <3>1
    <3> QED
      BY <2>1, <3>2
  <2>3. CASE m # 0
    <3>1. m - 1 \in Nat /\ m - 1 \notin Missing
      BY <2>1, <2>3
    <3>2. PICK g : Solves(g, m - 1)
      BY <3>1
    <3>3. Solves(Unrolled(g), m)
      BY <1>2, <3>2
    <3> QED
      BY <2>1, <3>3
  <2> QED
    BY <2>2, <2>3
<1>4. PICK g : \A k \in 0..n : g[k] = Unrolled(g)[k]
  <2>1. PICK g : Solves(g, n)
    BY <1>3
  <2> QED
    BY <2>1
<1>5. Unrolled(g) = Unrolled(Unrolled(g))
  <2> HIDE DEF Unrolled
  <2>1. \A k \in 1..n : Unrolled(g)[k - 1] = g[k - 1]
    BY <1>4
  <2>2. \A k \in 0..n : Unrolled(g)[k] = Unrolled(Unrolled(g))[k]
    BY <1>1, <2>1
  <2> QED
    BY <2>2 DEF Unrolled
<1> QED
  BY <1>5 DEF Counts

(* The shares a dividend is paid on are the sum after the last row.        *)
LEMMA SharesOnDateIs ==
  ASSUME NEW T, NEW pf, NEW day
  PROVE  LET rows == ByDate(T, UpTo(T, RowsOf(T, pf), day))
             n == Len(rows)
         IN n \in Nat =>
              \E after : /\ SharesOnDate(T, pf, day) = after[n]
                        /\ after[0] = 0
                        /\ \A k \in 1..n : after[k] = after[k - 1] + SharesAdded(T[rows[k]])
<1> DEFINE rows == ByDate(T, UpTo(T, RowsOf(T, pf), day))
           n == Len(rows)
           after == CHOOSE g : Counts(T, rows, n, g)
<1>1. SharesOnDate(T, pf, day) = after[n]
  BY Zenon DEF SharesOnDate, Counts
<1> SUFFICES ASSUME n \in Nat
             PROVE  /\ after[0] = 0
                    /\ \A k \in 1..n : after[k] = after[k - 1] + SharesAdded(T[rows[k]])
  BY <1>1, Zenon
<1> HIDE DEF rows, n
<1>2. Counts(T, rows, n, after)
  BY CountsExist
<1> HIDE DEF after
<1>3. \A k \in 0..n : after[k] = IF k = 0 THEN 0 ELSE after[k - 1] + SharesAdded(T[rows[k]])
  BY <1>2 DEF Counts
<1>4. \A k \in 1..n : k \in 0..n /\ k # 0
  OBVIOUS
<1> QED
  BY <1>3, <1>4

(* It is a number, whatever portfolio_fund and day are asked for.          *)
LEMMA SharesAreNumbers ==
  ASSUME LedgerOK, NEW pf, NEW day
  PROVE  SharesOnDate(transaction, pf, day) \in Int
<1>1. PICK S : S = UpTo(transaction, RowsOf(transaction, pf), day)
  OBVIOUS
<1>2. S \in SUBSET (1..MaxTxns) /\ S \in SUBSET DOMAIN transaction
  BY <1>1 DEF UpTo, RowsOf, LedgerOK
<1>3. S \in SUBSET Nat /\ IsFiniteSet(S)
  <2>1. IsFiniteSet(1..MaxTxns)
    BY FS_Interval, BoundsAssumption
  <2>2. IsFiniteSet(S)
    BY <1>2, <2>1, FS_Subset
  <2>3. 1..MaxTxns \in SUBSET Nat
    BY BoundsAssumption
  <2> QED
    BY <1>2, <2>2, <2>3
<1>4. \A i \in S : transaction[i] \in Transactions
  BY <1>2 DEF LedgerOK
<1>5. \A i \in S : transaction[i].day \in Nat
  BY <1>4 DEF Transactions, Days
<1>6. PICK L : L = ByDate(transaction, S)
  OBVIOUS
<1>7. PICK n : n = Len(L)
  OBVIOUS
<1>8. n \in Nat /\ \A k \in 1..n : L[k] \in S
  BY <1>3, <1>5, <1>6, <1>7, ByDateListsRows
<1>9. PICK after : /\ SharesOnDate(transaction, pf, day) = after[n]
                   /\ after[0] = 0
                   /\ \A k \in 1..n : after[k] = after[k - 1] + SharesAdded(transaction[L[k]])
  <2> DEFINE all == ByDate(transaction, UpTo(transaction, RowsOf(transaction, pf), day))
  <2>1. all = L
    BY <1>1, <1>6
  <2>2. Len(all) \in Nat
    BY <1>7, <1>8, <2>1
  <2>3. \E after : /\ SharesOnDate(transaction, pf, day) = after[Len(all)]
                   /\ after[0] = 0
                   /\ \A k \in 1..Len(all) : after[k] = after[k - 1] + SharesAdded(transaction[all[k]])
    BY <2>2, SharesOnDateIs
  <2> HIDE DEF all
  <2> QED
    BY <1>7, <2>1, <2>3
<1>10. \A t \in Transactions : SharesAdded(t) \in Int
  BY DEF Transactions, SharesAdded
<1>11. \A k \in 1..n : SharesAdded(transaction[L[k]]) \in Int
  BY <1>4, <1>8, <1>10
<1> DEFINE Wrong == {k \in 0..n : after[k] \notin Int}
<1>12. Wrong = {}
  <2> SUFFICES ASSUME Wrong # {} PROVE FALSE
    OBVIOUS
  <2>1. PICK k \in Wrong : \A m \in Wrong : k <= m
    <3>1. Wrong \in SUBSET Nat
      BY <1>8
    <3> HIDE DEF Wrong
    <3> QED
      BY <3>1, LeastNatural
  <2>2. k # 0
    BY <1>9, <2>1
  <2>3. k \in 1..n /\ k - 1 \in 0..n /\ k - 1 < k
    BY <1>8, <2>1, <2>2
  <2>4. after[k - 1] \in Int
    BY <2>1, <2>3
  <2> QED
    BY <1>9, <1>11, <2>1, <2>3, <2>4
<1> QED
  BY <1>8, <1>9, <1>12

-----------------------------------------------------------------------------
(* Requests about dividends. *)

(* What a request read of its dividend, or of the portfolio_fund of the one to come. *)
ReadFromTables(q) ==
  \/ /\ q.op = "create" /\ q.row.pf \in DOMAIN pfs /\ pfs[q.row.pf].fund = q.row.fund
  \/ /\ q.op # "create" /\ q.id \in DOMAIN dividend
     /\ q.row.fund = dividend[q.id].fund /\ q.row.link = dividend[q.id].link

(* What UpdateDividend plans to do with the reinvestment fits the          *)
(* dividend's row.                                                         *)
LEMMA PlanFits ==
  ASSUME NEW asked, NEW type, NEW row, IsRow(row),
         "bought" \in DOMAIN asked => asked.bought \in Days \cup {0},
         "shares" \in DOMAIN asked => asked.shares \in Int,
         "price" \in DOMAIN asked => asked.price \in Int
  PROVE  /\ Plan(asked, type, row) \in {"plain", "insert", "rewrite"}
         /\ BuyOrderDay(asked, row) \in Days \cup {0}
         /\ Plan(asked, type, row) # "plain" =>
              /\ BuyOrderDay(asked, row) # 0 /\ type = "STOCK"
              /\ asked.shares \in Nat \ {0} /\ asked.price \in Nat \ {0}
         /\ Plan(asked, type, row) = "insert" => row.link = 0
         /\ Plan(asked, type, row) = "rewrite" => row.link # 0
<1>1. BuyOrderDay(asked, row) \in Days \cup {0}
  BY DEF BuyOrderDay, IsRow
<1>2. HasInfo(asked) => asked.shares \in Nat \ {0} /\ asked.price \in Nat \ {0}
  BY DEF HasInfo
<1> QED
  BY <1>1, <1>2 DEF Plan

Asking(c, q) ==
  /\ request' = [request EXCEPT ![c] = q]
  /\ IsDividendRequest(q) /\ ReadFromTables(q)

(* A request that begins with what the service has read is a well-formed   *)
(* one.                                                                    *)
LEMMA AsksIsAsking ==
  ASSUME NEW c \in Clients, NEW op \in {"create", "update", "delete"}, NEW id \in 0..MaxDividends,
         NEW asked, NEW type, NEW row, IsRow(row), Asks(c, op, id, asked, type, row),
         "bought" \in DOMAIN asked => asked.bought \in Days \cup {0},
         "shares" \in DOMAIN asked => asked.shares \in Int,
         "price" \in DOMAIN asked => asked.price \in Int,
         op = "create" => id = 0 /\ row.link = 0 /\ row.pf \in DOMAIN pfs /\ pfs[row.pf].fund = row.fund,
         op # "create" => /\ id \in DOMAIN dividend
                          /\ row.fund = dividend[id].fund /\ row.link = dividend[id].link,
         op = "delete" => type # "STOCK"
  PROVE  \E q : Asking(c, q)
<1>1. PICK row2 : row2 = [row EXCEPT !.bought = BuyOrderDay(asked, row)]
  OBVIOUS
<1>2. /\ IsRow(row2) /\ row2.bought = BuyOrderDay(asked, row) /\ row2.link = row.link
      /\ row2.pf = row.pf /\ row2.fund = row.fund
  BY <1>1, PlanFits DEF IsRow, RowFields
<1>3. PICK q : q = [step |-> IF op = "delete" THEN "write" ELSE "count", op |-> op, id |-> id,
                    asked |-> asked, type |-> type, plan |-> Plan(asked, type, row), found |-> "",
                    row |-> row2]
  OBVIOUS
<1>4. /\ DOMAIN q = DividendFields /\ q.step \in {"count", "write"} /\ q.op = op /\ q.id = id
      /\ (q.step = "write" <=> op = "delete") /\ q.plan = Plan(asked, type, row)
      /\ q.asked = asked /\ q.row = row2
  BY <1>3 DEF DividendFields
<1>5. op = "delete" => q.plan = "plain"
  BY <1>4, PlanFits
<1>6. IsDividendRequest(q)
  BY <1>2, <1>4, <1>5, PlanFits DEF IsDividendRequest
<1>7. ReadFromTables(q)
  BY <1>2, <1>4 DEF ReadFromTables
<1> QED
  BY <1>1, <1>3, <1>6, <1>7 DEF Asks, Asking

(* Creating, updating and deleting a dividend begin by reading, without a  *)
(* write.                                                                  *)
LEMMA DividendRequestsAsk ==
  ASSUME CatalogOK, LedgerOK, NEW c \in Clients, DividendRequest(c)
  PROVE  /\ UNCHANGED <<portfolio, fund, price, pfs, transaction, gains, dividend, past, mix>>
         /\ \E q : Asking(c, q)
<1>1. mix \in DOMAIN Inputs
  BY DEF CatalogOK
<1>2. ASSUME NEW r \in Asked.dividends, CreateDividend(c, r) PROVE \E q : Asking(c, q)
  <2>1. r \in [pf : Int, ex : Days, rate : Int, bought : Days \cup {0}, shares : Int, price : Int]
    BY <1>1, <1>2, AskedIsShaped
  <2>2. r.pf \in DOMAIN pfs
    BY <1>2 DEF CreateDividend, CreateDividendError
  <2>3. PICK row : row = [fund |-> pfs[r.pf].fund, pf |-> r.pf, ex |-> r.ex, rate |-> r.rate, owned |-> 0,
                          total |-> 0, status |-> "PENDING", bought |-> 0, link |-> 0]
    OBVIOUS
  <2>4. IsRow(row)
    BY <2>1, <2>2, <2>3, BoundsAssumption DEF IsRow, RowFields, CatalogOK, Statuses
  <2>5. row.link = 0 /\ row.pf \in DOMAIN pfs /\ pfs[row.pf].fund = row.fund
    BY <2>2, <2>3
  <2>6. /\ "bought" \in DOMAIN r => r.bought \in Days \cup {0}
        /\ "shares" \in DOMAIN r => r.shares \in Int
        /\ "price" \in DOMAIN r => r.price \in Int
    BY <2>1
  <2>7. PICK type : type = ListedType(r.pf)
    OBVIOUS
  <2>8. Asks(c, "create", 0, r, type, row)
    BY <1>2, <2>3, <2>7 DEF CreateDividend
  <2>9. 0 \in 0..MaxDividends
    BY BoundsAssumption
  <2> QED
    BY <2>4, <2>5, <2>6, <2>8, <2>9, AsksIsAsking
<1>3. ASSUME NEW d \in DOMAIN dividend, NEW u \in Asked.updates, UpdateDividend(c, d, u)
      PROVE  \E q : Asking(c, q)
  <2>1. /\ DOMAIN u \subseteq {"pf", "ex", "rate", "bought", "shares", "price"}
        /\ "ex" \in DOMAIN u => u.ex \in Days
        /\ "bought" \in DOMAIN u => u.bought \in Days
        /\ "rate" \in DOMAIN u => u.rate \in Int
        /\ "shares" \in DOMAIN u => u.shares \in Int
        /\ "price" \in DOMAIN u => u.price \in Int
    BY <1>1, <1>3, AskedIsShaped
  <2>2. PICK old : old = dividend[d]
    OBVIOUS
  <2>3. IsRow(old) /\ old.pf \in DOMAIN pfs /\ d \in 1..MaxDividends
    BY <2>2 DEF LedgerOK
  <2>4. PICK row : row = Applied(u, old)
    OBVIOUS
  <2>5. "pf" \in DOMAIN u => u.pf \in DOMAIN pfs
    BY <1>3 DEF UpdateDividend, UpdateDividendError
  <2>6. /\ DOMAIN row = RowFields /\ row.link = old.link /\ row.fund = old.fund
        /\ row.status = old.status
        /\ row.pf \in DOMAIN pfs /\ row.bought \in Days \cup {0}
        /\ row.ex \in Days /\ row.rate \in Int /\ row.total \in Int
    BY <2>1, <2>3, <2>4, <2>5 DEF Applied, IsRow, RowFields
  <2>7. IsRow(row)
    BY <2>3, <2>6 DEF IsRow, CatalogOK
  <2>8. PICK type : type = ListedType(row.pf)
    OBVIOUS
  <2>9. Asks(c, "update", d, u, type, row)
    BY <1>3, <2>2, <2>4, <2>8 DEF UpdateDividend
  <2>10. d \in 0..MaxDividends
    BY <2>3
  <2> QED
    BY <2>1, <2>2, <2>6, <2>7, <2>9, <2>10, AsksIsAsking
<1>4. ASSUME NEW d \in DOMAIN dividend, DeleteDividend(c, d) PROVE \E q : Asking(c, q)
  <2>1. PICK row : row = dividend[d]
    OBVIOUS
  <2>2. IsRow(row) /\ d \in 0..MaxDividends
    BY <2>1 DEF LedgerOK
  <2>3. Asks(c, "delete", d, <<>>, "", row)
    BY <1>4, <2>1 DEF DeleteDividend
  <2>4. DOMAIN << >> = {}
    OBVIOUS
  <2>5. PICK none : none = << >>
    OBVIOUS
  <2>6. DOMAIN none = {} /\ Asks(c, "delete", d, none, "", row)
    BY <2>3, <2>4, <2>5
  <2> QED
    BY <2>1, <2>2, <2>6, AsksIsAsking
<1>5. UNCHANGED <<portfolio, fund, price, pfs, transaction, gains, dividend, past, mix>>
  BY DEF DividendRequest, CreateDividend, UpdateDividend, DeleteDividend, Asks
<1> QED
  BY <1>2, <1>3, <1>4, <1>5 DEF DividendRequest

(* Between its reads and its writes a request keeps what it read. *)
Reading(c, q) ==
  /\ request' = [request EXCEPT ![c] = q]
  /\ IsDividendRequest(q)
  /\ q.op = request[c].op /\ q.id = request[c].id
  /\ q.row.pf = request[c].row.pf /\ q.row.fund = request[c].row.fund
  /\ q.row.link = request[c].row.link

(* The reads between the first and the transaction change only what the    *)
(* request carries.                                                        *)
LEMMA ReadsKeepTheRow ==
  ASSUME RequestsOK, LedgerOK, NEW c \in Clients, CountShares(c) \/ RereadReinvestment(c)
  PROVE  /\ c \in DividendRequests
         /\ UNCHANGED <<portfolio, fund, price, pfs, transaction, gains, dividend, past, mix>>
         /\ \E q : Reading(c, q)
<1>1. PICK r : r = request[c]
  OBVIOUS
<1>2. IsDividendRequest(r) /\ c \in DividendRequests
  BY <1>1, KindsOfRequests DEF CountShares, RereadReinvestment
<1>3. ASSUME CountShares(c) PROVE \E q : Reading(c, q)
  <2>1. PICK owned : owned = SharesOnDate(transaction, r.row.pf, r.row.ex)
    OBVIOUS
  <2>2. PICK row : row = [r.row EXCEPT !.owned = owned, !.total = owned * r.row.rate]
    OBVIOUS
  <2>3. IsRow(row) /\ row.pf = r.row.pf /\ row.fund = r.row.fund /\ row.link = r.row.link
                   /\ row.bought = r.row.bought
    <3>1. owned \in Int /\ r.row.rate \in Int
      BY <1>2, <2>1, SharesAreNumbers DEF IsDividendRequest, IsRow
    <3>2. PICK total \in Int : total = owned * r.row.rate
      BY <3>1
    <3>3. row = [r.row EXCEPT !.owned = owned, !.total = total]
      BY <2>2, <3>2
    <3> QED
      BY <1>2, <3>2, <3>3 DEF IsDividendRequest, IsRow, RowFields
  <2>4. PICK q : q = [r EXCEPT !.step = IF r.plan = "rewrite" THEN "reread" ELSE "write", !.row = row]
    OBVIOUS
  <2>5. /\ DOMAIN q = DividendFields /\ q.row = row /\ q.op = r.op /\ q.id = r.id /\ q.plan = r.plan
        /\ q.asked = r.asked /\ q.step \in {"reread", "write"} /\ (q.plan = "rewrite" => q.step = "reread")
    BY <1>2, <2>4 DEF IsDividendRequest, DividendFields
  <2>6. IsDividendRequest(q)
    BY <1>2, <2>3, <2>5 DEF IsDividendRequest
  <2>7. request' = [request EXCEPT ![c] = q]
    BY <1>1, <1>3, <2>1, <2>2, <2>4 DEF CountShares
  <2> QED
    BY <1>1, <2>3, <2>5, <2>6, <2>7 DEF Reading
<1>4. ASSUME RereadReinvestment(c) PROVE \E q : Reading(c, q)
  <2>1. PICK found : found = transaction[r.row.link].type
    OBVIOUS
  <2>2. found \in TransactionTypes
    BY <1>1, <1>4, <2>1 DEF RereadReinvestment, LedgerOK, Transactions
  <2>3. PICK q : q = [r EXCEPT !.step = "write", !.found = found]
    OBVIOUS
  <2>4. /\ DOMAIN q = DividendFields /\ q.row = r.row /\ q.op = r.op /\ q.id = r.id /\ q.plan = r.plan
        /\ q.asked = r.asked /\ q.step = "write" /\ q.found = found
    BY <1>2, <2>3 DEF IsDividendRequest, DividendFields
  <2>5. IsDividendRequest(q)
    BY <1>2, <2>2, <2>4 DEF IsDividendRequest
  <2>6. request' = [request EXCEPT ![c] = q]
    BY <1>1, <1>4, <2>1, <2>3 DEF RereadReinvestment
  <2> QED
    BY <1>1, <2>4, <2>5, <2>6 DEF Reading
<1> QED
  BY <1>2, <1>3, <1>4 DEF CountShares, RereadReinvestment

(* A new uuid is of no row, nor of one a request in flight still knows of. *)
LEMMA NewNumbers ==
  ASSUME RequestsOK, CatalogOK, LedgerOK
  PROVE  /\ NewPf \in 0..MaxPfs /\ NewTxn \in 0..MaxTxns /\ NewDividend \in 0..MaxDividends
         /\ NewPf # 0 => /\ NewPf \notin DOMAIN pfs
                         /\ \A k \in DividendRequests : request[k].row.pf # NewPf
         /\ NewTxn # 0 => /\ NewTxn \notin DOMAIN transaction
                          /\ \A k \in DividendRequests : request[k].row.link # NewTxn
         /\ NewDividend # 0 => /\ NewDividend \notin DOMAIN dividend
                               /\ \A k \in DividendRequests : request[k].id # NewDividend
         /\ NewTxn # 0 => \A n \in Nat : /\ NewTxn + n \notin DOMAIN transaction
                                          /\ \A k \in DividendRequests : request[k].row.link # NewTxn + n
<1>1. \A k \in DividendRequests : IsDividendRequest(request[k])
  BY KindsOfRequests DEF DividendRequests, InFlight
<1>2. MaxPfs \in Nat /\ MaxTxns \in Nat /\ MaxDividends \in Nat
  BY BoundsAssumption
<1>3. PICK P : P = DOMAIN pfs \cup {request[k].row.pf : k \in DividendRequests}
  OBVIOUS
<1>4. PICK T : T = DOMAIN transaction \cup {request[k].row.link : k \in DividendRequests}
  OBVIOUS
<1>5. PICK D : D = DOMAIN dividend \cup {request[k].id : k \in DividendRequests}
  OBVIOUS
<1>6. P \in SUBSET Int
  BY <1>1, <1>2, <1>3 DEF CatalogOK, IsDividendRequest, IsRow
<1>7. T \in SUBSET Int
  BY <1>1, <1>2, <1>4 DEF LedgerOK, IsDividendRequest, IsRow
<1>8. D \in SUBSET Int
  BY <1>1, <1>2, <1>5 DEF LedgerOK, IsDividendRequest
<1>9. NewPf = NextRow(P, MaxPfs) /\ NewTxn = NextRow(T, MaxTxns) /\ NewDividend = NextRow(D, MaxDividends)
  BY <1>3, <1>4, <1>5 DEF NewPf, NewTxn, NewDividend
<1>10. /\ NewPf \in 0..MaxPfs /\ (NewPf # 0 => \A m \in P : m < NewPf)
       /\ NewTxn \in 0..MaxTxns /\ (NewTxn # 0 => \A m \in T : m < NewTxn)
       /\ NewDividend \in 0..MaxDividends /\ (NewDividend # 0 => \A m \in D : m < NewDividend)
  BY <1>2, <1>6, <1>7, <1>8, <1>9, NextRowIsNew
<1>11. NewTxn # 0 => \A n \in Nat : NewTxn + n \notin T
  BY <1>7, <1>10
<1>12. /\ NewPf # 0 => NewPf \notin P
       /\ NewTxn # 0 => NewTxn \notin T
       /\ NewDividend # 0 => NewDividend \notin D
  BY <1>6, <1>7, <1>8, <1>10
<1>13. \A k \in DividendRequests : /\ request[k].row.pf \in P /\ request[k].row.link \in T
                                  /\ request[k].id \in D
  BY <1>3, <1>4, <1>5
<1>14. DOMAIN pfs \subseteq P /\ DOMAIN transaction \subseteq T /\ DOMAIN dividend \subseteq D
  BY <1>3, <1>4, <1>5
<1> QED
  BY <1>10, <1>11, <1>12, <1>13, <1>14

(* The dividend d as a request writes it with the link. *)
IsWritten(d, r, link) ==
  /\ d \in 1..MaxDividends
  /\ DOMAIN dividend' = DOMAIN dividend \cup {d}
  /\ \A e \in DOMAIN dividend \ {d} : dividend'[e] = dividend[e]
  /\ IsRow(dividend'[d])
  /\ dividend'[d].pf = r.row.pf /\ dividend'[d].fund = r.row.fund
  /\ dividend'[d].link = link /\ dividend'[d].status = Status(r)
  /\ \/ r.op = "update" /\ d = r.id /\ d \in DOMAIN dividend
     \/ r.op = "create" /\ d \notin DOMAIN dividend /\ \A k \in DividendRequests : request[k].id # d

(* The row a request writes belongs to the table dividend.                 *)
LEMMA RowsAreWritten ==
  ASSUME RequestsOK, CatalogOK, LedgerOK, NEW r, IsDividendRequest(r), CanWrite(r),
         r.op \in {"create", "update"}, r.op = "create" => NewDividend # 0,
         NEW link \in 0..MaxTxns, dividend' = RowWritten(r, link)
  PROVE  \E d : IsWritten(d, r, link)
<1>1. PICK row : row = [r.row EXCEPT !.status = Status(r), !.link = link]
  OBVIOUS
<1>2. Status(r) \in Statuses
  BY DEF Status, StatusWithOrder, Statuses
<1>3. /\ DOMAIN row = RowFields /\ row.pf = r.row.pf /\ row.fund = r.row.fund /\ row.link = link
      /\ row.bought = r.row.bought /\ row.status = Status(r)
      /\ row.ex = r.row.ex /\ row.rate = r.row.rate /\ row.total = r.row.total
  BY <1>1 DEF IsDividendRequest, IsRow, RowFields
<1>4. IsRow(row)
  BY <1>2, <1>3 DEF IsDividendRequest, IsRow
<1>5. CASE r.op = "create"
  <2>1. PICK d : d = NewDividend
    OBVIOUS
  <2>2. /\ d \in 1..MaxDividends /\ d \notin DOMAIN dividend
        /\ \A k \in DividendRequests : request[k].id # d
    BY <1>5, <2>1, NewNumbers, BoundsAssumption
  <2>3. dividend' = With(dividend, d, row)
    BY <1>1, <1>5, <2>1 DEF RowWritten
  <2>4. /\ DOMAIN dividend' = DOMAIN dividend \cup {d} /\ dividend'[d] = row
        /\ \A e \in DOMAIN dividend \ {d} : dividend'[e] = dividend[e]
    BY <2>3 DEF With
  <2> QED
    BY <1>3, <1>4, <1>5, <2>2, <2>4 DEF IsWritten
<1>6. CASE r.op = "update"
  <2>1. PICK d : d = r.id
    OBVIOUS
  <2>2. d \in DOMAIN dividend /\ d \in 1..MaxDividends
    BY <1>6, <2>1 DEF CanWrite, LedgerOK
  <2>3. dividend' = [dividend EXCEPT ![d] = row]
    BY <1>1, <1>6, <2>1 DEF RowWritten
  <2>4. /\ DOMAIN dividend' = DOMAIN dividend \cup {d} /\ dividend'[d] = row
        /\ \A e \in DOMAIN dividend \ {d} : dividend'[e] = dividend[e]
    BY <2>2, <2>3
  <2> QED
    BY <1>3, <1>4, <1>6, <2>1, <2>2, <2>4 DEF IsWritten
<1> QED
  BY <1>5, <1>6

(* What the three writing steps do to the transaction that the dividend is linked to. *)
LinksTo(r, link) ==
  /\ link \in 0..MaxTxns
  /\ DOMAIN transaction' = DOMAIN transaction \cup ({link} \ {0})
  /\ \A i \in DOMAIN transaction \ {link} : transaction'[i] = transaction[i]
  /\ link # 0 => transaction'[link] \in Transactions /\ transaction'[link].pf \in DOMAIN pfs
  /\ \/ link = r.row.link
     \/ /\ r.row.link = 0 /\ link # 0 /\ link \notin DOMAIN transaction
        /\ \A k \in DividendRequests : request[k].row.link # link
  /\ Status(r) = "PARTIAL" => link # 0

WritesRow(c, d, link) ==
  /\ IsDividendRequest(request[c]) /\ request[c].op \in {"create", "update"}
  /\ request[c].row.pf \in DOMAIN pfs
  /\ request' = [request EXCEPT ![c] = Idle]
  /\ UNCHANGED <<portfolio, fund, price, pfs, gains, mix>>
  /\ IsWritten(d, request[c], link) /\ LinksTo(request[c], link)
  /\ Remember(transaction', dividend', {}, LostLink(request[c]))

(* The row made for a reinvestment belongs to the table transaction.       *)
LEMMA ReinvestmentIsTransaction ==
  ASSUME NEW r, IsDividendRequest(r), r.plan # "plain", NEW type \in TransactionTypes, CatalogOK,
         r.row.pf \in DOMAIN pfs
  PROVE  Reinvestment(r, type) \in Transactions /\ Reinvestment(r, type).pf \in DOMAIN pfs
<1>1. /\ r.row.pf \in 1..MaxPfs /\ r.row.bought \in Days /\ r.asked.shares \in Nat \ {0}
      /\ r.asked.price \in Nat
  BY DEF IsDividendRequest, IsRow
<1> QED
  BY <1>1 DEF Reinvestment, Transactions

(* The three writes of a dividend are of one kind: one row of it, and at   *)
(* most one transaction.                                                   *)
LEMMA WritesWriteRows ==
  ASSUME RequestsOK, CatalogOK, LedgerOK, NEW c \in Clients,
         WriteDividend(c) \/ WriteReinvestment(c) \/ RewriteReinvestment(c)
  PROVE  \E d, link : WritesRow(c, d, link)
<1>1. PICK r : r = request[c]
  OBVIOUS
<1>2. Writes(c)
  BY DEF WriteDividend, WriteReinvestment, RewriteReinvestment
<1>3. IsDividendRequest(r) /\ CanWrite(r)
  BY <1>1, <1>2, KindsOfRequests DEF Writes
<1>4. request' = [request EXCEPT ![c] = Idle] /\ UNCHANGED <<portfolio, fund, price, pfs, mix>>
  BY <1>2 DEF Writes
<1>5. r.op # "delete" => r.row.pf \in DOMAIN pfs
  BY <1>3 DEF CanWrite
<1>6. r.row.link \in 0..MaxTxns /\ (r.row.link # 0 => r.row.link \in DOMAIN transaction)
  BY <1>3 DEF CanWrite, IsDividendRequest, IsRow
<1>7. r.plan = "plain" => Status(r) # "PARTIAL"
  BY DEF Status, StatusWithOrder
<1>8. 0 \notin DOMAIN transaction
  BY DEF LedgerOK
<1>9. CASE WriteDividend(c)
  <2>1. /\ r.op \in {"create", "update"} /\ r.plan = "plain" /\ (r.op = "create" => NewDividend # 0)
        /\ gains' = gains /\ transaction' = transaction /\ dividend' = RowWritten(r, r.row.link)
        /\ Remember(transaction, RowWritten(r, r.row.link), {}, LostLink(r))
    BY <1>1, <1>9 DEF WriteDividend, Stores
  <2>2. PICK link : link = r.row.link
    OBVIOUS
  <2>3. PICK d : IsWritten(d, r, link)
    BY <1>3, <1>6, <2>1, <2>2, RowsAreWritten
  <2>4. LinksTo(r, link)
    BY <1>6, <1>7, <1>8, <2>1, <2>2 DEF LinksTo, LedgerOK
  <2>5. Remember(transaction', dividend', {}, LostLink(r))
    BY <2>1
  <2> QED
    BY <1>1, <1>3, <1>4, <1>5, <2>1, <2>3, <2>4, <2>5 DEF WritesRow
<1>10. CASE WriteReinvestment(c)
  <2>1. PICK i : i = NewTxn
    OBVIOUS
  <2>2. /\ r.plan = "insert" /\ i # 0 /\ (r.op = "create" => NewDividend # 0) /\ gains' = gains
        /\ transaction' = With(transaction, i, Reinvestment(r, "dividend"))
        /\ dividend' = RowWritten(r, i)
        /\ Remember(With(transaction, i, Reinvestment(r, "dividend")), RowWritten(r, i), {}, LostLink(r))
    BY <1>1, <1>10, <2>1 DEF WriteReinvestment, Stores
  <2>3. r.op \in {"create", "update"} /\ r.row.link = 0
    BY <1>3, <2>2 DEF IsDividendRequest
  <2>4. /\ i \in 1..MaxTxns /\ i \notin DOMAIN transaction
        /\ \A k \in DividendRequests : request[k].row.link # i
    BY <2>1, <2>2, NewNumbers, BoundsAssumption
  <2>5. PICK t : t = Reinvestment(r, "dividend")
    OBVIOUS
  <2>6. t \in Transactions /\ t.pf \in DOMAIN pfs
    BY <1>3, <1>5, <2>2, <2>3, <2>5, ReinvestmentIsTransaction DEF TransactionTypes
  <2>7. /\ DOMAIN transaction' = DOMAIN transaction \cup {i} /\ transaction'[i] = t
        /\ \A j \in DOMAIN transaction \ {i} : transaction'[j] = transaction[j]
    BY <2>2, <2>5 DEF With
  <2>8. PICK d : IsWritten(d, r, i)
    BY <1>3, <2>2, <2>3, <2>4, RowsAreWritten
  <2>9. LinksTo(r, i)
    BY <2>2, <2>3, <2>4, <2>6, <2>7 DEF LinksTo
  <2>10. Remember(transaction', dividend', {}, LostLink(r))
    BY <2>2
  <2> QED
    BY <1>1, <1>3, <1>4, <1>5, <2>2, <2>3, <2>8, <2>9, <2>10 DEF WritesRow
<1>11. CASE RewriteReinvestment(c)
  <2>1. PICK link : link = r.row.link
    OBVIOUS
  <2>2. PICK t : t = Reinvestment(r, r.found)
    OBVIOUS
  <2>3. /\ r.plan = "rewrite" /\ gains' = gains
        /\ transaction' = [transaction EXCEPT ![link] = t]
        /\ dividend' = RowWritten(r, link)
        /\ Remember([transaction EXCEPT ![link] = t], RowWritten(r, link), {}, LostLink(r))
    BY <1>1, <1>11, <2>1, <2>2 DEF RewriteReinvestment, Stores
  <2>4. r.op \in {"update"} /\ link # 0 /\ link \in DOMAIN transaction /\ r.found \in TransactionTypes
    BY <1>1, <1>2, <1>3, <1>6, <2>1, <2>3 DEF IsDividendRequest, Writes
  <2>5. t \in Transactions /\ t.pf \in DOMAIN pfs
    BY <1>3, <1>5, <2>2, <2>3, <2>4, ReinvestmentIsTransaction
  <2>6. /\ DOMAIN transaction' = DOMAIN transaction \cup {link} /\ transaction'[link] = t
        /\ \A j \in DOMAIN transaction \ {link} : transaction'[j] = transaction[j]
    BY <2>3, <2>4
  <2>7. PICK d : IsWritten(d, r, link)
    BY <1>3, <1>6, <2>1, <2>3, <2>4, RowsAreWritten
  <2>8. LinksTo(r, link)
    BY <1>6, <2>1, <2>4, <2>5, <2>6 DEF LinksTo
  <2>9. Remember(transaction', dividend', {}, LostLink(r))
    BY <2>3
  <2> QED
    BY <1>1, <1>3, <1>4, <1>5, <2>3, <2>4, <2>7, <2>8, <2>9 DEF WritesRow
<1> QED
  BY <1>9, <1>10, <1>11
-----------------------------------------------------------------------------
(* Requests about transactions. *)

LooseAfter(L) ==
  past'.loose = {i \in past.loose \cup L : i \in DOMAIN transaction' /\ i \notin Linked(dividend')}

(* What a step that writes transactions adds to the history variables.     *)
LEMMA RememberedPast ==
  ASSUME HistoryOK, NEW booked, NEW L, Remember(transaction', dividend', booked, L)
  PROVE  /\ DOMAIN past' = DOMAIN past
         /\ past'.entered = past.entered /\ past'.filled = past.filled
         /\ LooseAfter(L)
         /\ past'.unbooked = ((past.unbooked \ (booked \cap SellsOf(transaction))) \cup
                              (SellsTouched(transaction, transaction') \ booked)) \cap DOMAIN transaction'
<1>1. DOMAIN past = {"revised", "unbooked", "loose", "entered", "filled"}
  BY DEF HistoryOK
<1>2. PICK R, U, W : past' = [past EXCEPT !.revised = R, !.unbooked = U, !.loose = W]
                     /\ U = ((past.unbooked \ (booked \cap SellsOf(transaction))) \cup
                              (SellsTouched(transaction, transaction') \ booked)) \cap DOMAIN transaction'
                     /\ W = {i \in past.loose \cup L : i \in DOMAIN transaction' /\ i \notin Linked(dividend')}
  BY DEF Remember
<1>3. /\ DOMAIN past' = DOMAIN past /\ past'.unbooked = U /\ past'.loose = W
      /\ past'.entered = past.entered /\ past'.filled = past.filled
  BY <1>1, <1>2
<1> QED
  BY <1>2, <1>3 DEF LooseAfter

(* Rows of the ledger are added or changed; L are those among them that may be reinvestments. *)
PutsRows(L) ==
  /\ UNCHANGED <<portfolio, fund, price, pfs, dividend, request, mix>>
  /\ DOMAIN transaction \subseteq DOMAIN transaction'
  /\ \A i \in DOMAIN transaction' :
       \/ i \in DOMAIN transaction /\ transaction'[i] = transaction[i]
       \/ /\ i \in 1..MaxTxns
          /\ transaction'[i] \in Transactions /\ transaction'[i].pf \in DOMAIN pfs
          /\ transaction'[i].type = "dividend" => i \in L
          /\ i \notin DOMAIN transaction => \A k \in DividendRequests : request[k].row.link # i

(* CreateTransaction inserts one row, and its gain if it is a sell.        *)
LEMMA CreatedRow ==
  ASSUME RequestsOK, CatalogOK, LedgerOK, NEW t \in Asked.transactions, CreateTransaction(t)
  PROVE  \E i, L : /\ i = NewTxn /\ i \in 1..MaxTxns /\ i \notin DOMAIN transaction
                   /\ t \in Transactions /\ t.pf \in DOMAIN pfs
                   /\ transaction' = With(transaction, i, t)
                   /\ gains' = gains \cup GainOf(With(transaction, i, t), i)
                   /\ Remember(transaction', dividend', {i}, L) /\ PutsRows(L)
<1>1. t \in [pf : Int, type : STRING, day : Days, shares : Int, price : Int]
  BY AskedIsShaped DEF CatalogOK
<1>2. PICK i : i = NewTxn
  OBVIOUS
<1>3. PICK L : L = IF t.type = "dividend" THEN {i} ELSE {}
  OBVIOUS
<1>4. /\ transaction' = With(transaction, i, t) /\ dividend' = dividend /\ i # 0
      /\ CreateTransactionError(t) = "none"
      /\ gains' = gains \cup GainOf(With(transaction, i, t), i)
      /\ Remember(With(transaction, i, t), dividend, {i}, L)
      /\ UNCHANGED <<portfolio, fund, price, pfs, request, mix>>
  BY <1>2, <1>3 DEF CreateTransaction, Stores
<1>5. ValidTransaction(t) /\ t.pf \in DOMAIN pfs
  BY <1>4 DEF CreateTransactionError
<1>6. t \in Transactions
  BY <1>1, <1>5 DEF ValidTransaction, Transactions, CatalogOK
<1>7. /\ i \in 1..MaxTxns /\ i \notin DOMAIN transaction
      /\ \A k \in DividendRequests : request[k].row.link # i
  BY <1>2, <1>4, NewNumbers, BoundsAssumption
<1>8. /\ DOMAIN transaction' = DOMAIN transaction \cup {i} /\ transaction'[i] = t
      /\ \A j \in DOMAIN transaction \ {i} : transaction'[j] = transaction[j]
  BY <1>4 DEF With
<1>9. PutsRows(L)
  BY <1>3, <1>4, <1>5, <1>6, <1>7, <1>8 DEF PutsRows
<1>10. Remember(transaction', dividend', {i}, L)
  BY <1>4
<1> QED
  BY <1>2, <1>4, <1>5, <1>6, <1>7, <1>9, <1>10

(* UpdateTransaction replaces one row and its gain.                        *)
LEMMA UpdatedRow ==
  ASSUME CatalogOK, LedgerOK, NEW i \in DOMAIN transaction, NEW c \in Asked.changes,
         UpdateTransaction(i, c)
  PROVE  \E t, L : /\ t \in Transactions /\ t.pf \in DOMAIN pfs
                   /\ transaction' = [transaction EXCEPT ![i] = t]
                   /\ gains' = GainOf(transaction', i) \cup
                               (IF transaction[i].type = "sell" THEN GainsWithout(i) ELSE gains)
                   /\ Remember(transaction', dividend', {i}, L) /\ PutsRows(L)
<1>1. /\ "day" \in DOMAIN c => c.day \in Days
      /\ "shares" \in DOMAIN c => c.shares \in Int
      /\ "price" \in DOMAIN c => c.price \in Int
  BY AskedIsShaped DEF CatalogOK
<1>2. PICK t : t = Applied(c, transaction[i])
  OBVIOUS
<1>3. PICK T2 : T2 = [transaction EXCEPT ![i] = t]
  OBVIOUS
<1>4. PICK L : L = IF T2[i].type = "dividend" THEN {i} ELSE {}
  OBVIOUS
<1>5. T2 = [transaction EXCEPT ![i] = Applied(c, @)]
  BY <1>2, <1>3
<1>6. /\ transaction' = T2 /\ dividend' = dividend
      /\ UpdateTransactionError(i, c) = "none"
      /\ gains' = GainOf(T2, i) \cup
                  (IF transaction[i].type = "sell" THEN GainsWithout(i) ELSE gains)
      /\ Remember(T2, dividend, {i}, L)
      /\ UNCHANGED <<portfolio, fund, price, pfs, request, mix>>
  BY <1>4, <1>5 DEF UpdateTransaction, Stores
<1>7. ValidChanges(c) /\ ("pf" \in DOMAIN c => c.pf \in DOMAIN pfs)
  BY <1>6 DEF UpdateTransactionError
<1>8. PICK old : old = transaction[i]
  OBVIOUS
<1>9. old \in Transactions /\ old.pf \in DOMAIN pfs /\ i \in 1..MaxTxns
  BY <1>8 DEF LedgerOK
<1>10. DOMAIN old = {"pf", "type", "day", "shares", "price"}
  BY <1>9 DEF Transactions
<1>11. t = [pf |-> IF "pf" \in DOMAIN c THEN c.pf ELSE old.pf,
            type |-> IF "type" \in DOMAIN c THEN c.type ELSE old.type,
            day |-> IF "day" \in DOMAIN c THEN c.day ELSE old.day,
            shares |-> IF "shares" \in DOMAIN c THEN c.shares ELSE old.shares,
            price |-> IF "price" \in DOMAIN c THEN c.price ELSE old.price]
  BY <1>2, <1>8, <1>10 DEF Applied
<1>12. /\ t.pf \in DOMAIN pfs /\ t.pf \in 1..MaxPfs /\ t.type \in TransactionTypes /\ t.day \in Days
       /\ t.shares \in Nat \ {0} /\ t.price \in Nat
  BY <1>1, <1>7, <1>9, <1>11 DEF ValidChanges, Transactions, CatalogOK
<1>13. t \in Transactions
  BY <1>11, <1>12 DEF Transactions
<1>14. /\ DOMAIN transaction' = DOMAIN transaction /\ transaction'[i] = t
       /\ \A j \in DOMAIN transaction \ {i} : transaction'[j] = transaction[j]
  BY <1>3, <1>6
<1>15. PutsRows(L)
  BY <1>3, <1>4, <1>6, <1>9, <1>12, <1>13, <1>14 DEF PutsRows
<1>16. Remember(transaction', dividend', {i}, L)
  BY <1>6
<1>17. gains' = GainOf(transaction', i) \cup
                (IF transaction[i].type = "sell" THEN GainsWithout(i) ELSE gains)
  BY <1>6
<1> QED
  BY <1>3, <1>6, <1>12, <1>13, <1>15, <1>16, <1>17

(* An import of a CSV file inserts rows and no gains.                      *)
LEMMA ImportedRows ==
  ASSUME RequestsOK, CatalogOK, LedgerOK, NEW rows \in Asked.imports, NEW x \in DOMAIN pfs,
         ImportTransactions(x, rows)
  PROVE  \E L : gains' = gains /\ Remember(transaction', dividend', {}, L) /\ PutsRows(L)
<1>1. rows \in Seq([type : STRING, day : Days, shares : Int, price : Int])
  BY AskedIsShaped DEF CatalogOK
<1>2. PICK first : first = NewTxn
  OBVIOUS
<1>3. PICK imported : imported = first..(first + Len(rows) - 1)
  OBVIOUS
<1>4. PICK T2 : T2 = [i \in DOMAIN transaction \cup imported |->
               IF i \in imported THEN Over(rows[i - first + 1], [pf |-> x]) ELSE transaction[i]]
  OBVIOUS
<1>5. PICK L : L = {i \in imported : T2[i].type = "dividend"}
  OBVIOUS
<1>6. /\ first # 0 /\ first + Len(rows) - 1 <= MaxTxns
      /\ ImportTransactionsError(x, rows) = "none"
      /\ UNCHANGED <<portfolio, fund, price, pfs, gains, request, mix>>
      /\ transaction' = T2 /\ dividend' = dividend
      /\ Remember(T2, dividend, {}, L)
  BY <1>2, <1>3, <1>4, <1>5 DEF ImportTransactions, Stores
<1>7. \A k \in DOMAIN rows : ValidImportRow(rows[k])
  BY <1>6 DEF ImportTransactionsError
<1>8. first \in 1..MaxTxns
  BY <1>2, <1>6, NewNumbers, BoundsAssumption
<1>9. imported \subseteq 1..MaxTxns
  BY <1>1, <1>3, <1>6, <1>8, BoundsAssumption
<1>10. \A i \in imported : /\ i \notin DOMAIN transaction
                           /\ \A k \in DividendRequests : request[k].row.link # i
  <2>1. ASSUME NEW i \in imported
        PROVE  /\ i \notin DOMAIN transaction
               /\ \A k \in DividendRequests : request[k].row.link # i
    <3>1. i - first \in Nat /\ NewTxn + (i - first) = i
      BY <1>2, <1>3, <1>8, <2>1, <1>1
    <3> QED
      BY <1>2, <1>6, <3>1, NewNumbers
  <2> QED
    BY <2>1
<1>11. \A i \in imported : T2[i] \in Transactions /\ T2[i].pf = x
  <2>1. ASSUME NEW i \in imported PROVE T2[i] \in Transactions /\ T2[i].pf = x
    <3>1. i - first + 1 \in 1..Len(rows)
      BY <1>1, <1>3, <1>8, <2>1
    <3>2. PICK row : row = rows[i - first + 1]
      OBVIOUS
    <3>3. row \in [type : STRING, day : Days, shares : Int, price : Int] /\ ValidImportRow(row)
      <4>1. DOMAIN rows = 1..Len(rows)
        BY <1>1
      <4>2. rows[i - first + 1] \in [type : STRING, day : Days, shares : Int, price : Int]
        <5>1. PICK j : j = i - first + 1
          OBVIOUS
        <5>2. j \in 1..Len(rows)
          BY <3>1, <5>1
        <5>3. PICK Rec : Rec = [type : STRING, day : Days, shares : Int, price : Int]
          OBVIOUS
        <5>4. rows \in Seq(Rec)
          BY <1>1, <5>3, Zenon
        <5>5. rows[j] \in Rec
          BY <5>2, <5>4
        <5> QED
          BY <5>1, <5>3, <5>5
      <4> QED
        BY <1>7, <3>1, <3>2, <4>1, <4>2
    <3>4. T2[i] = Over(row, [pf |-> x])
      BY <1>4, <3>2
    <3>5. Over(row, [pf |-> x]) =
            [pf |-> x, type |-> row.type, day |-> row.day, shares |-> row.shares, price |-> row.price]
      BY <3>3 DEF Over
    <3>6. x \in 1..MaxPfs
      BY DEF CatalogOK
    <3> QED
      BY <3>3, <3>4, <3>5, <3>6 DEF Transactions, ValidImportRow
  <2> QED
    BY <2>1
<1>12. /\ DOMAIN T2 = DOMAIN transaction \cup imported
       /\ \A i \in DOMAIN transaction \ imported : T2[i] = transaction[i]
  BY <1>4
<1>13. PutsRows(L)
  BY <1>5, <1>6, <1>9, <1>10, <1>11, <1>12 DEF PutsRows
<1> QED
  BY <1>6, <1>13
-----------------------------------------------------------------------------
(* What takes rows away: deletions of transactions, of portfolio_funds with *)
(* all they hold, and of dividends with their reinvestment. *)

(* dropped: the portfolios that go; the gains that go are those of the rows and of these. *)
DropsRows(dropped, L) ==
  /\ DOMAIN pfs' \subseteq DOMAIN pfs /\ \A x \in DOMAIN pfs' : pfs'[x] = pfs[x]
  /\ DOMAIN transaction' \subseteq DOMAIN transaction
  /\ \A i \in DOMAIN transaction' : transaction'[i] = transaction[i] /\ transaction[i].pf \in DOMAIN pfs'
  /\ DOMAIN dividend' \subseteq DOMAIN dividend
  /\ \A d \in DOMAIN dividend' : /\ dividend'[d] = dividend[d] /\ dividend[d].pf \in DOMAIN pfs'
                                 /\ dividend[d].link \in DOMAIN transaction' \cup {0}
  /\ gains' \subseteq gains
  /\ \A g \in gains : g.of \in DOMAIN transaction \ DOMAIN transaction' => g \notin gains'
  /\ \A g \in gains \ gains' : g.of \notin DOMAIN transaction' \/ g.portfolio \in dropped
  /\ \A x \in DOMAIN pfs' : pfs[x].portfolio \notin dropped
  /\ \A d \in DOMAIN dividend : dividend[d].link \in DOMAIN transaction' =>
       dividend[d].link \in L \cup Linked(dividend')
  /\ Remember(transaction', dividend', {}, L)
  /\ UNCHANGED <<fund, price, mix>>

(* DeleteTransaction drops rows.                                           *)
LEMMA DeletedRow ==
  ASSUME LedgerOK, NEW i \in DOMAIN transaction, DeleteTransaction(i)
  PROVE  DropsRows({}, {}) /\ UNCHANGED <<portfolio, request>>
<1>1. /\ transaction' = Without(transaction, {i}) /\ dividend' = dividend /\ gains' = GainsWithout(i)
      /\ Remember(Without(transaction, {i}), dividend, {}, {})
      /\ UNCHANGED <<portfolio, fund, price, pfs, request, mix>> /\ i \notin Linked(dividend)
  BY DEF DeleteTransaction, DeleteTransactionError, Stores
<1>2. /\ DOMAIN transaction' = DOMAIN transaction \ {i}
      /\ \A j \in DOMAIN transaction' : transaction'[j] = transaction[j]
  BY <1>1 DEF Without
<1>3. \A d \in DOMAIN dividend : dividend[d].link # i
  BY <1>1 DEF Linked, LedgerOK
<1>4. \A d \in DOMAIN dividend : dividend[d].link \in DOMAIN transaction' => dividend[d].link \in Linked(dividend)
  BY <1>2 DEF Linked, LedgerOK
<1>5. Remember(transaction', dividend', {}, {})
  BY <1>1
<1> QED
  BY <1>1, <1>2, <1>3, <1>4, <1>5 DEF DropsRows, LedgerOK, GainsWithout

(* So does a foreign key when portfolios or their funds go.                *)
LEMMA CascadedRows ==
  ASSUME LedgerOK, NEW gone \in SUBSET DOMAIN pfs, NEW dropped, Cascades(gone, dropped),
         UNCHANGED <<fund, price, mix>>, \A x \in DOMAIN pfs \ gone : pfs[x].portfolio \notin dropped
  PROVE  \E L : DropsRows(dropped, L)
<1>1. PICK dead : dead = UNION {RowsOf(transaction, x) : x \in gone}
  OBVIOUS
<1>2. PICK unpaid : unpaid = {d \in DOMAIN dividend : dividend[d].pf \in gone}
  OBVIOUS
<1>3. PICK D2 : D2 = Without(dividend, unpaid)
  OBVIOUS
<1>4. PICK L : L = Linked(dividend) \ Linked(D2)
  OBVIOUS
<1>5. /\ ~CascadeFails(gone) /\ pfs' = Without(pfs, gone)
      /\ gains' = {g \in gains : g.of \notin dead /\ g.portfolio \notin dropped}
      /\ transaction' = Without(transaction, dead) /\ dividend' = D2
      /\ Remember(Without(transaction, dead), D2, {}, L)
  BY <1>1, <1>2, <1>3, <1>4 DEF Cascades, Stores
<1>6. \A i \in DOMAIN transaction : i \in dead <=> transaction[i].pf \in gone
  BY <1>1 DEF RowsOf
<1>7. /\ DOMAIN transaction' = DOMAIN transaction \ dead
      /\ \A i \in DOMAIN transaction' : transaction'[i] = transaction[i]
  BY <1>5 DEF Without
<1>8. /\ DOMAIN dividend' = DOMAIN dividend \ unpaid
      /\ \A d \in DOMAIN dividend' : dividend'[d] = dividend[d]
  BY <1>3, <1>5 DEF Without
<1>9. /\ DOMAIN pfs' = DOMAIN pfs \ gone
      /\ \A x \in DOMAIN pfs' : pfs'[x] = pfs[x]
  BY <1>5 DEF Without
<1>10. \A i \in DOMAIN transaction' : transaction[i].pf \in DOMAIN pfs'
  BY <1>6, <1>7, <1>9 DEF LedgerOK
<1>11. \A d \in DOMAIN dividend' : /\ dividend[d].pf \in DOMAIN pfs'
                                   /\ dividend[d].link \in DOMAIN transaction' \cup {0}
  BY <1>2, <1>5, <1>6, <1>7, <1>8, <1>9 DEF LedgerOK, CascadeFails
<1>12. \A d \in DOMAIN dividend : dividend[d].link \in DOMAIN transaction' =>
         dividend[d].link \in L \cup Linked(dividend')
  BY <1>4, <1>5, <1>7 DEF Linked, LedgerOK
<1>13. Remember(transaction', dividend', {}, L)
  BY <1>5
<1>14. /\ \A g \in gains : g.of \in DOMAIN transaction \ DOMAIN transaction' => g \notin gains'
       /\ \A g \in gains \ gains' : g.of \notin DOMAIN transaction' \/ g.portfolio \in dropped
       /\ gains' \subseteq gains
  BY <1>5, <1>7
<1> QED
  BY <1>7, <1>8, <1>9, <1>10, <1>11, <1>12, <1>13, <1>14 DEF DropsRows

(* So does DeleteDividend.                                                 *)
LEMMA ErasedRows ==
  ASSUME RequestsOK, LedgerOK, OwnLink, \A g \in gains : g.of \in DOMAIN transaction,
         NEW c \in Clients, EraseDividend(c)
  PROVE  /\ request' = [request EXCEPT ![c] = Idle] /\ UNCHANGED portfolio
         /\ \E L : DropsRows({}, L)
<1>1. PICK r : r = request[c]
  OBVIOUS
<1>2. Writes(c) /\ r.op = "delete"
  BY <1>1 DEF EraseDividend
<1>3. IsDividendRequest(r) /\ CanWrite(r) /\ c \in DividendRequests
  BY <1>1, <1>2, KindsOfRequests DEF Writes
<1>4. PICK L : L = LostLink(r)
  OBVIOUS
<1>5. PICK link : link = r.row.link
  OBVIOUS
<1>6. PICK id : id = r.id
  OBVIOUS
<1>7. /\ transaction' = Without(transaction, {link}) /\ dividend' = Without(dividend, {id})
      /\ gains' = (IF link = 0 THEN gains ELSE GainsWithout(link))
      /\ Remember(Without(transaction, {link}), Without(dividend, {id}), {}, L)
  BY <1>1, <1>4, <1>5, <1>6 DEF EraseDividend, Stores
<1>8. request' = [request EXCEPT ![c] = Idle] /\ UNCHANGED <<portfolio, fund, price, pfs, mix>>
  BY <1>2 DEF Writes
<1>9. id \in DOMAIN dividend /\ (link # 0 => link \in DOMAIN transaction)
  BY <1>2, <1>3, <1>5, <1>6 DEF CanWrite
<1>10. /\ DOMAIN transaction' = DOMAIN transaction \ {link}
       /\ \A i \in DOMAIN transaction' : transaction'[i] = transaction[i]
  BY <1>7 DEF Without
<1>11. /\ DOMAIN dividend' = DOMAIN dividend \ {id}
       /\ \A d \in DOMAIN dividend' : dividend'[d] = dividend[d]
  BY <1>7 DEF Without
<1>12. \A d \in DOMAIN dividend \ {id} : dividend[d].link # link \/ link = 0
  BY <1>1, <1>3, <1>5, <1>6 DEF OwnLink, Row
<1>13. \A d \in DOMAIN dividend : dividend[d].link \in DOMAIN transaction' =>
         dividend[d].link \in L \cup Linked(dividend')
  <2>1. SUFFICES ASSUME NEW d \in DOMAIN dividend, dividend[d].link \in DOMAIN transaction'
        PROVE  dividend[d].link \in L \cup Linked(dividend')
    OBVIOUS
  <2>2. dividend[d].link # 0 /\ dividend[d].link # link
    BY <1>10, <2>1 DEF LedgerOK
  <2>3. CASE d = id
    BY <1>4, <1>5, <1>6, <1>9, <2>2, <2>3 DEF LostLink
  <2>4. CASE d # id
    BY <1>11, <2>2, <2>4 DEF Linked
  <2> QED
    BY <2>3, <2>4
<1>14. Remember(transaction', dividend', {}, L)
  BY <1>7
<1>15. /\ \A g \in gains : g.of \in DOMAIN transaction \ DOMAIN transaction' => g \notin gains'
       /\ \A g \in gains \ gains' : g.of \notin DOMAIN transaction'
       /\ gains' \subseteq gains
  <2>1. 0 \notin DOMAIN transaction
    BY DEF LedgerOK
  <2>2. CASE link = 0
    BY <1>7, <1>10, <2>1, <2>2
  <2>3. CASE link # 0
    BY <1>7, <1>10, <2>3 DEF GainsWithout
  <2> QED
    BY <2>2, <2>3
<1>16. \A d \in DOMAIN dividend' : dividend[d].link \in DOMAIN transaction' \cup {0}
  BY <1>10, <1>11, <1>12 DEF LedgerOK
<1>17. DropsRows({}, L)
  BY <1>8, <1>10, <1>11, <1>13, <1>14, <1>15, <1>16 DEF DropsRows, LedgerOK
<1> QED
  BY <1>8, <1>17
-----------------------------------------------------------------------------
(* Every step is of one of these kinds. *)

TablesKept == UNCHANGED <<portfolio, fund, price, pfs, transaction, gains, dividend, past, mix>>

ChangesCatalog ==
  /\ UNCHANGED <<price, transaction, gains, dividend, request, past, mix>>
  /\ \/ /\ UNCHANGED <<fund, pfs>>
        /\ \E p \in Portfolios, flag \in {"active", "archived"} :
             portfolio' = [portfolio EXCEPT ![p] = flag]
     \/ /\ UNCHANGED <<portfolio, pfs>>
        /\ \E f \in Funds, type \in ValidDividendType : fund' = [fund EXCEPT ![f] = type]
     \/ /\ UNCHANGED <<portfolio, pfs>>
        /\ \E f \in Funds : /\ fund' = [fund EXCEPT ![f] = "none"]
                            /\ \A x \in DOMAIN pfs : pfs[x].fund # f
                            /\ \A d \in DOMAIN dividend : dividend[d].fund # f
     \/ /\ UNCHANGED <<portfolio, fund>>
        /\ \E p \in Portfolios, f \in Funds :
             /\ portfolio[p] # "none" /\ fund[f] # "none" /\ NewPf # 0 /\ PfsOf(p) \cap PfsOfFund(f) = {}
             /\ pfs' = With(pfs, NewPf, [portfolio |-> p, fund |-> f])

DropsSome ==
  \E dropped, L :
    /\ DropsRows(dropped, L)
    /\ \/ UNCHANGED portfolio
       \/ \E p \in Portfolios : dropped = {p} /\ portfolio' = [portfolio EXCEPT ![p] = "none"]
    /\ UNCHANGED request \/ \E c \in Clients : request' = [request EXCEPT ![c] = Idle]

EntersPrices ==
  \E f \in Funds, rows \in Seq([day : Days, price : Int]) :
    fund[f] # "none" /\ (\A k \in DOMAIN rows : rows[k].price > 0) /\ Enters(f, rows)

(* The inductive invariant. *)
BooksInv ==
  /\ RequestsOK /\ CatalogOK /\ LedgerOK /\ PricesOK /\ HistoryOK /\ OwnFund /\ OwnLink
  /\ GainsFollowSells

(* A gain is of a transaction that exists.                                 *)
LEMMA GainsOfRows == ASSUME GainsFollowSells PROVE \A g \in gains : g.of \in DOMAIN transaction
  BY DEF GainsFollowSells

(* Every step of the books is of one of nine kinds.                        *)
LEMMA KindsOfSteps ==
  ASSUME BooksInv, Next
  PROVE  \/ \E c \in Clients : /\ FundPriceRequest(c) \/ FundPriceStep(c)
                               /\ Continued(c) /\ KeepsHistory
         \/ \E c \in Clients : \E q : Asking(c, q) /\ TablesKept
         \/ \E c \in Clients : \E q : c \in DividendRequests /\ Reading(c, q) /\ TablesKept
         \/ \E c \in Clients : request' = [request EXCEPT ![c] = Idle] /\ TablesKept
         \/ \E c \in Clients : \E d, link : WritesRow(c, d, link)
         \/ /\ TransactionRequest
            /\ \E booked, L : PutsRows(L) /\ Remember(transaction', dividend', booked, L)
         \/ DropsSome
         \/ ChangesCatalog
         \/ EntersPrices
<1>1. RequestsOK /\ CatalogOK /\ LedgerOK /\ PricesOK /\ HistoryOK /\ OwnLink /\ mix \in DOMAIN Inputs
      /\ \A g \in gains : g.of \in DOMAIN transaction
  BY GainsOfRows DEF BooksInv, CatalogOK
<1> USE <1>1
<1>2. CASE TransactionRequest
  <2>1. CASE \E t \in Asked.transactions : CreateTransaction(t)
    BY <1>2, <2>1, CreatedRow
  <2>2. CASE \E i \in DOMAIN transaction, c \in Asked.changes : UpdateTransaction(i, c)
    BY <1>2, <2>2, UpdatedRow
  <2>3. CASE \E i \in DOMAIN transaction : DeleteTransaction(i)
    BY <2>3, DeletedRow DEF DropsSome
  <2>4. CASE \E rows \in Asked.imports, x \in DOMAIN pfs : ImportTransactions(x, rows)
    BY <1>2, <2>4, ImportedRows
  <2> QED
    BY <1>2, <2>1, <2>2, <2>3, <2>4 DEF TransactionRequest
<1>3. CASE \E c \in Clients : DividendRequest(c)
  BY <1>3, DividendRequestsAsk DEF TablesKept
<1>4. CASE \E c \in Clients : DividendStep(c)
  <2>1. PICK c \in Clients : DividendStep(c)
    BY <1>4
  <2>2. CASE CountShares(c) \/ RereadReinvestment(c)
    BY <2>2, ReadsKeepTheRow DEF TablesKept
  <2>3. CASE WriteDividend(c) \/ WriteReinvestment(c) \/ RewriteReinvestment(c)
    BY <2>3, WritesWriteRows
  <2>4. CASE EraseDividend(c)
    BY <2>4, ErasedRows DEF DropsSome
  <2>5. CASE DividendRequestFails(c)
    BY <2>5 DEF DividendRequestFails, TablesKept
  <2> QED
    BY <2>1, <2>2, <2>3, <2>4, <2>5 DEF DividendStep
<1>5. CASE \E c \in Clients : FundPriceRequest(c) \/ FundPriceStep(c)
  BY <1>5, UpdatesContinue
<1>6. CASE \E p \in Asked.portfolios : PortfolioRequest(p)
  <2>1. PICK p \in Asked.portfolios : PortfolioRequest(p)
    BY <1>6
  <2>2. p \in Portfolios
    BY <2>1, AskedIsShaped
  <2>3. CASE CreatePortfolio(p) \/ UpdatePortfolio(p, "archived") \/ UpdatePortfolio(p, "active")
    BY <2>2, <2>3 DEF CreatePortfolio, UpdatePortfolio, ChangesCatalog
  <2>4. CASE DeletePortfolio(p)
    <3>1. PfsOf(p) \in SUBSET DOMAIN pfs /\ \A x \in DOMAIN pfs \ PfsOf(p) : pfs[x].portfolio \notin {p}
      BY DEF PfsOf
    <3>2. /\ Cascades(PfsOf(p), {p}) /\ UNCHANGED <<fund, price, request, mix>>
          /\ portfolio' = [portfolio EXCEPT ![p] = "none"]
      BY <2>4 DEF DeletePortfolio
    <3>3. \E L : DropsRows({p}, L)
      BY <3>1, <3>2, CascadedRows
    <3> QED
      BY <2>2, <3>2, <3>3 DEF DropsSome
  <2>5. CASE \E f \in Funds : CreatePortfolioFund(p, f)
    BY <2>2, <2>5 DEF CreatePortfolioFund, CreatePortfolioFundError, ChangesCatalog
  <2> QED
    BY <2>1, <2>3, <2>4, <2>5 DEF PortfolioRequest
<1>7. CASE \E f \in Asked.funds : FundRequest(f)
  <2>1. PICK f \in Asked.funds : FundRequest(f)
    BY <1>7
  <2>2. f \in Funds
    BY <2>1, AskedIsShaped
  <2>3. CASE \E type \in Asked.types : \/ Accepted(CreateFundAnswer(f, type)) /\ CreateFund(f, type)
                                       \/ Accepted(UpdateFundAnswer(f, type)) /\ UpdateFund(f, type)
    <3>1. PICK type \in Asked.types : \/ Accepted(CreateFundAnswer(f, type)) /\ CreateFund(f, type)
                                      \/ Accepted(UpdateFundAnswer(f, type)) /\ UpdateFund(f, type)
      BY <2>3
    <3>2. type \in ValidDividendType
      <4>1. type \notin ValidDividendType => CreateFundAnswer(f, type) = 400 /\ UpdateFundAnswer(f, type) = 400
        BY Zenon DEF CreateFundAnswer, UpdateFundAnswer
      <4>2. ~Accepted(400)
        BY DEF Accepted
      <4> QED
        BY <3>1, <4>1, <4>2
    <3> QED
      BY <2>2, <3>1, <3>2 DEF CreateFund, UpdateFund, ChangesCatalog
  <2>4. CASE DeleteFund(f)
    BY <2>2, <2>4 DEF DeleteFund, DeleteFundError, PfsOfFund, ChangesCatalog
  <2>5. CASE \E x \in PfsOfFund(f) : DeletePortfolioFund(x)
    <3>1. PICK x \in PfsOfFund(f) : DeletePortfolioFund(x)
      BY <2>5
    <3>2. {x} \in SUBSET DOMAIN pfs /\ Cascades({x}, {}) /\ UNCHANGED <<portfolio, fund, price, request, mix>>
      BY <3>1 DEF DeletePortfolioFund, PfsOfFund
    <3>3. \E L : DropsRows({}, L)
      BY <3>2, CascadedRows
    <3> QED
      BY <3>2, <3>3 DEF DropsSome
  <2>6. CASE \E q \in Asked.prices : SetFundPrice(f, q)
    <3>1. PICK q \in Asked.prices : SetFundPrice(f, q)
      BY <2>6
    <3>2. PICK Rec : Rec = [day : Days, price : Int]
      OBVIOUS
    <3>3. q \in Rec
      BY <3>1, <3>2, AskedIsShaped
    <3>4. <<q>> \in Seq(Rec)
      BY <3>3
    <3> QED
      <4>1. PICK one \in Seq(Rec) : one = <<q>>
        BY <3>4
      <4>2. q.price \in Int /\ q.price > 0 /\ fund[f] # "none" /\ Enters(f, one)
        BY <3>1, <3>2, <3>3, <4>1 DEF SetFundPrice, SetFundPriceError
      <4>3. \A k \in DOMAIN one : one[k].price > 0
        BY <4>1, <4>2
      <4> QED
        BY <2>2, <3>2, <4>2, <4>3 DEF EntersPrices
  <2>7. CASE \E rows \in Asked.priceRows : ImportFundPrices(f, rows)
    <3>1. PICK rows \in Asked.priceRows : ImportFundPrices(f, rows)
      BY <2>7
    <3>2. PICK Rec : Rec = [day : Days, price : Int]
      OBVIOUS
    <3>3. rows \in Seq(Rec)
      BY <3>1, <3>2, AskedIsShaped, Zenon
    <3>4. \A k \in DOMAIN rows : rows[k] \in Rec
      BY <3>3
    <3>5. \A k \in DOMAIN rows : rows[k].price \in Int
      BY <3>2, <3>4
    <3>6. fund[f] # "none" /\ Enters(f, rows) /\ \A k \in DOMAIN rows : ~(rows[k].price <= 0)
      BY <3>1 DEF ImportFundPrices, ImportFundPricesError
    <3>7. \A k \in DOMAIN rows : rows[k].price > 0
      BY <3>5, <3>6
    <3> QED
      BY <2>2, <3>2, <3>3, <3>6, <3>7 DEF EntersPrices
  <2> QED
    BY <2>1, <2>3, <2>4, <2>5, <2>6, <2>7 DEF FundRequest
<1> QED
  BY <1>2, <1>3, <1>4, <1>5, <1>6, <1>7 DEF Next
-----------------------------------------------------------------------------
(* Types. *)

(* Of the steps of an update only InsertFundPrices writes prices.          *)
LEMMA UpdatesTouchPrices ==
  ASSUME NEW c \in Clients, FundPriceRequest(c) \/ FundPriceStep(c)
  PROVE  UNCHANGED price \/ InsertFundPrices(c)
<1>1. ASSUME FundPriceRequest(c) PROVE UNCHANGED price
  BY <1>1 DEF FundPriceRequest, UpdateCurrentFundPrice, UpdateHistoricalFundPrice, UpdateAllFundHistory,
              GetIndicatorForDate, FilterMissingPrices, GoesOn
<1>2. ASSUME FundPriceStep(c), ~InsertFundPrices(c) PROVE UNCHANGED price
  BY <1>2 DEF FundPriceStep, CheckExistingPrice, RecheckExistingPrice, NextFund, AllFundsDone,
              ReadOldestTransaction, ReadMissingDates, YahooFails, InsertFundPricesFails, GivesUp, GoesOn
<1> QED
  BY <1>1, <1>2, Zenon

(* What is inserted: prices of closed days of a fund. *)
LEMMA InsertedPrices ==
  ASSUME RequestsOK, PricesOK, NEW c \in Clients, InsertFundPrices(c)
  PROVE  /\ IsPriceUpdate(request[c]) /\ request[c].step = "insert"
         /\ request[c].fund \in Funds /\ DOMAIN request[c].found \subseteq ClosedDays
         /\ \A d \in DOMAIN request[c].found : request[c].found[d] \in Positive
         /\ DOMAIN request[c].found \cap DOMAIN price[request[c].fund] = {}
         /\ DOMAIN price' = Funds
         /\ \A f \in Funds \ {request[c].fund} : price'[f] = price[f]
         /\ price'[request[c].fund] = Over(request[c].found, price[request[c].fund])
<1>1. PICK r : r = request[c]
  OBVIOUS
<1>2. r.step = "insert" /\ DOMAIN r.found \cap DOMAIN price[r.fund] = {}
      /\ price' = [price EXCEPT ![r.fund] = Over(r.found, @)]
  BY <1>1 DEF InsertFundPrices, CanInsert
<1>3. IsPriceUpdate(r)
  BY <1>1, <1>2, KindsOfRequests
<1>4. r.fund \in Funds /\ DOMAIN r.found \subseteq ClosedDays /\ \A d \in DOMAIN r.found : r.found[d] \in Positive
  BY <1>2, <1>3 DEF IsPriceUpdate
<1>5. DOMAIN price = Funds
  BY DEF PricesOK
<1>6. /\ DOMAIN price' = Funds /\ price'[r.fund] = Over(r.found, price[r.fund])
      /\ \A f \in Funds \ {r.fund} : price'[f] = price[f]
  BY <1>2, <1>4, <1>5
<1> QED
  BY <1>1, <1>2, <1>3, <1>4, <1>6

(* What users enter: prices E of days of the fund f. *)
EntersFor(f, E) ==
  /\ DOMAIN E \subseteq Days /\ \A d \in DOMAIN E : E[d] \in Positive
  /\ DOMAIN price' = Funds /\ price'[f] = Over(E, price[f])
  /\ \A g \in Funds \ {f} : price'[g] = price[g]
  /\ DOMAIN past' = DOMAIN past
  /\ past'.unbooked = past.unbooked /\ past'.loose = past.loose /\ past'.filled = past.filled
  /\ past'.revised = past.revised
  /\ past'.entered = {e \in past.entered : ~(e.fund = f /\ e.day \in DOMAIN E)} \cup
                       {[fund |-> f, day |-> d, price |-> E[d]] : d \in DOMAIN E}

(* What a user enters, or imports from a CSV file, are prices of one fund. *)
LEMMA EnteredRows ==
  ASSUME PricesOK, HistoryOK, NEW f \in Funds, NEW rows \in Seq([day : Days, price : Int]), Enters(f, rows),
         \A k \in DOMAIN rows : rows[k].price > 0
  PROVE  /\ \E E : EntersFor(f, E)
         /\ UNCHANGED <<portfolio, fund, pfs, transaction, gains, dividend, request, mix>>
<1>1. PICK E : E = [d \in {rows[k].day : k \in DOMAIN rows} |->
                      rows[Max({k \in DOMAIN rows : rows[k].day = d})].price]
  OBVIOUS
<1>2. /\ price' = [price EXCEPT ![f] = Over(E, @)]
      /\ past' = [past EXCEPT !.entered = {e \in @ : ~(e.fund = f /\ e.day \in DOMAIN E)} \cup
                                          {[fund |-> f, day |-> d, price |-> E[d]] : d \in DOMAIN E}]
      /\ UNCHANGED <<portfolio, fund, pfs, transaction, gains, dividend, request, mix>>
  BY <1>1 DEF Enters
<1>3. DOMAIN rows = 1..Len(rows) /\ Len(rows) \in Nat
  OBVIOUS
<1>4. \A k \in 1..Len(rows) : rows[k] \in [day : Days, price : Int]
  <2>1. PICK Rec : Rec = [day : Days, price : Int]
    OBVIOUS
  <2>2. rows \in Seq(Rec)
    BY <2>1, Zenon
  <2>3. \A k \in 1..Len(rows) : rows[k] \in Rec
    BY <2>2
  <2> QED
    BY <2>1, <2>3, Zenon
<1>5. DOMAIN E = {rows[k].day : k \in DOMAIN rows}
  BY <1>1
<1>6. DOMAIN E \subseteq Days
  BY <1>3, <1>4, <1>5
<1>7. ASSUME NEW d \in DOMAIN E PROVE E[d] \in Positive
  <2>1. PICK K : K = {k \in DOMAIN rows : rows[k].day = d}
    OBVIOUS
  <2>2. K # {} /\ K \in SUBSET (1..Len(rows))
    BY <1>3, <1>5, <1>7, <2>1
  <2>3. Max(K) \in 1..Len(rows)
    BY <1>3, <2>2, EndsOfPlaces
  <2>4. PICK last \in 1..Len(rows) : last = Max(K)
    BY <2>3
  <2>5. E[d] = rows[last].price
    BY <1>1, <1>7, <2>1, <2>4
  <2>6. rows[last].price \in Int /\ rows[last].price > 0
    BY <1>3, <1>4, <2>4
  <2> QED
    BY <2>5, <2>6 DEF Positive
<1>8. /\ DOMAIN price' = Funds /\ price'[f] = Over(E, price[f])
      /\ \A g \in Funds \ {f} : price'[g] = price[g]
  BY <1>2 DEF PricesOK
<1>9. /\ DOMAIN past' = DOMAIN past
      /\ past'.unbooked = past.unbooked /\ past'.loose = past.loose /\ past'.filled = past.filled
      /\ past'.revised = past.revised
      /\ past'.entered = {e \in past.entered : ~(e.fund = f /\ e.day \in DOMAIN E)} \cup
                           {[fund |-> f, day |-> d, price |-> E[d]] : d \in DOMAIN E}
  BY <1>2 DEF HistoryOK
<1> QED
  BY <1>2, <1>6, <1>7, <1>8, <1>9 DEF EntersFor

(* The requests in flight stay well-formed.                                *)
LEMMA RequestsStay ==
  ASSUME BooksInv, Next
  PROVE  RequestsOK'
<1>1. RequestsOK
  BY DEF BooksInv
<1>2. ASSUME NEW c \in Clients, NEW q, IsRequest(q), request' = [request EXCEPT ![c] = q]
      PROVE  RequestsOK'
  BY <1>1, <1>2, RequestsAfter
<1>3. IsRequest(Idle) /\ \A q : IsDividendRequest(q) \/ IsPriceUpdate(q) => IsRequest(q)
  BY DEF IsRequest
<1>4. UNCHANGED request => RequestsOK'
  BY <1>1 DEF RequestsOK
<1>5. CASE \E c \in Clients : Continued(c)
  <2>1. PICK c, q : c \in Clients /\ (q = Idle \/ IsPriceUpdate(q)) /\ request' = [request EXCEPT ![c] = q]
    BY <1>5 DEF Continued
  <2> QED
    BY <1>2, <1>3, <2>1
<1>6. CASE \E c \in Clients : \E q : Asking(c, q) \/ Reading(c, q)
  <2>1. PICK c, q : c \in Clients /\ IsDividendRequest(q) /\ request' = [request EXCEPT ![c] = q]
    BY <1>6 DEF Asking, Reading
  <2> QED
    BY <1>2, <1>3, <2>1
<1>7. CASE \E c \in Clients : request' = [request EXCEPT ![c] = Idle]
  BY <1>2, <1>3, <1>7
<1>8. CASE \E c \in Clients : \E d, link : WritesRow(c, d, link)
  BY <1>2, <1>3, <1>8 DEF WritesRow
<1>9. CASE \E booked, L : PutsRows(L) /\ Remember(transaction', dividend', booked, L)
  BY <1>4, <1>9 DEF PutsRows
<1>10. CASE DropsSome
  BY <1>4, <1>7, <1>10 DEF DropsSome
<1>11. CASE ChangesCatalog
  BY <1>4, <1>11 DEF ChangesCatalog
<1>12. CASE EntersPrices
  BY <1>4, <1>12 DEF EntersPrices, Enters
<1> QED
  BY <1>5, <1>6, <1>7, <1>8, <1>9, <1>10, <1>11, <1>12, KindsOfSteps

(* Prices stay of known funds and days.                                    *)
LEMMA PricesStay ==
  ASSUME BooksInv, Next
  PROVE  PricesOK'
<1>1. PricesOK /\ RequestsOK /\ HistoryOK
  BY DEF BooksInv
<1>2. UNCHANGED price => PricesOK'
  BY <1>1 DEF PricesOK
<1>3. CASE \E c \in Clients : FundPriceRequest(c) \/ FundPriceStep(c)
  <2>1. PICK c \in Clients : FundPriceRequest(c) \/ FundPriceStep(c)
    BY <1>3
  <2>2. CASE InsertFundPrices(c)
    <3>1. PICK r : r = request[c]
      OBVIOUS
    <3>2. /\ r.fund \in Funds /\ DOMAIN r.found \subseteq ClosedDays
          /\ \A d \in DOMAIN r.found : r.found[d] \in Positive
          /\ DOMAIN price' = Funds
          /\ \A f \in Funds \ {r.fund} : price'[f] = price[f]
          /\ price'[r.fund] = Over(r.found, price[r.fund])
      BY <1>1, <2>2, <3>1, InsertedPrices
    <3> QED
      BY <1>1, <3>2, ZenonT(40) DEF PricesOK, Over, ClosedDays
  <2> QED
    BY <1>2, <2>1, <2>2, UpdatesTouchPrices
<1>4. CASE EntersPrices
  <2>1. PICK f \in Funds, rows \in Seq([day : Days, price : Int]) :
           Enters(f, rows) /\ \A k \in DOMAIN rows : rows[k].price > 0
    BY <1>4 DEF EntersPrices
  <2>2. PICK E : EntersFor(f, E)
    BY <1>1, <2>1, EnteredRows
  <2> QED
    BY <1>1, <2>2 DEF EntersFor, PricesOK, Over
<1> QED
  BY <1>2, <1>3, <1>4, KindsOfSteps
  DEF TablesKept, WritesRow, PutsRows, DropsSome, DropsRows, ChangesCatalog

(* Portfolios, funds and what relates them keep their types and            *)
(* references.                                                             *)
LEMMA CatalogStays ==
  ASSUME BooksInv, Next
  PROVE  CatalogOK'
<1>1. CatalogOK /\ RequestsOK /\ LedgerOK
  BY DEF BooksInv
<1>2. UNCHANGED <<portfolio, fund, pfs, mix>> => CatalogOK'
  BY <1>1 DEF CatalogOK
<1>3. CASE DropsSome
  <2>1. PICK dropped, L : /\ DropsRows(dropped, L)
                          /\ \/ UNCHANGED portfolio
                             \/ \E p \in Portfolios : /\ dropped = {p}
                                                      /\ portfolio' = [portfolio EXCEPT ![p] = "none"]
    BY <1>3 DEF DropsSome
  <2>2. /\ DOMAIN pfs' \subseteq DOMAIN pfs /\ \A x \in DOMAIN pfs' : pfs'[x] = pfs[x]
        /\ \A x \in DOMAIN pfs' : pfs[x].portfolio \notin dropped
        /\ UNCHANGED <<fund, mix>>
    BY <2>1 DEF DropsRows
  <2>3. portfolio' \in [Portfolios -> {"none", "active", "archived"}]
    BY <1>1, <2>1 DEF CatalogOK
  <2>4. \A x \in DOMAIN pfs' : portfolio'[pfs[x].portfolio] = portfolio[pfs[x].portfolio]
    BY <1>1, <2>1, <2>2 DEF CatalogOK
  <2> QED
    BY <1>1, <2>2, <2>3, <2>4 DEF CatalogOK
<1>4. CASE ChangesCatalog
  <2>1. mix' \in DOMAIN Inputs
    BY <1>1, <1>4 DEF ChangesCatalog, CatalogOK
  <2>2. CASE /\ UNCHANGED <<fund, pfs>>
             /\ \E p \in Portfolios, flag \in {"active", "archived"} :
                  portfolio' = [portfolio EXCEPT ![p] = flag]
    BY <1>1, <2>1, <2>2 DEF CatalogOK
  <2>3. CASE /\ UNCHANGED <<portfolio, pfs>>
             /\ \E f \in Funds, type \in ValidDividendType : fund' = [fund EXCEPT ![f] = type]
    BY <1>1, <2>1, <2>3 DEF CatalogOK, ValidDividendType
  <2>4. CASE /\ UNCHANGED <<portfolio, pfs>>
             /\ \E f \in Funds : /\ fund' = [fund EXCEPT ![f] = "none"]
                                 /\ \A x \in DOMAIN pfs : pfs[x].fund # f
    BY <1>1, <2>1, <2>4 DEF CatalogOK
  <2>5. CASE /\ UNCHANGED <<portfolio, fund>>
             /\ \E p \in Portfolios, f \in Funds :
                  /\ portfolio[p] # "none" /\ fund[f] # "none" /\ NewPf # 0 /\ PfsOf(p) \cap PfsOfFund(f) = {}
                  /\ pfs' = With(pfs, NewPf, [portfolio |-> p, fund |-> f])
    <3>1. NewPf \in 1..MaxPfs
      BY <1>1, <2>5, NewNumbers, BoundsAssumption
    <3>2. PICK p \in Portfolios, f \in Funds :
             /\ portfolio[p] # "none" /\ fund[f] # "none" /\ PfsOf(p) \cap PfsOfFund(f) = {}
             /\ pfs' = With(pfs, NewPf, [portfolio |-> p, fund |-> f])
      BY <2>5
    <3>3. PICK row \in [portfolio : Portfolios, fund : Funds] : row = [portfolio |-> p, fund |-> f]
      OBVIOUS
    <3>4. row.portfolio = p /\ row.fund = f
      BY <3>3
    <3>5. /\ DOMAIN pfs' = DOMAIN pfs \cup {NewPf}
          /\ \A x \in DOMAIN pfs' : pfs'[x] = IF x = NewPf THEN row ELSE pfs[x]
      BY <3>2, <3>3 DEF With
    <3>6. \A x \in DOMAIN pfs : /\ x \in 1..MaxPfs /\ pfs[x] \in [portfolio : Portfolios, fund : Funds]
                               /\ portfolio[pfs[x].portfolio] # "none" /\ fund[pfs[x].fund] # "none"
                               /\ \A y \in DOMAIN pfs \ {x} : pfs[y] # pfs[x]
      BY <1>1 DEF CatalogOK
    <3>7. \A x \in DOMAIN pfs' : x \in 1..MaxPfs /\ pfs'[x] \in [portfolio : Portfolios, fund : Funds]
      BY <3>1, <3>3, <3>5, <3>6
    <3>8. \A x \in DOMAIN pfs' : portfolio[pfs'[x].portfolio] # "none" /\ fund[pfs'[x].fund] # "none"
      BY <3>2, <3>4, <3>5, <3>6
    <3>9. \A x \in DOMAIN pfs : pfs[x] # row
      BY <3>2, <3>4 DEF PfsOf, PfsOfFund
    <3>10. \A x \in DOMAIN pfs' : \A y \in DOMAIN pfs' \ {x} : pfs'[y] # pfs'[x]
      BY <3>5, <3>6, <3>9
    <3> QED
      BY <1>1, <2>1, <2>5, <3>7, <3>8, <3>10 DEF CatalogOK
  <2> QED
    BY <1>4, <2>2, <2>3, <2>4, <2>5 DEF ChangesCatalog
<1>5. CASE EntersPrices
  BY <1>2, <1>5 DEF EntersPrices, Enters
<1> QED
  BY <1>2, <1>3, <1>4, <1>5, KindsOfSteps
  DEF TablesKept, WritesRow, PutsRows, Continued

(* So do transactions, gains and dividends.                                *)
LEMMA LedgerStays ==
  ASSUME BooksInv, Next
  PROVE  LedgerOK'
<1>1. CatalogOK /\ RequestsOK /\ LedgerOK
  BY DEF BooksInv
<1>2. UNCHANGED <<fund, pfs, transaction, dividend>> => LedgerOK'
  BY <1>1 DEF LedgerOK
<1>3. CASE \E c \in Clients : \E d, link : WritesRow(c, d, link)
  <2>1. PICK c, d, link : c \in Clients /\ WritesRow(c, d, link)
    BY <1>3
  <2>2. PICK r : r = request[c]
    OBVIOUS
  <2>3. /\ IsWritten(d, r, link) /\ LinksTo(r, link) /\ UNCHANGED <<fund, pfs>>
        /\ IsDividendRequest(r) /\ r.row.pf \in DOMAIN pfs
        /\ c \in DividendRequests
    BY <1>1, <2>1, <2>2, KindsOfRequests DEF WritesRow
  <2>4. fund[r.row.fund] # "none"
    <3>1. CASE r.op = "create"
      BY <1>1, <2>2, <2>3, <3>1 DEF BooksInv, OwnFund, Row, CatalogOK
    <3>2. CASE r.op = "update"
      BY <1>1, <2>2, <2>3, <3>2 DEF BooksInv, OwnFund, Row, LedgerOK, IsWritten
    <3> QED
      BY <2>3, <3>1, <3>2 DEF IsWritten
  <2>5. \A i \in DOMAIN transaction' : /\ i \in 1..MaxTxns /\ transaction'[i] \in Transactions
                                       /\ transaction'[i].pf \in DOMAIN pfs'
    BY <1>1, <2>3 DEF LinksTo, LedgerOK
  <2>6. link \in DOMAIN transaction' \cup {0}
    BY <2>3 DEF LinksTo
  <2>7. DOMAIN transaction \subseteq DOMAIN transaction'
    BY <2>3 DEF LinksTo
  <2>8. \A e \in DOMAIN dividend' : /\ e \in 1..MaxDividends /\ IsRow(dividend'[e])
                                    /\ dividend'[e].pf \in DOMAIN pfs'
                                    /\ fund'[dividend'[e].fund] # "none"
                                    /\ dividend'[e].link \in DOMAIN transaction' \cup {0}
    BY <1>1, <2>3, <2>4, <2>6, <2>7 DEF IsWritten, LedgerOK
  <2> QED
    BY <2>5, <2>8 DEF LedgerOK
<1>4. CASE \E booked, L : PutsRows(L) /\ Remember(transaction', dividend', booked, L)
  BY <1>1, <1>4 DEF PutsRows, LedgerOK
<1>5. CASE DropsSome
  BY <1>1, <1>5 DEF DropsSome, DropsRows, LedgerOK
<1>6. CASE ChangesCatalog
  <2>1. UNCHANGED <<transaction, dividend>>
    BY <1>6 DEF ChangesCatalog
  <2>2. DOMAIN pfs \subseteq DOMAIN pfs'
    BY <1>6 DEF ChangesCatalog, With
  <2>3. \A d \in DOMAIN dividend : fund'[dividend[d].fund] # "none"
    <3>1. \A d \in DOMAIN dividend : dividend[d].fund \in Funds /\ fund[dividend[d].fund] # "none"
      BY <1>1 DEF LedgerOK, IsRow
    <3>2. DOMAIN fund = Funds
      BY <1>1 DEF CatalogOK
    <3> QED
      BY <1>6, <3>1, <3>2 DEF ChangesCatalog, ValidDividendType
  <2> QED
    BY <1>1, <2>1, <2>2, <2>3 DEF LedgerOK
<1>7. CASE EntersPrices
  BY <1>2, <1>7 DEF EntersPrices, Enters
<1> QED
  BY <1>2, <1>3, <1>4, <1>5, <1>6, <1>7, KindsOfSteps
  DEF TablesKept, Continued

(* So do the history variables.                                            *)
LEMMA HistoryStays ==
  ASSUME BooksInv, Next
  PROVE  HistoryOK'
<1>1. PricesOK /\ LedgerOK /\ HistoryOK
  BY DEF BooksInv
<1>2. UNCHANGED <<past, transaction>> => HistoryOK'
  BY <1>1 DEF HistoryOK
<1>3. ASSUME NEW booked, NEW L, Remember(transaction', dividend', booked, L) PROVE HistoryOK'
  BY <1>1, <1>3, RememberedPast DEF HistoryOK
<1>4. CASE \E c \in Clients : Continued(c) /\ KeepsHistory
  BY <1>1, <1>4 DEF Continued, KeepsHistory, HistoryOK
<1>5. CASE EntersPrices
  <2>1. PICK f \in Funds, rows \in Seq([day : Days, price : Int]) :
           Enters(f, rows) /\ \A k \in DOMAIN rows : rows[k].price > 0
    BY <1>5 DEF EntersPrices
  <2>2. PICK E : EntersFor(f, E)
    BY <1>1, <2>1, EnteredRows
  <2>3. UNCHANGED transaction
    BY <2>1 DEF Enters
  <2>4. {[fund |-> f, day |-> d, price |-> E[d]] : d \in DOMAIN E} \subseteq [fund : Funds, day : Days, price : Int]
    BY <2>2 DEF EntersFor, Positive
  <2>5. past'.entered \subseteq [fund : Funds, day : Days, price : Int]
    BY <1>1, <2>2, <2>4 DEF EntersFor, HistoryOK
  <2> QED
    BY <1>1, <2>2, <2>3, <2>5 DEF EntersFor, HistoryOK
<1> QED
  BY <1>2, <1>3, <1>4, <1>5, KindsOfSteps
  DEF TablesKept, WritesRow, DropsSome, DropsRows, ChangesCatalog
-----------------------------------------------------------------------------
(* What requests in flight still know of the tables when they write. *)

(* One request in flight changes: the other dividend requests are those    *)
(* there were.                                                             *)
LEMMA RequestsWithRows ==
  ASSUME RequestsOK, NEW c \in Clients, NEW q, IsRequest(q), request' = [request EXCEPT ![c] = q]
  PROVE  /\ \A k \in DividendRequests' \ {c} : k \in DividendRequests /\ request'[k] = request[k]
         /\ c \in DividendRequests' => IsDividendRequest(q)
         /\ request'[c] = q
<1>1. /\ request'[c] = q
      /\ \A k \in Clients \ {c} : request'[k] = request[k]
  BY RequestsAfter
<1>2. DividendRequests' = {k \in Clients : request'[k] # Idle /\ "row" \in DOMAIN request'[k]}
  BY DEF DividendRequests, InFlight
<1>3. \A k \in DividendRequests' \ {c} : k \in DividendRequests /\ request'[k] = request[k]
  BY <1>1, <1>2 DEF DividendRequests, InFlight
<1>4. IsPriceUpdate(q) => "row" \notin DOMAIN q
  BY DEF IsPriceUpdate, UpdateFields
<1>5. c \in DividendRequests' => IsDividendRequest(q)
  BY <1>1, <1>2, <1>4 DEF IsRequest
<1> QED
  BY <1>1, <1>3, <1>5

(* Which requests are about dividends depends on the requests alone.       *)
LEMMA RequestsKept ==
  ASSUME request' = request
  PROVE  DividendRequests' = DividendRequests
  BY DEF DividendRequests, InFlight

(* What a request has read of its dividend's fund and link stays true, or  *)
(* is only its own to write.                                               *)
LEMMA Ownership ==
  ASSUME BooksInv, Next
  PROVE  OwnFund' /\ OwnLink'
<1>1. RequestsOK /\ CatalogOK /\ LedgerOK /\ OwnFund /\ OwnLink
  BY DEF BooksInv
<1>2. IsRequest(Idle) /\ \A q : IsDividendRequest(q) \/ IsPriceUpdate(q) => IsRequest(q)
  BY DEF IsRequest
<1>4. ~IsDividendRequest(Idle)
  BY DEF IsDividendRequest, Idle, DividendFields
<1>5. ASSUME NEW c \in Clients, NEW q, q = Idle \/ IsPriceUpdate(q), request' = [request EXCEPT ![c] = q]
      PROVE  /\ DividendRequests' \subseteq DividendRequests \ {c}
             /\ \A k \in DividendRequests' : request'[k] = request[k]
  <2>1. ~IsDividendRequest(q)
    BY <1>4, <1>5 DEF IsDividendRequest, IsPriceUpdate, DividendFields, UpdateFields
  <2> QED
    BY <1>1, <1>2, <1>5, <2>1, RequestsWithRows
<1>6. ASSUME DividendRequests' \subseteq DividendRequests,
             \A k \in DividendRequests' : request'[k] = request[k],
             DOMAIN pfs' \subseteq DOMAIN pfs, \A x \in DOMAIN pfs' : pfs'[x] = pfs[x],
             DOMAIN dividend' \subseteq DOMAIN dividend,
             \A d \in DOMAIN dividend' : dividend'[d] = dividend[d]
      PROVE  OwnFund' /\ OwnLink'
  BY <1>1, <1>6 DEF OwnFund, OwnLink, Row
<1>7. CASE \E c \in Clients : Continued(c) \/ (request' = [request EXCEPT ![c] = Idle] /\ TablesKept)
  <2>1. PICK c, q : /\ c \in Clients
                    /\ q = Idle \/ IsPriceUpdate(q)
                    /\ request' = [request EXCEPT ![c] = q]
                    /\ UNCHANGED <<pfs, dividend>>
    BY <1>7 DEF Continued, TablesKept
  <2>2. DividendRequests' \subseteq DividendRequests /\ \A k \in DividendRequests' : request'[k] = request[k]
    BY <1>5, <2>1
  <2> QED
    BY <1>6, <2>1, <2>2
<1>8. CASE \E c \in Clients : \E q : Asking(c, q) /\ TablesKept
  <2>1. PICK c, q : c \in Clients /\ Asking(c, q) /\ TablesKept
    BY <1>8
  <2>2. /\ UNCHANGED <<pfs, dividend>> /\ IsDividendRequest(q) /\ ReadFromTables(q)
        /\ request' = [request EXCEPT ![c] = q]
    BY <2>1 DEF Asking, TablesKept
  <2>3. /\ \A k \in DividendRequests' \ {c} : k \in DividendRequests /\ request'[k] = request[k]
        /\ request'[c] = q
    BY <1>1, <1>2, <2>1, <2>2, RequestsWithRows
  <2>4. q.op = "create" => q.row.link = 0
    BY <2>2 DEF IsDividendRequest
  <2>5. OwnFund'
    BY <1>1, <2>2, <2>3 DEF OwnFund, ReadFromTables, Row
  <2>6. \A d \in DOMAIN dividend :
          dividend[d].link # 0 /\ dividend[d].link = q.row.link => d = q.id
    BY <1>1, <2>2, <2>4 DEF OwnLink, ReadFromTables
  <2>7. \A k \in DividendRequests : q.row.link # 0 /\ q.row.link = Row(k).link => q.id = request[k].id
    BY <1>1, <2>2, <2>4 DEF OwnLink, ReadFromTables
  <2>8. OwnLink'
    <3>1. \A d, e \in DOMAIN dividend' :
            dividend'[d].link # 0 /\ dividend'[d].link = dividend'[e].link => d = e
      BY <1>1, <2>2 DEF OwnLink
    <3>2. \A k \in DividendRequests', d \in DOMAIN dividend' :
            dividend'[d].link # 0 /\ dividend'[d].link = request'[k].row.link => d = request'[k].id
      BY <1>1, <2>2, <2>3, <2>6 DEF OwnLink, Row
    <3>3. \A k, l \in DividendRequests' :
            request'[k].row.link # 0 /\ request'[k].row.link = request'[l].row.link =>
              request'[k].id = request'[l].id
      BY <1>1, <2>3, <2>7 DEF OwnLink, Row
    <3> QED
      BY <3>1, <3>2, <3>3 DEF OwnLink, Row
  <2> QED
    BY <2>5, <2>8
<1>9. CASE \E c \in Clients : \E q : c \in DividendRequests /\ Reading(c, q) /\ TablesKept
  <2>1. PICK c, q : c \in Clients /\ c \in DividendRequests /\ Reading(c, q) /\ TablesKept
    BY <1>9
  <2>2. /\ UNCHANGED <<pfs, dividend>> /\ IsDividendRequest(q)
        /\ request' = [request EXCEPT ![c] = q]
        /\ q.op = request[c].op /\ q.id = request[c].id
        /\ q.row.pf = request[c].row.pf /\ q.row.fund = request[c].row.fund
        /\ q.row.link = request[c].row.link
    BY <2>1 DEF Reading, TablesKept
  <2>3. /\ \A k \in DividendRequests' \ {c} : k \in DividendRequests /\ request'[k] = request[k]
        /\ request'[c] = q
    BY <1>1, <1>2, <2>1, <2>2, RequestsWithRows
  <2>4. \A k \in DividendRequests' : /\ k \in DividendRequests
                                     /\ request'[k].op = request[k].op /\ request'[k].id = request[k].id
                                     /\ request'[k].row.pf = request[k].row.pf
                                     /\ request'[k].row.fund = request[k].row.fund
                                     /\ request'[k].row.link = request[k].row.link
    BY <2>1, <2>2, <2>3
  <2>5. OwnFund'
    BY <1>1, <2>2, <2>4 DEF OwnFund, Row
  <2>6. OwnLink'
    BY <1>1, <2>2, <2>4 DEF OwnLink, Row
  <2> QED
    BY <2>5, <2>6
<1>10. CASE \E c \in Clients : \E d, link : WritesRow(c, d, link)
  <2>1. PICK c, d, link : c \in Clients /\ WritesRow(c, d, link)
    BY <1>10
  <2>2. PICK r : r = request[c]
    OBVIOUS
  <2>3. /\ IsWritten(d, r, link) /\ LinksTo(r, link) /\ UNCHANGED pfs
        /\ request' = [request EXCEPT ![c] = Idle] /\ c \in DividendRequests
    BY <1>1, <2>1, <2>2, KindsOfRequests DEF WritesRow
  <2>4. DividendRequests' \subseteq DividendRequests \ {c} /\ \A k \in DividendRequests' : request'[k] = request[k]
    BY <1>5, <2>1, <2>3
  <2>5. /\ DOMAIN dividend' = DOMAIN dividend \cup {d}
        /\ \A e \in DOMAIN dividend \ {d} : dividend'[e] = dividend[e]
        /\ dividend'[d].fund = r.row.fund /\ dividend'[d].link = link
        /\ \/ r.op # "create" /\ d = r.id /\ d \in DOMAIN dividend
           \/ d \notin DOMAIN dividend /\ \A k \in DividendRequests : request[k].id # d
    BY <2>3 DEF IsWritten
  <2>6. d \in DOMAIN dividend => dividend'[d].fund = dividend[d].fund
    BY <1>1, <2>2, <2>3, <2>5 DEF OwnFund, Row
  <2>7. OwnFund'
    BY <1>1, <2>3, <2>4, <2>5, <2>6 DEF OwnFund, Row
  <2>8. \/ link = r.row.link
        \/ /\ r.row.link = 0 /\ link # 0 /\ link \notin DOMAIN transaction
           /\ \A k \in DividendRequests : request[k].row.link # link
    BY <2>3 DEF LinksTo
  <2>9. \A e \in DOMAIN dividend \ {d} : dividend[e].link # link \/ link = 0
    <3>1. CASE link = r.row.link
      <4>1. CASE link = 0
        BY <4>1
      <4>2. CASE link # 0
        <5>1. d = r.id
          BY <2>1, <2>2, <2>3, <3>1, <4>2 DEF IsWritten, WritesRow, IsDividendRequest
        <5> QED
          BY <1>1, <2>2, <2>3, <3>1, <4>2, <5>1 DEF OwnLink, Row
      <4> QED
        BY <4>1, <4>2
    <3>2. CASE link # 0 /\ link \notin DOMAIN transaction
      BY <1>1, <3>2 DEF LedgerOK
    <3> QED
      BY <2>8, <3>1, <3>2
  <2>10. \A e, f \in DOMAIN dividend' :
           dividend'[e].link # 0 /\ dividend'[e].link = dividend'[f].link => e = f
    BY <1>1, <2>5, <2>9 DEF OwnLink
  <2>11. \A k \in DividendRequests' : link # 0 /\ link = request[k].row.link => d = request[k].id
    <3>1. CASE link = r.row.link
      <4>1. link # 0 => d = r.id
        BY <2>1, <2>2, <2>3, <3>1 DEF IsWritten, WritesRow, IsDividendRequest
      <4> QED
        BY <1>1, <2>2, <2>3, <2>4, <3>1, <4>1 DEF OwnLink, Row
    <3> QED
      BY <2>4, <2>8, <3>1
  <2>12. \A k \in DividendRequests', e \in DOMAIN dividend' :
           dividend'[e].link # 0 /\ dividend'[e].link = request'[k].row.link => e = request'[k].id
    BY <1>1, <2>4, <2>5, <2>11 DEF OwnLink, Row
  <2>13. \A k, l \in DividendRequests' :
           request'[k].row.link # 0 /\ request'[k].row.link = request'[l].row.link =>
             request'[k].id = request'[l].id
    BY <1>1, <2>4 DEF OwnLink, Row
  <2>14. OwnLink'
    BY <2>10, <2>12, <2>13 DEF OwnLink, Row
  <2> QED
    BY <2>7, <2>14
<1>11. CASE \E booked, L : PutsRows(L) /\ Remember(transaction', dividend', booked, L)
  BY <1>6, <1>11, RequestsKept DEF PutsRows
<1>12. CASE DropsSome
  <2>1. DividendRequests' \subseteq DividendRequests /\ \A k \in DividendRequests' : request'[k] = request[k]
    BY <1>5, <1>12, RequestsKept DEF DropsSome
  <2>2. /\ DOMAIN pfs' \subseteq DOMAIN pfs /\ \A x \in DOMAIN pfs' : pfs'[x] = pfs[x]
        /\ DOMAIN dividend' \subseteq DOMAIN dividend
        /\ \A d \in DOMAIN dividend' : dividend'[d] = dividend[d]
    BY <1>12 DEF DropsSome, DropsRows
  <2> QED
    BY <1>6, <2>1, <2>2
<1>13. CASE ChangesCatalog
  <2>1. UNCHANGED <<dividend, request>> /\ DividendRequests' = DividendRequests
    BY <1>13, RequestsKept DEF ChangesCatalog
  <2>2. CASE UNCHANGED pfs
    BY <1>6, <2>1, <2>2
  <2>3. CASE NewPf # 0 /\ \E p \in Portfolios, f \in Funds :
                            pfs' = With(pfs, NewPf, [portfolio |-> p, fund |-> f])
    <3>1. PICK new : new = NewPf
      OBVIOUS
    <3>2. \A k \in DividendRequests : request[k].row.pf # new
      BY <1>1, <2>3, <3>1, NewNumbers
    <3>3. DOMAIN pfs' = DOMAIN pfs \cup {new} /\ \A x \in DOMAIN pfs \ {new} : pfs'[x] = pfs[x]
      BY <2>3, <3>1 DEF With
    <3>4. OwnFund'
      BY <1>1, <2>1, <3>2, <3>3 DEF OwnFund, Row
    <3>5. OwnLink'
      BY <1>1, <2>1 DEF OwnLink, Row
    <3> QED
      BY <3>4, <3>5
  <2> QED
    BY <1>13, <2>2, <2>3 DEF ChangesCatalog
<1>14. CASE EntersPrices
  BY <1>6, <1>14, RequestsKept DEF EntersPrices, Enters
<1> QED
  BY <1>7, <1>8, <1>9, <1>10, <1>11, <1>12, <1>13, <1>14, KindsOfSteps
-----------------------------------------------------------------------------
(* Sells and their gains. *)

GainFits(g, t, row) ==
  /\ g.day = t.day /\ g.shares = t.shares /\ g.proceeds = t.shares * t.price
  /\ [portfolio |-> g.portfolio, fund |-> g.fund] = row

(* GainsFollowSells, row by row. *)
RowsHaveGains ==
  /\ \A g \in gains : g.of \in DOMAIN transaction
  /\ \A i \in DOMAIN transaction \ past.unbooked :
       transaction[i].type = "sell" => \E g \in gains : g.of = i
  /\ \A g \in gains : g.of \notin past.unbooked =>
       /\ transaction[g.of].type = "sell"
       /\ \A h \in gains : g.of = h.of => g = h
       /\ GainFits(g, transaction[g.of], pfs[transaction[g.of].pf])

(* GainsFollowSells, a row at a time.                                      *)
LEMMA GainsByRow == GainsFollowSells <=> RowsHaveGains
<1>1. ASSUME GainsFollowSells PROVE RowsHaveGains
  <2>1. \A g \in gains : g.of \in DOMAIN transaction
    BY <1>1 DEF GainsFollowSells
  <2>2. \A i \in DOMAIN transaction \ past.unbooked :
          transaction[i].type = "sell" => \E g \in gains : g.of = i
    BY <1>1 DEF GainsFollowSells, SellsOf
  <2>3. ASSUME NEW g \in gains, g.of \notin past.unbooked
        PROVE  /\ transaction[g.of].type = "sell"
               /\ \A h \in gains : g.of = h.of => g = h
               /\ GainFits(g, transaction[g.of], pfs[transaction[g.of].pf])
    <3>1. g.of \in SellsOf(transaction)
      BY <1>1, <2>3 DEF GainsFollowSells
    <3>2. g \in {k \in gains : k.of \notin past.unbooked}
      BY <2>3
    <3> QED
      BY <1>1, <3>1, <3>2 DEF GainsFollowSells, SellsOf, GainFits
  <2> QED
    BY <2>1, <2>2, <2>3 DEF RowsHaveGains
<1>2. ASSUME RowsHaveGains PROVE GainsFollowSells
  <2>1. (SellsOf(transaction) \ past.unbooked) \subseteq {g.of : g \in gains}
    BY <1>2 DEF RowsHaveGains, SellsOf
  <2>2. {g.of : g \in gains} \subseteq DOMAIN transaction
    BY <1>2 DEF RowsHaveGains
  <2>3. ({g.of : g \in gains} \ past.unbooked) \subseteq SellsOf(transaction)
    BY <1>2 DEF RowsHaveGains, SellsOf
  <2>4. ASSUME NEW g \in {k \in gains : k.of \notin past.unbooked}
        PROVE  /\ \A h \in gains : g.of = h.of => g = h
               /\ GainFits(g, transaction[g.of], pfs[transaction[g.of].pf])
    BY <1>2, <2>4 DEF RowsHaveGains
  <2> QED
    BY <2>1, <2>2, <2>3, <2>4 DEF GainsFollowSells, GainFits
<1> QED
  BY <1>1, <1>2

(* Rows are added or changed without booking: those that are or were sells become unbooked. *)
LEMMA UnbookedWrites ==
  ASSUME BooksInv, gains' = gains, UNCHANGED pfs, DOMAIN transaction \subseteq DOMAIN transaction', NEW L,
         Remember(transaction', dividend', {}, L)
  PROVE  GainsFollowSells'
<1>1. HistoryOK /\ LedgerOK /\ GainsFollowSells
  BY DEF BooksInv
<1>2. past'.unbooked = (past.unbooked \cup SellsTouched(transaction, transaction')) \cap DOMAIN transaction'
  BY <1>1, RememberedPast
<1>3. \A i \in DOMAIN transaction' \ past'.unbooked :
        transaction'[i].type = "sell" => i \in DOMAIN transaction /\ transaction'[i] = transaction[i]
  BY <1>2 DEF SellsTouched, SellsOf
<1>4. \A i \in DOMAIN transaction \ past'.unbooked :
        transaction[i].type = "sell" => transaction'[i] = transaction[i] /\ i \notin past.unbooked
  BY <1>2 DEF SellsTouched, SellsOf
<1>5. \A i \in DOMAIN transaction' \ past'.unbooked : i \notin past.unbooked
  BY <1>2
<1>6. \A g \in gains' : g.of \in DOMAIN transaction'
  BY <1>1, GainsByRow DEF RowsHaveGains
<1>7. \A i \in DOMAIN transaction' \ past'.unbooked :
        transaction'[i].type = "sell" => \E g \in gains' : g.of = i
  BY <1>1, <1>3, <1>5, GainsByRow DEF RowsHaveGains
<1>8. \A g \in gains' : g.of \notin past'.unbooked =>
        /\ transaction'[g.of].type = "sell"
        /\ \A h \in gains' : g.of = h.of => g = h
        /\ GainFits(g, transaction'[g.of], pfs'[transaction'[g.of].pf])
  <2>1. SUFFICES ASSUME NEW g \in gains, g.of \notin past'.unbooked
        PROVE  /\ transaction'[g.of].type = "sell"
               /\ \A h \in gains' : g.of = h.of => g = h
               /\ GainFits(g, transaction'[g.of], pfs'[transaction'[g.of].pf])
    OBVIOUS
  <2>2. g.of \in DOMAIN transaction /\ g.of \notin past.unbooked
    BY <1>1, <1>5, <2>1, GainsByRow DEF RowsHaveGains
  <2>3. /\ transaction[g.of].type = "sell"
        /\ \A h \in gains : g.of = h.of => g = h
        /\ GainFits(g, transaction[g.of], pfs[transaction[g.of].pf])
    BY <1>1, <2>2, GainsByRow DEF RowsHaveGains
  <2>4. transaction'[g.of] = transaction[g.of]
    BY <1>4, <2>1, <2>2, <2>3
  <2> QED
    BY <2>3, <2>4
<1> QED
  <2>1. RowsHaveGains'
    BY <1>6, <1>7, <1>8 DEF RowsHaveGains
  <2> QED
    BY <2>1, GainsByRow, PTL

(* Rows take their gains along.                                            *)
LEMMA GainsAfterDrops ==
  ASSUME BooksInv, NEW dropped, NEW L, DropsRows(dropped, L)
  PROVE  GainsFollowSells'
<1>1. HistoryOK /\ LedgerOK /\ GainsFollowSells /\ CatalogOK
  BY DEF BooksInv
<1>2. Remember(transaction', dividend', {}, L)
  BY DEF DropsRows
<1>3. DOMAIN transaction' \subseteq DOMAIN transaction /\ \A i \in DOMAIN transaction' : transaction'[i] = transaction[i]
  BY DEF DropsRows
<1>4. past'.unbooked = (past.unbooked \cup SellsTouched(transaction, transaction')) \cap DOMAIN transaction'
  BY <1>1, <1>2, RememberedPast
<1>5. SellsTouched(transaction, transaction') = {}
  BY <1>3 DEF SellsTouched, SellsOf
<1>6. past'.unbooked = past.unbooked \cap DOMAIN transaction'
  BY <1>4, <1>5
<1>7. \A g \in gains' : g \in gains /\ g.of \in DOMAIN transaction'
  BY <1>1, GainsByRow DEF RowsHaveGains, DropsRows
<1>8. \A g \in gains : g.of \in DOMAIN transaction' /\ g.of \notin past.unbooked => g \in gains'
  <2>1. SUFFICES ASSUME NEW g \in gains, g.of \in DOMAIN transaction', g.of \notin past.unbooked, g \notin gains'
        PROVE  FALSE
    OBVIOUS
  <2>2. g.portfolio \in dropped
    BY <2>1 DEF DropsRows
  <2>3. GainFits(g, transaction[g.of], pfs[transaction[g.of].pf])
    BY <1>1, <2>1, GainsByRow DEF RowsHaveGains
  <2>4. transaction[g.of].pf \in DOMAIN pfs' /\ DOMAIN pfs' \subseteq DOMAIN pfs
    BY <2>1 DEF DropsRows
  <2>5. pfs[transaction[g.of].pf].portfolio = g.portfolio
    BY <2>3 DEF GainFits
  <2>6. pfs[transaction[g.of].pf].portfolio \notin dropped
    BY <2>4 DEF DropsRows
  <2> QED
    BY <2>2, <2>5, <2>6
<1>9. \A i \in DOMAIN transaction' \ past'.unbooked :
        transaction'[i].type = "sell" => \E g \in gains' : g.of = i
  <2>1. SUFFICES ASSUME NEW i \in DOMAIN transaction' \ past'.unbooked, transaction'[i].type = "sell"
        PROVE  \E g \in gains' : g.of = i
    OBVIOUS
  <2>2. i \in DOMAIN transaction \ past.unbooked /\ transaction[i].type = "sell"
    BY <1>3, <1>6, <2>1
  <2>3. PICK g \in gains : g.of = i
    BY <1>1, <2>2, GainsByRow DEF RowsHaveGains
  <2> QED
    BY <1>8, <2>1, <2>2, <2>3
<1>10. \A g \in gains' : g.of \notin past'.unbooked =>
        /\ transaction'[g.of].type = "sell"
        /\ \A h \in gains' : g.of = h.of => g = h
        /\ GainFits(g, transaction'[g.of], pfs'[transaction'[g.of].pf])
  <2>1. SUFFICES ASSUME NEW g \in gains', g.of \notin past'.unbooked
        PROVE  /\ transaction'[g.of].type = "sell"
               /\ \A h \in gains' : g.of = h.of => g = h
               /\ GainFits(g, transaction'[g.of], pfs'[transaction'[g.of].pf])
    OBVIOUS
  <2>2. g \in gains /\ g.of \in DOMAIN transaction' /\ g.of \notin past.unbooked
    BY <1>6, <1>7, <2>1
  <2>3. /\ transaction[g.of].type = "sell"
        /\ \A h \in gains : g.of = h.of => g = h
        /\ GainFits(g, transaction[g.of], pfs[transaction[g.of].pf])
    BY <1>1, <2>2, GainsByRow DEF RowsHaveGains
  <2>4. transaction'[g.of] = transaction[g.of] /\ transaction[g.of].pf \in DOMAIN pfs'
    BY <1>3, <2>2 DEF DropsRows
  <2>5. pfs'[transaction[g.of].pf] = pfs[transaction[g.of].pf]
    BY <2>4 DEF DropsRows
  <2> QED
    BY <1>7, <2>3, <2>4, <2>5
<1> QED
  <2>1. RowsHaveGains'
    BY <1>7, <1>9, <1>10 DEF RowsHaveGains
  <2> QED
    BY <2>1, GainsByRow, PTL

(* A row that is booked gets the gain its new values call for. *)
LEMMA BookedWrite ==
  ASSUME BooksInv, NEW i, NEW t \in Transactions, t.pf \in DOMAIN pfs, UNCHANGED pfs, NEW L,
         Remember(transaction', dividend', {i}, L),
         DOMAIN transaction' = DOMAIN transaction \cup {i}, transaction'[i] = t,
         \A j \in DOMAIN transaction \ {i} : transaction'[j] = transaction[j],
         gains' = GainOf(transaction', i) \cup
                  (IF i \in DOMAIN transaction /\ transaction[i].type = "sell" THEN GainsWithout(i) ELSE gains)
  PROVE  GainsFollowSells'
<1>1. HistoryOK /\ LedgerOK /\ GainsFollowSells /\ CatalogOK
  BY DEF BooksInv
<1>2. past'.unbooked = ((past.unbooked \ ({i} \cap SellsOf(transaction))) \cup
                        (SellsTouched(transaction, transaction') \ {i})) \cap DOMAIN transaction'
  BY <1>1, RememberedPast
<1>3. SellsTouched(transaction, transaction') \subseteq {i}
  BY DEF SellsTouched, SellsOf
<1>4. past'.unbooked = past.unbooked \ ({i} \cap SellsOf(transaction))
  BY <1>1, <1>2, <1>3 DEF HistoryOK
<1>5. PICK new : new = Gain(transaction', i)
  OBVIOUS
<1>6. new.of = i /\ GainFits(new, t, pfs[t.pf])
  <2>1. pfs[t.pf] \in [portfolio : Portfolios, fund : Funds]
    BY <1>1 DEF CatalogOK
  <2>2. /\ new.of = i /\ new.portfolio = pfs[t.pf].portfolio /\ new.fund = pfs[t.pf].fund
        /\ new.day = t.day /\ new.shares = t.shares /\ new.proceeds = t.shares * t.price
    BY <1>5 DEF Gain
  <2> QED
    BY <2>1, <2>2 DEF GainFits
<1>7. \A g : g \in gains' <=> \/ t.type = "sell" /\ g = new
                              \/ /\ g \in gains
                                 /\ i \in DOMAIN transaction /\ transaction[i].type = "sell" => g.of # i
  <2>1. GainOf(transaction', i) = IF t.type = "sell" THEN {new} ELSE {}
    BY <1>5 DEF GainOf
  <2> QED
    BY <2>1 DEF GainsWithout
<1>8. \A g \in gains' : g.of \in DOMAIN transaction'
  BY <1>1, <1>6, <1>7, GainsByRow DEF RowsHaveGains
<1>9. \A j \in DOMAIN transaction' \ past'.unbooked :
        transaction'[j].type = "sell" => \E g \in gains' : g.of = j
  <2>1. SUFFICES ASSUME NEW j \in DOMAIN transaction' \ past'.unbooked, transaction'[j].type = "sell"
        PROVE  \E g \in gains' : g.of = j
    OBVIOUS
  <2>2. CASE j = i
    BY <1>6, <1>7, <2>1, <2>2
  <2>3. CASE j # i
    <3>1. j \in DOMAIN transaction \ past.unbooked /\ transaction[j].type = "sell"
      BY <1>4, <2>1, <2>3
    <3>2. PICK g \in gains : g.of = j
      BY <1>1, <3>1, GainsByRow DEF RowsHaveGains
    <3> QED
      BY <1>7, <2>3, <3>2
  <2> QED
    BY <2>2, <2>3
<1>10. \A g \in gains' : g.of \notin past'.unbooked =>
        /\ transaction'[g.of].type = "sell"
        /\ \A h \in gains' : g.of = h.of => g = h
        /\ GainFits(g, transaction'[g.of], pfs'[transaction'[g.of].pf])
  <2>1. SUFFICES ASSUME NEW g \in gains', g.of \notin past'.unbooked
        PROVE  /\ transaction'[g.of].type = "sell"
               /\ \A h \in gains' : g.of = h.of => g = h
               /\ GainFits(g, transaction'[g.of], pfs'[transaction'[g.of].pf])
    OBVIOUS
  <2>2. CASE g.of = i
    <3>1. \A h \in gains : h.of = i => i \in DOMAIN transaction /\ transaction[i].type = "sell"
      <4>1. SUFFICES ASSUME NEW h \in gains, h.of = i
            PROVE  i \in DOMAIN transaction /\ transaction[i].type = "sell"
        OBVIOUS
      <4>2. i \in DOMAIN transaction
        BY <1>1, <4>1, GainsByRow DEF RowsHaveGains
      <4>3. i \in past.unbooked => i \in SellsOf(transaction)
        BY <1>4, <2>1, <2>2
      <4>4. i \notin past.unbooked => transaction[i].type = "sell"
        BY <1>1, <4>1, GainsByRow DEF RowsHaveGains
      <4> QED
        BY <4>2, <4>3, <4>4 DEF SellsOf
    <3>2. \A h \in gains' : h.of = i => h = new /\ t.type = "sell"
      BY <1>7, <3>1
    <3> QED
      BY <1>6, <2>1, <2>2, <3>2
  <2>3. CASE g.of # i
    <3>1. g \in gains /\ g.of \in DOMAIN transaction /\ g.of \notin past.unbooked
      BY <1>1, <1>4, <1>6, <1>7, <2>1, <2>3, GainsByRow DEF RowsHaveGains
    <3>2. /\ transaction[g.of].type = "sell"
          /\ \A h \in gains : g.of = h.of => g = h
          /\ GainFits(g, transaction[g.of], pfs[transaction[g.of].pf])
      BY <1>1, <3>1, GainsByRow DEF RowsHaveGains
    <3>3. \A h \in gains' : g.of = h.of => h \in gains
      BY <1>6, <1>7, <2>3
    <3> QED
      BY <2>3, <3>1, <3>2, <3>3
  <2> QED
    BY <2>2, <2>3
<1> QED
  <2>1. RowsHaveGains'
    BY <1>8, <1>9, <1>10 DEF RowsHaveGains
  <2> QED
    BY <2>1, GainsByRow, PTL

(* No step loses a gain or leaves one behind.                              *)
LEMMA GainsStay ==
  ASSUME BooksInv, Next
  PROVE  GainsFollowSells'
<1>1. RequestsOK /\ CatalogOK /\ LedgerOK /\ HistoryOK /\ GainsFollowSells
  BY DEF BooksInv
<1>2. ASSUME UNCHANGED <<transaction, gains>>, past'.unbooked = past.unbooked,
             \A x \in DOMAIN pfs : pfs'[x] = pfs[x]
      PROVE  GainsFollowSells'
  <2>1. \A i \in DOMAIN transaction : transaction[i].pf \in DOMAIN pfs
    BY <1>1 DEF LedgerOK
  <2>2. \A g \in gains : g.of \notin past.unbooked =>
          /\ transaction[g.of].type = "sell"
          /\ \A h \in gains : g.of = h.of => g = h
          /\ GainFits(g, transaction[g.of], pfs'[transaction[g.of].pf])
    BY <1>1, <1>2, <2>1, GainsByRow DEF RowsHaveGains
  <2>3. /\ \A g \in gains : g.of \in DOMAIN transaction
        /\ \A i \in DOMAIN transaction \ past.unbooked :
             transaction[i].type = "sell" => \E g \in gains : g.of = i
    BY <1>1, GainsByRow DEF RowsHaveGains
  <2>4. RowsHaveGains'
    BY <1>2, <2>2, <2>3 DEF RowsHaveGains
  <2> QED
    BY <2>4, GainsByRow, PTL
<1>3. CASE TransactionRequest
  <2>1. CASE \E t \in Asked.transactions : CreateTransaction(t)
    <3>1. PICK t \in Asked.transactions : CreateTransaction(t)
      BY <2>1
    <3>2. PICK i, L : /\ i \in 1..MaxTxns /\ i \notin DOMAIN transaction
                      /\ t \in Transactions /\ t.pf \in DOMAIN pfs
                      /\ transaction' = With(transaction, i, t)
                      /\ gains' = gains \cup GainOf(With(transaction, i, t), i)
                      /\ Remember(transaction', dividend', {i}, L) /\ PutsRows(L)
      BY <1>1, <3>1, CreatedRow
    <3>3. /\ DOMAIN transaction' = DOMAIN transaction \cup {i} /\ transaction'[i] = t
          /\ \A j \in DOMAIN transaction \ {i} : transaction'[j] = transaction[j]
      BY <3>2 DEF With
    <3>4. gains' = GainOf(transaction', i) \cup
                   (IF i \in DOMAIN transaction /\ transaction[i].type = "sell" THEN GainsWithout(i) ELSE gains)
      BY <3>2
    <3>5. UNCHANGED pfs
      BY <3>2 DEF PutsRows
    <3> QED
      BY <3>2, <3>3, <3>4, <3>5, BookedWrite
  <2>2. CASE \E i \in DOMAIN transaction, c \in Asked.changes : UpdateTransaction(i, c)
    <3>1. PICK i \in DOMAIN transaction, c \in Asked.changes : UpdateTransaction(i, c)
      BY <2>2
    <3>2. PICK t, L : /\ t \in Transactions /\ t.pf \in DOMAIN pfs
                      /\ transaction' = [transaction EXCEPT ![i] = t]
                      /\ gains' = GainOf(transaction', i) \cup
                                  (IF transaction[i].type = "sell" THEN GainsWithout(i) ELSE gains)
                      /\ Remember(transaction', dividend', {i}, L) /\ PutsRows(L)
      BY <1>1, <3>1, UpdatedRow
    <3>3. /\ DOMAIN transaction' = DOMAIN transaction \cup {i} /\ transaction'[i] = t
          /\ \A j \in DOMAIN transaction \ {i} : transaction'[j] = transaction[j]
      BY <3>2
    <3>4. UNCHANGED pfs
      BY <3>2 DEF PutsRows
    <3> QED
      BY <3>2, <3>3, <3>4, BookedWrite
  <2>3. CASE \E i \in DOMAIN transaction : DeleteTransaction(i)
    BY <1>1, <2>3, DeletedRow, GainsAfterDrops
  <2>4. CASE \E rows \in Asked.imports, x \in DOMAIN pfs : ImportTransactions(x, rows)
    <3>1. PICK rows \in Asked.imports, x \in DOMAIN pfs : ImportTransactions(x, rows)
      BY <2>4
    <3>2. PICK L : gains' = gains /\ Remember(transaction', dividend', {}, L) /\ PutsRows(L)
      BY <1>1, <3>1, ImportedRows
    <3> QED
      BY <3>2, UnbookedWrites DEF PutsRows
  <2> QED
    BY <1>3, <2>1, <2>2, <2>3, <2>4 DEF TransactionRequest
<1>4. CASE \E c \in Clients : \E d, link : WritesRow(c, d, link)
  <2>1. PICK c, d, link : c \in Clients /\ WritesRow(c, d, link)
    BY <1>4
  <2> QED
    BY <2>1, UnbookedWrites DEF WritesRow, LinksTo
<1>5. CASE DropsSome
  BY <1>5, GainsAfterDrops DEF DropsSome
<1>6. CASE \E c \in Clients : Continued(c) /\ KeepsHistory
  BY <1>2, <1>6 DEF Continued, KeepsHistory
<1>7. CASE TablesKept
  BY <1>2, <1>7 DEF TablesKept
<1>8. CASE ChangesCatalog
  <2>1. \A x \in DOMAIN pfs : pfs'[x] = pfs[x]
    BY <1>1, <1>8, NewNumbers DEF ChangesCatalog, With
  <2> QED
    BY <1>2, <1>8, <2>1 DEF ChangesCatalog
<1>9. CASE EntersPrices
  <2>1. PricesOK
    BY DEF BooksInv
  <2> QED
    BY <1>1, <1>2, <1>9, <2>1, EnteredRows DEF EntersPrices, EntersFor
<1> QED
  BY <1>3, <1>4, <1>5, <1>6, <1>7, <1>8, <1>9, KindsOfSteps
-----------------------------------------------------------------------------
(* The invariant holds. *)

(* What the first rows hold, from the assumption on the inputs.            *)
LEMMA FirstRows ==
  ASSUME Init
  PROVE  /\ fund \in [Funds -> ValidDividendType]
         /\ \A x \in DOMAIN pfs : /\ x \in 1..MaxPfs /\ pfs[x] \in [portfolio : Portfolios, fund : Funds]
                                 /\ \A y \in DOMAIN pfs \ {x} : pfs[y] # pfs[x]
         /\ \A i \in DOMAIN transaction :
              /\ i \in 1..MaxTxns
              /\ transaction[i] \in [pf : DOMAIN pfs, type : {"buy", "fee"}, day : Days,
                                     shares : Nat \ {0}, price : Nat]
         /\ \A d \in DOMAIN dividend :
              /\ d \in 1..MaxDividends
              /\ dividend[d] \in
                   [fund : Funds, pf : DOMAIN pfs, ex : Days, rate : Nat, owned : Int, total : Int,
                    status : {"PENDING", "COMPLETED"}, bought : Days \cup {0}, link : {0}]
<1>1. PICK input : input = Inputs[mix]
  OBVIOUS
<1>2. fund = input.fund /\ pfs = input.pfs /\ transaction = input.transaction /\ dividend = input.dividend
      /\ mix \in DOMAIN Inputs
  BY <1>1 DEF Init, Asked
<1> HIDE DEF InputsAssumption
<1> QED
  BY <1>1, <1>2, InputsAssumption DEF InputsAssumption

(* The first rows satisfy the invariant.                                   *)
LEMMA BooksInvInit == Init => BooksInv
<1> SUFFICES ASSUME Init PROVE BooksInv
  OBVIOUS
<1>1. RequestsOK /\ DividendRequests = {}
  BY DEF Init, RequestsOK, DividendRequests, InFlight
<1>2. CatalogOK
  <2>1. portfolio \in [Portfolios -> {"none", "active", "archived"}]
    BY DEF Init
  <2>2. fund \in [Funds -> ValidDividendType \cup {"none"}] /\ \A f \in Funds : fund[f] # "none"
    BY FirstRows DEF ValidDividendType
  <2>3. \A p \in Portfolios : portfolio[p] # "none"
    BY DEF Init
  <2> QED
    BY <2>1, <2>2, <2>3, FirstRows DEF CatalogOK, Init
<1>3. LedgerOK
  <2>1. ASSUME NEW i \in DOMAIN transaction
        PROVE  i \in 1..MaxTxns /\ transaction[i] \in Transactions /\ transaction[i].pf \in DOMAIN pfs
    <3>1. transaction[i] \in [pf : DOMAIN pfs, type : {"buy", "fee"}, day : Days,
                              shares : Nat \ {0}, price : Nat]
      BY <2>1, FirstRows
    <3>2. DOMAIN pfs \subseteq 1..MaxPfs
      BY FirstRows
    <3> QED
      BY <2>1, <3>1, <3>2, FirstRows DEF Transactions, TransactionTypes
  <2>2. ASSUME NEW d \in DOMAIN dividend
        PROVE  /\ d \in 1..MaxDividends /\ IsRow(dividend[d]) /\ dividend[d].pf \in DOMAIN pfs
               /\ fund[dividend[d].fund] # "none" /\ dividend[d].link \in DOMAIN transaction \cup {0}
    <3>1. PICK row : row = dividend[d]
      OBVIOUS
    <3>2. row \in [fund : Funds, pf : DOMAIN pfs, ex : Days, rate : Nat, owned : Int, total : Int,
                   status : {"PENDING", "COMPLETED"}, bought : Days \cup {0}, link : {0}]
      BY <2>2, <3>1, FirstRows
    <3>3. DOMAIN pfs \subseteq 1..MaxPfs /\ MaxTxns \in Nat
      BY FirstRows, BoundsAssumption
    <3>4. /\ DOMAIN row = RowFields /\ row.pf \in DOMAIN pfs /\ row.fund \in Funds /\ row.link = 0
          /\ row.bought \in Days \cup {0} /\ row.status \in {"PENDING", "COMPLETED"}
          /\ row.ex \in Days /\ row.rate \in Int /\ row.total \in Int
      BY <3>2 DEF RowFields
    <3>5. IsRow(row)
      BY <3>3, <3>4 DEF IsRow, Statuses
    <3>6. fund[row.fund] # "none"
      BY <3>4, FirstRows DEF ValidDividendType
    <3> QED
      BY <2>2, <3>1, <3>4, <3>5, <3>6, FirstRows
  <2> QED
    BY <2>1, <2>2 DEF LedgerOK
<1>4. PricesOK
  BY DEF Init, PricesOK
<1>5. HistoryOK
  BY DEF Init, HistoryOK
<1>6. \A d \in DOMAIN dividend : dividend[d].link = 0
  BY FirstRows
<1>7. OwnFund /\ OwnLink
  BY <1>1, <1>6 DEF OwnFund, OwnLink
<1>8. GainsFollowSells
  <2>1. \A i \in DOMAIN transaction : transaction[i].type # "sell"
    BY FirstRows
  <2>2. gains = {}
    BY DEF Init
  <2>3. RowsHaveGains
    BY <2>1, <2>2 DEF RowsHaveGains
  <2> QED
    BY <2>3, GainsByRow
<1> QED
  BY <1>1, <1>2, <1>3, <1>4, <1>5, <1>7, <1>8 DEF BooksInv

(* Every step keeps it.                                                    *)
LEMMA BooksInvStep == BooksInv /\ [Next]_vars => BooksInv'
<1>1. ASSUME BooksInv, Next PROVE BooksInv'
  BY <1>1, RequestsStay, CatalogStays, LedgerStays, PricesStay, HistoryStays, Ownership, GainsStay
  DEF BooksInv
<1>2. ASSUME BooksInv, UNCHANGED vars PROVE BooksInv'
  <2> USE <1>2 DEF vars
  <2>1. RequestsOK' /\ DividendRequests' = DividendRequests
    BY DEF BooksInv, RequestsOK, DividendRequests, InFlight
  <2>2. CatalogOK' /\ LedgerOK' /\ PricesOK' /\ HistoryOK'
    BY DEF BooksInv, CatalogOK, LedgerOK, PricesOK, HistoryOK
  <2>3. OwnFund' /\ OwnLink'
    BY <2>1 DEF BooksInv, OwnFund, OwnLink, Row
  <2>4. RowsHaveGains'
    BY GainsByRow DEF BooksInv, RowsHaveGains
  <2>5. GainsFollowSells'
    BY <2>4, GainsByRow, PTL
  <2> QED
    BY <2>1, <2>2, <2>3, <2>5 DEF BooksInv
<1> QED
  BY <1>1, <1>2

(* So it holds of every reachable state.                                   *)
LEMMA BooksInvHolds == Spec => []BooksInv
  BY BooksInvInit, BooksInvStep, PTL DEF Spec

(* It contains the types.                                                  *)
LEMMA TypesFollow == BooksInv => BooksTypeOK
<1> SUFFICES ASSUME BooksInv PROVE BooksTypeOK
  OBVIOUS
<1>1. RequestsOK /\ CatalogOK /\ LedgerOK /\ PricesOK
  BY DEF BooksInv
<1>2. \A c \in Clients :
        request[c].step \in {"idle", "count", "reread", "write", "check", "fetch", "recheck",
                             "insert", "oldest", "missing", "next"}
  BY <1>1 DEF RequestsOK, Idle, IsDividendRequest, IsPriceUpdate
<1>3. \A x \in DOMAIN pfs : /\ x \in 1..MaxPfs
                            /\ portfolio[pfs[x].portfolio] # "none" /\ fund[pfs[x].fund] # "none"
  BY <1>1 DEF CatalogOK
<1>4. \A d \in DOMAIN dividend : dividend[d].status \in Statuses
  BY <1>1 DEF LedgerOK, IsRow
<1> QED
  BY <1>1, <1>2, <1>3, <1>4 DEF BooksTypeOK, CatalogOK, LedgerOK, PricesOK

(* Whatever requests bring, and however dividend requests and price        *)
(* updates interleave with the others, every table holds rows of its       *)
(* columns' types that refer to rows that are there, so shares are         *)
(* positive and no foreign key dangles: for all inputs and bounds.         *)
THEOREM BooksTypesAreKept == Spec => []BooksTypeOK
  BY BooksInvHolds, TypesFollow, PTL

(* Every sell a user booked has exactly one realized gain with its day,    *)
(* shares, proceeds and fund, and only sells have gains, through creates,  *)
(* updates that change the type, deletions and cascades.                   *)
THEOREM GainsAreKept == Spec => []GainsFollowSells
<1>1. BooksInv => GainsFollowSells
  BY DEF BooksInv
<1> QED
  BY <1>1, BooksInvHolds, PTL
-----------------------------------------------------------------------------
(* Dividends and their reinvestments. *)

LinkedInv ==
  /\ \A i \in DOMAIN transaction :
       transaction[i].type = "dividend" => (i \in past.loose <=> i \notin Linked(dividend))
  /\ \A d \in DOMAIN dividend : dividend[d].status = "PARTIAL" => dividend[d].link # 0

(* Nothing is linked at first.                                             *)
LEMMA LinkedInvInit == Init => LinkedInv
<1> SUFFICES ASSUME Init PROVE LinkedInv
  OBVIOUS
<1>1. \A i \in DOMAIN transaction : transaction[i].type # "dividend"
  BY FirstRows
<1>2. \A d \in DOMAIN dividend : dividend[d].status # "PARTIAL"
  BY FirstRows
<1> QED
  BY <1>1, <1>2 DEF LinkedInv

(* Every step keeps the links of reinvestments.                            *)
LEMMA LinkedInvStep ==
  ASSUME BooksInv, LinkedInv, Next
  PROVE  LinkedInv'
<1>1. HistoryOK /\ LedgerOK /\ RequestsOK
  BY DEF BooksInv
<1>2. ASSUME UNCHANGED <<transaction, dividend>>, past'.loose = past.loose PROVE LinkedInv'
  BY <1>2 DEF LinkedInv, Linked
<1>3. CASE \E booked, L : PutsRows(L) /\ Remember(transaction', dividend', booked, L)
  <2>1. PICK booked, L : PutsRows(L) /\ Remember(transaction', dividend', booked, L)
    BY <1>3
  <2>2. LooseAfter(L) /\ dividend' = dividend /\ Linked(dividend') = Linked(dividend)
    BY <1>1, <2>1, RememberedPast DEF PutsRows
  <2>3. \A i \in DOMAIN transaction' : transaction'[i].type = "dividend" =>
          i \in L \/ (i \in DOMAIN transaction /\ transaction[i].type = "dividend")
    BY <2>1 DEF PutsRows
  <2> QED
    BY <2>2, <2>3 DEF LinkedInv, LooseAfter
<1>4. CASE DropsSome
  <2>1. PICK dropped, L : DropsRows(dropped, L)
    BY <1>4 DEF DropsSome
  <2>2. /\ DOMAIN transaction' \subseteq DOMAIN transaction
        /\ \A i \in DOMAIN transaction' : transaction'[i] = transaction[i]
        /\ DOMAIN dividend' \subseteq DOMAIN dividend
        /\ \A d \in DOMAIN dividend' : dividend'[d] = dividend[d]
        /\ \A d \in DOMAIN dividend : dividend[d].link \in DOMAIN transaction' =>
             dividend[d].link \in L \cup Linked(dividend')
        /\ Remember(transaction', dividend', {}, L)
    BY <2>1 DEF DropsRows
  <2>3. LooseAfter(L)
    BY <1>1, <2>2, RememberedPast
  <2>4. ASSUME NEW i \in DOMAIN transaction', transaction'[i].type = "dividend", i \notin Linked(dividend')
        PROVE  i \in past'.loose
    <3>1. CASE i \in Linked(dividend)
      <4>1. PICK d \in DOMAIN dividend : dividend[d].link = i
        BY <3>1 DEF Linked
      <4>2. i \in L
        BY <2>2, <2>4, <4>1
      <4> QED
        BY <2>3, <2>4, <4>2 DEF LooseAfter
    <3>2. CASE i \notin Linked(dividend)
      BY <2>2, <2>3, <2>4, <3>2 DEF LinkedInv, LooseAfter
    <3> QED
      BY <3>1, <3>2
  <2>5. \A i \in past'.loose : i \notin Linked(dividend')
    BY <2>3 DEF LooseAfter
  <2>6. \A d \in DOMAIN dividend' : dividend'[d].status = "PARTIAL" => dividend'[d].link # 0
    BY <2>2 DEF LinkedInv
  <2> QED
    BY <2>4, <2>5, <2>6 DEF LinkedInv
<1>5. CASE \E c \in Clients : \E d, link : WritesRow(c, d, link)
  <2>1. PICK c, d, link : c \in Clients /\ WritesRow(c, d, link)
    BY <1>5
  <2>2. PICK r : r = request[c]
    OBVIOUS
  <2>3. IsWritten(d, r, link) /\ LinksTo(r, link) /\ Remember(transaction', dividend', {}, LostLink(r))
    BY <2>1, <2>2 DEF WritesRow
  <2>4. LooseAfter(LostLink(r))
    BY <1>1, <2>3, RememberedPast
  <2>5. ASSUME NEW i \in DOMAIN transaction', transaction'[i].type = "dividend", i \notin Linked(dividend')
        PROVE  i \in past'.loose
    <3>1. i # 0
      BY <1>1, <2>3 DEF LinksTo, LedgerOK
    <3>2. i # link
      BY <2>3, <2>5, <3>1 DEF IsWritten, Linked
    <3>3. i \in DOMAIN transaction /\ transaction[i].type = "dividend"
      BY <2>3, <2>5, <3>2 DEF LinksTo
    <3>4. CASE i \in Linked(dividend)
      <4>1. PICK e \in DOMAIN dividend : dividend[e].link = i
        BY <3>4 DEF Linked
      <4>2. e = d
        BY <2>3, <2>5, <3>1, <4>1 DEF IsWritten, Linked
      <4>3. d = r.id
        BY <2>3, <4>1, <4>2 DEF IsWritten
      <4>4. r.row.link # i
        BY <2>3, <3>1, <3>2 DEF LinksTo
      <4>5. i \in LostLink(r)
        BY <4>1, <4>2, <4>3, <4>4 DEF LostLink
      <4> QED
        BY <2>4, <2>5, <4>5 DEF LooseAfter
    <3>5. CASE i \notin Linked(dividend)
      BY <2>4, <2>5, <3>3, <3>5 DEF LinkedInv, LooseAfter
    <3> QED
      BY <3>4, <3>5
  <2>6. \A i \in past'.loose : i \notin Linked(dividend')
    BY <2>4 DEF LooseAfter
  <2>7. \A e \in DOMAIN dividend' : dividend'[e].status = "PARTIAL" => dividend'[e].link # 0
    BY <2>3 DEF IsWritten, LinksTo, LinkedInv
  <2> QED
    BY <2>5, <2>6, <2>7 DEF LinkedInv
<1>6. CASE \E c \in Clients : Continued(c) /\ KeepsHistory
  BY <1>2, <1>6 DEF Continued, KeepsHistory
<1>7. CASE TablesKept \/ ChangesCatalog
  BY <1>2, <1>7 DEF TablesKept, ChangesCatalog
<1>8. CASE EntersPrices
  <2>1. PricesOK
    BY DEF BooksInv
  <2> QED
    BY <1>1, <1>2, <1>8, <2>1, EnteredRows DEF EntersPrices, EntersFor
<1> QED
  BY <1>3, <1>4, <1>5, <1>6, <1>7, <1>8, KindsOfSteps

(* A reinvestment and its dividend come and go together, although a        *)
(* request writes what it read before its database transaction began: a    *)
(* link lost to one that read too early is the only exception.             *)
THEOREM ReinvestmentsKeepTheirLinks == Spec => []ReinvestmentsAreLinked
<1>1. BooksInv /\ LinkedInv /\ [Next]_vars => LinkedInv'
  <2>1. ASSUME LinkedInv, UNCHANGED vars PROVE LinkedInv'
    BY <2>1 DEF vars, LinkedInv, Linked
  <2> QED
    BY <2>1, LinkedInvStep
<1>2. BooksInv /\ LinkedInv => ReinvestmentsAreLinked
  BY DEF BooksInv, OwnLink, LinkedInv, ReinvestmentsAreLinked
<1> QED
  BY <1>1, <1>2, LinkedInvInit, BooksInvHolds, PTL DEF Spec
-----------------------------------------------------------------------------
(* Internal errors. *)

(* A 500 is an error that the handler does not tell apart.                 *)
LEMMA UntoldErrors ==
  ASSUME NEW ok, NEW S, NEW status, NEW error, ok # 500, status # 500,
         Answer(ok, Told(S, status), error) = 500
  PROVE  error # "none" /\ error \notin S
<1>1. DOMAIN Told(S, status) = S /\ \A e \in S : Told(S, status)[e] = status
  BY DEF Told
<1> QED
  BY <1>1, Zenon DEF Answer

(* The same for a handler with two lists of errors.                        *)
LEMMA UntoldErrorsOfTwo ==
  ASSUME NEW ok, NEW S, NEW s, NEW T, NEW t, NEW error, ok # 500, s # 500, t # 500,
         Answer(ok, Over(Told(S, s), Told(T, t)), error) = 500
  PROVE  error # "none" /\ error \notin S \cup T
<1>1. PICK told : told = Over(Told(S, s), Told(T, t))
  OBVIOUS
<1>2. DOMAIN told = S \cup T /\ \A e \in S \cup T : told[e] \in {s, t}
  BY <1>1 DEF Over, Told
<1>3. error \in S \cup T => told[error] # 500
  BY <1>2
<1> QED
  BY <1>1, <1>2, <1>3, Zenon DEF Answer

(* A foreign key refuses a deletion only when a link crosses its border.   *)
LEMMA FailedCascades ==
  ASSUME CatalogOK, LedgerOK, NEW gone, CascadeFails(gone)
  PROVE  Strayed(gone)
<1>1. PICK d \in DOMAIN dividend :
        /\ dividend[d].link # 0
        /\ transaction[dividend[d].link].pf \in gone
        /\ ~(dividend[d].pf \in gone /\ dividend[d].pf <= transaction[dividend[d].link].pf)
  BY DEF CascadeFails
<1>2. dividend[d].pf \in Int
  BY BoundsAssumption DEF LedgerOK, CatalogOK
<1>3. dividend[d].pf # transaction[dividend[d].link].pf
  BY <1>1, <1>2
<1> QED
  BY <1>1, <1>3 DEF Strayed

(* The invariant leaves only the foreseen reasons for a 500.               *)
LEMMA InternalErrorsFollow == BooksInv => InternalErrorsAreForeseen
<1> SUFFICES ASSUME BooksInv PROVE InternalErrorsAreForeseen
  OBVIOUS
<1>1. CatalogOK /\ LedgerOK /\ GainsFollowSells
  BY DEF BooksInv
<1>2. ASSUME NEW t \in Asked.transactions PROVE CreateTransactionAnswer(t) # 500
  <2>1. CreateTransactionError(t) \in {"none", "invalid", "insufficientShares", "portfolioFundNotFound"}
    BY DEF CreateTransactionError
  <2> QED
    BY <2>1, UntoldErrors DEF CreateTransactionAnswer
<1>3. ASSUME NEW i \in 1..MaxTxns, NEW c \in Asked.changes, UpdateTransactionAnswer(i, c) = 500
      PROVE  "pf" \in DOMAIN c /\ c.pf \notin DOMAIN pfs
  <2>1. UpdateTransactionError(i, c) \notin
          {"none", "invalid", "insufficientShares", "transactionNotFound"}
    BY <1>3, UntoldErrorsOfTwo DEF UpdateTransactionAnswer
  <2> QED
    BY <2>1, Zenon DEF UpdateTransactionError
<1>4. ASSUME NEW i \in 1..MaxTxns, DeleteTransactionAnswer(i) = 500 PROVE i \in Linked(dividend)
  <2>1. DeleteTransactionError(i) \notin {"none", "transactionNotFound"}
    BY <1>4, UntoldErrors DEF DeleteTransactionAnswer
  <2> QED
    BY <2>1, Zenon DEF DeleteTransactionError
<1>5. ASSUME NEW r \in Asked.dividends, CreateDividendAnswer(r) = 500 PROVE r.pf \notin DOMAIN pfs
  <2>1. CreateDividendError(r) \notin {"none", "invalid"}
    BY <1>5, UntoldErrors DEF CreateDividendAnswer
  <2>2. ASSUME r.pf \in DOMAIN pfs PROVE ListedType(r.pf) # "None"
    <3>1. fund[pfs[r.pf].fund] \in {"CASH", "STOCK", "NONE", "none"}
      BY <1>1, <2>2 DEF CatalogOK, ValidDividendType
    <3> QED
      BY <3>1 DEF ListedType
  <2> QED
    BY <2>1, <2>2, Zenon DEF CreateDividendError
<1>6. ASSUME NEW d \in 1..MaxDividends, NEW u \in Asked.updates, UpdateDividendAnswer(d, u) = 500
      PROVE  "pf" \in DOMAIN u /\ u.pf \notin DOMAIN pfs
  <2>1. UpdateDividendError(d, u) \notin {"none", "invalid", "dividendNotFound"}
    BY <1>6, UntoldErrorsOfTwo DEF UpdateDividendAnswer
  <2> QED
    BY <2>1, Zenon DEF UpdateDividendError
<1>7. ASSUME NEW p \in Portfolios PROVE UpdatePortfolioAnswer(p) # 500
  <2>1. PortfolioError(p) \in {"none", "portfolioNotFound"}
    BY DEF PortfolioError
  <2> QED
    BY <2>1, UntoldErrors DEF UpdatePortfolioAnswer
<1>8. ASSUME NEW p \in Portfolios, DeletePortfolioAnswer(p) = 500 PROVE Strayed(PfsOf(p))
  <2>1. DeletePortfolioError(p) \notin {"none", "portfolioNotFound"}
    BY <1>8, UntoldErrors DEF DeletePortfolioAnswer
  <2>2. CascadeFails(PfsOf(p))
    BY <2>1, Zenon DEF DeletePortfolioError
  <2> QED
    BY <1>1, <2>2, FailedCascades
<1>9. ASSUME NEW x \in 1..MaxPfs, DeletePortfolioFundAnswer(x, TRUE) = 500 PROVE Strayed({x})
  <2>1. DeletePortfolioFundError(x) \notin {"none", "portfolioFundNotFound"}
    BY <1>9, UntoldErrors DEF DeletePortfolioFundAnswer
  <2>2. CascadeFails({x})
    BY <2>1, Zenon DEF DeletePortfolioFundError
  <2> QED
    BY <1>1, <2>2, FailedCascades
<1>10. ASSUME NEW f \in Funds, DeleteFundAnswer(f) = 500
       PROVE  \/ DOMAIN price[f] # {}
              \/ \E d \in DOMAIN dividend : dividend[d].fund = f /\ pfs[dividend[d].pf].fund # f
              \/ \E g \in gains : g.fund = f /\ g.of \in past.unbooked
  <2>1. DeleteFundError(f) \notin {"none", "fundNotFound", "inUse"}
    BY <1>10, UntoldErrorsOfTwo DEF DeleteFundAnswer
  <2>2. /\ PfsOfFund(f) = {}
        /\ \/ DOMAIN price[f] # {}
           \/ \E d \in DOMAIN dividend : dividend[d].fund = f
           \/ \E g \in gains : g.fund = f
    BY <2>1, Zenon DEF DeleteFundError
  <2>3. \A x \in DOMAIN pfs : pfs[x].fund # f
    BY <2>2 DEF PfsOfFund
  <2>4. \A d \in DOMAIN dividend : pfs[dividend[d].pf].fund # f
    BY <1>1, <2>3 DEF LedgerOK
  <2>5. ASSUME NEW g \in gains, g.fund = f PROVE g.of \in past.unbooked
    <3>1. g.of \in DOMAIN transaction /\ transaction[g.of].pf \in DOMAIN pfs
      BY <1>1, GainsOfRows DEF LedgerOK
    <3>2. PICK row : row = pfs[transaction[g.of].pf]
      OBVIOUS
    <3>3. row.fund # f
      BY <2>3, <3>1, <3>2
    <3>4. [portfolio |-> g.portfolio, fund |-> g.fund].fund = f
      BY <2>5
    <3> QED
      BY <1>1, <3>2, <3>3, <3>4, GainsByRow DEF RowsHaveGains, GainFits
  <2> QED
    BY <2>2, <2>4, <2>5
<1>11. LedgerErrorsAreForeseen
  BY <1>2, <1>3, <1>4, <1>5, <1>6 DEF LedgerErrorsAreForeseen
<1>12. CatalogErrorsAreForeseen
  BY <1>7, <1>8, <1>9, <1>10 DEF CatalogErrorsAreForeseen
<1> QED
  BY <1>11, <1>12 DEF InternalErrorsAreForeseen

(* In every state the API can get the tables into, each request it would   *)
(* answer 500 fails for one of the listed reasons: the handlers know all   *)
(* other errors the services return.                                       *)
THEOREM InternalErrorsAreKnown == Spec => []InternalErrorsAreForeseen
  BY BooksInvHolds, InternalErrorsFollow, PTL
=============================================================================
