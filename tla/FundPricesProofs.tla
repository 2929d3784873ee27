--------------------------- MODULE FundPricesProofs ---------------------------
(***************************************************************************)
(* Proofs about the prices: what users enter stays, and an update of a     *)
(* fund's history leaves no gap that it says it filled.  Both need what    *)
(* BooksProofs shows of requests in flight: an update carries only prices  *)
(* of days that have ended, and inserts them only where there are none.    *)
(***************************************************************************)
EXTENDS BooksProofs

(* Prices only ever become more, in any step. *)
PricesGrow == \A f \in Funds : DOMAIN price[f] \subseteq DOMAIN price'[f]

(* What an update in flight knows of its fund's prices P: all days it does *)
(* not miss have one, and what it will report as filled has one or is      *)
(* about to be inserted.                                                   *)
KnowsGaps(r, P) ==
  /\ r.op = "latest" => r.claimed = {}
  /\ r.op # "latest" /\ r.step = "fetch" => (r.from..Yesterday) \ r.missing \subseteq DOMAIN P[r.fund]
  /\ r.step = "insert" => r.claimed \subseteq DOMAIN P[r.fund] \cup DOMAIN r.found

FilledIn(filled, P) == \A x \in filled : x[1] \in Funds /\ x[2] \in DOMAIN P[x[1]]

GapsInv ==
  /\ \A c \in Clients : IsPriceUpdate(request[c]) => KnowsGaps(request[c], price)
  /\ FilledIn(past.filled, price)

(* A price update goes on as q. *)
Advances(c, q) ==
  /\ request' = [request EXCEPT ![c] = q]
  /\ q = Idle \/ IsPriceUpdate(q)
  /\ IsPriceUpdate(q) => KnowsGaps(q, price')
  /\ FilledIn(past'.filled, price')

(* An update goes on to its next fund without knowing anything of it.      *)
LEMMA EndedKnows ==
  ASSUME NEW r, NEW P, IsPriceUpdate(r)
  PROVE  /\ Ended(r) = Idle \/ IsPriceUpdate(Ended(r))
         /\ IsPriceUpdate(Ended(r)) => KnowsGaps(Ended(r), P)
<1>1. Ended(r) = Idle \/ IsPriceUpdate(Ended(r))
  BY EndedUpdate
<1>2. ASSUME r.op = "all" PROVE KnowsGaps(Ended(r), P)
  <2>1. PICK q : q = [r EXCEPT !.step = "next"]
    OBVIOUS
  <2>2. q.step = "next" /\ q.op = "all"
    BY <1>2, <2>1 DEF IsPriceUpdate, UpdateFields
  <2> QED
    BY <1>2, <2>1, <2>2 DEF Ended, KnowsGaps
<1>3. ~IsPriceUpdate(Idle)
  BY DEF IsPriceUpdate, UpdateFields, Idle
<1> QED
  BY <1>1, <1>2, <1>3 DEF Ended

(* An insertion adds prices.                                               *)
LEMMA InsertionsGrow ==
  ASSUME RequestsOK, PricesOK, NEW c \in Clients, InsertFundPrices(c)
  PROVE  PricesGrow
  BY InsertedPrices DEF PricesGrow, Over

(* So does every step.                                                     *)
LEMMA PricesOnlyGrow ==
  ASSUME BooksInv, Next
  PROVE  PricesGrow
<1>1. PricesOK /\ RequestsOK /\ HistoryOK
  BY DEF BooksInv
<1>2. UNCHANGED price => PricesGrow
  BY DEF PricesGrow
<1>3. CASE \E c \in Clients : FundPriceRequest(c) \/ FundPriceStep(c)
  BY <1>1, <1>2, <1>3, UpdatesTouchPrices, InsertionsGrow
<1>4. CASE EntersPrices
  <2>1. PICK f \in Funds, rows \in Seq([day : Days, price : Int]) :
         Enters(f, rows) /\ \A k \in DOMAIN rows : rows[k].price > 0
    BY <1>4 DEF EntersPrices
  <2>2. PICK E : EntersFor(f, E)
    BY <1>1, <2>1, EnteredRows
  <2> QED
    BY <2>2 DEF EntersFor, PricesGrow, Over
<1> QED
  BY <1>2, <1>3, <1>4, KindsOfSteps
  DEF TablesKept, WritesRow, PutsRows, DropsSome, DropsRows, ChangesCatalog
-----------------------------------------------------------------------------
(* What users enter. *)

EnteredStay ==
  \A e \in past.entered : e.day \in DOMAIN price[e.fund] /\ price[e.fund][e.day] = e.price
OpenDaysAreEntered ==
  \A f \in Funds : Today \in DOMAIN price[f] => \E e \in past.entered : e.fund = f /\ e.day = Today

(* What a user entered is not written over, and days that have not ended   *)
(* get prices from users only.                                             *)
LEMMA EnteredStep ==
  ASSUME BooksInv, EnteredStay, OpenDaysAreEntered, Next
  PROVE  EnteredStay' /\ OpenDaysAreEntered'
<1>1. PricesOK /\ RequestsOK /\ HistoryOK /\ LedgerOK /\ CatalogOK
  BY DEF BooksInv
<1>2. \A e \in past.entered : e.fund \in Funds /\ e.day \in Days
  BY <1>1 DEF HistoryOK
<1>3. UNCHANGED price /\ past'.entered = past.entered => EnteredStay' /\ OpenDaysAreEntered'
  BY DEF EnteredStay, OpenDaysAreEntered, Today
<1>4. ASSUME NEW booked, NEW L, Remember(transaction', dividend', booked, L)
      PROVE  past'.entered = past.entered
  BY <1>1, <1>4, RememberedPast
<1>5. CASE \E c \in Clients : (FundPriceRequest(c) \/ FundPriceStep(c)) /\ KeepsHistory
  <2>1. PICK c \in Clients : (FundPriceRequest(c) \/ FundPriceStep(c)) /\ KeepsHistory
    BY <1>5
  <2>2. past'.entered = past.entered
    BY <2>1 DEF KeepsHistory
  <2>3. CASE InsertFundPrices(c)
    <3>1. PICK r : r = request[c]
      OBVIOUS
    <3>2. /\ r.fund \in Funds /\ DOMAIN r.found \subseteq ClosedDays
          /\ DOMAIN r.found \cap DOMAIN price[r.fund] = {}
          /\ \A f \in Funds \ {r.fund} : price'[f] = price[f]
          /\ price'[r.fund] = Over(r.found, price[r.fund])
      BY <1>1, <2>3, <3>1, InsertedPrices
    <3>3. ASSUME NEW e \in past.entered
          PROVE  e.day \in DOMAIN price'[e.fund] /\ price'[e.fund][e.day] = e.price
      <4>1. e.day \in DOMAIN price[e.fund] /\ price[e.fund][e.day] = e.price /\ e.fund \in Funds
        BY <1>2 DEF EnteredStay
      <4>2. CASE e.fund = r.fund
        <5>1. e.day \notin DOMAIN r.found
          BY <3>2, <4>1, <4>2
        <5> QED
          BY <3>2, <4>1, <4>2, <5>1 DEF Over
      <4> QED
        BY <3>2, <4>1, <4>2
    <3>4. ASSUME NEW f \in Funds, Today \in DOMAIN price'[f] PROVE Today \in DOMAIN price[f]
      <4>1. Today \notin DOMAIN r.found
        BY <3>2, BoundsAssumption DEF ClosedDays, Today
      <4> QED
        BY <3>2, <3>4, <4>1 DEF Over
    <3> QED
      BY <2>2, <3>3, <3>4 DEF EnteredStay, OpenDaysAreEntered, Today
  <2> QED
    BY <1>3, <2>1, <2>2, <2>3, UpdatesTouchPrices
<1>6. CASE EntersPrices
  <2>1. PICK f \in Funds, rows \in Seq([day : Days, price : Int]) :
         Enters(f, rows) /\ \A k \in DOMAIN rows : rows[k].price > 0
    BY <1>6 DEF EntersPrices
  <2>2. PICK E : EntersFor(f, E)
    BY <1>1, <2>1, EnteredRows
  <2>3. /\ price'[f] = Over(E, price[f]) /\ \A g \in Funds \ {f} : price'[g] = price[g]
        /\ past'.entered = {e \in past.entered : ~(e.fund = f /\ e.day \in DOMAIN E)} \cup
                             {[fund |-> f, day |-> d, price |-> E[d]] : d \in DOMAIN E}
    BY <2>2 DEF EntersFor
  <2>4. ASSUME NEW e \in past'.entered
        PROVE  e.day \in DOMAIN price'[e.fund] /\ price'[e.fund][e.day] = e.price
    <3>1. CASE e \in past.entered /\ ~(e.fund = f /\ e.day \in DOMAIN E)
      <4>1. e.day \in DOMAIN price[e.fund] /\ price[e.fund][e.day] = e.price /\ e.fund \in Funds
        BY <1>2, <3>1 DEF EnteredStay
      <4> QED
        BY <2>3, <3>1, <4>1 DEF Over
    <3>2. CASE \E d \in DOMAIN E : e = [fund |-> f, day |-> d, price |-> E[d]]
      <4>1. PICK d \in DOMAIN E : e = [fund |-> f, day |-> d, price |-> E[d]]
        BY <3>2
      <4>2. e.fund = f /\ e.day = d /\ e.price = E[d]
        BY <4>1
      <4> QED
        BY <2>3, <4>1, <4>2 DEF Over
    <3> QED
      BY <2>3, <2>4, <3>1, <3>2
  <2>5. ASSUME NEW g \in Funds, Today \in DOMAIN price'[g]
        PROVE  \E e \in past'.entered : e.fund = g /\ e.day = Today
    <3>1. CASE g = f /\ Today \in DOMAIN E
      <4>1. PICK e : e = [fund |-> f, day |-> Today, price |-> E[Today]]
        OBVIOUS
      <4>2. e \in past'.entered /\ e.fund = g /\ e.day = Today
        BY <2>3, <3>1, <4>1
      <4> QED
        BY <4>2
    <3>2. CASE ~(g = f /\ Today \in DOMAIN E)
      <4>1. Today \in DOMAIN price[g]
        BY <2>3, <2>5, <3>2 DEF Over
      <4>2. PICK e \in past.entered : e.fund = g /\ e.day = Today
        BY <4>1 DEF OpenDaysAreEntered
      <4> QED
        BY <2>3, <3>2, <4>2
    <3> QED
      BY <3>1, <3>2
  <2> QED
    BY <2>4, <2>5 DEF EnteredStay, OpenDaysAreEntered, Today
<1> QED
  BY <1>3, <1>4, <1>5, <1>6, KindsOfSteps
  DEF TablesKept, WritesRow, PutsRows, DropsSome, DropsRows, ChangesCatalog

(* The price a user entered for a day is the price of the day until the    *)
(* user enters another, although the updates from Yahoo look for missing   *)
(* prices before they ask and insert afterwards; and a price of a day that *)
(* has not ended was entered by a user.                                    *)
THEOREM EnteredPricesAreKept == Spec => []EnteredPricesStay
<1>1. Init => EnteredStay /\ OpenDaysAreEntered
  BY DEF Init, EnteredStay, OpenDaysAreEntered
<1>2. BooksInv /\ EnteredStay /\ OpenDaysAreEntered /\ [Next]_vars => EnteredStay' /\ OpenDaysAreEntered'
  <2>1. ASSUME EnteredStay, OpenDaysAreEntered, UNCHANGED vars PROVE EnteredStay' /\ OpenDaysAreEntered'
    BY <2>1 DEF vars, EnteredStay, OpenDaysAreEntered, Today
  <2> QED
    BY <2>1, EnteredStep
<1>3. EnteredStay /\ OpenDaysAreEntered => EnteredPricesStay
  BY DEF EnteredStay, OpenDaysAreEntered, EnteredPricesStay
<1> QED
  BY <1>1, <1>2, <1>3, BooksInvHolds, PTL DEF Spec
-----------------------------------------------------------------------------
(* What updates report to have filled. *)

(* Days claimed as filled have a price.                                    *)
LEMMA FillsMore ==
  ASSUME HistoryOK, NEW f \in Funds, NEW days, Fills(f, days), PricesGrow,
         FilledIn(past.filled, price), days \subseteq DOMAIN price'[f]
  PROVE  FilledIn(past'.filled, price')
<1>1. past'.filled = past.filled \cup ({f} \X days)
  BY DEF Fills, HistoryOK
<1>2. ASSUME NEW x \in {f} \X days PROVE x[1] \in Funds /\ x[2] \in DOMAIN price'[x[1]]
  OBVIOUS
<1>3. ASSUME NEW x \in past.filled PROVE x[1] \in Funds /\ x[2] \in DOMAIN price'[x[1]]
  BY DEF FilledIn, PricesGrow
<1> QED
  BY <1>1, <1>2, <1>3 DEF FilledIn

(* Where nothing is claimed the earlier claims stay.                       *)
LEMMA FillsNoMore ==
  ASSUME UNCHANGED <<price, past>>, FilledIn(past.filled, price)
  PROVE  FilledIn(past'.filled, price')
  BY DEF FilledIn

(* An update that begins knows nothing.                                    *)
LEMMA BegunUpdates ==
  ASSUME GapsInv, NEW c \in Clients, NEW f \in Funds,
         UpdateCurrentFundPrice(c, f) \/ UpdateHistoricalFundPrice(c, f) \/ UpdateAllFundHistory(c)
  PROVE  \E q : Advances(c, q)
<1>1. \E op, step, g, todo : /\ request' = [request EXCEPT ![c] = Update(op, step, g, todo)]
                             /\ todo \in SUBSET Funds
                             /\ \/ op = "latest" /\ step = "check"
                                \/ op \in {"history", "all"} /\ step \in {"oldest", "next"}
                             /\ step # "next" => g \in Funds
                             /\ UNCHANGED <<price, past>>
  <2>1. {g \in Funds : fund[g] # "none"} \in SUBSET Funds /\ {} \in SUBSET Funds
    OBVIOUS
  <2> QED
    BY <2>1 DEF UpdateCurrentFundPrice, UpdateHistoricalFundPrice, UpdateAllFundHistory, GoesOn, ContinuesWith
<1>2. PICK op, step, g, todo : /\ request' = [request EXCEPT ![c] = Update(op, step, g, todo)]
                               /\ todo \in SUBSET Funds
                               /\ \/ op = "latest" /\ step = "check"
                                  \/ op \in {"history", "all"} /\ step \in {"oldest", "next"}
                               /\ step # "next" => g \in Funds
                               /\ UNCHANGED <<price, past>>
  BY <1>1
<1>3. IsPriceUpdate(Update(op, step, g, todo))
  BY <1>2, NewUpdate
<1>4. KnowsGaps(Update(op, step, g, todo), price')
  BY <1>2 DEF Update, KnowsGaps
<1>5. FilledIn(past'.filled, price')
  BY <1>2, FillsNoMore DEF GapsInv
<1> QED
  BY <1>2, <1>3, <1>4, <1>5 DEF Advances

(* An update of the latest price reports nothing. *)
LEMMA LatestKnows ==
  ASSUME RequestsOK, GapsInv, NEW c \in Clients,
         \/ CheckExistingPrice(c) \/ RecheckExistingPrice(c)
         \/ \E chart \in Seq([day : Days] \cup [day : Days, close : Int]) : GetIndicatorForDate(c, chart)
  PROVE  \E q : Advances(c, q)
<1>1. Continued(c) /\ UNCHANGED <<price, past>>
  BY LatestSteps
<1>2. PICK r : r = request[c]
  OBVIOUS
<1>3. IsPriceUpdate(r) /\ r.op = "latest"
  BY <1>2, KindsOfRequests DEF CheckExistingPrice, RecheckExistingPrice, GetIndicatorForDate, IsPriceUpdate
<1>4. r.claimed = {}
  BY <1>2, <1>3 DEF GapsInv, KnowsGaps
<1>5. \E q : /\ request' = [request EXCEPT ![c] = q]
             /\ q = Idle \/ (q.op = "latest" /\ q.claimed = {})
  <2>1. DOMAIN r = UpdateFields
    BY <1>3 DEF IsPriceUpdate
  <2>2. ASSUME NEW step PROVE [r EXCEPT !.step = step].op = "latest" /\ [r EXCEPT !.step = step].claimed = {}
    BY <1>3, <1>4, <2>1 DEF UpdateFields
  <2>3. ASSUME NEW quote, NEW step
        PROVE  \/ Inserting(r, quote, step) = Idle
               \/ Inserting(r, quote, step).op = "latest" /\ Inserting(r, quote, step).claimed = {}
    <3>1. PICK q : q = [r EXCEPT !.step = step, !.found = [d \in {quote.day} |-> quote.close]]
      OBVIOUS
    <3>2. q.op = "latest" /\ q.claimed = {}
      BY <1>3, <1>4, <2>1, <3>1 DEF UpdateFields
    <3> QED
      BY <3>1, <3>2 DEF Inserting
  <2>4. CASE CheckExistingPrice(c)
    BY <1>2, <2>2, <2>4 DEF CheckExistingPrice, GoesOn, ContinuesWith
  <2>5. CASE RecheckExistingPrice(c)
    <3>1. PICK day : day = CHOOSE d \in DOMAIN r.found : TRUE
      OBVIOUS
    <3>2. PICK q : q = IF day \in DOMAIN price[r.fund] THEN Idle
                       ELSE Inserting(r, [day |-> day, close |-> r.found[day]], "insert")
      OBVIOUS
    <3>3. request' = [request EXCEPT ![c] = q]
      BY <1>2, <2>5, <3>1, <3>2 DEF RecheckExistingPrice, GoesOn, ContinuesWith
    <3>4. q = Idle \/ (q.op = "latest" /\ q.claimed = {})
      BY <2>3, <3>2, Zenon
    <3> QED
      BY <3>3, <3>4
  <2>6. CASE \E chart \in Seq([day : Days] \cup [day : Days, close : Int]) : GetIndicatorForDate(c, chart)
    <3>1. PICK chart : GetIndicatorForDate(c, chart)
      BY <2>6
    <3>2. PICK one, last : /\ one = chart[Min({k \in ParseChart(chart) : chart[k].day = Yesterday})]
                           /\ last = chart[Max(ParseChart(chart))]
      OBVIOUS
    <3>3. PICK q : q = IF ParseChart(chart) = {} THEN Idle
                       ELSE IF {k \in ParseChart(chart) : chart[k].day = Yesterday} # {}
                       THEN Inserting(r, one, "insert") ELSE Inserting(r, last, "recheck")
      OBVIOUS
    <3>4. request' = [request EXCEPT ![c] = q]
      BY <1>2, <3>1, <3>2, <3>3 DEF GetIndicatorForDate, GoesOn, ContinuesWith
    <3>5. q = Idle \/ (q.op = "latest" /\ q.claimed = {})
      BY <2>3, <3>3, Zenon
    <3> QED
      BY <3>4, <3>5
  <2> QED
    BY <2>4, <2>5, <2>6
<1>6. PICK q : /\ request' = [request EXCEPT ![c] = q]
               /\ q = Idle \/ (q.op = "latest" /\ q.claimed = {})
  BY <1>5
<1>7. q = Idle \/ IsPriceUpdate(q)
  <2>1. PICK p : (p = Idle \/ IsPriceUpdate(p)) /\ request' = [request EXCEPT ![c] = p]
    BY <1>1 DEF Continued
  <2>2. c \in DOMAIN request
    BY DEF RequestsOK
  <2>3. p = q
    BY <1>6, <2>1, <2>2
  <2> QED
    BY <2>1, <2>3
<1>8. q # Idle => KnowsGaps(q, price')
  BY <1>6 DEF KnowsGaps
<1>9. ~IsPriceUpdate(Idle)
  BY DEF IsPriceUpdate, UpdateFields, Idle
<1>10. FilledIn(past'.filled, price')
  BY <1>1, FillsNoMore DEF GapsInv
<1> QED
  BY <1>6, <1>7, <1>8, <1>9, <1>10 DEF Advances

(* The record c goes on with is the one Continued speaks of. *)
LEMMA ContinuedAs ==
  ASSUME RequestsOK, NEW c \in Clients, Continued(c), NEW q, request' = [request EXCEPT ![c] = q]
  PROVE  q = Idle \/ IsPriceUpdate(q)
<1>1. PICK p : (p = Idle \/ IsPriceUpdate(p)) /\ request' = [request EXCEPT ![c] = p]
  BY DEF Continued
<1>2. c \in DOMAIN request
  BY DEF RequestsOK
<1>3. p = q
  BY <1>1, <1>2
<1> QED
  BY <1>1, <1>3

(* Nor does one that reads its funds and where their history begins.       *)
LEMMA HistoryKnows ==
  ASSUME RequestsOK, CatalogOK, LedgerOK, GapsInv, NEW c \in Clients,
         (\E f \in Funds : NextFund(c, f)) \/ AllFundsDone(c) \/ ReadOldestTransaction(c)
  PROVE  \E q : Advances(c, q)
<1>1. Continued(c) /\ UNCHANGED <<price, past>>
  BY HistoryReads
<1>2. PICK r : r = request[c]
  OBVIOUS
<1>3. r.step \in {"next", "oldest"} => IsPriceUpdate(r)
  BY <1>2, KindsOfRequests
<1>4. \E q : request' = [request EXCEPT ![c] = q] /\ (IsPriceUpdate(q) => KnowsGaps(q, price'))
  <2>1. CASE \E f \in Funds : NextFund(c, f)
    <3>1. PICK f \in Funds : NextFund(c, f)
      BY <2>1
    <3>2. PICK step \in {"next", "oldest"} : step = IF fund[f] = "none" THEN "next" ELSE "oldest"
      OBVIOUS
    <3>3. PICK q : q = Update("all", step, f, r.todo \ {f})
      OBVIOUS
    <3>4. request' = [request EXCEPT ![c] = q]
      BY <1>2, <3>1, <3>2, <3>3 DEF NextFund, GoesOn, ContinuesWith
    <3>5. q.op = "all" /\ q.step \in {"next", "oldest"}
      BY <3>2, <3>3 DEF Update
    <3> QED
      BY <3>4, <3>5 DEF KnowsGaps
  <2>2. CASE AllFundsDone(c)
    <3>1. request' = [request EXCEPT ![c] = Idle]
      BY <2>2 DEF AllFundsDone, GoesOn, ContinuesWith
    <3>2. ~IsPriceUpdate(Idle)
      BY DEF IsPriceUpdate, UpdateFields, Idle
    <3> QED
      BY <3>1, <3>2
  <2>3. CASE ReadOldestTransaction(c)
    <3>1. PICK days : days = {transaction[i].day :
                                i \in UNION {RowsOf(transaction, x) : x \in PfsOfFund(r.fund)}}
      OBVIOUS
    <3>2. PICK p : p = [r EXCEPT !.step = "missing", !.from = Min(days)]
      OBVIOUS
    <3>3. IsPriceUpdate(r) /\ r.op # "latest"
      BY <1>2, <1>3, <2>3 DEF ReadOldestTransaction, IsPriceUpdate
    <3>4. p.op # "latest" /\ p.step = "missing"
      BY <3>2, <3>3 DEF IsPriceUpdate, UpdateFields
    <3>5. PICK q : q = IF days = {} THEN Ended(r) ELSE p
      OBVIOUS
    <3>6. request' = [request EXCEPT ![c] = q]
      BY <1>2, <2>3, <3>1, <3>2, <3>5 DEF ReadOldestTransaction, GoesOn, ContinuesWith
    <3>7. IsPriceUpdate(Ended(r)) => KnowsGaps(Ended(r), price')
      BY <3>3, EndedKnows
    <3>8. KnowsGaps(p, price')
      BY <3>4 DEF KnowsGaps
    <3>9. IsPriceUpdate(q) => KnowsGaps(q, price')
      BY <3>5, <3>7, <3>8
    <3> QED
      BY <3>6, <3>9
  <2> QED
    BY <2>1, <2>2, <2>3
<1>5. FilledIn(past'.filled, price')
  BY <1>1, FillsNoMore DEF GapsInv
<1> QED
  BY <1>1, <1>4, <1>5, ContinuedAs DEF Advances

(* A request that ends without a price inserted: what it reports, if it reports, has one. *)
LEMMA EndedAdvances ==
  ASSUME NEW c \in Clients, IsPriceUpdate(request[c]), request' = [request EXCEPT ![c] = Ended(request[c])],
         FilledIn(past'.filled, price')
  PROVE  Advances(c, Ended(request[c]))
<1>1. PICK r : r = request[c]
  OBVIOUS
<1>2. /\ Ended(r) = Idle \/ IsPriceUpdate(Ended(r))
      /\ IsPriceUpdate(Ended(r)) => KnowsGaps(Ended(r), price')
  BY <1>1, EndedKnows
<1> QED
  BY <1>1, <1>2 DEF Advances

(* The days that are not missing have a price when the missing days are    *)
(* read.                                                                   *)
LEMMA MissingKnown ==
  ASSUME RequestsOK, HistoryOK, GapsInv, NEW c \in Clients, ReadMissingDates(c)
  PROVE  \E q : Advances(c, q)
<1>1. Continued(c)
  BY HistoryWaits
<1>2. PICK r : r = request[c]
  OBVIOUS
<1>3. IsPriceUpdate(r) /\ r.step = "missing" /\ r.op # "latest" /\ r.fund \in Funds /\ r.from \in Days
  BY <1>2, KindsOfRequests DEF ReadMissingDates, IsPriceUpdate
<1>4. PICK missing : missing = BuildMissingDatesMap(r.from, r.fund)
  OBVIOUS
<1>5. \A d \in r.from..Yesterday : d \in missing \/ d \in DOMAIN price[r.fund]
  BY <1>4 DEF BuildMissingDatesMap
<1>6. UNCHANGED price /\ FilledIn(past.filled, price)
  BY DEF ReadMissingDates, GoesOn, GapsInv
<1>7. CASE missing = {}
  <2>1. Fills(r.fund, r.from..Yesterday) /\ request' = [request EXCEPT ![c] = Ended(request[c])]
    BY <1>2, <1>4, <1>7 DEF ReadMissingDates, ContinuesWith
  <2>2. PricesGrow /\ (r.from..Yesterday) \subseteq DOMAIN price'[r.fund]
    BY <1>5, <1>6, <1>7 DEF PricesGrow
  <2>3. FilledIn(past'.filled, price')
    BY <1>3, <1>6, <2>1, <2>2, FillsMore
  <2> QED
    BY <1>2, <1>3, <2>1, <2>3, EndedAdvances
<1>8. CASE missing # {}
  <2>1. PICK q : q = [r EXCEPT !.step = "fetch", !.missing = missing]
    OBVIOUS
  <2>2. request' = [request EXCEPT ![c] = q] /\ UNCHANGED past
    BY <1>2, <1>4, <1>8, <2>1 DEF ReadMissingDates, GoesOn, ContinuesWith
  <2>3. q.op = r.op /\ q.step = "fetch" /\ q.from = r.from /\ q.missing = missing /\ q.fund = r.fund
    BY <1>3, <2>1 DEF IsPriceUpdate, UpdateFields
  <2>4. KnowsGaps(q, price')
    BY <1>3, <1>5, <1>6, <2>3 DEF KnowsGaps
  <2>5. FilledIn(past'.filled, price')
    BY <1>6, <2>2, FillsNoMore
  <2> QED
    BY <1>1, <2>2, <2>4, <2>5, ContinuedAs DEF Advances
<1> QED
  BY <1>7, <1>8

(* What Yahoo has of the missing days is what is about to be inserted.     *)
LEMMA FilteredKnown ==
  ASSUME RequestsOK, HistoryOK, GapsInv, NEW c \in Clients,
         NEW chart \in Seq([day : Days] \cup [day : Days, close : Int]), FilterMissingPrices(c, chart)
  PROVE  \E q : Advances(c, q)
<1>1. Continued(c)
  BY HistoryWaits
<1>2. PICK r : r = request[c]
  OBVIOUS
<1>3. IsPriceUpdate(r) /\ r.step = "fetch" /\ r.op # "latest" /\ r.fund \in Funds
  BY <1>2, KindsOfRequests DEF FilterMissingPrices, IsPriceUpdate
<1>4. PICK days : days = r.from..Yesterday
  OBVIOUS
<1>5. PICK found : found = Closes(chart, r.missing)
  OBVIOUS
<1>6. PICK claimed : claimed = (days \ r.missing) \cup DOMAIN Closes(chart, days)
  OBVIOUS
<1>7. UNCHANGED price /\ FilledIn(past.filled, price)
  BY DEF FilterMissingPrices, GoesOn, GapsInv
<1>8. days \ r.missing \subseteq DOMAIN price[r.fund]
  BY <1>2, <1>3, <1>4 DEF GapsInv, KnowsGaps
<1>9. claimed \subseteq DOMAIN price[r.fund] \cup DOMAIN found
  <2>1. \A d \in DOMAIN Closes(chart, days) : d \in days /\ (d \in r.missing => d \in DOMAIN Closes(chart, r.missing))
    BY DEF Closes
  <2> QED
    BY <1>5, <1>6, <1>8, <2>1
<1>10. CASE DOMAIN found = {}
  <2>1. Fills(r.fund, claimed) /\ request' = [request EXCEPT ![c] = Ended(request[c])]
    BY <1>2, <1>4, <1>5, <1>6, <1>10 DEF FilterMissingPrices, ContinuesWith
  <2>2. PricesGrow /\ claimed \subseteq DOMAIN price'[r.fund]
    BY <1>7, <1>9, <1>10 DEF PricesGrow
  <2>3. FilledIn(past'.filled, price')
    BY <1>3, <1>7, <2>1, <2>2, FillsMore
  <2> QED
    BY <1>2, <1>3, <2>1, <2>3, EndedAdvances
<1>11. CASE DOMAIN found # {}
  <2>1. PICK q : q = [r EXCEPT !.step = "insert", !.found = found, !.claimed = claimed]
    OBVIOUS
  <2>2. request' = [request EXCEPT ![c] = q] /\ UNCHANGED past
    BY <1>2, <1>4, <1>5, <1>6, <1>11, <2>1 DEF FilterMissingPrices, GoesOn, ContinuesWith
  <2>3. q.op = r.op /\ q.step = "insert" /\ q.found = found /\ q.claimed = claimed /\ q.fund = r.fund
    BY <1>3, <2>1 DEF IsPriceUpdate, UpdateFields
  <2>4. KnowsGaps(q, price')
    BY <1>3, <1>7, <1>9, <2>3 DEF KnowsGaps
  <2>5. FilledIn(past'.filled, price')
    BY <1>7, <2>2, FillsNoMore
  <2> QED
    BY <1>1, <2>2, <2>4, <2>5, ContinuedAs DEF Advances
<1> QED
  BY <1>10, <1>11

(* After the insertion every claimed day has a price.                      *)
LEMMA InsertedKnown ==
  ASSUME RequestsOK, PricesOK, HistoryOK, GapsInv, NEW c \in Clients, InsertFundPrices(c)
  PROVE  \E q : Advances(c, q)
<1>1. PICK r : r = request[c]
  OBVIOUS
<1>2. /\ IsPriceUpdate(r) /\ r.step = "insert" /\ r.fund \in Funds
      /\ price'[r.fund] = Over(r.found, price[r.fund])
  BY <1>1, InsertedPrices
<1>3. r.claimed \subseteq DOMAIN price[r.fund] \cup DOMAIN r.found
  BY <1>1, <1>2 DEF GapsInv, KnowsGaps
<1>4. r.claimed \subseteq DOMAIN price'[r.fund]
  BY <1>2, <1>3 DEF Over
<1>5. Fills(r.fund, r.claimed) /\ request' = [request EXCEPT ![c] = Ended(request[c])]
  BY <1>1 DEF InsertFundPrices, ContinuesWith
<1>6. FilledIn(past'.filled, price')
  BY <1>2, <1>4, <1>5, InsertionsGrow, FillsMore DEF GapsInv
<1> QED
  BY <1>1, <1>2, <1>5, <1>6, EndedAdvances

(* Every step of an update is one of these.                                *)
LEMMA UpdatesAdvance ==
  ASSUME RequestsOK, CatalogOK, LedgerOK, PricesOK, HistoryOK, GapsInv, NEW c \in Clients,
         FundPriceRequest(c) \/ FundPriceStep(c)
  PROVE  \E q : Advances(c, q)
<1>1. mix \in DOMAIN Inputs
  BY DEF CatalogOK
<1>2. CASE FundPriceRequest(c)
  <2>1. CASE \E f \in Asked.funds : UpdateCurrentFundPrice(c, f) \/ UpdateHistoricalFundPrice(c, f)
    BY <1>1, <2>1, AskedIsShaped, BegunUpdates
  <2>2. CASE UpdateAllFundHistory(c)
    <3>1. \E f \in Funds : fund[f] # "none"
      BY <2>2 DEF UpdateAllFundHistory
    <3> QED
      BY <2>2, <3>1, BegunUpdates
  <2>3. CASE \E chart \in Asked.charts : GetIndicatorForDate(c, chart)
    BY <1>1, <2>3, AskedIsShaped, LatestKnows
  <2>4. CASE \E chart \in Asked.charts : FilterMissingPrices(c, chart)
    BY <1>1, <2>4, AskedIsShaped, FilteredKnown
  <2> QED
    BY <1>2, <2>1, <2>2, <2>3, <2>4 DEF FundPriceRequest
<1>3. CASE YahooFails(c) \/ InsertFundPricesFails(c)
  <2>1. IsPriceUpdate(request[c])
    BY <1>3, KindsOfRequests DEF YahooFails, InsertFundPricesFails
  <2>2. request' = [request EXCEPT ![c] = Ended(request[c])] /\ UNCHANGED <<price, past>>
    BY <1>3 DEF YahooFails, InsertFundPricesFails, GivesUp, ContinuesWith
  <2>3. FilledIn(past'.filled, price')
    BY <2>2, FillsNoMore DEF GapsInv
  <2> QED
    BY <2>1, <2>2, <2>3, EndedAdvances
<1>4. CASE FundPriceStep(c)
  BY <1>3, <1>4, LatestKnows, HistoryKnows, MissingKnown, InsertedKnown DEF FundPriceStep
<1> QED
  BY <1>2, <1>4

(* And no step of others takes a price away.                               *)
LEMMA GapsStep ==
  ASSUME BooksInv, GapsInv, Next
  PROVE  GapsInv'
<1>1. PricesOK /\ RequestsOK /\ HistoryOK /\ LedgerOK /\ CatalogOK
  BY DEF BooksInv
<1>2. PricesGrow
  BY PricesOnlyGrow
<1>3. ASSUME NEW r, IsPriceUpdate(r), KnowsGaps(r, price) PROVE KnowsGaps(r, price')
  <2>1. r.step \in {"fetch", "insert"} => DOMAIN price[r.fund] \subseteq DOMAIN price'[r.fund]
    BY <1>2, <1>3 DEF IsPriceUpdate, PricesGrow
  <2> QED
    BY <1>3, <2>1 DEF KnowsGaps
<1>4. past'.filled = past.filled => FilledIn(past'.filled, price')
  BY <1>2 DEF GapsInv, FilledIn, PricesGrow
<1>5. ~IsPriceUpdate(Idle) /\ \A q : IsDividendRequest(q) => ~IsPriceUpdate(q)
  BY DEF IsPriceUpdate, IsDividendRequest, UpdateFields, DividendFields, Idle
<1>6. UNCHANGED request /\ past'.filled = past.filled => GapsInv'
  BY <1>3, <1>4 DEF GapsInv
<1>7. ASSUME NEW c \in Clients, NEW q, IsRequest(q), request' = [request EXCEPT ![c] = q],
             IsPriceUpdate(q) => KnowsGaps(q, price'), FilledIn(past'.filled, price')
      PROVE  GapsInv'
  <2>1. request'[c] = q /\ \A k \in Clients \ {c} : request'[k] = request[k]
    BY <1>1, <1>7, RequestsAfter
  <2>2. ASSUME NEW k \in Clients, IsPriceUpdate(request'[k]) PROVE KnowsGaps(request'[k], price')
    <3>1. PICK r : r = request'[k]
      OBVIOUS
    <3>2. CASE k # c
      BY <1>3, <2>1, <2>2, <3>1, <3>2 DEF GapsInv
    <3> QED
      BY <1>7, <2>1, <2>2, <3>2
  <2> QED
    BY <1>7, <2>2 DEF GapsInv
<1>8. CASE \E c \in Clients : FundPriceRequest(c) \/ FundPriceStep(c)
  <2>1. PICK c, q : c \in Clients /\ Advances(c, q)
    BY <1>1, <1>8, UpdatesAdvance
  <2> QED
    BY <1>7, <2>1 DEF Advances, IsRequest
<1>9. ASSUME NEW booked, NEW L, Remember(transaction', dividend', booked, L)
      PROVE  past'.filled = past.filled
  BY <1>1, <1>9, RememberedPast
<1>10. ASSUME NEW c \in Clients, NEW q, q = Idle \/ IsDividendRequest(q), request' = [request EXCEPT ![c] = q],
              past'.filled = past.filled
       PROVE  GapsInv'
  BY <1>4, <1>5, <1>7, <1>10 DEF IsRequest
<1>11. CASE \E c \in Clients : \E q : (Asking(c, q) \/ Reading(c, q)) /\ TablesKept
  BY <1>10, <1>11 DEF Asking, Reading, TablesKept
<1>12. CASE \E c \in Clients : request' = [request EXCEPT ![c] = Idle] /\ TablesKept
  BY <1>10, <1>12 DEF TablesKept
<1>13. CASE \E c \in Clients : \E d, link : WritesRow(c, d, link)
  BY <1>9, <1>10, <1>13 DEF WritesRow
<1>14. CASE \E booked, L : PutsRows(L) /\ Remember(transaction', dividend', booked, L)
  BY <1>6, <1>9, <1>14 DEF PutsRows
<1>15. CASE DropsSome
  BY <1>6, <1>9, <1>10, <1>15 DEF DropsSome, DropsRows
<1>16. CASE ChangesCatalog
  BY <1>6, <1>16 DEF ChangesCatalog
<1>17. CASE EntersPrices
  BY <1>1, <1>6, <1>17, EnteredRows DEF EntersPrices, EntersFor
<1> QED
  BY <1>8, <1>11, <1>12, <1>13, <1>14, <1>15, <1>16, <1>17, KindsOfSteps

(* When an update of a fund's history reports success, every day from the  *)
(* oldest transaction it read to yesterday that Yahoo has a price of has   *)
(* one, whatever users and other updates did while it waited.              *)
THEOREM GapsAreFilled == Spec => []UpdatesFillGaps
<1>1. Init => GapsInv
  <2>1. ~IsPriceUpdate(Idle)
    BY DEF IsPriceUpdate, UpdateFields, Idle
  <2> QED
    BY <2>1 DEF Init, GapsInv, FilledIn
<1>2. BooksInv /\ GapsInv /\ [Next]_vars => GapsInv'
  <2>1. ASSUME GapsInv, UNCHANGED vars PROVE GapsInv'
    BY <2>1 DEF vars, GapsInv
  <2> QED
    BY <2>1, GapsStep
<1>3. GapsInv => UpdatesFillGaps
  BY DEF GapsInv, FilledIn, UpdatesFillGaps
<1> QED
  BY <1>1, <1>2, <1>3, BooksInvHolds, PTL DEF Spec
=============================================================================
