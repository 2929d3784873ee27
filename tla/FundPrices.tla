----------------------------- MODULE FundPrices -----------------------------
(***************************************************************************)
(* Prices beside the ledger: the two updates from Yahoo and the update of  *)
(* all funds (fund_service.go), which the API and the cron job run side by *)
(* side, and the prices users enter and import (developer_service.go).     *)
(*                                                                         *)
(* An update reads what is missing, asks Yahoo and inserts, in this order  *)
(* and with nothing held in between.  Its record goes through the steps    *)
(*   "check", "fetch", "recheck", "insert"      the latest price           *)
(*   "oldest", "missing", "fetch", "insert"     the history of a fund      *)
(* and, when it goes on to the next of all funds, "next".  A chart of      *)
(* Yahoo is a sequence of quotes [day, close]; close may be missing.       *)
(***************************************************************************)
EXTENDS Dividends, FiniteSetsExt

Today == LastDay
Yesterday == LastDay - 1

(* The days a successful update leaves with a price, as far as it knows:   *)
(* for the properties only.                                                *)
Fills(f, days) == past' = [past EXCEPT !.filled = @ \cup ({f} \X days)]

ContinuesWith(c, r) ==
  /\ request' = [request EXCEPT ![c] = r]
  /\ UNCHANGED <<portfolio, fund, pfs, transaction, gains, dividend, mix>>

(* An update that has ended, well or not, is followed by the next fund's.  *)
Ended(r) == IF r.op = "all" THEN [r EXCEPT !.step = "next"] ELSE Idle

GivesUp(c) == ContinuesWith(c, Ended(request[c])) /\ UNCHANGED <<price, past>>

GoesOn(c, r) == ContinuesWith(c, r) /\ UNCHANGED <<price, past>>

Update(op, step, f, todo) ==
  [op |-> op, step |-> step, fund |-> f, todo |-> todo, from |-> 0, missing |-> {},
   found |-> <<>>, claimed |-> {}]

(* The places of the quotes that count: a day that has not ended has no    *)
(* closing price yet.                                                      *)
ParseChart(chart) ==
  {k \in DOMAIN chart : chart[k].day < Today /\ "close" \in DOMAIN chart[k]}

(***************************************************************************)
(* The latest price: yesterday's, or else the last that Yahoo has.         *)
(***************************************************************************)
UpdateCurrentFundPrice(c, f) ==
  /\ request[c] = Idle /\ fund[f] # "none"
  /\ GoesOn(c, Update("latest", "check", f, {}))

CheckExistingPrice(c) ==
  LET r == request[c]
  IN /\ r.step = "check"
     /\ GoesOn(c, IF Yesterday \in DOMAIN price[r.fund] THEN Idle ELSE [r EXCEPT !.step = "fetch"])

(* A price that is not positive is an error.                               *)
Inserting(r, quote, step) ==
  IF step = "insert" /\ quote.close <= 0 THEN Idle
  ELSE [r EXCEPT !.step = step, !.found = [d \in {quote.day} |-> quote.close]]

GetIndicatorForDate(c, chart) ==
  LET r == request[c]
      quotes == ParseChart(chart)
      ofYesterday == {k \in quotes : chart[k].day = Yesterday}
  IN /\ r.step = "fetch" /\ r.op = "latest"
     /\ GoesOn(c, IF quotes = {} THEN Idle
                  ELSE IF ofYesterday # {} THEN Inserting(r, chart[Min(ofYesterday)], "insert")
                  ELSE Inserting(r, chart[Max(quotes)], "recheck"))

RecheckExistingPrice(c) ==
  LET r == request[c]
      day == CHOOSE d \in DOMAIN r.found : TRUE
  IN /\ r.step = "recheck"
     /\ GoesOn(c, IF day \in DOMAIN price[r.fund] THEN Idle
                  ELSE Inserting(r, [day |-> day, close |-> r.found[day]], "insert"))

(***************************************************************************)
(* The history of a fund, from its oldest transaction to yesterday.        *)
(***************************************************************************)
UpdateHistoricalFundPrice(c, f) ==
  /\ request[c] = Idle /\ fund[f] # "none"
  /\ GoesOn(c, Update("history", "oldest", f, {}))

UpdateAllFundHistory(c) ==
  LET all == {f \in Funds : fund[f] # "none"}
  IN /\ request[c] = Idle /\ all # {}
     /\ GoesOn(c, Update("all", "next", "", all))

(* An error of one fund does not keep the next from its update.            *)
NextFund(c, f) ==
  LET r == request[c]
  IN /\ r.step = "next" /\ f \in r.todo
     /\ GoesOn(c, Update("all", IF fund[f] = "none" THEN "next" ELSE "oldest", f, r.todo \ {f}))

AllFundsDone(c) ==
  /\ request[c].step = "next" /\ request[c].todo = {}
  /\ GoesOn(c, Idle)

ReadOldestTransaction(c) ==
  LET r == request[c]
      days == {transaction[i].day : i \in UNION {RowsOf(transaction, x) : x \in PfsOfFund(r.fund)}}
  IN /\ r.step = "oldest"
     /\ GoesOn(c, IF days = {} THEN Ended(r)
                  ELSE [r EXCEPT !.step = "missing", !.from = Min(days)])

(* Mutant.                                                                 *)
MissesYesterday(from, f) == {d \in from..(Yesterday - 1) : d \notin DOMAIN price[f]}

BuildMissingDatesMap(from, f) == {d \in from..Yesterday : d \notin DOMAIN price[f]}

ReadMissingDates(c) ==
  LET r == request[c]
      missing == BuildMissingDatesMap(r.from, r.fund)
  IN /\ r.step = "missing"
     /\ IF missing = {}
        THEN /\ ContinuesWith(c, Ended(r)) /\ UNCHANGED price
             /\ Fills(r.fund, r.from..Yesterday)
        ELSE GoesOn(c, [r EXCEPT !.step = "fetch", !.missing = missing])

(* Of several quotes of a day the last counts, but for those without a     *)
(* positive price.                                                         *)
Closes(chart, days) ==
  LET priced == {k \in ParseChart(chart) : chart[k].close > 0}
  IN [d \in days \cap {chart[k].day : k \in priced} |->
        chart[Max({k \in priced : chart[k].day = d})].close]

FilterMissingPrices(c, chart) ==
  LET r == request[c]
      days == r.from..Yesterday
      found == Closes(chart, r.missing)
      claimed == (days \ r.missing) \cup DOMAIN Closes(chart, days)
  IN /\ r.step = "fetch" /\ r.op # "latest" /\ chart # <<>>
     /\ IF DOMAIN found = {}
        THEN ContinuesWith(c, Ended(r)) /\ UNCHANGED price /\ Fills(r.fund, claimed)
        ELSE GoesOn(c, [r EXCEPT !.step = "insert", !.found = found, !.claimed = claimed])

(* The query fails, or its answer has no quotes.                           *)
YahooFails(c) == request[c].step = "fetch" /\ GivesUp(c)

(* Mutant.                                                                 *)
OverwritesOnConflict(r) == fund[r.fund] # "none"

(***************************************************************************)
(* Both insert all that was found, in one transaction, which the key of    *)
(* fund and day rolls back when one of the days has a price by now.        *)
(***************************************************************************)
CanInsert(r) == fund[r.fund] # "none" /\ DOMAIN r.found \cap DOMAIN price[r.fund] = {}

InsertFundPrices(c) ==
  LET r == request[c]
  IN /\ r.step = "insert" /\ CanInsert(r)
     /\ price' = [price EXCEPT ![r.fund] = Over(r.found, @)]
     /\ ContinuesWith(c, Ended(r))
     /\ Fills(r.fund, r.claimed)

InsertFundPricesFails(c) ==
  request[c].step = "insert" /\ ~CanInsert(request[c]) /\ GivesUp(c)

FundPriceStep(c) ==
  \/ CheckExistingPrice(c) \/ RecheckExistingPrice(c)
  \/ \E f \in Funds : NextFund(c, f)
  \/ AllFundsDone(c) \/ ReadOldestTransaction(c) \/ ReadMissingDates(c)
  \/ YahooFails(c) \/ InsertFundPrices(c) \/ InsertFundPricesFails(c)

(***************************************************************************)
(* Prices that users enter replace the one of their day; an import is all  *)
(* or nothing, and of two rows for a day the later counts.                 *)
(***************************************************************************)
Enters(f, rows) ==
  LET entered == [d \in {rows[k].day : k \in DOMAIN rows} |->
                    rows[Max({k \in DOMAIN rows : rows[k].day = d})].price]
  IN /\ price' = [price EXCEPT ![f] = Over(entered, @)]
     /\ past' = [past EXCEPT !.entered =
          {e \in @ : ~(e.fund = f /\ e.day \in DOMAIN entered)} \cup
          {[fund |-> f, day |-> d, price |-> entered[d]] : d \in DOMAIN entered}]
     /\ UNCHANGED <<portfolio, fund, pfs, transaction, gains, dividend, request, mix>>

SetFundPriceError(f, quote) ==
  IF quote.price <= 0 THEN "invalid" ELSE IF fund[f] = "none" THEN "constraint" ELSE "none"

SetFundPrice(f, quote) == SetFundPriceError(f, quote) = "none" /\ Enters(f, <<quote>>)

ImportFundPricesError(f, rows) ==
  IF fund[f] = "none" THEN "fundNotFound"
  ELSE IF \/ rows = <<>>
          \/ \E k \in DOMAIN rows : rows[k].price <= 0 THEN "invalidRow"
  ELSE "none"

ImportFundPrices(f, rows) == ImportFundPricesError(f, rows) = "none" /\ Enters(f, rows)
=============================================================================
