------------------------------ MODULE Dividends ------------------------------
(***************************************************************************)
(* Dividends and their reinvestment (dividend_service.go) beside the       *)
(* ledger.  CreateDividend, UpdateDividend and DeleteDividend read what    *)
(* they need, then begin their database transaction and write, so other    *)
(* requests come in between: a request is a record that goes through the   *)
(* steps "count", "reread" (only to rewrite a reinvestment) and "write",   *)
(* and nothing it read is read again.  A dividend row is                   *)
(*   [fund, pf, ex, rate, owned, total, status, bought, link]              *)
(* with bought = 0 and link = 0 for NULL.                                  *)
(***************************************************************************)
EXTENDS Books

Statuses == {"PENDING", "PARTIAL", "COMPLETED"}

NewDividend == NextRow(DOMAIN dividend \cup {request[c].id : c \in DividendRequests}, MaxDividends)

ListedType(pf) == fund[pfs[pf].fund]

(***************************************************************************)
(* The reads.                                                              *)
(***************************************************************************)
ValidDividend(r) == r.rate > 0 /\ r.shares >= 0 /\ r.price >= 0
ValidDividendChanges(c) ==
  \A k \in {"rate", "shares", "price"} \cap DOMAIN c : c[k] > 0

CreateDividendError(r) ==
  IF ~ValidDividend(r) THEN "invalid"
  ELSE IF r.pf \notin DOMAIN pfs THEN "portfolioFundListing"
  ELSE IF ListedType(r.pf) = "None" THEN "paysNoDividends"
  ELSE "none"

UpdateDividendError(d, c) ==
  IF ~ValidDividendChanges(c) THEN "invalid"
  ELSE IF d \notin DOMAIN dividend THEN "dividendNotFound"
  ELSE IF "pf" \in DOMAIN c /\ c.pf \notin DOMAIN pfs THEN "portfolioFundListing"
  ELSE "none"

DeleteDividendError(d) == IF d \notin DOMAIN dividend THEN "dividendNotFound" ELSE "none"

(***************************************************************************)
(* hasReinvestmentInfo: a create passes zeros for what it leaves out.      *)
(* Whether a request will insert or rewrite a reinvestment is settled by   *)
(* what it read of the dividend and of the fund.                           *)
(***************************************************************************)
HasInfo(asked) ==
  {"shares", "price"} \subseteq DOMAIN asked /\ asked.shares > 0 /\ asked.price > 0
BuyOrderDay(asked, row) == IF "bought" \in DOMAIN asked THEN asked.bought ELSE row.bought

Plan(asked, type, row) ==
  IF BuyOrderDay(asked, row) = 0 \/ type # "STOCK" \/ ~HasInfo(asked) THEN "plain"
  ELSE IF row.link # 0 THEN "rewrite" ELSE "insert"

Asks(c, op, id, asked, type, row) ==
  /\ request[c] = Idle
  /\ request' = [request EXCEPT ![c] =
       [step |-> IF op = "delete" THEN "write" ELSE "count", op |-> op, id |-> id,
        asked |-> asked, type |-> type, plan |-> Plan(asked, type, row), found |-> "",
        row |-> [row EXCEPT !.bought = BuyOrderDay(asked, row)]]]
  /\ UNCHANGED <<portfolio, fund, price, pfs, transaction, gains, dividend, past, mix>>

CreateDividend(c, r) ==
  /\ CreateDividendError(r) = "none"
  /\ Asks(c, "create", 0, r, ListedType(r.pf),
          [fund |-> pfs[r.pf].fund, pf |-> r.pf, ex |-> r.ex, rate |-> r.rate, owned |-> 0,
           total |-> 0, status |-> "PENDING", bought |-> 0, link |-> 0])

(* The row keeps its fund when the request moves it to another             *)
(* portfolio_fund.                                                         *)
UpdateDividend(c, d, changes) ==
  /\ UpdateDividendError(d, changes) = "none"
  /\ LET row == Applied(changes, dividend[d])
     IN Asks(c, "update", d, changes, ListedType(row.pf), row)

DeleteDividend(c, d) ==
  /\ DeleteDividendError(d) = "none"
  /\ Asks(c, "delete", d, <<>>, "", dividend[d])

CountShares(c) ==
  /\ request[c].step = "count"
  /\ LET r == request[c]
         owned == SharesOnDate(transaction, r.row.pf, r.row.ex)
     IN request' = [request EXCEPT ![c] =
          [r EXCEPT !.step = IF r.plan = "rewrite" THEN "reread" ELSE "write",
                    !.row = [@ EXCEPT !.owned = owned, !.total = owned * r.row.rate]]]
  /\ UNCHANGED <<portfolio, fund, price, pfs, transaction, gains, dividend, past, mix>>

(* The reinvestment is read on another connection than the one its         *)
(* transaction runs on; of what is read only the type is written back.     *)
RereadReinvestment(c) ==
  /\ request[c].step = "reread"
  /\ request[c].row.link \in DOMAIN transaction
  /\ request' = [request EXCEPT ![c] =
       [@ EXCEPT !.step = "write", !.found = transaction[request[c].row.link].type]]
  /\ UNCHANGED <<portfolio, fund, price, pfs, transaction, gains, dividend, past, mix>>

(***************************************************************************)
(* The writes, from what was read.                                         *)
(***************************************************************************)
StatusWithOrder(r) ==
  IF r.plan # "plain"
  THEN IF r.asked.shares * r.asked.price = r.row.total THEN "COMPLETED" ELSE "PARTIAL"
  ELSE IF HasInfo(r.asked) \/ (r.op = "update" /\ r.row.status = "COMPLETED") THEN "COMPLETED"
  ELSE "PENDING"

Status(r) ==
  IF r.row.bought # 0 THEN StatusWithOrder(r)
  ELSE IF r.type = "STOCK" THEN "PENDING" ELSE "COMPLETED"

Reinvestment(r, type) ==
  [pf |-> r.row.pf, type |-> type, day |-> r.row.bought,
   shares |-> r.asked.shares, price |-> r.asked.price]

RowWritten(r, link) ==
  LET row == [r.row EXCEPT !.status = Status(r), !.link = link]
  IN IF r.op = "create" THEN With(dividend, NewDividend, row)
     ELSE [dividend EXCEPT ![r.id] = row]

(* A link the row got since the request read it is overwritten.            *)
LostLink(r) ==
  IF r.id \in DOMAIN dividend /\ dividend[r.id].link # r.row.link
  THEN {dividend[r.id].link} ELSE {}

(* The rows a request is about to write exist and so do those they refer   *)
(* to; otherwise its transaction is rolled back.                           *)
CanWrite(r) ==
  /\ r.op # "create" => r.id \in DOMAIN dividend
  /\ r.op # "delete" => r.row.pf \in DOMAIN pfs
  /\ r.row.link # 0 => r.row.link \in DOMAIN transaction

Writes(c) ==
  /\ request[c].step = "write"
  /\ CanWrite(request[c])
  /\ request' = [request EXCEPT ![c] = Idle]
  /\ UNCHANGED <<portfolio, fund, price, pfs, mix>>

WriteDividend(c) ==
  LET r == request[c]
  IN /\ Writes(c)
     /\ r.op \in {"create", "update"} /\ r.plan = "plain"
     /\ r.op = "create" => NewDividend # 0
     /\ UNCHANGED gains
     /\ Stores(transaction, RowWritten(r, r.row.link), {}, LostLink(r))

WriteReinvestment(c) ==
  LET r == request[c]
      i == NewTxn
  IN /\ Writes(c)
     /\ r.plan = "insert" /\ i # 0
     /\ r.op = "create" => NewDividend # 0
     /\ UNCHANGED gains
     /\ Stores(With(transaction, i, Reinvestment(r, "dividend")), RowWritten(r, i), {}, LostLink(r))

RewriteReinvestment(c) ==
  LET r == request[c]
  IN /\ Writes(c)
     /\ r.plan = "rewrite"
     /\ UNCHANGED gains
     /\ Stores([transaction EXCEPT ![r.row.link] = Reinvestment(r, r.found)],
               RowWritten(r, r.row.link), {}, LostLink(r))

(* Mutant.                                                                 *)
ErasesTheDividendOnly(c) ==
  LET r == request[c]
  IN /\ Writes(c)
     /\ r.op = "delete"
     /\ UNCHANGED gains
     /\ Stores(transaction, Without(dividend, {r.id}), {}, LostLink(r))

(* The dividend goes first, then the transaction the request read as its   *)
(* reinvestment, with what gains it may have.                              *)
EraseDividend(c) ==
  LET r == request[c]
  IN /\ Writes(c)
     /\ r.op = "delete"
     /\ gains' = IF r.row.link = 0 THEN gains ELSE GainsWithout(r.row.link)
     /\ Stores(Without(transaction, {r.row.link}), Without(dividend, {r.id}), {}, LostLink(r))

(* What it needs is gone: the request fails and leaves nothing behind.     *)
DividendRequestFails(c) ==
  /\ \/ request[c].step = "reread" /\ request[c].row.link \notin DOMAIN transaction
     \/ request[c].step = "write" /\ ~CanWrite(request[c])
  /\ request' = [request EXCEPT ![c] = Idle]
  /\ UNCHANGED <<portfolio, fund, price, pfs, transaction, gains, dividend, past, mix>>

DividendStep(c) ==
  \/ CountShares(c) \/ RereadReinvestment(c)
  \/ WriteDividend(c) \/ WriteReinvestment(c) \/ RewriteReinvestment(c)
  \/ EraseDividend(c) \/ DividendRequestFails(c)
=============================================================================
