------------------------------- MODULE MCBooks -------------------------------
(* Small inputs for the books.  A behaviour keeps to one of nine mixes of  *)
(* requests: each brings one kind of interplay, and all would be too many. *)
EXTENDS BooksApi

CONSTANTS p1, p2, f1, f2

TwoFunds(t1, t2) == [f \in Funds |-> IF f = f1 THEN t1 ELSE t2]
TwoPfs == (1 :> [portfolio |-> p1, fund |-> f1]) @@ (2 :> [portfolio |-> p2, fund |-> f2])

Rows(X, types, days, shares, prices) ==
  [pf : X, type : types, day : days, shares : shares, price : prices]

Payout(x, ex, bought, shares, cost) ==
  [pf |-> x, ex |-> ex, rate |-> 1, bought |-> bought, shares |-> shares, price |-> cost]

NoRequests ==
  [fund |-> TwoFunds("STOCK", "CASH"), pfs |-> TwoPfs, transaction |-> <<>>,
   dividend |-> <<>>, transactions |-> {}, changes |-> {}, deletes |-> FALSE, imports |-> {},
   dividends |-> {}, updates |-> {}, types |-> {}, portfolios |-> {}, funds |-> {},
   prices |-> {}, priceRows |-> {}, charts |-> {}, inFlight |-> 0]

Ledger ==
  [NoRequests EXCEPT
     !.transactions = Rows({1}, {"buy"}, {1, 2}, {2}, {1, 3}) \cup
                      Rows({1}, {"sell"}, {1, 2}, {1, 2}, {1}) \cup
                      Rows({1, 9}, {"fee", "split"}, {1}, {1}, {1}) \cup
                      Rows({1}, {"buy"}, {2}, {0}, {1}),
     !.changes = {[day |-> 1], [type |-> "sell"], [price |-> 0], <<>>},
     !.deletes = TRUE,
     !.imports = {<<[type |-> "sell", day |-> 1, shares |-> 1, price |-> 0]>>}]

Moves ==
  [NoRequests EXCEPT
     !.transactions = Rows({1}, {"buy"}, {1, 2}, {1}, {1}) \cup Rows({1}, {"sell"}, {2}, {1}, {1}) \cup
                      Rows({2}, {"buy"}, {1}, {2}, {2}),
     !.changes = {[pf |-> 2], [shares |-> 2], [pf |-> 9]},
     !.deletes = TRUE,
     !.imports = {<<[type |-> "buy", day |-> 1, shares |-> 1, price |-> 1],
                    [type |-> "dividend", day |-> 2, shares |-> 1, price |-> 1]>>}]

(* Two requests at a time on one dividend.                                 *)
Payouts ==
  [NoRequests EXCEPT
     !.transaction = <<[pf |-> 1, type |-> "buy", day |-> 1, shares |-> 2, price |-> 1]>>,
     !.dividend = <<[fund |-> f1, pf |-> 1, ex |-> 2, rate |-> 1, owned |-> 2, total |-> 2,
                     status |-> "PENDING", bought |-> 0, link |-> 0]>>,
     !.deletes = TRUE,
     !.updates = {[bought |-> 2, shares |-> 1, price |-> 1]},
     !.inFlight = 2]

(* One request at a time, while the rows it read are changed.              *)
Edits ==
  [NoRequests EXCEPT
     !.transaction = <<[pf |-> 1, type |-> "buy", day |-> 1, shares |-> 2, price |-> 1]>>,
     !.dividend = <<[fund |-> f1, pf |-> 1, ex |-> 2, rate |-> 1, owned |-> 2, total |-> 2,
                     status |-> "COMPLETED", bought |-> 0, link |-> 0]>>,
     !.changes = {[type |-> "sell"], [pf |-> 2]},
     !.deletes = TRUE,
     !.updates = {[bought |-> 3, shares |-> 2, price |-> 1], [pf |-> 2, ex |-> 1]},
     !.inFlight = 1]

Structure ==
  [NoRequests EXCEPT
     !.transactions = Rows({1}, {"buy"}, {1}, {1}, {1}),
     !.dividends = {Payout(1, 1, 2, 1, 1)},
     !.updates = {[pf |-> 2]},
     !.types = {"CASH", "None"}, !.portfolios = {p1}, !.funds = {f1},
     !.inFlight = 1]

(* Two funds in a portfolio, and prices.                                   *)
Figures ==
  [NoRequests EXCEPT
     !.pfs = (1 :> [portfolio |-> p1, fund |-> f1]) @@ (2 :> [portfolio |-> p1, fund |-> f2])
               @@ (3 :> [portfolio |-> p2, fund |-> f1]),
     !.dividend = <<[fund |-> f1, pf |-> 1, ex |-> 2, rate |-> 1, owned |-> 0, total |-> 0,
                     status |-> "PENDING", bought |-> 0, link |-> 0]>>,
     !.transactions = Rows({1}, {"buy"}, {2}, {2}, {1}) \cup Rows({3}, {"buy"}, {1}, {1}, {1}) \cup
                      Rows({1}, {"sell"}, {3}, {2}, {2}),
     !.updates = {[bought |-> 3, shares |-> 1, price |-> 1]},
     !.prices = {[day |-> 1, price |-> 2], [day |-> 3, price |-> 1]}, !.funds = {f1},
     !.inFlight = 1]

(* Two funds of a portfolio pay dividends on different days.               *)
Interleaved ==
  [NoRequests EXCEPT
     !.pfs = (1 :> [portfolio |-> p1, fund |-> f1]) @@ (2 :> [portfolio |-> p1, fund |-> f2]),
     !.transaction = <<[pf |-> 1, type |-> "buy", day |-> 1, shares |-> 2, price |-> 1],
                       [pf |-> 2, type |-> "buy", day |-> 1, shares |-> 1, price |-> 1]>>,
     !.deletes = TRUE,
     !.dividends = {Payout(1, 2, 0, 0, 0), Payout(2, 1, 0, 0, 0)},
     !.updates = {[ex |-> 1], [ex |-> 3]},
     !.inFlight = 1]

(* A reinvestment that a user turned into a sell moves on with its dividend *)
(* and leaves its gain behind.                                             *)
Leaves ==
  [NoRequests EXCEPT
     !.fund = TwoFunds("STOCK", "STOCK"),
     !.pfs = (1 :> [portfolio |-> p1, fund |-> f1]) @@ (2 :> [portfolio |-> p1, fund |-> f2]),
     !.transaction = <<[pf |-> 1, type |-> "buy", day |-> 1, shares |-> 2, price |-> 1]>>,
     !.dividend = <<[fund |-> f1, pf |-> 1, ex |-> 2, rate |-> 1, owned |-> 2, total |-> 2,
                     status |-> "PENDING", bought |-> 0, link |-> 0]>>,
     !.changes = {[type |-> "sell"]},
     !.updates = {[bought |-> 3, shares |-> 1, price |-> 1], [pf |-> 2, shares |-> 1, price |-> 1]},
     !.prices = {[day |-> 3, price |-> 1], [day |-> 3, price |-> 0]},
     !.funds = {f1},
     !.inFlight = 1]

(* Updates of prices among transactions and prices that users enter.  A    *)
(* chart has two quotes of a day, one without a price, and one of today.   *)
Quotes ==
  [NoRequests EXCEPT
     !.transaction = <<[pf |-> 1, type |-> "buy", day |-> 1, shares |-> 1, price |-> 1]>>,
     !.charts = {<<[day |-> 1, close |-> 2], [day |-> 1, close |-> 3], [day |-> 2, close |-> 2]>>,
                 <<[day |-> 1, close |-> 2], [day |-> 2], [day |-> 3, close |-> 2]>>,
                 <<[day |-> 2, close |-> 0]>>},
     !.priceRows = {<<[day |-> 2, price |-> 1], [day |-> 3, price |-> 1]>>},
     !.funds = {f1},
     !.inFlight = 2]

AllInputs ==
  [ledger |-> Ledger, moves |-> Moves, payouts |-> Payouts, edits |-> Edits,
   structure |-> Structure, figures |-> Figures, leaves |-> Leaves,
   interleaved |-> Interleaved, quotes |-> Quotes]
InterchangeableClients == Permutations(Clients)
=============================================================================
