------------------------------ MODULE Position ------------------------------
(***************************************************************************)
(* Arithmetic of a position: the shares and the cost that the rows of one  *)
(* portfolio_fund add up to.  The code does this sum three times, once for *)
(* the check of a sell (calculateCurrentPosition), once for the overview   *)
(* (calculateFundMetrics) and once in SQL for dividends (GetSharesOnDate). *)
(*                                                                         *)
(* A ledger T is a function from row numbers to transactions; the row      *)
(* numbers are in the order of insertion, which breaks ties between rows   *)
(* of one date.  Costs are exact fractions: the rounding of float64 is not *)
(* modelled.                                                               *)
(***************************************************************************)
EXTENDS Integers, Sequences, FiniteSets

Gcd[p \in Nat \X Nat] == IF p[2] = 0 THEN p[1] ELSE Gcd[<<p[2], p[1] % p[2]>>]

Ratio(n, d) == LET g == Gcd[<<n, d>>] IN [n |-> n \div g, d |-> d \div g]
Whole(n) == [n |-> n, d |-> 1]
Plus(r, s) == Ratio(r.n * s.d + s.n * r.d, r.d * s.d)
Scaled(r, up, down) == Ratio(r.n * up, r.d * down)

Amount(t) == Whole(t.shares * t.price)
RowsOf(T, pf) == {i \in DOMAIN T : T[i].pf = pf}
UpTo(T, S, day) == {i \in S : T[i].day <= day}

(* ORDER BY date, rows of one date as they were inserted.                  *)
Precedes(T, i, j) == T[i].day < T[j].day \/ (T[i].day = T[j].day /\ i < j)
ByDate(T, S) ==
  [k \in 1..Cardinality(S) |->
     CHOOSE i \in S : Cardinality({j \in S : Precedes(T, j, i)}) = k - 1]

(* Mutants.                                                                *)
SellsKeepTheCost(p, t) == [p EXCEPT !.shares = @ - t.shares]
TradesOnly(t) == CASE t.type = "buy" -> t.shares [] t.type = "sell" -> -t.shares [] OTHER -> 0

(* A sell takes its part of the cost along; the last share takes all.      *)
AfterSell(p, t) ==
  LET left == p.shares - t.shares
  IN [p EXCEPT !.shares = left,
               !.cost = IF left > 0 THEN Scaled(@, left, left + t.shares) ELSE Whole(0)]

AfterTransaction(p, t) ==
  CASE t.type \in {"buy", "dividend"} ->
         [p EXCEPT !.shares = @ + t.shares, !.cost = Plus(@, Amount(t))]
    [] t.type = "sell" -> AfterSell(p, t)
    [] t.type = "fee" -> [p EXCEPT !.cost = Plus(@, Whole(t.price))]

NoShares == [shares |-> 0, cost |-> Whole(0)]

CurrentPosition(T, pf, excluded) ==
  LET rows == ByDate(T, RowsOf(T, pf) \ {excluded})
      after[k \in 0..Len(rows)] ==
        IF k = 0 THEN NoShares ELSE AfterTransaction(after[k - 1], T[rows[k]])
  IN after[Len(rows)]

(* The overview starts from all reinvested shares, so a reinvestment row   *)
(* changes neither shares nor cost when its turn comes.                    *)
AfterTransactionInMetrics(m, t) ==
  CASE t.type = "dividend" -> [m EXCEPT !.dividends = Plus(@, Amount(t))]
    [] t.type = "fee" -> [m EXCEPT !.cost = Plus(@, Whole(t.price)), !.fees = @ + t.price]
    [] OTHER -> AfterTransaction(m, t)

FundMetrics(T, pf, day, reinvested) ==
  LET rows == ByDate(T, UpTo(T, RowsOf(T, pf), day))
      start == [shares |-> reinvested, cost |-> Whole(0), dividends |-> Whole(0), fees |-> 0]
      after[k \in 0..Len(rows)] ==
        IF k = 0 THEN start ELSE AfterTransactionInMetrics(after[k - 1], T[rows[k]])
  IN after[Len(rows)]

(* What one row is worth to the SQL sum of shares.                         *)
SharesAdded(t) ==
  CASE t.type \in {"buy", "dividend"} -> t.shares
    [] t.type = "sell" -> -t.shares
    [] OTHER -> 0

SharesOnDate(T, pf, day) ==
  LET rows == ByDate(T, UpTo(T, RowsOf(T, pf), day))
      sum[k \in 0..Len(rows)] ==
        IF k = 0 THEN 0 ELSE sum[k - 1] + SharesAdded(T[rows[k]])
  IN sum[Len(rows)]
=============================================================================
