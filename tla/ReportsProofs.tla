---------------------------- MODULE ReportsProofs ----------------------------
(***************************************************************************)
(* Proofs about the arithmetic of a portfolio: the three parts of the code *)
(* that count the shares of a portfolio_fund agree in every reachable      *)
(* state, money is neither made nor lost while sells are booked in         *)
(* calendar order, and the ways to report a portfolio agree.               *)
(*                                                                         *)
(* The argument: in a reachable state all three go through the same rows   *)
(* in the same order, each row once (ByDateListsRows, RowsAreListed).  The *)
(* position and the SQL sum grow by the same shares at every row.  The     *)
(* overview starts from all reinvested shares and skips the rows that      *)
(* brought them, so it is ahead by the reinvestments still to come, and    *)
(* those are used up at the last row (SpreadOverRows, RowByRow).           *)
(*                                                                         *)
(* The balance is not inductive: a gain keeps the basis it was booked with *)
(* and nothing in the balance says where that came from.  BookedInPlace    *)
(* adds it: outside the revised portfolio_funds every sell is covered by   *)
(* the rows before it and took its part of their cost along.  Then the     *)
(* balance holds row by row (BalanceAlong), by the laws of fractions.      *)
(*                                                                         *)
(* The reports add up the same figures in other orders and by other parts: *)
(* entry by entry, or fund by fund over what is left of them when entries  *)
(* of zeros are dropped, or the gains of all funds at once.  Sums of       *)
(* numbers and of fractions do not mind (SumInAnyOrder, SumWithoutZeros,   *)
(* SumByParts); GainsOK says that there are numbers and fractions to add.  *)
(*                                                                         *)
(* What is computed by recursion is unfolded by hand: a list of figures    *)
(* that satisfies the recursive equation exists, since there is no least   *)
(* place (or smallest set) where it fails to.                              *)
(***************************************************************************)
EXTENDS BooksProofs

-----------------------------------------------------------------------------
(* The recursions of Position.  A recursive function is a solution of its  *)
(* equation when there is one; that there is one is shown by the least     *)
(* place up to which there is none.                                        *)

(* The position after each row.                                            *)
Positions(T, rows, n, g) ==
  g = [k \in 0..n |-> IF k = 0 THEN NoShares ELSE AfterTransaction(g[k - 1], T[rows[k]])]

(* There is such a list of positions.                                      *)
LEMMA PositionsExist ==
  ASSUME NEW T, NEW rows, NEW n \in Nat
  PROVE  \E g : Positions(T, rows, n, g)
<1> DEFINE Unrolled(g) == [k \in 0..n |-> IF k = 0 THEN NoShares ELSE AfterTransaction(g[k - 1], T[rows[k]])]
           Solves(g, m) == \A k \in 0..n : k <= m => g[k] = Unrolled(g)[k]
           Missing == {m \in Nat : ~\E g : Solves(g, m)}
<1>1. \A g : \A k \in 0..n : Unrolled(g)[k] = IF k = 0 THEN NoShares ELSE AfterTransaction(g[k - 1], T[rows[k]])
  OBVIOUS
<1>2. ASSUME NEW g, NEW m \in Nat, \A k \in 0..n : k <= m - 1 => g[k] = Unrolled(g)[k]
      PROVE  Solves(Unrolled(g), m)
  <2> SUFFICES ASSUME NEW k \in 0..n, k <= m PROVE Unrolled(g)[k] = Unrolled(Unrolled(g))[k]
    OBVIOUS
  <2> HIDE DEF Unrolled
  <2>1. CASE k = 0
    BY <1>1, <2>1
  <2>2. CASE k # 0
    <3>1. k - 1 \in 0..n /\ k - 1 <= m - 1
      BY <2>2
    <3>2. g[k - 1] = Unrolled(g)[k - 1]
      BY <1>2, <3>1
    <3> QED
      BY <1>1, <2>2, <3>2
  <2> QED
    BY <2>1, <2>2
<1>3. Missing = {}
  <2> HIDE DEF Unrolled
  <2> SUFFICES ASSUME Missing # {} PROVE FALSE
    OBVIOUS
  <2>1. PICK m \in Missing : \A l \in Missing : m <= l
    <3>1. Missing \in SUBSET Nat
      OBVIOUS
    <3> HIDE DEF Missing
    <3> QED
      BY <3>1, LeastNatural
  <2>2. CASE m = 0
    <3>1. \A k \in 0..n : ~(k <= m - 1)
      BY <2>2
    <3>2. Solves(Unrolled(0), m)
      BY <1>2, <3>1
    <3> QED
      BY <2>1, <3>2
  <2>3. CASE m # 0
    <3>1. m - 1 \in Nat /\ m - 1 \notin Missing
      BY <2>1, <2>3
    <3>2. PICK g : Solves(g, m - 1)
      BY <3>1
    <3>3. Solves(Unrolled(g), m)
      BY <1>2, <3>2
    <3> QED
      BY <2>1, <3>3
  <2> QED
    BY <2>2, <2>3
<1>4. PICK g : \A k \in 0..n : g[k] = Unrolled(g)[k]
  <2>1. PICK g : Solves(g, n)
    BY <1>3
  <2> QED
    BY <2>1
<1>5. Unrolled(g) = Unrolled(Unrolled(g))
  <2> HIDE DEF Unrolled
  <2>1. \A k \in 1..n : Unrolled(g)[k - 1] = g[k - 1]
    BY <1>4
  <2>2. \A k \in 0..n : Unrolled(g)[k] = Unrolled(Unrolled(g))[k]
    BY <1>1, <2>1
  <2> QED
    BY <2>2 DEF Unrolled
<1> QED
  BY <1>5 DEF Positions

(* The position that a sell is checked against is that after its last row. *)
LEMMA CurrentPositionIs ==
  ASSUME NEW T, NEW pf, NEW excluded
  PROVE  LET rows == ByDate(T, RowsOf(T, pf) \ {excluded})
             n == Len(rows)
         IN n \in Nat =>
              \E after : /\ CurrentPosition(T, pf, excluded) = after[n]
                        /\ after[0] = NoShares
                        /\ \A k \in 1..n : after[k] = AfterTransaction(after[k - 1], T[rows[k]])
<1> DEFINE rows == ByDate(T, RowsOf(T, pf) \ {excluded})
           n == Len(rows)
           after == CHOOSE g : Positions(T, rows, n, g)
<1>1. CurrentPosition(T, pf, excluded) = after[n]
  BY Zenon DEF CurrentPosition, Positions
<1> SUFFICES ASSUME n \in Nat
             PROVE  /\ after[0] = NoShares
                    /\ \A k \in 1..n : after[k] = AfterTransaction(after[k - 1], T[rows[k]])
  BY <1>1, Zenon
<1> HIDE DEF rows, n
<1>2. Positions(T, rows, n, after)
  BY PositionsExist
<1> HIDE DEF after
<1>3. \A k \in 0..n : after[k] = IF k = 0 THEN NoShares ELSE AfterTransaction(after[k - 1], T[rows[k]])
  BY <1>2 DEF Positions
<1>4. \A k \in 1..n : k \in 0..n /\ k # 0
  OBVIOUS
<1> QED
  BY <1>3, <1>4

(* The figures of the overview after each row.                             *)
Metrics(T, rows, start, n, g) ==
  g = [k \in 0..n |-> IF k = 0 THEN start ELSE AfterTransactionInMetrics(g[k - 1], T[rows[k]])]

(* There is such a list of figures.                                        *)
LEMMA MetricsExist ==
  ASSUME NEW T, NEW rows, NEW start, NEW n \in Nat
  PROVE  \E g : Metrics(T, rows, start, n, g)
<1> DEFINE Unrolled(g) == [k \in 0..n |-> IF k = 0 THEN start ELSE AfterTransactionInMetrics(g[k - 1], T[rows[k]])]
           Solves(g, m) == \A k \in 0..n : k <= m => g[k] = Unrolled(g)[k]
           Missing == {m \in Nat : ~\E g : Solves(g, m)}
<1>1. \A g : \A k \in 0..n : Unrolled(g)[k] = IF k = 0 THEN start ELSE AfterTransactionInMetrics(g[k - 1], T[rows[k]])
  OBVIOUS
<1>2. ASSUME NEW g, NEW m \in Nat, \A k \in 0..n : k <= m - 1 => g[k] = Unrolled(g)[k]
      PROVE  Solves(Unrolled(g), m)
  <2> SUFFICES ASSUME NEW k \in 0..n, k <= m PROVE Unrolled(g)[k] = Unrolled(Unrolled(g))[k]
    OBVIOUS
  <2> HIDE DEF Unrolled
  <2>1. CASE k = 0
    BY <1>1, <2>1
  <2>2. CASE k # 0
    <3>1. k - 1 \in 0..n /\ k - 1 <= m - 1
      BY <2>2
    <3>2. g[k - 1] = Unrolled(g)[k - 1]
      BY <1>2, <3>1
    <3> QED
      BY <1>1, <2>2, <3>2
  <2> QED
    BY <2>1, <2>2
<1>3. Missing = {}
  <2> HIDE DEF Unrolled
  <2> SUFFICES ASSUME Missing # {} PROVE FALSE
    OBVIOUS
  <2>1. PICK m \in Missing : \A l \in Missing : m <= l
    <3>1. Missing \in SUBSET Nat
      OBVIOUS
    <3> HIDE DEF Missing
    <3> QED
      BY <3>1, LeastNatural
  <2>2. CASE m = 0
    <3>1. \A k \in 0..n : ~(k <= m - 1)
      BY <2>2
    <3>2. Solves(Unrolled(0), m)
      BY <1>2, <3>1
    <3> QED
      BY <2>1, <3>2
  <2>3. CASE m # 0
    <3>1. m - 1 \in Nat /\ m - 1 \notin Missing
      BY <2>1, <2>3
    <3>2. PICK g : Solves(g, m - 1)
      BY <3>1
    <3>3. Solves(Unrolled(g), m)
      BY <1>2, <3>2
    <3> QED
      BY <2>1, <3>3
  <2> QED
    BY <2>2, <2>3
<1>4. PICK g : \A k \in 0..n : g[k] = Unrolled(g)[k]
  <2>1. PICK g : Solves(g, n)
    BY <1>3
  <2> QED
    BY <2>1
<1>5. Unrolled(g) = Unrolled(Unrolled(g))
  <2> HIDE DEF Unrolled
  <2>1. \A k \in 1..n : Unrolled(g)[k - 1] = g[k - 1]
    BY <1>4
  <2>2. \A k \in 0..n : Unrolled(g)[k] = Unrolled(Unrolled(g))[k]
    BY <1>1, <2>1
  <2> QED
    BY <2>2 DEF Unrolled
<1> QED
  BY <1>5 DEF Metrics

(* What the overview starts from.                                          *)
FirstFigures(bought) == [shares |-> bought, cost |-> Whole(0), dividends |-> Whole(0), fees |-> 0]

(* It shows the figures after the last row.                                *)
LEMMA FundMetricsIs ==
  ASSUME NEW T, NEW pf, NEW day, NEW reinvested
  PROVE  LET rows == ByDate(T, UpTo(T, RowsOf(T, pf), day))
             n == Len(rows)
         IN n \in Nat =>
              \E after : /\ FundMetrics(T, pf, day, reinvested) = after[n]
                        /\ after[0] = FirstFigures(reinvested)
                        /\ \A k \in 1..n : after[k] = AfterTransactionInMetrics(after[k - 1], T[rows[k]])
<1> DEFINE rows == ByDate(T, UpTo(T, RowsOf(T, pf), day))
           n == Len(rows)
           after == CHOOSE g : Metrics(T, rows, FirstFigures(reinvested), n, g)
<1>1. FundMetrics(T, pf, day, reinvested) = after[n]
  BY Zenon DEF FundMetrics, Metrics, FirstFigures
<1> SUFFICES ASSUME n \in Nat
             PROVE  /\ after[0] = FirstFigures(reinvested)
                    /\ \A k \in 1..n : after[k] = AfterTransactionInMetrics(after[k - 1], T[rows[k]])
  BY <1>1, Zenon
<1> HIDE DEF rows, n
<1>2. Metrics(T, rows, FirstFigures(reinvested), n, after)
  BY MetricsExist
<1> HIDE DEF after
<1>3. \A k \in 0..n : after[k] = IF k = 0 THEN FirstFigures(reinvested) ELSE AfterTransactionInMetrics(after[k - 1], T[rows[k]])
  BY <1>2 DEF Metrics
<1>4. \A k \in 1..n : k \in 0..n /\ k # 0
  OBVIOUS
<1> QED
  BY <1>3, <1>4

-----------------------------------------------------------------------------
(***************************************************************************)
(* Sums.  The numbers (SumFunction) and the amounts (Total) are added up   *)
(* by the same laws, so these are shown once, for any kind of values A     *)
(* with a zero and a plus.                                                 *)
(***************************************************************************)
Summable(A) ==
  /\ A.zero \in A.values
  /\ \A a, b \in A.values : A.plus[<<a, b>>] \in A.values /\ A.plus[<<a, b>>] = A.plus[<<b, a>>]
  /\ \A a \in A.values : A.plus[<<a, A.zero>>] = a
  /\ \A a, b, c \in A.values : A.plus[<<a, A.plus[<<b, c>>]>>] = A.plus[<<A.plus[<<a, b>>], c>>]

(* The sums of the parts of D, whichever element is added last.            *)
SumsOfParts(A, f, D, sum) ==
  /\ sum[{}] = A.zero
  /\ \A s \in SUBSET D : sum[s] \in A.values
  /\ \A s \in SUBSET D : \A x \in s : sum[s] = A.plus[<<f[x], sum[s \ {x}]>>]
SumOver(A, f, D) == (CHOOSE sum : SumsOfParts(A, f, D, sum))[D]

(* What holds of a part when it does without any of its elements, holds of *)
(* every part.                                                             *)
LEMMA PartsInduction ==
  ASSUME NEW D, IsFiniteSet(D), NEW P,
         \A s \in SUBSET D : (\A x \in s : s \ {x} \in P) => s \in P
  PROVE  \A s \in SUBSET D : s \in P
<1> DEFINE Bad == {s \in SUBSET D : s \notin P}
           Sizes == {Cardinality(s) : s \in Bad}
<1>1. \A s \in SUBSET D : /\ Cardinality(s) \in Nat
                          /\ \A x \in s : Cardinality(s \ {x}) = Cardinality(s) - 1
  <2> SUFFICES ASSUME NEW s \in SUBSET D
               PROVE  Cardinality(s) \in Nat /\ \A x \in s : Cardinality(s \ {x}) = Cardinality(s) - 1
    OBVIOUS
  <2>1. IsFiniteSet(s) /\ Cardinality(s) \in Nat
    BY FS_Subset, FS_CardinalityType
  <2> QED
    BY <2>1, FS_RemoveElement
<1> SUFFICES ASSUME Bad # {} PROVE FALSE
  OBVIOUS
<1>2. Sizes \in SUBSET Nat /\ Sizes # {}
  BY <1>1
<1>3. PICK m \in Sizes : \A l \in Sizes : m <= l
  <2> HIDE DEF Sizes
  <2> QED
    BY <1>2, LeastNatural
<1>4. PICK s \in Bad : m = Cardinality(s)
  BY <1>3
<1>5. ASSUME NEW x \in s PROVE s \ {x} \in P
  <2>1. s \ {x} \in SUBSET D /\ Cardinality(s \ {x}) = m - 1 /\ m \in Nat
    BY <1>1, <1>4
  <2> SUFFICES ASSUME s \ {x} \notin P PROVE FALSE
    OBVIOUS
  <2>2. Cardinality(s \ {x}) \in Sizes
    BY <2>1
  <2> HIDE DEF Sizes
  <2> QED
    BY <1>3, <2>1, <2>2
<1> QED
  BY <1>4, <1>5

(* There are such sums.                                                    *)
LEMMA PartSumsExist ==
  ASSUME NEW A, Summable(A), NEW D, IsFiniteSet(D), NEW f, \A d \in D : f[d] \in A.values
  PROVE  \E sum : SumsOfParts(A, f, D, sum)
<1> DEFINE P == {s \in SUBSET D : \E sum : SumsOfParts(A, f, s, sum)}
<1>1. ASSUME NEW s \in SUBSET D, \A x \in s : s \ {x} \in P PROVE s \in P
  <2>1. CASE s = {}
    <3> DEFINE sum == [t \in {{}} |-> A.zero]
    <3>1. SumsOfParts(A, f, s, sum)
      BY <2>1 DEF SumsOfParts, Summable
    <3> QED
      BY <3>1
  <2>2. CASE s # {}
    <3>1. PICK y \in s : TRUE
      BY <2>2
    <3>2. PICK rest : SumsOfParts(A, f, s \ {y}, rest)
      BY <1>1, <3>1
    <3>3. /\ rest[{}] = A.zero
          /\ \A t \in SUBSET (s \ {y}) : rest[t] \in A.values
          /\ \A t \in SUBSET (s \ {y}) : \A x \in t : rest[t] = A.plus[<<f[x], rest[t \ {x}]>>]
      BY <3>2 DEF SumsOfParts
    <3> DEFINE sum == [t \in SUBSET s |-> IF y \in t THEN A.plus[<<f[y], rest[t \ {y}]>>] ELSE rest[t]]
    <3>4. \A t \in SUBSET s : /\ y \in t => sum[t] = A.plus[<<f[y], rest[t \ {y}]>>]
                              /\ y \notin t => sum[t] = rest[t]
      OBVIOUS
    <3>5. sum[{}] = A.zero
      BY <3>3
    <3> HIDE DEF sum
    <3>6. \A t \in SUBSET s : t \ {y} \in SUBSET (s \ {y}) /\ (y \notin t => t \in SUBSET (s \ {y}))
      OBVIOUS
    <3>7. ASSUME NEW t \in SUBSET s PROVE sum[t] \in A.values
      <4>1. CASE y \in t
        <5>1. rest[t \ {y}] \in A.values /\ f[y] \in A.values
          BY <3>1, <3>3, <3>6
        <5>2. A.plus[<<f[y], rest[t \ {y}]>>] \in A.values
          BY <5>1 DEF Summable
        <5> QED
          BY <3>4, <4>1, <5>2
      <4>2. CASE y \notin t
        BY <3>3, <3>4, <3>6, <4>2
      <4> QED
        BY <4>1, <4>2
    <3>8. ASSUME NEW t \in SUBSET s, NEW x \in t PROVE sum[t] = A.plus[<<f[x], sum[t \ {x}]>>]
      <4>1. CASE y \notin t
        <5>1. t \in SUBSET (s \ {y}) /\ t \ {x} \in SUBSET s /\ y \notin t \ {x}
          BY <4>1
        <5>2. sum[t] = rest[t] /\ sum[t \ {x}] = rest[t \ {x}]
          BY <3>4, <4>1, <5>1
        <5>3. rest[t] = A.plus[<<f[x], rest[t \ {x}]>>]
          BY <3>3, <5>1
        <5> QED
          BY <5>2, <5>3
      <4>2. CASE x = y
        <5>1. t \ {x} \in SUBSET s /\ y \notin t \ {x} /\ y \in t
          BY <4>2
        <5> QED
          BY <3>4, <4>2, <5>1
      <4>3. CASE y \in t /\ x # y
        <5>1. /\ t \ {x} \in SUBSET s /\ y \in t \ {x}
              /\ t \ {y} \in SUBSET (s \ {y}) /\ x \in t \ {y}
              /\ (t \ {x}) \ {y} = (t \ {y}) \ {x} /\ (t \ {x}) \ {y} \in SUBSET (s \ {y})
          BY <4>3
        <5>2. PICK r : r = rest[(t \ {x}) \ {y}]
          OBVIOUS
        <5>3. sum[t] = A.plus[<<f[y], A.plus[<<f[x], r>>]>>]
          <6>1. rest[t \ {y}] = A.plus[<<f[x], rest[(t \ {y}) \ {x}]>>]
            BY <3>3, <5>1
          <6>2. rest[t \ {y}] = A.plus[<<f[x], r>>]
            BY <5>1, <5>2, <6>1
          <6> QED
            BY <3>4, <4>3, <6>2
        <5>4. sum[t \ {x}] = A.plus[<<f[y], r>>]
          BY <3>4, <5>1, <5>2
        <5>5. f[x] \in A.values /\ f[y] \in A.values /\ r \in A.values
          BY <3>1, <3>3, <5>1, <5>2
        <5>6. A.plus[<<f[y], A.plus[<<f[x], r>>]>>] = A.plus[<<A.plus[<<f[y], f[x]>>], r>>]
          BY <5>5 DEF Summable
        <5>7. A.plus[<<f[x], A.plus[<<f[y], r>>]>>] = A.plus[<<A.plus[<<f[x], f[y]>>], r>>]
          BY <5>5 DEF Summable
        <5>8. A.plus[<<f[x], f[y]>>] = A.plus[<<f[y], f[x]>>]
          BY <5>5 DEF Summable
        <5> QED
          BY <5>3, <5>4, <5>6, <5>7, <5>8
      <4> QED
        BY <4>1, <4>2, <4>3
    <3>9. SumsOfParts(A, f, s, sum)
      BY <3>5, <3>7, <3>8 DEF SumsOfParts
    <3> QED
      BY <3>9
  <2> QED
    BY <2>1, <2>2
<1>2. D \in P
  <2> HIDE DEF P
  <2>1. \A s \in SUBSET D : (\A x \in s : s \ {x} \in P) => s \in P
    BY <1>1
  <2>2. \A s \in SUBSET D : s \in P
    BY <2>1, PartsInduction
  <2> QED
    BY <2>2
<1> QED
  BY <1>2

(* And no others.                                                          *)
LEMMA PartSumsAreOne ==
  ASSUME NEW A, NEW D, NEW S \in SUBSET D, IsFiniteSet(S), NEW f, NEW sum, NEW other,
         SumsOfParts(A, f, D, sum), SumsOfParts(A, f, S, other)
  PROVE  sum[S] = other[S]
<1> DEFINE P == {s \in SUBSET S : sum[s] = other[s]}
<1>1. ASSUME NEW s \in SUBSET S, \A x \in s : s \ {x} \in P PROVE s \in P
  <2>1. CASE s = {}
    BY <2>1 DEF SumsOfParts
  <2>2. CASE s # {}
    <3>1. PICK x \in s : TRUE
      BY <2>2
    <3>2. sum[s \ {x}] = other[s \ {x}]
      BY <1>1
    <3>3. sum[s] = A.plus[<<f[x], sum[s \ {x}]>>] /\ other[s] = A.plus[<<f[x], other[s \ {x}]>>]
      BY DEF SumsOfParts
    <3> QED
      BY <3>2, <3>3
  <2> QED
    BY <2>1, <2>2
<1>2. S \in P
  <2> HIDE DEF P
  <2>1. \A s \in SUBSET S : (\A x \in s : s \ {x} \in P) => s \in P
    BY <1>1
  <2>2. \A s \in SUBSET S : s \in P
    BY <2>1, PartsInduction
  <2> QED
    BY <2>2
<1> QED
  BY <1>2

(* So a sum may be taken in any order.                                     *)
LEMMA SumInAnyOrder ==
  ASSUME NEW A, Summable(A), NEW D, IsFiniteSet(D), NEW f, \A d \in D : f[d] \in A.values
  PROVE  /\ SumOver(A, f, D) \in A.values
         /\ SumOver(A, f, {}) = A.zero
         /\ \A x \in D : SumOver(A, f, D) = A.plus[<<f[x], SumOver(A, f, D \ {x})>>]
<1>1. \A S \in SUBSET D : IsFiniteSet(S)
  BY FS_Subset
<1>2. ASSUME NEW S \in SUBSET D PROVE \E sum : SumsOfParts(A, f, S, sum) /\ SumOver(A, f, S) = sum[S]
  <2>1. \E sum : SumsOfParts(A, f, S, sum)
    BY <1>1, PartSumsExist
  <2> QED
    BY <2>1, Zenon DEF SumOver
<1>3. PICK sum : SumsOfParts(A, f, D, sum) /\ SumOver(A, f, D) = sum[D]
  BY <1>2
<1>4. ASSUME NEW S \in SUBSET D PROVE SumOver(A, f, S) = sum[S]
  <2>1. PICK other : SumsOfParts(A, f, S, other) /\ SumOver(A, f, S) = other[S]
    BY <1>2
  <2>2. IsFiniteSet(S)
    BY <1>1
  <2> QED
    BY <1>3, <2>1, <2>2, PartSumsAreOne
<1>5. {} \in SUBSET D /\ D \in SUBSET D /\ \A x \in D : D \ {x} \in SUBSET D
  OBVIOUS
<1> HIDE DEF SumOver
<1>6. /\ sum[{}] = A.zero /\ sum[D] \in A.values
      /\ \A x \in D : sum[D] = A.plus[<<f[x], sum[D \ {x}]>>]
  BY <1>3, <1>5 DEF SumsOfParts
<1> QED
  BY <1>4, <1>5, <1>6

(* What is added up may be described in another way.                       *)
LEMMA SameSums ==
  ASSUME NEW A, Summable(A), NEW D, IsFiniteSet(D), NEW f, \A d \in D : f[d] \in A.values,
         NEW g, \A d \in D : g[d] = f[d]
  PROVE  SumOver(A, g, D) = SumOver(A, f, D)
<1> DEFINE P == {s \in SUBSET D : SumOver(A, g, s) = SumOver(A, f, s)}
<1>1. ASSUME NEW s \in SUBSET D, \A x \in s : s \ {x} \in P PROVE s \in P
  <2>1. IsFiniteSet(s) /\ \A d \in s : f[d] \in A.values /\ g[d] = f[d] /\ g[d] \in A.values
    BY FS_Subset
  <2>2. CASE s = {}
    <3>1. SumOver(A, g, {}) = A.zero /\ SumOver(A, f, {}) = A.zero
      BY <2>1, SumInAnyOrder
    <3> QED
      BY <2>2, <3>1
  <2>3. CASE s # {}
    <3>1. PICK x \in s : TRUE
      BY <2>3
    <3>2. SumOver(A, g, s) = A.plus[<<g[x], SumOver(A, g, s \ {x})>>]
      BY <2>1, <3>1, SumInAnyOrder
    <3>3. SumOver(A, f, s) = A.plus[<<f[x], SumOver(A, f, s \ {x})>>]
      BY <2>1, <3>1, SumInAnyOrder
    <3>4. SumOver(A, g, s \ {x}) = SumOver(A, f, s \ {x})
      BY <1>1, <3>1
    <3> QED
      BY <2>1, <3>1, <3>2, <3>3, <3>4
  <2> QED
    BY <2>2, <2>3
<1>2. D \in P
  <2> HIDE DEF P
  <2>1. \A s \in SUBSET D : (\A x \in s : s \ {x} \in P) => s \in P
    BY <1>1
  <2>2. \A s \in SUBSET D : s \in P
    BY <2>1, PartsInduction
  <2> QED
    BY <2>2
<1> QED
  BY <1>2

(* Zeros may be left out.                                                  *)
LEMMA SumWithoutZeros ==
  ASSUME NEW A, Summable(A), NEW D, IsFiniteSet(D), NEW f, \A d \in D : f[d] \in A.values,
         NEW T \in SUBSET D, \A d \in D \ T : f[d] = A.zero
  PROVE  SumOver(A, f, D) = SumOver(A, f, T)
<1> DEFINE P == {s \in SUBSET D : SumOver(A, f, s) = SumOver(A, f, s \cap T)}
<1>1. ASSUME NEW s \in SUBSET D, \A x \in s : s \ {x} \in P PROVE s \in P
  <2>1. IsFiniteSet(s) /\ \A d \in s : f[d] \in A.values
    BY FS_Subset
  <2>2. CASE s \subseteq T
    <3>1. s = s \cap T
      BY <2>2
    <3> QED
      BY <3>1
  <2>3. CASE ~(s \subseteq T)
    <3>1. PICK x \in s : x \notin T
      BY <2>3
    <3>2. s \cap T = (s \ {x}) \cap T /\ f[x] = A.zero
      BY <3>1
    <3>3. SumOver(A, f, s) = A.plus[<<A.zero, SumOver(A, f, s \ {x})>>]
      BY <2>1, <3>1, <3>2, SumInAnyOrder
    <3>4. SumOver(A, f, s \ {x}) \in A.values
      <4>1. IsFiniteSet(s \ {x}) /\ \A d \in s \ {x} : f[d] \in A.values
        BY <2>1, FS_Subset
      <4> QED
        BY <4>1, SumInAnyOrder
    <3>5. \A v \in A.values : A.plus[<<A.zero, v>>] = v
      BY DEF Summable
    <3>6. SumOver(A, f, s \ {x}) = SumOver(A, f, (s \ {x}) \cap T)
      BY <1>1, <3>1
    <3> QED
      BY <3>2, <3>3, <3>4, <3>5, <3>6
  <2> QED
    BY <2>2, <2>3
<1>2. D \in P
  <2> HIDE DEF P
  <2>1. \A s \in SUBSET D : (\A x \in s : s \ {x} \in P) => s \in P
    BY <1>1
  <2>2. \A s \in SUBSET D : s \in P
    BY <2>1, PartsInduction
  <2> QED
    BY <2>2
<1>3. D \cap T = T
  OBVIOUS
<1> QED
  BY <1>2, <1>3

(* A sum over two sets without common elements is the sum of their sums.   *)
LEMMA SumOfUnion ==
  ASSUME NEW A, Summable(A), NEW D, IsFiniteSet(D), NEW f, \A d \in D : f[d] \in A.values,
         NEW S \in SUBSET D, NEW T \in SUBSET D, S \cap T = {}
  PROVE  SumOver(A, f, S \cup T) = A.plus[<<SumOver(A, f, S), SumOver(A, f, T)>>]
<1> DEFINE P == {s \in SUBSET S : SumOver(A, f, s \cup T) = A.plus[<<SumOver(A, f, s), SumOver(A, f, T)>>]}
<1>1. \A s \in SUBSET D : /\ SumOver(A, f, s) \in A.values
                          /\ \A x \in s : SumOver(A, f, s) = A.plus[<<f[x], SumOver(A, f, s \ {x})>>]
  <2> SUFFICES ASSUME NEW s \in SUBSET D
               PROVE  /\ SumOver(A, f, s) \in A.values
                      /\ \A x \in s : SumOver(A, f, s) = A.plus[<<f[x], SumOver(A, f, s \ {x})>>]
    OBVIOUS
  <2>1. IsFiniteSet(s) /\ \A d \in s : f[d] \in A.values
    BY FS_Subset
  <2> QED
    BY <2>1, SumInAnyOrder
<1>2. SumOver(A, f, {}) = A.zero
  BY SumInAnyOrder
<1>3. IsFiniteSet(S)
  BY FS_Subset
<1>4. ASSUME NEW s \in SUBSET S, \A x \in s : s \ {x} \in P PROVE s \in P
  <2>1. CASE s = {}
    <3>1. SumOver(A, f, T) \in A.values
      BY <1>1
    <3>2. A.plus[<<A.zero, SumOver(A, f, T)>>] = SumOver(A, f, T)
      BY <3>1 DEF Summable
    <3>3. s \cup T = T
      BY <2>1
    <3> QED
      BY <1>2, <2>1, <3>2, <3>3
  <2>2. CASE s # {}
    <3>1. PICK x \in s : TRUE
      BY <2>2
    <3>2. /\ s \cup T \in SUBSET D /\ x \in s \cup T /\ (s \cup T) \ {x} = (s \ {x}) \cup T
          /\ s \in SUBSET D /\ s \ {x} \in SUBSET D /\ x \in D
      BY <3>1
    <3>3. PICK a, b, c : a = f[x] /\ b = SumOver(A, f, s \ {x}) /\ c = SumOver(A, f, T)
      OBVIOUS
    <3>4. a \in A.values /\ b \in A.values /\ c \in A.values
      BY <1>1, <3>2, <3>3
    <3>5. SumOver(A, f, s \cup T) = A.plus[<<a, SumOver(A, f, (s \ {x}) \cup T)>>]
      BY <1>1, <3>2, <3>3
    <3>6. SumOver(A, f, (s \ {x}) \cup T) = A.plus[<<b, c>>]
      BY <1>4, <3>1, <3>3
    <3>7. SumOver(A, f, s) = A.plus[<<a, b>>]
      BY <1>1, <3>1, <3>2, <3>3
    <3>8. A.plus[<<a, A.plus[<<b, c>>]>>] = A.plus[<<A.plus[<<a, b>>], c>>]
      BY <3>4 DEF Summable
    <3> QED
      BY <3>3, <3>5, <3>6, <3>7, <3>8
  <2> QED
    BY <2>1, <2>2
<1>5. S \in P
  <2> HIDE DEF P
  <2>1. \A s \in SUBSET S : (\A x \in s : s \ {x} \in P) => s \in P
    BY <1>4
  <2>2. \A s \in SUBSET S : s \in P
    BY <2>1, <1>3, PartsInduction
  <2> QED
    BY <2>2
<1> QED
  BY <1>5

(* Nor do the parts matter that a sum is taken by: fiber says which.       *)
LEMMA SumByParts ==
  ASSUME NEW A, Summable(A), NEW D, IsFiniteSet(D), NEW f, \A d \in D : f[d] \in A.values,
         NEW X, IsFiniteSet(X), NEW part, \A x \in X : part[x] \in SUBSET D,
         \A d \in D : \E x \in X : d \in part[x],
         \A x, y \in X : x # y => part[x] \cap part[y] = {},
         NEW h, \A x \in X : h[x] = SumOver(A, f, part[x])
  PROVE  SumOver(A, h, X) = SumOver(A, f, D)
<1> DEFINE Of(s) == {d \in D : \E x \in s : d \in part[x]}
           P == {s \in SUBSET X : SumOver(A, h, s) = SumOver(A, f, Of(s))}
<1>1. \A S \in SUBSET D : IsFiniteSet(S) /\ (\A d \in S : f[d] \in A.values) /\ SumOver(A, f, S) \in A.values
  <2> SUFFICES ASSUME NEW S \in SUBSET D PROVE IsFiniteSet(S) /\ SumOver(A, f, S) \in A.values
    OBVIOUS
  <2>1. IsFiniteSet(S) /\ \A d \in S : f[d] \in A.values
    BY FS_Subset
  <2> QED
    BY <2>1, SumInAnyOrder
<1>2. \A x \in X : h[x] \in A.values
  BY <1>1
<1>3. ASSUME NEW s \in SUBSET X, \A x \in s : s \ {x} \in P PROVE s \in P
  <2>1. IsFiniteSet(s) /\ \A x \in s : h[x] \in A.values
    BY <1>2, FS_Subset
  <2>2. CASE s = {}
    <3>1. SumOver(A, h, {}) = A.zero
      BY <2>1, SumInAnyOrder
    <3>2. SumOver(A, f, {}) = A.zero
      BY SumInAnyOrder
    <3>3. Of(s) = {}
      BY <2>2
    <3> QED
      BY <2>2, <3>1, <3>2, <3>3
  <2>3. CASE s # {}
    <3>1. PICK x \in s : TRUE
      BY <2>3
    <3>2. SumOver(A, h, s) = A.plus[<<SumOver(A, f, part[x]), SumOver(A, h, s \ {x})>>]
      BY <2>1, <3>1, SumInAnyOrder
    <3>3. SumOver(A, h, s \ {x}) = SumOver(A, f, Of(s \ {x}))
      BY <1>3, <3>1
    <3>4. Of(s) = part[x] \cup Of(s \ {x}) /\ part[x] \cap Of(s \ {x}) = {}
      BY <3>1
    <3> DEFINE Rest == Of(s \ {x})
    <3>5. Rest \in SUBSET D /\ part[x] \in SUBSET D /\ part[x] \cap Rest = {}
      BY <3>1, <3>4
    <3> HIDE DEF Rest
    <3>6. SumOver(A, f, part[x] \cup Rest) = A.plus[<<SumOver(A, f, part[x]), SumOver(A, f, Rest)>>]
      BY <3>5, SumOfUnion
    <3> QED
      BY <3>2, <3>3, <3>4, <3>6 DEF Rest
  <2> QED
    BY <2>2, <2>3
<1>4. X \in P
  <2> HIDE DEF P
  <2>1. \A s \in SUBSET X : (\A x \in s : s \ {x} \in P) => s \in P
    BY <1>3
  <2>2. \A s \in SUBSET X : s \in P
    BY <2>1, PartsInduction
  <2> QED
    BY <2>2
<1>5. Of(X) = D
  OBVIOUS
<1> QED
  BY <1>4, <1>5

(* The numbers, and the recursion that SumFunction is on the parts of D.   *)
Numbers == [values |-> Int, zero |-> 0, plus |-> [p \in Int \X Int |-> p[1] + p[2]]]
NumbersAdded(f, D, g) ==
  g = [s \in SUBSET D |->
         IF s = {} THEN 0 ELSE LET x == CHOOSE x \in s : TRUE IN f[x] + g[s \ {x}]]

(* Numbers add up.                                                         *)
LEMMA NumbersAreSummable ==
  Summable(Numbers) /\ Numbers.values = Int /\ Numbers.zero = 0 /\ \A a, b \in Int : Numbers.plus[<<a, b>>] = a + b
<1>1. Numbers.values = Int /\ Numbers.zero = 0 /\ \A a, b \in Int : Numbers.plus[<<a, b>>] = a + b
  BY DEF Numbers
<1>2. Summable(Numbers)
  BY <1>1 DEF Summable
<1> QED
  BY <1>1, <1>2

(* SumFunction is their sum.                                               *)
LEMMA SumFunctionIs ==
  ASSUME NEW f, IsFiniteSet(DOMAIN f), \A d \in DOMAIN f : f[d] \in Int
  PROVE  SumFunction(f) = SumOver(Numbers, f, DOMAIN f)
<1> DEFINE D == DOMAIN f
           g == CHOOSE g : NumbersAdded(f, D, g)
           AnyOf(s) == CHOOSE x \in s : TRUE
           P == {s \in SUBSET D : g[s] = SumOver(Numbers, f, s)}
<1>1. SumFunction(f) = g[D]
  BY Zenon DEF SumFunction, SumFunctionOnSet, FoldFunctionOnSet, MapThenFoldSet, NumbersAdded
<1>2. ASSUME NEW s \in SUBSET D
      PROVE  /\ SumOver(Numbers, f, s) \in Int
             /\ SumOver(Numbers, f, {}) = 0
             /\ \A x \in s : /\ SumOver(Numbers, f, s \ {x}) \in Int
                             /\ SumOver(Numbers, f, s) = f[x] + SumOver(Numbers, f, s \ {x})
  <2>1. ASSUME NEW S \in SUBSET D
        PROVE  /\ SumOver(Numbers, f, S) \in Int
               /\ SumOver(Numbers, f, {}) = 0
               /\ \A x \in S : SumOver(Numbers, f, S) = Numbers.plus[<<f[x], SumOver(Numbers, f, S \ {x})>>]
    <3>1. IsFiniteSet(S) /\ \A d \in S : f[d] \in Numbers.values
      BY FS_Subset, NumbersAreSummable
    <3> QED
      BY <3>1, NumbersAreSummable, SumInAnyOrder
  <2>2. ASSUME NEW x \in s
        PROVE  /\ SumOver(Numbers, f, s \ {x}) \in Int
               /\ SumOver(Numbers, f, s) = f[x] + SumOver(Numbers, f, s \ {x})
    <3>1. SumOver(Numbers, f, s \ {x}) \in Int /\ f[x] \in Int
      BY <2>1
    <3> QED
      BY <2>1, <3>1, NumbersAreSummable
  <2> QED
    BY <2>1, <2>2
<1>3. \A s : s # {} => AnyOf(s) \in s
  OBVIOUS
<1>4. NumbersAdded(f, D, g)
  <2> DEFINE sum == [s \in SUBSET D |-> SumOver(Numbers, f, s)]
             next == [s \in SUBSET D |-> IF s = {} THEN 0 ELSE f[AnyOf(s)] + sum[s \ {AnyOf(s)}]]
  <2> HIDE DEF AnyOf
  <2>1. \A s \in SUBSET D : s # {} => s \ {AnyOf(s)} \in SUBSET D
    OBVIOUS
  <2>2. ASSUME NEW s \in SUBSET D PROVE sum[s] = next[s]
    <3>1. CASE s = {}
      BY <1>2, <3>1
    <3>2. CASE s # {}
      <4>1. sum[s] = SumOver(Numbers, f, s) /\ sum[s \ {AnyOf(s)}] = SumOver(Numbers, f, s \ {AnyOf(s)})
        BY <2>1, <3>2
      <4>2. next[s] = f[AnyOf(s)] + sum[s \ {AnyOf(s)}]
        BY <3>2
      <4> QED
        BY <1>2, <1>3, <3>2, <4>1, <4>2
    <3> QED
      BY <3>1, <3>2
  <2>3. sum = next
    <3> HIDE DEF SumOver
    <3> QED
      BY <2>2
  <2>4. NumbersAdded(f, D, sum)
    BY <2>3, Zenon DEF NumbersAdded, AnyOf
  <2> HIDE DEF sum, next
  <2> QED
    BY <2>4, Zenon
<1> HIDE DEF g
<1>5. g[{}] = 0 /\ \A s \in SUBSET D : s # {} => g[s] = f[AnyOf(s)] + g[s \ {AnyOf(s)}]
  BY <1>4 DEF NumbersAdded
<1> HIDE DEF AnyOf
<1>6. ASSUME NEW s \in SUBSET D, \A x \in s : s \ {x} \in P PROVE s \in P
  <2>1. CASE s = {}
    BY <1>2, <1>5, <2>1
  <2>2. CASE s # {}
    <3>1. AnyOf(s) \in s
      BY <1>3, <2>2
    <3>2. g[s \ {AnyOf(s)}] = SumOver(Numbers, f, s \ {AnyOf(s)})
      BY <1>6, <3>1
    <3> QED
      BY <1>2, <1>5, <2>2, <3>1, <3>2
  <2> QED
    BY <2>1, <2>2
<1>7. \A s \in SUBSET D : s \in P
  <2> HIDE DEF P, D
  <2>1. IsFiniteSet(D)
    BY DEF D
  <2> QED
    BY <1>6, <2>1, PartsInduction
<1> QED
  BY <1>1, <1>7

(* Numbers that are not negative have a sum that is not.                   *)
LEMMA SumOfNaturals ==
  ASSUME NEW f, NEW D, IsFiniteSet(D), \A d \in D : f[d] \in Nat
  PROVE  SumOver(Numbers, f, D) \in Nat
<1> DEFINE P == {s \in SUBSET D : SumOver(Numbers, f, s) \in Nat}
<1>1. ASSUME NEW s \in SUBSET D, \A x \in s : s \ {x} \in P PROVE s \in P
  <2>1. IsFiniteSet(s) /\ \A d \in s : f[d] \in Numbers.values /\ f[d] \in Nat
    BY FS_Subset, NumbersAreSummable
  <2>2. CASE s = {}
    <3>1. SumOver(Numbers, f, {}) = 0
      BY <2>1, NumbersAreSummable, SumInAnyOrder
    <3> QED
      BY <2>2, <3>1
  <2>3. CASE s # {}
    <3>1. PICK x \in s : TRUE
      BY <2>3
    <3>2. SumOver(Numbers, f, s) = Numbers.plus[<<f[x], SumOver(Numbers, f, s \ {x})>>]
      BY <2>1, <3>1, NumbersAreSummable, SumInAnyOrder
    <3>3. SumOver(Numbers, f, s \ {x}) \in Nat /\ f[x] \in Nat
      BY <1>1, <2>1, <3>1
    <3>4. SumOver(Numbers, f, s) = f[x] + SumOver(Numbers, f, s \ {x})
      BY <3>2, <3>3, NumbersAreSummable
    <3> QED
      BY <3>3, <3>4
  <2> QED
    BY <2>2, <2>3
<1>2. \A s \in SUBSET D : s \in P
  <2> HIDE DEF P
  <2>1. \A s \in SUBSET D : (\A x \in s : s \ {x} \in P) => s \in P
    BY <1>1
  <2> QED
    BY <2>1, PartsInduction
<1> QED
  BY <1>2

(* The reinvested shares of dividends, and the sums of the parts of D.     *)
Bought(d)   == transaction[dividend[d].link].shares
BoughtBy(D) == SumFunction([d \in D |-> Bought(d)])
BoughtOfParts(D, sum) ==
  /\ BoughtBy(D) = sum[D] /\ sum[{}] = 0
  /\ \A s \in SUBSET D : sum[s] \in Int
  /\ \A s \in SUBSET D : \A x \in s : sum[s] = sum[s \ {x}] + Bought(x)

(* They are sums, whichever dividend is taken last.                        *)
LEMMA BoughtInAnyOrder ==
  ASSUME NEW D, IsFiniteSet(D), \A d \in D : Bought(d) \in Int
  PROVE  \E sum : BoughtOfParts(D, sum)
<1> DEFINE f == [d \in D |-> Bought(d)]
           sum == [s \in SUBSET D |-> SumOver(Numbers, f, s)]
<1>1. DOMAIN f = D /\ \A d \in D : f[d] = Bought(d) /\ f[d] \in Int
  OBVIOUS
<1>2. BoughtBy(D) = SumFunction(f)
  BY Zenon DEF BoughtBy
<1> HIDE DEF f
<1>3. BoughtBy(D) = sum[D]
  BY <1>1, <1>2, SumFunctionIs
<1>4. ASSUME NEW s \in SUBSET D
      PROVE  /\ sum[s] = SumOver(Numbers, f, s) /\ sum[s] \in Int
             /\ SumOver(Numbers, f, {}) = 0
             /\ \A x \in s : SumOver(Numbers, f, s) = Numbers.plus[<<f[x], SumOver(Numbers, f, s \ {x})>>]
  <2>1. IsFiniteSet(s) /\ \A d \in s : f[d] \in Numbers.values
    BY <1>1, FS_Subset, NumbersAreSummable
  <2> QED
    BY <2>1, NumbersAreSummable, SumInAnyOrder
<1>5. ASSUME NEW s \in SUBSET D, NEW x \in s PROVE sum[s] = sum[s \ {x}] + Bought(x)
  <2>1. s \ {x} \in SUBSET D
    OBVIOUS
  <2>2. /\ sum[s \ {x}] = SumOver(Numbers, f, s \ {x}) /\ sum[s \ {x}] \in Int
        /\ f[x] = Bought(x) /\ f[x] \in Int
    BY <1>1, <1>4, <2>1
  <2>3. sum[s] = Numbers.plus[<<f[x], sum[s \ {x}]>>]
    BY <1>4, <2>2
  <2> HIDE DEF sum
  <2>4. sum[s] = f[x] + sum[s \ {x}]
    BY <2>2, <2>3, NumbersAreSummable
  <2> QED
    BY <2>2, <2>4
<1>6. sum[{}] = 0 /\ \A s \in SUBSET D : sum[s] \in Int
  BY <1>4
<1> HIDE DEF sum
<1> QED
  BY <1>3, <1>5, <1>6 DEF BoughtOfParts

-----------------------------------------------------------------------------
(* The three counts of shares.                                             *)

(* The figures kept by the check of a sell and by the overview.            *)
PositionFields == {"shares", "cost"}
MetricsFields  == {"shares", "cost", "dividends", "fees"}

(* What one row does to a position and to the figures of the overview.     *)
LEMMA OneRowAdds ==
  ASSUME NEW t \in Transactions,
         NEW p, DOMAIN p = PositionFields, p.shares \in Int,
         NEW m, DOMAIN m = MetricsFields, m.shares \in Int
  PROVE  /\ SharesAdded(t) \in Int
         /\ t.type = "dividend" => SharesAdded(t) = t.shares
         /\ DOMAIN AfterTransaction(p, t) = PositionFields
         /\ AfterTransaction(p, t).shares = p.shares + SharesAdded(t)
         /\ DOMAIN AfterTransactionInMetrics(m, t) = MetricsFields
         /\ AfterTransactionInMetrics(m, t).shares =
              IF t.type = "dividend" THEN m.shares ELSE m.shares + SharesAdded(t)
         /\ t.type # "dividend" /\ m.shares = p.shares /\ m.cost = p.cost =>
              AfterTransactionInMetrics(m, t).cost = AfterTransaction(p, t).cost
<1>1. t.type \in {"buy", "sell", "dividend", "fee"} /\ t.shares \in Int
  BY DEF Transactions, TransactionTypes
<1>2. CASE t.type = "buy"
  BY <1>1, <1>2 DEF PositionFields, MetricsFields, SharesAdded, AfterTransaction, AfterTransactionInMetrics
<1>3. CASE t.type = "sell"
  <2>1. SharesAdded(t) = -t.shares
    BY <1>3 DEF SharesAdded
  <2>2. AfterTransaction(p, t) = AfterSell(p, t) /\ AfterTransactionInMetrics(m, t) = AfterSell(m, t)
    BY <1>3 DEF AfterTransaction, AfterTransactionInMetrics
  <2>3. ASSUME NEW q, "shares" \in DOMAIN q, "cost" \in DOMAIN q
        PROVE  /\ DOMAIN AfterSell(q, t) = DOMAIN q /\ AfterSell(q, t).shares = q.shares - t.shares
               /\ AfterSell(q, t).cost = IF q.shares - t.shares > 0
                                         THEN Scaled(q.cost, q.shares - t.shares, q.shares - t.shares + t.shares)
                                         ELSE Whole(0)
    BY <2>3 DEF AfterSell
  <2>4. /\ "shares" \in DOMAIN p /\ "cost" \in DOMAIN p
        /\ "shares" \in DOMAIN m /\ "cost" \in DOMAIN m
    BY DEF PositionFields, MetricsFields
  <2>5. /\ DOMAIN AfterSell(p, t) = PositionFields /\ AfterSell(p, t).shares = p.shares - t.shares
        /\ DOMAIN AfterSell(m, t) = MetricsFields /\ AfterSell(m, t).shares = m.shares - t.shares
    BY <2>3, <2>4
  <2>6. m.shares = p.shares /\ m.cost = p.cost => AfterSell(m, t).cost = AfterSell(p, t).cost
    BY <2>3, <2>4
  <2> QED
    BY <1>1, <1>3, <2>1, <2>2, <2>5, <2>6
<1>4. CASE t.type = "dividend"
  BY <1>1, <1>4 DEF PositionFields, MetricsFields, SharesAdded, AfterTransaction, AfterTransactionInMetrics
<1>5. CASE t.type = "fee"
  <2>1. SharesAdded(t) = 0
    BY <1>5 DEF SharesAdded
  <2>2. /\ AfterTransaction(p, t) = [p EXCEPT !.cost = Plus(@, Whole(t.price))]
        /\ AfterTransactionInMetrics(m, t) = [m EXCEPT !.cost = Plus(@, Whole(t.price)), !.fees = @ + t.price]
    BY <1>5 DEF AfterTransaction, AfterTransactionInMetrics
  <2>3. /\ DOMAIN AfterTransaction(p, t) = PositionFields /\ AfterTransaction(p, t).shares = p.shares
        /\ AfterTransaction(p, t).cost = Plus(p.cost, Whole(t.price))
    BY <2>2 DEF PositionFields
  <2>4. /\ DOMAIN AfterTransactionInMetrics(m, t) = MetricsFields
        /\ AfterTransactionInMetrics(m, t).shares = m.shares
        /\ AfterTransactionInMetrics(m, t).cost = Plus(m.cost, Whole(t.price))
    BY <2>2 DEF MetricsFields
  <2> QED
    BY <1>5, <2>1, <2>3, <2>4
<1> QED
  BY <1>1, <1>2, <1>3, <1>4, <1>5

(* The portfolio that holds x, the dividends the overview counts for x,    *)
(* and those of them that were reinvested.                                 *)
Holder(x)     == pfs[x].portfolio
Paid(x)       == DividendsUpTo(Loaded({Holder(x)}, LastDay), x, LastDay)
Reinvested(x) == {d \in Paid(x) : dividend[d].link \in RowsOf(transaction, x)}

(* The rows of a portfolio_fund, and all of them: days end with LastDay.   *)
LEMMA RowsAreListed ==
  ASSUME BooksInv, NEW x
  PROVE  LET R == RowsOf(transaction, x)
             L == ByDate(transaction, R)
         IN /\ R \ {0} = R /\ UpTo(transaction, R, LastDay) = R
            /\ \A i \in R : transaction[i] \in Transactions /\ transaction[i].shares \in Int /\ i # 0
            /\ Len(L) \in Nat
            /\ \A k \in 1..Len(L) : L[k] \in R
            /\ \A i \in R : \E k \in 1..Len(L) : L[k] = i
            /\ \A j, k \in 1..Len(L) : L[j] = L[k] => j = k
<1> DEFINE R == RowsOf(transaction, x)
           L == ByDate(transaction, R)
<1>1. /\ \A i \in DOMAIN transaction : i \in 1..MaxTxns /\ transaction[i] \in Transactions
      /\ MaxTxns \in Nat /\ LastDay \in Nat
  BY BoundsAssumption DEF BooksInv, LedgerOK
<1>2. R \in SUBSET (1..MaxTxns) /\ \A i \in R : transaction[i] \in Transactions
  BY <1>1 DEF RowsOf
<1>3. \A i \in R : /\ transaction[i].day \in Nat /\ transaction[i].day <= LastDay
                   /\ transaction[i].shares \in Int
  BY <1>1, <1>2 DEF Transactions, Days
<1>4. R \in SUBSET Nat /\ 0 \notin R /\ IsFiniteSet(R)
  <2>1. IsFiniteSet(1..MaxTxns)
    BY <1>1, FS_Interval
  <2>2. IsFiniteSet(R)
    BY <1>2, <2>1, FS_Subset
  <2> QED
    BY <1>2, <2>2
<1>5. R \ {0} = R /\ UpTo(transaction, R, LastDay) = R
  BY <1>3, <1>4 DEF UpTo
<1>6. /\ Len(L) \in Nat
      /\ \A k \in 1..Len(L) : L[k] \in R
      /\ \A i \in R : \E k \in 1..Len(L) : L[k] = i
      /\ \A j, k \in 1..Len(L) : L[j] = L[k] => j = k
  <2> HIDE DEF R
  <2> QED
    BY <1>3, <1>4, ByDateListsRows
<1> QED
  BY <1>2, <1>3, <1>4, <1>5, <1>6

(* A list of figures that starts and goes on, row by row, as the code's    *)
(* loops do: the position, the SQL count, the overview's figures, and what *)
(* the overview starts from, spread over the rows of type dividend.        *)
PositionAlong(row, n, f) ==
  /\ f[0] = NoShares
  /\ \A k \in 1..n : f[k] = AfterTransaction(f[k - 1], row[k])
CountAlong(row, n, f) ==
  /\ f[0] = 0
  /\ \A k \in 1..n : f[k] = f[k - 1] + SharesAdded(row[k])
OverviewAlong(row, n, bought, f) ==
  /\ f[0] = FirstFigures(bought)
  /\ \A k \in 1..n : f[k] = AfterTransactionInMetrics(f[k - 1], row[k])
BoughtAlong(row, n, bought, f) ==
  /\ f[0] = 0 /\ f[n] = bought
  /\ \A k \in 0..n : f[k] \in Int
  /\ \A k \in 1..n : f[k] = f[k - 1] + IF row[k].type = "dividend" THEN row[k].shares ELSE 0

(* The rows of x as the loops see them.                                    *)
RowsInOrder(x) == LET L == ByDate(transaction, RowsOf(transaction, x))
                  IN [k \in 1..Len(L) |-> transaction[L[k]]]

(* The three computations go through the same rows.                        *)
LEMMA SameRows ==
  ASSUME BooksInv, NEW x, NEW bought
  PROVE  LET row == RowsInOrder(x)
             n == Len(ByDate(transaction, RowsOf(transaction, x)))
         IN /\ \E f : CurrentPosition(transaction, x, 0) = f[n] /\ PositionAlong(row, n, f)
            /\ \E f : SharesOnDate(transaction, x, LastDay) = f[n] /\ CountAlong(row, n, f)
            /\ \E f : /\ FundMetrics(transaction, x, LastDay, bought) = f[n]
                      /\ OverviewAlong(row, n, bought, f)
<1> DEFINE R == RowsOf(transaction, x)
           L == ByDate(transaction, R)
           n == Len(L)
           row == RowsInOrder(x)
<1>1. /\ ByDate(transaction, R \ {0}) = L
      /\ ByDate(transaction, UpTo(transaction, R, LastDay)) = L
      /\ n \in Nat
  BY RowsAreListed
<1>2. \A k \in 1..n : row[k] = transaction[L[k]]
  BY DEF RowsInOrder
<1>3. \E f : /\ CurrentPosition(transaction, x, 0) = f[n]
            /\ f[0] = NoShares
            /\ \A k \in 1..n : f[k] = AfterTransaction(f[k - 1], transaction[L[k]])
  <2> DEFINE all == ByDate(transaction, R \ {0})
  <2>1. Len(all) \in Nat
    BY <1>1
  <2>2. \E f : /\ CurrentPosition(transaction, x, 0) = f[Len(all)]
              /\ f[0] = NoShares
              /\ \A k \in 1..Len(all) : f[k] = AfterTransaction(f[k - 1], transaction[all[k]])
    BY <2>1, CurrentPositionIs
  <2>3. all = L
    BY <1>1
  <2> HIDE DEF all, L
  <2> QED
    BY <2>2, <2>3, Zenon
<1>4. \E f : /\ SharesOnDate(transaction, x, LastDay) = f[n]
            /\ f[0] = 0
            /\ \A k \in 1..n : f[k] = f[k - 1] + SharesAdded(transaction[L[k]])
  BY <1>1, SharesOnDateIs
<1>5. \E f : /\ FundMetrics(transaction, x, LastDay, bought) = f[n]
            /\ f[0] = FirstFigures(bought)
            /\ \A k \in 1..n : f[k] = AfterTransactionInMetrics(f[k - 1], transaction[L[k]])
  <2> DEFINE all == ByDate(transaction, UpTo(transaction, R, LastDay))
  <2>1. Len(all) \in Nat /\ all = L
    BY <1>1
  <2>2. Len(all) \in Nat =>
          \E f : /\ FundMetrics(transaction, x, LastDay, bought) = f[Len(all)]
                /\ f[0] = FirstFigures(bought)
                /\ \A k \in 1..Len(all) : f[k] = AfterTransactionInMetrics(f[k - 1], transaction[all[k]])
    BY FundMetricsIs
  <2> HIDE DEF all, L
  <2> QED
    BY <2>1, <2>2, Zenon
<1> HIDE DEF n, L, row
<1>6. \E f : CurrentPosition(transaction, x, 0) = f[n] /\ PositionAlong(row, n, f)
  BY <1>2, <1>3, ZenonT(40) DEF PositionAlong
<1>7. \E f : SharesOnDate(transaction, x, LastDay) = f[n] /\ CountAlong(row, n, f)
  BY <1>2, <1>4, ZenonT(40) DEF CountAlong
<1>8. \E f : FundMetrics(transaction, x, LastDay, bought) = f[n] /\ OverviewAlong(row, n, bought, f)
  <2>1. PICK f : /\ FundMetrics(transaction, x, LastDay, bought) = f[n]
                 /\ f[0] = FirstFigures(bought)
                 /\ \A k \in 1..n : f[k] = AfterTransactionInMetrics(f[k - 1], transaction[L[k]])
    BY <1>5
  <2>2. \A k \in 1..n : f[k] = AfterTransactionInMetrics(f[k - 1], row[k])
    BY <1>2, <2>1
  <2>3. OverviewAlong(row, n, bought, f)
    BY <2>1, <2>2, Zenon DEF OverviewAlong
  <2> QED
    BY <2>1, <2>3, Zenon
<1> QED
  BY <1>6, <1>7, <1>8, Zenon DEF n, L, R, row

(* What the overview starts from is spread over the rows of type dividend, *)
(* since each is the reinvestment of one of the dividends counted.         *)
LEMMA SpreadOverRows ==
  ASSUME BooksInv, NEW x,
         \A i \in RowsOf(transaction, x) :
           transaction[i].type = "dividend" <=> \E d \in Paid(x) : dividend[d].link = i
  PROVE  LET row == RowsInOrder(x)
             n == Len(ByDate(transaction, RowsOf(transaction, x)))
         IN \E f : BoughtAlong(row, n, BoughtBy(Reinvested(x)), f)
<1> DEFINE D == Reinvested(x)
           R == RowsOf(transaction, x)
           L == ByDate(transaction, R)
           n == Len(L)
           row == RowsInOrder(x)
<1>1. /\ n \in Nat
      /\ \A k \in 1..n : L[k] \in R
      /\ \A i \in R : \E k \in 1..n : L[k] = i
      /\ \A j, k \in 1..n : L[j] = L[k] => j = k
  BY RowsAreListed
<1>2. \A k \in 1..n : row[k] = transaction[L[k]]
  BY DEF RowsInOrder
<1>3. /\ \A d \in Paid(x) : d \in DOMAIN dividend /\ d \in 1..MaxDividends
      /\ \A d, e \in DOMAIN dividend :
           dividend[d].link # 0 /\ dividend[d].link = dividend[e].link => d = e
  BY DEF BooksInv, LedgerOK, OwnLink, Paid, DividendsUpTo, Loaded
<1>4. \A i \in R : transaction[i].shares \in Int /\ i # 0
  BY RowsAreListed
<1>5. /\ \A d \in D : d \in Paid(x) /\ dividend[d].link \in R
      /\ \A d \in Paid(x) : dividend[d].link \in R => d \in D
  BY DEF Reinvested
<1>6. \A d, e \in D : dividend[d].link = dividend[e].link => d = e
  BY <1>3, <1>4, <1>5
<1>7. \A i \in R : transaction[i].type = "dividend" <=> \E d \in D : dividend[d].link = i
  BY <1>5
<1> HIDE DEF R, L, n, row
<1>8. IsFiniteSet(D) /\ \A d \in D : Bought(d) \in Int
  <2>1. IsFiniteSet(1..MaxDividends)
    <3>1. 1 \in Int /\ MaxDividends \in Int
      BY BoundsAssumption
    <3> QED
      BY <3>1, FS_Interval
  <2>2. D \in SUBSET (1..MaxDividends)
    BY <1>3, <1>5
  <2> HIDE DEF D
  <2>3. IsFiniteSet(D)
    BY <2>1, <2>2, FS_Subset
  <2> QED
    BY <1>4, <1>5, <2>3 DEF Bought
<1>9. PICK sum : BoughtOfParts(D, sum)
  <2> HIDE DEF D
  <2> QED
    BY <1>8, BoughtInAnyOrder
<1> USE <1>9 DEF BoughtOfParts
<1>10. \A k \in 1..n : L[k] \in R
  BY <1>1
<1>11. \A i \in R : \E k \in 1..n : L[k] = i
  BY <1>1
<1> HIDE DEF D
<1> DEFINE Done(k) == {d \in D : \E j \in 1..k : dividend[d].link = L[j]}
           done    == [k \in 0..n |-> sum[Done(k)]]
<1>12. Done(0) = {} /\ Done(n) = D /\ \A k \in 0..n : Done(k) \in SUBSET D
  <2>1. \A d \in D : \E j \in 1..n : dividend[d].link = L[j]
    BY <1>5, <1>11
  <2> QED
    BY <2>1
<1>13. ASSUME NEW k \in 1..n
       PROVE  sum[Done(k)] = sum[Done(k - 1)] + IF transaction[L[k]].type = "dividend"
                                                THEN transaction[L[k]].shares ELSE 0
  <2>1. \A j : j \in 1..k <=> j \in 1..(k - 1) \/ j = k
    OBVIOUS
  <2>2. Done(k) = Done(k - 1) \cup {d \in D : dividend[d].link = L[k]}
    BY <2>1
  <2>3. \A j \in 1..(k - 1) : L[j] # L[k]
    <3>1. \A j \in 1..(k - 1) : j \in 1..n /\ j # k
      BY <1>1
    <3> QED
      BY <1>1, <3>1
  <2>4. \A d \in Done(k - 1) : dividend[d].link # L[k]
    BY <2>3
  <2>5. Done(k) \in SUBSET D /\ Done(k - 1) \in SUBSET D
    OBVIOUS
  <2> HIDE DEF Done
  <2>6. CASE transaction[L[k]].type = "dividend"
    <3>1. PICK d \in D : dividend[d].link = L[k]
      BY <1>7, <1>10, <2>6
    <3>2. {e \in D : dividend[e].link = L[k]} = {d}
      BY <1>6, <3>1
    <3>3. d \in Done(k) /\ Done(k) \ {d} = Done(k - 1)
      BY <2>2, <2>4, <3>1, <3>2
    <3>4. sum[Done(k)] = sum[Done(k - 1)] + Bought(d)
      BY <1>9, <2>5, <3>3
    <3>5. Bought(d) = transaction[L[k]].shares
      BY <3>1 DEF Bought
    <3> QED
      BY <2>6, <3>4, <3>5
  <2>7. CASE transaction[L[k]].type # "dividend"
    <3>1. {d \in D : dividend[d].link = L[k]} = {}
      BY <1>7, <1>10, <2>7
    <3>2. Done(k) = Done(k - 1)
      BY <2>2, <3>1
    <3>3. sum[Done(k - 1)] \in Int
      BY <1>9, <2>5
    <3> QED
      BY <2>7, <3>2, <3>3
  <2> QED
    BY <2>6, <2>7
<1>14. /\ done[0] = 0 /\ done[n] = BoughtBy(D)
       /\ \A k \in 0..n : done[k] \in Int
       /\ \A k \in 1..n : done[k] = done[k - 1] + IF transaction[L[k]].type = "dividend"
                                                  THEN transaction[L[k]].shares ELSE 0
  <2>1. \A k \in 0..n : done[k] = sum[Done(k)] /\ sum[Done(k)] \in Int
    BY <1>9, <1>12
  <2>2. 0 \in 0..n /\ n \in 0..n /\ \A k \in 1..n : k \in 0..n /\ k - 1 \in 0..n
    BY <1>1
  <2> HIDE DEF done, Done
  <2>3. done[0] = 0
    <3>1. done[0] = sum[Done(0)] /\ Done(0) = {}
      BY <1>12, <2>1, <2>2
    <3> QED
      BY <1>9, <3>1
  <2>4. done[n] = BoughtBy(D)
    BY <1>9, <1>12, <2>1, <2>2
  <2>5. \A k \in 0..n : done[k] \in Int
    BY <2>1
  <2>6. ASSUME NEW k \in 1..n
        PROVE  done[k] = done[k - 1] + IF transaction[L[k]].type = "dividend"
                                       THEN transaction[L[k]].shares ELSE 0
    <3>1. done[k] = sum[Done(k)] /\ done[k - 1] = sum[Done(k - 1)]
      BY <2>1, <2>2
    <3> QED
      BY <1>13, <3>1
  <2> QED
    BY <2>3, <2>4, <2>5, <2>6
<1> HIDE DEF done
<1>15. BoughtAlong(row, n, BoughtBy(D), done)
  <2>1. \A k \in 1..n : done[k] = done[k - 1] + IF row[k].type = "dividend" THEN row[k].shares ELSE 0
    BY <1>14, <1>2
  <2> QED
    BY <1>14, <2>1 DEF BoughtAlong
<1> QED
  BY <1>15, Zenon DEF D, R, L, n, row

(* Row by row the three sums stay together: the overview is ahead by the   *)
(* reinvestments that are still to come.                                   *)
LEMMA RowByRow ==
  ASSUME NEW n \in Nat, NEW row, \A k \in 1..n : row[k] \in Transactions,
         NEW position, PositionAlong(row, n, position),
         NEW count, CountAlong(row, n, count),
         NEW bought \in Int,
         NEW overview, OverviewAlong(row, n, bought, overview),
         NEW done, BoughtAlong(row, n, bought, done)
  PROVE  /\ overview[n].shares = position[n].shares
         /\ count[n] = position[n].shares
         /\ (\A k \in 1..n : row[k].type # "dividend") => overview[n].cost = position[n].cost
<1> USE DEF PositionAlong, CountAlong, OverviewAlong, FirstFigures, BoughtAlong
<1> DEFINE plain == \A k \in 1..n : row[k].type # "dividend"
           Agree(k) == /\ DOMAIN position[k] = PositionFields /\ position[k].shares \in Int
                       /\ DOMAIN overview[k] = MetricsFields /\ overview[k].shares \in Int
                       /\ position[k].shares = count[k]
                       /\ overview[k].shares + done[k] = position[k].shares + bought
                       /\ plain => bought - done[k] = 0 /\ overview[k].cost = position[k].cost
           Bad == {k \in 0..n : ~Agree(k)}
<1>1. plain => \A k \in 0..n : done[k] = bought
  <2> SUFFICES ASSUME plain, NEW b \in 0..n, done[b] # bought PROVE FALSE
    OBVIOUS
  <2> DEFINE Later == {n - k : k \in {k \in 0..n : done[k] # bought}}
  <2>1. Later \in SUBSET Nat /\ Later # {}
    OBVIOUS
  <2>2. PICK m \in Later : \A l \in Later : m <= l
    <3> HIDE DEF Later
    <3> QED
      BY <2>1, LeastNatural
  <2>3. PICK k \in 0..n : done[k] # bought /\ m = n - k
    BY <2>2
  <2>4. k # n /\ k + 1 \in 1..n /\ k + 1 \in 0..n
    BY <2>3
  <2>5. done[k + 1] = bought
    <3> SUFFICES ASSUME done[k + 1] # bought PROVE FALSE
      OBVIOUS
    <3>1. n - (k + 1) \in Later
      BY <2>4
    <3> HIDE DEF Later
    <3> QED
      BY <2>2, <2>3, <3>1
  <2>6. done[k + 1] = done[(k + 1) - 1] + 0
    BY <2>4
  <2>7. (k + 1) - 1 = k /\ done[k] \in Int
    OBVIOUS
  <2> QED
    BY <2>3, <2>5, <2>6, <2>7
<1>2. Agree(0)
  <2>1. DOMAIN position[0] = PositionFields /\ position[0].shares = 0 /\ position[0].cost = Whole(0)
    BY DEF NoShares, PositionFields
  <2>2. DOMAIN overview[0] = MetricsFields /\ overview[0].shares = bought /\ overview[0].cost = Whole(0)
    BY DEF MetricsFields
  <2>3. plain => bought - done[0] = 0
    BY <1>1
  <2> QED
    BY <2>1, <2>2, <2>3
<1>3. ASSUME NEW k \in 1..n, Agree(k - 1) PROVE Agree(k)
  <2> DEFINE t == row[k]
             q == position[k - 1]
             m == overview[k - 1]
  <2>1. /\ DOMAIN q = PositionFields /\ q.shares \in Int
        /\ DOMAIN m = MetricsFields /\ m.shares \in Int
        /\ q.shares = count[k - 1] /\ m.shares + done[k - 1] = q.shares + bought
        /\ plain => m.cost = q.cost
    BY <1>3
  <2>2. /\ t \in Transactions /\ position[k] = AfterTransaction(q, t)
        /\ overview[k] = AfterTransactionInMetrics(m, t)
        /\ count[k] = count[k - 1] + SharesAdded(t)
        /\ done[k] = done[k - 1] + IF t.type = "dividend" THEN t.shares ELSE 0
        /\ plain => t.type # "dividend"
    OBVIOUS
  <2>3. done[k] \in Int /\ done[k - 1] \in Int /\ plain => done[k] = bought /\ done[k - 1] = bought
    BY <1>1
  <2>4. done[k] \in Int /\ done[k - 1] \in Int
    OBVIOUS
  <2> HIDE DEF t, q, m, plain
  <2>5. /\ SharesAdded(t) \in Int
        /\ t.type = "dividend" => SharesAdded(t) = t.shares
        /\ DOMAIN AfterTransaction(q, t) = PositionFields
        /\ AfterTransaction(q, t).shares = q.shares + SharesAdded(t)
        /\ DOMAIN AfterTransactionInMetrics(m, t) = MetricsFields
        /\ AfterTransactionInMetrics(m, t).shares =
             IF t.type = "dividend" THEN m.shares ELSE m.shares + SharesAdded(t)
        /\ t.type # "dividend" /\ m.shares = q.shares /\ m.cost = q.cost =>
             AfterTransactionInMetrics(m, t).cost = AfterTransaction(q, t).cost
    BY <2>1, <2>2, OneRowAdds
  <2>6. position[k].shares \in Int /\ overview[k].shares \in Int /\ position[k].shares = count[k]
    BY <2>1, <2>2, <2>5
  <2>7. overview[k].shares + done[k] = position[k].shares + bought
    <3>1. CASE t.type = "dividend"
      BY <2>1, <2>2, <2>4, <2>5, <3>1
    <3>2. CASE t.type # "dividend"
      BY <2>1, <2>2, <2>4, <2>5, <3>2
    <3> QED
      BY <3>1, <3>2
  <2>8. plain => bought - done[k] = 0 /\ overview[k].cost = position[k].cost
    <3>1. plain => m.shares = q.shares
      BY <2>1, <2>3, <2>4
    <3> QED
      BY <2>1, <2>2, <2>3, <2>4, <2>5, <3>1
  <2> QED
    BY <2>2, <2>5, <2>6, <2>7, <2>8
<1>4. Bad = {}
  <2> HIDE DEF Agree
  <2> SUFFICES ASSUME Bad # {} PROVE FALSE
    OBVIOUS
  <2>1. PICK m \in Bad : \A l \in Bad : m <= l
    <3>1. Bad \in SUBSET Nat
      OBVIOUS
    <3> HIDE DEF Bad
    <3> QED
      BY <3>1, LeastNatural
  <2>2. m # 0 /\ m \in 1..n /\ m - 1 \in 0..n /\ ~Agree(m)
    BY <1>2, <2>1
  <2>3. Agree(m - 1)
    BY <2>1, <2>2
  <2> QED
    BY <1>3, <2>2, <2>3
<1>5. Agree(n)
  <2> HIDE DEF Agree
  <2> QED
    BY <1>4
<1> QED
  BY <1>5

(* The counts agree for a portfolio_fund whose rows of type dividend are   *)
(* the reinvestments of the dividends the overview counts.                 *)
LEMMA SharesAgree ==
  ASSUME BooksInv, NEW x \in DOMAIN pfs,
         \A i \in RowsOf(transaction, x) :
           transaction[i].type = "dividend" <=> \E d \in Paid(x) : dividend[d].link = i
  PROVE  /\ FundToday(Holder(x), x).shares = CurrentPosition(transaction, x, 0).shares
         /\ SharesOnDate(transaction, x, LastDay) = CurrentPosition(transaction, x, 0).shares
         /\ (\A i \in RowsOf(transaction, x) : transaction[i].type # "dividend") =>
              FundToday(Holder(x), x).cost = CurrentPosition(transaction, x, 0).cost
<1> DEFINE R == RowsOf(transaction, x)
           L == ByDate(transaction, R)
           n == Len(L)
           bought == BoughtBy(Reinvested(x))
<1>1. /\ R \ {0} = R /\ UpTo(transaction, R, LastDay) = R
      /\ \A i \in R : transaction[i] \in Transactions
      /\ n \in Nat
      /\ \A k \in 1..n : L[k] \in R
      /\ \A i \in R : \E k \in 1..n : L[k] = i
      /\ \A j, k \in 1..n : L[j] = L[k] => j = k
  BY RowsAreListed
<1>2. R = RowsOf(transaction, x) /\ L = ByDate(transaction, R) /\ n = Len(L)
  OBVIOUS
<1>3. /\ FundToday(Holder(x), x).shares = FundMetrics(transaction, x, LastDay, bought).shares
      /\ FundToday(Holder(x), x).cost = FundMetrics(transaction, x, LastDay, bought).cost
  <2>1. Loaded({Holder(x)}, LastDay).end = LastDay
    BY DEF Loaded
  <2>2. {d \in Paid(x) : dividend[d].link \in UpTo(transaction, R, Loaded({Holder(x)}, LastDay).end)}
          = Reinvested(x)
    BY <1>1, <2>1 DEF Reinvested
  <2>3. DividendSharesForDate(Loaded({Holder(x)}, LastDay), x, R, LastDay)
          = BoughtBy({d \in Paid(x) :
                        dividend[d].link \in UpTo(transaction, R, Loaded({Holder(x)}, LastDay).end)})
    BY Zenon DEF DividendSharesForDate, BoughtBy, Bought, Paid
  <2>4. DividendSharesForDate(Loaded({Holder(x)}, LastDay), x, R, LastDay) = bought
    BY <2>2, <2>3, Zenon
  <2> QED
    BY <2>4 DEF FundToday
<1> DEFINE row == RowsInOrder(x)
<1>5. \A k \in 1..n : row[k] = transaction[L[k]] /\ row[k] \in Transactions
  BY <1>1 DEF RowsInOrder
<1>6. /\ \E f : CurrentPosition(transaction, x, 0) = f[n] /\ PositionAlong(row, n, f)
      /\ \E f : SharesOnDate(transaction, x, LastDay) = f[n] /\ CountAlong(row, n, f)
      /\ \E f : /\ FundMetrics(transaction, x, LastDay, bought) = f[n]
                /\ OverviewAlong(row, n, bought, f)
  BY SameRows, Zenon
<1>7. \E f : BoughtAlong(row, n, bought, f)
  BY SpreadOverRows, Zenon
<1> HIDE DEF R, L, n, bought, row
<1>8. PICK position : CurrentPosition(transaction, x, 0) = position[n] /\ PositionAlong(row, n, position)
  BY <1>6
<1>9. PICK count : SharesOnDate(transaction, x, LastDay) = count[n] /\ CountAlong(row, n, count)
  BY <1>6
<1>10. PICK overview : /\ FundMetrics(transaction, x, LastDay, bought) = overview[n]
                       /\ OverviewAlong(row, n, bought, overview)
  BY <1>6
<1>11. PICK done : BoughtAlong(row, n, bought, done)
  BY <1>7
<1>12. /\ overview[n].shares = position[n].shares
       /\ count[n] = position[n].shares
       /\ (\A k \in 1..n : row[k].type # "dividend") => overview[n].cost = position[n].cost
  <2>1. n \in Nat /\ bought \in Int /\ \A k \in 1..n : row[k] \in Transactions
    <3>1. n \in Nat /\ n \in 0..n
      BY <1>1
    <3> QED
      BY <1>5, <1>11, <3>1 DEF BoughtAlong
  <2> QED
    BY <1>8, <1>9, <1>10, <1>11, <2>1, RowByRow
<1>13. (\A i \in R : transaction[i].type # "dividend") => \A k \in 1..n : row[k].type # "dividend"
  BY <1>1, <1>5
<1> QED
  BY <1>3, <1>8, <1>9, <1>10, <1>12, <1>13 DEF R

(* The three counts of shares, made by three parts of the code, agree in   *)
(* every reachable state for every ledger: the position a sell is checked  *)
(* against, the SQL sum a dividend is paid on and the overview, provided   *)
(* every reinvestment belongs to a dividend the overview loads; and the    *)
(* two costs agree where nothing was reinvested.                           *)
THEOREM SharesAreCountedAlike == Spec => []SharesCountedAlike
<1>1. BooksInv => SharesCountedAlike
  <2> SUFFICES ASSUME BooksInv PROVE SharesCountedAlike
    OBVIOUS
  <2> SUFFICES ASSUME NEW x \in DOMAIN pfs,
                      {i \in RowsOf(transaction, x) : transaction[i].type = "dividend"}
                        = {dividend[d].link : d \in Paid(x)} \cap RowsOf(transaction, x)
               PROVE  /\ FundToday(Holder(x), x).shares = CurrentPosition(transaction, x, 0).shares
                      /\ SharesOnDate(transaction, x, LastDay) = CurrentPosition(transaction, x, 0).shares
                      /\ {i \in RowsOf(transaction, x) : transaction[i].type = "dividend"} = {} =>
                           FundToday(Holder(x), x).cost = CurrentPosition(transaction, x, 0).cost
    BY Zenon DEF SharesCountedAlike, Paid, Holder
  <2>1. \A i \in RowsOf(transaction, x) :
          transaction[i].type = "dividend" <=> \E d \in Paid(x) : dividend[d].link = i
    OBVIOUS
  <2>2. {i \in RowsOf(transaction, x) : transaction[i].type = "dividend"} = {} =>
          \A i \in RowsOf(transaction, x) : transaction[i].type # "dividend"
    OBVIOUS
  <2> QED
    BY <2>1, <2>2, SharesAgree
<1> QED
  BY <1>1, BooksInvHolds, PTL

-----------------------------------------------------------------------------
(* Exact fractions.  Euclid's algorithm finds the greatest common divisor, *)
(* so Ratio is one form of each fraction and Plus adds as fractions do.    *)

Pairs == Nat \X Nat

(* g is Euclid's recursion; g keeps to it for the pairs up to m.           *)
Euclid(g) == g = [p \in Pairs |-> IF p[2] = 0 THEN p[1] ELSE g[<<p[2], p[1] % p[2]>>]]
EuclidUpTo(g, m) ==
  \A p \in Pairs : p[2] <= m => g[p] = IF p[2] = 0 THEN p[1] ELSE g[<<p[2], p[1] % p[2]>>]

(* A remainder is a smaller number.                                        *)
LEMMA Remainders ==
  \A p \in Pairs : p[2] # 0 =>
    /\ <<p[2], p[1] % p[2]>> \in Pairs /\ (p[1] % p[2]) \in Nat /\ (p[1] % p[2]) < p[2]
    /\ p[1] = p[2] * (p[1] \div p[2]) + (p[1] % p[2]) /\ (p[1] \div p[2]) \in Nat
<1> TAKE p \in Pairs
<1> HAVE p[2] # 0
<1>1. PICK a, b \in Nat : p[1] = a /\ p[2] = b
  BY DEF Pairs
<1>2. (a % b) \in Nat /\ (a % b) < b /\ (a \div b) \in Nat /\ a = b * (a \div b) + (a % b)
  BY <1>1
<1>3. <<b, a % b>> \in Pairs
  BY <1>2 DEF Pairs
<1> QED
  BY <1>1, <1>2, <1>3

(* The recursion has a solution up to each number.                         *)
LEMMA EuclidGoesOn == \A m \in Nat : \E g : EuclidUpTo(g, m)
<1> DEFINE Unrolled(g) == [p \in Pairs |-> IF p[2] = 0 THEN p[1] ELSE g[<<p[2], p[1] % p[2]>>]]
           Missing == {m \in Nat : ~\E g : EuclidUpTo(g, m)}
<1>1. \A g : \A p \in Pairs : Unrolled(g)[p] = IF p[2] = 0 THEN p[1] ELSE g[<<p[2], p[1] % p[2]>>]
  OBVIOUS
<1> HIDE DEF Unrolled
<1>2. ASSUME NEW g, NEW m \in Nat, EuclidUpTo(g, m - 1) PROVE EuclidUpTo(Unrolled(g), m)
  <2> SUFFICES ASSUME NEW p \in Pairs, p[2] <= m
               PROVE  Unrolled(g)[p] = IF p[2] = 0 THEN p[1] ELSE Unrolled(g)[<<p[2], p[1] % p[2]>>]
    BY DEF EuclidUpTo
  <2> DEFINE q == <<p[2], p[1] % p[2]>>
  <2>1. CASE p[2] = 0
    BY <1>1, <2>1
  <2>2. CASE p[2] # 0
    <3>1. q \in Pairs /\ q[2] <= m - 1
      <4>1. q[2] = p[1] % p[2] /\ p[2] \in Nat
        BY DEF Pairs
      <4> QED
        BY <2>2, <4>1, Remainders
    <3> HIDE DEF q
    <3>2. g[q] = Unrolled(g)[q]
      BY <1>1, <1>2, <3>1 DEF EuclidUpTo
    <3>3. Unrolled(g)[p] = g[q]
      BY <1>1, <2>2 DEF q
    <3> QED
      BY <2>2, <3>2, <3>3 DEF q
  <2> QED
    BY <2>1, <2>2
<1>3. Missing = {}
  <2> SUFFICES ASSUME Missing # {} PROVE FALSE
    OBVIOUS
  <2>1. PICK m \in Missing : \A l \in Missing : m <= l
    <3>1. Missing \in SUBSET Nat
      OBVIOUS
    <3> HIDE DEF Missing
    <3> QED
      BY <3>1, LeastNatural
  <2>2. CASE m = 0
    <3>1. EuclidUpTo(Unrolled(<<>>), 0)
      <4>1. \A p \in Pairs : p[2] <= 0 => p[2] = 0
        BY DEF Pairs
      <4> QED
        BY <1>1, <4>1 DEF EuclidUpTo
    <3> QED
      BY <2>1, <2>2, <3>1
  <2>3. CASE m # 0
    <3>1. m - 1 \in Nat /\ m - 1 \notin Missing
      BY <2>1, <2>3
    <3>2. PICK g : EuclidUpTo(g, m - 1)
      BY <3>1
    <3> QED
      BY <1>2, <2>1, <3>2
  <2> QED
    BY <2>2, <2>3
<1> QED
  BY <1>3

(* Two solutions agree as far as both go.                                  *)
LEMMA EuclidIsOne ==
  ASSUME NEW g, NEW h, NEW m \in Nat, EuclidUpTo(g, m), EuclidUpTo(h, m)
  PROVE  \A p \in Pairs : p[2] <= m => g[p] = h[p]
<1> DEFINE Bad == {p[2] : p \in {p \in Pairs : p[2] <= m /\ g[p] # h[p]}}
<1> SUFFICES ASSUME Bad # {} PROVE FALSE
  OBVIOUS
<1>1. PICK k \in Bad : \A l \in Bad : k <= l
  <2>1. Bad \in SUBSET Nat
    BY DEF Pairs
  <2> HIDE DEF Bad
  <2> QED
    BY <2>1, LeastNatural
<1>2. PICK p \in Pairs : p[2] = k /\ p[2] <= m /\ g[p] # h[p]
  BY <1>1
<1>3. p[2] # 0
  BY <1>2 DEF EuclidUpTo
<1> DEFINE q == <<p[2], p[1] % p[2]>>
<1>4. q \in Pairs /\ q[2] < p[2] /\ q[2] \in Nat /\ p[2] \in Nat
  <2>1. q[2] = p[1] % p[2] /\ p[2] \in Nat
    BY DEF Pairs
  <2> QED
    BY <1>3, <2>1, Remainders
<1>5. g[p] = g[q] /\ h[p] = h[q]
  BY <1>2, <1>3 DEF EuclidUpTo
<1> HIDE DEF q
<1>6. q[2] \notin Bad
  <2> HIDE DEF Bad
  <2> QED
    BY <1>1, <1>2, <1>4
<1>7. g[q] = h[q]
  BY <1>2, <1>4, <1>6
<1> QED
  BY <1>2, <1>5, <1>7

(* So there is one for all pairs, and Gcd is such a one.                   *)
LEMMA GcdIsEuclid ==
  /\ \A a \in Nat : Gcd[<<a, 0>>] = a
  /\ \A a \in Nat, b \in Nat \ {0} : Gcd[<<a, b>>] = Gcd[<<b, a % b>>]
<1> DEFINE upTo(m) == CHOOSE g : EuclidUpTo(g, m)
           g == [p \in Pairs |-> upTo(p[2])[p]]
<1>1. \A m \in Nat : EuclidUpTo(upTo(m), m)
  BY EuclidGoesOn
<1> HIDE DEF upTo
<1>2. \A p \in Pairs : p[2] \in Nat /\ g[p] = upTo(p[2])[p]
  BY DEF Pairs
<1>3. g = [p \in Pairs |-> g[p]]
  OBVIOUS
<1> HIDE DEF g
<1>4. ASSUME NEW p \in Pairs
      PROVE  g[p] = IF p[2] = 0 THEN p[1] ELSE g[<<p[2], p[1] % p[2]>>]
  <2> DEFINE q == <<p[2], p[1] % p[2]>>
  <2>1. g[p] = IF p[2] = 0 THEN p[1] ELSE upTo(p[2])[q]
    BY <1>1, <1>2 DEF EuclidUpTo
  <2>2. CASE p[2] # 0
    <3>1. q \in Pairs /\ q[2] <= p[2] /\ q[2] \in Nat /\ p[2] \in Nat
      <4>1. q[2] = p[1] % p[2] /\ p[2] \in Nat
        BY DEF Pairs
      <4> QED
        BY <2>2, <4>1, Remainders
    <3> HIDE DEF q
    <3>2. EuclidUpTo(upTo(p[2]), q[2])
      BY <1>1, <3>1 DEF EuclidUpTo, Pairs
    <3>3. upTo(p[2])[q] = upTo(q[2])[q]
      BY <1>1, <3>1, <3>2, EuclidIsOne
    <3>4. g[q] = upTo(q[2])[q]
      BY <1>2, <3>1
    <3> QED
      BY <2>1, <2>2, <3>3, <3>4 DEF q
  <2> QED
    BY <2>1, <2>2
<1>5. Euclid(g)
  BY <1>3, <1>4, Zenon DEF Euclid
<1>6. Euclid(Gcd)
  <2>1. Gcd = CHOOSE f : Euclid(f)
    BY Zenon DEF Gcd, Euclid, Pairs
  <2> QED
    BY <1>5, <2>1
<1>7. \A a, b \in Nat : Gcd[<<a, b>>] = IF b = 0 THEN a ELSE Gcd[<<b, a % b>>]
  <2> TAKE a, b \in Nat
  <2>1. <<a, b>> \in Pairs /\ <<a, b>>[1] = a /\ <<a, b>>[2] = b
    BY DEF Pairs
  <2>2. \A p \in Pairs : Gcd[p] = IF p[2] = 0 THEN p[1] ELSE Gcd[<<p[2], p[1] % p[2]>>]
    BY <1>6, Zenon DEF Euclid
  <2> QED
    BY <2>1, <2>2
<1> QED
  BY <1>7

(* g divides a and b, and is a combination of them.                        *)
IsGcd(g, a, b) ==
  /\ g \in Nat
  /\ \E x, y \in Int : a = g * x /\ b = g * y
  /\ \E u, v \in Int : g = a * u + b * v

(* Euclid's algorithm computes it.                                         *)
LEMMA GcdIsGcd == \A a, b \in Nat : IsGcd(Gcd[<<a, b>>], a, b)
<1> DEFINE Good(b) == \A a \in Nat : IsGcd(Gcd[<<a, b>>], a, b)
           Bad == {b \in Nat : ~Good(b)}
<1>1. Good(0)
  <2> SUFFICES ASSUME NEW a \in Nat PROVE IsGcd(a, a, 0)
    BY GcdIsEuclid
  <2>1. a = a * 1 /\ 0 = a * 0 /\ a = a * 1 + 0 * 0 /\ 0 \in Int /\ 1 \in Int
    OBVIOUS
  <2> QED
    BY <2>1, Zenon DEF IsGcd
<1>2. ASSUME NEW b \in Nat \ {0}, \A c \in Nat : c < b => Good(c) PROVE Good(b)
  <2> SUFFICES ASSUME NEW a \in Nat PROVE IsGcd(Gcd[<<a, b>>], a, b)
    OBVIOUS
  <2> DEFINE q == a \div b
             r == a % b
             g == Gcd[<<a, b>>]
  <2>1. q \in Nat /\ r \in Nat /\ r < b /\ a = b * q + r
    OBVIOUS
  <2>2. g = Gcd[<<b, r>>]
    BY GcdIsEuclid
  <2> HIDE DEF q, r, g
  <2>3. IsGcd(g, b, r)
    BY <1>2, <2>1, <2>2
  <2>4. PICK x, y \in Int : b = g * x /\ r = g * y
    BY <2>3 DEF IsGcd
  <2>5. PICK u, v \in Int : g = b * u + r * v
    BY <2>3 DEF IsGcd
  <2>6. g \in Nat
    BY <2>3 DEF IsGcd
  <2>7. a = g * (x * q + y) /\ x * q + y \in Int
    BY <2>1, <2>4, <2>6
  <2>8. g = a * v + b * (u - q * v) /\ u - q * v \in Int
    BY <2>1, <2>5
  <2> HIDE DEF Good
  <2>9. /\ \E i, j \in Int : a = g * i /\ b = g * j
        /\ \E i, j \in Int : g = a * i + b * j
    BY <2>4, <2>7, <2>8
  <2> QED
    BY <2>6, <2>9 DEF IsGcd, g
<1>3. Bad = {}
  <2> HIDE DEF Good
  <2> SUFFICES ASSUME Bad # {} PROVE FALSE
    OBVIOUS
  <2>1. PICK m \in Bad : \A l \in Bad : m <= l
    <3>1. Bad \in SUBSET Nat
      OBVIOUS
    <3> HIDE DEF Bad
    <3> QED
      BY <3>1, LeastNatural
  <2>2. m \in Nat \ {0} /\ ~Good(m) /\ \A c \in Nat : c < m => Good(c)
    BY <1>1, <2>1
  <2> QED
    BY <1>2, <2>2
<1> HIDE DEF Good
<1>4. \A b \in Nat : Good(b)
  BY <1>3
<1> QED
  BY <1>4 DEF Good

(* Fractions in lowest terms.                                              *)
Fractions == {r \in [n : Nat, d : Positive] : \E u, v \in Int : r.n * u + r.d * v = 1}
Same(r, s) == r.n * s.d = s.n * r.d

(* A value has one fraction in lowest terms.                               *)
LEMMA LowestTermsAreOne ==
  ASSUME NEW r \in Fractions, NEW s \in Fractions, Same(r, s)
  PROVE  r = s
<1> DEFINE a == r.n
           b == r.d
           c == s.n
           d == s.d
<1>1. a \in Nat /\ c \in Nat /\ b \in Positive /\ d \in Positive /\ a * d = c * b
  BY DEF Fractions, Same
<1>2. PICK u, v \in Int : a * u + b * v = 1
  BY DEF Fractions
<1>3. PICK w, z \in Int : c * w + d * z = 1
  BY DEF Fractions
<1>4. r = [n |-> a, d |-> b] /\ s = [n |-> c, d |-> d]
  BY DEF Fractions
<1> HIDE DEF a, b, c, d
<1>5. b = d * (a * w + b * z)
  <2>1. b = b * (c * w + d * z)
    BY <1>1, <1>3 DEF Positive
  <2>2. b * (c * w + d * z) = (c * b) * w + d * (b * z)
    BY <1>1 DEF Positive
  <2>3. (a * d) * w + d * (b * z) = d * (a * w + b * z)
    BY <1>1 DEF Positive
  <2> QED
    BY <1>1, <2>1, <2>2, <2>3
<1>6. d = b * (c * u + d * v)
  <2>1. d = d * (a * u + b * v)
    BY <1>1, <1>2 DEF Positive
  <2>2. d * (a * u + b * v) = (a * d) * u + b * (d * v)
    BY <1>1 DEF Positive
  <2>3. (c * b) * u + b * (d * v) = b * (c * u + d * v)
    BY <1>1 DEF Positive
  <2> QED
    BY <1>1, <2>1, <2>2, <2>3
<1>7. \A k \in Int, m, n \in Positive : m = n * k => n <= m
  BY DEF Positive
<1>8. b = d
  <2>1. a * w + b * z \in Int /\ c * u + d * v \in Int
    BY <1>1 DEF Positive
  <2>2. d <= b /\ b <= d
    BY <1>1, <1>5, <1>6, <1>7, <2>1
  <2> QED
    BY <1>1, <2>2 DEF Positive
<1>9. a = c
  BY <1>1, <1>8 DEF Positive
<1> QED
  BY <1>4, <1>8, <1>9

(* Ratio brings a fraction to lowest terms.                                *)
LEMMA RatioIsLowest ==
  ASSUME NEW n \in Nat, NEW d \in Positive
  PROVE  Ratio(n, d) \in Fractions /\ Ratio(n, d).n * d = n * Ratio(n, d).d
<1> DEFINE g == Gcd[<<n, d>>]
<1>1. IsGcd(g, n, d)
  BY GcdIsGcd DEF Positive
<1>2. Ratio(n, d) = [n |-> n \div g, d |-> d \div g]
  BY DEF Ratio
<1> HIDE DEF g
<1>3. PICK x, y \in Int : n = g * x /\ d = g * y
  BY <1>1 DEF IsGcd
<1>4. PICK u, v \in Int : g = n * u + d * v
  BY <1>1 DEF IsGcd
<1>5. g \in Positive
  BY <1>1, <1>3 DEF IsGcd, Positive
<1>6. n \div g = x /\ d \div g = y /\ x \in Nat /\ y \in Positive
  BY <1>3, <1>5 DEF Positive
<1>7. x * u + y * v = 1
  <2>1. g * 1 = g * (x * u + y * v)
    BY <1>3, <1>4, <1>5 DEF Positive
  <2> QED
    BY <1>5, <1>6, <2>1 DEF Positive
<1>8. Ratio(n, d) = [n |-> x, d |-> y]
  BY <1>2, <1>6
<1>9. x * d = n * y
  BY <1>3, <1>5 DEF Positive
<1>10. Ratio(n, d).n = x /\ Ratio(n, d).d = y /\ Ratio(n, d) \in [n : Nat, d : Positive]
  BY <1>6, <1>8
<1> QED
  BY <1>7, <1>9, <1>10 DEF Fractions

(* Two expressions of one value give one fraction.                         *)
LEMMA RatioIsOne ==
  ASSUME NEW n \in Nat, NEW d \in Positive, NEW m \in Nat, NEW e \in Positive, n * e = m * d
  PROVE  Ratio(n, d) = Ratio(m, e)
<1>1. PICK r \in Fractions : r = Ratio(n, d) /\ r.n * d = n * r.d
  BY RatioIsLowest
<1>2. PICK s \in Fractions : s = Ratio(m, e) /\ s.n * e = m * s.d
  BY RatioIsLowest
<1>3. r.n \in Nat /\ r.d \in Positive /\ s.n \in Nat /\ s.d \in Positive
  BY DEF Fractions
<1>4. (r.n * s.d) * (d * e) = (s.n * r.d) * (d * e)
  <2>1. (r.n * s.d) * (d * e) = (r.n * d) * (s.d * e)
    BY <1>3 DEF Positive
  <2>2. (s.n * r.d) * (d * e) = (s.n * e) * (r.d * d)
    BY <1>3 DEF Positive
  <2>3. (n * r.d) * (s.d * e) = (n * e) * (r.d * s.d)
    BY <1>3 DEF Positive
  <2>4. (m * s.d) * (r.d * d) = (m * d) * (r.d * s.d)
    BY <1>3 DEF Positive
  <2> QED
    BY <1>1, <1>2, <2>1, <2>2, <2>3, <2>4
<1>5. \A i, j \in Int, k \in Positive : i * k = j * k => i = j
  BY DEF Positive
<1>6. r.n * s.d = s.n * r.d
  <2>1. r.n * s.d \in Int /\ s.n * r.d \in Int /\ d * e \in Positive
    BY <1>3 DEF Positive
  <2> QED
    BY <1>4, <1>5, <2>1
<1> QED
  BY <1>1, <1>2, <1>6, LowestTermsAreOne DEF Same

(* A fraction in lowest terms is the ratio of its parts.                   *)
LEMMA FractionIsRatio ==
  ASSUME NEW r \in Fractions
  PROVE  r.n \in Nat /\ r.d \in Positive /\ r = Ratio(r.n, r.d)
<1>1. r.n \in Nat /\ r.d \in Positive
  BY DEF Fractions
<1>2. PICK s \in Fractions : s = Ratio(r.n, r.d) /\ s.n * r.d = r.n * s.d
  BY <1>1, RatioIsLowest
<1> QED
  BY <1>1, <1>2, LowestTermsAreOne DEF Same

(* The sum of two ratios.                                                  *)
LEMMA PlusOfRatios ==
  ASSUME NEW a \in Nat, NEW b \in Positive, NEW c \in Nat, NEW d \in Positive
  PROVE  Plus(Ratio(a, b), Ratio(c, d)) = Ratio(a * d + c * b, b * d)
<1>1. PICK r \in Fractions : r = Ratio(a, b) /\ r.n * b = a * r.d
  BY RatioIsLowest
<1>2. PICK s \in Fractions : s = Ratio(c, d) /\ s.n * d = c * s.d
  BY RatioIsLowest
<1>3. r.n \in Nat /\ r.d \in Positive /\ s.n \in Nat /\ s.d \in Positive
  BY DEF Fractions
<1>4. (r.n * s.d + s.n * r.d) * (b * d) = (a * d + c * b) * (r.d * s.d)
  <2>1. (r.n * s.d + s.n * r.d) * (b * d) = (r.n * b) * (s.d * d) + (s.n * d) * (r.d * b)
    BY <1>3 DEF Positive
  <2>2. (a * d + c * b) * (r.d * s.d) = (a * r.d) * (s.d * d) + (c * s.d) * (r.d * b)
    BY <1>3 DEF Positive
  <2> QED
    BY <1>1, <1>2, <2>1, <2>2
<1>5. /\ r.n * s.d + s.n * r.d \in Nat /\ r.d * s.d \in Positive
      /\ a * d + c * b \in Nat /\ b * d \in Positive
  BY <1>3 DEF Positive
<1>6. Ratio(r.n * s.d + s.n * r.d, r.d * s.d) = Ratio(a * d + c * b, b * d)
  BY <1>4, <1>5, RatioIsOne
<1> QED
  BY <1>1, <1>2, <1>6, Zenon DEF Plus

(* Fractions with Plus are a commutative monoid.                           *)
LEMMA PlusIsFraction ==
  ASSUME NEW r \in Fractions, NEW s \in Fractions
  PROVE  Plus(r, s) \in Fractions
<1>1. r.n \in Nat /\ r.d \in Positive /\ s.n \in Nat /\ s.d \in Positive
  BY DEF Fractions
<1>2. PICK a, b, c, d \in Nat : a = r.n /\ b = r.d /\ c = s.n /\ d = s.d /\ b # 0 /\ d # 0
  BY <1>1 DEF Positive
<1>3. a * d + c * b \in Nat /\ b * d \in Positive
  BY <1>2 DEF Positive
<1>4. Plus(r, s) = Ratio(a * d + c * b, b * d)
  BY <1>2 DEF Plus
<1> QED
  BY <1>3, <1>4, RatioIsLowest

LEMMA PlusCommutes ==
  ASSUME NEW r \in Fractions, NEW s \in Fractions
  PROVE  Plus(r, s) = Plus(s, r)
<1>1. r.n \in Nat /\ r.d \in Positive /\ s.n \in Nat /\ s.d \in Positive
  BY DEF Fractions
<1>2. r.n * s.d + s.n * r.d = s.n * r.d + r.n * s.d /\ r.d * s.d = s.d * r.d
  BY <1>1 DEF Positive
<1> QED
  BY <1>2 DEF Plus

LEMMA PlusAssociates ==
  ASSUME NEW r \in Fractions, NEW s \in Fractions, NEW t \in Fractions
  PROVE  Plus(Plus(r, s), t) = Plus(r, Plus(s, t))
<1>1. /\ r.n \in Nat /\ r.d \in Positive /\ r = Ratio(r.n, r.d)
      /\ s.n \in Nat /\ s.d \in Positive /\ s = Ratio(s.n, s.d)
      /\ t.n \in Nat /\ t.d \in Positive /\ t = Ratio(t.n, t.d)
  BY FractionIsRatio
<1> DEFINE a == r.n
           b == r.d
           c == s.n
           d == s.d
           e == t.n
           f == t.d
<1>2. /\ a * d + c * b \in Nat /\ b * d \in Positive
      /\ c * f + e * d \in Nat /\ d * f \in Positive
  BY <1>1 DEF Positive
<1>3. Plus(r, s) = Ratio(a * d + c * b, b * d) /\ Plus(s, t) = Ratio(c * f + e * d, d * f)
  BY Zenon DEF Plus
<1>4. Plus(Plus(r, s), t) = Ratio((a * d + c * b) * f + e * (b * d), (b * d) * f)
  <2> HIDE DEF a, b, c, d, e, f
  <2>1. Plus(Ratio(a * d + c * b, b * d), Ratio(e, f)) = Ratio((a * d + c * b) * f + e * (b * d), (b * d) * f)
    <3>1. e \in Nat /\ f \in Positive
      BY <1>1 DEF e, f
    <3> QED
      BY <1>2, <3>1, PlusOfRatios
  <2>2. t = Ratio(e, f)
    BY <1>1 DEF e, f
  <2> QED
    BY <1>3, <2>1, <2>2
<1>5. Plus(r, Plus(s, t)) = Ratio(a * (d * f) + (c * f + e * d) * b, b * (d * f))
  <2> HIDE DEF a, b, c, d, e, f
  <2>1. Plus(Ratio(a, b), Ratio(c * f + e * d, d * f)) = Ratio(a * (d * f) + (c * f + e * d) * b, b * (d * f))
    <3>1. a \in Nat /\ b \in Positive
      BY <1>1 DEF a, b
    <3> QED
      BY <1>2, <3>1, PlusOfRatios
  <2>2. r = Ratio(a, b)
    BY <1>1 DEF a, b
  <2> QED
    BY <1>3, <2>1, <2>2
<1>6. /\ (a * d + c * b) * f + e * (b * d) = a * (d * f) + (c * f + e * d) * b
      /\ (b * d) * f = b * (d * f)
  BY <1>1 DEF Positive
<1> HIDE DEF a, b, c, d, e, f
<1> QED
  BY <1>4, <1>5, <1>6

(* Whole numbers are fractions, and zero adds nothing.                     *)
LEMMA WholeIsFraction ==
  /\ \A n \in Nat : Whole(n) \in Fractions
  /\ \A r \in Fractions : Plus(r, Whole(0)) = r /\ Plus(Whole(0), r) = r
<1>1. ASSUME NEW n \in Nat PROVE Whole(n) \in Fractions
  <2>1. Whole(n) \in [n : Nat, d : Positive] /\ Whole(n).n = n /\ Whole(n).d = 1
    BY DEF Whole, Positive
  <2>2. n * 0 + 1 * 1 = 1 /\ 0 \in Int /\ 1 \in Int
    OBVIOUS
  <2> QED
    BY <2>1, <2>2 DEF Fractions
<1>2. ASSUME NEW r \in Fractions PROVE Plus(r, Whole(0)) = r
  <2>1. r.n \in Nat /\ r.d \in Positive /\ r = Ratio(r.n, r.d)
    BY FractionIsRatio
  <2>2. Whole(0).n = 0 /\ Whole(0).d = 1
    BY DEF Whole
  <2>3. Plus(r, Whole(0)) = Ratio(r.n * 1 + 0 * r.d, r.d * 1)
    BY <2>2 DEF Plus
  <2>4. r.n * 1 + 0 * r.d = r.n /\ r.d * 1 = r.d
    BY <2>1 DEF Positive
  <2> QED
    BY <2>1, <2>3, <2>4
<1>3. Whole(0) \in Fractions
  BY <1>1
<1> QED
  BY <1>1, <1>2, <1>3, PlusCommutes

(* What a sell leaves and what it takes add up to what there was.          *)
LEMMA ScaledParts ==
  ASSUME NEW r \in Fractions, NEW left \in Nat, NEW sold \in Nat, left + sold # 0
  PROVE  /\ Scaled(r, left, left + sold) \in Fractions
         /\ Plus(Scaled(r, left, left + sold), Scaled(r, sold, left + sold)) = r
<1>1. r.n \in Nat /\ r.d \in Positive /\ r = Ratio(r.n, r.d)
  BY FractionIsRatio
<1> DEFINE a == r.n
           b == r.d
           t == left + sold
<1>2. a \in Nat /\ b \in Positive /\ t \in Positive
  BY <1>1 DEF Positive
<1>3. t = left + sold /\ r = Ratio(a, b)
  BY <1>1
<1>4. Scaled(r, left, t) = Ratio(a * left, b * t) /\ Scaled(r, sold, t) = Ratio(a * sold, b * t)
  BY Zenon DEF Scaled
<1> HIDE DEF a, b, t
<1>5. a * left \in Nat /\ a * sold \in Nat /\ b * t \in Positive
  BY <1>2 DEF Positive
<1>6. Plus(Ratio(a * left, b * t), Ratio(a * sold, b * t))
        = Ratio((a * left) * (b * t) + (a * sold) * (b * t), (b * t) * (b * t))
  BY <1>5, PlusOfRatios
<1>7. ((a * left) * (b * t) + (a * sold) * (b * t)) * b = a * ((b * t) * (b * t))
  <2>1. ((a * left) * (b * t) + (a * sold) * (b * t)) * b = (a * (left + sold)) * ((b * t) * b)
    BY <1>2 DEF Positive
  <2>2. (a * t) * ((b * t) * b) = a * ((b * t) * (b * t))
    BY <1>2 DEF Positive
  <2> QED
    BY <1>3, <2>1, <2>2
<1>8. (a * left) * (b * t) + (a * sold) * (b * t) \in Nat /\ (b * t) * (b * t) \in Positive
  BY <1>5 DEF Positive
<1>9. Ratio((a * left) * (b * t) + (a * sold) * (b * t), (b * t) * (b * t)) = Ratio(a, b)
  BY <1>2, <1>7, <1>8, RatioIsOne
<1>10. Scaled(r, left, t) \in Fractions
  BY <1>4, <1>5, RatioIsLowest
<1> QED
  BY <1>3, <1>4, <1>6, <1>9, <1>10

-----------------------------------------------------------------------------
(* The position that some of the rows add up to.                           *)

PositionOver(T, S) ==
  LET rows == ByDate(T, S)
      after[k \in 0..Len(rows)] ==
        IF k = 0 THEN NoShares ELSE AfterTransaction(after[k - 1], T[rows[k]])
  IN after[Len(rows)]

RowsOver(T, S) == LET L == ByDate(T, S) IN [k \in 1..Len(L) |-> T[L[k]]]

(* A sell is checked against the position of the other rows.               *)
LEMMA PositionOfOthers ==
  \A T, pf, excluded : CurrentPosition(T, pf, excluded) = PositionOver(T, RowsOf(T, pf) \ {excluded})
  BY Zenon DEF CurrentPosition, PositionOver

(* It is the last of the positions after each row.                         *)
LEMMA PositionOverIs ==
  ASSUME NEW T, NEW S, Len(ByDate(T, S)) \in Nat
  PROVE  \E f : /\ PositionOver(T, S) = f[Len(ByDate(T, S))]
                /\ PositionAlong(RowsOver(T, S), Len(ByDate(T, S)), f)
<1> DEFINE rows == ByDate(T, S)
           n == Len(rows)
           row == RowsOver(T, S)
           f == CHOOSE g : Positions(T, rows, n, g)
<1>1. PositionOver(T, S) = f[n]
  BY Zenon DEF PositionOver, Positions
<1>2. \A k \in 1..n : row[k] = T[rows[k]]
  BY DEF RowsOver
<1>3. n \in Nat
  OBVIOUS
<1> HIDE DEF rows, n, row
<1>4. Positions(T, rows, n, f)
  BY <1>3, PositionsExist
<1> HIDE DEF f
<1>5. \A k \in 0..n : f[k] = IF k = 0 THEN NoShares ELSE AfterTransaction(f[k - 1], T[rows[k]])
  BY <1>4 DEF Positions
<1>6. f[0] = NoShares
  <2>1. 0 \in 0..n
    BY <1>3
  <2> QED
    BY <1>5, <2>1
<1>7. ASSUME NEW k \in 1..n PROVE f[k] = AfterTransaction(f[k - 1], row[k])
  <2>1. k \in 0..n /\ k # 0
    BY <1>3
  <2> QED
    BY <1>2, <1>5, <2>1
<1>8. PositionAlong(row, n, f)
  BY <1>6, <1>7 DEF PositionAlong
<1> QED
  BY <1>1, <1>8 DEF rows, n, row

(* The same rows give the same positions.                                  *)
LEMMA SamePositions ==
  ASSUME NEW m \in Nat, NEW n \in Nat, m <= n,
         NEW row, NEW row2, \A k \in 1..m : row[k] = row2[k],
         NEW f, PositionAlong(row, n, f), NEW g, PositionAlong(row2, m, g)
  PROVE  f[m] = g[m]
<1> DEFINE Bad == {k \in 0..m : f[k] # g[k]}
<1>1. Bad = {}
  <2> SUFFICES ASSUME Bad # {} PROVE FALSE
    OBVIOUS
  <2>1. PICK k \in Bad : \A l \in Bad : k <= l
    <3>1. Bad \in SUBSET Nat
      OBVIOUS
    <3> HIDE DEF Bad
    <3> QED
      BY <3>1, LeastNatural
  <2>2. k # 0
    BY <2>1 DEF PositionAlong
  <2>3. k \in 1..m /\ k \in 1..n /\ k - 1 \in 0..m
    BY <2>1, <2>2
  <2>4. f[k - 1] = g[k - 1]
    BY <2>1, <2>3
  <2>5. f[k] = AfterTransaction(f[k - 1], row[k]) /\ g[k] = AfterTransaction(g[k - 1], row2[k])
    BY <2>3, Zenon DEF PositionAlong
  <2>6. row[k] = row2[k]
    BY <2>3
  <2> QED
    BY <2>1, <2>4, <2>5, <2>6
<1> QED
  BY <1>1

(* A list is given by its places.                                          *)
LEMMA ListOfPlaces == \A T, S : ByDate(T, S) = [k \in 1..Cardinality(S) |-> ByDate(T, S)[k]]
<1> TAKE T, S
<1> DEFINE at(k) == CHOOSE i \in S : Cardinality({j \in S : Precedes(T, j, i)}) = k - 1
<1>1. ByDate(T, S) = [k \in 1..Cardinality(S) |-> at(k)]
  BY Zenon DEF ByDate
<1> HIDE DEF at
<1> QED
  BY <1>1

(* The order of rows depends on their dates only.                          *)
LEMMA SamePlaces ==
  ASSUME NEW T, NEW T2, NEW S \in SUBSET Nat, IsFiniteSet(S),
         \A i \in S : T[i].day \in Nat /\ T[i] = T2[i]
  PROVE  ByDate(T, S) = ByDate(T2, S)
<1> DEFINE L == ByDate(T, S)
           M == ByDate(T2, S)
           n == Cardinality(S)
           place == [i \in S |-> Cardinality(RowsBefore(T, S, i))]
<1>1. \A i \in S : RowsBefore(T, S, i) = RowsBefore(T2, S, i)
  BY DEF RowsBefore, Precedes
<1>2. \A i \in S : T[i].day \in Nat
  OBVIOUS
<1>3. \A i \in S : T2[i].day \in Nat
  OBVIOUS
<1>4. /\ \A k \in 1..n : L[k] \in S /\ Cardinality(RowsBefore(T, S, L[k])) = k - 1
      /\ \A i, j \in S : Cardinality(RowsBefore(T, S, i)) = Cardinality(RowsBefore(T, S, j)) => i = j
      /\ n \in Nat
  BY <1>2, ByDatePlaces, Zenon
<1>5. \A k \in 1..n : M[k] \in S /\ Cardinality(RowsBefore(T2, S, M[k])) = k - 1
  BY <1>3, ByDatePlaces, Zenon
<1>6. L = [k \in 1..n |-> L[k]] /\ M = [k \in 1..n |-> M[k]]
  BY ListOfPlaces, Zenon
<1> HIDE DEF L, M, n
<1>7. \A k \in 1..n : L[k] = M[k]
  <2> SUFFICES ASSUME NEW k \in 1..n PROVE L[k] = M[k]
    OBVIOUS
  <2>1. Cardinality(RowsBefore(T, S, M[k])) = k - 1 /\ M[k] \in S
    BY <1>1, <1>5
  <2> QED
    BY <1>4, <2>1
<1> QED
  BY <1>6, <1>7 DEF L, M

(* So does the position, and on what the rows are.                         *)
LEMMA SamePosition ==
  ASSUME NEW T, NEW T2, NEW S \in SUBSET Nat, IsFiniteSet(S),
         \A i \in S : T[i].day \in Nat /\ T[i] = T2[i]
  PROVE  PositionOver(T, S) = PositionOver(T2, S)
<1> DEFINE L == ByDate(T, S)
           n == Len(L)
<1>1. ByDate(T2, S) = L
  BY SamePlaces
<1>2. n \in Nat /\ \A k \in 1..n : L[k] \in S
  BY ByDateListsRows
<1>3. PICK f : PositionOver(T, S) = f[n] /\ PositionAlong(RowsOver(T, S), n, f)
  BY <1>2, PositionOverIs
<1>4. PICK g : PositionOver(T2, S) = g[n] /\ PositionAlong(RowsOver(T2, S), n, g)
  <2>1. \E g : /\ PositionOver(T2, S) = g[Len(ByDate(T2, S))]
               /\ PositionAlong(RowsOver(T2, S), Len(ByDate(T2, S)), g)
    BY <1>1, <1>2, PositionOverIs
  <2> QED
    BY <1>1, <2>1
<1>5. \A k \in 1..n : RowsOver(T, S)[k] = RowsOver(T2, S)[k]
  BY <1>1, <1>2 DEF RowsOver
<1> HIDE DEF n, L
<1>6. f[n] = g[n]
  <2>1. n \in Nat /\ n <= n
    BY <1>2
  <2>2. PositionAlong(RowsOver(T, S), n, f)
    BY <1>3
  <2>3. PositionAlong(RowsOver(T2, S), n, g)
    BY <1>4
  <2> HIDE <1>1, <1>2, <1>3, <1>4
  <2> QED
    BY <1>5, <2>1, <2>2, <2>3, SamePositions
<1> QED
  BY <1>3, <1>4, <1>6

(* The rows before one of them come first, in the same order.              *)
LEMMA FirstPlaces ==
  ASSUME NEW T, NEW S \in SUBSET Nat, IsFiniteSet(S), \A i \in S : T[i].day \in Nat,
         NEW k \in 1..Cardinality(S)
  PROVE  LET L == ByDate(T, S)
             B == RowsBefore(T, S, L[k])
         IN /\ B \in SUBSET Nat /\ IsFiniteSet(B) /\ B \subseteq S
            /\ Len(ByDate(T, B)) = k - 1
            /\ \A m \in 1..(k - 1) : ByDate(T, B)[m] = L[m]
<1> DEFINE L == ByDate(T, S)
           B == RowsBefore(T, S, L[k])
           M == ByDate(T, B)
           n == Cardinality(S)
<1>1. /\ n \in Nat
      /\ \A m \in 1..n : L[m] \in S /\ Cardinality(RowsBefore(T, S, L[m])) = m - 1
      /\ \A i, j \in S : Cardinality(RowsBefore(T, S, i)) = Cardinality(RowsBefore(T, S, j)) => i = j
      /\ \A i, j \in S : /\ i = j \/ Precedes(T, i, j) \/ Precedes(T, j, i)
                         /\ Precedes(T, i, j) =>
                              Cardinality(RowsBefore(T, S, i)) < Cardinality(RowsBefore(T, S, j))
  BY ByDatePlaces, Zenon
<1>2. B \subseteq S /\ B \in SUBSET Nat /\ IsFiniteSet(B) /\ \A i \in B : T[i].day \in Nat
  <2>1. B \subseteq S
    BY DEF RowsBefore
  <2> HIDE DEF B
  <2> QED
    BY <2>1, FS_Subset
<1>3. \A i \in B : RowsBefore(T, B, i) = RowsBefore(T, S, i)
  <2>1. L[k] \in S
    BY <1>1
  <2> HIDE DEF L
  <2>2. \A i, j, l \in S : Precedes(T, j, i) /\ Precedes(T, i, l) => Precedes(T, j, l)
    BY DEF Precedes
  <2> QED
    BY <2>1, <2>2 DEF RowsBefore
<1>4. Cardinality(B) = k - 1
  BY <1>1
<1>5. /\ Len(M) = k - 1
      /\ \A m \in 1..(k - 1) : M[m] \in B /\ Cardinality(RowsBefore(T, B, M[m])) = m - 1
  <2> HIDE DEF B
  <2>1. /\ Len(M) = Cardinality(B)
        /\ \A m \in 1..Cardinality(B) : M[m] \in B /\ Cardinality(RowsBefore(T, B, M[m])) = m - 1
    BY <1>2, ByDatePlaces, Zenon
  <2> HIDE DEF M
  <2> QED
    BY <1>4, <2>1
<1> HIDE DEF L, B, M, n
<1>6. \A m \in 1..(k - 1) : M[m] = L[m]
  <2> SUFFICES ASSUME NEW m \in 1..(k - 1) PROVE M[m] = L[m]
    OBVIOUS
  <2>1. M[m] \in S /\ Cardinality(RowsBefore(T, S, M[m])) = m - 1
    BY <1>2, <1>3, <1>5
  <2>2. m \in 1..n
    BY <1>1 DEF n
  <2>3. L[m] \in S /\ Cardinality(RowsBefore(T, S, L[m])) = m - 1
    BY <1>1, <2>2
  <2> QED
    BY <1>1, <2>1, <2>3
<1> QED
  BY <1>2, <1>5, <1>6 DEF L, B, M

(* The position over the rows before one of them is the one reached there. *)
LEMMA PositionBefore ==
  ASSUME NEW T, NEW S \in SUBSET Nat, IsFiniteSet(S), \A i \in S : T[i].day \in Nat,
         NEW n \in Nat, n = Cardinality(S), NEW f, PositionAlong(RowsOver(T, S), n, f), NEW k \in 1..n
  PROVE  PositionOver(T, RowsBefore(T, S, ByDate(T, S)[k])) = f[k - 1]
<1> DEFINE L == ByDate(T, S)
           B == RowsBefore(T, S, L[k])
           M == ByDate(T, B)
<1>1. /\ B \in SUBSET Nat /\ IsFiniteSet(B)
      /\ Len(M) = k - 1 /\ \A m \in 1..(k - 1) : M[m] = L[m]
  BY FirstPlaces
<1>2. Len(L) = n
  BY ByDateListsRows
<1>3. k - 1 \in Nat /\ k - 1 <= n
  OBVIOUS
<1>4. \A m \in 1..(k - 1) : RowsOver(T, S)[m] = RowsOver(T, B)[m]
  <2> SUFFICES ASSUME NEW m \in 1..(k - 1) PROVE RowsOver(T, S)[m] = RowsOver(T, B)[m]
    OBVIOUS
  <2>1. RowsOver(T, S) = [j \in 1..Len(L) |-> T[L[j]]] /\ RowsOver(T, B) = [j \in 1..Len(M) |-> T[M[j]]]
    BY DEF RowsOver
  <2> HIDE DEF L, M, B
  <2>2. m \in 1..Len(L) /\ m \in 1..Len(M)
    BY <1>1, <1>2, <1>3
  <2> QED
    BY <1>1, <2>1, <2>2
<1>5. PICK g : PositionOver(T, B) = g[k - 1] /\ PositionAlong(RowsOver(T, B), k - 1, g)
  <2> HIDE DEF B
  <2>1. \E g : PositionOver(T, B) = g[Len(M)] /\ PositionAlong(RowsOver(T, B), Len(M), g)
    BY <1>1, <1>3, PositionOverIs
  <2> HIDE DEF M
  <2> QED
    BY <1>1, <2>1
<1>6. f[k - 1] = g[k - 1]
  <2> HIDE DEF B, L, M
  <2> QED
    BY <1>3, <1>4, <1>5, SamePositions
<1> QED
  BY <1>5, <1>6

-----------------------------------------------------------------------------
(* Sells booked at their place in the calendar.                            *)

RowsUntil(T, i) == {j \in RowsOf(T, T[i].pf) : Precedes(T, j, i)}

(* The sell i was covered by the rows before it, and took their cost along. *)
InPlace(T, G, i) ==
  LET position == PositionOver(T, RowsUntil(T, i))
  IN /\ position.shares >= T[i].shares
     /\ \A g \in G : g.of = i => g.basis = Scaled(position.cost, T[i].shares, position.shares)

(* The inductive invariant.                                                *)
BookedInPlace ==
  \A i \in SellsOf(transaction) : transaction[i].pf \notin past.revised =>
    i \notin past.unbooked /\ InPlace(transaction, gains, i)

(* A ledger whose rows have dates.                                         *)
IsLedger(T) == DOMAIN T \in SUBSET Nat /\ IsFiniteSet(DOMAIN T) /\ \A i \in DOMAIN T : T[i] \in Transactions

(* The table is one.                                                       *)
LEMMA LedgersAreLedgers ==
  ASSUME NEW T, \A i \in DOMAIN T : i \in 1..MaxTxns /\ T[i] \in Transactions
  PROVE  IsLedger(T)
<1>1. MaxTxns \in Nat /\ IsFiniteSet(1..MaxTxns)
  BY BoundsAssumption, FS_Interval
<1>2. IsFiniteSet(DOMAIN T)
  BY <1>1, FS_Subset
<1> QED
  BY <1>1, <1>2 DEF IsLedger

(* Rows of a portfolio_fund are finitely many and have dates.              *)
LEMMA RowsOfLedgers ==
  ASSUME NEW T, IsLedger(T), NEW x, NEW S \in SUBSET RowsOf(T, x)
  PROVE  S \in SUBSET Nat /\ IsFiniteSet(S) /\ \A i \in S : T[i].day \in Nat /\ T[i] \in Transactions
<1>1. S \in SUBSET DOMAIN T
  BY DEF RowsOf
<1>2. IsFiniteSet(S)
  BY <1>1, FS_Subset DEF IsLedger
<1>3. \A i \in S : T[i].day \in Nat
  <2>1. LastDay \in Nat
    BY BoundsAssumption
  <2> QED
    BY <1>1, <2>1 DEF IsLedger, Transactions, Days
<1> QED
  BY <1>1, <1>2, <1>3 DEF IsLedger

(* One row changes the shares and the cost of a position.                  *)
LEMMA OneRowCosts ==
  ASSUME NEW t \in Transactions, NEW p, DOMAIN p = PositionFields, p.shares \in Int
  PROVE  LET q == AfterTransaction(p, t)
         IN /\ DOMAIN q = PositionFields /\ q.shares \in Int
            /\ t.type \in {"buy", "dividend"} =>
                 q.shares = p.shares + t.shares /\ q.cost = Plus(p.cost, Amount(t))
            /\ t.type = "fee" => q.shares = p.shares /\ q.cost = Plus(p.cost, Whole(t.price))
            /\ t.type = "sell" =>
                 LET left == p.shares - t.shares
                 IN /\ q.shares = left
                    /\ q.cost = IF left > 0 THEN Scaled(p.cost, left, left + t.shares) ELSE Whole(0)
<1>1. t.type \in {"buy", "sell", "dividend", "fee"} /\ t.shares \in Int
  BY DEF Transactions, TransactionTypes
<1>2. CASE t.type \in {"buy", "dividend"}
  <2>1. AfterTransaction(p, t) = [p EXCEPT !.shares = @ + t.shares, !.cost = Plus(@, Amount(t))]
    BY <1>2 DEF AfterTransaction
  <2> QED
    BY <1>1, <1>2, <2>1 DEF PositionFields
<1>3. CASE t.type = "fee"
  <2>1. AfterTransaction(p, t) = [p EXCEPT !.cost = Plus(@, Whole(t.price))]
    BY <1>3 DEF AfterTransaction
  <2> QED
    BY <1>1, <1>3, <2>1 DEF PositionFields
<1>4. CASE t.type = "sell"
  <2>1. AfterTransaction(p, t) = AfterSell(p, t)
    BY <1>4 DEF AfterTransaction
  <2> QED
    BY <1>1, <1>4, <2>1 DEF PositionFields, AfterSell
<1> QED
  BY <1>1, <1>2, <1>3, <1>4

(* The cost stays an amount.                                               *)
LEMMA CostIsFraction ==
  ASSUME NEW t \in Transactions,
         NEW p, DOMAIN p = PositionFields, p.shares \in Int, p.cost \in Fractions
  PROVE  AfterTransaction(p, t).cost \in Fractions
<1>1. t.type \in {"buy", "sell", "dividend", "fee"} /\ t.shares \in Positive /\ t.price \in Nat
  BY DEF Transactions, TransactionTypes, Positive
<1>2. PICK q : q = AfterTransaction(p, t)
  OBVIOUS
<1>3. CASE t.type \in {"buy", "dividend"}
  <2>1. q.cost = Plus(p.cost, Amount(t))
    BY <1>2, <1>3, OneRowCosts
  <2>2. PICK u : u = t.shares * t.price
    OBVIOUS
  <2>3. u \in Nat
    BY <1>1, <2>2 DEF Positive
  <2>4. Amount(t) \in Fractions
    BY <2>2, <2>3, WholeIsFraction DEF Amount
  <2> QED
    BY <1>2, <2>1, <2>4, PlusIsFraction
<1>4. CASE t.type = "fee"
  <2>1. q.cost = Plus(p.cost, Whole(t.price))
    BY <1>2, <1>4, OneRowCosts
  <2> QED
    BY <1>1, <1>2, <2>1, WholeIsFraction, PlusIsFraction
<1>5. CASE t.type = "sell"
  <2>1. PICK left : left = p.shares - t.shares
    OBVIOUS
  <2>2. q.cost = IF left > 0 THEN Scaled(p.cost, left, left + t.shares) ELSE Whole(0)
    BY <1>2, <1>5, <2>1, OneRowCosts
  <2>3. CASE left > 0
    <3>1. left \in Nat /\ t.shares \in Nat /\ left + t.shares # 0
      BY <1>1, <2>1, <2>3 DEF Positive
    <3>2. Scaled(p.cost, left, left + t.shares) \in Fractions
      BY <3>1, ScaledParts
    <3> QED
      BY <1>2, <2>2, <2>3, <3>2
  <2>4. CASE ~(left > 0)
    BY <1>2, <2>2, <2>4, WholeIsFraction
  <2> QED
    BY <2>3, <2>4
<1> QED
  BY <1>1, <1>3, <1>4, <1>5

(* The positions after each row are whole shares and what they cost.       *)
LEMMA PositionsCount ==
  ASSUME NEW n \in Nat, NEW row, \A k \in 1..n : row[k] \in Transactions,
         NEW f, PositionAlong(row, n, f)
  PROVE  \A k \in 0..n : DOMAIN f[k] = PositionFields /\ f[k].shares \in Int /\ f[k].cost \in Fractions
<1> DEFINE Fits(k) == DOMAIN f[k] = PositionFields /\ f[k].shares \in Int /\ f[k].cost \in Fractions
           Bad == {k \in 0..n : ~Fits(k)}
<1>1. Fits(0)
  BY WholeIsFraction DEF PositionAlong, NoShares, PositionFields
<1>2. ASSUME NEW k \in 1..n, Fits(k - 1) PROVE Fits(k)
  <2>1. PICK t, p : t = row[k] /\ p = f[k - 1]
    OBVIOUS
  <2>2. f[k] = AfterTransaction(p, t) /\ t \in Transactions
    BY <2>1 DEF PositionAlong
  <2>3. DOMAIN p = PositionFields /\ p.shares \in Int /\ p.cost \in Fractions
    BY <1>2, <2>1
  <2> HIDE DEF Fits
  <2>4. DOMAIN AfterTransaction(p, t) = PositionFields /\ AfterTransaction(p, t).shares \in Int
    BY <2>2, <2>3, OneRowCosts
  <2>5. AfterTransaction(p, t).cost \in Fractions
    BY <2>2, <2>3, CostIsFraction
  <2> QED
    BY <2>2, <2>4, <2>5 DEF Fits
<1>3. Bad = {}
  <2> HIDE DEF Fits
  <2> SUFFICES ASSUME Bad # {} PROVE FALSE
    OBVIOUS
  <2>1. PICK m \in Bad : \A l \in Bad : m <= l
    <3>1. Bad \in SUBSET Nat
      OBVIOUS
    <3> HIDE DEF Bad
    <3> QED
      BY <3>1, LeastNatural
  <2>2. m # 0 /\ m \in 1..n /\ m - 1 \in 0..n /\ ~Fits(m)
    BY <1>1, <2>1
  <2>3. Fits(m - 1)
    BY <2>1, <2>2
  <2> QED
    BY <1>2, <2>2, <2>3
<1> QED
  BY <1>3

(* The rows of a list are rows of the table.                               *)
LEMMA ListedRows ==
  ASSUME NEW T, IsLedger(T), NEW x, NEW S \in SUBSET RowsOf(T, x)
  PROVE  LET n == Len(ByDate(T, S))
         IN /\ n \in Nat /\ n = Cardinality(S)
            /\ \A k \in 1..n : /\ ByDate(T, S)[k] \in S
                               /\ RowsOver(T, S)[k] = T[ByDate(T, S)[k]]
                               /\ RowsOver(T, S)[k] \in Transactions
<1> DEFINE L == ByDate(T, S)
<1>1. S \in SUBSET Nat /\ IsFiniteSet(S) /\ \A i \in S : T[i].day \in Nat /\ T[i] \in Transactions
  BY RowsOfLedgers
<1>2. Len(L) \in Nat /\ Len(L) = Cardinality(S) /\ \A k \in 1..Len(L) : L[k] \in S
  BY <1>1, ByDateListsRows
<1>3. \A k \in 1..Len(L) : RowsOver(T, S)[k] = T[L[k]]
  BY DEF RowsOver
<1> QED
  BY <1>1, <1>2, <1>3

(* So are those of the rows of a ledger.                                   *)
LEMMA PositionCounts ==
  ASSUME NEW T, IsLedger(T), NEW x, NEW S \in SUBSET RowsOf(T, x)
  PROVE  PositionOver(T, S).shares \in Int /\ PositionOver(T, S).cost \in Fractions
<1> DEFINE n == Len(ByDate(T, S))
<1>1. n \in Nat /\ \A k \in 1..n : RowsOver(T, S)[k] \in Transactions
  BY ListedRows
<1>2. PICK f : PositionOver(T, S) = f[n] /\ PositionAlong(RowsOver(T, S), n, f)
  BY <1>1, PositionOverIs
<1> HIDE DEF n
<1>3. f[n].shares \in Int /\ f[n].cost \in Fractions
  <2>1. \A k \in 0..n : f[k].shares \in Int /\ f[k].cost \in Fractions
    BY <1>1, <1>2, PositionsCount
  <2> QED
    BY <1>1, <2>1
<1> QED
  BY <1>2, <1>3

(* A sell that nothing before it changed for stays in its place.           *)
LEMMA StaysInPlace ==
  ASSUME NEW T, NEW T2, IsLedger(T), IsLedger(T2), NEW G, NEW G2, NEW i \in DOMAIN T2,
         Untouched(T, T2, i), InPlace(T, G, i), \A g \in G2 : g.of = i => g \in G
  PROVE  InPlace(T2, G2, i)
<1> DEFINE B == RowsUntil(T, i)
<1>1. T[i] = T2[i] /\ Earlier(T, i) = Earlier(T2, i)
  BY DEF Untouched
<1>2. RowsUntil(T2, i) = B /\ \A j \in B : T[j] = T2[j]
  <2>1. \A j, v : <<j, v>> \in Earlier(T, i) <=> j \in RowsUntil(T, i) /\ v = T[j]
    BY DEF Earlier, RowsUntil
  <2>2. \A j, v : <<j, v>> \in Earlier(T2, i) <=> j \in RowsUntil(T2, i) /\ v = T2[j]
    BY DEF Earlier, RowsUntil
  <2> QED
    BY <1>1, <2>1, <2>2
<1>3. B \in SUBSET RowsOf(T, T[i].pf)
  BY DEF RowsUntil
<1>4. PositionOver(T, B) = PositionOver(T2, B)
  <2> HIDE DEF B
  <2>1. B \in SUBSET Nat /\ IsFiniteSet(B) /\ \A j \in B : T[j].day \in Nat
    BY <1>3, RowsOfLedgers
  <2> QED
    BY <1>2, <2>1, SamePosition
<1>5. PositionOver(T2, RowsUntil(T2, i)) = PositionOver(T, RowsUntil(T, i))
  BY <1>2, <1>4
<1> QED
  BY <1>1, <1>5 DEF InPlace

(* A sell booked after all other rows is in its place.                     *)
LEMMA LastIsInPlace ==
  ASSUME NEW T, IsLedger(T), NEW G, NEW i \in DOMAIN T,
         IsLast(T, i), CanSell(T, i), \A g \in G : g.of = i => g = Gain(T, i)
  PROVE  InPlace(T, G, i)
<1>1. RowsOf(T, T[i].pf) \ {i} = RowsUntil(T, i)
  <2>1. ~Precedes(T, i, i)
    <3>1. i \in Nat /\ T[i].day \in Nat
      BY BoundsAssumption DEF IsLedger, Transactions, Days
    <3> QED
      BY <3>1 DEF Precedes
  <2> QED
    BY <2>1 DEF IsLast, RowsUntil
<1>2. PICK position : position = CurrentPosition(T, T[i].pf, i)
  OBVIOUS
<1>3. position = PositionOver(T, RowsUntil(T, i))
  BY <1>1, <1>2, PositionOfOthers
<1>4. position.shares >= T[i].shares
  BY <1>2 DEF CanSell
<1>5. Gain(T, i).basis = IF position.shares > 0 THEN Scaled(position.cost, T[i].shares, position.shares)
                         ELSE Whole(0)
  BY <1>2 DEF Gain
<1>6. T[i].shares \in Nat \ {0}
  BY DEF IsLedger, Transactions
<1>7. position.shares \in Int
  <2>1. RowsUntil(T, i) \in SUBSET RowsOf(T, T[i].pf)
    BY DEF RowsUntil
  <2> QED
    BY <1>3, <2>1, PositionCounts
<1>8. Gain(T, i).basis = Scaled(position.cost, T[i].shares, position.shares)
  BY <1>4, <1>5, <1>6, <1>7
<1> QED
  BY <1>3, <1>4, <1>8 DEF InPlace

(* A new sell is checked before it is a row.                               *)
LEMMA CreatedSell ==
  ASSUME NEW T, IsLedger(T), 0 \notin DOMAIN T, NEW i, i \notin DOMAIN T, NEW t \in Transactions,
         NEW T2, DOMAIN T2 = DOMAIN T \cup {i}, T2[i] = t, \A j \in DOMAIN T \ {i} : T2[j] = T[j],
         ~(CurrentPosition(T, t.pf, 0).shares < t.shares)
  PROVE  CanSell(T2, i)
<1> DEFINE S == RowsOf(T, t.pf)
<1>1. RowsOf(T, t.pf) \ {0} = S /\ RowsOf(T2, T2[i].pf) \ {i} = S /\ \A j \in S : T[j] = T2[j]
  BY DEF RowsOf
<1>2. S \in SUBSET Nat /\ IsFiniteSet(S) /\ \A j \in S : T[j].day \in Nat
  BY RowsOfLedgers
<1>3. PositionOver(T, S).shares \in Int
  BY PositionCounts
<1> HIDE DEF S
<1>4. PositionOver(T, S) = PositionOver(T2, S)
  BY <1>1, <1>2, SamePosition
<1>5. CurrentPosition(T, t.pf, 0) = PositionOver(T, S)
  BY <1>1, PositionOfOthers
<1>6. CurrentPosition(T2, T2[i].pf, i) = PositionOver(T, S)
  BY <1>1, <1>4, PositionOfOthers
<1>7. PositionOver(T, S).shares >= t.shares
  <2>1. t.shares \in Int
    BY DEF Transactions
  <2> QED
    BY <1>3, <1>5, <2>1
<1> QED
  BY <1>6, <1>7 DEF CanSell

(* What a step that writes transactions does to the portfolio_funds whose  *)
(* sells are out of their place.                                           *)
LEMMA RevisedPast ==
  ASSUME HistoryOK, NEW booked, NEW L, Remember(transaction', dividend', booked, L)
  PROVE  past'.revised = (past.revised \cup
                            {transaction'[i].pf : i \in OutOfPlace(transaction, transaction', booked)})
                           \cap DOMAIN pfs'
<1>1. DOMAIN past = {"revised", "unbooked", "loose", "entered", "filled"}
  BY DEF HistoryOK
<1>2. PICK R, U, W : /\ past' = [past EXCEPT !.revised = R, !.unbooked = U, !.loose = W]
                     /\ R = (past.revised \cup
                               {transaction'[i].pf : i \in OutOfPlace(transaction, transaction', booked)})
                              \cap DOMAIN pfs'
  BY DEF Remember
<1> QED
  BY <1>1, <1>2

(* A step that books the sells it writes, and takes no other gain in,      *)
(* leaves every sell in its place or its portfolio_fund revised.           *)
LEMMA WritesStayInPlace ==
  ASSUME BooksInv, BooksInv', BookedInPlace, NEW booked, NEW L,
         Remember(transaction', dividend', booked, L),
         \A g \in gains' : g.of \notin booked => g \in gains,
         \A i \in booked \cap SellsOf(transaction') :
           CanSell(transaction', i) /\ Gain(transaction', i) \in gains'
  PROVE  BookedInPlace'
<1>1. HistoryOK /\ LedgerOK /\ LedgerOK'
  BY DEF BooksInv
<1>2. PICK T, T2, G2, R2, U2 : /\ T = transaction /\ T2 = transaction' /\ G2 = gains'
                               /\ R2 = past'.revised /\ U2 = past'.unbooked
  OBVIOUS
<1>3. IsLedger(T) /\ IsLedger(T2)
  <2>1. \A i \in DOMAIN T : i \in 1..MaxTxns /\ T[i] \in Transactions
    BY <1>1, <1>2 DEF LedgerOK
  <2>2. \A i \in DOMAIN T2 : i \in 1..MaxTxns /\ T2[i] \in Transactions
    BY <1>1, <1>2 DEF LedgerOK
  <2> QED
    BY <2>1, <2>2, LedgersAreLedgers
<1>4. R2 = (past.revised \cup {T2[i].pf : i \in OutOfPlace(T, T2, booked)}) \cap DOMAIN pfs'
  BY <1>1, <1>2, RevisedPast
<1>5. U2 = ((past.unbooked \ (booked \cap SellsOf(T))) \cup (SellsTouched(T, T2) \ booked)) \cap DOMAIN T2
  BY <1>1, <1>2, RememberedPast
<1>6. ASSUME NEW i \in SellsOf(T2), T2[i].pf \notin R2 PROVE i \notin U2 /\ InPlace(T2, G2, i)
  <2>1. i \in DOMAIN T2 /\ T2[i].type = "sell" /\ i \notin OutOfPlace(T, T2, booked)
        /\ T2[i].pf \notin past.revised
    <3>1. i \in DOMAIN T2 /\ T2[i].type = "sell"
      BY DEF SellsOf
    <3>2. T2[i].pf \in DOMAIN pfs'
      BY <1>1, <1>2, <3>1 DEF LedgerOK
    <3> QED
      BY <1>4, <1>6, <3>1, <3>2
  <2>2. CASE i \in booked \ past.unbooked
    <3>1. IsLast(T2, i)
      BY <2>1, <2>2 DEF OutOfPlace
    <3>2. i \notin U2
      BY <1>5, <2>2
    <3>3. CanSell(T2, i) /\ Gain(T2, i) \in G2 /\ Gain(T2, i).of = i
      BY <1>2, <2>2 DEF Gain
    <3>4. \A g \in G2 : g.of = i => g = Gain(T2, i)
      <4>1. \A g \in gains' : g.of \notin past'.unbooked => \A h \in gains' : g.of = h.of => g = h
        BY DEF BooksInv, GainsFollowSells
      <4> QED
        BY <1>2, <3>2, <3>3, <4>1
    <3>5. InPlace(T2, G2, i)
      BY <1>3, <2>1, <3>1, <3>3, <3>4, LastIsInPlace
    <3> QED
      BY <3>2, <3>5
  <2>3. CASE ~(i \in booked \ past.unbooked)
    <3>1. Untouched(T, T2, i)
      BY <2>1, <2>3 DEF OutOfPlace
    <3>2. i \in SellsOf(T) /\ T[i] = T2[i] /\ T[i].pf \notin past.revised
      BY <2>1, <3>1 DEF Untouched, SellsOf
    <3>3. i \notin past.unbooked /\ InPlace(T, gains, i)
      BY <1>2, <3>2 DEF BookedInPlace
    <3>4. i \notin booked
      BY <2>3, <3>3
    <3>5. i \notin U2
      BY <1>5, <3>2, <3>3 DEF SellsTouched, SellsOf
    <3>6. \A g \in G2 : g.of = i => g \in gains
      BY <1>2, <3>4
    <3>7. InPlace(T2, G2, i)
      BY <1>3, <2>1, <3>1, <3>3, <3>6, StaysInPlace
    <3> QED
      BY <3>5, <3>7
  <2> QED
    BY <2>2, <2>3
<1> QED
  BY <1>2, <1>6 DEF BookedInPlace

(* Nothing is sold at first.                                               *)
LEMMA BookedInPlaceInit == Init => BookedInPlace
  BY FirstRows DEF BookedInPlace, SellsOf

(* Every step keeps the sells in their places.                             *)
LEMMA BookedInPlaceStays ==
  ASSUME BooksInv, BooksInv', BookedInPlace, Next
  PROVE  BookedInPlace'
<1>1. RequestsOK /\ CatalogOK /\ LedgerOK /\ HistoryOK /\ PricesOK
  BY DEF BooksInv
<1>2. ASSUME UNCHANGED <<transaction, gains>>, past'.unbooked = past.unbooked, past'.revised = past.revised
      PROVE  BookedInPlace'
  BY <1>2 DEF BookedInPlace
<1>3. CASE TransactionRequest
  <2>1. CASE \E t \in Asked.transactions : CreateTransaction(t)
    <3>1. PICK t \in Asked.transactions : CreateTransaction(t)
      BY <2>1
    <3>2. PICK i, L : /\ i \in 1..MaxTxns /\ i \notin DOMAIN transaction
                      /\ t \in Transactions /\ t.pf \in DOMAIN pfs
                      /\ transaction' = With(transaction, i, t)
                      /\ gains' = gains \cup GainOf(With(transaction, i, t), i)
                      /\ Remember(transaction', dividend', {i}, L)
      BY <1>1, <3>1, CreatedRow
    <3>3. /\ DOMAIN transaction' = DOMAIN transaction \cup {i} /\ transaction'[i] = t
          /\ \A j \in DOMAIN transaction \ {i} : transaction'[j] = transaction[j]
      BY <3>2 DEF With
    <3>4. ASSUME t.type = "sell" PROVE CanSell(transaction', i) /\ Gain(transaction', i) \in gains'
      <4>1. PICK T, T2 : T = transaction /\ T2 = transaction'
        OBVIOUS
      <4>2. IsLedger(T) /\ 0 \notin DOMAIN T
        <5>1. \A j \in DOMAIN T : j \in 1..MaxTxns /\ T[j] \in Transactions
          BY <1>1, <4>1 DEF LedgerOK
        <5> QED
          BY <5>1, LedgersAreLedgers
      <4>3. ~(CurrentPosition(T, t.pf, 0).shares < t.shares)
        BY <3>1, <3>4, <4>1, Zenon DEF CreateTransaction, CreateTransactionError
      <4>4. CanSell(T2, i)
        BY <3>2, <3>3, <4>1, <4>2, <4>3, CreatedSell
      <4>5. Gain(transaction', i) \in gains'
        BY <3>2, <3>3, <3>4 DEF GainOf
      <4> QED
        BY <4>1, <4>4, <4>5
    <3>5. /\ \A g \in gains' : g.of \notin {i} => g \in gains
          /\ \A j \in {i} \cap SellsOf(transaction') : j = i /\ t.type = "sell"
      BY <3>2, <3>3 DEF GainOf, Gain, SellsOf
    <3> QED
      BY <3>2, <3>4, <3>5, WritesStayInPlace
  <2>2. CASE \E i \in DOMAIN transaction, c \in Asked.changes : UpdateTransaction(i, c)
    <3>1. PICK i \in DOMAIN transaction, c \in Asked.changes : UpdateTransaction(i, c)
      BY <2>2
    <3>2. PICK t, L : /\ transaction' = [transaction EXCEPT ![i] = t]
                      /\ gains' = GainOf(transaction', i) \cup
                                  (IF transaction[i].type = "sell" THEN GainsWithout(i) ELSE gains)
                      /\ Remember(transaction', dividend', {i}, L)
      BY <1>1, <3>1, UpdatedRow
    <3>3. transaction'[i].type = "sell" => CanSell(transaction', i)
      <4>1. UpdateTransactionError(i, c) = "none" /\ transaction' = [transaction EXCEPT ![i] = Applied(c, @)]
        BY <3>1 DEF UpdateTransaction, Stores
      <4> QED
        BY <4>1, Zenon DEF UpdateTransactionError
    <3>4. /\ \A g \in gains' : g.of \notin {i} => g \in gains
          /\ transaction'[i].type = "sell" => Gain(transaction', i) \in gains'
      <4>1. PICK new : new = Gain(transaction', i)
        OBVIOUS
      <4>2. new.of = i
        BY <4>1 DEF Gain
      <4>3. GainOf(transaction', i) = IF transaction'[i].type = "sell" THEN {new} ELSE {}
        BY <4>1 DEF GainOf
      <4> QED
        BY <3>2, <4>1, <4>2, <4>3 DEF GainsWithout
    <3>5. \A j \in {i} \cap SellsOf(transaction') : j = i /\ transaction'[i].type = "sell"
      BY DEF SellsOf
    <3> QED
      BY <3>2, <3>3, <3>4, <3>5, WritesStayInPlace
  <2>3. CASE \E i \in DOMAIN transaction : DeleteTransaction(i)
    <3>1. DropsRows({}, {})
      BY <1>1, <2>3, DeletedRow
    <3> QED
      BY <3>1, WritesStayInPlace DEF DropsRows
  <2>4. CASE \E rows \in Asked.imports, x \in DOMAIN pfs : ImportTransactions(x, rows)
    <3>1. PICK rows \in Asked.imports, x \in DOMAIN pfs : ImportTransactions(x, rows)
      BY <2>4
    <3>2. PICK L : gains' = gains /\ Remember(transaction', dividend', {}, L)
      BY <1>1, <3>1, ImportedRows
    <3> QED
      BY <3>2, WritesStayInPlace
  <2> QED
    BY <1>3, <2>1, <2>2, <2>3, <2>4 DEF TransactionRequest
<1>4. CASE \E c \in Clients : \E d, link : WritesRow(c, d, link)
  BY <1>4, WritesStayInPlace DEF WritesRow
<1>5. CASE DropsSome
  <2>1. PICK dropped, L : DropsRows(dropped, L)
    BY <1>5 DEF DropsSome
  <2> QED
    BY <2>1, WritesStayInPlace DEF DropsRows
<1>6. CASE \E c \in Clients : Continued(c) /\ KeepsHistory
  BY <1>2, <1>6 DEF Continued, KeepsHistory
<1>7. CASE TablesKept \/ ChangesCatalog
  BY <1>2, <1>7 DEF TablesKept, ChangesCatalog
<1>8. CASE EntersPrices
  BY <1>1, <1>2, <1>8, EnteredRows DEF EntersPrices, EntersFor
<1> QED
  BY <1>3, <1>4, <1>5, <1>6, <1>7, <1>8, KindsOfSteps

-----------------------------------------------------------------------------
(* What comes in and what goes out add up.                                 *)

PaidIn(t) == CASE t.type \in {"buy", "dividend"} -> Amount(t)
               [] t.type = "fee" -> Whole(t.price)
               [] OTHER -> Whole(0)

(* A part of a fraction is one, and the whole part is it.                  *)
LEMMA Shares ==
  ASSUME NEW r \in Fractions, NEW down \in Positive
  PROVE  (\A up \in Nat : Scaled(r, up, down) \in Fractions) /\ Scaled(r, down, down) = r
<1>1. r.n \in Nat /\ r.d \in Positive /\ r = Ratio(r.n, r.d)
  BY FractionIsRatio
<1>2. PICK a \in Nat, b \in Positive : a = r.n /\ b = r.d
  BY <1>1
<1>3. r = Ratio(a, b) /\ \A up \in Nat : Scaled(r, up, down) = Ratio(a * up, b * down)
  BY <1>1, <1>2, Zenon DEF Scaled
<1>4. \A up \in Nat : a * up \in Nat /\ b * down \in Positive
  BY DEF Positive
<1>5. \A up \in Nat : Ratio(a * up, b * down) \in Fractions
  BY <1>4, RatioIsLowest
<1>6. down \in Nat /\ (a * down) * b = a * (b * down)
  BY DEF Positive
<1>7. Ratio(a * down, b * down) = Ratio(a, b)
  BY <1>4, <1>6, RatioIsOne
<1> QED
  BY <1>3, <1>5, <1>6, <1>7

(* One row keeps the balance: a payment adds to the cost what was paid in, *)
(* and a sell takes its part of the cost, all of it with the last share.   *)
LEMMA OneRowBalances ==
  ASSUME NEW t \in Transactions, NEW p, DOMAIN p = PositionFields,
         p.shares \in Nat, p.cost \in Fractions,
         NEW sold \in Fractions, NEW paid, Plus(p.cost, sold) = paid,
         NEW basis,
         basis = IF t.type = "sell" THEN Scaled(p.cost, t.shares, p.shares) ELSE Whole(0),
         t.type = "sell" => p.shares >= t.shares
  PROVE  LET q == AfterTransaction(p, t)
         IN /\ DOMAIN q = PositionFields /\ q.shares \in Nat /\ q.cost \in Fractions
            /\ Plus(sold, basis) \in Fractions
            /\ Plus(q.cost, Plus(sold, basis)) = Plus(paid, PaidIn(t))
<1>1. PICK q : q = AfterTransaction(p, t)
  OBVIOUS
<1>2. /\ t.type \in {"buy", "sell", "dividend", "fee"}
      /\ t.shares \in Positive /\ t.price \in Nat /\ t.shares * t.price \in Nat
  <2>1. t.type \in {"buy", "sell", "dividend", "fee"} /\ t.shares \in Positive /\ t.price \in Nat
    BY DEF Transactions, TransactionTypes, Positive
  <2>2. \A a \in Positive, b \in Nat : a * b \in Nat
    BY DEF Positive
  <2> QED
    BY <2>1, <2>2
<1>3. PICK c : c = p.cost
  OBVIOUS
<1>4. c \in Fractions /\ paid = Plus(c, sold) /\ paid \in Fractions
  BY <1>3, PlusIsFraction
<1>5. /\ DOMAIN q = PositionFields /\ q.shares \in Int
      /\ t.type \in {"buy", "dividend"} =>
           q.shares = p.shares + t.shares /\ q.cost = Plus(c, Amount(t))
      /\ t.type = "fee" => q.shares = p.shares /\ q.cost = Plus(c, Whole(t.price))
      /\ t.type = "sell" =>
           LET left == p.shares - t.shares
           IN /\ q.shares = left
              /\ q.cost = IF left > 0 THEN Scaled(c, left, left + t.shares) ELSE Whole(0)
  BY <1>1, <1>3, OneRowCosts
<1>6. Amount(t) \in Fractions /\ Whole(t.price) \in Fractions /\ Whole(0) \in Fractions
  BY <1>2, WholeIsFraction DEF Amount
<1>7. ASSUME NEW amount \in Fractions, q.cost = Plus(c, amount), PaidIn(t) = amount, basis = Whole(0)
      PROVE  /\ q.cost \in Fractions /\ Plus(sold, basis) \in Fractions
             /\ Plus(q.cost, Plus(sold, basis)) = Plus(paid, PaidIn(t))
  <2>1. q.cost \in Fractions
    BY <1>4, <1>7, PlusIsFraction
  <2>2. Plus(sold, basis) = sold
    BY <1>7, WholeIsFraction
  <2>3. Plus(Plus(c, amount), sold) = Plus(c, Plus(amount, sold))
    BY <1>4, PlusAssociates
  <2>4. Plus(amount, sold) = Plus(sold, amount)
    BY PlusCommutes
  <2>5. Plus(Plus(c, sold), amount) = Plus(c, Plus(sold, amount))
    BY <1>4, PlusAssociates
  <2> QED
    BY <1>4, <1>7, <2>1, <2>2, <2>3, <2>4, <2>5
<1>8. CASE t.type \in {"buy", "dividend"}
  <2>1. PaidIn(t) = Amount(t) /\ basis = Whole(0)
    BY <1>8 DEF PaidIn
  <2>2. q.shares \in Nat
    BY <1>2, <1>5, <1>8 DEF Positive
  <2> QED
    BY <1>1, <1>5, <1>6, <1>7, <1>8, <2>1, <2>2
<1>9. CASE t.type = "fee"
  <2>1. PaidIn(t) = Whole(t.price) /\ basis = Whole(0)
    BY <1>9 DEF PaidIn
  <2> QED
    BY <1>1, <1>5, <1>6, <1>7, <1>9, <2>1
<1>10. CASE t.type = "sell"
  <2>1. PICK left : left = p.shares - t.shares
    OBVIOUS
  <2>2. left \in Nat /\ p.shares = left + t.shares /\ left + t.shares \in Positive
    BY <1>2, <1>10, <2>1 DEF Positive
  <2>3. PaidIn(t) = Whole(0) /\ basis = Scaled(c, t.shares, left + t.shares)
    BY <1>3, <1>10, <2>2 DEF PaidIn
  <2>4. basis \in Fractions
    <3>1. t.shares \in Nat
      BY <1>2 DEF Positive
    <3> QED
      BY <1>4, <2>2, <2>3, <3>1, Shares
  <2>5. q.cost \in Fractions /\ Plus(q.cost, basis) = c
    <3>1. CASE left > 0
      <4>1. q.cost = Scaled(c, left, left + t.shares)
        BY <1>5, <1>10, <2>1, <3>1
      <4>2. PICK sh \in Nat : sh = t.shares /\ left + sh # 0
        BY <1>2, <2>2 DEF Positive
      <4>3. /\ Scaled(c, left, left + sh) \in Fractions
            /\ Plus(Scaled(c, left, left + sh), Scaled(c, sh, left + sh)) = c
        BY <1>4, <2>2, <4>2, ScaledParts
      <4> QED
        BY <2>3, <4>1, <4>2, <4>3
    <3>2. CASE ~(left > 0)
      <4>1. q.cost = Whole(0) /\ left = 0
        BY <1>5, <1>10, <2>1, <2>2, <3>2
      <4>2. left + t.shares = t.shares
        BY <1>2, <4>1 DEF Positive
      <4>3. basis = c
        BY <1>2, <1>4, <2>3, <4>2, Shares
      <4> QED
        BY <1>4, <1>6, <4>1, <4>3, WholeIsFraction
    <3> QED
      BY <3>1, <3>2
  <2>6. Plus(sold, basis) \in Fractions /\ Plus(sold, basis) = Plus(basis, sold)
    BY <2>4, PlusIsFraction, PlusCommutes
  <2>7. Plus(q.cost, Plus(basis, sold)) = Plus(Plus(q.cost, basis), sold)
    BY <2>4, <2>5, PlusAssociates
  <2>8. Plus(paid, PaidIn(t)) = paid
    BY <1>4, <2>3, WholeIsFraction
  <2>9. q.shares \in Nat
    BY <1>5, <1>10, <2>1, <2>2
  <2> QED
    BY <1>1, <1>4, <1>5, <2>5, <2>6, <2>7, <2>8, <2>9
<1> QED
  BY <1>2, <1>8, <1>9, <1>10

(* Sums along a list.                                                      *)
SumsAlong(part, n, f) ==
  /\ f[0] = Whole(0)
  /\ \A k \in 1..n : f[k] = Plus(f[k - 1], part[k])

(* Row by row the cost and the bases of the sells are what was paid in.    *)
LEMMA BalanceAlong ==
  ASSUME NEW n \in Nat, NEW row, \A k \in 1..n : row[k] \in Transactions,
         NEW position, PositionAlong(row, n, position),
         NEW basis, NEW sold, SumsAlong(basis, n, sold),
         NEW paidIn, NEW paid, SumsAlong(paidIn, n, paid),
         \A k \in 1..n : paidIn[k] = PaidIn(row[k]),
         \A k \in 1..n : row[k].type # "sell" => basis[k] = Whole(0),
         \A k \in 1..n : row[k].type = "sell" =>
           /\ position[k - 1].shares >= row[k].shares
           /\ basis[k] = Scaled(position[k - 1].cost, row[k].shares, position[k - 1].shares)
  PROVE  Plus(position[n].cost, sold[n]) = paid[n]
<1> DEFINE Balanced(k) == /\ DOMAIN position[k] = PositionFields
                          /\ position[k].shares \in Nat /\ position[k].cost \in Fractions
                          /\ sold[k] \in Fractions
                          /\ Plus(position[k].cost, sold[k]) = paid[k]
           Bad == {k \in 0..n : ~Balanced(k)}
<1>1. Balanced(0)
  <2>1. Whole(0) \in Fractions /\ Plus(Whole(0), Whole(0)) = Whole(0)
    BY WholeIsFraction
  <2> QED
    BY <2>1 DEF PositionAlong, SumsAlong, NoShares, PositionFields
<1>2. ASSUME NEW k \in 1..n, Balanced(k - 1) PROVE Balanced(k)
  <2>1. PICK t, p, s, d, b : /\ t = row[k] /\ p = position[k - 1] /\ s = sold[k - 1] /\ d = paid[k - 1]
                             /\ b = basis[k]
    OBVIOUS
  <2>2. /\ t \in Transactions /\ position[k] = AfterTransaction(p, t)
        /\ sold[k] = Plus(s, b) /\ paid[k] = Plus(d, PaidIn(t))
    BY <2>1 DEF PositionAlong, SumsAlong
  <2>3. /\ DOMAIN p = PositionFields /\ p.shares \in Nat /\ p.cost \in Fractions
        /\ s \in Fractions /\ Plus(p.cost, s) = d
    BY <1>2, <2>1
  <2>4. /\ b = IF t.type = "sell" THEN Scaled(p.cost, t.shares, p.shares) ELSE Whole(0)
        /\ t.type = "sell" => p.shares >= t.shares
    BY <2>1
  <2> HIDE DEF Balanced
  <2>5. LET q == AfterTransaction(p, t)
        IN /\ DOMAIN q = PositionFields /\ q.shares \in Nat /\ q.cost \in Fractions
           /\ Plus(s, b) \in Fractions
           /\ Plus(q.cost, Plus(s, b)) = Plus(d, PaidIn(t))
    BY <2>2, <2>3, <2>4, OneRowBalances
  <2> QED
    BY <2>2, <2>5 DEF Balanced
<1>3. Bad = {}
  <2> HIDE DEF Balanced
  <2> SUFFICES ASSUME Bad # {} PROVE FALSE
    OBVIOUS
  <2>1. PICK m \in Bad : \A l \in Bad : m <= l
    <3>1. Bad \in SUBSET Nat
      OBVIOUS
    <3> HIDE DEF Bad
    <3> QED
      BY <3>1, LeastNatural
  <2>2. m # 0 /\ m \in 1..n /\ m - 1 \in 0..n /\ ~Balanced(m)
    BY <1>1, <2>1
  <2>3. Balanced(m - 1)
    BY <2>1, <2>2
  <2> QED
    BY <1>2, <2>2, <2>3
<1>4. Balanced(n)
  <2> HIDE DEF Balanced
  <2> QED
    BY <1>3
<1> QED
  BY <1>4

(* The sums of what was paid in and of the bases, as the balance has them. *)
Sums(part, n, g) ==
  g = [k \in 0..n |-> IF k = 0 THEN Whole(0) ELSE Plus(g[k - 1], part[k])]
PaidAfter(T, rows, n, g) ==
  g = [k \in 0..n |-> IF k = 0 THEN Whole(0) ELSE Plus(g[k - 1], PaidIn(T[rows[k]]))]
BasisIn(T, G, i) == IF T[i].type # "sell" THEN Whole(0) ELSE (CHOOSE g \in G : g.of = i).basis
SoldAfter(T, G, rows, n, g) ==
  g = [k \in 0..n |-> IF k = 0 THEN Whole(0) ELSE Plus(g[k - 1], BasisIn(T, G, rows[k]))]
Balances(T, G, x) ==
  LET rows == ByDate(T, RowsOf(T, x))
  IN Plus(CurrentPosition(T, x, 0).cost, (CHOOSE g : SoldAfter(T, G, rows, Len(rows), g))[Len(rows)])
       = (CHOOSE g : PaidAfter(T, rows, Len(rows), g))[Len(rows)]

(* The balance, a portfolio_fund at a time.                                *)
LEMMA BalanceOfEach == BooksBalance <=> \A x \in DOMAIN pfs \ past.revised : Balances(transaction, gains, x)
  BY Zenon DEF BooksBalance, Balances, PaidAfter, SoldAfter, PaidIn, BasisIn

(* There is such a list of sums.                                           *)
LEMMA SumsExist ==
  ASSUME NEW part, NEW n \in Nat
  PROVE  \E g : Sums(part, n, g)
<1> DEFINE Unrolled(g) == [k \in 0..n |-> IF k = 0 THEN Whole(0) ELSE Plus(g[k - 1], part[k])]
           Solves(g, m) == \A k \in 0..n : k <= m => g[k] = Unrolled(g)[k]
           Missing == {m \in Nat : ~\E g : Solves(g, m)}
<1>1. \A g : \A k \in 0..n : Unrolled(g)[k] = IF k = 0 THEN Whole(0) ELSE Plus(g[k - 1], part[k])
  OBVIOUS
<1>2. ASSUME NEW g, NEW m \in Nat, \A k \in 0..n : k <= m - 1 => g[k] = Unrolled(g)[k]
      PROVE  Solves(Unrolled(g), m)
  <2> SUFFICES ASSUME NEW k \in 0..n, k <= m PROVE Unrolled(g)[k] = Unrolled(Unrolled(g))[k]
    OBVIOUS
  <2> HIDE DEF Unrolled
  <2>1. CASE k = 0
    BY <1>1, <2>1
  <2>2. CASE k # 0
    <3>1. k - 1 \in 0..n /\ k - 1 <= m - 1
      BY <2>2
    <3>2. g[k - 1] = Unrolled(g)[k - 1]
      BY <1>2, <3>1
    <3> QED
      BY <1>1, <2>2, <3>2
  <2> QED
    BY <2>1, <2>2
<1>3. Missing = {}
  <2> HIDE DEF Unrolled
  <2> SUFFICES ASSUME Missing # {} PROVE FALSE
    OBVIOUS
  <2>1. PICK m \in Missing : \A l \in Missing : m <= l
    <3>1. Missing \in SUBSET Nat
      OBVIOUS
    <3> HIDE DEF Missing
    <3> QED
      BY <3>1, LeastNatural
  <2>2. CASE m = 0
    <3>1. \A k \in 0..n : ~(k <= m - 1)
      BY <2>2
    <3>2. Solves(Unrolled(0), m)
      BY <1>2, <3>1
    <3> QED
      BY <2>1, <3>2
  <2>3. CASE m # 0
    <3>1. m - 1 \in Nat /\ m - 1 \notin Missing
      BY <2>1, <2>3
    <3>2. PICK g : Solves(g, m - 1)
      BY <3>1
    <3>3. Solves(Unrolled(g), m)
      BY <1>2, <3>2
    <3> QED
      BY <2>1, <3>3
  <2> QED
    BY <2>2, <2>3
<1>4. PICK g : \A k \in 0..n : g[k] = Unrolled(g)[k]
  <2>1. PICK g : Solves(g, n)
    BY <1>3
  <2> QED
    BY <2>1
<1>5. Unrolled(g) = Unrolled(Unrolled(g))
  <2> HIDE DEF Unrolled
  <2>1. \A k \in 1..n : Unrolled(g)[k - 1] = g[k - 1]
    BY <1>4
  <2>2. \A k \in 0..n : Unrolled(g)[k] = Unrolled(Unrolled(g))[k]
    BY <1>1, <2>1
  <2> QED
    BY <2>2 DEF Unrolled
<1> QED
  BY <1>5 DEF Sums

(* A gain of a booked sell is the one its basis is looked up in.           *)
LEMMA BasisOfBooked ==
  ASSUME NEW T, NEW G, NEW i, T[i].type = "sell", \E g \in G : g.of = i, InPlace(T, G, i)
  PROVE  LET position == PositionOver(T, RowsUntil(T, i))
         IN /\ position.shares >= T[i].shares
            /\ BasisIn(T, G, i) = Scaled(position.cost, T[i].shares, position.shares)
<1>1. PICK g : g = (CHOOSE h \in G : h.of = i) /\ g \in G /\ g.of = i
  OBVIOUS
<1>2. BasisIn(T, G, i) = g.basis
  BY <1>1 DEF BasisIn
<1> QED
  BY <1>1, <1>2 DEF InPlace

(* In a ledger whose sells are in their places nothing is made or lost.    *)
LEMMA BalanceOfLedger ==
  ASSUME NEW T, IsLedger(T), 0 \notin DOMAIN T, NEW G, NEW x,
         \A i \in RowsOf(T, x) : T[i].type = "sell" => (\E g \in G : g.of = i) /\ InPlace(T, G, i)
  PROVE  Balances(T, G, x)
<1> DEFINE S == RowsOf(T, x)
           L == ByDate(T, S)
           n == Len(L)
           row == RowsOver(T, S)
           basis == [k \in 1..n |-> BasisIn(T, G, L[k])]
           paidIn == [k \in 1..n |-> PaidIn(T[L[k]])]
<1>1. S \in SUBSET Nat /\ IsFiniteSet(S) /\ \A i \in S : T[i].day \in Nat /\ T[i].pf = x
  <2>1. \A i \in S : T[i].pf = x
    BY DEF RowsOf
  <2> QED
    BY <2>1, RowsOfLedgers
<1>2. /\ n \in Nat /\ n = Cardinality(S)
      /\ \A k \in 1..n : L[k] \in S /\ row[k] = T[L[k]] /\ row[k] \in Transactions
  <2>1. ASSUME NEW R \in SUBSET RowsOf(T, x)
        PROVE  LET m == Len(ByDate(T, R))
               IN /\ m \in Nat /\ m = Cardinality(R)
                  /\ \A k \in 1..m : /\ ByDate(T, R)[k] \in R
                                     /\ RowsOver(T, R)[k] = T[ByDate(T, R)[k]]
                                     /\ RowsOver(T, R)[k] \in Transactions
    BY <2>1, ListedRows, Zenon
  <2>2. S \in SUBSET RowsOf(T, x)
    OBVIOUS
  <2> QED
    BY <2>1, <2>2, Zenon
<1>3. CurrentPosition(T, x, 0) = PositionOver(T, S)
  <2>1. S \ {0} = S
    BY DEF RowsOf
  <2> QED
    BY <2>1, PositionOfOthers
<1>4. PICK position : PositionOver(T, S) = position[n] /\ PositionAlong(row, n, position)
  BY <1>2, PositionOverIs
<1>5. \A i \in S : T[i].type = "sell" => (\E g \in G : g.of = i) /\ InPlace(T, G, i)
  OBVIOUS
<1>6. \A i \in S : RowsUntil(T, i) = RowsBefore(T, S, i)
  BY <1>1 DEF RowsUntil, RowsBefore
<1>7. Balances(T, G, x) <=>
        Plus(CurrentPosition(T, x, 0).cost, (CHOOSE g : SoldAfter(T, G, L, n, g))[n])
          = (CHOOSE g : PaidAfter(T, L, n, g))[n]
  BY Zenon DEF Balances
<1>8. \A k \in 1..n : basis[k] = BasisIn(T, G, L[k]) /\ paidIn[k] = PaidIn(T[L[k]])
  OBVIOUS
<1> HIDE DEF n, row, basis, paidIn
<1>9. \A k \in 1..n : PositionOver(T, RowsBefore(T, S, L[k])) = position[k - 1]
  BY <1>1, <1>2, <1>4, PositionBefore DEF row
<1> HIDE DEF S, L
<1>10. \A k \in 1..n : row[k].type = "sell" =>
         /\ position[k - 1].shares >= row[k].shares
         /\ basis[k] = Scaled(position[k - 1].cost, row[k].shares, position[k - 1].shares)
  <2> SUFFICES ASSUME NEW k \in 1..n, row[k].type = "sell"
               PROVE  /\ position[k - 1].shares >= row[k].shares
                      /\ basis[k] = Scaled(position[k - 1].cost, row[k].shares, position[k - 1].shares)
    OBVIOUS
  <2>1. PICK i \in S : i = L[k] /\ row[k] = T[i]
    BY <1>2
  <2>2. T[i].type = "sell" /\ (\E g \in G : g.of = i) /\ InPlace(T, G, i)
    BY <1>5, <2>1
  <2>3. PositionOver(T, RowsUntil(T, i)) = position[k - 1]
    BY <1>6, <1>9, <2>1
  <2>4. basis[k] = BasisIn(T, G, i)
    BY <1>8, <2>1
  <2> QED
    BY <2>1, <2>2, <2>3, <2>4, BasisOfBooked
<1>11. \A k \in 1..n : row[k].type # "sell" => basis[k] = Whole(0)
  BY <1>2, <1>8 DEF BasisIn
<1>12. \A k \in 1..n : paidIn[k] = PaidIn(row[k])
  BY <1>2, <1>8
<1>13. \E sold : SoldAfter(T, G, L, n, sold)
  <2>1. PICK sold : Sums(basis, n, sold)
    BY <1>2, SumsExist
  <2>2. [k \in 0..n |-> IF k = 0 THEN Whole(0) ELSE Plus(sold[k - 1], basis[k])]
          = [k \in 0..n |-> IF k = 0 THEN Whole(0) ELSE Plus(sold[k - 1], BasisIn(T, G, L[k]))]
    BY <1>2, <1>8
  <2> QED
    BY <2>1, <2>2 DEF Sums, SoldAfter
<1>14. \E paid : PaidAfter(T, L, n, paid)
  <2>1. PICK paid : Sums(paidIn, n, paid)
    BY <1>2, SumsExist
  <2>2. [k \in 0..n |-> IF k = 0 THEN Whole(0) ELSE Plus(paid[k - 1], paidIn[k])]
          = [k \in 0..n |-> IF k = 0 THEN Whole(0) ELSE Plus(paid[k - 1], PaidIn(T[L[k]]))]
    BY <1>2, <1>8
  <2> QED
    BY <2>1, <2>2 DEF Sums, PaidAfter
<1>15. PICK sold, paid : /\ sold = (CHOOSE g : SoldAfter(T, G, L, n, g)) /\ SoldAfter(T, G, L, n, sold)
                         /\ paid = (CHOOSE g : PaidAfter(T, L, n, g)) /\ PaidAfter(T, L, n, paid)
  BY <1>13, <1>14
<1>16. SumsAlong(basis, n, sold)
  <2>1. \A k \in 0..n : sold[k] = IF k = 0 THEN Whole(0) ELSE Plus(sold[k - 1], BasisIn(T, G, L[k]))
    BY <1>15 DEF SoldAfter
  <2>2. 0 \in 0..n /\ \A k \in 1..n : k \in 0..n /\ k # 0
    BY <1>2
  <2> QED
    BY <1>8, <2>1, <2>2 DEF SumsAlong
<1>17. SumsAlong(paidIn, n, paid)
  <2>1. \A k \in 0..n : paid[k] = IF k = 0 THEN Whole(0) ELSE Plus(paid[k - 1], PaidIn(T[L[k]]))
    BY <1>15 DEF PaidAfter
  <2>2. 0 \in 0..n /\ \A k \in 1..n : k \in 0..n /\ k # 0
    BY <1>2
  <2> QED
    BY <1>8, <2>1, <2>2 DEF SumsAlong
<1>18. Plus(position[n].cost, sold[n]) = paid[n]
  <2>1. n \in Nat /\ \A k \in 1..n : row[k] \in Transactions
    BY <1>2
  <2>2. PositionAlong(row, n, position)
    BY <1>4
  <2>3. \A k \in 1..n : row[k] \in Transactions /\ paidIn[k] = PaidIn(row[k])
    BY <1>12, <2>1
  <2> HIDE <1>1, <1>2, <1>3, <1>4, <1>5, <1>6, <1>7, <1>8, <1>9, <1>13, <1>14, <1>15
  <2> QED
    BY <1>10, <1>11, <1>12, <1>16, <1>17, <2>1, <2>2, BalanceAlong, SMTT(60)
<1> QED
  BY <1>3, <1>4, <1>7, <1>15, <1>18

(* So it is in the books.                                                  *)
LEMMA BalanceFollows == ASSUME BooksInv, BookedInPlace PROVE BooksBalance
<1>1. LedgerOK /\ RowsHaveGains
  BY GainsByRow DEF BooksInv
<1>2. PICK T, G : T = transaction /\ G = gains
  OBVIOUS
<1>3. IsLedger(T) /\ 0 \notin DOMAIN T
  <2>1. \A i \in DOMAIN T : i \in 1..MaxTxns /\ T[i] \in Transactions
    BY <1>1, <1>2 DEF LedgerOK
  <2>2. MaxTxns \in Nat
    BY BoundsAssumption
  <2> QED
    BY <2>1, <2>2, LedgersAreLedgers
<1>4. ASSUME NEW x \in DOMAIN pfs \ past.revised PROVE Balances(T, G, x)
  <2>1. ASSUME NEW i \in RowsOf(T, x), T[i].type = "sell"
        PROVE  (\E g \in G : g.of = i) /\ InPlace(T, G, i)
    <3>1. i \in SellsOf(T) /\ T[i].pf \notin past.revised /\ i \in DOMAIN T
      BY <1>4, <2>1 DEF RowsOf, SellsOf
    <3>2. i \notin past.unbooked /\ InPlace(T, G, i)
      BY <1>2, <3>1 DEF BookedInPlace
    <3> QED
      BY <1>1, <1>2, <2>1, <3>1, <3>2 DEF RowsHaveGains
  <2> QED
    BY <1>3, <2>1, BalanceOfLedger
<1> QED
  BY <1>2, <1>4, BalanceOfEach

(* Money is neither made nor lost in any reachable state of any ledger:    *)
(* what a portfolio_fund still costs and the bases of its sells add up to  *)
(* what was paid in and to the fees, as long as its sells were booked in   *)
(* the order of the calendar.                                              *)
THEOREM BooksAreBalanced == Spec => []BooksBalance
<1>1. BooksInv /\ BooksInv' /\ BookedInPlace /\ [Next]_vars => BookedInPlace'
  <2>1. ASSUME BookedInPlace, UNCHANGED vars PROVE BookedInPlace'
    BY <2>1 DEF BookedInPlace, vars
  <2> QED
    BY <2>1, BookedInPlaceStays
<1>2. BooksInv /\ BookedInPlace => BooksBalance
  BY BalanceFollows
<1> QED
  BY <1>1, <1>2, BookedInPlaceInit, BooksInvHolds, PTL DEF Spec

-----------------------------------------------------------------------------
(***************************************************************************)
(* The amounts, and the recursion that Total is on the parts of D.         *)
(***************************************************************************)
Amounts == [values |-> Fractions, zero |-> Whole(0), plus |-> [p \in Fractions \X Fractions |-> Plus(p[1], p[2])]]
AmountsAdded(f, D, g) ==
  g = [s \in SUBSET D |->
         IF s = {} THEN Whole(0) ELSE LET x == CHOOSE x \in s : TRUE IN Plus(f[x], g[s \ {x}])]

(* Amounts add up.                                                         *)
LEMMA AmountsAreSummable ==
  /\ Summable(Amounts) /\ Amounts.values = Fractions /\ Amounts.zero = Whole(0)
  /\ \A a, b \in Fractions : Amounts.plus[<<a, b>>] = Plus(a, b)
<1>1. /\ Amounts.values = Fractions /\ Amounts.zero = Whole(0)
      /\ \A a, b \in Fractions : Amounts.plus[<<a, b>>] = Plus(a, b)
  BY DEF Amounts
<1>2. /\ Whole(0) \in Fractions
      /\ \A a, b \in Fractions : Plus(a, b) \in Fractions /\ Plus(a, b) = Plus(b, a)
      /\ \A a \in Fractions : Plus(a, Whole(0)) = a
      /\ \A a, b, c \in Fractions : Plus(a, Plus(b, c)) = Plus(Plus(a, b), c)
  BY WholeIsFraction, PlusIsFraction, PlusCommutes, PlusAssociates
<1>3. ASSUME NEW a \in Fractions, NEW b \in Fractions, NEW c \in Fractions
      PROVE  Amounts.plus[<<a, Amounts.plus[<<b, c>>]>>] = Amounts.plus[<<Amounts.plus[<<a, b>>], c>>]
  <2>1. Amounts.plus[<<b, c>>] = Plus(b, c) /\ Amounts.plus[<<a, b>>] = Plus(a, b)
    BY <1>1
  <2>2. Plus(b, c) \in Fractions /\ Plus(a, b) \in Fractions
    BY <1>2
  <2>3. /\ Amounts.plus[<<a, Plus(b, c)>>] = Plus(a, Plus(b, c))
        /\ Amounts.plus[<<Plus(a, b), c>>] = Plus(Plus(a, b), c)
    BY <1>1, <2>2
  <2> QED
    BY <1>2, <2>1, <2>3
<1>4. ASSUME NEW a \in Fractions, NEW b \in Fractions
      PROVE  /\ Amounts.plus[<<a, b>>] \in Fractions /\ Amounts.plus[<<a, b>>] = Amounts.plus[<<b, a>>]
             /\ Amounts.plus[<<a, Whole(0)>>] = a
  <2>1. Amounts.plus[<<a, b>>] = Plus(a, b) /\ Amounts.plus[<<b, a>>] = Plus(b, a)
    BY <1>1
  <2>2. Amounts.plus[<<a, Whole(0)>>] = Plus(a, Whole(0))
    BY <1>1, <1>2
  <2> QED
    BY <1>2, <2>1, <2>2
<1>5. Summable(Amounts)
  BY <1>1, <1>2, <1>3, <1>4 DEF Summable
<1> QED
  BY <1>1, <1>5

(* Total is their sum.                                                     *)
LEMMA TotalIs ==
  ASSUME NEW f, IsFiniteSet(DOMAIN f), \A d \in DOMAIN f : f[d] \in Fractions
  PROVE  Total(f) = SumOver(Amounts, f, DOMAIN f)
<1> DEFINE D == DOMAIN f
           g == CHOOSE g : AmountsAdded(f, D, g)
           AnyOf(s) == CHOOSE x \in s : TRUE
           P == {s \in SUBSET D : g[s] = SumOver(Amounts, f, s)}
<1>1. Total(f) = g[D]
  BY Zenon DEF Total, FoldFunction, FoldFunctionOnSet, MapThenFoldSet, AmountsAdded
<1>2. ASSUME NEW s \in SUBSET D
      PROVE  /\ SumOver(Amounts, f, s) \in Fractions
             /\ SumOver(Amounts, f, {}) = Whole(0)
             /\ \A x \in s : /\ SumOver(Amounts, f, s \ {x}) \in Fractions
                             /\ SumOver(Amounts, f, s) = Plus(f[x], SumOver(Amounts, f, s \ {x}))
  <2>1. ASSUME NEW S \in SUBSET D
        PROVE  /\ SumOver(Amounts, f, S) \in Fractions
               /\ SumOver(Amounts, f, {}) = Whole(0)
               /\ \A x \in S : SumOver(Amounts, f, S) = Amounts.plus[<<f[x], SumOver(Amounts, f, S \ {x})>>]
    <3>1. IsFiniteSet(S) /\ \A d \in S : f[d] \in Amounts.values
      BY FS_Subset, AmountsAreSummable
    <3> QED
      BY <3>1, AmountsAreSummable, SumInAnyOrder
  <2>2. ASSUME NEW x \in s
        PROVE  /\ SumOver(Amounts, f, s \ {x}) \in Fractions
               /\ SumOver(Amounts, f, s) = Plus(f[x], SumOver(Amounts, f, s \ {x}))
    <3>1. SumOver(Amounts, f, s \ {x}) \in Fractions /\ f[x] \in Fractions
      BY <2>1
    <3>2. SumOver(Amounts, f, s) = Amounts.plus[<<f[x], SumOver(Amounts, f, s \ {x})>>]
      BY <2>1
    <3>3. PICK a, b : a = f[x] /\ b = SumOver(Amounts, f, s \ {x})
      OBVIOUS
    <3>4. Amounts.plus[<<a, b>>] = Plus(a, b)
      BY <3>1, <3>3, AmountsAreSummable
    <3> QED
      BY <3>1, <3>2, <3>3, <3>4
  <2> QED
    BY <2>1, <2>2
<1>3. \A s : s # {} => AnyOf(s) \in s
  OBVIOUS
<1>4. AmountsAdded(f, D, g)
  <2> DEFINE sum == [s \in SUBSET D |-> SumOver(Amounts, f, s)]
             next == [s \in SUBSET D |-> IF s = {} THEN Whole(0) ELSE Plus(f[AnyOf(s)], sum[s \ {AnyOf(s)}])]
  <2> HIDE DEF AnyOf
  <2>1. \A s \in SUBSET D : s # {} => s \ {AnyOf(s)} \in SUBSET D
    OBVIOUS
  <2>2. ASSUME NEW s \in SUBSET D PROVE sum[s] = next[s]
    <3>1. CASE s = {}
      BY <1>2, <3>1
    <3>2. CASE s # {}
      <4>1. sum[s] = SumOver(Amounts, f, s) /\ sum[s \ {AnyOf(s)}] = SumOver(Amounts, f, s \ {AnyOf(s)})
        BY <2>1, <3>2
      <4>2. next[s] = Plus(f[AnyOf(s)], sum[s \ {AnyOf(s)}])
        BY <3>2
      <4> QED
        BY <1>2, <1>3, <3>2, <4>1, <4>2
    <3> QED
      BY <3>1, <3>2
  <2>3. sum = next
    <3> HIDE DEF SumOver
    <3> QED
      BY <2>2
  <2>4. AmountsAdded(f, D, sum)
    BY <2>3, Zenon DEF AmountsAdded, AnyOf
  <2> HIDE DEF sum, next
  <2> QED
    BY <2>4, Zenon
<1> HIDE DEF g
<1>5. g[{}] = Whole(0) /\ \A s \in SUBSET D : s # {} => g[s] = Plus(f[AnyOf(s)], g[s \ {AnyOf(s)}])
  BY <1>4 DEF AmountsAdded
<1> HIDE DEF AnyOf
<1>6. ASSUME NEW s \in SUBSET D, \A x \in s : s \ {x} \in P PROVE s \in P
  <2>1. CASE s = {}
    BY <1>2, <1>5, <2>1
  <2>2. CASE s # {}
    <3>1. AnyOf(s) \in s
      BY <1>3, <2>2
    <3>2. g[s \ {AnyOf(s)}] = SumOver(Amounts, f, s \ {AnyOf(s)})
      BY <1>6, <3>1
    <3> QED
      BY <1>2, <1>5, <2>2, <3>1, <3>2
  <2> QED
    BY <2>1, <2>2
<1>7. \A s \in SUBSET D : s \in P
  <2> HIDE DEF P, D
  <2>1. IsFiniteSet(D)
    BY DEF D
  <2> QED
    BY <1>6, <2>1, PartsInduction
<1> QED
  BY <1>1, <1>7

(* What one row does to the figures of the overview.                       *)
LEMMA OneRowInMetrics ==
  ASSUME NEW t \in Transactions,
         NEW m, DOMAIN m = MetricsFields, m.shares \in Int, m.cost \in Fractions
  PROVE  LET q == AfterTransactionInMetrics(m, t)
         IN DOMAIN q = MetricsFields /\ q.shares \in Int /\ q.cost \in Fractions
<1>1. t.type \in {"buy", "sell", "dividend", "fee"} /\ t.shares \in Positive /\ t.price \in Nat
  BY DEF Transactions, TransactionTypes, Positive
<1>2. CASE t.type = "buy"
  <2>1. AfterTransactionInMetrics(m, t) = [m EXCEPT !.shares = @ + t.shares, !.cost = Plus(@, Amount(t))]
    BY <1>2 DEF AfterTransactionInMetrics, AfterTransaction
  <2>2. Amount(t) \in Fractions
    <3>1. PICK u : u = t.shares * t.price
      OBVIOUS
    <3>2. u \in Nat
      BY <1>1, <3>1 DEF Positive
    <3> QED
      BY <3>1, <3>2, WholeIsFraction DEF Amount
  <2>3. Plus(m.cost, Amount(t)) \in Fractions
    BY <2>2, PlusIsFraction
  <2> QED
    BY <1>1, <2>1, <2>3 DEF MetricsFields, Positive
<1>3. CASE t.type = "sell"
  <2>1. AfterTransactionInMetrics(m, t) = AfterSell(m, t)
    BY <1>3 DEF AfterTransactionInMetrics, AfterTransaction
  <2>2. PICK left : left = m.shares - t.shares
    OBVIOUS
  <2>3. AfterSell(m, t) = [m EXCEPT !.shares = left,
                                    !.cost = IF left > 0 THEN Scaled(@, left, left + t.shares) ELSE Whole(0)]
    BY <2>2 DEF AfterSell
  <2>4. PICK cost : cost = IF left > 0 THEN Scaled(m.cost, left, left + t.shares) ELSE Whole(0)
    OBVIOUS
  <2>5. cost \in Fractions
    <3>1. CASE left > 0
      <4>1. left \in Nat /\ left + t.shares \in Positive
        BY <1>1, <2>2, <3>1 DEF Positive
      <4> QED
        BY <2>4, <3>1, <4>1, Shares
    <3>2. CASE ~(left > 0)
      BY <2>4, <3>2, WholeIsFraction
    <3> QED
      BY <3>1, <3>2
  <2>6. LET q == AfterSell(m, t) IN DOMAIN q = MetricsFields /\ q.shares = left /\ q.cost = cost
    BY <2>3, <2>4 DEF MetricsFields
  <2>7. left \in Int
    BY <1>1, <2>2 DEF Positive
  <2> QED
    BY <2>1, <2>5, <2>6, <2>7
<1>4. CASE t.type = "dividend"
  BY <1>4 DEF AfterTransactionInMetrics, MetricsFields
<1>5. CASE t.type = "fee"
  <2>1. AfterTransactionInMetrics(m, t) = [m EXCEPT !.cost = Plus(@, Whole(t.price)), !.fees = @ + t.price]
    BY <1>5 DEF AfterTransactionInMetrics
  <2>2. Plus(m.cost, Whole(t.price)) \in Fractions
    BY <1>1, WholeIsFraction, PlusIsFraction
  <2> QED
    BY <2>1, <2>2 DEF MetricsFields
<1> QED
  BY <1>1, <1>2, <1>3, <1>4, <1>5

(* The figures of the overview are a number and an amount.                 *)
LEMMA MetricsCount ==
  ASSUME NEW T, IsLedger(T), NEW x, NEW day, NEW bought \in Int
  PROVE  LET m == FundMetrics(T, x, day, bought)
         IN m.shares \in Int /\ m.cost \in Fractions
<1> DEFINE S == UpTo(T, RowsOf(T, x), day)
           L == ByDate(T, S)
           n == Len(L)
<1>1. S \in SUBSET RowsOf(T, x)
  BY DEF UpTo
<1>2. S \in SUBSET Nat /\ IsFiniteSet(S) /\ \A i \in S : T[i].day \in Nat /\ T[i] \in Transactions
  <2> HIDE DEF S
  <2> QED
    BY <1>1, RowsOfLedgers
<1>3. n \in Nat /\ \A k \in 1..n : T[L[k]] \in Transactions
  <2> HIDE DEF S
  <2> QED
    BY <1>2, ByDateListsRows
<1>4. PICK f : /\ FundMetrics(T, x, day, bought) = f[n]
               /\ f[0] = FirstFigures(bought)
               /\ \A k \in 1..n : f[k] = AfterTransactionInMetrics(f[k - 1], T[L[k]])
  BY <1>3, FundMetricsIs
<1> HIDE DEF n, L
<1> DEFINE Fits(k) == DOMAIN f[k] = MetricsFields /\ f[k].shares \in Int /\ f[k].cost \in Fractions
           Bad == {k \in 0..n : ~Fits(k)}
<1>5. Fits(0)
  BY <1>4, WholeIsFraction DEF FirstFigures, MetricsFields
<1>6. ASSUME NEW k \in 1..n, Fits(k - 1) PROVE Fits(k)
  BY <1>3, <1>4, <1>6, OneRowInMetrics
<1>7. Bad = {}
  <2> HIDE DEF Fits
  <2> SUFFICES ASSUME Bad # {} PROVE FALSE
    OBVIOUS
  <2>1. PICK k \in Bad : \A l \in Bad : k <= l
    <3>1. Bad \in SUBSET Nat
      BY <1>3
    <3> HIDE DEF Bad
    <3> QED
      BY <3>1, LeastNatural
  <2>2. k # 0 /\ k \in 1..n /\ k - 1 \in 0..n /\ ~Fits(k)
    BY <1>3, <1>5, <2>1
  <2>3. Fits(k - 1)
    BY <2>1, <2>2
  <2> QED
    BY <1>6, <2>2, <2>3
<1>8. Fits(n)
  <2> HIDE DEF Fits
  <2> QED
    BY <1>3, <1>7
<1> QED
  BY <1>4, <1>8

(* Without rows they are the first ones.                                   *)
LEMMA MetricsWithoutRows ==
  ASSUME NEW T, NEW x, NEW day, NEW bought
  PROVE  UpTo(T, RowsOf(T, x), day) = {} => FundMetrics(T, x, day, bought) = FirstFigures(bought)
<1> DEFINE L == ByDate(T, UpTo(T, RowsOf(T, x), day))
<1>1. Len(L) \in Nat =>
        \E f : /\ FundMetrics(T, x, day, bought) = f[Len(L)]
              /\ f[0] = FirstFigures(bought)
              /\ \A k \in 1..Len(L) : f[k] = AfterTransactionInMetrics(f[k - 1], T[L[k]])
  BY FundMetricsIs
<1>2. ASSUME UpTo(T, RowsOf(T, x), day) = {} PROVE Len(L) = 0
  <2>1. Cardinality({}) = 0
    BY FS_EmptySet
  <2>2. L = <<>>
    BY <1>2, <2>1 DEF ByDate
  <2> QED
    BY <2>2
<1> HIDE DEF L
<1> QED
  BY <1>1, <1>2

-----------------------------------------------------------------------------
(* The gains. *)

(* They are finitely many, each of a day, with a number and an amount.     *)
IsGain(g) == g.day \in Days /\ g.proceeds \in Int /\ g.basis \in Fractions
GainsOK == IsFiniteSet(gains) /\ \A g \in gains : IsGain(g)

(* A sell is booked as one.                                                *)
LEMMA BookedGain ==
  ASSUME NEW T, IsLedger(T), NEW i \in DOMAIN T
  PROVE  IsFiniteSet(GainOf(T, i)) /\ \A g \in GainOf(T, i) : IsGain(g)
<1>1. PICK t, p : t = T[i] /\ p = CurrentPosition(T, T[i].pf, i)
  OBVIOUS
<1>2. t.day \in Days /\ t.shares \in Positive /\ t.price \in Nat
  BY <1>1 DEF IsLedger, Transactions, Positive
<1>3. p.shares \in Int /\ p.cost \in Fractions
  <2>1. RowsOf(T, T[i].pf) \ {i} \in SUBSET RowsOf(T, T[i].pf)
    OBVIOUS
  <2>2. p = PositionOver(T, RowsOf(T, T[i].pf) \ {i})
    BY <1>1, PositionOfOthers
  <2> QED
    BY <2>1, <2>2, PositionCounts
<1>4. PICK basis, proceeds : /\ basis = IF p.shares > 0 THEN Scaled(p.cost, t.shares, p.shares) ELSE Whole(0)
                             /\ proceeds = t.shares * t.price
  OBVIOUS
<1>5. basis \in Fractions
  <2>1. CASE p.shares > 0
    <3>1. p.shares \in Positive /\ t.shares \in Nat
      BY <1>2, <1>3, <2>1 DEF Positive
    <3> QED
      BY <1>3, <1>4, <2>1, <3>1, Shares
  <2>2. CASE ~(p.shares > 0)
    BY <1>4, <2>2, WholeIsFraction
  <2> QED
    BY <2>1, <2>2
<1>6. proceeds \in Int
  BY <1>2, <1>4 DEF Positive
<1>7. PICK g : g = Gain(T, i)
  OBVIOUS
<1>8. g.day = t.day /\ g.basis = basis /\ g.proceeds = proceeds
  BY <1>1, <1>4, <1>7 DEF Gain
<1>9. IsGain(g)
  BY <1>2, <1>5, <1>6, <1>8 DEF IsGain
<1>10. GainOf(T, i) = {g} \/ GainOf(T, i) = {}
  BY <1>7 DEF GainOf
<1>11. IsFiniteSet({g}) /\ IsFiniteSet({})
  BY FS_Singleton, FS_EmptySet
<1> QED
  BY <1>9, <1>10, <1>11

(* Nothing is sold at first, and what every step leaves and books is fine. *)
LEMMA GainsOKInit == Init => GainsOK
  BY FS_EmptySet DEF Init, GainsOK

LEMMA GainsOKStays ==
  ASSUME BooksInv, BooksInv', GainsOK, Next
  PROVE  GainsOK'
<1>1. RequestsOK /\ CatalogOK /\ LedgerOK /\ HistoryOK /\ PricesOK /\ LedgerOK'
  BY DEF BooksInv
<1>2. ASSUME gains' \subseteq gains PROVE GainsOK'
  BY <1>2, FS_Subset DEF GainsOK
<1>3. ASSUME NEW T, IsLedger(T), NEW i \in DOMAIN T, gains' \subseteq gains \cup GainOf(T, i) PROVE GainsOK'
  <2>1. PICK booked : booked = GainOf(T, i)
    OBVIOUS
  <2>2. IsFiniteSet(booked) /\ \A g \in booked : IsGain(g)
    BY <1>3, <2>1, BookedGain
  <2>3. IsFiniteSet(gains \cup booked)
    BY <2>2, FS_Union DEF GainsOK
  <2>4. IsFiniteSet(gains')
    BY <1>3, <2>1, <2>3, FS_Subset
  <2>5. \A g \in gains' : IsGain(g)
    BY <1>3, <2>1, <2>2 DEF GainsOK
  <2> QED
    BY <2>4, <2>5 DEF GainsOK
<1>4. PICK T2 : T2 = transaction'
  OBVIOUS
<1>5. IsLedger(T2)
  <2>1. \A j \in DOMAIN T2 : j \in 1..MaxTxns /\ T2[j] \in Transactions
    BY <1>1, <1>4 DEF LedgerOK
  <2> QED
    BY <2>1, LedgersAreLedgers
<1>6. CASE TransactionRequest
  <2>1. CASE \E t \in Asked.transactions : CreateTransaction(t)
    <3>1. PICK t \in Asked.transactions : CreateTransaction(t)
      BY <2>1
    <3>2. PICK i : /\ transaction' = With(transaction, i, t)
                   /\ gains' = gains \cup GainOf(With(transaction, i, t), i)
      BY <1>1, <3>1, CreatedRow
    <3>3. i \in DOMAIN T2 /\ gains' \subseteq gains \cup GainOf(T2, i)
      BY <1>4, <3>2 DEF With
    <3> QED
      BY <1>3, <1>5, <3>3
  <2>2. CASE \E i \in DOMAIN transaction, c \in Asked.changes : UpdateTransaction(i, c)
    <3>1. PICK i \in DOMAIN transaction, c \in Asked.changes : UpdateTransaction(i, c)
      BY <2>2
    <3>2. PICK t : /\ transaction' = [transaction EXCEPT ![i] = t]
                   /\ gains' = GainOf(transaction', i) \cup
                               (IF transaction[i].type = "sell" THEN GainsWithout(i) ELSE gains)
      BY <1>1, <3>1, UpdatedRow
    <3>3. i \in DOMAIN T2 /\ gains' \subseteq gains \cup GainOf(T2, i)
      BY <1>4, <3>2 DEF GainsWithout
    <3> QED
      BY <1>3, <1>5, <3>3
  <2>3. CASE \E i \in DOMAIN transaction : DeleteTransaction(i)
    BY <1>1, <1>2, <2>3, DeletedRow DEF DropsRows
  <2>4. CASE \E rows \in Asked.imports, x \in DOMAIN pfs : ImportTransactions(x, rows)
    <3>1. gains' = gains
      BY <1>1, <2>4, ImportedRows
    <3> QED
      BY <1>2, <3>1
  <2> QED
    BY <1>6, <2>1, <2>2, <2>3, <2>4 DEF TransactionRequest
<1>7. CASE \E c \in Clients : \E d, link : WritesRow(c, d, link)
  BY <1>2, <1>7 DEF WritesRow
<1>8. CASE DropsSome
  BY <1>2, <1>8 DEF DropsSome, DropsRows
<1>9. CASE \E c \in Clients : Continued(c) /\ KeepsHistory
  BY <1>2, <1>9 DEF Continued
<1>10. CASE TablesKept \/ ChangesCatalog
  BY <1>2, <1>10 DEF TablesKept, ChangesCatalog
<1>11. CASE EntersPrices
  BY <1>2, <1>11 DEF EntersPrices, Enters
<1> QED
  BY <1>6, <1>7, <1>8, <1>9, <1>10, <1>11, KindsOfSteps

-----------------------------------------------------------------------------
(* The values of a report. *)

(* Sums of some of the values, when the others are zero.                   *)
LEMMA SumOfSome ==
  ASSUME NEW X, IsFiniteSet(X), NEW v, \A x \in X : v[x] \in Int,
         NEW K \in SUBSET X, \A x \in X \ K : v[x] = 0,
         NEW h, DOMAIN h = K, \A x \in K : h[x] = v[x]
  PROVE  SumFunction(h) = SumOver(Numbers, v, X) /\ SumFunction(h) \in Int
<1>1. IsFiniteSet(K)
  BY FS_Subset
<1>2. \A x \in DOMAIN h : h[x] \in Int
  OBVIOUS
<1>3. SumFunction(h) = SumOver(Numbers, h, DOMAIN h)
  BY <1>1, <1>2, SumFunctionIs
<1>4. PICK s : s = SumOver(Numbers, h, K)
  OBVIOUS
<1>5. SumFunction(h) = s
  BY <1>3, <1>4
<1>6. /\ Summable(Numbers)
      /\ \A x \in X : v[x] \in Numbers.values
      /\ \A x \in X \ K : v[x] = Numbers.zero
      /\ \A x \in K : v[x] \in Numbers.values /\ h[x] = v[x] /\ h[x] \in Numbers.values
  BY NumbersAreSummable
<1>7. SumOver(Numbers, h, K) = SumOver(Numbers, v, K)
  BY <1>1, <1>6, SameSums
<1>8. SumOver(Numbers, v, X) = SumOver(Numbers, v, K)
  BY <1>6, SumWithoutZeros
<1>9. SumOver(Numbers, v, X) \in Int
  BY <1>6, SumInAnyOrder, NumbersAreSummable
<1> QED
  BY <1>4, <1>5, <1>7, <1>8, <1>9

LEMMA TotalOfSome ==
  ASSUME NEW X, IsFiniteSet(X), NEW v, \A x \in X : v[x] \in Fractions,
         NEW K \in SUBSET X, \A x \in X \ K : v[x] = Whole(0),
         NEW h, DOMAIN h = K, \A x \in K : h[x] = v[x]
  PROVE  Total(h) = SumOver(Amounts, v, X) /\ Total(h) \in Fractions
<1>1. IsFiniteSet(K)
  BY FS_Subset
<1>2. \A x \in DOMAIN h : h[x] \in Fractions
  OBVIOUS
<1>3. Total(h) = SumOver(Amounts, h, DOMAIN h)
  BY <1>1, <1>2, TotalIs
<1>4. PICK s : s = SumOver(Amounts, h, K)
  OBVIOUS
<1>5. Total(h) = s
  BY <1>3, <1>4
<1>6. /\ Summable(Amounts)
      /\ \A x \in X : v[x] \in Amounts.values
      /\ \A x \in X \ K : v[x] = Amounts.zero
      /\ \A x \in K : v[x] \in Amounts.values /\ h[x] = v[x] /\ h[x] \in Amounts.values
  BY AmountsAreSummable
<1>7. SumOver(Amounts, h, K) = SumOver(Amounts, v, K)
  BY <1>1, <1>6, SameSums
<1>8. SumOver(Amounts, v, X) = SumOver(Amounts, v, K)
  BY <1>6, SumWithoutZeros
<1>9. SumOver(Amounts, v, X) \in Fractions
  BY <1>6, SumInAnyOrder, AmountsAreSummable
<1> QED
  BY <1>4, <1>5, <1>7, <1>8, <1>9

(* What is loaded is of the tables.                                        *)
LEMMA LoadedTables ==
  ASSUME NEW ps
  PROVE  LET data == Loaded(ps, LastDay)
             from == OldestTransaction(ps)
         IN /\ data.end = LastDay
            /\ data.dividends = {d \in DOMAIN dividend : /\ dividend[d].pf \in PfsOfAll(ps)
                                                        /\ from <= dividend[d].ex /\ dividend[d].ex < LastDay}
            /\ \A f \in Funds : data.prices[f] = {d \in DOMAIN price[f] : from <= d /\ d <= LastDay}
            /\ data.gains = {g \in gains : g.portfolio \in ps /\ from <= g.day /\ g.day <= LastDay}
  BY DEF Loaded

(* The dividends of a portfolio_fund are finitely many, with numbers.      *)
LEMMA DividendsUpToDay ==
  ASSUME BooksInv, NEW ps, NEW x, NEW day
  PROVE  LET D == DividendsUpTo(Loaded(ps, LastDay), x, day)
         IN /\ IsFiniteSet(D) /\ D \in SUBSET DOMAIN dividend
            /\ \A d \in D : dividend[d].pf = x /\ dividend[d].total \in Int
<1> DEFINE D == DividendsUpTo(Loaded(ps, LastDay), x, day)
<1>1. D \in SUBSET DOMAIN dividend /\ \A d \in D : dividend[d].pf = x
  BY LoadedTables DEF DividendsUpTo
<1>2. \A d \in DOMAIN dividend : d \in 1..MaxDividends /\ dividend[d].total \in Int
  BY DEF BooksInv, LedgerOK, IsRow
<1>3. IsFiniteSet(1..MaxDividends)
  BY BoundsAssumption, FS_Interval
<1>4. \A d \in D : dividend[d].total \in Int
  BY <1>1, <1>2
<1>5. IsFiniteSet(D)
  <2> HIDE DEF D
  <2>1. D \in SUBSET (1..MaxDividends)
    BY <1>1, <1>2
  <2> QED
    BY <1>3, <2>1, FS_Subset
<1> QED
  BY <1>1, <1>4, <1>5

LEMMA AmountsAreNumbers ==
  ASSUME BooksInv, NEW ps, NEW x, NEW day
  PROVE  /\ DividendAmountForDate(Loaded(ps, LastDay), x, day) \in Int
         /\ \A rows \in SUBSET DOMAIN transaction :
              DividendSharesForDate(Loaded(ps, LastDay), x, rows, day) \in Int
<1>1. PICK D : D = DividendsUpTo(Loaded(ps, LastDay), x, day)
  OBVIOUS
<1>2. IsFiniteSet(D) /\ \A d \in D : dividend[d].total \in Int
  BY <1>1, DividendsUpToDay
<1>3. DividendAmountForDate(Loaded(ps, LastDay), x, day) \in Int
  <2>1. PICK h : h = [d \in D |-> dividend[d].total]
    OBVIOUS
  <2>2. DividendAmountForDate(Loaded(ps, LastDay), x, day) = SumFunction(h)
    BY <1>1, <2>1, Zenon DEF DividendAmountForDate
  <2>3. SumFunction(h) \in Int
    BY <1>2, <2>1, SumOfSome
  <2> QED
    BY <2>2, <2>3
<1>4. ASSUME NEW rows \in SUBSET DOMAIN transaction
      PROVE  DividendSharesForDate(Loaded(ps, LastDay), x, rows, day) \in Int
  <2>1. PICK C : C = {d \in D : dividend[d].link \in UpTo(transaction, rows, Loaded(ps, LastDay).end)}
    OBVIOUS
  <2>2. PICK h : h = [d \in C |-> transaction[dividend[d].link].shares]
    OBVIOUS
  <2>3. DividendSharesForDate(Loaded(ps, LastDay), x, rows, day) = SumFunction(h)
    BY <1>1, <2>1, <2>2, Zenon DEF DividendSharesForDate
  <2>4. \A d \in C : dividend[d].link \in DOMAIN transaction
    BY <2>1 DEF UpTo
  <2>5. \A i \in DOMAIN transaction : transaction[i].shares \in Int
    BY DEF BooksInv, LedgerOK, Transactions
  <2>6. IsFiniteSet(C)
    BY <1>2, <2>1, FS_Subset
  <2>7. SumFunction(h) \in Int
    BY <2>2, <2>4, <2>5, <2>6, SumOfSome
  <2> QED
    BY <2>3, <2>7
<1> QED
  BY <1>3, <1>4

(* A price is that of the greatest of the days.                            *)
LEMMA PriceIsOfLastDay ==
  ASSUME BooksInv, NEW f \in Funds, NEW days \in SUBSET DOMAIN price[f]
  PROVE  /\ days = {} => PriceOn(f, days) = 0
         /\ \A d \in days : (\A e \in days : e <= d) => PriceOn(f, days) = price[f][d]
         /\ days # {} => \E d \in days : \A e \in days : e <= d
         /\ PriceOn(f, days) \in Nat
<1>1. DOMAIN price[f] \subseteq Days /\ \A d \in DOMAIN price[f] : price[f][d] \in Nat
  BY DEF BooksInv, PricesOK, Positive
<1>2. days \in SUBSET (1..LastDay) /\ LastDay \in Nat
  BY <1>1, BoundsAssumption DEF Days
<1>3. days = {} => PriceOn(f, days) = 0
  BY DEF PriceOn
<1>4. days # {} => \E d \in days : \A e \in days : e <= d
  BY <1>2, GreatestPlace
<1>5. ASSUME NEW d \in days, \A e \in days : e <= d PROVE PriceOn(f, days) = price[f][d]
  <2>1. PICK last : last = CHOOSE k \in days : \A e \in days : e <= k
    OBVIOUS
  <2>2. last \in days /\ \A e \in days : e <= last
    BY <1>5, <2>1
  <2>3. last = d
    BY <1>2, <1>5, <2>2
  <2>4. PriceOn(f, days) = price[f][last]
    BY <1>5, <2>1 DEF PriceOn
  <2> QED
    BY <2>3, <2>4
<1>6. PriceOn(f, days) \in Nat
  <2>1. CASE days = {}
    BY <1>3, <2>1
  <2>2. CASE days # {}
    <3>1. PICK d \in days : \A e \in days : e <= d
      BY <1>4, <2>2
    <3>2. PriceOn(f, days) = price[f][d]
      BY <1>5, <3>1
    <3> QED
      BY <1>1, <3>2
  <2> QED
    BY <2>1, <2>2
<1> QED
  BY <1>3, <1>4, <1>5, <1>6

(* A fund of a portfolio is a fund.                                        *)
LEMMA HoldingsAreFinite ==
  ASSUME BooksInv, NEW p
  PROVE  /\ IsFiniteSet(PfsOf(p))
         /\ \A x \in PfsOf(p) : /\ x \in DOMAIN pfs /\ pfs[x].fund \in Funds /\ pfs[x].portfolio = p
                               /\ \A y \in PfsOf(p) : x # y => pfs[x].fund # pfs[y].fund
<1>1. \A x \in DOMAIN pfs : /\ x \in 1..MaxPfs /\ pfs[x] \in [portfolio : Portfolios, fund : Funds]
                           /\ \A y \in DOMAIN pfs \ {x} : pfs[y] # pfs[x]
  BY DEF BooksInv, CatalogOK
<1>2. PfsOf(p) \in SUBSET DOMAIN pfs /\ \A x \in PfsOf(p) : pfs[x].portfolio = p
  BY DEF PfsOf
<1>3. IsFiniteSet(1..MaxPfs)
  BY BoundsAssumption, FS_Interval
<1>4. IsFiniteSet(PfsOf(p))
  <2>1. PfsOf(p) \in SUBSET (1..MaxPfs)
    BY <1>1, <1>2
  <2> QED
    BY <1>3, <2>1, FS_Subset
<1>5. ASSUME NEW x \in PfsOf(p), NEW y \in PfsOf(p), x # y PROVE pfs[x].fund # pfs[y].fund
  <2>1. PICK a, b : a = pfs[x] /\ b = pfs[y]
    OBVIOUS
  <2>2. a \in [portfolio : Portfolios, fund : Funds] /\ b \in [portfolio : Portfolios, fund : Funds] /\ a # b
    BY <1>1, <1>2, <1>5, <2>1
  <2>3. a.portfolio = b.portfolio
    BY <1>2, <2>1
  <2> QED
    BY <2>1, <2>2, <2>3
<1> QED
  BY <1>1, <1>2, <1>4, <1>5

(***************************************************************************)
(* The parts of the reports: the rows of a portfolio, its portfolio_funds  *)
(* that have any, the figures of one of them, and its gains.               *)
(***************************************************************************)
RowsOfAll(p) == UNION {RowsOf(transaction, x) : x \in PfsOf(p)}
Traded(p) == {x \in PfsOf(p) : UpTo(transaction, RowsOf(transaction, x), LastDay) # {}}
MetricsOf(ps, rows, x, day) ==
  FundMetrics(transaction, x, day, DividendSharesForDate(Loaded(ps, LastDay), x, rows, day))
GainsOfFund(p, x, day) == GainsUpTo(MapRealizedGainsByPF(Loaded({p}, LastDay), x), day)
GainsOfAll(ps, p, day) == GainsUpTo({g \in Loaded(ps, LastDay).gains : g.portfolio = p}, day)
PriceOf(ps, x, day) == PriceForDate(Loaded(ps, LastDay), pfs[x].fund, day)

LEMMA EntryIs ==
  ASSUME NEW p, NEW x, NEW day
  PROVE  LET m == MetricsOf({p}, RowsOf(transaction, x), x, day)
             entry == FundEntry(Loaded({p}, LastDay), x, day)
         IN /\ entry.shares = m.shares /\ entry.cost = m.cost /\ entry.fees = m.fees
            /\ entry.value = m.shares * PriceOf({p}, x, day)
            /\ entry.dividends = DividendAmountForDate(Loaded({p}, LastDay), x, day)
            /\ entry.proceeds = ProceedsOf(GainsOfFund(p, x, day))
            /\ entry.basis = BasisOf(GainsOfFund(p, x, day))
  BY DEF FundEntry, MetricsOf, PriceOf, GainsOfFund

Report(value, cost, dividends, proceeds, basis) ==
  [value |-> value, cost |-> cost, dividends |-> dividends, proceeds |-> proceeds, basis |-> basis]

LEMMA SummaryIs ==
  ASSUME NEW ps, NEW p, NEW day, NEW total
  PROVE  LET m(x) == MetricsOf(ps, RowsOfAll(p), x, day)
         IN PortfolioSummary(ps, p, day, total) =
              Report(NotNegative(SumFunction([x \in Traded(p) |-> m(x).shares * PriceOf(ps, x, day)])),
                     Total([x \in Traded(p) |-> m(x).cost]), total,
                     ProceedsOf(GainsOfAll(ps, p, day)), BasisOf(GainsOfAll(ps, p, day)))
<1> DEFINE m == [x \in Traded(p) |-> MetricsOf(ps, RowsOfAll(p), x, day)]
<1>1. PortfolioSummary(ps, p, day, total) =
        Report(NotNegative(SumFunction([x \in Traded(p) |-> m[x].shares * PriceOf(ps, x, day)])),
               Total([x \in Traded(p) |-> m[x].cost]), total,
               ProceedsOf(GainsOfAll(ps, p, day)), BasisOf(GainsOfAll(ps, p, day)))
  BY Zenon DEF PortfolioSummary, Report, Traded, MetricsOf, RowsOfAll, PriceOf, GainsOfAll
<1>2. \A x \in Traded(p) : m[x] = MetricsOf(ps, RowsOfAll(p), x, day)
  OBVIOUS
<1> HIDE DEF m
<1>3. [x \in Traded(p) |-> m[x].shares * PriceOf(ps, x, day)] =
        [x \in Traded(p) |-> MetricsOf(ps, RowsOfAll(p), x, day).shares * PriceOf(ps, x, day)]
  BY <1>2
<1>4. [x \in Traded(p) |-> m[x].cost] = [x \in Traded(p) |-> MetricsOf(ps, RowsOfAll(p), x, day).cost]
  BY <1>2
<1> QED
  BY <1>1, <1>3, <1>4, Zenon

(* A reinvestment is counted for its portfolio_fund, whichever rows of the *)
(* portfolio are at hand.                                                  *)
LEMMA SameReinvestments ==
  ASSUME BooksInv, NEW ps, NEW p, ~MovesReinvestments(p), NEW x \in PfsOf(p), NEW day
  PROVE  MetricsOf(ps, RowsOfAll(p), x, day) = MetricsOf(ps, RowsOf(transaction, x), x, day)
<1>1. PICK data : data = Loaded(ps, LastDay)
  OBVIOUS
<1>2. PICK D : D = DividendsUpTo(data, x, day)
  OBVIOUS
<1>3. D \in SUBSET DOMAIN dividend /\ \A d \in D : dividend[d].pf = x
  BY <1>1, <1>2, DividendsUpToDay
<1>4. PICK own, all : own = RowsOf(transaction, x) /\ all = RowsOfAll(p)
  OBVIOUS
<1>5. \A i \in all : i \in DOMAIN transaction /\ i # 0
  <2>1. \A i \in DOMAIN transaction : i \in 1..MaxTxns
    BY DEF BooksInv, LedgerOK
  <2> QED
    BY <1>4, <2>1, BoundsAssumption DEF RowsOfAll, RowsOf
<1>6. \A d \in D : dividend[d].link \in all => transaction[dividend[d].link].pf = x
  BY <1>3, <1>5 DEF MovesReinvestments
<1>7. own \subseteq all /\ \A i \in all : transaction[i].pf = x => i \in own
  BY <1>4, <1>5 DEF RowsOfAll, RowsOf
<1>8. \A d \in D : dividend[d].link \in UpTo(transaction, all, data.end)
                    <=> dividend[d].link \in UpTo(transaction, own, data.end)
  BY <1>6, <1>7 DEF UpTo
<1>9. {d \in D : dividend[d].link \in UpTo(transaction, all, data.end)}
        = {d \in D : dividend[d].link \in UpTo(transaction, own, data.end)}
  BY <1>8
<1>10. DividendSharesForDate(data, x, all, day) = DividendSharesForDate(data, x, own, day)
  BY <1>2, <1>9, Zenon DEF DividendSharesForDate
<1> QED
  BY <1>1, <1>4, <1>10, Zenon DEF MetricsOf

(* The figures of a portfolio_fund are a number and an amount, and nothing *)
(* before its first transaction.                                           *)
LEMMA FiguresOf ==
  ASSUME BooksInv, NEW p, NEW x \in PfsOf(p), NEW day \in Days
  PROVE  LET m == MetricsOf({p}, RowsOf(transaction, x), x, day)
         IN /\ m.shares \in Int /\ m.cost \in Fractions
            /\ x \notin Traded(p) => m.shares = 0 /\ m.cost = Whole(0)
<1>1. PICK data, own : data = Loaded({p}, LastDay) /\ own = RowsOf(transaction, x)
  OBVIOUS
<1>2. PICK bought : bought = DividendSharesForDate(data, x, own, day)
  OBVIOUS
<1>3. MetricsOf({p}, own, x, day) = FundMetrics(transaction, x, day, bought)
  BY <1>1, <1>2, Zenon DEF MetricsOf
<1>4. own \in SUBSET DOMAIN transaction
  BY <1>1 DEF RowsOf
<1>5. bought \in Int
  BY <1>1, <1>2, <1>4, AmountsAreNumbers
<1>6. IsLedger(transaction)
  <2>1. \A i \in DOMAIN transaction : i \in 1..MaxTxns /\ transaction[i] \in Transactions
    BY DEF BooksInv, LedgerOK
  <2> QED
    BY <2>1, LedgersAreLedgers
<1>7. /\ FundMetrics(transaction, x, day, bought).shares \in Int
      /\ FundMetrics(transaction, x, day, bought).cost \in Fractions
  BY <1>5, <1>6, MetricsCount
<1>8. ASSUME x \notin Traded(p)
      PROVE  FundMetrics(transaction, x, day, bought) = FirstFigures(0)
  <2>1. UpTo(transaction, own, LastDay) = {}
    BY <1>1, <1>8 DEF Traded
  <2>2. own = {}
    BY <1>1, <2>1, RowsAreListed
  <2>3. UpTo(transaction, RowsOf(transaction, x), day) = {}
    BY <1>1, <2>2 DEF UpTo
  <2>4. bought = 0
    <3>1. PICK D : D = DividendsUpTo(data, x, day)
      OBVIOUS
    <3>2. PICK C : C = {d \in D : dividend[d].link \in UpTo(transaction, own, data.end)}
      OBVIOUS
    <3>3. C = {}
      BY <2>2, <3>2 DEF UpTo
    <3>4. PICK h : h = [d \in C |-> transaction[dividend[d].link].shares]
      OBVIOUS
    <3>5. bought = SumFunction(h)
      BY <1>2, <3>1, <3>2, <3>4, Zenon DEF DividendSharesForDate
    <3>6. DOMAIN h = {} /\ IsFiniteSet({})
      BY <3>3, <3>4, FS_EmptySet
    <3>7. SumFunction(h) = SumOver(Numbers, h, {})
      BY <3>6, SumFunctionIs
    <3>8. SumOver(Numbers, h, {}) = 0
      BY <3>6, NumbersAreSummable, SumInAnyOrder
    <3> QED
      BY <3>5, <3>7, <3>8
  <2> QED
    BY <2>3, <2>4, MetricsWithoutRows
<1>9. FirstFigures(0).shares = 0 /\ FirstFigures(0).cost = Whole(0)
  BY DEF FirstFigures
<1> QED
  BY <1>1, <1>3, <1>7, <1>8, <1>9

(* The gains of a portfolio are those of its funds, each of one.           *)
LEMMA GainsByFund ==
  ASSUME BooksInv, GainsOK, NEW p, ~LeavesGains(p), NEW day
  PROVE  LET R == GainsOfAll({p}, p, day)
             X == PfsOf(p)
         IN /\ IsFiniteSet(R) /\ \A g \in R : g.proceeds \in Int /\ g.basis \in Fractions
            /\ \A x \in X : GainsOfFund(p, x, day) \in SUBSET R
            /\ \A g \in R : \E x \in X : g \in GainsOfFund(p, x, day)
            /\ \A x, y \in X : x # y => GainsOfFund(p, x, day) \cap GainsOfFund(p, y, day) = {}
<1> DEFINE R == GainsOfAll({p}, p, day)
           X == PfsOf(p)
<1>1. PICK G : G = Loaded({p}, LastDay).gains
  OBVIOUS
<1>2. G \in SUBSET gains /\ \A g \in G : g.portfolio = p
  BY <1>1 DEF Loaded
<1>3. R = {g \in G : g.portfolio = p /\ g.day <= day}
  BY <1>1 DEF GainsOfAll, GainsUpTo
<1>4. \A x : GainsOfFund(p, x, day) = {g \in G : g.fund = pfs[x].fund /\ g.day <= day}
  BY <1>1 DEF GainsOfFund, GainsUpTo, MapRealizedGainsByPF
<1> HIDE DEF R
<1>5. IsFiniteSet(R) /\ \A g \in R : g.proceeds \in Int /\ g.basis \in Fractions
  <2>1. R \in SUBSET gains
    BY <1>2, <1>3
  <2>2. IsFiniteSet(R)
    BY <2>1, FS_Subset DEF GainsOK
  <2> QED
    BY <2>1, <2>2 DEF GainsOK, IsGain
<1>6. \A x \in X : GainsOfFund(p, x, day) \in SUBSET R
  BY <1>2, <1>3, <1>4
<1>7. \A g \in R : \E x \in X : g \in GainsOfFund(p, x, day)
  <2> SUFFICES ASSUME NEW g \in R PROVE \E x \in X : g \in GainsOfFund(p, x, day)
    OBVIOUS
  <2>1. g \in gains /\ g \in G /\ g.portfolio = p /\ g.day <= day
    BY <1>2, <1>3
  <2>2. PICK x \in X : pfs[x].fund = g.fund
    BY <2>1 DEF LeavesGains
  <2> QED
    BY <1>4, <2>1, <2>2
<1>8. \A x, y \in X : x # y => GainsOfFund(p, x, day) \cap GainsOfFund(p, y, day) = {}
  BY <1>4, HoldingsAreFinite
<1> QED
  BY <1>5, <1>6, <1>7, <1>8 DEF R

(* So their proceeds add up.                                               *)
LEMMA ProceedsAddUp ==
  ASSUME BooksInv, GainsOK, NEW p, ~LeavesGains(p), NEW day,
         NEW K \in SUBSET PfsOf(p), \A x \in PfsOf(p) \ K : ProceedsOf(GainsOfFund(p, x, day)) = 0,
         NEW h, DOMAIN h = K, \A x \in K : h[x] = ProceedsOf(GainsOfFund(p, x, day))
  PROVE  SumFunction(h) = ProceedsOf(GainsOfAll({p}, p, day))
<1>1. PICK R, X, part : /\ R = GainsOfAll({p}, p, day) /\ X = PfsOf(p)
                        /\ part = [x \in X |-> GainsOfFund(p, x, day)]
  OBVIOUS
<1>2. /\ IsFiniteSet(R) /\ \A g \in R : g.proceeds \in Int
      /\ \A x \in X : part[x] \in SUBSET R
      /\ \A g \in R : \E x \in X : g \in part[x]
      /\ \A x, y \in X : x # y => part[x] \cap part[y] = {}
  BY <1>1, GainsByFund
<1>3. IsFiniteSet(X)
  BY <1>1, HoldingsAreFinite
<1>4. PICK f, v : f = [g \in R |-> g.proceeds] /\ v = [x \in X |-> ProceedsOf(part[x])]
  OBVIOUS
<1>5. \A g \in R : f[g] \in Int
  BY <1>2, <1>4
<1>6. ASSUME NEW S \in SUBSET R PROVE ProceedsOf(S) = SumOver(Numbers, f, S) /\ ProceedsOf(S) \in Int
  <2>1. PICK k : k = [g \in S |-> g.proceeds]
    OBVIOUS
  <2>2. ProceedsOf(S) = SumFunction(k)
    BY <2>1, Zenon DEF ProceedsOf
  <2>3. DOMAIN k = S /\ \A g \in S : k[g] = f[g] /\ f[g] \in Int
    BY <1>4, <1>5, <2>1
  <2>4. IsFiniteSet(S) /\ S \in SUBSET S /\ \A g \in S \ S : f[g] = 0
    BY <1>2, FS_Subset
  <2>5. SumFunction(k) = SumOver(Numbers, f, S) /\ SumFunction(k) \in Int
    BY <2>3, <2>4, SumOfSome
  <2> QED
    BY <2>2, <2>5
<1>7. \A x \in X : v[x] = SumOver(Numbers, f, part[x]) /\ v[x] \in Int
  BY <1>2, <1>4, <1>6
<1>8. SumOver(Numbers, v, X) = SumOver(Numbers, f, R)
  <2>1. Summable(Numbers) /\ \A g \in R : f[g] \in Numbers.values
    BY <1>5, NumbersAreSummable
  <2> QED
    BY <1>2, <1>3, <1>7, <2>1, SumByParts
<1>9. SumFunction(h) = SumOver(Numbers, v, X)
  <2>1. /\ K \in SUBSET X /\ \A x \in X \ K : v[x] = 0
        /\ \A x \in K : h[x] = v[x]
    BY <1>1, <1>4
  <2> QED
    BY <1>3, <1>7, <2>1, SumOfSome
<1>10. ProceedsOf(R) = SumOver(Numbers, f, R)
  BY <1>6
<1> QED
  BY <1>1, <1>8, <1>9, <1>10

(* And their bases.                                                        *)
LEMMA BasesAddUp ==
  ASSUME BooksInv, GainsOK, NEW p, ~LeavesGains(p), NEW day,
         NEW K \in SUBSET PfsOf(p), \A x \in PfsOf(p) \ K : BasisOf(GainsOfFund(p, x, day)) = Whole(0),
         NEW h, DOMAIN h = K, \A x \in K : h[x] = BasisOf(GainsOfFund(p, x, day))
  PROVE  Total(h) = BasisOf(GainsOfAll({p}, p, day))
<1>1. PICK R, X, part : /\ R = GainsOfAll({p}, p, day) /\ X = PfsOf(p)
                        /\ part = [x \in X |-> GainsOfFund(p, x, day)]
  OBVIOUS
<1>2. /\ IsFiniteSet(R) /\ \A g \in R : g.basis \in Fractions
      /\ \A x \in X : part[x] \in SUBSET R
      /\ \A g \in R : \E x \in X : g \in part[x]
      /\ \A x, y \in X : x # y => part[x] \cap part[y] = {}
  BY <1>1, GainsByFund
<1>3. IsFiniteSet(X)
  BY <1>1, HoldingsAreFinite
<1>4. PICK f, v : f = [g \in R |-> g.basis] /\ v = [x \in X |-> BasisOf(part[x])]
  OBVIOUS
<1>5. \A g \in R : f[g] \in Fractions
  BY <1>2, <1>4
<1>6. ASSUME NEW S \in SUBSET R PROVE BasisOf(S) = SumOver(Amounts, f, S) /\ BasisOf(S) \in Fractions
  <2>1. PICK k : k = [g \in S |-> g.basis]
    OBVIOUS
  <2>2. BasisOf(S) = Total(k)
    BY <2>1, Zenon DEF BasisOf
  <2>3. DOMAIN k = S /\ \A g \in S : k[g] = f[g] /\ f[g] \in Fractions
    BY <1>4, <1>5, <2>1
  <2>4. IsFiniteSet(S) /\ S \in SUBSET S /\ \A g \in S \ S : f[g] = Whole(0)
    BY <1>2, FS_Subset
  <2>5. Total(k) = SumOver(Amounts, f, S) /\ Total(k) \in Fractions
    BY <2>3, <2>4, TotalOfSome
  <2> QED
    BY <2>2, <2>5
<1>7. \A x \in X : v[x] = SumOver(Amounts, f, part[x]) /\ v[x] \in Fractions
  BY <1>2, <1>4, <1>6
<1>8. SumOver(Amounts, v, X) = SumOver(Amounts, f, R)
  <2>1. Summable(Amounts) /\ \A g \in R : f[g] \in Amounts.values
    BY <1>5, AmountsAreSummable
  <2> QED
    BY <1>2, <1>3, <1>7, <2>1, SumByParts
<1>9. Total(h) = SumOver(Amounts, v, X)
  <2>1. /\ K \in SUBSET X /\ \A x \in X \ K : v[x] = Whole(0)
        /\ \A x \in K : h[x] = v[x]
    BY <1>1, <1>4
  <2> QED
    BY <1>3, <1>7, <2>1, TotalOfSome
<1>10. BasisOf(R) = SumOver(Amounts, f, R)
  BY <1>6
<1> QED
  BY <1>1, <1>8, <1>9, <1>10

(* A gain of a fund is a number and an amount, and so are their sums.      *)
LEMMA BasisIsFraction ==
  ASSUME BooksInv, GainsOK, NEW p, NEW x, NEW day
  PROVE  BasisOf(GainsOfFund(p, x, day)) \in Fractions
<1>1. PICK S : S = GainsOfFund(p, x, day)
  OBVIOUS
<1>2. S \in SUBSET gains
  <2>1. Loaded({p}, LastDay).gains \in SUBSET gains
    BY LoadedTables
  <2> QED
    BY <1>1, <2>1 DEF GainsOfFund, GainsUpTo, MapRealizedGainsByPF
<1>3. IsFiniteSet(S) /\ \A g \in S : g.basis \in Fractions
  BY <1>2, FS_Subset DEF GainsOK, IsGain
<1>4. PICK k : k = [g \in S |-> g.basis]
  OBVIOUS
<1>5. BasisOf(S) = Total(k)
  BY <1>4, Zenon DEF BasisOf
<1>6. Total(k) \in Fractions
  BY <1>3, <1>4, TotalOfSome
<1> QED
  BY <1>1, <1>5, <1>6

LEMMA NothingIsZero == \A r \in Fractions : r.n = 0 => r = Whole(0)
<1> SUFFICES ASSUME NEW r \in Fractions, r.n = 0 PROVE r = Whole(0)
  OBVIOUS
<1>1. Whole(0) \in Fractions /\ Whole(0).n = 0 /\ Whole(0).d = 1
  BY WholeIsFraction DEF Whole
<1>2. r.d \in Nat
  BY DEF Fractions, Positive
<1>3. Same(r, Whole(0))
  BY <1>1, <1>2 DEF Same
<1> QED
  BY <1>1, <1>3, LowestTermsAreOne

LEMMA PriceIsNumber ==
  ASSUME BooksInv, NEW ps, NEW p, NEW x \in PfsOf(p), NEW day
  PROVE  PriceOf(ps, x, day) \in Nat
<1>1. PICK f : f = pfs[x].fund
  OBVIOUS
<1>2. f \in Funds
  BY <1>1, HoldingsAreFinite
<1>3. PICK days : days = {d \in Loaded(ps, LastDay).prices[f] : d <= day}
  OBVIOUS
<1>4. days \in SUBSET DOMAIN price[f]
  BY <1>2, <1>3, LoadedTables
<1>5. PriceOf(ps, x, day) = PriceOn(f, days)
  BY <1>1, <1>3, Zenon DEF PriceOf, PriceForDate
<1> QED
  BY <1>2, <1>4, <1>5, PriceIsOfLastDay

(* What a portfolio_fund adds to the report of its portfolio.              *)
LEMMA EntryCounts ==
  ASSUME BooksInv, GainsOK, NEW p, NEW day \in Days, ~SellsTooMuch(p, day), NEW x \in PfsOf(p)
  PROVE  LET m == MetricsOf({p}, RowsOf(transaction, x), x, day)
             entry == FundEntry(Loaded({p}, LastDay), x, day)
         IN /\ entry.value = m.shares * PriceOf({p}, x, day) /\ entry.cost = m.cost
            /\ entry.value \in Nat /\ entry.cost \in Fractions
            /\ x \notin Traded(p) \/ Blank(entry) => entry.value = 0 /\ entry.cost = Whole(0)
            /\ Blank(entry) => entry.dividends = 0 /\ entry.proceeds = 0 /\ entry.basis = Whole(0)
<1>1. PICK m, entry, cost : /\ m = MetricsOf({p}, RowsOf(transaction, x), x, day)
                            /\ entry = FundEntry(Loaded({p}, LastDay), x, day)
                            /\ cost = PriceOf({p}, x, day)
  OBVIOUS
<1>2. entry.shares = m.shares /\ entry.cost = m.cost /\ entry.value = m.shares * cost
  BY <1>1, EntryIs
<1>3. m.shares \in Int /\ m.cost \in Fractions /\ (x \notin Traded(p) => m.shares = 0 /\ m.cost = Whole(0))
  BY <1>1, FiguresOf
<1>4. cost \in Nat
  BY <1>1, PriceIsNumber
<1>5. ~(entry.shares < 0) /\ ~(entry.shares = 0 /\ entry.cost.n > 0)
  BY <1>1 DEF SellsTooMuch
<1>6. PICK a, b : a = m.shares /\ b = cost
  OBVIOUS
<1>7. a \in Nat /\ a * b \in Nat /\ (a = 0 => a * b = 0)
  BY <1>2, <1>3, <1>4, <1>5, <1>6
<1>8. entry.cost.n \in Nat
  BY <1>2, <1>3 DEF Fractions
<1>9. entry.shares = 0 => entry.cost = Whole(0)
  <2>1. entry.shares = 0 => entry.cost.n = 0
    BY <1>5, <1>8
  <2> QED
    BY <1>2, <1>3, <2>1, NothingIsZero
<1>10. Blank(entry) => /\ entry.shares = 0 /\ entry.dividends = 0 /\ entry.proceeds = 0 /\ entry.basis = Whole(0)
  <2>1. entry.basis \in Fractions
    <3>1. entry.basis = BasisOf(GainsOfFund(p, x, day))
      BY <1>1, EntryIs
    <3> QED
      BY <3>1, BasisIsFraction
  <2>2. Blank(entry) => /\ entry.shares = 0 /\ entry.dividends = 0 /\ entry.proceeds = 0 /\ entry.basis.n = 0
    BY DEF Blank
  <2> QED
    BY <2>1, <2>2, NothingIsZero
<1>11. entry.value \in Nat /\ (a = 0 => entry.value = 0)
  BY <1>2, <1>6, <1>7
<1> QED
  BY <1>1, <1>2, <1>3, <1>6, <1>9, <1>10, <1>11

LEMMA EntryIncome ==
  ASSUME NEW p, NEW x, NEW day, NEW entry, entry = FundEntry(Loaded({p}, LastDay), x, day)
  PROVE  /\ entry.dividends = DividendAmountForDate(Loaded({p}, LastDay), x, day)
         /\ entry.proceeds = ProceedsOf(GainsOfFund(p, x, day))
         /\ entry.basis = BasisOf(GainsOfFund(p, x, day))
  BY EntryIs

(* All dividends of a portfolio up to a day.                               *)
AllDividends(p, day) == SumFunction([x \in PfsOf(p) |-> DividendAmountForDate(Loaded({p}, LastDay), x, day)])

(* The entries of a day add up to what is computed for the day from all    *)
(* dividends, when those left out are blank.                               *)
LEMMA EntriesAddUp ==
  ASSUME BooksInv, GainsOK, NEW p, ~MovesReinvestments(p), ~LeavesGains(p),
         NEW day \in Days, ~SellsTooMuch(p, day),
         NEW E, DOMAIN E \in SUBSET PfsOf(p),
         \A x \in DOMAIN E : E[x] = FundEntry(Loaded({p}, LastDay), x, day),
         \A x \in PfsOf(p) \ DOMAIN E : Blank(FundEntry(Loaded({p}, LastDay), x, day))
  PROVE  SumOfEntries(E) = PortfolioSummary({p}, p, day, AllDividends(p, day))
<1>1. PICK X, K, e : /\ X = PfsOf(p) /\ K = DOMAIN E
                     /\ e = [x \in X |-> FundEntry(Loaded({p}, LastDay), x, day)]
  OBVIOUS
<1>2. IsFiniteSet(X) /\ K \in SUBSET X /\ Traded(p) \in SUBSET X
  BY <1>1, HoldingsAreFinite DEF Traded
<1>3. ASSUME NEW x \in X
      PROVE  /\ e[x].value \in Nat /\ e[x].cost \in Fractions
             /\ e[x].value = MetricsOf({p}, RowsOfAll(p), x, day).shares * PriceOf({p}, x, day)
             /\ e[x].cost = MetricsOf({p}, RowsOfAll(p), x, day).cost
             /\ x \notin Traded(p) \/ x \notin K => e[x].value = 0 /\ e[x].cost = Whole(0)
             /\ x \notin K => e[x].dividends = 0 /\ e[x].proceeds = 0 /\ e[x].basis = Whole(0)
  <2>1. e[x] = FundEntry(Loaded({p}, LastDay), x, day) /\ x \in PfsOf(p)
    BY <1>1
  <2>2. MetricsOf({p}, RowsOfAll(p), x, day) = MetricsOf({p}, RowsOf(transaction, x), x, day)
    BY <2>1, SameReinvestments
  <2>3. x \notin K => Blank(e[x])
    BY <1>1, <2>1
  <2> QED
    BY <2>1, <2>2, <2>3, EntryCounts
<1>4. ASSUME NEW x \in X
      PROVE  /\ e[x].dividends = DividendAmountForDate(Loaded({p}, LastDay), x, day) /\ e[x].dividends \in Int
             /\ e[x].proceeds = ProceedsOf(GainsOfFund(p, x, day))
             /\ e[x].basis = BasisOf(GainsOfFund(p, x, day))
  <2>1. e[x] = FundEntry(Loaded({p}, LastDay), x, day)
    BY <1>1
  <2>2. PICK entry : entry = FundEntry(Loaded({p}, LastDay), x, day)
    OBVIOUS
  <2>3. /\ entry.dividends = DividendAmountForDate(Loaded({p}, LastDay), x, day)
        /\ entry.proceeds = ProceedsOf(GainsOfFund(p, x, day))
        /\ entry.basis = BasisOf(GainsOfFund(p, x, day))
    BY <2>2, EntryIncome
  <2>4. DividendAmountForDate(Loaded({p}, LastDay), x, day) \in Int
    BY AmountsAreNumbers
  <2> QED
    BY <2>1, <2>2, <2>3, <2>4
<1>5. \A x \in K : E[x] = e[x]
  BY <1>1, <1>2
<1>6. PICK values, costs, dividends, proceeds, bases :
        /\ values = [x \in K |-> E[x].value] /\ costs = [x \in K |-> E[x].cost]
        /\ dividends = [x \in K |-> E[x].dividends]
        /\ proceeds = [x \in K |-> E[x].proceeds] /\ bases = [x \in K |-> E[x].basis]
  OBVIOUS
<1>7. SumOfEntries(E) = Report(SumFunction(values), Total(costs), SumFunction(dividends),
                               SumFunction(proceeds), Total(bases))
  BY <1>1, <1>6, Zenon DEF SumOfEntries, Report
<1>8. PICK worths, paid, amounts :
        /\ worths = [x \in Traded(p) |-> MetricsOf({p}, RowsOfAll(p), x, day).shares * PriceOf({p}, x, day)]
        /\ paid = [x \in Traded(p) |-> MetricsOf({p}, RowsOfAll(p), x, day).cost]
        /\ amounts = [x \in X |-> DividendAmountForDate(Loaded({p}, LastDay), x, day)]
  OBVIOUS
<1>9. PortfolioSummary({p}, p, day, AllDividends(p, day)) =
        Report(NotNegative(SumFunction(worths)), Total(paid), SumFunction(amounts),
               ProceedsOf(GainsOfAll({p}, p, day)), BasisOf(GainsOfAll({p}, p, day)))
  BY <1>1, <1>8, SummaryIs, Zenon DEF AllDividends
<1>10. SumFunction(values) = NotNegative(SumFunction(worths))
  <2>1. PICK v : v = [x \in X |-> e[x].value]
    OBVIOUS
  <2>2. \A x \in X : v[x] \in Int /\ v[x] \in Nat
    BY <1>3, <2>1
  <2>3. DOMAIN values = K /\ (\A x \in X \ K : v[x] = 0) /\ \A x \in K : values[x] = v[x]
    BY <1>2, <1>3, <1>5, <1>6, <2>1
  <2>4. SumFunction(values) = SumOver(Numbers, v, X)
    BY <1>2, <2>2, <2>3, SumOfSome
  <2>5. DOMAIN worths = Traded(p) /\ (\A x \in X \ Traded(p) : v[x] = 0) /\ \A x \in Traded(p) : worths[x] = v[x]
    BY <1>2, <1>3, <1>8, <2>1
  <2>6. SumFunction(worths) = SumOver(Numbers, v, X)
    BY <1>2, <2>2, <2>5, SumOfSome
  <2>7. SumFunction(worths) \in Nat
    BY <1>2, <2>2, <2>6, SumOfNaturals
  <2> QED
    BY <2>4, <2>6, <2>7 DEF NotNegative
<1>11. Total(costs) = Total(paid)
  <2>1. PICK v : v = [x \in X |-> e[x].cost]
    OBVIOUS
  <2>2. \A x \in X : v[x] \in Fractions
    BY <1>3, <2>1
  <2>3. DOMAIN costs = K /\ (\A x \in X \ K : v[x] = Whole(0)) /\ \A x \in K : costs[x] = v[x]
    BY <1>2, <1>3, <1>5, <1>6, <2>1
  <2>4. Total(costs) = SumOver(Amounts, v, X)
    BY <1>2, <2>2, <2>3, TotalOfSome
  <2>5. DOMAIN paid = Traded(p) /\ (\A x \in X \ Traded(p) : v[x] = Whole(0)) /\ \A x \in Traded(p) : paid[x] = v[x]
    BY <1>2, <1>3, <1>8, <2>1
  <2>6. Total(paid) = SumOver(Amounts, v, X)
    BY <1>2, <2>2, <2>5, TotalOfSome
  <2> QED
    BY <2>4, <2>6
<1>12. SumFunction(dividends) = SumFunction(amounts)
  <2>1. \A x \in X : amounts[x] = e[x].dividends /\ amounts[x] \in Int
    BY <1>4, <1>8
  <2>2. DOMAIN dividends = K /\ (\A x \in X \ K : amounts[x] = 0) /\ \A x \in K : dividends[x] = amounts[x]
    BY <1>2, <1>3, <1>5, <1>6, <2>1
  <2>3. SumFunction(dividends) = SumOver(Numbers, amounts, X)
    BY <1>2, <2>1, <2>2, SumOfSome
  <2>4. DOMAIN amounts = X /\ (\A x \in X \ X : amounts[x] = 0) /\ \A x \in X : amounts[x] = amounts[x]
    BY <1>8
  <2>5. SumFunction(amounts) = SumOver(Numbers, amounts, X)
    BY <1>2, <2>1, <2>4, SumFunctionIs
  <2> QED
    BY <2>3, <2>5
<1>13. SumFunction(proceeds) = ProceedsOf(GainsOfAll({p}, p, day))
  <2>1. \A x \in PfsOf(p) \ K : ProceedsOf(GainsOfFund(p, x, day)) = 0
    BY <1>1, <1>3, <1>4
  <2>2. DOMAIN proceeds = K /\ \A x \in K : proceeds[x] = ProceedsOf(GainsOfFund(p, x, day))
    BY <1>2, <1>4, <1>5, <1>6
  <2> QED
    BY <1>1, <1>2, <2>1, <2>2, ProceedsAddUp
<1>14. Total(bases) = BasisOf(GainsOfAll({p}, p, day))
  <2>1. \A x \in PfsOf(p) \ K : BasisOf(GainsOfFund(p, x, day)) = Whole(0)
    BY <1>1, <1>3, <1>4
  <2>2. DOMAIN bases = K /\ \A x \in K : bases[x] = BasisOf(GainsOfFund(p, x, day))
    BY <1>2, <1>4, <1>5, <1>6
  <2> QED
    BY <1>1, <1>2, <2>1, <2>2, BasesAddUp
<1> QED
  BY <1>7, <1>9, <1>10, <1>11, <1>12, <1>13, <1>14

(* The oldest transaction is of no later day than any other.               *)
LEMMA OldestIs ==
  ASSUME BooksInv, NEW ps
  PROVE  /\ OldestTransaction(ps) \in Nat
         /\ \A i \in DOMAIN transaction :
              transaction[i].pf \in PfsOfAll(ps) => OldestTransaction(ps) <= transaction[i].day
         /\ (\E i \in DOMAIN transaction : transaction[i].pf \in PfsOfAll(ps)) =>
              \E i \in DOMAIN transaction :
                transaction[i].pf \in PfsOfAll(ps) /\ OldestTransaction(ps) = transaction[i].day
<1> DEFINE days == {transaction[i].day : i \in {i \in DOMAIN transaction : transaction[i].pf \in PfsOfAll(ps)}}
<1>1. OldestTransaction(ps) = IF days = {} THEN 0 ELSE CHOOSE d \in days : \A e \in days : d <= e
  BY Zenon DEF OldestTransaction
<1>2. \A i \in DOMAIN transaction : transaction[i].pf \in PfsOfAll(ps) => transaction[i].day \in days
  OBVIOUS
<1>3. \A d \in days : \E i \in DOMAIN transaction : transaction[i].pf \in PfsOfAll(ps) /\ d = transaction[i].day
  OBVIOUS
<1> HIDE DEF days
<1>4. days \in SUBSET Nat
  <2>1. \A i \in DOMAIN transaction : transaction[i].day \in Nat
    BY BoundsAssumption DEF BooksInv, LedgerOK, Transactions, Days
  <2> QED
    BY <1>3, <2>1
<1>5. CASE days = {}
  BY <1>1, <1>2, <1>5
<1>6. CASE days # {}
  <2>1. PICK first \in days : \A e \in days : first <= e
    BY <1>4, <1>6, LeastNatural
  <2>2. PICK least : least = CHOOSE d \in days : \A e \in days : d <= e
    OBVIOUS
  <2>3. least \in days /\ \A e \in days : least <= e
    BY <2>1, <2>2
  <2>4. OldestTransaction(ps) = least
    BY <1>1, <1>6, <2>2
  <2> QED
    BY <1>2, <1>3, <1>4, <2>3, <2>4
<1> QED
  BY <1>5, <1>6

(* A fund without dividends up to the day adds nothing.                    *)
LEMMA NoDividendsNoAmount ==
  ASSUME NEW ps, NEW x, NEW day, DividendsUpTo(Loaded(ps, LastDay), x, day) = {}
  PROVE  DividendAmountForDate(Loaded(ps, LastDay), x, day) = 0
<1>1. PICK h : h = [d \in {} |-> dividend[d].total]
  OBVIOUS
<1>2. DividendAmountForDate(Loaded(ps, LastDay), x, day) = SumFunction(h)
  BY <1>1, Zenon DEF DividendAmountForDate
<1>3. DOMAIN h = {} /\ IsFiniteSet({})
  BY <1>1, FS_EmptySet
<1>4. SumFunction(h) = SumOver(Numbers, h, {})
  BY <1>3, SumFunctionIs
<1>5. SumOver(Numbers, h, {}) = 0
  BY <1>3, NumbersAreSummable, SumInAnyOrder
<1> QED
  BY <1>2, <1>4, <1>5

(* Unless dividends interleave, they add up to all of them in any order.   *)
LEMMA TotalsAreComplete ==
  ASSUME BooksInv, NEW p, NEW day, ~DividendsInterleave(p, day)
  PROVE  DividendTotals(Loaded({p}, LastDay), p, day) = {AllDividends(p, day)}
<1>1. PICK data, X, v, ended : /\ data = Loaded({p}, LastDay) /\ X = PfsOf(p)
                               /\ v = [x \in X |-> DividendAmountForDate(data, x, day)]
                               /\ ended = {x \in X : LaterDividends(data, x, day) = {}}
  OBVIOUS
<1>2. IsFiniteSet(X)
  BY <1>1, HoldingsAreFinite
<1>3. \A x \in X : v[x] \in Int /\ (DividendsUpTo(data, x, day) = {} => v[x] = 0)
  BY <1>1, AmountsAreNumbers, NoDividendsNoAmount
<1>4. ASSUME NEW S \in SUBSET X, \A x \in X \ S : v[x] = 0
      PROVE  SumFunction([x \in S |-> DividendAmountForDate(data, x, day)]) = SumOver(Numbers, v, X)
  <2>1. PICK h : h = [x \in S |-> DividendAmountForDate(data, x, day)]
    OBVIOUS
  <2>2. DOMAIN h = S /\ \A x \in S : h[x] = v[x]
    BY <1>1, <2>1
  <2>3. SumFunction(h) = SumOver(Numbers, v, X)
    BY <1>2, <1>3, <1>4, <2>2, SumOfSome
  <2> QED
    BY <2>1, <2>3
<1>5. AllDividends(p, day) = SumOver(Numbers, v, X)
  <2>1. SumFunction([x \in X |-> DividendAmountForDate(data, x, day)]) = SumOver(Numbers, v, X)
    BY <1>4
  <2> QED
    BY <1>1, <2>1, Zenon DEF AllDividends
<1>6. PICK stretches : stretches = {S \in SUBSET X : IF ended = X THEN S = ended
                                                     ELSE \E x \in S : S \ ended = {x}}
  OBVIOUS
<1>7. DividendTotals(data, p, day)
        = {SumFunction([x \in S |-> DividendAmountForDate(data, x, day)]) : S \in stretches}
  BY <1>1, <1>6, Zenon DEF DividendTotals
<1>8. stretches # {}
  <2>1. CASE ended = X
    BY <1>6, <2>1
  <2>2. CASE ended # X
    <3>1. PICK x \in X : x \notin ended
      BY <1>1, <2>2
    <3>2. {x} \in stretches
      BY <1>6, <2>2, <3>1
    <3> QED
      BY <3>2
  <2> QED
    BY <2>1, <2>2
<1>9. ASSUME NEW S \in stretches PROVE S \in SUBSET X /\ \A x \in X \ S : v[x] = 0
  <2>1. CASE ended = X
    BY <1>6, <1>9, <2>1
  <2>2. CASE ended # X
    <3>1. PICK x \in S : S \ ended = {x} /\ S \in SUBSET X
      BY <1>6, <1>9, <2>2
    <3>2. LaterDividends(data, x, day) # {}
      BY <1>1, <3>1
    <3>3. \A y \in X : y # x => DividendsUpTo(data, y, day) = {}
      BY <1>1, <3>1, <3>2 DEF DividendsInterleave
    <3> QED
      BY <1>1, <1>3, <3>1, <3>3
  <2> QED
    BY <2>1, <2>2
<1>10. \A S \in stretches :
         SumFunction([x \in S |-> DividendAmountForDate(data, x, day)]) = AllDividends(p, day)
  BY <1>4, <1>5, <1>9
<1>11. DividendTotals(data, p, day) = {AllDividends(p, day)}
  BY <1>7, <1>8, <1>10
<1> QED
  BY <1>1, <1>11

(* Today no dividend is later.                                             *)
LEMMA NothingIsLater ==
  ASSUME BooksInv, LastDay \in Days, NEW p
  PROVE  ~DividendsInterleave(p, LastDay)
<1>1. \A d \in Loaded({p}, LastDay).dividends : dividend[d].ex \in Nat /\ dividend[d].ex < LastDay
  <2>1. \A d \in DOMAIN dividend : dividend[d].ex \in Nat
    BY BoundsAssumption DEF BooksInv, LedgerOK, IsRow, Days
  <2> QED
    BY <2>1, LoadedTables
<1>2. ASSUME NEW x PROVE LaterDividends(Loaded({p}, LastDay), x, LastDay) = {}
  <2>1. PICK D : D = Loaded({p}, LastDay).dividends
    OBVIOUS
  <2>2. \A d \in D : ~(dividend[d].ex > LastDay)
    BY <1>1, <2>1, BoundsAssumption DEF Days
  <2>3. LaterDividends(Loaded({p}, LastDay), x, LastDay) = {d \in D : dividend[d].pf = x /\ dividend[d].ex > LastDay}
    BY <2>1, Zenon DEF LaterDividends
  <2> QED
    BY <2>2, <2>3
<1> QED
  BY <1>2 DEF DividendsInterleave

(* Summaries of a day differ in nothing but their dividends.               *)
LEMMA SummariesAre ==
  ASSUME NEW ps, NEW p, NEW day
  PROVE  /\ PortfolioSummaries(ps, p, day) =
              {PortfolioSummary(ps, p, day, total) : total \in DividendTotals(Loaded(ps, LastDay), p, day)}
         /\ \E value, cost, proceeds, basis : \A total :
              PortfolioSummary(ps, p, day, total) = Report(value, cost, total, proceeds, basis)
<1>1. \E value, cost, proceeds, basis : \A total :
        PortfolioSummary(ps, p, day, total) = Report(value, cost, total, proceeds, basis)
  BY SummaryIs
<1>2. PortfolioSummaries(ps, p, day) =
        {PortfolioSummary(ps, p, day, total) : total \in DividendTotals(Loaded(ps, LastDay), p, day)}
  BY Zenon DEF PortfolioSummaries
<1> QED
  BY <1>1, <1>2

(* What the cache serves of a portfolio is what is computed, whatever the  *)
(* total of its dividends.                                                 *)
LEMMA ServedIsComputed ==
  ASSUME BooksInv, GainsOK, NEW p, NEW day \in Days
  PROVE  ServedAsComputed(p, day)
<1> SUFFICES ASSUME ~MovesReinvestments(p), ~LeavesGains(p), ~SellsTooMuch(p, day),
                    NEW computed \in PortfolioSummaries({p}, p, day)
             PROVE  LET served == MaterializedSummary(p, day)
                    IN \/ computed = served
                       \/ DividendsInterleave(p, day) /\ [computed EXCEPT !.dividends = served.dividends] = served
  BY DEF ServedAsComputed
<1>1. PICK entry : entry = [x \in PfsOf(p) |-> FundEntry(Loaded({p}, LastDay), x, day)]
  OBVIOUS
<1>2. PICK E : E = [x \in {x \in PfsOf(p) : ~Blank(entry[x])} |-> entry[x]]
  OBVIOUS
<1>3. MaterializedSummary(p, day) = SumOfEntries(E)
  BY <1>1, <1>2, Zenon DEF MaterializedSummary
<1>4. DOMAIN E = {x \in PfsOf(p) : ~Blank(entry[x])}
  BY <1>2
<1>5. \A x \in PfsOf(p) : entry[x] = FundEntry(Loaded({p}, LastDay), x, day)
  BY <1>1
<1>6. /\ DOMAIN E \in SUBSET PfsOf(p)
      /\ \A x \in DOMAIN E : E[x] = FundEntry(Loaded({p}, LastDay), x, day)
      /\ \A x \in PfsOf(p) \ DOMAIN E : Blank(FundEntry(Loaded({p}, LastDay), x, day))
  BY <1>2, <1>4, <1>5
<1>7. MaterializedSummary(p, day) = PortfolioSummary({p}, p, day, AllDividends(p, day))
  BY <1>3, <1>6, EntriesAddUp
<1>8. PICK total \in DividendTotals(Loaded({p}, LastDay), p, day) :
        computed = PortfolioSummary({p}, p, day, total)
  BY SummariesAre
<1>9. CASE DividendsInterleave(p, day)
  <2>1. PICK served, all : served = MaterializedSummary(p, day) /\ all = AllDividends(p, day)
    OBVIOUS
  <2>2. PICK value, cost, proceeds, basis : \A sum :
          PortfolioSummary({p}, p, day, sum) = Report(value, cost, sum, proceeds, basis)
    BY SummariesAre
  <2>3. served = Report(value, cost, all, proceeds, basis) /\ computed = Report(value, cost, total, proceeds, basis)
    BY <1>7, <1>8, <2>1, <2>2
  <2>4. served.dividends = all /\ [computed EXCEPT !.dividends = all] = served
    BY <2>3 DEF Report
  <2> QED
    BY <1>9, <2>1, <2>4
<1>10. CASE ~DividendsInterleave(p, day)
  BY <1>7, <1>8, <1>10, TotalsAreComplete
<1> QED
  BY <1>9, <1>10

(* The list of funds asks for the price of the same day.                   *)
LEMMA SamePrice ==
  ASSUME BooksInv, NEW p, ~PricesAreOld(p), ~DatesFromBefore(p), NEW x \in PfsOf(p)
  PROVE  LatestPrice(pfs[x].fund) = PriceOf({p}, x, LastDay)
<1>1. PICK f, from : f = pfs[x].fund /\ from = OldestTransaction({p})
  OBVIOUS
<1>2. f \in Funds /\ from \in Nat /\ LastDay \in Nat /\ Month \in Nat
  BY <1>1, HoldingsAreFinite, OldestIs, BoundsAssumption, MonthAssumption
<1>3. \A d \in DOMAIN price[f] : d \in Nat /\ d <= LastDay
  BY <1>2 DEF BooksInv, PricesOK, Days
<1>4. \A d \in DOMAIN price[f] : from <= d
  <2>1. \A d \in DOMAIN price[f] : ~(d < from)
    BY <1>1 DEF DatesFromBefore
  <2> QED
    BY <1>2, <1>3, <2>1
<1>5. PICK all, late : all = DOMAIN price[f] /\ late = {d \in DOMAIN price[f] : LastDay - Month <= d}
  OBVIOUS
<1>6. PriceOf({p}, x, LastDay) = PriceOn(f, all)
  <2>1. Loaded({p}, LastDay).prices[f] = all
    BY <1>1, <1>2, <1>3, <1>4, <1>5 DEF Loaded
  <2>2. {d \in Loaded({p}, LastDay).prices[f] : d <= LastDay} = all
    BY <1>3, <1>5, <2>1
  <2> QED
    BY <1>1, <2>2, Zenon DEF PriceOf, PriceForDate
<1>7. LatestPrice(f) = PriceOn(f, late)
  BY <1>5, Zenon DEF LatestPrice
<1>8. CASE all = {}
  <2>1. late = {}
    BY <1>5, <1>8
  <2> QED
    BY <1>1, <1>6, <1>7, <1>8, <2>1
<1>9. CASE all # {}
  <2>1. PICK d \in all : \A e \in all : e <= d
    BY <1>2, <1>5, <1>9, PriceIsOfLastDay
  <2>2. \E e \in all : ~(e < LastDay - Month)
    <3>1. LET days == {e \in DOMAIN price[f] : e >= from}
          IN days # {} => \E e \in days : ~(e < LastDay - Month)
      BY <1>1 DEF PricesAreOld
    <3>2. {e \in DOMAIN price[f] : e >= from} = all
      BY <1>2, <1>3, <1>4, <1>5
    <3> QED
      BY <1>9, <3>1, <3>2
  <2>3. d \in late
    BY <1>2, <1>3, <1>5, <2>1, <2>2
  <2>4. late \in SUBSET DOMAIN price[f] /\ \A e \in late : e <= d
    BY <1>5, <2>1
  <2>5. PriceOn(f, late) = price[f][d]
    BY <1>2, <2>3, <2>4, PriceIsOfLastDay
  <2>6. PriceOn(f, all) = price[f][d]
    BY <1>2, <1>5, <2>1, PriceIsOfLastDay
  <2> QED
    BY <1>1, <1>6, <1>7, <2>5, <2>6
<1> QED
  BY <1>8, <1>9

(* So it adds up to what is computed for today.                            *)
LEMMA ListedIsComputed ==
  ASSUME BooksInv, GainsOK, NEW p, LastDay \in Days
  PROVE  ListedAsComputed(p)
<1> SUFFICES ASSUME ~MovesReinvestments(p), ~LeavesGains(p), ~SellsTooMuch(p, LastDay),
                    ~PricesAreOld(p), ~DatesFromBefore(p)
             PROVE  PortfolioSummaries({p}, p, LastDay) = {SumOfEntries([x \in PfsOf(p) |-> FundToday(p, x)])}
  BY Zenon DEF ListedAsComputed
<1>1. PICK E : E = [x \in PfsOf(p) |-> FundToday(p, x)]
  OBVIOUS
<1>2. ASSUME NEW x \in PfsOf(p) PROVE FundToday(p, x) = FundEntry(Loaded({p}, LastDay), x, LastDay)
  <2>1. LatestPrice(pfs[x].fund) = PriceForDate(Loaded({p}, LastDay), pfs[x].fund, LastDay)
    BY SamePrice, Zenon DEF PriceOf
  <2> QED
    BY <2>1, Zenon DEF FundToday, FundEntry
<1>3. DOMAIN E = PfsOf(p) /\ \A x \in DOMAIN E : E[x] = FundEntry(Loaded({p}, LastDay), x, LastDay)
  BY <1>1, <1>2
<1>4. SumOfEntries(E) = PortfolioSummary({p}, p, LastDay, AllDividends(p, LastDay))
  BY <1>3, EntriesAddUp
<1>5. DividendTotals(Loaded({p}, LastDay), p, LastDay) = {AllDividends(p, LastDay)}
  BY NothingIsLater, TotalsAreComplete
<1>6. PortfolioSummaries({p}, p, LastDay) = {PortfolioSummary({p}, p, LastDay, AllDividends(p, LastDay))}
  <2>1. PICK totals, all : totals = DividendTotals(Loaded({p}, LastDay), p, LastDay) /\ all = AllDividends(p, LastDay)
    OBVIOUS
  <2>2. PortfolioSummaries({p}, p, LastDay) = {PortfolioSummary({p}, p, LastDay, total) : total \in totals}
    BY <2>1, SummariesAre
  <2>3. totals = {all}
    BY <1>5, <2>1
  <2> QED
    BY <2>1, <2>2, <2>3
<1> QED
  BY <1>1, <1>4, <1>6

(* Of a portfolio that has nothing older than its first transaction the    *)
(* same is loaded in any company.                                          *)
LEMMA SameLoads ==
  ASSUME BooksInv, GainsOK, NEW ps, NEW p \in ps, ~DatesFromBefore(p), NEW day, HasStarted(p, day)
  PROVE  /\ GainsOfAll(ps, p, day) = GainsOfAll({p}, p, day)
         /\ \A x \in PfsOf(p) : /\ PriceOf(ps, x, day) = PriceOf({p}, x, day)
                               /\ DividendsUpTo(Loaded(ps, LastDay), x, day) = DividendsUpTo(Loaded({p}, LastDay), x, day)
                               /\ LaterDividends(Loaded(ps, LastDay), x, day) = LaterDividends(Loaded({p}, LastDay), x, day)
<1>1. PICK all, own : all = OldestTransaction(ps) /\ own = OldestTransaction({p})
  OBVIOUS
<1>2. PfsOfAll({p}) = PfsOf(p) /\ PfsOf(p) \subseteq PfsOfAll(ps)
  BY DEF PfsOfAll, PfsOf
<1>3. all \in Nat /\ own \in Nat /\ all <= own
  <2>1. all \in Nat /\ own \in Nat
    BY <1>1, OldestIs
  <2>2. \E i \in DOMAIN transaction : transaction[i].pf \in PfsOfAll({p})
    BY <1>2 DEF HasStarted
  <2>3. PICK i \in DOMAIN transaction : transaction[i].pf \in PfsOfAll({p}) /\ own = transaction[i].day
    BY <1>1, <2>2, OldestIs
  <2>4. transaction[i].pf \in PfsOfAll(ps)
    BY <1>2, <2>3
  <2> QED
    BY <1>1, <2>1, <2>3, <2>4, OldestIs
<1>4. LastDay \in Nat /\ Days \subseteq Nat
  BY BoundsAssumption DEF Days
<1>5. GainsOfAll(ps, p, day) = GainsOfAll({p}, p, day)
  <2>1. \A g \in gains : g.portfolio = p => g.day \in Nat /\ ~(g.day < own)
    BY <1>1, <1>4 DEF DatesFromBefore, GainsOK, IsGain
  <2>2. \A g \in gains : g.portfolio = p => all <= g.day /\ own <= g.day
    BY <1>3, <2>1
  <2>3. {g \in Loaded(ps, LastDay).gains : g.portfolio = p} = {g \in Loaded({p}, LastDay).gains : g.portfolio = p}
    <3>1. Loaded(ps, LastDay).gains = {g \in gains : g.portfolio \in ps /\ all <= g.day /\ g.day <= LastDay}
      BY <1>1 DEF Loaded
    <3>2. Loaded({p}, LastDay).gains = {g \in gains : g.portfolio \in {p} /\ own <= g.day /\ g.day <= LastDay}
      BY <1>1 DEF Loaded
    <3> QED
      BY <2>2, <3>1, <3>2
  <2> QED
    BY <2>3, Zenon DEF GainsOfAll
<1>6. ASSUME NEW x \in PfsOf(p) PROVE PriceOf(ps, x, day) = PriceOf({p}, x, day)
  <2>1. PICK f : f = pfs[x].fund
    OBVIOUS
  <2>2. f \in Funds
    BY <2>1, HoldingsAreFinite
  <2>3. \A d \in DOMAIN price[f] : d \in Nat /\ ~(d < own)
    BY <1>1, <1>4, <2>1, <2>2 DEF DatesFromBefore, BooksInv, PricesOK
  <2>4. \A d \in DOMAIN price[f] : all <= d /\ own <= d
    BY <1>3, <2>3
  <2>5. Loaded(ps, LastDay).prices[f] = Loaded({p}, LastDay).prices[f]
    <3>1. Loaded(ps, LastDay).prices[f] = {d \in DOMAIN price[f] : all <= d /\ d <= LastDay}
      BY <1>1, <2>2 DEF Loaded
    <3>2. Loaded({p}, LastDay).prices[f] = {d \in DOMAIN price[f] : own <= d /\ d <= LastDay}
      BY <1>1, <2>2 DEF Loaded
    <3> QED
      BY <2>4, <3>1, <3>2
  <2> QED
    BY <2>1, <2>5, Zenon DEF PriceOf, PriceForDate
<1>7. ASSUME NEW x \in PfsOf(p)
      PROVE  /\ DividendsUpTo(Loaded(ps, LastDay), x, day) = DividendsUpTo(Loaded({p}, LastDay), x, day)
             /\ LaterDividends(Loaded(ps, LastDay), x, day) = LaterDividends(Loaded({p}, LastDay), x, day)
  <2>1. \A d \in DOMAIN dividend : dividend[d].pf = x => dividend[d].ex \in Nat /\ ~(dividend[d].ex < own)
    BY <1>1, <1>4 DEF DatesFromBefore, BooksInv, LedgerOK, IsRow
  <2>2. \A d \in DOMAIN dividend : dividend[d].pf = x => all <= dividend[d].ex /\ own <= dividend[d].ex
    BY <1>3, <2>1
  <2>3. Loaded(ps, LastDay).dividends = {d \in DOMAIN dividend : /\ dividend[d].pf \in PfsOfAll(ps)
                                                               /\ all <= dividend[d].ex /\ dividend[d].ex < LastDay}
    BY <1>1 DEF Loaded
  <2>4. Loaded({p}, LastDay).dividends = {d \in DOMAIN dividend : /\ dividend[d].pf \in PfsOfAll({p})
                                                                /\ own <= dividend[d].ex /\ dividend[d].ex < LastDay}
    BY <1>1 DEF Loaded
  <2>5. {d \in Loaded(ps, LastDay).dividends : dividend[d].pf = x /\ dividend[d].ex <= day}
          = {d \in Loaded({p}, LastDay).dividends : dividend[d].pf = x /\ dividend[d].ex <= day}
    BY <1>2, <2>2, <2>3, <2>4
  <2>6. {d \in Loaded(ps, LastDay).dividends : dividend[d].pf = x /\ dividend[d].ex > day}
          = {d \in Loaded({p}, LastDay).dividends : dividend[d].pf = x /\ dividend[d].ex > day}
    BY <1>2, <2>2, <2>3, <2>4
  <2> QED
    BY <2>5, <2>6, Zenon DEF DividendsUpTo, LaterDividends
<1> QED
  BY <1>5, <1>6, <1>7

(* So the same is computed.                                                *)
LEMMA TogetherIsAlone ==
  ASSUME BooksInv, GainsOK, NEW p, NEW day, HasStarted(p, day)
  PROVE  ComputedTogether(p, day)
<1> SUFFICES ASSUME p \in PortfoliosForRequest, ~DatesFromBefore(p)
             PROVE  PortfolioSummaries(PortfoliosForRequest, p, day) = PortfolioSummaries({p}, p, day)
  BY DEF ComputedTogether
<1>1. PICK ps : ps = PortfoliosForRequest
  OBVIOUS
<1>2. /\ GainsOfAll(ps, p, day) = GainsOfAll({p}, p, day)
      /\ \A x \in PfsOf(p) : /\ PriceOf(ps, x, day) = PriceOf({p}, x, day)
                            /\ DividendsUpTo(Loaded(ps, LastDay), x, day) = DividendsUpTo(Loaded({p}, LastDay), x, day)
                            /\ LaterDividends(Loaded(ps, LastDay), x, day) = LaterDividends(Loaded({p}, LastDay), x, day)
  BY <1>1, SameLoads
<1>3. PICK a, b : a = Loaded(ps, LastDay) /\ b = Loaded({p}, LastDay)
  OBVIOUS
<1>4. a.end = b.end
  BY <1>3 DEF Loaded
<1>5. ASSUME NEW x \in PfsOf(p)
      PROVE  /\ DividendAmountForDate(a, x, day) = DividendAmountForDate(b, x, day)
             /\ MetricsOf(ps, RowsOfAll(p), x, day) = MetricsOf({p}, RowsOfAll(p), x, day)
  <2>1. DividendsUpTo(a, x, day) = DividendsUpTo(b, x, day)
    BY <1>2, <1>3
  <2>2. DividendAmountForDate(a, x, day) = DividendAmountForDate(b, x, day)
    BY <2>1, Zenon DEF DividendAmountForDate
  <2>3. DividendSharesForDate(a, x, RowsOfAll(p), day) = DividendSharesForDate(b, x, RowsOfAll(p), day)
    BY <1>4, <2>1, Zenon DEF DividendSharesForDate
  <2> QED
    BY <1>3, <2>2, <2>3, Zenon DEF MetricsOf
<1>6. Traded(p) \in SUBSET PfsOf(p)
  BY DEF Traded
<1>7. [x \in Traded(p) |-> MetricsOf(ps, RowsOfAll(p), x, day).shares * PriceOf(ps, x, day)] =
        [x \in Traded(p) |-> MetricsOf({p}, RowsOfAll(p), x, day).shares * PriceOf({p}, x, day)]
  BY <1>2, <1>5, <1>6
<1>8. [x \in Traded(p) |-> MetricsOf(ps, RowsOfAll(p), x, day).cost] =
        [x \in Traded(p) |-> MetricsOf({p}, RowsOfAll(p), x, day).cost]
  BY <1>5, <1>6
<1>9. \A total : PortfolioSummary(ps, p, day, total) = PortfolioSummary({p}, p, day, total)
  BY <1>2, <1>7, <1>8, SummaryIs, Zenon
<1>10. DividendTotals(a, p, day) = DividendTotals(b, p, day)
  <2>1. {x \in PfsOf(p) : LaterDividends(a, x, day) = {}} = {x \in PfsOf(p) : LaterDividends(b, x, day) = {}}
    BY <1>2, <1>3
  <2>2. \A S \in SUBSET PfsOf(p) : SumFunction([x \in S |-> DividendAmountForDate(a, x, day)])
                                  = SumFunction([x \in S |-> DividendAmountForDate(b, x, day)])
    <3>1. ASSUME NEW S \in SUBSET PfsOf(p)
          PROVE  [x \in S |-> DividendAmountForDate(a, x, day)] = [x \in S |-> DividendAmountForDate(b, x, day)]
      BY <1>5
    <3> QED
      BY <3>1, Zenon
  <2>3. PICK ended, stretches :
          /\ ended = {x \in PfsOf(p) : LaterDividends(b, x, day) = {}}
          /\ stretches = {S \in SUBSET PfsOf(p) : IF ended = PfsOf(p) THEN S = ended
                                                 ELSE \E x \in S : S \ ended = {x}}
    OBVIOUS
  <2>4. stretches \subseteq SUBSET PfsOf(p)
    BY <2>3
  <2>5. DividendTotals(a, p, day) = {SumFunction([x \in S |-> DividendAmountForDate(a, x, day)]) : S \in stretches}
    BY <2>1, <2>3, Zenon DEF DividendTotals
  <2>6. DividendTotals(b, p, day) = {SumFunction([x \in S |-> DividendAmountForDate(b, x, day)]) : S \in stretches}
    BY <2>3, Zenon DEF DividendTotals
  <2> QED
    BY <2>2, <2>4, <2>5, <2>6
<1>11. PortfolioSummaries(ps, p, day) = PortfolioSummaries({p}, p, day)
  BY <1>3, <1>9, <1>10, Zenon DEF PortfolioSummaries
<1> QED
  BY <1>1, <1>11

(* The ways to report a portfolio agree in any reachable state of any      *)
(* books: what the cache serves of a day, the list of funds, and what is   *)
(* computed for one portfolio or for all of them, with the exceptions      *)
(* ReportsAgree names.                                                     *)
THEOREM ReportsAlwaysAgree == Spec => []ReportsAgree
<1>1. BooksInv /\ BooksInv' /\ GainsOK /\ [Next]_vars => GainsOK'
  <2>1. ASSUME GainsOK, UNCHANGED vars PROVE GainsOK'
    BY <2>1 DEF GainsOK, vars
  <2> QED
    BY <2>1, GainsOKStays
<1>2. ASSUME BooksInv, GainsOK PROVE ReportsAgree
  <2>1. ASSUME NEW p \in Portfolios, NEW day \in Days, HasStarted(p, day)
        PROVE  /\ ServedAsComputed(p, day)
               /\ day = LastDay => ListedAsComputed(p)
               /\ ComputedTogether(p, day)
    <3>1. ServedAsComputed(p, day)
      BY <1>2, ServedIsComputed
    <3>2. day = LastDay => ListedAsComputed(p)
      BY <1>2, ListedIsComputed
    <3>3. ComputedTogether(p, day)
      BY <1>2, <2>1, TogetherIsAlone
    <3> QED
      BY <3>1, <3>2, <3>3
  <2> QED
    BY <2>1, Zenon DEF ReportsAgree
<1> QED
  BY <1>1, <1>2, GainsOKInit, BooksInvHolds, PTL DEF Spec
=============================================================================
