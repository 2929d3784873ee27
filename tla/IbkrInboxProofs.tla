-------------------------- MODULE IbkrInboxProofs --------------------------
(***************************************************************************)
(* Theorems about IbkrInbox, for any number of trades, portfolios,         *)
(* dividends, entries, rounds and requests.                                *)
(*                                                                         *)
(* What the tables say to each other is said by uuids alone, so the        *)
(* argument is about three things: the uuids of transactions, those of     *)
(* allocation rows, and the links of dividends.  The three invariants need *)
(* one another: a decision can only be taken back with all its rows        *)
(* because they are the trade's transactions (Counted), and its status may *)
(* follow its rows because they are of one allocation (Decided).  All need *)
(* that a uuid is of one row and that no row is of a later round than its  *)
(* trade (Keyed).                                                          *)
(***************************************************************************)
EXTENDS IbkrInbox, FiniteSetTheorems, TLAPS

Made == IdsOf(transaction)
Tied == IdsOf(allocation)

Keyed ==
  /\ \A x \in transaction, y \in transaction : x.id = y.id => x = y
  /\ \A a \in allocation, b \in allocation : a.id = b.id => a = b
  /\ \A i \in Made : i.round <= round[i.trade]
  /\ IsFiniteSet(allocation)

Decided ==
  \A i \in Tied :
    /\ status[i.trade] = "processed"
    /\ i \in Made
    /\ \A j \in Tied : j.trade = i.trade => j.round = i.round

Counted ==
  \A t \in Trades \ disturbed :
    /\ status[t] = "processed" => \E i \in Made : i.trade = t
    /\ \A i \in Made : i.trade = t => status[t] = "processed" /\ i \in Tied

Linked ==
  \A d \in Dividends :
    dividend[d].link \in Ids =>
      /\ dividend[d].link \in Made
      /\ dividend[d].link.trade \notin disturbed => status[dividend[d].link.trade] = "processed"

IndInv == TypeOK /\ Keyed /\ Decided /\ Counted /\ Linked

------------------------------------------------------------------------------
(* Uuids                                                                   *)

(* The ids of a set of rows.                                               *)
LEMMA InIds ==
  ASSUME NEW S
  PROVE  \A i : i \in IdsOf(S) <=> \E r \in S : r.id = i
BY SMT DEF IdsOf

(* An id names a trade and a round.                                        *)
LEMMA IdParts ==
  ASSUME NEW i \in Ids
  PROVE  i.trade \in Trades /\ i.round \in Nat /\ i.round >= 1 /\ i.round <= MaxRounds
BY IbkrInboxAssumption DEF Ids

(* Made and Tied are the ids in the two tables.                            *)
LEMMA IdsAreIds ==
  ASSUME TypeOK
  PROVE  /\ Made \subseteq Ids /\ Tied \subseteq Ids
         /\ \A x \in transaction : x.id \in Made /\ x.id \in Ids
         /\ \A a \in allocation : a.id \in Tied /\ a.id \in Ids
         /\ \A i \in Made : \E x \in transaction : x.id = i
         /\ \A i \in Tied : \E a \in allocation : a.id = i
BY DEF TypeOK, Transactions, Allocations, Made, Tied, IdsOf

(* The allocation rows of a trade are those whose id names it.             *)
LEMMA AllocationsAre ==
  ASSUME NEW t
  PROVE  IdsOf(AllocationsOf(t)) = {i \in Tied : i.trade = t}
BY DEF AllocationsOf, IdsOf, Tied

\* The rows of an allocation are new, finite, at least one, and have one uuid each.
LEMMA InsertedRows ==
  ASSUME NEW t \in Trades, NEW entries \in Entries, NEW n \in 1..MaxRounds,
         NEW rows, rows = Inserted(t, entries, n),
         NEW ties, ties = Ties(rows)
  PROVE  /\ rows \subseteq Transactions
         /\ ties \subseteq Allocations
         /\ \E x \in rows : TRUE
         /\ \A x \in rows : x.id.trade = t /\ x.id.round = n
         /\ \A x \in rows, y \in rows : x.id = y.id => x = y
         /\ \A a \in ties, b \in ties : a.id = b.id => a = b
         /\ \A a \in ties : a.id.trade = t /\ a.id.round = n
         /\ IdsOf(ties) = IdsOf(rows)
         /\ IsFiniteSet(ties)
<1> DEFINE fees == {b \in BOOLEAN : b => t \in WithFees}
           row(i, f) == [id |-> [trade |-> t, round |-> n, entry |-> i, fee |-> f],
                         portfolio |-> entries[i], fee |-> f]
<1>1. PICK k \in 1..MaxEntries : entries \in [1..k -> Portfolios]
  BY DEF Entries
<1>2. /\ \A x \in rows : \E i \in 1..k, f \in fees : x = row(i, f)
      /\ \A i \in 1..k, f \in fees : row(i, f) \in rows
  <2>1. DOMAIN entries = 1..k
    BY <1>1
  <2>2. QED
    BY <2>1 DEF Inserted
<1>3. \A i \in 1..k : i \in 1..MaxEntries /\ entries[i] \in Portfolios
  BY <1>1, IbkrInboxAssumption
<1>4. 1 \in 1..k /\ FALSE \in fees /\ fees \subseteq BOOLEAN
  <2>1. 1 \in 1..k
    BY IbkrInboxAssumption
  <2>2. FALSE \in fees /\ fees \subseteq BOOLEAN
    OBVIOUS
  <2>3. QED
    BY <2>1, <2>2
<1> HIDE DEF fees
<1>5. \A i \in 1..k, f \in fees : row(i, f) \in Transactions
  BY <1>3, <1>4 DEF Transactions, Ids
<1>6. rows \subseteq Transactions
  BY <1>2, <1>5
<1>7. row(1, FALSE) \in rows
  BY <1>2, <1>4
<1>8. \A x \in rows : x.id.trade = t /\ x.id.round = n
  BY <1>2
<1>9. ASSUME NEW x \in rows, NEW y \in rows, x.id = y.id PROVE x = y
  <2>1. PICK i \in 1..k, f \in fees : x = row(i, f)
    BY <1>2
  <2>2. PICK j \in 1..k, g \in fees : y = row(j, g)
    BY <1>2
  <2>3. i = j /\ f = g
    BY <1>9, <2>1, <2>2
  <2>4. QED
    BY <2>1, <2>2, <2>3
<1>10. ties \subseteq Allocations
  BY <1>6 DEF Transactions, Allocations, Ties
<1>11. /\ \A a \in ties : \E x \in rows : a = [id |-> x.id, portfolio |-> x.portfolio]
       /\ \A x \in rows : [id |-> x.id, portfolio |-> x.portfolio] \in ties
  BY Zenon DEF Ties
<1>12. ASSUME NEW a \in ties, NEW b \in ties, a.id = b.id PROVE a = b
  <2>1. PICK x \in rows : a.id = x.id /\ a = [id |-> x.id, portfolio |-> x.portfolio]
    BY <1>11
  <2>2. PICK y \in rows : b.id = y.id /\ b = [id |-> y.id, portfolio |-> y.portfolio]
    BY <1>11
  <2>3. x = y
    BY <1>9, <1>12, <2>1, <2>2
  <2>4. QED
    BY <2>1, <2>2, <2>3
<1>13. IdsOf(ties) = IdsOf(rows)
  <2>1. \A a \in ties : \E x \in rows : a.id = x.id
    BY <1>11
  <2>2. ASSUME NEW x \in rows PROVE \E a \in ties : a.id = x.id
    <3>1. [id |-> x.id, portfolio |-> x.portfolio].id = x.id
      OBVIOUS
    <3>2. QED
      BY <1>11, <3>1
  <2>3. \A i : i \in IdsOf(ties) <=> i \in IdsOf(rows)
    BY <2>1, <2>2, InIds, SMT
  <2>4. QED
    BY <2>3, Zenon
<1>14. IsFiniteSet(ties)
  <2> DEFINE S == (1..k) \X BOOLEAN
             tie(s) == [id |-> [trade |-> t, round |-> n, entry |-> s[1], fee |-> s[2]],
                        portfolio |-> entries[s[1]]]
             all == {tie(s) : s \in S}
             f == [s \in S |-> tie(s)]
  <2>1. IsFiniteSet(1..k) /\ IsFiniteSet(BOOLEAN)
    <3>1. IsFiniteSet({TRUE}) /\ IsFiniteSet({FALSE})
      BY FS_Singleton
    <3>2. IsFiniteSet({TRUE} \cup {FALSE})
      BY <3>1, FS_Union
    <3>3. {TRUE} \cup {FALSE} = BOOLEAN
      OBVIOUS
    <3>4. IsFiniteSet(1..k)
      BY IbkrInboxAssumption, FS_Interval
    <3>5. QED
      BY <3>2, <3>3, <3>4
  <2>2. IsFiniteSet(S)
    BY <2>1, FS_Product
  <2>3. f \in Surjection(S, all)
    BY DEF Surjection
  <2>4. IsFiniteSet(all)
    BY <2>2, <2>3, FS_Surjection
  <2>5. ASSUME NEW a \in ties PROVE a \in all
    <3>1. PICK x \in rows : a = [id |-> x.id, portfolio |-> x.portfolio]
      BY <1>11
    <3>2. PICK i \in 1..k, g \in fees : x = row(i, g)
      BY <1>2
    <3>3. <<i, g>> \in S /\ tie(<<i, g>>) = a
      BY <1>4, <3>1, <3>2
    <3>4. QED
      BY <3>3
  <2>6. QED
    BY <2>4, <2>5, FS_Subset
<1>15. QED
  BY <1>6, <1>7, <1>8, <1>9, <1>10, <1>11, <1>12, <1>13, <1>14

------------------------------------------------------------------------------
(* Type correctness                                                        *)

(* A request in flight names the trade or the dividend it has read.        *)
LEMMA RequestParts ==
  ASSUME NEW r \in Requests
  PROVE  /\ r.op = "DeleteIbkrTransaction" => r.trade \in Trades
         /\ r.op # "DeleteIbkrTransaction" => r.dividend \in Dividends /\ r.read \in DividendRows
BY DEF Requests

(* A transaction that is edited keeps its id.                              *)
LEMMA RowsMoved ==
  ASSUME TypeOK, NEW x \in transaction, NEW p \in Portfolios, NEW fee \in BOOLEAN
  PROVE  /\ [x EXCEPT !.portfolio = p, !.fee = fee] \in Transactions
         /\ [x EXCEPT !.portfolio = p, !.fee = fee].id = x.id
         /\ [x EXCEPT !.portfolio = p] \in Transactions
         /\ [x EXCEPT !.portfolio = p].id = x.id
BY DEF TypeOK, Transactions

(* The first tables have their types.                                      *)
LEMMA InitType ==
  ASSUME Init
  PROVE  TypeOK
BY IbkrInboxAssumption DEF Init, TypeOK, NoDividend, DividendRows

(* Decisions about a trade keep the types.                                 *)
LEMMA InboxType ==
  ASSUME TypeOK, NEW t \in Trades, InboxStep(t)
  PROVE  TypeOK'
<1> USE DEF TypeOK
<1>1. ASSUME NEW entries \in Entries, AllocateIbkrTransaction(t, entries) PROVE TypeOK'
  <2>1. round[t] + 1 \in 1..MaxRounds
    BY <1>1, IbkrInboxAssumption DEF AllocateIbkrTransaction
  <2>2. PICK rows : rows = Inserted(t, entries, round[t] + 1)
    OBVIOUS
  <2>3. rows \subseteq Transactions /\ Ties(rows) \subseteq Allocations
    BY <2>1, <2>2, InsertedRows
  <2>4. transaction' = transaction \cup rows /\ allocation' = allocation \cup Ties(rows)
    BY <1>1, <2>2 DEF AllocateIbkrTransaction
  <2>5. QED
    BY <1>1, <2>1, <2>3, <2>4, IbkrInboxAssumption DEF AllocateIbkrTransaction
<1>2. ASSUME NEW entries \in Entries, ModifyAllocations(t, entries) PROVE TypeOK'
  <2>1. round[t] + 1 \in 1..MaxRounds
    BY <1>2, IbkrInboxAssumption DEF ModifyAllocations
  <2>2. PICK rows : rows = Inserted(t, entries, round[t] + 1)
    OBVIOUS
  <2>3. rows \subseteq Transactions /\ Ties(rows) \subseteq Allocations
    BY <2>1, <2>2, InsertedRows
  <2>4. transaction' \subseteq transaction \cup rows /\ allocation' \subseteq allocation \cup Ties(rows)
    BY <1>2, <2>2 DEF ModifyAllocations
  <2>5. QED
    BY <1>2, <2>1, <2>3, <2>4, IbkrInboxAssumption DEF ModifyAllocations
<1>3. CASE UnallocateIbkrTransaction(t)
  BY <1>3 DEF UnallocateIbkrTransaction
<1>4. CASE IgnoreIbkrTransaction(t)
  BY <1>4 DEF IgnoreIbkrTransaction
<1>5. ASSUME NEW D \in SUBSET Dividends, MatchDividend(t, D) PROVE TypeOK'
  <2>1. PICK tx \in [{dividend[d].portfolio : d \in D} -> IdsOf(AllocationsOf(t))] :
          dividend' = [d \in Dividends |-> IF d \in D
                                           THEN [dividend[d] EXCEPT !.link = tx[dividend[d].portfolio]]
                                           ELSE dividend[d]]
    BY <1>5 DEF MatchDividend
  <2>2. IdsOf(AllocationsOf(t)) \subseteq Ids
    BY AllocationsAre, IdsAreIds
  <2>3. ASSUME NEW d \in D PROVE tx[dividend[d].portfolio] \in Ids
    BY <2>1, <2>2
  <2>4. dividend' \in [Dividends -> DividendRows]
    BY <2>1, <2>3 DEF DividendRows
  <2>5. QED
    BY <1>5, <2>4 DEF MatchDividend
<1>6. CASE ReadTradeToDelete(t)
  BY <1>6 DEF ReadTradeToDelete, Requests
<1>7. CASE DeleteIbkrTransaction(t)
  BY <1>7 DEF DeleteIbkrTransaction, AllocationsOf
<1>8. QED
  BY <1>1, <1>2, <1>3, <1>4, <1>5, <1>6, <1>7 DEF InboxStep

(* Only trades are disturbed.                                              *)
LEMMA DisturbsTrades ==
  ASSUME TypeOK, NEW T, T \subseteq Transactions, NEW A
  PROVE  Disturbs(T, A) \subseteq Trades
BY IdParts DEF Disturbs, Transactions

(* Rows lost by foreign keys leave the types alone.                        *)
LEMMA CascadeType ==
  ASSUME TypeOK, NEW p, NEW A, A \subseteq allocation, Cascade(p, A)
  PROVE  TypeOK'
<1> USE DEF TypeOK
<1>1. transaction' \subseteq transaction /\ allocation' \subseteq allocation
      /\ requests' \subseteq requests
  BY DEF Cascade
<1>2. disturbed' = disturbed \cup Disturbs(transaction', allocation')
  BY DEF Cascade
<1>3. disturbed' \subseteq Trades
  BY <1>1, <1>2, DisturbsTrades
<1>4. NoDividend \in DividendRows
  BY DEF NoDividend, DividendRows
<1>5. dividend' \in [Dividends -> DividendRows]
  BY <1>4 DEF Cascade
<1>6. QED
  BY <1>1, <1>3, <1>5 DEF Cascade

\* What UpdateDividend does with its IF and LET taken away.
Rewrites(r, p, link, moved) ==
  /\ link \in {OwnLink, r.read.link}
  /\ moved \subseteq transaction /\ \A x \in moved : x.id = link
  /\ Exists(link)
  /\ dividend' = [dividend EXCEPT ![r.dividend] = [portfolio |-> p, link |-> link]]
  /\ transaction' = (transaction \ moved) \cup {[x EXCEPT !.portfolio = p] : x \in moved}

(* UpdateDividend writes one link and edits at most the transaction it     *)
(* names.                                                                  *)
LEMMA UpdateDividendIs ==
  ASSUME NEW r, NEW p, NEW b \in BOOLEAN, UpdateDividend(r, p, b)
  PROVE  \E link, moved : Rewrites(r, p, link, moved)
<1> DEFINE link  == IF b /\ r.read.link = NoLink THEN OwnLink ELSE r.read.link
           moved == {x \in transaction : b /\ x.id = link}
<1>1. /\ link \in {OwnLink, r.read.link}
      /\ moved \subseteq transaction /\ \A x \in moved : x.id = link
  OBVIOUS
<1>2. /\ Exists(link)
      /\ dividend' = [dividend EXCEPT ![r.dividend] = [portfolio |-> p, link |-> link]]
      /\ transaction' = (transaction \ moved) \cup {[x EXCEPT !.portfolio = p] : x \in moved}
  BY Zenon DEF UpdateDividend
<1> HIDE DEF link, moved
<1>3. Rewrites(r, p, link, moved)
  BY <1>1, <1>2, Zenon DEF Rewrites
<1>4. QED
  BY <1>3

(* Every step keeps the types.                                             *)
LEMMA NextType ==
  ASSUME TypeOK, [Next]_vars
  PROVE  TypeOK'
<1> USE DEF TypeOK
<1>1. ASSUME NEW T \in (SUBSET Trades) \ {{}}, Import(T) PROVE TypeOK'
  BY <1>1 DEF Import
<1>2. ASSUME NEW t \in Trades, InboxStep(t) PROVE TypeOK'
  BY <1>2, InboxType
<1>3. ASSUME NEW x \in transaction, DeleteTransaction(x) PROVE TypeOK'
  BY <1>3 DEF DeleteTransaction
<1>4. ASSUME NEW x \in transaction, NEW p \in Portfolios, NEW fee \in BOOLEAN,
             UpdateTransaction(x, p, fee)
      PROVE  TypeOK'
  <2>1. PICK y : y = [x EXCEPT !.portfolio = p, !.fee = fee]
    OBVIOUS
  <2>2. y \in Transactions /\ transaction' = (transaction \ {x}) \cup {y}
    BY <1>4, <2>1, RowsMoved DEF UpdateTransaction
  <2>3. QED
    BY <1>4, <2>2 DEF UpdateTransaction
<1>5. ASSUME NEW d \in Dividends, NEW p \in Portfolios, NEW l \in {NoLink, OwnLink},
             CreateDividend(d, p, l)
      PROVE  TypeOK'
  BY <1>5 DEF CreateDividend, DividendRows
<1>6. ASSUME NEW d \in Dividends, NEW op \in {"DeleteDividend", "UpdateDividend"},
             ReadDividend(d, op)
      PROVE  TypeOK'
  <2>1. [op |-> op, dividend |-> d, read |-> dividend[d]] \in Requests
    BY DEF Requests
  <2>2. QED
    BY <1>6, <2>1 DEF ReadDividend
<1>7. ASSUME NEW r \in requests, DeleteDividend(r) PROVE TypeOK'
  <2>1. r.dividend \in Dividends
    BY <1>7, RequestParts DEF DeleteDividend
  <2>2. transaction' \subseteq transaction /\ allocation' \subseteq allocation
        /\ requests' \subseteq requests
    BY <1>7 DEF DeleteDividend
  <2>3. disturbed' = disturbed \cup Disturbs(transaction', allocation')
    BY <1>7 DEF DeleteDividend
  <2>4. disturbed' \subseteq Trades
    BY <2>2, <2>3, DisturbsTrades
  <2>5. NoDividend \in DividendRows
    BY DEF NoDividend, DividendRows
  <2>6. dividend' \in [Dividends -> DividendRows]
    BY <1>7, <2>1, <2>5 DEF DeleteDividend
  <2>7. QED
    BY <1>7, <2>2, <2>4, <2>6 DEF DeleteDividend
<1>8. ASSUME NEW r \in requests, NEW p \in Portfolios, NEW b \in BOOLEAN, UpdateDividend(r, p, b)
      PROVE  TypeOK'
  <2>1. r.dividend \in Dividends /\ r.read \in DividendRows
    BY <1>8, RequestParts DEF UpdateDividend
  <2>2. PICK link, moved : Rewrites(r, p, link, moved)
    BY <1>8, UpdateDividendIs
  <2>3. link \in Ids \cup {NoLink, OwnLink}
    BY <2>1, <2>2 DEF Rewrites, DividendRows
  <2>4. dividend' \in [Dividends -> DividendRows]
    BY <2>1, <2>2, <2>3 DEF Rewrites, DividendRows
  <2>5. transaction' \subseteq Transactions
    <3>1. moved \subseteq transaction
          /\ transaction' = (transaction \ moved) \cup {[x EXCEPT !.portfolio = p] : x \in moved}
      BY <2>2 DEF Rewrites
    <3>2. \A x \in moved : [x EXCEPT !.portfolio = p] \in Transactions
      BY <3>1, RowsMoved
    <3>3. QED
      BY <3>1, <3>2
  <2>6. QED
    BY <1>8, <2>4, <2>5 DEF UpdateDividend
<1>9. ASSUME NEW r \in requests, EndRequest(r) PROVE TypeOK'
  BY <1>9 DEF EndRequest
<1>10. ASSUME NEW p \in Portfolios, DeletePortfolio(p) PROVE TypeOK'
  BY <1>10, CascadeType DEF DeletePortfolio
<1>11. ASSUME NEW p \in Portfolios, DeletePortfolioFund(p) PROVE TypeOK'
  BY <1>11, CascadeType DEF DeletePortfolioFund
<1>12. CASE UNCHANGED vars
  BY <1>12 DEF vars
<1>13. QED
  BY <1>1, <1>2, <1>3, <1>4, <1>5, <1>6, <1>7, <1>8, <1>9, <1>10, <1>11, <1>12 DEF Next

------------------------------------------------------------------------------
(* Steps that change neither the uuids nor which trades are processed      *)

\* What such a step must not disturb: Linked is left to the step.
LEMMA UuidsKept ==
  ASSUME IndInv, TypeOK',
         UNCHANGED <<round, allocation, disturbed>>, Made' = Made,
         \A t \in Trades : status'[t] = "processed" <=> status[t] = "processed",
         \A x \in transaction', y \in transaction' : x.id = y.id => x = y,
         Linked'
  PROVE  IndInv'
<1> USE DEF IndInv
<1>1. Tied' = Tied
  BY DEF Tied
<1>2. /\ Made \subseteq Ids /\ Tied \subseteq Ids
      /\ \A i \in Ids : i.trade \in Trades
  BY IdsAreIds, IdParts
<1>3. Keyed'
  BY <1>1 DEF Keyed
<1>4. Decided'
  BY <1>1, <1>2 DEF Decided
<1>5. Counted'
  BY <1>1 DEF Counted
<1>6. QED
  BY <1>3, <1>4, <1>5

\* The same for a step that leaves the transactions and the dividends alone too.
LEMMA RowsKept ==
  ASSUME IndInv, TypeOK', UNCHANGED <<round, transaction, allocation, dividend, disturbed>>,
         \A t \in Trades : status'[t] = "processed" <=> status[t] = "processed"
  PROVE  IndInv'
<1> USE DEF IndInv
<1>1. Made' = Made
  BY DEF Made
<1>2. \A i \in Ids : i.trade \in Trades
  BY IdParts
<1>3. Linked'
  BY <1>1, <1>2 DEF Linked
<1>4. \A x \in transaction', y \in transaction' : x.id = y.id => x = y
  BY DEF Keyed
<1>5. QED
  BY <1>1, <1>3, <1>4, UuidsKept

\* And for one that writes dividends, each new link to a transaction of a processed trade.
LEMMA DividendsWritten ==
  ASSUME IndInv, TypeOK', UNCHANGED <<round, transaction, allocation, status, disturbed>>,
         \A d \in Dividends :
           \/ dividend'[d] = dividend[d]
           \/ dividend'[d].link \in Ids => /\ dividend'[d].link \in Made
                                           /\ status[dividend'[d].link.trade] = "processed"
  PROVE  IndInv'
<1> USE DEF IndInv
<1>1. Made' = Made
  BY DEF Made
<1>2. Linked'
  BY <1>1 DEF Linked
<1>3. \A x \in transaction', y \in transaction' : x.id = y.id => x = y
  BY DEF Keyed
<1>4. QED
  BY <1>1, <1>2, <1>3, UuidsKept

------------------------------------------------------------------------------
(* Steps that delete rows                                                  *)

\* Rows that go as foreign keys say, where the trades this disturbs are noted.
LEMMA RowsLost ==
  ASSUME IndInv, TypeOK', UNCHANGED <<status, round>>,
         transaction' \subseteq transaction, allocation' \subseteq allocation,
         Tied' \subseteq Made',
         disturbed' = disturbed \cup Disturbs(transaction', allocation'),
         \A d \in Dividends :
           dividend'[d].link \in Ids => /\ dividend'[d].link = dividend[d].link
                                        /\ dividend'[d].link \in Made'
  PROVE  IndInv'
<1> USE DEF IndInv
<1>1. Made' \subseteq Made /\ Tied' \subseteq Tied
  BY DEF Made, Tied, IdsOf
<1>2. Keyed'
  BY <1>1, FS_Subset DEF Keyed
<1>3. Decided'
  BY <1>1 DEF Decided
<1>4. ASSUME NEW t \in Trades, t \notin disturbed', status[t] = "processed"
      PROVE  \E i \in Made' : i.trade = t
  <2>1. PICK a \in allocation' : a.id.trade = t
    BY <1>4 DEF Disturbs
  <2>2. a.id \in Tied'
    BY <2>1 DEF Tied, IdsOf
  <2>3. QED
    BY <2>1, <2>2
<1>5. ASSUME NEW t \in Trades, t \notin disturbed', NEW i \in Made', i.trade = t
      PROVE  status[t] = "processed" /\ i \in Tied'
  <2>1. status[t] = "processed" /\ i \in Tied
    BY <1>1, <1>5 DEF Counted
  <2>2. PICK x \in transaction' : x.id = i
    BY DEF Made, IdsOf
  <2>3. i \in Tied \ Tied' => t \in Disturbs(transaction', allocation')
    BY <1>5, <2>2 DEF Disturbs, Tied
  <2>4. QED
    BY <1>5, <2>1, <2>3
<1>6. Counted'
  BY <1>4, <1>5 DEF Counted
<1>7. Linked'
  BY <1>1 DEF Linked
<1>8. QED
  BY <1>2, <1>3, <1>6, <1>7

(* Foreign keys keep the invariant, since whom they hit is noted.          *)
LEMMA CascadeStep ==
  ASSUME IndInv, TypeOK', NEW p, NEW A, A \subseteq allocation, Cascade(p, A)
  PROVE  IndInv'
<1> USE DEF IndInv
<1>1. /\ UNCHANGED <<status, round>>
      /\ transaction' \subseteq transaction /\ allocation' \subseteq allocation
      /\ disturbed' = disturbed \cup Disturbs(transaction', allocation')
  BY DEF Cascade
<1>2. \A i \in Made : i \notin IdsOf(transaction \ transaction') => i \in Made'
  BY InIds DEF Made, IdsOf
<1>3. Tied' \subseteq Made'
  <2>1. ASSUME NEW i \in Tied' PROVE i \in Made'
    <3>1. PICK a \in allocation' : a.id = i
      BY DEF Tied, IdsOf
    <3>2. a \in allocation /\ a.id \notin IdsOf(transaction \ transaction')
      BY <3>1 DEF Cascade
    <3>3. a.id \in Made
      BY <3>2, IdsAreIds DEF Decided
    <3>4. QED
      BY <1>2, <3>1, <3>2, <3>3
  <2>2. QED
    BY <2>1
<1>4. ASSUME NEW d \in Dividends, dividend'[d].link \in Ids
      PROVE  dividend'[d].link = dividend[d].link /\ dividend'[d].link \in Made'
  <2>1. NoDividend.link \notin Ids
    BY LinkAssumption DEF NoDividend
  <2>2. /\ dividend[d].portfolio # p
        /\ dividend'[d] = dividend[d]
    BY <1>4, <2>1 DEF Cascade
  <2>3. dividend[d].link \notin IdsOf(transaction \ transaction')
    BY <2>2 DEF Cascade
  <2>4. dividend[d].link \in Made
    BY <1>4, <2>2 DEF Linked
  <2>5. QED
    BY <1>2, <2>2, <2>3, <2>4
<1>5. QED
  BY <1>1, <1>3, <1>4, RowsLost

(* So does the deletion of a dividend, with its transaction.               *)
LEMMA DeleteDividendStep ==
  ASSUME IndInv, TypeOK', NEW r \in requests, DeleteDividend(r)
  PROVE  IndInv'
<1> USE DEF IndInv
<1>1. /\ UNCHANGED <<status, round>>
      /\ transaction' = {x \in transaction : x.id # r.read.link}
      /\ allocation' = {a \in allocation : a.id # r.read.link}
      /\ disturbed' = disturbed \cup Disturbs(transaction', allocation')
  BY DEF DeleteDividend
<1>2. \A i \in Made : i # r.read.link => i \in Made'
  BY <1>1 DEF Made, IdsOf
<1>3. Tied' \subseteq Made'
  <2>1. ASSUME NEW i \in Tied' PROVE i \in Made'
    <3>1. PICK a \in allocation : a.id = i /\ a.id # r.read.link
      BY <1>1 DEF Tied, IdsOf
    <3>2. a.id \in Made
      BY <3>1, IdsAreIds DEF Decided
    <3>3. QED
      BY <1>2, <3>1, <3>2
  <2>2. QED
    BY <2>1
<1>4. ASSUME NEW d \in Dividends, dividend'[d].link \in Ids
      PROVE  dividend'[d].link = dividend[d].link /\ dividend'[d].link \in Made'
  <2>1. NoDividend.link \notin Ids
    BY LinkAssumption DEF NoDividend
  <2>2. dividend' = [dividend EXCEPT ![r.dividend] = NoDividend]
    BY DEF DeleteDividend
  <2>3. d # r.dividend /\ dividend'[d] = dividend[d]
    BY <1>4, <2>1, <2>2 DEF TypeOK
  <2>4. dividend[d].link # r.read.link
    BY <1>4, <2>3 DEF DeleteDividend
  <2>5. dividend[d].link \in Made
    BY <1>4, <2>3 DEF Linked
  <2>6. QED
    BY <1>2, <2>3, <2>4, <2>5
<1>5. transaction' \subseteq transaction /\ allocation' \subseteq allocation
  BY <1>1
<1>6. QED
  BY <1>1, <1>3, <1>4, <1>5, RowsLost

\* The allocation rows go, the transactions stay: a trade that had such rows is disturbed.
LEMMA DeleteTradeStep ==
  ASSUME IndInv, TypeOK', NEW t \in Trades, DeleteIbkrTransaction(t)
  PROVE  IndInv'
<1> USE DEF IndInv
<1>1. /\ status' = [status EXCEPT ![t] = "absent"]
      /\ allocation' = allocation \ AllocationsOf(t)
      /\ disturbed' = disturbed \cup {a.id.trade : a \in AllocationsOf(t)}
      /\ UNCHANGED <<round, transaction, dividend>>
  BY DEF DeleteIbkrTransaction
<1>2. Made' = Made
  BY <1>1 DEF Made
<1>3. Tied' = {i \in Tied : i.trade # t}
  BY <1>1 DEF Tied, IdsOf, AllocationsOf
<1>4. /\ \A u \in Trades : u # t => status'[u] = status[u]
      /\ status'[t] # "processed"
  BY <1>1 DEF TypeOK
<1>5. t \notin disturbed' => t \notin disturbed /\ \A i \in Tied : i.trade # t
  BY <1>1 DEF Tied, IdsOf, AllocationsOf
<1>6. \A i \in Made : i.trade = t => t \in disturbed'
  BY <1>5 DEF Counted
<1>7. /\ Made \subseteq Ids /\ Tied \subseteq Ids
      /\ \A i \in Ids : i.trade \in Trades
  BY IdsAreIds, IdParts
<1>8. Keyed'
  BY <1>1, <1>2, FS_Subset DEF Keyed
<1>9. Decided'
  BY <1>2, <1>3, <1>4, <1>7 DEF Decided
<1>10. Counted'
  BY <1>1, <1>2, <1>3, <1>4, <1>6 DEF Counted
<1>11. Linked'
  BY <1>1, <1>2, <1>4, <1>6, <1>7 DEF Linked
<1>12. QED
  BY <1>8, <1>9, <1>10, <1>11

\* The rows of the decision taken back are all the trade's transactions, unless it is
\* disturbed, so none is left and no dividend is reinvested in one.
LEMMA UnallocateStep ==
  ASSUME IndInv, TypeOK', NEW t \in Trades, UnallocateIbkrTransaction(t)
  PROVE  IndInv'
<1> USE DEF IndInv
<1>1. /\ status' = [status EXCEPT ![t] = "pending"]
      /\ allocation' = allocation \ AllocationsOf(t)
      /\ transaction' = {x \in transaction : x.id \notin IdsOf(AllocationsOf(t))}
      /\ UNCHANGED <<round, dividend, disturbed>>
  BY DEF UnallocateIbkrTransaction
<1>2. IdsOf(AllocationsOf(t)) = {i \in Tied : i.trade = t}
  BY AllocationsAre
<1>3. Made' = {i \in Made : ~(i \in Tied /\ i.trade = t)}
  BY <1>1, <1>2 DEF Made, IdsOf
<1>4. Tied' = {i \in Tied : i.trade # t}
  BY <1>1 DEF Tied, IdsOf, AllocationsOf
<1>5. /\ \A u \in Trades : u # t => status'[u] = status[u]
      /\ status'[t] # "processed"
  BY <1>1 DEF TypeOK
<1>6. \A i \in Made : i.trade = t /\ t \notin disturbed => i \in Tied
  BY DEF Counted
<1>7. /\ Made \subseteq Ids /\ Tied \subseteq Ids
      /\ \A i \in Ids : i.trade \in Trades
  BY IdsAreIds, IdParts
<1>8. Keyed'
  BY <1>1, <1>3, FS_Subset DEF Keyed
<1>9. Decided'
  BY <1>3, <1>4, <1>5, <1>7 DEF Decided
<1>10. Counted'
  BY <1>1, <1>3, <1>4, <1>5, <1>6 DEF Counted
<1>11. \A d \in Dividends : ~(dividend[d].link \in Tied /\ dividend[d].link.trade = t)
  BY <1>2 DEF UnallocateIbkrTransaction, CanUnallocate, Restricts
<1>12. Linked'
  BY <1>1, <1>3, <1>5, <1>6, <1>7, <1>11 DEF Linked
<1>13. QED
  BY <1>8, <1>9, <1>10, <1>12

\* A trade goes back to the inbox with its last allocation row, and only with it.
LEMMA DeleteTransactionStep ==
  ASSUME IndInv, TypeOK', NEW x \in transaction, DeleteTransaction(x)
  PROVE  IndInv'
<1> USE DEF IndInv
<1> DEFINE t == x.id.trade
<1>1. /\ status' = [u \in Trades |-> IF u = x.id.trade /\ IsLast(x, u) THEN "pending" ELSE status[u]]
      /\ transaction' = transaction \ {x}
      /\ allocation' = {a \in allocation : a.id # x.id}
      /\ UNCHANGED <<round, dividend, disturbed>>
  BY DEF DeleteTransaction
<1>2. x.id \in Made /\ x.id \in Ids /\ t \in Trades
  BY IdsAreIds, IdParts
<1>3. Made' = Made \ {x.id}
  BY <1>1 DEF Made, IdsOf, Keyed
<1>4. Tied' = Tied \ {x.id}
  BY <1>1 DEF Tied, IdsOf
<1>5. /\ \A u \in Trades : u # t => status'[u] = status[u]
      /\ IsLast(x, t) => status'[t] # "processed"
      /\ ~IsLast(x, t) => status'[t] = status[t]
  BY <1>1, <1>2 DEF TypeOK
<1>6. ASSUME IsLast(x, t), NEW i \in Tied, i.trade = t PROVE i = x.id
  <2>1. PICK a \in allocation : a.id = i
    BY IdsAreIds
  <2>2. PICK b \in allocation : b.id = x.id
    BY <1>6, IdsAreIds DEF IsLast, Tied
  <2>3. a \in AllocationsOf(t) /\ b \in AllocationsOf(t)
    BY <1>6, <2>1, <2>2 DEF AllocationsOf
  <2>4. IsFiniteSet(AllocationsOf(t)) /\ Cardinality(AllocationsOf(t)) = 1
    BY <1>6, FS_Subset DEF Keyed, AllocationsOf, IsLast
  <2>5. PICK c : AllocationsOf(t) = {c}
    BY <2>4, FS_Singleton
  <2>6. QED
    BY <2>1, <2>2, <2>3, <2>5
<1>7. ASSUME ~IsLast(x, t), x.id \in Tied PROVE \E i \in Tied' : i.trade = t
  <2>1. PICK b \in allocation : b.id = x.id
    BY <1>7, IdsAreIds
  <2>2. b \in AllocationsOf(t) /\ Cardinality(AllocationsOf(t)) # 1
    BY <1>7, <2>1 DEF AllocationsOf, IsLast, Tied
  <2>3. AllocationsOf(t) # {b}
    BY <2>2, FS_Singleton
  <2>4. PICK a \in allocation : a # b /\ a.id.trade = t
    BY <2>2, <2>3 DEF AllocationsOf
  <2>5. a.id # x.id /\ a.id \in Tied
    BY <2>1, <2>4, IdsAreIds DEF Keyed
  <2>6. QED
    BY <1>4, <2>4, <2>5
<1>8. /\ Made \subseteq Ids /\ Tied \subseteq Ids /\ Tied \subseteq Made
      /\ \A i \in Ids : i.trade \in Trades
  BY IdsAreIds, IdParts DEF Decided
<1>9. t \notin disturbed => x.id \in Tied
  BY <1>2 DEF Counted
<1> HIDE DEF t
<1>10. Keyed'
  BY <1>1, <1>3, FS_Subset DEF Keyed
<1>11. Decided'
  BY <1>3, <1>4, <1>5, <1>6, <1>8 DEF Decided
<1>12. Counted'
  <2>1. ASSUME NEW u \in Trades \ disturbed, u # t
        PROVE  /\ status'[u] = "processed" => \E i \in Made' : i.trade = u
               /\ \A i \in Made' : i.trade = u => status'[u] = "processed" /\ i \in Tied'
    BY <1>3, <1>4, <1>5, <2>1 DEF Counted, t
  <2>2. ASSUME t \in Trades \ disturbed
        PROVE  /\ status'[t] = "processed" => \E i \in Made' : i.trade = t
               /\ \A i \in Made' : i.trade = t => status'[t] = "processed" /\ i \in Tied'
    <3>1. CASE IsLast(x, t)
      BY <1>3, <1>4, <1>5, <1>6, <2>2, <3>1 DEF Counted
    <3>2. CASE ~IsLast(x, t)
      BY <1>3, <1>4, <1>5, <1>7, <1>8, <1>9, <2>2, <3>2 DEF Counted
    <3>3. QED
      BY <3>1, <3>2
  <2>3. QED
    BY <1>1, <2>1, <2>2 DEF Counted
<1>13. Linked'
  <2>1. ASSUME NEW d \in Dividends, dividend[d].link \in Ids
        PROVE  /\ dividend[d].link \in Made'
               /\ dividend[d].link.trade \notin disturbed =>
                    status'[dividend[d].link.trade] = "processed"
    <3>1. dividend[d].link \in Made /\ dividend[d].link # x.id
      BY <2>1 DEF Linked, DeleteTransaction, Restricts
    <3>2. CASE dividend[d].link.trade = t /\ t \notin disturbed
      <4>1. dividend[d].link \in Tied
        BY <1>8, <3>1, <3>2 DEF Counted
      <4>2. ~IsLast(x, t)
        BY <1>6, <3>1, <3>2, <4>1
      <4>3. QED
        BY <1>3, <1>5, <2>1, <3>1, <3>2, <4>2 DEF Linked
    <3>3. CASE dividend[d].link.trade # t \/ t \in disturbed
      BY <1>3, <1>5, <1>8, <2>1, <3>1, <3>3 DEF Linked
    <3>4. QED
      BY <3>2, <3>3
  <2>2. QED
    BY <1>1, <2>1 DEF Linked
<1>14. QED
  BY <1>10, <1>11, <1>12, <1>13

------------------------------------------------------------------------------
(* Steps that insert rows                                                  *)

\* The rows of an allocation, with uuids of a round that its trade has not had yet, take
\* the place of all rows that tie the trade to transactions.  An allocation replaces no
\* row: the trade was pending.
LEMMA RowsInserted ==
  ASSUME IndInv, TypeOK', NEW t \in Trades, NEW entries \in Entries,
         NEW rows, rows = Inserted(t, entries, round[t] + 1), round[t] < MaxRounds,
         transaction' = {x \in transaction : x.id \notin IdsOf(AllocationsOf(t))} \cup rows,
         allocation' = (allocation \ AllocationsOf(t)) \cup Ties(rows),
         round' = [round EXCEPT ![t] = @ + 1],
         status' = [status EXCEPT ![t] = "processed"],
         ~Restricts(IdsOf(AllocationsOf(t))),
         UNCHANGED <<dividend, disturbed>>
  PROVE  IndInv'
<1> USE DEF IndInv
<1> DEFINE n == round[t] + 1
<1>1. n \in 1..MaxRounds /\ round[t] \in Nat
  BY IbkrInboxAssumption DEF TypeOK
<1>2. PICK ties : ties = Ties(rows)
  OBVIOUS
<1>3. /\ rows \subseteq Transactions
      /\ \E x \in rows : TRUE
      /\ \A x \in rows : x.id.trade = t /\ x.id.round = n
      /\ \A x \in rows, y \in rows : x.id = y.id => x = y
      /\ \A a \in ties, b \in ties : a.id = b.id => a = b
      /\ \A a \in ties : a.id.trade = t /\ a.id.round = n
      /\ IdsOf(ties) = IdsOf(rows)
      /\ IsFiniteSet(ties)
  BY <1>1, <1>2, InsertedRows
<1>4. PICK new : new = IdsOf(rows)
  OBVIOUS
<1>5. /\ \E i \in new : i.trade = t
      /\ \A i \in new : i.trade = t /\ i.round = n
  BY <1>3, <1>4 DEF IdsOf
<1>6. IdsOf(AllocationsOf(t)) = {i \in Tied : i.trade = t}
  BY AllocationsAre
<1>7. Made' = {i \in Made : ~(i \in Tied /\ i.trade = t)} \cup new
  BY <1>4, <1>6 DEF Made, IdsOf
<1>8. Tied' = {i \in Tied : i.trade # t} \cup new
  <2>1. IdsOf(allocation \ AllocationsOf(t)) = {i \in Tied : i.trade # t}
    BY DEF Tied, IdsOf, AllocationsOf
  <2>2. \A A, B : IdsOf(A \cup B) = IdsOf(A) \cup IdsOf(B)
    BY DEF IdsOf
  <2>3. Tied' = IdsOf((allocation \ AllocationsOf(t)) \cup ties)
    BY <1>2 DEF Tied
  <2>4. QED
    BY <1>3, <1>4, <2>1, <2>2, <2>3
<1>9. /\ \A u \in Trades : u # t => status'[u] = status[u] /\ round'[u] = round[u]
      /\ status'[t] = "processed" /\ round'[t] = n
  BY DEF TypeOK
<1>10. /\ Made \subseteq Ids /\ Tied \subseteq Made
       /\ \A i \in Ids : i.trade \in Trades /\ i.round \in Nat
  BY IdsAreIds, IdParts DEF Decided
<1>11. \A i \in Made : i.trade = t => i.round < n
  BY <1>1, <1>10 DEF Keyed
<1>12. \A i \in Made : i \notin new
  BY <1>1, <1>5, <1>10, <1>11
<1> HIDE DEF n
<1>13. Keyed'
  <2>1. ASSUME NEW x \in transaction', NEW y \in transaction', x.id = y.id PROVE x = y
    <3>1. \A z \in transaction : z.id \in Made
      BY IdsAreIds
    <3>2. \A z \in rows : z.id \in new
      BY <1>4 DEF IdsOf
    <3>3. QED
      BY <1>3, <1>12, <2>1, <3>1, <3>2 DEF Keyed
  <2>2. ASSUME NEW a \in allocation', NEW b \in allocation', a.id = b.id PROVE a = b
    <3>1. \A z \in allocation : z.id \in Made
      BY <1>10, IdsAreIds
    <3>2. \A z \in ties : z.id \in new
      BY <1>3, <1>4 DEF IdsOf
    <3>3. QED
      BY <1>2, <1>3, <1>12, <2>2, <3>1, <3>2 DEF Keyed
  <2>3. \A i \in Made' : i.round <= round'[i.trade]
    BY <1>1, <1>5, <1>7, <1>9, <1>10, <1>11 DEF Keyed
  <2>4. IsFiniteSet(allocation')
    BY <1>2, <1>3, FS_Subset, FS_Union DEF Keyed
  <2>5. QED
    BY <2>1, <2>2, <2>3, <2>4 DEF Keyed
<1>14. Decided'
  BY <1>5, <1>7, <1>8, <1>9, <1>10 DEF Decided
<1>15. Counted'
  <2>1. ASSUME NEW u \in Trades \ disturbed
        PROVE  /\ status'[u] = "processed" => \E i \in Made' : i.trade = u
               /\ \A i \in Made' : i.trade = u => status'[u] = "processed" /\ i \in Tied'
    <3>1. CASE u = t
      BY <1>5, <1>7, <1>8, <1>9, <3>1 DEF Counted
    <3>2. CASE u # t
      BY <1>5, <1>7, <1>8, <1>9, <3>2 DEF Counted
    <3>3. QED
      BY <3>1, <3>2
  <2>2. QED
    BY <2>1 DEF Counted
<1>16. \A d \in Dividends : ~(dividend[d].link \in Tied /\ dividend[d].link.trade = t)
  BY <1>6 DEF Restricts
<1>17. Linked'
  BY <1>7, <1>9, <1>10, <1>16 DEF Linked
<1>18. QED
  BY <1>13, <1>14, <1>15, <1>17

(* An allocation is a decision and its rows.                               *)
LEMMA AllocateStep ==
  ASSUME IndInv, TypeOK', NEW t \in Trades, NEW entries \in Entries,
         AllocateIbkrTransaction(t, entries)
  PROVE  IndInv'
<1> USE DEF IndInv
<1>1. PICK rows : rows = Inserted(t, entries, round[t] + 1)
  OBVIOUS
<1>2. AllocationsOf(t) = {} /\ IdsOf(AllocationsOf(t)) = {}
  BY IdsAreIds DEF AllocateIbkrTransaction, AllocationsOf, Decided, IdsOf
<1>3. /\ transaction' = {x \in transaction : x.id \notin IdsOf(AllocationsOf(t))} \cup rows
      /\ allocation' = (allocation \ AllocationsOf(t)) \cup Ties(rows)
      /\ ~Restricts(IdsOf(AllocationsOf(t)))
  BY <1>1, <1>2 DEF AllocateIbkrTransaction, Restricts
<1>4. QED
  BY <1>1, <1>3, RowsInserted DEF AllocateIbkrTransaction

(* A modification is one taken back and another made.                      *)
LEMMA ModifyStep ==
  ASSUME IndInv, TypeOK', NEW t \in Trades, NEW entries \in Entries,
         ModifyAllocations(t, entries)
  PROVE  IndInv'
<1> USE DEF IndInv
<1>1. PICK rows : rows = Inserted(t, entries, round[t] + 1)
  OBVIOUS
<1>2. status' = [status EXCEPT ![t] = "processed"]
  BY DEF ModifyAllocations, CanUnallocate, TypeOK
<1>3. QED
  BY <1>1, <1>2, RowsInserted DEF ModifyAllocations, CanUnallocate

(* A match links dividends to transactions of its trade.                   *)
LEMMA MatchStep ==
  ASSUME IndInv, TypeOK', NEW t \in Trades, NEW D \in SUBSET Dividends, MatchDividend(t, D)
  PROVE  IndInv'
<1> USE DEF IndInv
<1>1. PICK tx \in [{dividend[d].portfolio : d \in D} -> IdsOf(AllocationsOf(t))] :
        dividend' = [d \in Dividends |-> IF d \in D
                                         THEN [dividend[d] EXCEPT !.link = tx[dividend[d].portfolio]]
                                         ELSE dividend[d]]
  BY DEF MatchDividend
<1>2. IdsOf(AllocationsOf(t)) = {i \in Tied : i.trade = t}
  BY AllocationsAre
<1>3. ASSUME NEW d \in Dividends, d \in D
      PROVE  dividend'[d].link \in Made /\ status[dividend'[d].link.trade] = "processed"
  <2>1. tx[dividend[d].portfolio] \in IdsOf(AllocationsOf(t))
    BY <1>1, <1>3
  <2>2. dividend[d] \in DividendRows
    BY DEF TypeOK
  <2>3. dividend'[d].link = tx[dividend[d].portfolio]
    BY <1>1, <1>3, <2>2 DEF DividendRows
  <2>4. QED
    BY <1>2, <2>1, <2>3 DEF Decided
<1>4. \A d \in Dividends : d \notin D => dividend'[d] = dividend[d]
  BY <1>1
<1>5. QED
  BY <1>3, <1>4, DividendsWritten DEF MatchDividend

(* An edited transaction keeps its id and with it its ties.                *)
LEMMA UpdateTransactionStep ==
  ASSUME IndInv, TypeOK', NEW x \in transaction, NEW p \in Portfolios, NEW fee \in BOOLEAN,
         UpdateTransaction(x, p, fee)
  PROVE  IndInv'
<1> USE DEF IndInv
<1>1. PICK y : y = [x EXCEPT !.portfolio = p, !.fee = fee]
  OBVIOUS
<1>2. y.id = x.id /\ transaction' = (transaction \ {x}) \cup {y}
  BY <1>1, RowsMoved DEF UpdateTransaction
<1>3. Made' = Made
  BY <1>2 DEF Made, IdsOf
<1>4. \A v \in transaction', w \in transaction' : v.id = w.id => v = w
  BY <1>2 DEF Keyed
<1>5. Linked'
  BY <1>3 DEF Linked, UpdateTransaction
<1>6. QED
  BY <1>3, <1>4, <1>5, UuidsKept DEF UpdateTransaction

\* Whatever link the request read is checked against the transactions when it is written.
LEMMA UpdateDividendStep ==
  ASSUME IndInv, TypeOK', NEW r \in requests, NEW p \in Portfolios, NEW b \in BOOLEAN,
         UpdateDividend(r, p, b)
  PROVE  IndInv'
<1> USE DEF IndInv
<1>1. r.dividend \in Dividends /\ r.read \in DividendRows
  BY RequestParts DEF UpdateDividend, TypeOK
<1>2. PICK link, moved : Rewrites(r, p, link, moved)
  BY UpdateDividendIs
<1>3. moved \subseteq transaction /\ Exists(link)
      /\ dividend' = [dividend EXCEPT ![r.dividend] = [portfolio |-> p, link |-> link]]
  BY <1>2 DEF Rewrites
<1>4. PICK f : f = [x \in moved |-> [x EXCEPT !.portfolio = p]]
  OBVIOUS
<1>5. \A x \in moved : f[x].id = x.id
  BY <1>3, <1>4, RowsMoved
<1>6. transaction' = (transaction \ moved) \cup {f[x] : x \in moved}
  BY <1>2, <1>4 DEF Rewrites
<1>7. Made' = Made
  BY <1>3, <1>5, <1>6 DEF Made, IdsOf
<1>8. \A v \in transaction', w \in transaction' : v.id = w.id => v = w
  BY <1>3, <1>5, <1>6 DEF Keyed
<1>9. Linked'
  <2>1. ASSUME link \in Ids
        PROVE  link \in Made /\ (link.trade \notin disturbed => status[link.trade] = "processed")
    <3>1. link \in Made /\ link.trade \in Trades
      BY <1>3, <2>1, IdParts DEF Exists, Made
    <3>2. QED
      BY <3>1 DEF Counted
  <2>2. /\ dividend'[r.dividend].link = link
        /\ \A d \in Dividends : d # r.dividend => dividend'[d] = dividend[d]
    BY <1>1, <1>3 DEF TypeOK
  <2>3. QED
    BY <1>7, <2>1, <2>2 DEF Linked, UpdateDividend
<1>10. QED
  BY <1>7, <1>8, <1>9, UuidsKept DEF UpdateDividend

------------------------------------------------------------------------------
(* The invariant                                                           *)

(* Every decision about a trade keeps the invariant.                       *)
LEMMA InboxStepKeeps ==
  ASSUME IndInv, TypeOK', NEW t \in Trades, InboxStep(t)
  PROVE  IndInv'
<1>1. ASSUME NEW entries \in Entries, AllocateIbkrTransaction(t, entries) PROVE IndInv'
  BY <1>1, AllocateStep
<1>2. ASSUME NEW entries \in Entries, ModifyAllocations(t, entries) PROVE IndInv'
  BY <1>2, ModifyStep
<1>3. CASE UnallocateIbkrTransaction(t)
  BY <1>3, UnallocateStep
<1>4. CASE IgnoreIbkrTransaction(t)
  <2>1. \A u \in Trades : status'[u] = "processed" <=> status[u] = "processed"
    BY <1>4 DEF IgnoreIbkrTransaction, IndInv, TypeOK
  <2>2. QED
    BY <1>4, <2>1, RowsKept DEF IgnoreIbkrTransaction
<1>5. ASSUME NEW D \in SUBSET Dividends, MatchDividend(t, D) PROVE IndInv'
  BY <1>5, MatchStep
<1>6. CASE ReadTradeToDelete(t)
  BY <1>6, RowsKept DEF ReadTradeToDelete
<1>7. CASE DeleteIbkrTransaction(t)
  BY <1>7, DeleteTradeStep
<1>8. QED
  BY <1>1, <1>2, <1>3, <1>4, <1>5, <1>6, <1>7 DEF InboxStep

(* The first tables satisfy the invariant.                                 *)
LEMMA InitInv ==
  ASSUME Init
  PROVE  IndInv
<1>1. TypeOK
  BY InitType
<1>2. Made = {} /\ Tied = {}
  BY DEF Init, Made, Tied, IdsOf
<1>3. Keyed
  BY <1>2, FS_EmptySet DEF Init, Keyed
<1>4. Decided /\ Counted
  BY <1>2 DEF Init, Decided, Counted
<1>5. Linked
  BY LinkAssumption DEF Init, Linked, NoDividend
<1>6. QED
  BY <1>1, <1>3, <1>4, <1>5 DEF IndInv

(* Every step keeps it.                                                    *)
LEMMA NextInv ==
  ASSUME IndInv, [Next]_vars
  PROVE  IndInv'
<1>1. TypeOK'
  BY NextType DEF IndInv
<1>2. ASSUME NEW T \in (SUBSET Trades) \ {{}}, Import(T) PROVE IndInv'
  <2>1. \A u \in Trades : status'[u] = "processed" <=> status[u] = "processed"
    BY <1>2 DEF Import
  <2>2. QED
    BY <1>1, <1>2, <2>1, RowsKept DEF Import
<1>3. ASSUME NEW t \in Trades, InboxStep(t) PROVE IndInv'
  BY <1>1, <1>3, InboxStepKeeps
<1>4. ASSUME NEW x \in transaction, DeleteTransaction(x) PROVE IndInv'
  BY <1>1, <1>4, DeleteTransactionStep
<1>5. ASSUME NEW x \in transaction, NEW p \in Portfolios, NEW fee \in BOOLEAN,
             UpdateTransaction(x, p, fee)
      PROVE  IndInv'
  BY <1>1, <1>5, UpdateTransactionStep
<1>6. ASSUME NEW d \in Dividends, NEW p \in Portfolios, NEW l \in {NoLink, OwnLink},
             CreateDividend(d, p, l)
      PROVE  IndInv'
  <2>1. dividend' = [dividend EXCEPT ![d] = [portfolio |-> p, link |-> l]] /\ l \notin Ids
    BY <1>6, LinkAssumption DEF CreateDividend
  <2>2. \A e \in Dividends : dividend'[e] = dividend[e] \/ dividend'[e].link \notin Ids
    BY <2>1 DEF IndInv, TypeOK
  <2>3. QED
    BY <1>1, <1>6, <2>2, DividendsWritten DEF CreateDividend
<1>7. ASSUME NEW d \in Dividends, NEW op \in {"DeleteDividend", "UpdateDividend"},
             ReadDividend(d, op)
      PROVE  IndInv'
  BY <1>1, <1>7, RowsKept DEF ReadDividend
<1>8. ASSUME NEW r \in requests, DeleteDividend(r) PROVE IndInv'
  BY <1>1, <1>8, DeleteDividendStep
<1>9. ASSUME NEW r \in requests, NEW p \in Portfolios, NEW b \in BOOLEAN, UpdateDividend(r, p, b)
      PROVE  IndInv'
  BY <1>1, <1>9, UpdateDividendStep
<1>10. ASSUME NEW r \in requests, EndRequest(r) PROVE IndInv'
  BY <1>1, <1>10, RowsKept DEF EndRequest
<1>11. ASSUME NEW p \in Portfolios, DeletePortfolio(p) PROVE IndInv'
  BY <1>1, <1>11, CascadeStep DEF DeletePortfolio
<1>12. ASSUME NEW p \in Portfolios, DeletePortfolioFund(p) PROVE IndInv'
  BY <1>1, <1>12, CascadeStep DEF DeletePortfolioFund
<1>13. CASE UNCHANGED vars
  BY <1>1, <1>13, RowsKept DEF vars
<1>14. QED
  BY <1>2, <1>3, <1>4, <1>5, <1>6, <1>7, <1>8, <1>9, <1>10, <1>11, <1>12, <1>13 DEF Next

(* So it holds of every reachable state.                                   *)
LEMMA Invariance == Spec => []IndInv
<1>1. Init => IndInv
  BY InitInv
<1>2. IndInv /\ [Next]_vars => IndInv'
  BY NextInv
<1>3. QED
  BY <1>1, <1>2, PTL DEF Spec

------------------------------------------------------------------------------
(* What follows from it                                                    *)

\* Every column keeps its range, and no more rounds are begun than the bound, whatever
\* ibkr_service.go, transaction_service.go and dividend_service.go do to the rows.
THEOREM TypeCorrect == Spec => []TypeOK
<1>1. IndInv => TypeOK
  BY DEF IndInv
<1>2. QED
  BY <1>1, Invariance, PTL

\* Unallocating, modifying and every deletion leave only allocation rows of processed
\* trades, those of a trade from one allocation, each with its transaction.
THEOREM OneDecision == Spec => []AllocationsAreOfOneDecision
<1>1. IndInv => AllocationsAreOfOneDecision
  BY IdsAreIds DEF IndInv, Decided, AllocationsAreOfOneDecision, AllocationsOf, Made
<1>2. QED
  BY <1>1, Invariance, PTL

\* A trade whose allocation rows went only through the inbox holds the transactions of
\* the allocation in force, and no others.
THEOREM EveryTradeCountedOnce == Spec => []CountedOnce
<1>1. ASSUME IndInv PROVE CountedOnce
  <2> USE <1>1 DEF IndInv
  <2>1. Tied \subseteq Made
    BY DEF Decided
  <2>2. ASSUME NEW t \in Trades \ disturbed, NEW held, held = {x \in transaction : x.id.trade = t}
        PROVE  /\ status[t] = "processed" <=> held # {}
               /\ IdsOf(held) = IdsOf(AllocationsOf(t))
    <3>1. IdsOf(held) = {i \in Made : i.trade = t}
      BY <2>2 DEF IdsOf, Made
    <3>2. IdsOf(AllocationsOf(t)) = {i \in Tied : i.trade = t}
      BY AllocationsAre
    <3>3. {i \in Made : i.trade = t} = {i \in Tied : i.trade = t}
      BY <2>1 DEF Counted
    <3>4. held # {} <=> \E i \in Made : i.trade = t
      BY <2>2, IdsAreIds
    <3>5. QED
      BY <3>1, <3>2, <3>3, <3>4 DEF Counted
  <2>3. QED
    BY <2>2 DEF CountedOnce
<1>2. QED
  BY <1>1, Invariance, PTL

\* A dividend row written from an old read never keeps a link to a transaction that has
\* gone, nor to one of a trade that is waiting in the inbox again.
THEOREM ReinvestedTransactionsExist == Spec => []ReinvestmentsExist
<1>1. IndInv => ReinvestmentsExist
  BY DEF IndInv, Linked, ReinvestmentsExist, Made
<1>2. QED
  BY <1>1, Invariance, PTL

------------------------------------------------------------------------------
(* What a user sees                                                        *)

Seen == <<Decision, Held>>

(* What is held of a trade are its transactions, without their type.       *)
LEMMA InHoldings ==
  ASSUME NEW t
  PROVE  /\ \A q \in Holdings(t) :
               \E x \in transaction : x.id.trade = t /\ q = Part(x)
         /\ \A x \in transaction :
               x.id.trade = t => Part(x) \in Holdings(t)
BY Zenon DEF Holdings

(* The same after a step.                                                  *)
LEMMA InHoldingsNext ==
  ASSUME NEW t
  PROVE  /\ \A q \in Holdings(t)' :
               \E x \in transaction' : x.id.trade = t /\ q = Part(x)
         /\ \A x \in transaction' :
               x.id.trade = t => Part(x) \in Holdings(t)'
BY Zenon DEF Holdings

(* What is seen of each trade, before and after a step.                    *)
LEMMA SeenAre ==
  ASSUME NEW t \in Trades
  PROVE  /\ t \in disturbed => Decision[t] = "lost" /\ Held[t] = {}
         /\ t \notin disturbed => Decision[t] = status[t] /\ Held[t] = Holdings(t)
         /\ t \in disturbed' => Decision'[t] = "lost" /\ Held'[t] = {}
         /\ t \notin disturbed' => Decision'[t] = status'[t] /\ Held'[t] = Holdings(t)'
BY Zenon DEF Decision, Held

(* Both are functions on the trades.                                       *)
LEMMA SeenAreFunctions ==
  /\ Decision = [t \in Trades |-> Decision[t]]
  /\ Held = [t \in Trades |-> Held[t]]
  /\ Decision' = [t \in Trades |-> Decision'[t]]
  /\ Held' = [t \in Trades |-> Held'[t]]
BY Zenon DEF Decision, Held

(* A step after which every trade looks as before is none.                 *)
LEMMA NothingSeen ==
  ASSUME \A t \in Trades : Decision'[t] = Decision[t] /\ Held'[t] = Held[t]
  PROVE  UNCHANGED Seen
BY SeenAreFunctions, Zenon DEF Seen

(* A step after which one trade looks different settles it.                *)
LEMMA OneSettles ==
  ASSUME NEW t \in Trades, NEW d, NEW held,
         \A u \in Trades : u # t => Decision'[u] = Decision[u] /\ Held'[u] = Held[u],
         Decision'[t] = d, Held'[t] = held
  PROVE  Decisions!Settle(t, d, held)
<1>1. Decision' = [Decision EXCEPT ![t] = d]
  BY SeenAreFunctions
<1>2. Held' = [Held EXCEPT ![t] = held]
  BY SeenAreFunctions
<1>3. QED
  BY <1>1, <1>2 DEF Decisions!Settle

(* What is held of a trade changes only with its transactions.             *)
LEMMA SameHoldings ==
  ASSUME NEW t,
         \A x \in transaction' : x.id.trade = t => x \in transaction,
         \A x \in transaction : x.id.trade = t => x \in transaction'
  PROVE  Holdings(t)' = Holdings(t)
<1>1. {y \in transaction' : y.id.trade = t} = {y \in transaction : y.id.trade = t}
  BY Zenon
<1>2. QED
  BY <1>1, Zenon DEF Holdings

(* Trades whose transactions, status and disturbance stay look the same.   *)
LEMMA LooksTheSame ==
  ASSUME NEW t \in Trades, t \in disturbed' <=> t \in disturbed,
         t \notin disturbed =>
           /\ status'[t] = status[t]
           /\ \A x \in transaction' : x.id.trade = t => x \in transaction
           /\ \A x \in transaction : x.id.trade = t => x \in transaction'
  PROVE  Decision'[t] = Decision[t] /\ Held'[t] = Held[t]
<1>1. CASE t \in disturbed
  BY <1>1, SeenAre, Zenon
<1>2. CASE t \notin disturbed
  <2>1. Holdings(t)' = Holdings(t)
    BY <1>2, SameHoldings, Zenon
  <2>2. QED
    BY <1>2, <2>1, SeenAre, Zenon
<1>3. QED
  BY <1>1, <1>2

(* Who can tell a processed trade by what is held of it.                   *)
HeldWhenProcessed ==
  \A t \in Trades \ disturbed : status[t] = "processed" <=> Holdings(t) # {}

LEMMA ProcessedIsHeld == IndInv => HeldWhenProcessed
<1>1. ASSUME IndInv, NEW t \in Trades \ disturbed
      PROVE  status[t] = "processed" <=> Holdings(t) # {}
  <2>1. Holdings(t) # {} <=> \E x \in transaction : x.id.trade = t
    BY InHoldings, Zenon
  <2>2. (\E x \in transaction : x.id.trade = t) <=> \E i \in Made : i.trade = t
    BY <1>1, IdsAreIds DEF IndInv
  <2>3. QED
    BY <1>1, <2>1, <2>2 DEF IndInv, Counted
<1>2. QED
  BY <1>1 DEF HeldWhenProcessed

LEMMA ProcessedIsHeldNext == IndInv' => HeldWhenProcessed'
BY ProcessedIsHeld, PTL

------------------------------------------------------------------------------
(* Every step of the inbox is one of the decisions, or none of them        *)

(* A step that leaves statuses, transactions and disturbance alone.        *)
LEMMA QuietStep ==
  ASSUME UNCHANGED <<status, transaction, disturbed>>
  PROVE  UNCHANGED Seen
BY Zenon DEF Seen, Decision, Held, Holdings

(* An import is the arrival of the trades it inserts.                      *)
LEMMA ImportArrives ==
  ASSUME NEW T \in (SUBSET Trades) \ {{}}, Import(T)
  PROVE  Decisions!Arrive(T \ disturbed)
<1>1. \A t \in T \ disturbed : Decision[t] = "absent"
  BY SeenAre, Zenon DEF Import
<1>2. Held' = Held
  BY Zenon DEF Import, Held, Holdings
<1>3. ASSUME NEW t \in Trades
      PROVE  Decision'[t] = IF t \in T \ disturbed THEN "pending" ELSE Decision[t]
  <2>1. status'[t] = (IF t \in T THEN "pending" ELSE status[t]) /\ disturbed' = disturbed
    BY DEF Import
  <2>2. QED
    BY <2>1, SeenAre
<1>4. Decision' = [t \in Trades |-> IF t \in T \ disturbed THEN "pending" ELSE Decision[t]]
  BY <1>3, SeenAreFunctions
<1>5. QED
  BY <1>1, <1>2, <1>4 DEF Decisions!Arrive

(* Of a trade that is not disturbed every transaction is tied to it, so an *)
(* allocation leaves it none but its own, and these have new uuids.        *)
LEMMA NewPartsOnly ==
  ASSUME IndInv, NEW t \in Trades \ disturbed, NEW entries \in Entries,
         NEW rows, rows = Inserted(t, entries, round[t] + 1), round[t] < MaxRounds,
         transaction' = {x \in transaction : x.id \notin IdsOf(AllocationsOf(t))} \cup rows
  PROVE  /\ Holdings(t)' # {}
         /\ \A q \in Holdings(t)', old \in Holdings(t) : q.id # old.id
<1> USE DEF IndInv
<1> DEFINE n == round[t] + 1
<1>1. n \in 1..MaxRounds /\ round[t] \in Nat
  BY IbkrInboxAssumption DEF TypeOK
<1>2. (\E x \in rows : TRUE) /\ \A x \in rows : x.id.trade = t /\ x.id.round = n
  BY <1>1, InsertedRows
<1>3. IdsOf(AllocationsOf(t)) = {i \in Tied : i.trade = t}
  BY AllocationsAre
<1>4. \A x \in transaction : x.id \in Made
  BY IdsAreIds
<1>5. \A x \in transaction' : x.id.trade = t => x.id.round = n
  BY <1>2, <1>3, <1>4 DEF Counted
<1>6. \A x \in transaction : x.id.trade = t => x.id.round \in Nat /\ x.id.round <= round[t]
  <2>1. \A i \in Made : i.round \in Nat
    BY IdsAreIds, IdParts
  <2>2. QED
    BY <1>4, <2>1 DEF Keyed
<1>7. \A q \in Holdings(t)' : q.id.round = n
  BY <1>5, InHoldingsNext DEF Part
<1>8. \A q \in Holdings(t) : q.id.round \in Nat /\ q.id.round <= round[t]
  BY <1>6, InHoldings DEF Part
<1>9. Holdings(t)' # {}
  BY <1>2, InHoldingsNext
<1>10. QED
  BY <1>1, <1>7, <1>8, <1>9

(* Parts are made of uuids and portfolios.                                 *)
LEMMA HoldingsAreParts ==
  ASSUME TypeOK', NEW t
  PROVE  Holdings(t)' \in SUBSET Decisions!Parts
<1>1. \A x \in transaction' : x.id \in Ids /\ x.portfolio \in Portfolios
  BY DEF TypeOK, Transactions
<1>2. ASSUME NEW q \in Holdings(t)' PROVE q \in Decisions!Parts
  <2>1. PICK x \in transaction' : q = Part(x)
    BY InHoldingsNext, Zenon
  <2>2. QED
    BY <1>1, <2>1 DEF Decisions!Parts, Part
<1>3. QED
  BY <1>2

(* Allocating and modifying decide.                                        *)
LEMMA RowsDecide ==
  ASSUME IndInv, TypeOK', NEW t \in Trades, NEW entries \in Entries,
         NEW rows, rows = Inserted(t, entries, round[t] + 1), round[t] < MaxRounds,
         transaction' = {x \in transaction : x.id \notin IdsOf(AllocationsOf(t))} \cup rows,
         status[t] \in {"pending", "processed"},
         status' = [status EXCEPT ![t] = "processed"], UNCHANGED disturbed
  PROVE  [Decisions!Next]_Seen
<1>1. /\ status'[t] = "processed"
      /\ \A u \in Trades : u # t => status'[u] = status[u]
  BY DEF IndInv, TypeOK
<1>2. round[t] + 1 \in 1..MaxRounds
  BY IbkrInboxAssumption DEF IndInv, TypeOK
<1>3. ASSUME NEW u \in Trades, u # t
      PROVE  Decision'[u] = Decision[u] /\ Held'[u] = Held[u]
  <2>1. \A x \in rows : x.id.trade = t
    BY <1>2, InsertedRows
  <2>2. IdsOf(AllocationsOf(t)) = {i \in Tied : i.trade = t}
    BY AllocationsAre
  <2>3. /\ \A x \in transaction' : x.id.trade = u => x \in transaction
        /\ \A x \in transaction : x.id.trade = u => x \in transaction'
    BY <1>3, <2>1, <2>2
  <2>4. QED
    BY <1>1, <1>3, <2>3, LooksTheSame
<1>4. CASE t \in disturbed
  <2>1. Decision'[t] = Decision[t] /\ Held'[t] = Held[t]
    BY <1>4, SeenAre, Zenon
  <2>2. QED
    BY <1>3, <2>1, NothingSeen, Zenon
<1>5. CASE t \notin disturbed
  <2>1. /\ Decision[t] = status[t] /\ Held[t] = Holdings(t)
        /\ Decision'[t] = "processed" /\ Held'[t] = Holdings(t)'
    BY <1>1, <1>5, SeenAre, Zenon
  <2>2. Decisions!Settle(t, "processed", Holdings(t)')
    BY <1>3, <2>1, OneSettles, Zenon
  <2>3. Holdings(t)' # {} /\ \A q \in Holdings(t)', old \in Holdings(t) : q.id # old.id
    BY <1>5, NewPartsOnly
  <2>4. Decisions!Decide(t, Holdings(t)')
    BY <2>1, <2>2, <2>3, Zenon DEF Decisions!Decide
  <2>5. Holdings(t)' \in SUBSET Decisions!Parts
    BY HoldingsAreParts
  <2>6. QED
    BY <2>4, <2>5, Zenon DEF Decisions!Next
<1>6. QED
  BY <1>4, <1>5

(* Allocating a trade is the first decision about it.                      *)
LEMMA AllocateDecides ==
  ASSUME IndInv, TypeOK', NEW t \in Trades, NEW entries \in Entries,
         AllocateIbkrTransaction(t, entries)
  PROVE  [Decisions!Next]_Seen
<1>1. PICK rows : rows = Inserted(t, entries, round[t] + 1)
  OBVIOUS
<1>2. IdsOf(AllocationsOf(t)) = {}
  <2>1. \A i \in Tied : i.trade # t
    BY DEF AllocateIbkrTransaction, IndInv, Decided
  <2>2. QED
    BY <2>1, AllocationsAre
<1>3. transaction' = {x \in transaction : x.id \notin IdsOf(AllocationsOf(t))} \cup rows
  BY <1>1, <1>2 DEF AllocateIbkrTransaction
<1>4. QED
  BY <1>1, <1>3, RowsDecide DEF AllocateIbkrTransaction

(* Modifying its allocations is another one.                               *)
LEMMA ModifyDecides ==
  ASSUME IndInv, TypeOK', NEW t \in Trades, NEW entries \in Entries,
         ModifyAllocations(t, entries)
  PROVE  [Decisions!Next]_Seen
<1>1. PICK rows : rows = Inserted(t, entries, round[t] + 1)
  OBVIOUS
<1>2. status[t] = "processed" /\ status' = [status EXCEPT ![t] = "processed"]
  BY DEF ModifyAllocations, CanUnallocate, IndInv, TypeOK
<1>3. QED
  BY <1>1, <1>2, RowsDecide DEF ModifyAllocations

(* Unallocating takes the decision back, with all its parts.               *)
LEMMA UnallocateTakesBack ==
  ASSUME IndInv, NEW t \in Trades, UnallocateIbkrTransaction(t)
  PROVE  [Decisions!Next]_Seen
<1>1. /\ status[t] = "processed" /\ status'[t] = "pending"
      /\ \A u \in Trades : u # t => status'[u] = status[u]
      /\ transaction' = {x \in transaction : x.id \notin IdsOf(AllocationsOf(t))}
      /\ disturbed' = disturbed
  BY DEF UnallocateIbkrTransaction, CanUnallocate, IndInv, TypeOK
<1>2. IdsOf(AllocationsOf(t)) = {i \in Tied : i.trade = t}
  BY AllocationsAre
<1>3. ASSUME NEW u \in Trades, u # t
      PROVE  Decision'[u] = Decision[u] /\ Held'[u] = Held[u]
  <2>1. /\ \A x \in transaction' : x.id.trade = u => x \in transaction
        /\ \A x \in transaction : x.id.trade = u => x \in transaction'
    BY <1>1, <1>2, <1>3
  <2>2. QED
    BY <1>1, <1>3, <2>1, LooksTheSame
<1>4. CASE t \in disturbed
  <2>1. Decision'[t] = Decision[t] /\ Held'[t] = Held[t]
    BY <1>1, <1>4, SeenAre, Zenon
  <2>2. QED
    BY <1>3, <2>1, NothingSeen, Zenon
<1>5. CASE t \notin disturbed
  <2>1. \A x \in transaction' : x.id.trade # t
    BY <1>1, <1>2, <1>5, IdsAreIds DEF IndInv, Counted
  <2>2. Holdings(t)' = {}
    BY <2>1, InHoldingsNext, Zenon
  <2>3. Decision[t] = "processed" /\ Decision'[t] = "pending" /\ Held'[t] = {}
    BY <1>1, <1>5, <2>2, SeenAre, Zenon
  <2>4. Decisions!TakeBack(t)
    BY <1>3, <2>3, OneSettles, Zenon DEF Decisions!TakeBack
  <2>5. QED
    BY <2>4, Zenon DEF Decisions!Next
<1>6. QED
  BY <1>4, <1>5

(* Ignoring a trade is a decision without parts.                           *)
LEMMA IgnoreIgnores ==
  ASSUME IndInv, NEW t \in Trades, IgnoreIbkrTransaction(t)
  PROVE  [Decisions!Next]_Seen
<1>1. /\ status[t] = "pending" /\ status'[t] = "ignored"
      /\ \A u \in Trades : u # t => status'[u] = status[u]
      /\ UNCHANGED <<transaction, disturbed>>
  BY DEF IgnoreIbkrTransaction, IndInv, TypeOK
<1>2. \A u \in Trades : u # t => Decision'[u] = Decision[u] /\ Held'[u] = Held[u]
  BY <1>1, LooksTheSame
<1>3. Holdings(t)' = Holdings(t)
  BY <1>1, SameHoldings
<1>4. CASE t \in disturbed
  <2>1. Decision'[t] = Decision[t] /\ Held'[t] = Held[t]
    BY <1>1, <1>4, SeenAre, Zenon
  <2>2. QED
    BY <1>2, <2>1, NothingSeen, Zenon
<1>5. CASE t \notin disturbed
  <2>1. Holdings(t) = {}
    BY <1>1, <1>5, ProcessedIsHeld DEF HeldWhenProcessed
  <2>2. Decision[t] = "pending" /\ Decision'[t] = "ignored" /\ Held'[t] = {}
    BY <1>1, <1>3, <1>5, <2>1, SeenAre, Zenon
  <2>3. Decisions!Ignore(t)
    BY <1>2, <2>2, OneSettles, Zenon DEF Decisions!Ignore
  <2>4. QED
    BY <2>3, Zenon DEF Decisions!Next
<1>6. QED
  BY <1>4, <1>5

\* Deleting a row forgets a trade that is not processed.  When the deletion has been
\* overtaken by an allocation, the trade is lost.
LEMMA DeleteForgets ==
  ASSUME IndInv, NEW t \in Trades, DeleteIbkrTransaction(t)
  PROVE  [Decisions!Next]_Seen
<1>1. /\ status'[t] = "absent"
      /\ \A u \in Trades : u # t => status'[u] = status[u]
      /\ disturbed' = disturbed \cup {a.id.trade : a \in AllocationsOf(t)}
      /\ transaction' = transaction
  BY DEF DeleteIbkrTransaction, IndInv, TypeOK
<1>2. \A a \in AllocationsOf(t) : a.id.trade = t
  BY DEF AllocationsOf
<1>3. /\ disturbed \subseteq disturbed'
      /\ \A u \in disturbed' : u \in disturbed \/ u = t
      /\ t \in disturbed' <=> t \in disturbed \/ AllocationsOf(t) # {}
  BY <1>1, <1>2
<1>4. ASSUME NEW u \in Trades, u # t
      PROVE  Decision'[u] = Decision[u] /\ Held'[u] = Held[u]
  BY <1>1, <1>3, <1>4, LooksTheSame
<1>5. (\E i \in Tied : i.trade = t) <=> AllocationsOf(t) # {}
  BY IdsAreIds DEF AllocationsOf, IndInv
<1>6. CASE t \in disturbed
  <2>1. Decision'[t] = Decision[t] /\ Held'[t] = Held[t]
    BY <1>3, <1>6, SeenAre, Zenon
  <2>2. QED
    BY <1>4, <2>1, NothingSeen, Zenon
<1>7. CASE t \notin disturbed /\ AllocationsOf(t) # {}
  <2>1. status[t] = "processed"
    BY <1>5, <1>7 DEF IndInv, Decided
  <2>2. Decision[t] = "processed" /\ Decision'[t] = "lost" /\ Held'[t] = {}
    BY <1>3, <1>7, <2>1, SeenAre, Zenon
  <2>3. Decisions!Lose(t)
    BY <1>4, <2>2, OneSettles, Zenon DEF Decisions!Lose
  <2>4. QED
    BY <2>3, Zenon DEF Decisions!Next
<1>8. CASE t \notin disturbed /\ AllocationsOf(t) = {}
  <2>1. status[t] # "processed"
    BY <1>5, <1>8 DEF IndInv, Counted
  <2>2. status[t] \in {"absent", "pending", "ignored"}
    BY <2>1 DEF IndInv, TypeOK
  <2>3. Holdings(t) = {} /\ Holdings(t)' = Holdings(t)
    BY <1>1, <1>8, <2>1, ProcessedIsHeld, SameHoldings DEF HeldWhenProcessed
  <2>4. Decision[t] = status[t] /\ Decision'[t] = "absent" /\ Held[t] = {} /\ Held'[t] = {}
    BY <1>1, <1>3, <1>8, <2>3, SeenAre, Zenon
  <2>5. CASE status[t] = "absent"
    BY <1>4, <2>4, <2>5, NothingSeen, Zenon
  <2>6. CASE status[t] # "absent"
    <3>1. Decisions!Settle(t, "absent", {})
      BY <1>4, <2>4, OneSettles, Zenon
    <3>2. Decisions!Forget(t)
      BY <2>2, <2>4, <2>6, <3>1 DEF Decisions!Forget
    <3>3. QED
      BY <3>2, Zenon DEF Decisions!Next
  <2>7. QED
    BY <2>5, <2>6
<1>9. QED
  BY <1>6, <1>7, <1>8

(* What any step of the inbox looks like.                                  *)
LEMMA InboxStepSeen ==
  ASSUME IndInv, TypeOK', NEW t \in Trades, InboxStep(t)
  PROVE  [Decisions!Next]_Seen
<1>1. ASSUME NEW entries \in Entries, AllocateIbkrTransaction(t, entries)
      PROVE  [Decisions!Next]_Seen
  BY <1>1, AllocateDecides
<1>2. ASSUME NEW entries \in Entries, ModifyAllocations(t, entries)
      PROVE  [Decisions!Next]_Seen
  BY <1>2, ModifyDecides
<1>3. CASE UnallocateIbkrTransaction(t)
  BY <1>3, UnallocateTakesBack
<1>4. CASE IgnoreIbkrTransaction(t)
  BY <1>4, IgnoreIgnores
<1>5. ASSUME NEW D \in SUBSET Dividends, MatchDividend(t, D) PROVE UNCHANGED Seen
  BY <1>5, QuietStep DEF MatchDividend
<1>6. CASE ReadTradeToDelete(t)
  BY <1>6, QuietStep DEF ReadTradeToDelete
<1>7. CASE DeleteIbkrTransaction(t)
  BY <1>7, DeleteForgets
<1>8. QED
  BY <1>1, <1>2, <1>3, <1>4, <1>5, <1>6, <1>7 DEF InboxStep

(* A transaction taken away takes its part away, and no other.             *)
LEMMA PartRemoved ==
  ASSUME IndInv, NEW x \in transaction, transaction' = transaction \ {x}, NEW t, t = x.id.trade
  PROVE  Holdings(t)' = Holdings(t) \ {Part(x)}
<1>1. ASSUME NEW y \in transaction, Part(y) = Part(x) PROVE y = x
  <2>1. y.id = x.id
    BY <1>1 DEF Part
  <2>2. QED
    BY <2>1 DEF IndInv, Keyed
<1>2. ASSUME NEW q \in Holdings(t)' PROVE q \in Holdings(t) \ {Part(x)}
  <2>1. PICK y \in transaction' : y.id.trade = t /\ q = Part(y)
    BY InHoldingsNext
  <2>2. y \in transaction /\ y # x
    BY <2>1
  <2>3. QED
    BY <1>1, <2>1, <2>2, InHoldings, Zenon
<1>3. ASSUME NEW q \in Holdings(t), q # Part(x) PROVE q \in Holdings(t)'
  <2>1. PICK y \in transaction : y.id.trade = t /\ q = Part(y)
    BY InHoldings, Zenon
  <2>2. y \in transaction'
    BY <1>3, <2>1
  <2>3. QED
    BY <2>1, <2>2, InHoldingsNext, Zenon
<1>4. QED
  BY <1>2, <1>3

\* A trade that loses a transaction and is not disturbed keeps its decision unless this
\* was the last one.
LEMMA PartGoes ==
  ASSUME IndInv, IndInv', NEW x \in transaction, transaction' = transaction \ {x},
         NEW t \in Trades, t = x.id.trade, t \notin disturbed, t \notin disturbed',
         status'[t] \in {"pending", status[t]},
         \A u \in Trades : u # t => Decision'[u] = Decision[u] /\ Held'[u] = Held[u]
  PROVE  [Decisions!Next]_Seen
<1>1. PICK q : q = Part(x)
  OBVIOUS
<1>2. q \in Holdings(t) /\ Holdings(t)' = Holdings(t) \ {q}
  BY <1>1, InHoldings, PartRemoved, Zenon
<1>3. status[t] = "processed"
  BY <1>2, ProcessedIsHeld DEF HeldWhenProcessed
<1>4. status'[t] = "processed" <=> Holdings(t)' # {}
  BY ProcessedIsHeldNext DEF HeldWhenProcessed
<1>5. status'[t] = IF Holdings(t) \ {q} = {} THEN "pending" ELSE status[t]
  BY <1>2, <1>3, <1>4
<1>6. /\ Decision[t] = status[t] /\ Held[t] = Holdings(t)
      /\ Decision'[t] = status'[t] /\ Held'[t] = Holdings(t) \ {q}
  BY <1>2, SeenAre, Zenon
<1>7. Decision'[t] = IF Held[t] \ {q} = {} THEN "pending" ELSE Decision[t]
  BY <1>5, <1>6, Zenon
<1>8. Decisions!Settle(t, IF Held[t] \ {q} = {} THEN "pending" ELSE Decision[t], Held[t] \ {q})
  BY <1>6, <1>7, OneSettles, Zenon
<1>9. Decisions!Remove(t, q) /\ q \in Held[t]
  BY <1>2, <1>6, <1>8, Zenon DEF Decisions!Remove
<1>10. QED
  BY <1>9, Zenon DEF Decisions!Next

(* Deleting a transaction removes a part.                                  *)
LEMMA DeleteRemoves ==
  ASSUME IndInv, IndInv', NEW x \in transaction, DeleteTransaction(x)
  PROVE  [Decisions!Next]_Seen
<1>1. PICK t : t = x.id.trade
  OBVIOUS
<1>2. t \in Trades
  BY <1>1, IdsAreIds, IdParts DEF IndInv
<1>3. /\ \A u \in Trades : u # t => status'[u] = status[u]
      /\ status'[t] \in {"pending", status[t]}
      /\ transaction' = transaction \ {x}
      /\ disturbed' = disturbed
  BY <1>1, <1>2 DEF DeleteTransaction, IndInv, TypeOK
<1>4. ASSUME NEW u \in Trades, u # t
      PROVE  Decision'[u] = Decision[u] /\ Held'[u] = Held[u]
  BY <1>1, <1>3, <1>4, LooksTheSame
<1>5. CASE t \in disturbed
  <2>1. Decision'[t] = Decision[t] /\ Held'[t] = Held[t]
    BY <1>2, <1>3, <1>5, SeenAre, Zenon
  <2>2. QED
    BY <1>4, <2>1, NothingSeen, Zenon
<1>6. CASE t \notin disturbed
  BY <1>1, <1>2, <1>3, <1>4, <1>6, PartGoes
<1>7. QED
  BY <1>5, <1>6

(* A transaction that is edited is the same part, perhaps elsewhere.       *)
LEMMA EditMoves ==
  ASSUME IndInv, NEW x \in transaction, NEW y, NEW p \in Portfolios,
         y.id = x.id, y.portfolio = p, transaction' = (transaction \ {x}) \cup {y},
         UNCHANGED <<status, disturbed>>
  PROVE  [Decisions!Next]_Seen
<1>1. PICK t, q, r : /\ t = x.id.trade
                     /\ q = Part(x) /\ r = Part(y)
  OBVIOUS
<1>2. t \in Trades
  BY <1>1, IdsAreIds, IdParts DEF IndInv
<1>3. ASSUME NEW u \in Trades, u # t
      PROVE  Decision'[u] = Decision[u] /\ Held'[u] = Held[u]
  BY <1>1, <1>3, LooksTheSame
<1>4. CASE t \in disturbed
  <2>1. Decision'[t] = Decision[t] /\ Held'[t] = Held[t]
    BY <1>2, <1>4, SeenAre, Zenon
  <2>2. QED
    BY <1>3, <2>1, NothingSeen, Zenon
<1>5. CASE t \notin disturbed
  <2>1. ASSUME NEW z \in transaction, Part(z) = q PROVE z = x
    <3>1. z.id = x.id
      BY <1>1, <2>1 DEF Part
    <3>2. QED
      BY <3>1 DEF IndInv, Keyed
  <2>2. x.id.trade = t /\ y.id.trade = t
    BY <1>1
  <2>3. ASSUME NEW o \in Holdings(t)' PROVE o \in (Holdings(t) \ {q}) \cup {r}
    <3>1. PICK z \in transaction' : z.id.trade = t /\ o = Part(z)
      BY InHoldingsNext, Zenon
    <3>2. z = y \/ (z \in transaction /\ z # x)
      BY <3>1
    <3>3. QED
      BY <1>1, <2>1, <3>1, <3>2, InHoldings, Zenon
  <2>4. ASSUME NEW o \in (Holdings(t) \ {q}) \cup {r} PROVE o \in Holdings(t)'
    <3>1. CASE o = r
      BY <1>1, <2>2, <3>1, InHoldingsNext, Zenon
    <3>2. CASE o \in Holdings(t) \ {q}
      <4>1. PICK z \in transaction : z.id.trade = t /\ o = Part(z)
        BY <3>2, InHoldings, Zenon
      <4>2. z \in transaction'
        BY <1>1, <3>2, <4>1
      <4>3. QED
        BY <4>1, <4>2, InHoldingsNext, Zenon
    <3>3. QED
      BY <2>4, <3>1, <3>2
  <2>5. Holdings(t)' = (Holdings(t) \ {q}) \cup {r}
    BY <2>3, <2>4
  <2>6. /\ Decision[t] = status[t] /\ Held[t] = Holdings(t)
        /\ Decision'[t] = status[t] /\ Held'[t] = (Holdings(t) \ {q}) \cup {r}
    BY <1>2, <1>5, <2>5, SeenAre, Zenon
  <2>7. Decisions!Settle(t, Decision[t], (Held[t] \ {q}) \cup {r})
    BY <1>2, <1>3, <2>6, OneSettles, Zenon
  <2>8. Decision' = Decision
    BY <1>3, <2>6, SeenAreFunctions, Zenon
  <2>9. Held' = [Held EXCEPT ![t] = (@ \ {q}) \cup {r}]
    BY <2>7 DEF Decisions!Settle
  <2>10. r = [id |-> q.id, portfolio |-> p]
    BY <1>1 DEF Part
  <2>11. Decisions!Move(t, q, p)
    BY <2>8, <2>9, <2>10, Zenon DEF Decisions!Move
  <2>12. q \in Held[t]
    BY <1>1, <2>2, <2>6, InHoldings, Zenon
  <2>13. QED
    BY <1>2, <2>11, <2>12, Zenon DEF Decisions!Next
<1>6. QED
  BY <1>4, <1>5

(* UpdateTransaction edits one transaction.                                *)
LEMMA UpdateTransactionMoves ==
  ASSUME IndInv, NEW x \in transaction, NEW p \in Portfolios, NEW fee \in BOOLEAN,
         UpdateTransaction(x, p, fee)
  PROVE  [Decisions!Next]_Seen
<1>1. PICK y : y = [x EXCEPT !.portfolio = p, !.fee = fee]
  OBVIOUS
<1>2. y.id = x.id /\ y.portfolio = p
  BY <1>1 DEF IndInv, TypeOK, Transactions
<1>3. transaction' = (transaction \ {x}) \cup {y} /\ UNCHANGED <<status, disturbed>>
  BY <1>1 DEF UpdateTransaction
<1>4. QED
  BY <1>2, <1>3, EditMoves

(* UpdateDividend edits the transaction the dividend is reinvested in, if  *)
(* any: uuids are unique.                                                  *)
LEMMA UpdateDividendMoves ==
  ASSUME IndInv, NEW r \in requests, NEW p \in Portfolios, NEW b \in BOOLEAN,
         UpdateDividend(r, p, b)
  PROVE  [Decisions!Next]_Seen
<1>1. PICK link, moved : Rewrites(r, p, link, moved)
  BY UpdateDividendIs
<1>2. /\ moved \subseteq transaction /\ \A x \in moved : x.id = link
      /\ transaction' = (transaction \ moved) \cup {[x EXCEPT !.portfolio = p] : x \in moved}
  BY <1>1, Zenon DEF Rewrites
<1>3. UNCHANGED <<status, disturbed>>
  BY DEF UpdateDividend
<1>4. CASE moved = {}
  <2>1. transaction' = transaction
    BY <1>2, <1>4
  <2>2. QED
    BY <1>3, <2>1, QuietStep
<1>5. CASE moved # {}
  <2>1. PICK x \in moved : TRUE
    BY <1>5
  <2>2. moved = {x}
    BY <1>2, <2>1 DEF IndInv, Keyed
  <2>3. PICK y : y = [x EXCEPT !.portfolio = p]
    OBVIOUS
  <2>4. x \in transaction /\ transaction' = (transaction \ {x}) \cup {y}
    BY <1>2, <2>2, <2>3, Zenon
  <2>5. y.id = x.id /\ y.portfolio = p
    BY <2>3, <2>4 DEF IndInv, TypeOK, Transactions
  <2>6. QED
    BY <1>3, <2>4, <2>5, EditMoves
<1>6. QED
  BY <1>4, <1>5

(* Rows that foreign keys take are of trades that were processed.          *)
LEMMA DisturbedWereProcessed ==
  ASSUME IndInv, NEW t, t \in Disturbs(transaction', allocation')
  PROVE  t \in Trades /\ status[t] = "processed"
<1>1. CASE t \in Trades /\ status[t] = "processed"
  BY <1>1
<1>2. CASE \E x \in transaction' : x.id \in Tied /\ t = x.id.trade
  <2>1. PICK i \in Tied : t = i.trade
    BY <1>2
  <2>2. QED
    BY <2>1, IdsAreIds, IdParts DEF IndInv, Decided
<1>3. QED
  BY <1>1, <1>2 DEF Disturbs, Tied

(* The deletion of a dividend disturbs at most the trade it names.         *)
LEMMA OnlyTheLinkedIsDisturbed ==
  ASSUME IndInv, NEW r \in requests, DeleteDividend(r),
         NEW t \in Trades \ disturbed, ~(r.read.link \in Made /\ r.read.link.trade = t)
  PROVE  t \notin disturbed'
<1>1. /\ transaction' = {x \in transaction : x.id # r.read.link}
      /\ allocation' = {a \in allocation : a.id # r.read.link}
      /\ disturbed' = disturbed \cup Disturbs(transaction', allocation')
  BY DEF DeleteDividend
<1>2. ASSUME status[t] = "processed" PROVE \E a \in allocation' : a.id.trade = t
  <2>1. PICK i \in Made : i.trade = t /\ i \in Tied
    BY <1>2 DEF IndInv, Counted
  <2>2. PICK a \in allocation : a.id = i
    BY <2>1, IdsAreIds DEF IndInv
  <2>3. QED
    BY <1>1, <2>1, <2>2
<1>3. ASSUME NEW x \in transaction', x.id \in Tied PROVE x.id \in Tied'
  <2>1. PICK a \in allocation : a.id = x.id
    BY <1>3, IdsAreIds DEF IndInv
  <2>2. a \in allocation'
    BY <1>1, <2>1
  <2>3. QED
    BY <2>1, <2>2 DEF Tied, IdsOf
<1>4. t \notin Disturbs(transaction', allocation')
  BY <1>2, <1>3 DEF Disturbs, Tied
<1>5. QED
  BY <1>1, <1>4

(* Deleting a dividend with the transaction it is reinvested in removes a  *)
(* part, and loses the trade when that was the last one.                   *)
LEMMA DeleteDividendRemoves ==
  ASSUME IndInv, IndInv', NEW r \in requests, DeleteDividend(r)
  PROVE  [Decisions!Next]_Seen
<1>1. /\ transaction' = {x \in transaction : x.id # r.read.link}
      /\ disturbed' = disturbed \cup Disturbs(transaction', allocation')
      /\ status' = status
  BY DEF DeleteDividend
<1>2. PICK t : t = r.read.link.trade
  OBVIOUS
<1>3. ASSUME NEW u \in Trades, ~(r.read.link \in Made /\ t = u)
      PROVE  Decision'[u] = Decision[u] /\ Held'[u] = Held[u]
  <2>1. u \in disturbed' <=> u \in disturbed
    BY <1>1, <1>2, <1>3, OnlyTheLinkedIsDisturbed
  <2>2. /\ \A x \in transaction' : x.id.trade = u => x \in transaction
        /\ \A x \in transaction : x.id.trade = u => x \in transaction'
    BY <1>1, <1>2, <1>3, IdsAreIds DEF IndInv
  <2>3. QED
    BY <1>1, <2>1, <2>2, LooksTheSame
<1>4. CASE r.read.link \notin Made
  BY <1>3, <1>4, NothingSeen
<1>5. CASE r.read.link \in Made
  <2>1. PICK x \in transaction : x.id = r.read.link
    BY <1>5, IdsAreIds DEF IndInv
  <2>2. t \in Trades /\ t = x.id.trade
    BY <1>2, <2>1, IdsAreIds, IdParts DEF IndInv
  <2>3. transaction' = transaction \ {x}
    BY <1>1, <2>1 DEF IndInv, Keyed
  <2>4. \A u \in Trades : u # t => Decision'[u] = Decision[u] /\ Held'[u] = Held[u]
    BY <1>3
  <2>5. CASE t \in disturbed
    <3>1. Decision'[t] = Decision[t] /\ Held'[t] = Held[t]
      BY <1>1, <2>2, <2>5, SeenAre
    <3>2. QED
      BY <2>4, <3>1, NothingSeen, Zenon
  <2>6. CASE t \notin disturbed /\ t \notin disturbed'
    BY <1>1, <2>2, <2>3, <2>4, <2>6, PartGoes
  <2>7. CASE t \notin disturbed /\ t \in disturbed'
    <3>1. status[t] = "processed"
      BY <1>1, <2>7, DisturbedWereProcessed
    <3>2. Decision[t] = "processed" /\ Decision'[t] = "lost" /\ Held'[t] = {}
      BY <2>2, <2>7, <3>1, SeenAre, Zenon
    <3>3. Decisions!Lose(t)
      BY <2>2, <2>4, <3>2, OneSettles, Zenon DEF Decisions!Lose
    <3>4. QED
      BY <2>2, <3>3, Zenon DEF Decisions!Next
  <2>8. QED
    BY <2>5, <2>6, <2>7
<1>6. QED
  BY <1>4, <1>5

(* A portfolio that is deleted closes, with or without its allocations.    *)
LEMMA CascadeCloses ==
  ASSUME IndInv, IndInv', NEW p \in Portfolios, NEW A, Cascade(p, A)
  PROVE  [Decisions!Next]_Seen
<1>1. /\ transaction' = {x \in transaction : x.portfolio # p}
      /\ disturbed' = disturbed \cup Disturbs(transaction', allocation')
      /\ status' = status
  BY DEF Cascade
<1>2. PICK lost : lost = disturbed' \ disturbed
  OBVIOUS
<1>3. /\ disturbed \subseteq disturbed'
      /\ \A t \in lost : t \in Trades /\ status[t] = "processed"
  BY <1>1, <1>2, DisturbedWereProcessed
<1>4. \A t \in lost : Decision[t] = "processed"
  BY <1>2, <1>3, SeenAre, Zenon
<1>5. ASSUME NEW t PROVE Holdings(t)' = {q \in Holdings(t) : q.portfolio # p}
  <2>1. ASSUME NEW q \in Holdings(t)' PROVE q \in Holdings(t) /\ q.portfolio # p
    <3>1. PICK x \in transaction' : x.id.trade = t /\ q = Part(x)
      BY InHoldingsNext
    <3>2. x \in transaction /\ q.portfolio # p
      BY <1>1, <3>1 DEF Part
    <3>3. QED
      BY <3>1, <3>2, InHoldings
  <2>2. ASSUME NEW q \in Holdings(t), q.portfolio # p PROVE q \in Holdings(t)'
    <3>1. PICK x \in transaction : x.id.trade = t /\ q = Part(x)
      BY InHoldings
    <3>2. x \in transaction'
      BY <1>1, <2>2, <3>1 DEF Part
    <3>3. QED
      BY <3>1, <3>2, InHoldingsNext
  <2>3. QED
    BY <2>1, <2>2
<1>6. ASSUME NEW t \in Trades \ lost, Decision[t] = "processed"
      PROVE  \E q \in Held[t] : q.portfolio # p
  <2>1. t \notin disturbed /\ t \notin disturbed'
    BY <1>2, <1>6, SeenAre
  <2>2. status[t] = "processed" /\ Held[t] = Holdings(t)
    BY <1>6, <2>1, SeenAre, Zenon
  <2>3. Holdings(t)' # {}
    BY <1>1, <2>1, <2>2, ProcessedIsHeldNext DEF HeldWhenProcessed
  <2>4. QED
    BY <1>5, <2>2, <2>3
<1>7. ASSUME NEW t \in Trades
      PROVE  /\ Decision'[t] = IF t \in lost THEN "lost" ELSE Decision[t]
             /\ Held'[t] = IF t \in lost THEN {} ELSE {q \in Held[t] : q.portfolio # p}
  <2>1. CASE t \in lost
    BY <1>2, <2>1, SeenAre
  <2>2. CASE t \in disturbed
    <3>1. t \notin lost /\ Decision'[t] = Decision[t] /\ Held'[t] = {} /\ Held[t] = {}
      BY <1>2, <1>3, <2>2, SeenAre
    <3>2. QED
      BY <3>1
  <2>3. CASE t \notin disturbed /\ t \notin disturbed'
    <3>1. /\ t \notin lost /\ Decision'[t] = Decision[t]
          /\ Held[t] = Holdings(t) /\ Held'[t] = Holdings(t)'
      BY <1>1, <1>2, <2>3, SeenAre
    <3>2. QED
      BY <1>5, <3>1
  <2>4. QED
    BY <1>2, <2>1, <2>2, <2>3
<1>8. /\ Decision' = [t \in Trades |-> IF t \in lost THEN "lost" ELSE Decision[t]]
      /\ Held' = [t \in Trades |-> IF t \in lost THEN {} ELSE {q \in Held[t] : q.portfolio # p}]
  BY <1>7, SeenAreFunctions
<1>9. Decisions!Close(p, lost)
  BY <1>4, <1>6, <1>8, Zenon DEF Decisions!Close
<1>10. lost \in SUBSET Trades
  BY <1>3
<1>11. QED
  BY <1>9, <1>10, Zenon DEF Decisions!Next

(* Every step is a step of the decisions or leaves them alone.             *)
LEMMA StepIsDecided ==
  ASSUME IndInv, IndInv', [Next]_vars
  PROVE  [Decisions!Next]_Seen
<1>1. ASSUME NEW T \in (SUBSET Trades) \ {{}}, Import(T) PROVE [Decisions!Next]_Seen
  <2>1. T \ disturbed \in SUBSET Trades
    OBVIOUS
  <2>2. QED
    BY <1>1, <2>1, ImportArrives, Zenon DEF Decisions!Next
<1>2. ASSUME NEW t \in Trades, InboxStep(t) PROVE [Decisions!Next]_Seen
  BY <1>2, InboxStepSeen DEF IndInv
<1>3. ASSUME NEW x \in transaction, DeleteTransaction(x) PROVE [Decisions!Next]_Seen
  BY <1>3, DeleteRemoves
<1>4. ASSUME NEW x \in transaction, NEW p \in Portfolios, NEW fee \in BOOLEAN,
             UpdateTransaction(x, p, fee)
      PROVE  [Decisions!Next]_Seen
  BY <1>4, UpdateTransactionMoves
<1>5. ASSUME NEW d \in Dividends, NEW p \in Portfolios, NEW l \in {NoLink, OwnLink},
             CreateDividend(d, p, l)
      PROVE  UNCHANGED Seen
  BY <1>5, QuietStep DEF CreateDividend
<1>6. ASSUME NEW d \in Dividends, NEW op \in {"DeleteDividend", "UpdateDividend"},
             ReadDividend(d, op)
      PROVE  UNCHANGED Seen
  BY <1>6, QuietStep DEF ReadDividend
<1>7. ASSUME NEW r \in requests, DeleteDividend(r) PROVE [Decisions!Next]_Seen
  BY <1>7, DeleteDividendRemoves
<1>8. ASSUME NEW r \in requests, NEW p \in Portfolios, NEW b \in BOOLEAN, UpdateDividend(r, p, b)
      PROVE  [Decisions!Next]_Seen
  BY <1>8, UpdateDividendMoves
<1>9. ASSUME NEW r \in requests, EndRequest(r) PROVE UNCHANGED Seen
  BY <1>9, QuietStep DEF EndRequest
<1>10. ASSUME NEW p \in Portfolios, DeletePortfolio(p) \/ DeletePortfolioFund(p)
       PROVE  [Decisions!Next]_Seen
  BY <1>10, CascadeCloses DEF DeletePortfolio, DeletePortfolioFund
<1>11. CASE UNCHANGED vars
  BY <1>11, QuietStep DEF vars
<1>12. QED
  BY <1>1, <1>2, <1>3, <1>4, <1>5, <1>6, <1>7, <1>8, <1>9, <1>10, <1>11 DEF Next

\* The inbox implements the decisions: an import brings no trade back, a new decision
\* replaces every part of the old one, what is taken back is taken back whole, and edits,
\* reinvestments and deletions of portfolios are followed, or the trade is known as lost.
THEOREM InboxKeepsDecisions == Spec => KeepsDecisions
<1>1. Init => Decisions!Init
  <2>1. ASSUME Init, NEW t \in Trades PROVE Decision[t] = "absent" /\ Held[t] = {}
    <3>1. t \notin disturbed /\ status[t] = "absent" /\ transaction = {}
      BY <2>1 DEF Init
    <3>2. Holdings(t) = {}
      BY <3>1, InHoldings, Zenon
    <3>3. QED
      BY <3>1, <3>2, SeenAre, Zenon
  <2>2. QED
    BY <2>1, SeenAreFunctions DEF Decisions!Init
<1>2. IndInv /\ IndInv' /\ [Next]_vars => [Decisions!Next]_Seen
  BY StepIsDecided
<1>3. [Decisions!Next]_Seen => [Decisions!Next]_(Decisions!vars)
  BY DEF Seen, Decisions!vars
<1>4. QED
  BY <1>1, <1>2, <1>3, Invariance, PTL DEF Spec, KeepsDecisions, Decisions!Spec

=============================================================================
