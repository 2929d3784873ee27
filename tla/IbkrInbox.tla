------------------------------ MODULE IbkrInbox ------------------------------
(***************************************************************************)
(* The IBKR inbox: imported trades wait in ibkr_transaction for a decision. *)
(* Allocating a trade creates a transaction, and another for its fee, in   *)
(* every portfolio it is divided over, tied to the trade by rows of        *)
(* ibkr_transaction_allocation; unallocating takes them back.  The same    *)
(* transactions can be edited and deleted by the transaction service,      *)
(* become the reinvestment of a dividend, and disappear with a portfolio   *)
(* by the cascades of the schema.                                          *)
(*                                                                         *)
(* An operation whose reads and writes share one database transaction is   *)
(* one action.  Three operations read before they begin it:                *)
(* DeleteIbkrTransaction, DeleteDividend and UpdateDividend.  What they    *)
(* have read is a request in flight.                                       *)
(***************************************************************************)
EXTENDS Integers, FiniteSets

CONSTANTS
  Trades,        \* what IBKR identifies: ibkr_transaction.ibkr_transaction_id is UNIQUE
  WithFees,      \* the trades with fees, which get a fee transaction per allocation
  Portfolios,    \* each stands for its portfolio_fund of the traded fund too
  Dividends,     \* rows of table dividend
  NoPortfolio,   \* the portfolio of a dividend that does not exist
  NoLink,        \* reinvestment_transaction_id is NULL
  OwnLink,       \* it is a transaction the dividend service made, not the inbox
  MaxEntries,    \* bound: entries of one allocation request
  MaxRounds,     \* bound: times a trade is allocated
  MaxRequests    \* bound: requests in flight

ASSUME IbkrInboxAssumption ==
  /\ WithFees \subseteq Trades
  /\ MaxEntries \in Nat /\ MaxRounds \in Nat /\ MaxRequests \in Nat
  /\ NoPortfolio \notin Portfolios
  /\ NoLink # OwnLink

VARIABLES
  status,        \* trade -> its row's status, "absent" when it has no row
  round,         \* trade -> how often it was allocated, so that every uuid is new
  transaction,   \* rows of table transaction that allocations inserted
  allocation,    \* rows of ibkr_transaction_allocation
  dividend,      \* dividend -> its portfolio and reinvestment_transaction_id
  requests,      \* what operations in flight have read
  disturbed      \* history: trades that lost allocation rows outside the inbox

vars == <<status, round, transaction, allocation, dividend, requests, disturbed>>

\* The uuids allocation can generate.
Ids == [trade : Trades, round : 1..MaxRounds, entry : 1..MaxEntries, fee : BOOLEAN]

\* A link is to a transaction of the inbox or says that it is not.
ASSUME LinkAssumption == NoLink \notin Ids /\ OwnLink \notin Ids

Transactions == [id : Ids, portfolio : Portfolios, fee : BOOLEAN]
Allocations  == [id : Ids, portfolio : Portfolios]

DividendRows == [portfolio : Portfolios \cup {NoPortfolio}, link : Ids \cup {NoLink, OwnLink}]
NoDividend   == [portfolio |-> NoPortfolio, link |-> NoLink]

Requests ==
  [op : {"DeleteIbkrTransaction"}, trade : Trades]
    \cup [op : {"DeleteDividend", "UpdateDividend"}, dividend : Dividends, read : DividendRows]

\* The bodies of allocation requests: the portfolio of each entry, which may recur.
Entries == UNION {[1..n -> Portfolios] : n \in 1..MaxEntries}

Init ==
  /\ status      = [t \in Trades |-> "absent"]
  /\ round       = [t \in Trades |-> 0]
  /\ transaction = {}
  /\ allocation  = {}
  /\ dividend    = [d \in Dividends |-> NoDividend]
  /\ requests    = {}
  /\ disturbed   = {}

------------------------------------------------------------------------------
(* Tables                                                                  *)

AllocationsOf(t) == {a \in allocation : a.id.trade = t}

IdsOf(S) == {r.id : r \in S}

\* dividend.reinvestment_transaction_id REFERENCES transaction ON DELETE RESTRICT
Restricts(ids) == \E d \in Dividends : dividend[d].link \in ids

\* The rows one allocation inserts: for each entry its trade and, if any, its fee.
Inserted(t, entries, n) ==
  {[id        |-> [trade |-> t, round |-> n, entry |-> i, fee |-> f],
    portfolio |-> entries[i],
    fee       |-> f] : i \in DOMAIN entries, f \in {b \in BOOLEAN : b => t \in WithFees}}

\* The allocation rows that tie them to the trade.
Ties(rows) == {[id |-> x.id, portfolio |-> x.portfolio] : x \in rows}

\* Requests that will find their row gone: a row that is inserted again has a new uuid.
OnTrade(t)     == {r \in requests : r.op = "DeleteIbkrTransaction" /\ r.trade = t}
OnDividends(D) == {r \in requests : r.op # "DeleteIbkrTransaction" /\ r.dividend \in D}

\* Trades that a cascade, which leaves transactions T and allocation rows A, has left
\* processed without an allocation or with a transaction that has none.
Disturbs(T, A) ==
  {t \in Trades : status[t] = "processed" /\ \A a \in A : a.id.trade # t}
    \cup {x.id.trade : x \in {y \in T : y.id \in IdsOf(allocation) \ IdsOf(A)}}

------------------------------------------------------------------------------
(* The inbox: ibkr_service.go                                              *)

ForgetsIgnored(T) ==
  /\ \A t \in T : status[t] \in {"absent", "ignored"}
  /\ status' = [t \in Trades |-> IF t \in T THEN "pending" ELSE status[t]]
  /\ UNCHANGED <<round, transaction, allocation, dividend, requests, disturbed>>

\* ImportFlexReport inserts the trades of a report that have no row, all at once.
Import(T) ==
  /\ \A t \in T : status[t] = "absent"
  /\ status' = [t \in Trades |-> IF t \in T THEN "pending" ELSE status[t]]
  /\ UNCHANGED <<round, transaction, allocation, dividend, requests, disturbed>>

AllocateIbkrTransaction(t, entries) ==
  /\ status[t] = "pending"
  /\ round[t] < MaxRounds
  /\ LET rows == Inserted(t, entries, round[t] + 1) IN
     /\ transaction' = transaction \cup rows
     /\ allocation'  = allocation \cup Ties(rows)
  /\ status' = [status EXCEPT ![t] = "processed"]
  /\ round'  = [round EXCEPT ![t] = @ + 1]
  /\ UNCHANGED <<dividend, requests, disturbed>>

\* unallocateIbkrTransactionTx fails on a trade that is not processed, on one without
\* allocation rows, and when a dividend is reinvested in a linked transaction.
CanUnallocate(t) ==
  /\ status[t] = "processed"
  /\ AllocationsOf(t) # {}
  /\ ~Restricts(IdsOf(AllocationsOf(t)))

KeepsFees(t) ==
  /\ CanUnallocate(t)
  /\ transaction' = {x \in transaction : x.id \notin IdsOf(AllocationsOf(t)) \/ x.id.fee}
  /\ allocation'  = allocation \ AllocationsOf(t)
  /\ status'      = [status EXCEPT ![t] = "pending"]
  /\ UNCHANGED <<round, dividend, requests, disturbed>>

UnallocateIbkrTransaction(t) ==
  /\ CanUnallocate(t)
  /\ transaction' = {x \in transaction : x.id \notin IdsOf(AllocationsOf(t))}
  /\ allocation'  = allocation \ AllocationsOf(t)
  /\ status'      = [status EXCEPT ![t] = "pending"]
  /\ UNCHANGED <<round, dividend, requests, disturbed>>

\* Both halves of ModifyAllocations share one database transaction.
ModifyAllocations(t, entries) ==
  /\ CanUnallocate(t)
  /\ round[t] < MaxRounds
  /\ LET rows == Inserted(t, entries, round[t] + 1) IN
     /\ transaction' = {x \in transaction : x.id \notin IdsOf(AllocationsOf(t))} \cup rows
     /\ allocation'  = (allocation \ AllocationsOf(t)) \cup Ties(rows)
  /\ round' = [round EXCEPT ![t] = @ + 1]
  /\ UNCHANGED <<status, dividend, requests, disturbed>>

IgnoresMisspelt(t) ==
  /\ status[t] = "pending"
  /\ status' = [status EXCEPT ![t] = "ignore"]
  /\ UNCHANGED <<round, transaction, allocation, dividend, requests, disturbed>>

IgnoreIbkrTransaction(t) ==
  /\ status[t] = "pending"
  /\ status' = [status EXCEPT ![t] = "ignored"]
  /\ UNCHANGED <<round, transaction, allocation, dividend, requests, disturbed>>

\* Each dividend is linked to the transaction of its portfolio, if it has one that is not
\* a fee and the dividend is not linked yet; when one of them fails none is linked.
MatchDividend(t, D) ==
  /\ status[t] = "processed"
  /\ D # {}
  /\ \E tx \in [{dividend[d].portfolio : d \in D} -> IdsOf(AllocationsOf(t))] :
       /\ \A p \in DOMAIN tx :
            /\ [id |-> tx[p], portfolio |-> p] \in allocation
            /\ \E x \in transaction : x.id = tx[p] /\ ~x.fee
       /\ \A d \in D : dividend[d].link = NoLink
       /\ dividend' = [d \in Dividends |-> IF d \in D
                                           THEN [dividend[d] EXCEPT !.link = tx[dividend[d].portfolio]]
                                           ELSE dividend[d]]
  /\ UNCHANGED <<status, round, transaction, allocation, requests, disturbed>>

\* DeleteIbkrTransaction reads the status, and deletes the row in a later statement
\* that does not look at it.
ReadTradeToDelete(t) ==
  /\ status[t] = "pending"
  /\ Cardinality(requests) < MaxRequests
  /\ requests' = requests \cup {[op |-> "DeleteIbkrTransaction", trade |-> t]}
  /\ UNCHANGED <<status, round, transaction, allocation, dividend, disturbed>>

\* The allocation rows go with the row, the transactions stay.
DeleteIbkrTransaction(t) ==
  /\ OnTrade(t) # {}
  /\ status'     = [status EXCEPT ![t] = "absent"]
  /\ allocation' = allocation \ AllocationsOf(t)
  /\ requests'   = requests \ OnTrade(t)
  /\ disturbed'  = disturbed \cup {a.id.trade : a \in AllocationsOf(t)}
  /\ UNCHANGED <<round, transaction, dividend>>

------------------------------------------------------------------------------
(* Transactions: transaction_service.go                                    *)

IsAllocated(x, t) == x.id \in IdsOf(allocation)

\* DeleteTransaction returns a trade to the inbox when it deletes its last allocation.
IsLast(x, t) == x.id \in IdsOf(allocation) /\ Cardinality(AllocationsOf(t)) = 1

\* The allocation row goes with its transaction; a reinvestment cannot be deleted.
DeleteTransaction(x) ==
  /\ ~Restricts({x.id})
  /\ status' = [t \in Trades |-> IF t = x.id.trade /\ IsLast(x, t) THEN "pending" ELSE status[t]]
  /\ transaction' = transaction \ {x}
  /\ allocation'  = {a \in allocation : a.id # x.id}
  /\ UNCHANGED <<round, dividend, requests, disturbed>>

\* UpdateTransaction may move a transaction to another portfolio and change its type; the
\* allocation row keeps the portfolio it had.
UpdateTransaction(x, p, fee) ==
  /\ transaction' = (transaction \ {x}) \cup {[x EXCEPT !.portfolio = p, !.fee = fee]}
  /\ UNCHANGED <<status, round, allocation, dividend, requests, disturbed>>

------------------------------------------------------------------------------
(* Dividends: dividend_service.go                                          *)

\* With reinvestment data a stock dividend gets a transaction of its own.
CreateDividend(d, p, link) ==
  /\ dividend[d] = NoDividend
  /\ dividend' = [dividend EXCEPT ![d] = [portfolio |-> p, link |-> link]]
  /\ UNCHANGED <<status, round, transaction, allocation, requests, disturbed>>

\* DeleteDividend and UpdateDividend read the row before their database transactions.
ReadDividend(d, op) ==
  /\ dividend[d] # NoDividend
  /\ Cardinality(requests) < MaxRequests
  /\ requests' = requests \cup {[op |-> op, dividend |-> d, read |-> dividend[d]]}
  /\ UNCHANGED <<status, round, transaction, allocation, dividend, disturbed>>

\* The row is deleted first, then the reinvestment transaction that was read, with its
\* allocation row, unless it is gone or another dividend is reinvested in it.
DeleteDividend(r) ==
  LET d == r.dividend
      T == {x \in transaction : x.id # r.read.link}
      A == {a \in allocation : a.id # r.read.link}
  IN  /\ r.op = "DeleteDividend"
      /\ r.read.link \in Ids => r.read.link \in IdsOf(transaction)
      /\ \A e \in Dividends \ {d} : dividend[e].link \in Ids => dividend[e].link # r.read.link
      /\ dividend'    = [dividend EXCEPT ![d] = NoDividend]
      /\ transaction' = T
      /\ allocation'  = A
      /\ requests'    = requests \ OnDividends({d})
      /\ disturbed'   = disturbed \cup Disturbs(T, A)
      /\ UNCHANGED <<status, round>>

KeysUnchecked(link) == TRUE

\* The foreign key of reinvestment_transaction_id.
Exists(link) == link \in Ids => link \in IdsOf(transaction)

\* The whole row is written back, the link that was read included.  With reinvestment data
\* a dividend without a transaction gets one of its own, and the transaction of one that
\* has it moves to the dividend's portfolio.
UpdateDividend(r, p, reinvests) ==
  LET link  == IF reinvests /\ r.read.link = NoLink THEN OwnLink ELSE r.read.link
      moved == {x \in transaction : reinvests /\ x.id = link}
  IN  /\ r.op = "UpdateDividend"
      /\ Exists(link)
      /\ dividend' = [dividend EXCEPT ![r.dividend] = [portfolio |-> p, link |-> link]]
      /\ transaction' = (transaction \ moved) \cup {[x EXCEPT !.portfolio = p] : x \in moved}
      /\ requests' = requests \ {r}
      /\ UNCHANGED <<status, round, allocation, disturbed>>

\* A request that is refused, or whose client or process is gone, has changed nothing.
EndRequest(r) ==
  /\ requests' = requests \ {r}
  /\ UNCHANGED <<status, round, transaction, allocation, dividend, disturbed>>

------------------------------------------------------------------------------
(* Portfolios: portfolio_service.go, fund_service.go and the schema        *)

\* What a cascade over portfolio p takes, with allocation rows A left by other keys: its
\* dividends and transactions, and the allocation rows of these.
Cascade(p, A) ==
  LET D == {d \in Dividends : dividend[d].portfolio = p}
      T == {x \in transaction : x.portfolio # p}
      B == {a \in A : a.id \notin IdsOf(transaction \ T)}
  IN  /\ \A d \in Dividends \ D : dividend[d].link \notin IdsOf(transaction \ T)
      /\ dividend'    = [d \in Dividends |-> IF d \in D THEN NoDividend ELSE dividend[d]]
      /\ transaction' = T
      /\ allocation'  = B
      /\ requests'    = requests \ OnDividends(D)
      /\ disturbed'   = disturbed \cup Disturbs(T, B)
      /\ UNCHANGED <<status, round>>

\* portfolio_id of ibkr_transaction_allocation cascades too.  The next portfolio may take
\* the place of the deleted one: nothing refers to it any more.
DeletePortfolio(p) == Cascade(p, {a \in allocation : a.portfolio # p})

DeletePortfolioFund(p) == Cascade(p, allocation)

------------------------------------------------------------------------------

InboxStep(t) ==
  \/ \E entries \in Entries : AllocateIbkrTransaction(t, entries) \/ ModifyAllocations(t, entries)
  \/ UnallocateIbkrTransaction(t)
  \/ IgnoreIbkrTransaction(t)
  \/ \E D \in SUBSET Dividends : MatchDividend(t, D)
  \/ ReadTradeToDelete(t)
  \/ DeleteIbkrTransaction(t)

Next ==
  \/ \E T \in (SUBSET Trades) \ {{}} : Import(T)
  \/ \E t \in Trades : InboxStep(t)
  \/ \E x \in transaction : \/ DeleteTransaction(x)
                            \/ \E p \in Portfolios, fee \in BOOLEAN : UpdateTransaction(x, p, fee)
  \/ \E d \in Dividends : \/ \E p \in Portfolios, l \in {NoLink, OwnLink} : CreateDividend(d, p, l)
                          \/ ReadDividend(d, "DeleteDividend")
                          \/ ReadDividend(d, "UpdateDividend")
  \/ \E r \in requests : \/ DeleteDividend(r)
                         \/ \E p \in Portfolios, b \in BOOLEAN : UpdateDividend(r, p, b)
                         \/ EndRequest(r)
  \/ \E p \in Portfolios : DeletePortfolio(p) \/ DeletePortfolioFund(p)

Spec == Init /\ [][Next]_vars

------------------------------------------------------------------------------
(* Properties                                                              *)

TypeOK ==
  /\ status \in [Trades -> {"absent", "pending", "processed", "ignored"}]
  /\ round  \in [Trades -> 0..MaxRounds]
  /\ transaction \subseteq Transactions
  /\ allocation  \subseteq Allocations
  /\ dividend \in [Dividends -> DividendRows]
  /\ requests \subseteq Requests
  /\ disturbed \subseteq Trades

\* Only a processed trade has allocation rows, all of one allocation, each with its
\* transaction: whatever deletes rows, a decision taken back leaves none of them behind.
AllocationsAreOfOneDecision ==
  \A a \in allocation :
    /\ status[a.id.trade] = "processed"
    /\ a.id \in IdsOf(transaction)
    /\ \A b \in AllocationsOf(a.id.trade) : b.id.round = a.id.round

\* A trade is counted once.  Unless something outside the inbox took allocation rows away,
\* its transactions are those of the allocation in force: none when it is not processed,
\* and some when it is, so that the decision can be taken back.
CountedOnce ==
  \A t \in Trades \ disturbed :
    LET held == {x \in transaction : x.id.trade = t} IN
    /\ status[t] = "processed" <=> held # {}
    /\ IdsOf(held) = IdsOf(AllocationsOf(t))

\* A dividend that is reinvested in a trade is so in a transaction that exists, whatever
\* a request that read the dividend earlier writes back, and that transaction's trade has
\* not gone back to the inbox.
ReinvestmentsExist ==
  \A d \in Dividends :
    dividend[d].link \in Ids =>
      /\ dividend[d].link \in IdsOf(transaction)
      /\ dividend[d].link.trade \notin disturbed => status[dividend[d].link.trade] = "processed"

\* What a user sees of the inbox: one decision per trade, and who holds which part of it.
\* A trade that lost allocation rows outside the inbox is lost to it.
Part(x)     == [id |-> x.id, portfolio |-> x.portfolio]
Holdings(t) == {Part(x) : x \in {y \in transaction : y.id.trade = t}}

Decision == [t \in Trades |-> IF t \in disturbed THEN "lost" ELSE status[t]]
Held     == [t \in Trades |-> IF t \in disturbed THEN {} ELSE Holdings(t)]

Decisions == INSTANCE TradeDecisions WITH decision <- Decision, parts <- Held

\* Every operation is a step of the decisions or none: an import brings no trade back, no
\* transaction of an earlier decision outlives a later one, and what edits, reinvestments
\* and deletions of portfolios do to the transactions, the decision follows.
KeepsDecisions == Decisions!Spec

\* The API offers to unallocate a processed transaction: it has allocations to take back.
ProcessedCanBeUnallocated ==
  \A t \in Trades : status[t] = "processed" => AllocationsOf(t) # {}
=============================================================================
