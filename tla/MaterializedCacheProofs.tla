----------------------- MODULE MaterializedCacheProofs -----------------------
(***************************************************************************)
(* Theorems about MaterializedCache, for any portfolios, any number of     *)
(* hooks and loops, any horizon and any number of writes.                  *)
(*                                                                         *)
(* That a wrong row has a repair on the way is not inductive: it says      *)
(* nothing about the call that is loading, whose answers are about to      *)
(* become rows.  The invariant adds that an answer a write has overtaken   *)
(* has its repair on the way too (StaleSnapshotHasRepair), and what makes  *)
(* that possible: only one call loads, rows cover no later day than it     *)
(* does, and what one write inserted is of one day, so the start of the    *)
(* hook covers all that an update or a deletion changes.                   *)
(*                                                                         *)
(* That reading settles is a second argument, at the end: rows reach the   *)
(* day their call has read, and are calculated no earlier than anything    *)
(* they were read from was created.                                        *)
(***************************************************************************)
EXTENDS MaterializedCache, RegenLoopProofs, WellFoundedInduction

------------------------------------------------------------------------------
(* Days, queries and entries                                               *)

\* MIN(date) of a set of days is one of them and no later than any.
LEMMA EarliestIsLeast ==
  ASSUME NEW D \in SUBSET Nat, D # {}
  PROVE  Earliest(D) \in D /\ \A e \in D : Earliest(D) <= e
<1>1. PICK m \in D : \A e \in D : ~(<<e, m>> \in OpToRel(<, Nat))
  BY WFMin, NatLessThanWellFounded, Zenon
<1>2. \A e \in D : ~(e < m)
  BY <1>1, Zenon DEF OpToRel
<1>3. m \in D /\ \A e \in D : m <= e
  BY <1>2
<1>4. QED
  BY <1>3 DEF Earliest

\* The five queries, in their order.
LEMMA QueriesAre ==
  /\ Len(Queries) = 5
  /\ Queries[1] = "oldest"
  /\ \A i \in 2..5 : Queries[i] \in Kinds
  /\ \A i, j \in 2..5 : Queries[i] = Queries[j] => i = j
  /\ \A k \in Kinds : \E i \in 2..5 : Queries[i] = k
<1>1. Queries = <<"oldest", "transaction", "dividend", "price", "realized">>
  BY DEF Queries
<1>2. /\ Len(Queries) = 5 /\ Queries[1] = "oldest" /\ Queries[2] = "transaction"
      /\ Queries[3] = "dividend" /\ Queries[4] = "price" /\ Queries[5] = "realized"
  BY <1>1
<1>3. \A i \in 2..5 : i = 2 \/ i = 3 \/ i = 4 \/ i = 5
  OBVIOUS
<1>4. QED
  BY <1>2, <1>3 DEF Kinds

\* The oldest transaction date of portfolio p in a set of facts.
OldestIn(S, p) == Earliest({f.date : f \in {g \in S : g.portfolio = p /\ g.kind = "transaction"}})

\* It is the date of one of its transactions and no later than any, or there is none.
LEMMA OldestIs ==
  ASSUME NEW S \in SUBSET Facts, NEW p \in Portfolios
  PROVE  /\ OldestIn(S, p) \in Dates \cup {NoDate}
         /\ \A f \in S : (f.portfolio = p /\ f.kind = "transaction") => OldestIn(S, p) <= f.date
         /\ OldestIn(S, p) # NoDate
              => \E f \in S : f.portfolio = p /\ f.kind = "transaction" /\ f.date = OldestIn(S, p)
<1> USE RegenLoopAssumption DEF Dates, NoDate
<1> DEFINE D == {f.date : f \in {g \in S : g.portfolio = p /\ g.kind = "transaction"}}
<1>1. D \subseteq Dates
  BY DEF Facts
<1>2. OldestIn(S, p) = Earliest(D)
  BY DEF OldestIn
<1>3. \A f \in S : (f.portfolio = p /\ f.kind = "transaction") => f.date \in D
  OBVIOUS
<1>4. \A d \in D : \E f \in S : f.portfolio = p /\ f.kind = "transaction" /\ f.date = d
  OBVIOUS
<1> HIDE DEF D
<1>5. CASE D = {}
  BY <1>5, <1>2, <1>3 DEF Earliest
<1>6. CASE D # {}
  <2>1. Earliest(D) \in D /\ \A e \in D : Earliest(D) <= e
    BY <1>6, <1>1, EarliestIsLeast
  <2>2. QED
    BY <2>1, <1>1, <1>2, <1>3, <1>4
<1>7. QED
  BY <1>5, <1>6

\* That is what the query returns, before and after a step.
LEMMA OldestNow ==
  ASSUME NEW p \in Portfolios
  PROVE  /\ GetOldestTransaction(p) = OldestIn(source, p)
         /\ GetOldestTransaction(p)' = OldestIn(source', p)
<1>1. {g \in OfPortfolio(p) : g.kind = "transaction"}
        = {g \in source : g.portfolio = p /\ g.kind = "transaction"}
  BY DEF OfPortfolio
<1>2. {g \in OfPortfolio(p)' : g.kind = "transaction"}
        = {g \in source' : g.portfolio = p /\ g.kind = "transaction"}
  BY DEF OfPortfolio
<1>3. QED
  BY <1>1, <1>2 DEF GetOldestTransaction, OldestIn

\* An entry depends only on the facts up to its day.
LEMMA EntryIsUpTo ==
  ASSUME NEW F, NEW G, NEW e, {f \in F : f.date <= e} = {f \in G : f.date <= e}
  PROVE  Entry(F, e) = Entry(G, e)
BY DEF Entry

------------------------------------------------------------------------------
(* Calls and rows                                                          *)

\* A day since the first transaction has an entry that is not empty.
LEMMA ComputedIsARow ==
  ASSUME source \subseteq Facts, NEW p \in Portfolios, NEW e \in Dates,
         GetOldestTransaction(p) <= e
  PROVE  Computed(p, e) # NoRow
<1> DEFINE F == Since(p, GetOldestTransaction(p))
<1>1. GetOldestTransaction(p) # NoDate
  BY RegenLoopAssumption DEF Dates, NoDate
<1>2. PICK f \in source : /\ f.portfolio = p /\ f.kind = "transaction"
                          /\ f.date = GetOldestTransaction(p)
  BY <1>1, OldestIs, OldestNow
<1>3. f.date \in Int
  BY DEF Facts, Dates
<1>4. f \in {x \in F : x.date <= e} /\ f.kind # "price"
  BY <1>2, <1>3 DEF Since, OfPortfolio
<1>5. Computed(p, e) = Entry(F, e)
  BY DEF Computed
<1> HIDE DEF F
<1>6. QED
  BY <1>4, <1>5 DEF Entry, NoRow

\* Each fact a call has read of a portfolio came from one of the queries it has made.
SnapFacts(w) ==
  \A p \in Portfolios : \A f \in work[w].snap[p] :
    \E i \in 2..work[w].loaded[p] : f.kind = Queries[i]

\* When all five queries on p are up to date for day e, the entry computed from their
\* answers is the one the tables call for, unless the call ends on e and leaves out
\* dividends of that day.
LEMMA UpToDateEntry ==
  ASSUME source \subseteq Facts, NEW w \in Workers, NEW p \in Portfolios, NEW e \in Dates,
         SnapFacts(w), work[w].loaded[p] = 5, work[w].end \in Dates, e <= work[w].end,
         UpToDate(w, p, e), e \notin LeavesOut(w, p)
  PROVE  Entry(work[w].snap[p], e) = Computed(p, e)
<1> DEFINE old  == GetOldestTransaction(p)
           snap == work[w].snap[p]
           end  == work[w].end
           F    == Since(p, old)
<1>1. \A i \in 2..5 : {f \in snap : f.kind = Queries[i] /\ f.date <= e}
                         = {f \in Query(p, Queries[i], old, end) : f.date <= e}
  BY DEF UpToDate
<1>2. \A f \in snap : \E i \in 2..5 : f.kind = Queries[i]
  BY DEF SnapFacts
<1>3. ASSUME NEW f \in F, f.date <= e
      PROVE  \E i \in 2..5 : f \in Query(p, Queries[i], old, end)
  <2>1. f.date \in Int /\ f.kind \in Kinds /\ e \in Int /\ end \in Int
    BY DEF Since, OfPortfolio, Facts, Dates
  <2>2. PICK i \in 2..5 : Queries[i] = f.kind
    BY <2>1, QueriesAre
  <2>3. f.date <= end /\ (f.date = end => e = end)
    BY <1>3, <2>1
  <2>4. f.kind = "dividend" => f.date # end
    BY <2>3 DEF LeavesOut, Since
  <2>5. f \in Query(p, Queries[i], old, end)
    BY <2>2, <2>3, <2>4 DEF Query
  <2>6. QED
    BY <2>5
<1>4. \A i \in 2..5 : \A f \in Query(p, Queries[i], old, end) : f \in F /\ f.kind = Queries[i]
  BY DEF Query
<1>5. Computed(p, e) = Entry(F, e)
  BY DEF Computed
<1> HIDE DEF F, snap, old, end
<1>6. {f \in snap : f.date <= e} = {f \in F : f.date <= e}
  <2>1. ASSUME NEW f \in snap, f.date <= e
        PROVE  f \in F
    <3>1. PICK i \in 2..5 : f.kind = Queries[i]
      BY <1>2
    <3>2. f \in Query(p, Queries[i], old, end)
      BY <1>1, <2>1, <3>1
    <3>3. QED
      BY <1>4, <3>2
  <2>2. ASSUME NEW f \in F, f.date <= e
        PROVE  f \in snap
    <3>1. PICK i \in 2..5 : f \in Query(p, Queries[i], old, end)
      BY <1>3, <2>2
    <3>2. QED
      BY <1>1, <2>2, <3>1
  <2>3. QED
    BY <2>1, <2>2
<1>7. QED
  BY <1>5, <1>6, EntryIsUpTo DEF snap

\* That entry is not empty, dividends or not, from the first transaction on.
LEMMA UpToDateIsARow ==
  ASSUME source \subseteq Facts, NEW w \in Workers, NEW p \in Portfolios, NEW e \in Dates,
         work[w].loaded[p] = 5, work[w].end \in Dates, e <= work[w].end,
         UpToDate(w, p, e), GetOldestTransaction(p) <= e
  PROVE  Entry(work[w].snap[p], e) # NoRow
<1> DEFINE snap == work[w].snap[p]
           old  == GetOldestTransaction(p)
<1>1. old # NoDate
  BY RegenLoopAssumption DEF Dates, NoDate
<1>2. PICK f \in source : f.portfolio = p /\ f.kind = "transaction" /\ f.date = old
  BY <1>1, OldestIs, OldestNow
<1>3. f.date \in Int /\ work[w].end \in Int /\ e \in Int
  BY DEF Facts, Dates
<1>4. PICK i \in 2..5 : Queries[i] = "transaction"
  BY QueriesAre DEF Kinds
<1>5. f \in Query(p, Queries[i], old, work[w].end)
  BY <1>2, <1>3, <1>4 DEF Query, Since, OfPortfolio
<1>6. {x \in snap : x.kind = Queries[i] /\ x.date <= e}
        = {x \in Query(p, Queries[i], old, work[w].end) : x.date <= e}
  BY DEF UpToDate
<1> HIDE DEF snap, old
<1>7. f \in {x \in snap : x.date <= e} /\ f.kind # "price"
  BY <1>2, <1>5, <1>6 DEF old
<1>8. Entry(snap, e) # NoRow
  BY <1>7 DEF Entry, NoRow
<1>9. QED
  BY <1>8 DEF snap

\* The facts of a portfolio a step deletes or inserts.
Changed(p) == {f \in (source \ source') \cup (source' \ source) : f.portfolio = p}

\* A step that changes only facts of later days leaves what a day should hold alone.
LEMMA EarlierDaysSame ==
  ASSUME source \subseteq Facts, source' \subseteq Facts,
         NEW p \in Portfolios, NEW e \in Dates, \A f \in Changed(p) : e < f.date,
         GetOldestTransaction(p) <= e \/ GetOldestTransaction(p)' <= e
  PROVE  /\ GetOldestTransaction(p)' = GetOldestTransaction(p)
         /\ \A kind, oldest, end : {f \in Query(p, kind, oldest, end)' : f.date <= e}
                                     = {f \in Query(p, kind, oldest, end) : f.date <= e}
         /\ Computed(p, e)' = Computed(p, e)
<1> USE RegenLoopAssumption DEF Dates, NoDate
<1>1. \A f \in source \cup source' : f.date \in Dates
  BY DEF Facts
<1>2. \A f \in source \cup source' : f.portfolio = p /\ f.date <= e => f \in source /\ f \in source'
  BY <1>1 DEF Changed
<1>3. GetOldestTransaction(p)' = GetOldestTransaction(p)
  BY <1>1, <1>2, OldestIs, OldestNow
<1>4. \A kind, oldest, end : {f \in Query(p, kind, oldest, end)' : f.date <= e}
                               = {f \in Query(p, kind, oldest, end) : f.date <= e}
  BY <1>2 DEF Query, Since, OfPortfolio
<1>5. Computed(p, e)' = Computed(p, e)
  <2> DEFINE F == Since(p, GetOldestTransaction(p))
             G == Since(p, GetOldestTransaction(p))'
  <2>1. Computed(p, e) = Entry(F, e) /\ Computed(p, e)' = Entry(G, e)
    BY DEF Computed
  <2>2. \A f : f \in F /\ f.date <= e <=> f \in G /\ f.date <= e
    BY <1>2, <1>3 DEF Since, OfPortfolio
  <2>3. QED
    BY <2>1, <2>2, EntryIsUpTo
<1>6. QED
  BY <1>3, <1>4, <1>5

\* A step that leaves the tables alone changes nothing they say.
LEMMA TablesSame ==
  ASSUME UNCHANGED source, NEW p, NEW e
  PROVE  /\ GetOldestTransaction(p)' = GetOldestTransaction(p)
         /\ \A kind, oldest, end : Query(p, kind, oldest, end)' = Query(p, kind, oldest, end)
         /\ Computed(p, e)' = Computed(p, e)
<1>1. GetOldestTransaction(p)' = GetOldestTransaction(p)
  BY DEF GetOldestTransaction, OfPortfolio
<1>2. \A kind, oldest, end : Query(p, kind, oldest, end)' = Query(p, kind, oldest, end)
  BY DEF Query, Since, OfPortfolio
<1>3. Computed(p, e)' = Computed(p, e)
  BY <1>1 DEF Computed, Since, OfPortfolio
<1>4. QED
  BY <1>1, <1>2, <1>3

\* What a call has read stays up to date for a day as long as neither its answers nor the
\* facts up to that day change.
LEMMA UpToDateKept ==
  ASSUME source \subseteq Facts, source' \subseteq Facts,
         NEW w \in Workers, NEW p \in Portfolios, NEW e \in Dates, UpToDate(w, p, e),
         \/ UNCHANGED source
         \/ GetOldestTransaction(p) <= e /\ \A f \in Changed(p) : e < f.date,
         work'[w].end       = work[w].end,
         work'[w].loaded[p] = work[w].loaded[p],
         work'[w].oldest[p] = work[w].oldest[p],
         work'[w].snap[p]   = work[w].snap[p]
  PROVE  UpToDate(w, p, e)'
<1>1. /\ GetOldestTransaction(p)' = GetOldestTransaction(p)
      /\ \A kind, oldest, end : {f \in Query(p, kind, oldest, end)' : f.date <= e}
                                  = {f \in Query(p, kind, oldest, end) : f.date <= e}
  <2>1. CASE UNCHANGED source
    BY <2>1, TablesSame
  <2>2. CASE GetOldestTransaction(p) <= e /\ \A f \in Changed(p) : e < f.date
    BY <2>2, EarlierDaysSame
  <2>3. QED
    BY <2>1, <2>2
<1>2. \A i : {f \in Query(p, Queries[i], GetOldestTransaction(p), work[w].end)' : f.date <= e}
               = {f \in Query(p, Queries[i], GetOldestTransaction(p), work[w].end) : f.date <= e}
  BY <1>1
<1>3. QED
  BY <1>1, <1>2 DEF UpToDate

\* A call that has made no query is up to date.
LEMMA NothingReadIsUpToDate ==
  ASSUME NEW w, NEW p, NEW e
  PROVE  /\ work[w].loaded[p] = 0  => UpToDate(w, p, e)
         /\ work'[w].loaded[p] = 0 => UpToDate(w, p, e)'
BY DEF UpToDate

\* A new call has its pc, targets and start and has read nothing.
LEMMA CallIs ==
  ASSUME NEW pc \in {"idle", "lock", "load"}, NEW T \in SUBSET Portfolios, NEW d \in Dates
  PROVE  /\ Call(pc, T, d) \in Calls
         /\ Call(pc, T, d).pc = pc /\ Call(pc, T, d).targets = T /\ Call(pc, T, d).start = d
         /\ \A p \in Portfolios : /\ Call(pc, T, d).loaded[p] = 0
                                  /\ Call(pc, T, d).snap[p] = {}
<1> USE RegenLoopAssumption DEF Dates, NoDate
<1>1. 0 \in Dates /\ 0 \in 0..Len(Queries)
  BY QueriesAre
<1>2. Call(pc, T, d) \in Calls
  BY <1>1 DEF Call, Calls
<1>3. QED
  BY <1>2 DEF Call

\* NoCall is idle, for nothing.
LEMMA NoCallIs ==
  /\ NoCall \in Calls /\ NoCall.pc = "idle" /\ NoCall.targets = {}
  /\ \A p \in Portfolios : NoCall.loaded[p] = 0 /\ NoCall.snap[p] = {}
<1>1. 0 \in Dates
  BY RegenLoopAssumption DEF Dates
<1>2. QED
  BY <1>1, CallIs DEF NoCall

------------------------------------------------------------------------------
(* The inductive invariant                                                 *)

\* Calls that are not loading have read nothing, idle ones are for nothing, and the one
\* that is loading holds regenWriteMu.
CallFacts ==
  \A w \in Workers :
    /\ work[w].pc = "idle" => work[w].targets = {}
    /\ work[w].pc # "load" => \A p \in Portfolios : work[w].loaded[p] = 0
    /\ SnapFacts(w)
    /\ work[w].pc = "load" <=> regenWriteMu = w

\* A loop goroutine is inside a call exactly when its protocol says so.
LoopLink == \A g \in Loops : work[g].pc # "idle" <=> loop[g].pc = "regen"

\* Rows are of days that have come, and that the call holding the lock covers.
RowFacts ==
  /\ \A p \in Portfolios, e \in Dates : rows[p][e] # NoRow =>
       e <= today /\ \A w \in Workers : work[w].pc = "load" => e <= work[w].end
  /\ \A w \in Workers : work[w].pc = "load" => work[w].end <= today

\* The facts one write inserted are of one day, unless they are prices.
WriteFacts ==
  /\ \A f \in source : f.write <= writes
  /\ \A f, g \in source : f.write = g.write /\ f.kind # "price" => g.date = f.date

\* A day is looked after: a repair is owed for it, or a hook other than w will repair it.
LookedAfter(p, e, w) == e \in unrepaired[p] \/ \E h \in Hooks \ {w} : Repairs(h, p, e)

\* When the call that holds the lock has read something that a write has since overtaken,
\* another hook will repair what it is about to install.
StaleSnapshotHasRepair ==
  \A w \in Workers, p \in Portfolios, e \in Dates :
    (/\ work[w].pc = "load" /\ p \in work[w].targets
     /\ GetOldestTransaction(p) <= e
     /\ work[w].start <= e /\ e <= work[w].end)
      => UpToDate(w, p, e) \/ LookedAfter(p, e, w)

CacheInv ==
  /\ LoopInv /\ LoopLink
  /\ CacheTypeOK
  /\ CallFacts /\ RowFacts /\ WriteFacts
  /\ StaleSnapshotHasRepair
  /\ WrongRowHasRepair

\* NoWorker is not a worker, and hooks are not loops.
LEMMA WorkersAre == Hooks \cap Loops = {} /\ NoWorker \notin Workers
BY MaterializedCacheAssumption DEF Workers

\* An empty database, no rows and no goroutines satisfy the invariant.
LEMMA CacheInvInit == CacheInit => CacheInv
<1> SUFFICES ASSUME CacheInit PROVE CacheInv
  OBVIOUS
<1> USE RegenLoopAssumption, MaterializedCacheAssumption
<1>1. LoopInv
  BY LoopInvInit DEF CacheInit
<1>2. LoopTypeOK
  BY <1>1 DEF LoopInv
<1>3. \A w \in Workers : work[w] = NoCall
  BY DEF CacheInit
<1>4. CacheTypeOK
  <2>1. work \in [Workers -> Calls]
    BY NoCallIs DEF CacheInit
  <2>2. /\ rows \in [Portfolios -> [Dates -> SUBSET [write : Writes, kind : Kinds]]]
        /\ source \subseteq Facts /\ writes \in 0..MaxWrites /\ today \in Dates /\ now \in 0..MaxNow
        /\ calculatedAt \in [Portfolios -> 0..MaxNow]
        /\ unrepaired \in [Portfolios -> SUBSET Dates]
        /\ regenWriteMu \in Workers \cup {NoWorker}
    BY DEF CacheInit, NoRow, Dates, NoDate
  <2>3. QED
    BY <1>2, <2>1, <2>2 DEF CacheTypeOK
<1>5. CallFacts
  BY <1>3, NoCallIs, WorkersAre DEF CallFacts, SnapFacts, CacheInit
<1>6. LoopLink
  BY <1>3, NoCallIs DEF LoopLink, CacheInit, LoopInit, IdleLoop, Workers
<1>7. RowFacts /\ WriteFacts
  BY <1>3, NoCallIs DEF RowFacts, WriteFacts, CacheInit
<1>8. StaleSnapshotHasRepair
  BY <1>3, NoCallIs DEF StaleSnapshotHasRepair
<1>9. WrongRowHasRepair
  BY DEF WrongRowHasRepair, Wrong, CacheInit
<1>10. QED
  BY <1>1, <1>4, <1>5, <1>6, <1>7, <1>8, <1>9 DEF CacheInv

------------------------------------------------------------------------------
(* Writes                                                                  *)

\* A hook's repair of a day survives a step that leaves its call alone and that changes no
\* fact up to the day.
LEMMA RepairsKept ==
  ASSUME source \subseteq Facts, source' \subseteq Facts,
         NEW h \in Hooks, NEW p \in Portfolios, NEW e \in Dates, Repairs(h, p, e),
         \/ UNCHANGED source
         \/ GetOldestTransaction(p) <= e /\ \A f \in Changed(p) : e < f.date,
         work'[h] = work[h]
  PROVE  Repairs(h, p, e)'
<1>1. UpToDate(h, p, e)'
  BY UpToDateKept DEF Repairs, Workers
<1>2. QED
  BY <1>1 DEF Repairs

\* A committed write keeps the invariant when the hooks it starts, or the debts it leaves,
\* cover every day its changes concern.  It may start none.
LEMMA CommitKeepsInv ==
  ASSUME CacheInv, NEW deleted, NEW inserted \in SUBSET Facts, Commit(deleted, inserted),
         \A f \in inserted : f.write = writes + 1,
         \A f, g \in inserted : f.kind # "price" => g.date = f.date,
         NEW started \in SUBSET FreeHooks, NEW start \in Dates,
         work' \in [Workers -> Calls],
         \A h \in started : \E T \in SUBSET Portfolios : work'[h] = Call("lock", T, start),
         \A w \in Workers \ started : work'[w] = work[w],
         unrepaired' \in [Portfolios -> SUBSET Dates],
         \A p \in Portfolios : unrepaired[p] \subseteq unrepaired'[p],
         \A p \in Portfolios, e \in Dates : \A f \in Changed(p) : f.date <= e =>
           \/ e \in unrepaired'[p]
           \/ start <= e /\ \E h \in started : p \in work'[h].targets
  PROVE  CacheInv'
<1> USE RegenLoopAssumption, MaterializedCacheAssumption
<1>1. /\ source \subseteq Facts /\ source' \subseteq Facts
      /\ \A f \in source \cup source' : f.date \in Dates
  <2>1. source \subseteq Facts
    BY DEF CacheInv, CacheTypeOK
  <2>2. source' \subseteq Facts
    BY <2>1 DEF Commit
  <2>3. QED
    BY <2>1, <2>2 DEF Facts
<1>2. \A h \in started : /\ h \in Hooks /\ h \in Workers /\ h \notin Loops /\ work[h].pc = "idle"
                         /\ work'[h].pc = "lock" /\ work'[h].start = start
                         /\ \A p \in Portfolios : work'[h].loaded[p] = 0 /\ work'[h].snap[p] = {}
  <2> TAKE h \in started
  <2>1. h \in Hooks /\ h \in Workers /\ h \notin Loops /\ work[h].pc = "idle"
    BY DEF FreeHooks, Workers
  <2>2. PICK T \in SUBSET Portfolios : work'[h] = Call("lock", T, start)
    OBVIOUS
  <2>3. /\ Call("lock", T, start).pc = "lock" /\ Call("lock", T, start).start = start
        /\ \A p \in Portfolios : /\ Call("lock", T, start).loaded[p] = 0
                                 /\ Call("lock", T, start).snap[p] = {}
    BY DEF Call
  <2>4. QED
    BY <2>1, <2>2, <2>3, Zenon
<1>3. UNCHANGED <<rows, calculatedAt, regenWriteMu, today, now>> /\ UNCHANGED loopVars
  BY DEF Commit
<1>4. LoopInv' /\ LoopTypeOK'
  <2>1. LoopInv'
    BY <1>3 DEF CacheInv, LoopInv, LoopTypeOK, OneLoopPerPortfolio, EntryMeansLoop,
                EntryIsEarliestAsked, LoopFacts, Running, loopVars
  <2>2. QED
    BY <2>1 DEF LoopInv
<1>5. LoopLink'
  <2>1. \A g \in Loops : work'[g] = work[g] /\ loop'[g] = loop[g]
    BY <1>2, <1>3 DEF Workers, loopVars
  <2>2. QED
    BY <2>1 DEF LoopLink, CacheInv
<1>6. CacheTypeOK'
  <2>1. writes' \in 0..MaxWrites
    BY DEF Commit, CacheInv, CacheTypeOK
  <2>2. QED
    BY <1>1, <1>3, <1>4, <2>1 DEF CacheInv, CacheTypeOK
<1>7. CallFacts'
  <2> SUFFICES ASSUME NEW w \in Workers
               PROVE  /\ work'[w].pc = "idle" => work'[w].targets = {}
                      /\ work'[w].pc # "load" => \A p \in Portfolios : work'[w].loaded[p] = 0
                      /\ SnapFacts(w)'
                      /\ work'[w].pc = "load" <=> regenWriteMu' = w
    BY DEF CallFacts
  <2>1. CASE w \in started
    BY <2>1, <1>2, <1>3 DEF CacheInv, CallFacts, SnapFacts
  <2>2. CASE w \notin started
    BY <2>2, <1>3 DEF CacheInv, CallFacts, SnapFacts
  <2>3. QED
    BY <2>1, <2>2
<1>8. \A w \in Workers : work'[w].pc = "load" => w \notin started /\ work'[w] = work[w]
  BY <1>2
<1>9. RowFacts'
  BY <1>3, <1>8 DEF CacheInv, RowFacts
<1>10. WriteFacts'
  <2>1. \A f \in source' : (f \in source /\ f.write <= writes) \/ (f \in inserted /\ f.write = writes + 1)
    BY DEF Commit, CacheInv, WriteFacts
  <2>2. \A f \in source' : f.write \in Int /\ writes \in Int /\ writes' = writes + 1
    BY <1>1 DEF Facts, Writes, CacheInv, CacheTypeOK, Commit
  <2>3. \A f \in source' : f.write <= writes'
    BY <2>1, <2>2
  <2>4. \A f, g \in source' : f.write = g.write
          => (f \in source /\ g \in source) \/ (f \in inserted /\ g \in inserted)
    BY <2>1, <2>2
  <2>5. \A f, g \in source' : f.write = g.write /\ f.kind # "price" => g.date = f.date
    BY <2>4 DEF CacheInv, WriteFacts
  <2>6. QED
    BY <2>3, <2>5 DEF WriteFacts
<1>11. ASSUME NEW p \in Portfolios, NEW e \in Dates, NEW f \in Changed(p), f.date <= e,
              NEW v, v \notin started
       PROVE  LookedAfter(p, e, v)'
  <2>1. CASE e \in unrepaired'[p]
    BY <2>1 DEF LookedAfter
  <2>2. CASE start <= e /\ \E h \in started : p \in work'[h].targets
    <3>1. PICK h \in started : p \in work'[h].targets
      BY <2>2
    <3>2. h \in Hooks \ {v} /\ work'[h].start <= e /\ UpToDate(h, p, e)'
      BY <1>2, <2>2, <1>11, NothingReadIsUpToDate
    <3>3. QED
      BY <3>1, <3>2 DEF LookedAfter, Repairs
  <2>3. QED
    BY <1>11, <2>1, <2>2
<1>12. ASSUME NEW p \in Portfolios, NEW e \in Dates, \A f \in Changed(p) : e < f.date,
              GetOldestTransaction(p) <= e, NEW v, LookedAfter(p, e, v)
       PROVE  LookedAfter(p, e, v)'
  <2>1. CASE e \in unrepaired[p]
    BY <2>1 DEF LookedAfter
  <2>2. CASE \E h \in Hooks \ {v} : Repairs(h, p, e)
    <3>1. PICK h \in Hooks \ {v} : Repairs(h, p, e)
      BY <2>2
    <3>2. h \in Workers \ started
      BY <3>1, <1>2 DEF Repairs, Workers, CacheInv, CallFacts
    <3>3. Repairs(h, p, e)'
      BY <3>1, <3>2, <1>1, <1>12, RepairsKept
    <3>4. QED
      BY <3>3 DEF LookedAfter
  <2>3. QED
    BY <2>1, <2>2, <1>12 DEF LookedAfter
<1>13. \A p \in Portfolios, e \in Dates :
         \/ \A f \in Changed(p) : e < f.date
         \/ \E f \in Changed(p) : f.date <= e
  <2>1. \A p : \A f \in Changed(p) : f.date \in Int
    BY <1>1 DEF Changed, Dates
  <2>2. QED
    BY <2>1 DEF Dates
<1>14. StaleSnapshotHasRepair'
  <2> SUFFICES ASSUME NEW w \in Workers, NEW p \in Portfolios, NEW e \in Dates,
                      work'[w].pc = "load", p \in work'[w].targets,
                      GetOldestTransaction(p)' <= e, work'[w].start <= e, e <= work'[w].end
               PROVE  UpToDate(w, p, e)' \/ LookedAfter(p, e, w)'
    BY DEF StaleSnapshotHasRepair
  <2>1. work'[w] = work[w] /\ w \in Workers \ started
    BY <1>8
  <2>2. CASE \E f \in Changed(p) : f.date <= e
    BY <2>1, <2>2, <1>11
  <2>3. CASE \A f \in Changed(p) : e < f.date
    <3>1. GetOldestTransaction(p) <= e
      BY <2>3, <1>1, EarlierDaysSame
    <3>2. UpToDate(w, p, e) \/ LookedAfter(p, e, w)
      BY <2>1, <3>1 DEF CacheInv, StaleSnapshotHasRepair
    <3>3. CASE UpToDate(w, p, e)
      BY <2>1, <2>3, <3>1, <3>3, <1>1, UpToDateKept
    <3>4. QED
      BY <2>3, <3>1, <3>2, <3>3, <1>12
  <2>4. QED
    BY <2>2, <2>3, <1>13
<1>15. WrongRowHasRepair'
  <2> SUFFICES ASSUME NEW p \in Portfolios, NEW e \in Dates, Wrong(p, e)'
               PROVE  LookedAfter(p, e, NoWorker)'
    BY WorkersAre DEF WrongRowHasRepair, LookedAfter, Workers
  <2>1. CASE \E f \in Changed(p) : f.date <= e
    BY <2>1, <1>2, <1>11, WorkersAre
  <2>2. CASE \A f \in Changed(p) : e < f.date
    <3>1. GetOldestTransaction(p) <= e /\ Computed(p, e)' = Computed(p, e)
      BY <2>2, <1>1, EarlierDaysSame DEF Wrong
    <3>2. Wrong(p, e)
      BY <3>1, <1>3 DEF Wrong
    <3>3. LookedAfter(p, e, NoWorker)
      BY <3>2, WorkersAre DEF CacheInv, WrongRowHasRepair, LookedAfter, Workers
    <3>4. QED
      BY <2>2, <3>1, <3>3, <1>12
  <2>3. QED
    BY <2>1, <2>2, <1>13
<1>16. QED
  BY <1>4, <1>5, <1>6, <1>7, <1>9, <1>10, <1>14, <1>15 DEF CacheInv

\* The rows a write inserts are facts of that write.
LEMMA RowsAre ==
  ASSUME CacheInv, writes < MaxWrites,
         NEW ps \in SUBSET Portfolios, NEW kinds \in SUBSET Kinds,
         NEW ds \in SUBSET Dates, NEW c \in 0..MaxNow
  PROVE  /\ Rows(ps, kinds, ds, c) \in SUBSET Facts
         /\ \A f \in Rows(ps, kinds, ds, c) : /\ f.write = writes + 1 /\ f.portfolio \in ps
                                              /\ f.kind \in kinds /\ f.date \in ds
<1>1. writes + 1 \in Writes
  BY MaterializedCacheAssumption DEF CacheInv, CacheTypeOK, Writes
<1>2. QED
  BY <1>1 DEF Rows, Facts

\* The facts of a write to one portfolio on one day.
LEMMA ItemIs ==
  ASSUME CacheInv, writes < MaxWrites, NEW q \in Portfolios, NEW kinds \in SUBSET Kinds,
         NEW d \in Dates, NEW c \in 0..MaxNow
  PROVE  /\ Rows({q}, kinds, {d}, c) \in SUBSET Facts
         /\ \A f \in Rows({q}, kinds, {d}, c) :
              f.write = writes + 1 /\ f.portfolio = q /\ f.date = d
<1>1. writes + 1 \in Writes
  BY MaterializedCacheAssumption DEF CacheInv, CacheTypeOK, Writes
<1>2. QED
  BY <1>1 DEF Rows, Facts

\* Starting hooks gives each its call and leaves the other goroutines alone.
LEMMA StartHooksIs ==
  ASSUME CacheInv, NEW hooks, NEW start \in Dates, DOMAIN hooks \subseteq FreeHooks,
         \A h \in DOMAIN hooks : hooks[h] \in SUBSET Portfolios,
         StartHooks(hooks, start)
  PROVE  /\ work' \in [Workers -> Calls]
         /\ \A h \in DOMAIN hooks : work'[h] = Call("lock", hooks[h], start)
         /\ \A w \in Workers \ DOMAIN hooks : work'[w] = work[w]
<1>1. \A h \in DOMAIN hooks : h \in Workers
  BY DEF FreeHooks, Workers
<1>2. work \in [Workers -> Calls]
  BY DEF CacheInv, CacheTypeOK
<1>3. \A h \in DOMAIN hooks : Call("lock", hooks[h], start) \in Calls
  BY CallIs
<1>4. QED
  BY <1>1, <1>2, <1>3 DEF StartHooks

\* A write that starts one hook keeps the invariant when that hook, or the debts it leaves,
\* covers every day its changes concern.
LEMMA OneHookKeepsInv ==
  ASSUME CacheInv, NEW deleted, NEW inserted \in SUBSET Facts, Commit(deleted, inserted),
         \A f \in inserted : f.write = writes + 1,
         \A f, g \in inserted : f.kind # "price" => g.date = f.date,
         NEW h \in FreeHooks, NEW T \in SUBSET Portfolios, NEW start \in Dates,
         StartHooks([x \in {h} |-> T], start),
         unrepaired' \in [Portfolios -> SUBSET Dates],
         \A p \in Portfolios : unrepaired[p] \subseteq unrepaired'[p],
         \A p \in Portfolios, e \in Dates : \A f \in Changed(p) : f.date <= e =>
           e \in unrepaired'[p] \/ (start <= e /\ p \in T)
  PROVE  CacheInv'
<1> DEFINE hooks == [x \in {h} |-> T]
<1>1. DOMAIN hooks = {h} /\ hooks[h] = T
  OBVIOUS
<1>2. StartHooks(hooks, start)
  OBVIOUS
<1> HIDE DEF hooks
<1>3. /\ work' \in [Workers -> Calls] /\ work'[h] = Call("lock", T, start)
      /\ \A w \in Workers \ {h} : work'[w] = work[w]
  BY <1>1, <1>2, StartHooksIs
<1>4. work'[h].targets = T
  <2>1. Call("lock", T, start).targets = T
    BY DEF Call
  <2>2. QED
    BY <1>3, <2>1
<1> DEFINE started == {h}
<1>5. /\ started \in SUBSET FreeHooks
      /\ \A x \in started : \E S \in SUBSET Portfolios : work'[x] = Call("lock", S, start)
      /\ \A w \in Workers \ started : work'[w] = work[w]
      /\ \A p \in Portfolios, e \in Dates : \A f \in Changed(p) : f.date <= e =>
           \/ e \in unrepaired'[p]
           \/ start <= e /\ \E x \in started : p \in work'[x].targets
  BY <1>3, <1>4
<1> HIDE DEF started
<1>6. QED
  BY <1>3, <1>5, CommitKeepsInv

\* So does one that starts a hook only when it has found the portfolios to regenerate.
LEMMA TradeKeepsInv ==
  ASSUME CacheInv, NEW deleted, NEW inserted \in SUBSET Facts, Commit(deleted, inserted),
         \A f \in inserted : f.write = writes + 1,
         \A f, g \in inserted : f.kind # "price" => g.date = f.date,
         NEW found \in SUBSET Portfolios, NEW d \in Dates, HookForTrade(found, d),
         unrepaired' \in [Portfolios -> SUBSET Dates],
         \A p \in Portfolios : unrepaired[p] \subseteq unrepaired'[p],
         \A p \in Portfolios, e \in Dates : \A f \in Changed(p) : f.date <= e =>
           e \in unrepaired'[p] \/ (d <= e /\ p \in found)
  PROVE  CacheInv'
<1>1. CASE found = {} /\ UNCHANGED work
  <2>1. PICK started \in SUBSET FreeHooks : started = {}
    OBVIOUS
  <2>2. work' \in [Workers -> Calls]
    BY <1>1 DEF CacheInv, CacheTypeOK
  <2>3. /\ \A h \in started : \E T \in SUBSET Portfolios : work'[h] = Call("lock", T, d)
        /\ \A w \in Workers \ started : work'[w] = work[w]
        /\ \A p \in Portfolios, e \in Dates : \A f \in Changed(p) : f.date <= e =>
             \/ e \in unrepaired'[p]
             \/ d <= e /\ \E h \in started : p \in work'[h].targets
    BY <1>1, <2>1
  <2>4. QED
    BY <2>2, <2>3, CommitKeepsInv
<1>2. CASE \E h \in FreeHooks : StartHooks([x \in {h} |-> found], d)
  <2>1. PICK h \in FreeHooks : StartHooks([x \in {h} |-> found], d)
    BY <1>2
  <2>2. QED
    BY <2>1, OneHookKeepsInv
<1>3. QED
  BY <1>1, <1>2 DEF HookForTrade

\* Debts that stay as they are.
LEMMA UnrepairedSame ==
  ASSUME CacheInv, UNCHANGED unrepaired
  PROVE  /\ unrepaired' \in [Portfolios -> SUBSET Dates]
         /\ \A p \in Portfolios : unrepaired[p] \subseteq unrepaired'[p]
BY DEF CacheInv, CacheTypeOK

\* Debts that a write adds.
LEMMA DebtsAre ==
  ASSUME CacheInv, NEW days, \A p \in Portfolios : days[p] \in SUBSET Dates, NobodyRepairs(days)
  PROVE  /\ unrepaired' \in [Portfolios -> SUBSET Dates]
         /\ \A p \in Portfolios : unrepaired[p] \subseteq unrepaired'[p]
         /\ \A p \in Portfolios : days[p] \subseteq unrepaired'[p]
BY DEF NobodyRepairs, CacheInv, CacheTypeOK

\* The hook or the debts cover the days from a change on when they cover the day of the change.
LEMMA DaysCovered ==
  ASSUME CacheInv, NEW start \in Dates, NEW T, NEW deleted, NEW inserted \in SUBSET Facts,
         Commit(deleted, inserted),
         \A p \in Portfolios : \A f \in Changed(p) : start <= f.date /\ p \in T
  PROVE  \A p \in Portfolios, e \in Dates : \A f \in Changed(p) : f.date <= e =>
           e \in unrepaired'[p] \/ (start <= e /\ p \in T)
<1>1. source \subseteq Facts /\ source' \subseteq Facts
  BY DEF CacheInv, CacheTypeOK, Commit
<1>2. \A p : \A f \in Changed(p) : f.date \in Int
  BY <1>1 DEF Changed, Facts, Dates
<1>3. \A e \in Dates : e \in Int
  BY DEF Dates
<1>4. QED
  BY <1>2, <1>3

\* What a step that commits changes is what it deletes or inserts.
LEMMA ChangedIs ==
  ASSUME CacheInv, NEW deleted, NEW inserted, Commit(deleted, inserted), NEW p
  PROVE  \A f \in Changed(p) : /\ f.portfolio = p
                               /\ (f \in source /\ f \in deleted) \/ f \in inserted
BY DEF Commit, Changed

\* The day and portfolio of what one write inserted.
LEMMA ItemOfIs ==
  ASSUME CacheInv, NEW f \in source, f.kind # "price"
  PROVE  /\ f.date \in Dates /\ f.portfolio \in Portfolios /\ f.created \in 0..MaxNow
         /\ f.allocation \in Allocations \cup {NoAllocation}
         /\ \A g \in ItemOf(f) : g.date = f.date /\ g.portfolio = f.portfolio
<1>1. source \subseteq Facts
  BY DEF CacheInv, CacheTypeOK
<1>2. \A g \in source : /\ g.portfolio \in Portfolios /\ g.date \in Dates /\ g.created \in 0..MaxNow
                        /\ g.allocation \in Allocations \cup {NoAllocation}
  BY <1>1 DEF Facts
<1>3. QED
  BY <1>2 DEF CacheInv, WriteFacts, ItemOf

\* The rows a write inserts for a trade, and those it puts in the place of a transaction.
LEMMA AllocatedRowsAre ==
  ASSUME CacheInv, writes < MaxWrites, NEW t \in Writes, NEW ps \in SUBSET Portfolios, NEW d \in Dates
  PROVE  /\ AllocatedRows(t, ps, d) \in SUBSET Facts
         /\ \A f \in AllocatedRows(t, ps, d) :
              f.write = writes + 1 /\ f.portfolio \in ps /\ f.date = d /\ f.created = now
<1> DEFINE R == Rows(ps, {"transaction"}, {d}, now)
<1>1. {"transaction"} \in SUBSET Kinds /\ now \in 0..MaxNow /\ {d} \in SUBSET Dates
  BY DEF Kinds, CacheInv, CacheTypeOK
<1>2. /\ R \in SUBSET Facts
      /\ \A f \in R : f.write = writes + 1 /\ f.portfolio \in ps /\ f.date \in {d}
  BY <1>1, RowsAre
<1>3. \A f \in R : f.created = now
  BY DEF Rows
<1>4. AllocatedRows(t, ps, d)
        = {[f EXCEPT !.allocation = [trade |-> t, portfolio |-> f.portfolio, date |-> d]] : f \in R}
  BY DEF AllocatedRows
<1> HIDE DEF R
<1>5. ASSUME NEW f \in R
      PROVE  LET g == [f EXCEPT !.allocation = [trade |-> t, portfolio |-> f.portfolio, date |-> d]]
             IN  g \in Facts /\ g.write = writes + 1 /\ g.portfolio \in ps /\ g.date = d /\ g.created = now
  <2>1. [trade |-> t, portfolio |-> f.portfolio, date |-> d] \in Allocations
    BY <1>2 DEF Allocations
  <2>2. f \in Facts
    BY <1>2
  <2>3. QED
    BY <1>2, <1>3, <2>1, <2>2 DEF Facts
<1>6. QED
  BY <1>4, <1>5

LEMMA UpdatedRowsAre ==
  ASSUME CacheInv, writes < MaxWrites, NEW f \in source, f.kind # "price",
         NEW q \in Portfolios, NEW kinds \in SUBSET Kinds, NEW d \in Dates
  PROVE  /\ UpdatedRows(f, q, kinds, d) \in SUBSET Facts
         /\ \A g \in UpdatedRows(f, q, kinds, d) :
              g.write = writes + 1 /\ g.portfolio = q /\ g.date = d /\ g.created = f.created
<1> DEFINE R == Rows({q}, kinds, {d}, f.created)
<1>1. f.created \in 0..MaxNow /\ f.allocation \in Allocations \cup {NoAllocation}
  BY ItemOfIs
<1>2. /\ R \in SUBSET Facts
      /\ \A g \in R : g.write = writes + 1 /\ g.portfolio = q /\ g.date = d
  BY <1>1, ItemIs
<1>3. \A g \in R : g.created = f.created
  BY DEF Rows
<1>4. UpdatedRows(f, q, kinds, d) = {[g EXCEPT !.allocation = f.allocation] : g \in R}
  BY DEF UpdatedRows
<1> HIDE DEF R
<1>5. ASSUME NEW g \in R
      PROVE  LET k == [g EXCEPT !.allocation = f.allocation]
             IN  k \in Facts /\ k.write = writes + 1 /\ k.portfolio = q /\ k.date = d /\ k.created = f.created
  BY <1>1, <1>2, <1>3 DEF Facts
<1>6. QED
  BY <1>4, <1>5

\* The transactions of an allocated trade, and the portfolios of its allocation.
LEMMA OfTradeIs ==
  ASSUME CacheInv, NEW a \in {f.allocation : f \in source} \ {NoAllocation}
  PROVE  /\ a \in Allocations /\ a.trade \in Writes /\ a.date \in Dates
         /\ OfTrade(a) \subseteq source
         /\ AllocatedTo(a) \in SUBSET Portfolios
         /\ \A p : Strayed(a, p) \in SUBSET Dates
<1>1. \A f \in source : f.allocation \in Allocations \cup {NoAllocation}
  BY DEF CacheInv, CacheTypeOK, Facts
<1>2. a \in Allocations
  BY <1>1
<1>3. a.trade \in Writes /\ a.date \in Dates /\ \A b \in Allocations : b.portfolio \in Portfolios
  BY <1>2 DEF Allocations
<1>4. OfTrade(a) \subseteq source /\ \A f \in OfTrade(a) : f.allocation \in Allocations
  BY <1>1 DEF OfTrade
<1>5. AllocatedTo(a) \in SUBSET Portfolios
  BY <1>3, <1>4 DEF AllocatedTo
<1>6. \A p : Strayed(a, p) \in SUBSET Dates
  BY DEF Strayed, Concerns
<1>7. QED
  BY <1>2, <1>3, <1>4, <1>5, <1>6

\* Creating a transaction.
LEMMA CreateTransactionKeepsInv ==
  ASSUME CacheInv, NEW q \in Portfolios, NEW kinds \in TransactionForms, NEW d \in Dates,
         CreateTransaction(q, kinds, d)
  PROVE  CacheInv'
<1>1. PICK h \in FreeHooks : /\ Commit({}, Rows({q}, kinds, {d}, now))
                             /\ StartHooks([x \in {h} |-> {q}], d)
                             /\ UNCHANGED unrepaired
  BY DEF CreateTransaction
<1>2. /\ kinds \in SUBSET Kinds /\ now \in 0..MaxNow /\ writes < MaxWrites
      /\ d \in Int
  BY <1>1, RegenLoopAssumption DEF TransactionForms, Kinds, CacheInv, CacheTypeOK, Commit, Dates
<1> DEFINE I == Rows({q}, kinds, {d}, now)
<1>3. I \in SUBSET Facts /\ \A f \in I : f.write = writes + 1 /\ f.portfolio = q /\ f.date = d
  BY <1>2, ItemIs
<1>4. Commit({}, I)
  BY <1>1
<1> HIDE DEF I
<1>5. \A p \in Portfolios : \A f \in Changed(p) : d <= f.date /\ p \in {q}
  BY <1>2, <1>3, <1>4, ChangedIs
<1>6. \A p \in Portfolios, e \in Dates : \A f \in Changed(p) : f.date <= e =>
        e \in unrepaired'[p] \/ (d <= e /\ p \in {q})
  BY <1>3, <1>4, <1>5, DaysCovered
<1>7. /\ \A f, g \in I : f.kind # "price" => g.date = f.date
      /\ {q} \in SUBSET Portfolios
  BY <1>3
<1>8. QED
  BY <1>1, <1>3, <1>4, <1>6, <1>7, UnrepairedSame, OneHookKeepsInv, ZenonT(40)

\* Creating a dividend.
LEMMA CreateDividendKeepsInv ==
  ASSUME CacheInv, NEW q \in Portfolios, NEW d \in Dates, CreateDividend(q, d)
  PROVE  CacheInv'
<1>0. PICK kinds \in SUBSET Kinds : kinds = {"dividend"}
  BY DEF Kinds
<1>1. PICK h \in FreeHooks : /\ Commit({}, Rows({q}, kinds, {d}, now))
                             /\ StartHooks([x \in {h} |-> {q}], d)
                             /\ UNCHANGED unrepaired
  BY <1>0 DEF CreateDividend
<1>2. /\ now \in 0..MaxNow /\ writes < MaxWrites
      /\ d \in Int
  BY <1>1, RegenLoopAssumption DEF Kinds, CacheInv, CacheTypeOK, Commit, Dates
<1> DEFINE I == Rows({q}, kinds, {d}, now)
<1>3. I \in SUBSET Facts /\ \A f \in I : f.write = writes + 1 /\ f.portfolio = q /\ f.date = d
  <2>1. writes + 1 \in Writes
    BY <1>2, MaterializedCacheAssumption DEF CacheInv, CacheTypeOK, Writes
  <2>2. QED
    BY <1>2, <2>1 DEF Rows, Facts
<1>4. Commit({}, I)
  BY <1>1
<1> HIDE DEF I
<1>5. \A p \in Portfolios : \A f \in Changed(p) : d <= f.date /\ p \in {q}
  BY <1>2, <1>3, <1>4, ChangedIs
<1>6. \A p \in Portfolios, e \in Dates : \A f \in Changed(p) : f.date <= e =>
        e \in unrepaired'[p] \/ (d <= e /\ p \in {q})
  BY <1>3, <1>4, <1>5, DaysCovered
<1>7. /\ \A f, g \in I : f.kind # "price" => g.date = f.date
      /\ {q} \in SUBSET Portfolios
  BY <1>3
<1>8. QED
  BY <1>1, <1>3, <1>4, <1>6, <1>7, UnrepairedSame, OneHookKeepsInv, ZenonT(40)

\* Inserting or overwriting the prices of some days.
LEMMA UpdateFundPricesKeepsInv ==
  ASSUME CacheInv, NEW ps \in SUBSET Portfolios, NEW ds \in SUBSET Dates, ds # {},
         UpdateFundPrices(ps, ds)
  PROVE  CacheInv'
<1> DEFINE D == {f \in source : f.kind = "price" /\ f.portfolio \in ps /\ f.date \in ds}
           I == Rows(ps, {"price"}, ds, now)
           start == Earliest(ds)
<1>1. PICK h \in FreeHooks : /\ Commit(D, I)
                             /\ StartHooks([x \in {h} |-> ps], start)
                             /\ UNCHANGED unrepaired
  BY DEF UpdateFundPrices
<1>2. {"price"} \in SUBSET Kinds /\ now \in 0..MaxNow /\ writes < MaxWrites
  BY <1>1 DEF Kinds, CacheInv, CacheTypeOK, Commit
<1>3. /\ I \in SUBSET Facts
      /\ \A f \in I : f.write = writes + 1 /\ f.portfolio \in ps /\ f.date \in ds /\ f.kind = "price"
  BY <1>2, RowsAre
<1>4. start \in Dates /\ \A d \in ds : start <= d
  <2>1. ds \in SUBSET Nat
    BY RegenLoopAssumption DEF Dates
  <2>2. QED
    BY <2>1, EarliestIsLeast
<1>5. \A f \in D : f.portfolio \in ps /\ f.date \in ds
  OBVIOUS
<1> HIDE DEF I, D, start
<1>6. \A p \in Portfolios : \A f \in Changed(p) : start <= f.date /\ p \in ps
  BY <1>1, <1>3, <1>4, <1>5, ChangedIs
<1>7. \A p \in Portfolios, e \in Dates : \A f \in Changed(p) : f.date <= e =>
        e \in unrepaired'[p] \/ (start <= e /\ p \in ps)
  BY <1>1, <1>3, <1>4, <1>6, DaysCovered
<1>8. \A f, g \in I : f.kind # "price" => g.date = f.date
  BY <1>3
<1>9. QED
  BY <1>1, <1>3, <1>4, <1>7, <1>8, UnrepairedSame, OneHookKeepsInv

\* Earlier is the lesser of two days.
LEMMA EarlierIs ==
  ASSUME NEW d \in Dates \cup {NoDate}, NEW e \in Dates \cup {NoDate}
  PROVE  /\ Earlier(d, e) \in {d, e} /\ Earlier(d, e) <= d /\ Earlier(d, e) <= e
         /\ Earlier(d, e) \in Int /\ d \in Int /\ e \in Int
BY RegenLoopAssumption DEF Earlier, Dates, NoDate

\* Updating a transaction, which may move it to another portfolio and day.
LEMMA UpdateTransactionKeepsInv ==
  ASSUME CacheInv, NEW f \in source, NEW q \in Portfolios, NEW kinds \in TransactionForms,
         NEW d \in Dates, UpdateTransaction(f, q, kinds, d)
  PROVE  CacheInv'
<1> DEFINE I == UpdatedRows(f, q, kinds, d)
           D == ItemOf(f)
           start == Earlier(f.date, d)
<1>1. PICK h \in FreeHooks, old \in FreeHooks :
        /\ f.kind = "transaction"
        /\ h = old <=> q = f.portfolio
        /\ Commit(D, I)
        /\ StartHooks([x \in {h, old} |-> IF x = h THEN {q} ELSE {f.portfolio}], start)
        /\ UNCHANGED unrepaired
  BY DEF UpdateTransaction
<1>2. /\ f.date \in Dates /\ f.portfolio \in Portfolios /\ f.created \in 0..MaxNow
      /\ \A g \in D : g.date = f.date /\ g.portfolio = f.portfolio
  BY <1>1, ItemOfIs
<1>3. /\ kinds \in SUBSET Kinds /\ writes < MaxWrites
      /\ d \in Int
  BY <1>1, RegenLoopAssumption DEF TransactionForms, Kinds, Commit, Dates
<1>4. I \in SUBSET Facts /\ \A g \in I : g.write = writes + 1 /\ g.portfolio = q /\ g.date = d
  BY <1>1, <1>2, <1>3, UpdatedRowsAre
<1>5. start \in Dates /\ start <= f.date /\ start <= d
  BY <1>2, EarlierIs
<1> HIDE DEF I, D, start
<1> DEFINE hooks == [x \in {h, old} |-> IF x = h THEN {q} ELSE {f.portfolio}]
<1>6. /\ DOMAIN hooks = {h, old} /\ hooks[h] = {q}
      /\ h # old => hooks[old] = {f.portfolio}
      /\ \A x \in DOMAIN hooks : hooks[x] \in SUBSET Portfolios
  BY <1>2
<1>7. StartHooks(hooks, start)
  BY <1>1
<1> HIDE DEF hooks
<1> DEFINE started == {h, old}
<1>8. started \in SUBSET FreeHooks /\ DOMAIN hooks = started
  BY <1>6
<1> HIDE DEF started
<1>9. /\ work' \in [Workers -> Calls]
      /\ \A x \in started : work'[x] = Call("lock", hooks[x], start)
      /\ \A w \in Workers \ started : work'[w] = work[w]
  BY <1>5, <1>6, <1>7, <1>8, StartHooksIs
<1>10. ASSUME NEW x \in started PROVE work'[x].targets = hooks[x]
  <2>1. work'[x] = Call("lock", hooks[x], start)
    BY <1>9
  <2>2. Call("lock", hooks[x], start).targets = hooks[x]
    BY DEF Call
  <2>3. QED
    BY <2>1, <2>2
<1>11. \A p \in Portfolios : \A g \in Changed(p) :
         start <= g.date /\ \E x \in started : p \in work'[x].targets
  <2> TAKE p \in Portfolios
  <2> TAKE g \in Changed(p)
  <2>1. g.portfolio = p /\ ((g.date = f.date /\ p = f.portfolio) \/ (g.date = d /\ p = q))
    BY <1>1, <1>2, <1>4, ChangedIs
  <2>2. start <= g.date
    BY <2>1, <1>5
  <2>3. h \in started /\ old \in started
    BY DEF started
  <2>4. p = q => p \in work'[h].targets
    BY <1>6, <1>10, <2>3
  <2>5. p = f.portfolio => p \in work'[h].targets \/ p \in work'[old].targets
    BY <1>1, <1>6, <1>10, <2>3, <2>4
  <2>6. QED
    BY <2>1, <2>2, <2>3, <2>4, <2>5
<1>12. \A x \in started : \E T \in SUBSET Portfolios : work'[x] = Call("lock", T, start)
  BY <1>6, <1>8, <1>9
<1>13. \A p \in Portfolios, e \in Dates : \A g \in Changed(p) : g.date <= e =>
         \/ e \in unrepaired'[p]
         \/ start <= e /\ \E x \in started : p \in work'[x].targets
  <2>1. source \subseteq Facts /\ source' \subseteq Facts
    BY <1>1, <1>4 DEF CacheInv, CacheTypeOK, Commit
  <2>2. \A p : \A g \in Changed(p) : g.date \in Int
    BY <2>1 DEF Changed, Facts, Dates
  <2>3. start \in Int /\ \A e \in Dates : e \in Int
    BY <1>5 DEF Dates
  <2>4. QED
    BY <1>11, <2>2, <2>3
<1>14. QED
  BY <1>1, <1>4, <1>5, <1>8, <1>9, <1>12, <1>13, UnrepairedSame, CommitKeepsInv

\* Updating a dividend.  When it moves, the portfolio it leaves has no hook but debts.
LEMMA UpdateDividendKeepsInv ==
  ASSUME CacheInv, NEW f \in source, NEW q \in Portfolios, NEW d \in Dates,
         UpdateDividend(f, q, d)
  PROVE  CacheInv'
<1>0. PICK kinds \in SUBSET Kinds : kinds = {"dividend"}
  BY DEF Kinds
<1> DEFINE I == Rows({q}, kinds, {d}, now)
           D == {f}
           start == Earlier(f.date, d)
           days == [p \in Portfolios |-> IF p = q THEN {} ELSE Concerns(D, p)]
<1>1. PICK h \in FreeHooks :
        /\ f.kind = "dividend"
        /\ Commit(D, I)
        /\ StartHooks([x \in {h} |-> {q}], start)
        /\ NobodyRepairs(days)
  BY <1>0 DEF UpdateDividend
<1>2. f.date \in Dates /\ f.portfolio \in Portfolios
  BY <1>1, ItemOfIs
<1>3. /\ writes < MaxWrites /\ now \in 0..MaxNow
      /\ d \in Int
  BY <1>1, RegenLoopAssumption DEF Kinds, CacheInv, CacheTypeOK, Commit, Dates
<1>4. /\ I \in SUBSET Facts
      /\ \A g \in I : g.write = writes + 1 /\ g.portfolio = q /\ g.date = d
      /\ \A g, k \in I : g.kind # "price" => k.date = g.date
  <2>1. I \in SUBSET Facts /\ \A g \in I : g.write = writes + 1 /\ g.portfolio = q /\ g.date = d
    <3>1. kinds \in SUBSET Kinds /\ writes + 1 \in Writes
      BY <1>0, <1>3, MaterializedCacheAssumption DEF CacheInv, CacheTypeOK, Writes
    <3>2. QED
      BY <1>3, <3>1 DEF Rows, Facts
  <2> HIDE DEF I
  <2>2. QED
    BY <2>1
<1>5. start \in Dates /\ start <= f.date /\ start <= d
  BY <1>2, EarlierIs
<1>6. \A g \in D : g = f
  OBVIOUS
<1>7. \A p \in Portfolios : p # q => days[p] = Concerns(D, p)
  OBVIOUS
<1>8. \A p \in Portfolios : days[p] \in SUBSET Dates
  BY DEF Concerns
<1>9. \A p \in Portfolios, e \in Dates : f.portfolio = p /\ f.date <= e => e \in Concerns(D, p)
  BY DEF Concerns
<1> HIDE DEF I, D, start, days
<1>10. /\ unrepaired' \in [Portfolios -> SUBSET Dates]
       /\ \A p \in Portfolios : unrepaired[p] \subseteq unrepaired'[p]
       /\ \A p \in Portfolios : days[p] \subseteq unrepaired'[p]
  BY <1>1, <1>8, DebtsAre
<1>11. \A p \in Portfolios, e \in Dates : \A g \in Changed(p) : g.date <= e =>
         e \in unrepaired'[p] \/ (start <= e /\ p \in {q})
  <2> TAKE p \in Portfolios, e \in Dates
  <2> TAKE g \in Changed(p)
  <2> HAVE g.date <= e
  <2>1. g.portfolio = p /\ (g = f \/ (g.date = d /\ p = q))
    BY <1>1, <1>4, <1>6, ChangedIs
  <2>2. CASE p = q
    <3>1. g.date \in Int /\ start <= g.date
      BY <1>2, <1>3, <1>5, <2>1 DEF Dates
    <3>2. start <= e
      BY <1>5, <3>1 DEF Dates
    <3>3. QED
      BY <2>2, <3>2
  <2>3. CASE p # q
    <3>1. e \in Concerns(D, p)
      BY <1>9, <2>1, <2>3
    <3>2. QED
      BY <1>7, <1>10, <2>3, <3>1
  <2>4. QED
    BY <2>2, <2>3
<1>12. \A g \in I : g.write = writes + 1
  BY <1>4
<1>13. \A g, k \in I : g.kind # "price" => k.date = g.date
  BY <1>4
<1>14. {q} \in SUBSET Portfolios
  OBVIOUS
<1>15. I \in SUBSET Facts /\ Commit(D, I) /\ StartHooks([x \in {h} |-> {q}], start)
  BY <1>1, <1>4
<1>16. QED
  BY <1>5, <1>10, <1>11, <1>12, <1>13, <1>14, <1>15, OneHookKeepsInv, ZenonT(30)

\* Deleting a transaction or a dividend.
LEMMA DeleteOneKeepsInv ==
  ASSUME CacheInv, NEW f \in source, DeleteOne(f)
  PROVE  CacheInv'
<1> DEFINE D == ItemOf(f)
           I == {}
<1>1. PICK h \in FreeHooks : /\ f.kind \in {"transaction", "dividend"}
                             /\ Commit(D, I)
                             /\ StartHooks([x \in {h} |-> {f.portfolio}], f.date)
                             /\ UNCHANGED unrepaired
  BY DEF DeleteOne
<1>2. /\ f.date \in Dates /\ f.portfolio \in Portfolios
      /\ \A g \in D : g.date = f.date /\ g.portfolio = f.portfolio
  BY <1>1, ItemOfIs
<1>3. I \in SUBSET Facts /\ \A g \in I : FALSE
  OBVIOUS
<1> HIDE DEF I, D
<1>4. \A p \in Portfolios : \A g \in Changed(p) : f.date <= g.date /\ p \in {f.portfolio}
  BY <1>1, <1>2, <1>3, ChangedIs, RegenLoopAssumption DEF Dates
<1>5. \A p \in Portfolios, e \in Dates : \A g \in Changed(p) : g.date <= e =>
        e \in unrepaired'[p] \/ (f.date <= e /\ p \in {f.portfolio})
  BY <1>1, <1>2, <1>3, <1>4, DaysCovered
<1>6. /\ \A g \in I : g.write = writes + 1
      /\ \A g, k \in I : g.kind # "price" => k.date = g.date
      /\ {f.portfolio} \in SUBSET Portfolios
  BY <1>2, <1>3
<1>7. /\ unrepaired' \in [Portfolios -> SUBSET Dates]
      /\ \A p \in Portfolios : unrepaired[p] \subseteq unrepaired'[p]
  BY <1>1, UnrepairedSame
<1>8. Commit(D, I) /\ StartHooks([x \in {h} |-> {f.portfolio}], f.date)
  BY <1>1
<1>9. QED
  BY <1>2, <1>3, <1>5, <1>6, <1>7, <1>8, OneHookKeepsInv, ZenonT(30)

\* A day that counts a transaction of a trade, whose portfolios were found, is either one
\* the hook of the trade covers or one a user has moved it to.
LEMMA TradeCovers ==
  ASSUME CacheInv, NEW a \in {f.allocation : f \in source} \ {NoAllocation},
         NEW found \in {AllocatedTo(a), {}},
         NEW p \in Portfolios, NEW e \in Dates, NEW f \in OfTrade(a), f.portfolio = p, f.date <= e
  PROVE  \/ e \in Strayed(a, p)
         \/ e \in Overlooks(found, OfTrade(a), p)
         \/ a.date <= e /\ p \in found
<1>1. e \in Concerns(OfTrade(a), p)
  BY DEF Concerns
<1>2. CASE found = {}
  BY <1>1, <1>2 DEF Overlooks
<1>3. CASE found = AllocatedTo(a)
  <2>1. e \in Int /\ a.date \in Int
    BY OfTradeIs DEF Dates
  <2>2. QED
    BY <1>1, <1>3, <2>1 DEF Strayed
<1>4. QED
  BY <1>2, <1>3

\* Allocating a trade, whether or not the lookup of its portfolios succeeds.
LEMMA AllocateKeepsInv ==
  ASSUME CacheInv, NEW ps \in SUBSET Portfolios, NEW d \in Dates, AllocateIbkrTransaction(ps, d)
  PROVE  CacheInv'
<1> DEFINE I == AllocatedRows(writes + 1, ps, d)
           D == {}
<1>1. PICK found \in {ps, {}} :
        /\ Commit(D, I)
        /\ HookForTrade(found, d)
        /\ NobodyRepairs([p \in Portfolios |-> Overlooks(found, I, p)])
  BY DEF AllocateIbkrTransaction
<1>2. writes < MaxWrites /\ writes + 1 \in Writes
  BY <1>1, MaterializedCacheAssumption DEF Commit, CacheInv, CacheTypeOK, Writes
<1>3. I \in SUBSET Facts /\ \A f \in I : f.write = writes + 1 /\ f.portfolio \in ps /\ f.date = d
  BY <1>2, AllocatedRowsAre
<1>4. \A f \in D : FALSE
  OBVIOUS
<1> HIDE DEF I, D
<1> DEFINE days == [p \in Portfolios |-> Overlooks(found, I, p)]
<1>5. \A p \in Portfolios : days[p] \in SUBSET Dates /\ days[p] = Overlooks(found, I, p)
  BY DEF Overlooks, Concerns
<1>6. NobodyRepairs(days)
  BY <1>1
<1> HIDE DEF days
<1>7. /\ unrepaired' \in [Portfolios -> SUBSET Dates]
      /\ \A p \in Portfolios : unrepaired[p] \subseteq unrepaired'[p]
      /\ \A p \in Portfolios : days[p] \subseteq unrepaired'[p]
  BY <1>5, <1>6, DebtsAre
<1>8. ASSUME NEW p \in Portfolios, NEW e \in Dates, NEW f \in Changed(p), f.date <= e
      PROVE  e \in unrepaired'[p] \/ (d <= e /\ p \in found)
  <2>1. f \in I /\ f.portfolio = p
    BY <1>1, <1>4, ChangedIs
  <2>2. CASE found = {}
    <3>1. e \in Overlooks(found, I, p)
      BY <1>8, <2>1, <2>2 DEF Overlooks, Concerns
    <3>2. QED
      BY <1>5, <1>7, <3>1
  <2>3. CASE found = ps
    BY <1>3, <1>8, <2>1, <2>3
  <2>4. QED
    BY <2>2, <2>3
<1>9. found \in SUBSET Portfolios
  OBVIOUS
<1>10. QED
  BY <1>1, <1>3, <1>7, <1>8, <1>9, TradeKeepsInv

\* Taking an allocation back.
LEMMA UnallocateKeepsInv ==
  ASSUME CacheInv, NEW a \in {f.allocation : f \in source} \ {NoAllocation},
         UnallocateIbkrTransaction(a)
  PROVE  CacheInv'
<1> DEFINE D == OfTrade(a)
           I == {}
<1>1. PICK found \in {AllocatedTo(a), {}} :
        /\ Commit(D, I)
        /\ HookForTrade(found, a.date)
        /\ NobodyRepairs([p \in Portfolios |-> Strayed(a, p) \cup Overlooks(found, D, p)])
  BY DEF UnallocateIbkrTransaction
<1>2. /\ a.date \in Dates /\ found \in SUBSET Portfolios
      /\ \A p : Strayed(a, p) \in SUBSET Dates
  BY OfTradeIs
<1>3. I \in SUBSET Facts /\ \A g \in I : FALSE
  OBVIOUS
<1>4. \A p \in Portfolios, e \in Dates : \A f \in D : f.portfolio = p /\ f.date <= e =>
        \/ e \in Strayed(a, p) \/ e \in Overlooks(found, D, p)
        \/ a.date <= e /\ p \in found
  BY TradeCovers
<1> HIDE DEF I, D
<1> DEFINE days == [p \in Portfolios |-> Strayed(a, p) \cup Overlooks(found, D, p)]
<1>5. \A p \in Portfolios : /\ days[p] \in SUBSET Dates
                            /\ days[p] = Strayed(a, p) \cup Overlooks(found, D, p)
  BY <1>2 DEF Overlooks, Concerns
<1>6. NobodyRepairs(days)
  BY <1>1
<1> HIDE DEF days
<1>7. /\ unrepaired' \in [Portfolios -> SUBSET Dates]
      /\ \A p \in Portfolios : unrepaired[p] \subseteq unrepaired'[p]
      /\ \A p \in Portfolios : days[p] \subseteq unrepaired'[p]
  BY <1>5, <1>6, DebtsAre
<1>8. ASSUME NEW p \in Portfolios, NEW e \in Dates, NEW f \in Changed(p), f.date <= e
      PROVE  e \in unrepaired'[p] \/ (a.date <= e /\ p \in found)
  <2>1. f \in D /\ f.portfolio = p
    BY <1>1, <1>3, ChangedIs
  <2>2. e \in days[p] \/ (a.date <= e /\ p \in found)
    BY <1>4, <1>5, <1>8, <2>1
  <2>3. QED
    BY <1>7, <2>2
<1>9. QED
  BY <1>1, <1>2, <1>3, <1>7, <1>8, TradeKeepsInv

\* Giving the transactions of a trade to other portfolios.
LEMMA ModifyAllocationsKeepsInv ==
  ASSUME CacheInv, NEW a \in {f.allocation : f \in source} \ {NoAllocation},
         NEW ps \in SUBSET Portfolios, ModifyAllocations(a, ps)
  PROVE  CacheInv'
<1> DEFINE D == OfTrade(a)
           I == AllocatedRows(a.trade, ps, a.date)
<1>1. PICK old \in {AllocatedTo(a), {}}, new \in {ps, {}} :
        /\ Commit(D, I)
        /\ HookForTrade(old \cup new, a.date)
        /\ NobodyRepairs([p \in Portfolios |->
             Strayed(a, p) \cup Overlooks(old, D, p) \cup Overlooks(new, I, p)])
  BY DEF ModifyAllocations
<1>2. /\ a.date \in Dates /\ a.trade \in Writes /\ old \in SUBSET Portfolios
      /\ \A p : Strayed(a, p) \in SUBSET Dates
  BY OfTradeIs
<1>3. I \in SUBSET Facts /\ \A f \in I : f.write = writes + 1 /\ f.portfolio \in ps /\ f.date = a.date
  <2>1. writes < MaxWrites
    BY <1>1 DEF Commit
  <2>2. QED
    BY <1>2, <2>1, AllocatedRowsAre
<1>4. \A p \in Portfolios, e \in Dates : \A f \in D : f.portfolio = p /\ f.date <= e =>
        \/ e \in Strayed(a, p) \/ e \in Overlooks(old, D, p)
        \/ a.date <= e /\ p \in old
  BY TradeCovers
<1> HIDE DEF I, D
<1> DEFINE days == [p \in Portfolios |-> Strayed(a, p) \cup Overlooks(old, D, p) \cup Overlooks(new, I, p)]
<1>5. \A p \in Portfolios : /\ days[p] \in SUBSET Dates
                            /\ days[p] = Strayed(a, p) \cup Overlooks(old, D, p) \cup Overlooks(new, I, p)
  BY <1>2 DEF Overlooks, Concerns
<1>6. NobodyRepairs(days)
  BY <1>1
<1> HIDE DEF days
<1>7. /\ unrepaired' \in [Portfolios -> SUBSET Dates]
      /\ \A p \in Portfolios : unrepaired[p] \subseteq unrepaired'[p]
      /\ \A p \in Portfolios : days[p] \subseteq unrepaired'[p]
  BY <1>5, <1>6, DebtsAre
<1>8. ASSUME NEW p \in Portfolios, NEW e \in Dates, NEW f \in Changed(p), f.date <= e
      PROVE  e \in unrepaired'[p] \/ (a.date <= e /\ p \in old \cup new)
  <2>1. (f \in D \/ f \in I) /\ f.portfolio = p
    BY <1>1, ChangedIs
  <2>2. CASE f \in D
    <3>1. e \in days[p] \/ (a.date <= e /\ p \in old)
      BY <1>4, <1>5, <1>8, <2>1, <2>2
    <3>2. QED
      BY <1>7, <3>1
  <2>3. CASE f \in I /\ new = ps
    BY <1>3, <1>8, <2>1, <2>3
  <2>4. CASE f \in I /\ new = {}
    <3>1. e \in Overlooks(new, I, p)
      BY <1>8, <2>1, <2>4 DEF Overlooks, Concerns
    <3>2. QED
      BY <1>5, <1>7, <3>1
  <2>5. QED
    BY <2>1, <2>2, <2>3, <2>4
<1>9. old \cup new \in SUBSET Portfolios
  BY <1>2
<1>10. QED
  BY <1>1, <1>2, <1>3, <1>7, <1>8, <1>9, TradeKeepsInv

\* Every write keeps the invariant.
LEMMA WritesKeepInv ==
  ASSUME CacheInv, CommitAWrite
  PROVE  CacheInv'
<1>1. ASSUME NEW ps \in (SUBSET Portfolios) \ {{}}, NEW ds \in (SUBSET Dates) \ {{}},
             UpdateFundPrices(ps, ds)
      PROVE  CacheInv'
  BY <1>1, UpdateFundPricesKeepsInv
<1>2. ASSUME NEW d \in Dates, NEW p \in Portfolios, NEW kinds \in TransactionForms,
             CreateTransaction(p, kinds, d)
      PROVE  CacheInv'
  BY <1>2, CreateTransactionKeepsInv
<1>3. ASSUME NEW d \in Dates, NEW p \in Portfolios, CreateDividend(p, d)
      PROVE  CacheInv'
  BY <1>3, CreateDividendKeepsInv
<1>4. ASSUME NEW d \in Dates, NEW ps \in (SUBSET Portfolios) \ {{}}, AllocateIbkrTransaction(ps, d)
      PROVE  CacheInv'
  BY <1>4, AllocateKeepsInv
<1>5. ASSUME NEW f \in source, NEW d \in Dates, NEW q \in Portfolios,
             NEW kinds \in TransactionForms, UpdateTransaction(f, q, kinds, d)
      PROVE  CacheInv'
  BY <1>5, UpdateTransactionKeepsInv
<1>6. ASSUME NEW f \in source, NEW d \in Dates, NEW q \in Portfolios, UpdateDividend(f, q, d)
      PROVE  CacheInv'
  BY <1>6, UpdateDividendKeepsInv
<1>7. ASSUME NEW f \in source, DeleteOne(f)
      PROVE  CacheInv'
  BY <1>7, DeleteOneKeepsInv
<1>8. ASSUME NEW a \in {f.allocation : f \in source} \ {NoAllocation}, UnallocateIbkrTransaction(a)
      PROVE  CacheInv'
  BY <1>8, UnallocateKeepsInv
<1>9. ASSUME NEW a \in {f.allocation : f \in source} \ {NoAllocation},
             NEW ps \in (SUBSET Portfolios) \ {{}}, ModifyAllocations(a, ps)
      PROVE  CacheInv'
  BY <1>9, ModifyAllocationsKeepsInv
<1>10. QED
  BY <1>1, <1>2, <1>3, <1>4, <1>5, <1>6, <1>7, <1>8, <1>9 DEF CommitAWrite

------------------------------------------------------------------------------
(* RegenerateMaterializedTable                                             *)

\* A step that leaves the tables, the debts and the calls of other hooks alone leaves a
\* day looked after.
LEMMA LookedAfterKept ==
  ASSUME CacheInv, UNCHANGED <<source, unrepaired>>,
         NEW p \in Portfolios, NEW e \in Dates, NEW w,
         \A h \in Hooks \ {w} : work'[h] = work[h], LookedAfter(p, e, w)
  PROVE  LookedAfter(p, e, w)'
<1>1. CASE e \in unrepaired[p]
  BY <1>1 DEF LookedAfter
<1>2. CASE \E h \in Hooks \ {w} : Repairs(h, p, e)
  <2>1. PICK h \in Hooks \ {w} : Repairs(h, p, e)
    BY <1>2
  <2>2. source \subseteq Facts /\ source' \subseteq Facts
    BY DEF CacheInv, CacheTypeOK
  <2>3. Repairs(h, p, e)'
    BY <2>1, <2>2, RepairsKept
  <2>4. QED
    BY <2>3 DEF LookedAfter
<1>3. QED
  BY <1>1, <1>2 DEF LookedAfter

\* A step of w that leaves the tables, rows and debts alone keeps the two guarantees when
\* what w has read stays up to date for the days its call or the rows cover.
LEMMA ReadingKeepsRepairs ==
  ASSUME CacheInv, UNCHANGED <<source, unrepaired, rows>>, NEW w \in Workers,
         \A v \in Workers \ {w} : work'[v] = work[v] /\ work'[v].pc # "load",
         work'[w].targets = work[w].targets, work'[w].start = work[w].start,
         work[w].pc = "load" => work'[w].end = work[w].end,
         \A p \in Portfolios, e \in Dates :
           UpToDate(w, p, e) /\ e <= work'[w].end => UpToDate(w, p, e)',
         work[w].pc # "load" => \A p \in Portfolios, e \in Dates : UpToDate(w, p, e)',
         \A p \in Portfolios, e \in Dates : rows[p][e] # NoRow => e <= work'[w].end
  PROVE  StaleSnapshotHasRepair' /\ WrongRowHasRepair'
<1>1. /\ \A p : GetOldestTransaction(p)' = GetOldestTransaction(p)
      /\ \A p, e : Computed(p, e)' = Computed(p, e)
  BY TablesSame
<1>2. StaleSnapshotHasRepair'
  <2> SUFFICES ASSUME NEW v \in Workers, NEW p \in Portfolios, NEW e \in Dates,
                      work'[v].pc = "load", p \in work'[v].targets,
                      GetOldestTransaction(p)' <= e, work'[v].start <= e, e <= work'[v].end
               PROVE  UpToDate(v, p, e)' \/ LookedAfter(p, e, v)'
    BY DEF StaleSnapshotHasRepair
  <2>1. v = w
    OBVIOUS
  <2>2. CASE work[w].pc # "load"
    BY <2>1, <2>2
  <2>3. CASE work[w].pc = "load"
    <3>1. UpToDate(w, p, e) \/ LookedAfter(p, e, w)
      BY <1>1, <2>1, <2>3 DEF CacheInv, StaleSnapshotHasRepair
    <3>2. CASE LookedAfter(p, e, w)
      BY <2>1, <3>2, LookedAfterKept DEF Workers
    <3>3. QED
      BY <2>1, <3>1, <3>2
  <2>4. QED
    BY <2>2, <2>3
<1>3. WrongRowHasRepair'
  <2> SUFFICES ASSUME NEW p \in Portfolios, NEW e \in Dates, Wrong(p, e)'
               PROVE  (e \in unrepaired[p] \/ \E h \in Hooks : Repairs(h, p, e))'
    BY DEF WrongRowHasRepair
  <2>1. Wrong(p, e) /\ rows[p][e] # NoRow
    BY <1>1 DEF Wrong
  <2>2. CASE e \in unrepaired[p]
    BY <2>2
  <2>3. CASE \E h \in Hooks : Repairs(h, p, e)
    <3>1. PICK h \in Hooks : Repairs(h, p, e)
      BY <2>3
    <3>2. source \subseteq Facts /\ source' \subseteq Facts
      BY DEF CacheInv, CacheTypeOK
    <3>3. CASE h = w
      <4>1. UpToDate(h, p, e)'
        BY <2>1, <3>1, <3>3 DEF Repairs
      <4>2. QED
        BY <3>1, <3>3, <4>1 DEF Repairs
    <3>4. CASE h # w
      BY <3>1, <3>2, <3>4, RepairsKept DEF Workers
    <3>5. QED
      BY <3>3, <3>4
  <2>4. QED
    BY <2>1, <2>2, <2>3 DEF CacheInv, WrongRowHasRepair
<1>4. QED
  BY <1>2, <1>3

\* A step of the loop protocol's variables is the only one that concerns LoopInv.
LEMMA LoopInvKept == ASSUME LoopInv, UNCHANGED loopVars PROVE LoopInv'
BY DEF LoopInv, LoopTypeOK, OneLoopPerPortfolio, EntryMeansLoop, EntryIsEarliestAsked, LoopFacts,
       Running, loopVars

\* Taking regenWriteMu.
LEMMA LockKeepsInv ==
  ASSUME CacheInv, NEW w \in Workers, Lock(w)
  PROVE  CacheInv'
<1> DEFINE c == work[w]
<1> USE RegenLoopAssumption, MaterializedCacheAssumption
<1>1. /\ c \in Calls /\ work \in [Workers -> Calls] /\ today \in Dates
      /\ c.pc = "lock" /\ regenWriteMu = NoWorker /\ regenWriteMu' = w
      /\ UNCHANGED <<source, writes, rows, calculatedAt, today, now, unrepaired>>
      /\ UNCHANGED loopVars
  BY DEF Lock, CacheInv, CacheTypeOK
<1>2. work' = [work EXCEPT ![w] = [c EXCEPT !.pc = "load", !.end = today]]
  BY DEF Lock
<1> DEFINE c2 == [c EXCEPT !.pc = "load", !.end = today]
<1>3. c2 \in Calls
  BY <1>1 DEF Calls
<1>4. /\ c2.pc = "load" /\ c2.end = today /\ c2.targets = c.targets /\ c2.start = c.start
      /\ c2.loaded = c.loaded /\ c2.oldest = c.oldest /\ c2.snap = c.snap
  BY <1>1 DEF Calls
<1> HIDE DEF c2
<1>5. work'[w] = c2 /\ \A v \in Workers \ {w} : work'[v] = work[v]
  BY <1>1, <1>2 DEF c2
<1>6. work' \in [Workers -> Calls]
  BY <1>1, <1>2, <1>3 DEF c2
<1>7. \A v \in Workers : work[v].pc # "load"
  BY <1>1, WorkersAre DEF CacheInv, CallFacts
<1>8. LoopInv' /\ LoopTypeOK'
  BY <1>1, LoopInvKept DEF CacheInv, LoopInv
<1>9. LoopLink'
  <2>1. \A g \in Loops : g \in Workers /\ loop'[g] = loop[g]
    BY <1>1 DEF loopVars, Workers
  <2>2. \A v \in Workers : work'[v].pc # "idle" <=> work[v].pc # "idle"
    BY <1>1, <1>4, <1>5
  <2>3. QED
    BY <2>1, <2>2 DEF CacheInv, LoopLink
<1>10. CacheTypeOK'
  BY <1>1, <1>6, <1>8 DEF CacheInv, CacheTypeOK
<1>11. CallFacts'
  <2> SUFFICES ASSUME NEW v \in Workers
               PROVE  /\ work'[v].pc = "idle" => work'[v].targets = {}
                      /\ work'[v].pc # "load" => \A p \in Portfolios : work'[v].loaded[p] = 0
                      /\ SnapFacts(v)'
                      /\ work'[v].pc = "load" <=> regenWriteMu' = v
    BY DEF CallFacts
  <2>1. CASE v = w
    BY <2>1, <1>1, <1>4, <1>5 DEF CacheInv, CallFacts, SnapFacts
  <2>2. CASE v # w
    BY <2>2, <1>1, <1>5, <1>7 DEF CacheInv, CallFacts, SnapFacts
  <2>3. QED
    BY <2>1, <2>2
<1>12. RowFacts'
  BY <1>1, <1>4, <1>5, <1>7 DEF CacheInv, RowFacts, Dates
<1>13. WriteFacts'
  BY <1>1 DEF CacheInv, WriteFacts
<1>14. \A p \in Portfolios, e \in Dates : UpToDate(w, p, e)'
  BY <1>1, <1>4, <1>5, NothingReadIsUpToDate DEF CacheInv, CallFacts
<1>15. StaleSnapshotHasRepair' /\ WrongRowHasRepair'
  <2>1. \A v \in Workers \ {w} : work'[v] = work[v] /\ work'[v].pc # "load"
    BY <1>5, <1>7
  <2>2. \A p \in Portfolios, e \in Dates : rows[p][e] # NoRow => e <= work'[w].end
    BY <1>4, <1>5 DEF CacheInv, RowFacts
  <2>3. QED
    BY <1>1, <1>4, <1>5, <1>14, <2>1, <2>2, ReadingKeepsRepairs
<1>16. QED
  BY <1>8, <1>9, <1>10, <1>11, <1>12, <1>13, <1>15 DEF CacheInv

\* A query keeps what has been read up to date, for the days of the call.
LEMMA LoadKeepsUpToDate ==
  ASSUME CacheInv, NEW w \in Workers, NEW p \in Portfolios, Load(w, p),
         NEW e \in Dates, e <= work[w].end, UpToDate(w, p, e)
  PROVE  UpToDate(w, p, e)'
<1> DEFINE c == work[w]
           k == c.loaded[p]
           old == GetOldestTransaction(p)
<1> USE RegenLoopAssumption
<1>1. c \in Calls /\ work \in [Workers -> Calls] /\ UNCHANGED source /\ source \subseteq Facts
  BY DEF Load, CacheInv, CacheTypeOK
<1>2. k \in 0..4 /\ c.end \in Dates
  BY <1>1, QueriesAre DEF Load, Calls
<1>3. CASE k = 0
  <2>1. work' = [work EXCEPT ![w] = [c EXCEPT !.loaded[p] = 1, !.oldest[p] = old]]
    BY <1>3, QueriesAre DEF Load
  <2>2. work'[w].loaded[p] = 1 /\ work'[w].oldest[p] = old
    BY <1>1, <2>1 DEF Calls
  <2>3. old' = old
    BY <1>1, TablesSame
  <2>4. 2..1 = {}
    OBVIOUS
  <2> HIDE DEF old
  <2>5. QED
    BY <2>2, <2>3, <2>4 DEF UpToDate, old
<1>4. CASE k # 0
  <2> DEFINE kind == Queries[k + 1]
             Q    == Query(p, kind, c.oldest[p], c.end)
  <2>1. k + 1 \in 2..5 /\ kind \in Kinds /\ kind # "oldest"
    BY <1>2, <1>4, QueriesAre DEF Kinds
  <2>2. work' = [work EXCEPT ![w] = [c EXCEPT !.loaded[p] = @ + 1, !.snap[p] = @ \cup Q]]
    BY <2>1 DEF Load
  <2>3. /\ work'[w].loaded[p] = k + 1 /\ work'[w].oldest[p] = c.oldest[p]
        /\ work'[w].snap[p] = c.snap[p] \cup Q /\ work'[w].end = c.end
    <3> HIDE DEF Q
    <3>1. QED
      BY <1>1, <2>2 DEF Calls
  <2>4. c.oldest[p] = old
    BY <1>2, <1>4 DEF UpToDate
  <2>5. /\ old' = old
        /\ \A x, o, l : Query(p, x, o, l)' = Query(p, x, o, l)
    BY <1>1, TablesSame
  <2>6. \A f \in Q : f.kind = kind
    BY DEF Query
  <2>7. {f \in Q : f.date <= e} = {f \in Query(p, kind, old, c.end) : f.date <= e}
    BY <2>4
  <2>8. \A f \in c.snap[p] : \E i \in 2..k : f.kind = Queries[i]
    BY DEF CacheInv, CallFacts, SnapFacts
  <2>9. \A f \in c.snap[p] : f.kind # kind
    BY <1>2, <2>1, <2>8, QueriesAre
  <2> HIDE DEF Q
  <2>10. ASSUME NEW i \in 2..(k + 1)
         PROVE  {f \in work'[w].snap[p] : f.kind = Queries[i] /\ f.date <= e}
                  = {f \in Query(p, Queries[i], old, c.end) : f.date <= e}
    <3>1. CASE i = k + 1
      BY <2>3, <2>6, <2>7, <2>9, <3>1
    <3>2. CASE i # k + 1
      <4>1. i \in 2..k /\ Queries[i] # kind
        BY <1>2, <2>1, <3>2, QueriesAre
      <4>2. {f \in c.snap[p] : f.kind = Queries[i] /\ f.date <= e}
              = {f \in Query(p, Queries[i], old, c.end) : f.date <= e}
        BY <4>1 DEF UpToDate
      <4>3. QED
        BY <2>3, <2>6, <4>1, <4>2
    <3>3. QED
      BY <3>1, <3>2
  <2> HIDE DEF old, kind
  <2>11. QED
    BY <2>3, <2>4, <2>5, <2>10 DEF UpToDate, old
<1>5. QED
  BY <1>3, <1>4

\* The entries of what a call has read have the type of rows.
LEMMA EntryIsARow ==
  ASSUME NEW F \in SUBSET Facts, NEW e
  PROVE  Entry(F, e) \in SUBSET [write : Writes, kind : Kinds]
BY DEF Entry, NoRow, Facts

\* A query keeps the invariant.
LEMMA LoadKeepsInv ==
  ASSUME CacheInv, NEW w \in Workers, NEW p \in Portfolios, Load(w, p)
  PROVE  CacheInv'
<1> DEFINE c == work[w]
           k == c.loaded[p]
           old == GetOldestTransaction(p)
           kind == Queries[k + 1]
           Q == Query(p, kind, c.oldest[p], c.end)
<1> USE RegenLoopAssumption, MaterializedCacheAssumption
<1>1. /\ c \in Calls /\ work \in [Workers -> Calls] /\ source \subseteq Facts
      /\ c.pc = "load" /\ k \in 0..4 /\ old \in Dates \cup {NoDate}
      /\ UNCHANGED <<source, writes, rows, calculatedAt, regenWriteMu, today, now, unrepaired>>
      /\ UNCHANGED loopVars
  <2>1. c \in Calls /\ work \in [Workers -> Calls] /\ source \subseteq Facts
    BY DEF CacheInv, CacheTypeOK
  <2>2. k \in 0..4
    BY <2>1, QueriesAre DEF Load, Calls
  <2>3. old \in Dates \cup {NoDate}
    BY <2>1, OldestIs, OldestNow
  <2>4. QED
    BY <2>1, <2>2, <2>3 DEF Load
<1>2. k # 0 => k + 1 \in 2..5 /\ kind \in Kinds /\ kind # "oldest"
  BY <1>1, QueriesAre DEF Kinds
<1>3. PICK c2 \in Calls :
        /\ work' = [work EXCEPT ![w] = c2]
        /\ c2.pc = "load" /\ c2.end = c.end /\ c2.targets = c.targets /\ c2.start = c.start
        /\ c2.loaded[p] = k + 1
        /\ \A q \in Portfolios \ {p} : c2.loaded[q] = c.loaded[q] /\ c2.snap[q] = c.snap[q]
        /\ c2.snap[p] = c.snap[p] \/ (k # 0 /\ c2.snap[p] = c.snap[p] \cup Q)
  <2>1. CASE k = 0
    <3> DEFINE d == [c EXCEPT !.loaded[p] = 1, !.oldest[p] = old]
    <3>1. work' = [work EXCEPT ![w] = d]
      BY <2>1, QueriesAre DEF Load
    <3>2. 1 \in 0..Len(Queries)
      BY QueriesAre
    <3> HIDE DEF old
    <3>3. d \in Calls
      BY <1>1, <3>2 DEF Calls
    <3>4. /\ d.pc = "load" /\ d.end = c.end /\ d.targets = c.targets /\ d.start = c.start
          /\ d.loaded[p] = 1
          /\ \A q \in Portfolios \ {p} : d.loaded[q] = c.loaded[q] /\ d.snap[q] = c.snap[q]
          /\ d.snap[p] = c.snap[p]
      BY <1>1 DEF Calls
    <3>5. d.loaded[p] = k + 1
      BY <2>1, <3>4
    <3> HIDE DEF d, k
    <3>6. QED
      BY <3>1, <3>3, <3>4, <3>5
  <2>2. CASE k # 0
    <3> DEFINE d == [c EXCEPT !.loaded[p] = @ + 1, !.snap[p] = @ \cup Q]
    <3>1. work' = [work EXCEPT ![w] = d]
      BY <1>2, <2>2 DEF Load
    <3>2. k + 1 \in 0..Len(Queries)
      BY <1>1, QueriesAre
    <3>3. Q \subseteq Facts
      BY <1>1 DEF Query, Since, OfPortfolio
    <3> HIDE DEF Q
    <3>4. d \in Calls
      BY <1>1, <3>2, <3>3 DEF Calls
    <3>5. /\ d.pc = "load" /\ d.end = c.end /\ d.targets = c.targets /\ d.start = c.start
          /\ d.loaded[p] = k + 1
          /\ \A q \in Portfolios \ {p} : d.loaded[q] = c.loaded[q] /\ d.snap[q] = c.snap[q]
          /\ d.snap[p] = c.snap[p] \cup Q
      BY <1>1 DEF Calls
    <3> HIDE DEF d
    <3>6. QED
      BY <2>2, <3>1, <3>4, <3>5
  <2>3. QED
    BY <2>1, <2>2
<1>4. /\ work' \in [Workers -> Calls] /\ work'[w] = c2
      /\ \A v \in Workers \ {w} : work'[v] = work[v]
  BY <1>1, <1>3
<1>5. \A v \in Workers \ {w} : work[v].pc # "load"
  BY <1>1 DEF CacheInv, CallFacts
<1>6. \A f \in Q : f.kind = kind
  BY DEF Query
<1> HIDE DEF Q, old
<1>7. LoopInv' /\ LoopTypeOK'
  BY <1>1, LoopInvKept DEF CacheInv, LoopInv
<1>8. LoopLink'
  <2>1. \A g \in Loops : g \in Workers /\ loop'[g] = loop[g]
    BY <1>1 DEF loopVars, Workers
  <2>2. \A v \in Workers : work'[v].pc # "idle" <=> work[v].pc # "idle"
    BY <1>1, <1>3, <1>4
  <2>3. QED
    BY <2>1, <2>2 DEF CacheInv, LoopLink
<1>9. CacheTypeOK'
  BY <1>1, <1>4, <1>7 DEF CacheInv, CacheTypeOK
<1>10. SnapFacts(w)'
  <2> SUFFICES ASSUME NEW q \in Portfolios, NEW f \in work'[w].snap[q]
               PROVE  \E i \in 2..work'[w].loaded[q] : f.kind = Queries[i]
    BY DEF SnapFacts
  <2>1. \A x \in c.snap[q] : \E i \in 2..c.loaded[q] : x.kind = Queries[i]
    BY DEF CacheInv, CallFacts, SnapFacts
  <2>2. CASE q # p
    BY <1>3, <1>4, <2>1, <2>2
  <2>3. CASE q = p /\ f \in c.snap[p]
    <3>1. PICK i \in 2..k : f.kind = Queries[i]
      BY <2>1, <2>3
    <3>2. i \in 2..(k + 1) /\ work'[w].loaded[q] = k + 1
      BY <1>1, <1>3, <1>4, <2>3
    <3>3. QED
      BY <3>1, <3>2
  <2>4. CASE q = p /\ f \notin c.snap[p]
    <3>1. k # 0 /\ f.kind = Queries[k + 1] /\ work'[w].loaded[q] = k + 1
      BY <1>3, <1>4, <1>6, <2>4
    <3>2. k + 1 \in 2..(k + 1)
      BY <1>1, <3>1
    <3>3. QED
      BY <3>1, <3>2
  <2>5. QED
    BY <2>2, <2>3, <2>4
<1>11. CallFacts'
  <2> SUFFICES ASSUME NEW v \in Workers
               PROVE  /\ work'[v].pc = "idle" => work'[v].targets = {}
                      /\ work'[v].pc # "load" => \A q \in Portfolios : work'[v].loaded[q] = 0
                      /\ SnapFacts(v)'
                      /\ work'[v].pc = "load" <=> regenWriteMu' = v
    BY DEF CallFacts
  <2>1. CASE v = w
    BY <2>1, <1>1, <1>3, <1>4, <1>10 DEF CacheInv, CallFacts
  <2>2. CASE v # w
    BY <2>2, <1>1, <1>4, <1>5 DEF CacheInv, CallFacts, SnapFacts
  <2>3. QED
    BY <2>1, <2>2
<1>12. RowFacts'
  BY <1>1, <1>3, <1>4, <1>5 DEF CacheInv, RowFacts
<1>13. WriteFacts'
  BY <1>1 DEF CacheInv, WriteFacts
<1>14. StaleSnapshotHasRepair' /\ WrongRowHasRepair'
  <2>1. \A v \in Workers \ {w} : work'[v] = work[v] /\ work'[v].pc # "load"
    BY <1>4, <1>5
  <2>2. /\ \A q \in Portfolios, e \in Dates : rows[q][e] # NoRow => e <= work'[w].end
        /\ work'[w].end = work[w].end
    BY <1>1, <1>3, <1>4 DEF CacheInv, RowFacts
  <2>3. ASSUME NEW q \in Portfolios, NEW e \in Dates, UpToDate(w, q, e), e <= work'[w].end
        PROVE  UpToDate(w, q, e)'
    <3>1. CASE q = p
      BY <2>2, <2>3, <3>1, LoadKeepsUpToDate
    <3>2. CASE q # p
      <4>1. work'[w].oldest[q] = work[w].oldest[q]
        BY <1>1, <3>2 DEF Load, Calls
      <4>2. QED
        BY <1>1, <1>3, <1>4, <2>3, <3>2, <4>1, UpToDateKept
    <3>3. QED
      BY <3>1, <3>2
  <2>4. work'[w].targets = work[w].targets /\ work'[w].start = work[w].start
    BY <1>3, <1>4
  <2>5. QED
    BY <1>1, <2>1, <2>2, <2>3, <2>4, ReadingKeepsRepairs
<1>15. QED
  BY <1>7, <1>8, <1>9, <1>11, <1>12, <1>13, <1>14 DEF CacheInv

\* Ending a call, in success or failure, leaves no call that is loading.
LEMMA EndOfCall ==
  ASSUME CacheInv, NEW w \in Workers, work[w].pc = "load",
         work' = [work EXCEPT ![w] = NoCall], regenWriteMu' = NoWorker,
         UNCHANGED <<source, writes, today, now>>, LoopInv', LoopLink'
  PROVE  /\ work' \in [Workers -> Calls]
         /\ \A v \in Workers : work'[v].pc # "load"
         /\ CallFacts' /\ WriteFacts' /\ StaleSnapshotHasRepair'
         /\ LoopTypeOK'
         /\ \A h \in Hooks \ {w} : work'[h] = work[h]
<1>1. work \in [Workers -> Calls]
  BY DEF CacheInv, CacheTypeOK
<1>2. /\ work' \in [Workers -> Calls] /\ work'[w] = NoCall
      /\ \A v \in Workers \ {w} : work'[v] = work[v]
  BY <1>1, NoCallIs
<1>3. \A v \in Workers \ {w} : work[v].pc # "load"
  BY DEF CacheInv, CallFacts
<1>4. \A v \in Workers : work'[v].pc # "load"
  BY <1>2, <1>3, NoCallIs
<1>5. CallFacts'
  <2> SUFFICES ASSUME NEW v \in Workers
               PROVE  /\ work'[v].pc = "idle" => work'[v].targets = {}
                      /\ work'[v].pc # "load" => \A q \in Portfolios : work'[v].loaded[q] = 0
                      /\ SnapFacts(v)'
                      /\ work'[v].pc = "load" <=> regenWriteMu' = v
    BY DEF CallFacts
  <2>1. CASE v = w
    BY <2>1, <1>2, <1>4, NoCallIs, WorkersAre DEF SnapFacts
  <2>2. CASE v # w
    BY <2>2, <1>2, <1>4, WorkersAre DEF CacheInv, CallFacts, SnapFacts
  <2>3. QED
    BY <2>1, <2>2
<1>6. WriteFacts'
  BY DEF CacheInv, WriteFacts
<1>7. StaleSnapshotHasRepair'
  BY <1>4 DEF StaleSnapshotHasRepair
<1>8. LoopTypeOK'
  BY DEF LoopInv
<1>9. QED
  BY <1>2, <1>4, <1>5, <1>6, <1>7, <1>8 DEF Workers

\* Installing what a call has computed.  Rows that come out right need no repair; rows that
\* come out wrong were read too early, and another hook is on its way for them, or leave out
\* the dividends of the end day, which are owed.
LEMMA InstallKeepsInv ==
  ASSUME CacheInv, NEW w \in Workers, Install(w), LoopInv', LoopLink'
  PROVE  CacheInv'
<1> DEFINE c == work[w]
<1> USE RegenLoopAssumption, MaterializedCacheAssumption
<1>1. /\ c \in Calls /\ source \subseteq Facts /\ c.pc = "load"
      /\ \A p \in c.targets : c.loaded[p] = 5
      /\ work' = [work EXCEPT ![w] = NoCall] /\ regenWriteMu' = NoWorker
      /\ UNCHANGED <<source, writes, today, now>>
      /\ c.targets \subseteq Portfolios /\ c.start \in Dates /\ c.end \in Dates
  BY QueriesAre DEF Install, CacheInv, CacheTypeOK, Calls
<1>2. /\ work' \in [Workers -> Calls]
      /\ \A v \in Workers : work'[v].pc # "load"
      /\ CallFacts' /\ WriteFacts' /\ StaleSnapshotHasRepair'
      /\ LoopTypeOK'
      /\ \A h \in Hooks \ {w} : work'[h] = work[h]
  BY <1>1, EndOfCall
<1>3. /\ \A p \in Portfolios, e \in Dates :
           rows'[p][e] = IF Replaces(c, p) /\ c.start <= e THEN NewRow(c, p, e) ELSE rows[p][e]
      /\ \A p \in Portfolios :
           unrepaired'[p] = IF Replaces(c, p) THEN StillOwed(w, p) ELSE unrepaired[p]
  BY DEF Install
<1>4. \A p \in Portfolios, e \in Dates : NewRow(c, p, e) # NoRow => e <= c.end
  BY DEF NewRow
<1>5. CacheTypeOK'
  <2>1. \A p \in Portfolios, e \in Dates :
          NewRow(c, p, e) \in SUBSET [write : Writes, kind : Kinds]
    <3>1. \A p \in Portfolios : c.snap[p] \in SUBSET Facts
      BY <1>1 DEF Calls
    <3>2. QED
      BY <3>1, EntryIsARow DEF NewRow, NoRow
  <2>2. rows' \in [Portfolios -> [Dates -> SUBSET [write : Writes, kind : Kinds]]]
    <3>1. rows' = [p \in Portfolios |-> [e \in Dates |->
            IF Replaces(c, p) /\ c.start <= e THEN NewRow(c, p, e) ELSE rows[p][e]]]
      BY DEF Install
    <3>2. \A p \in Portfolios, e \in Dates :
            rows[p][e] \in SUBSET [write : Writes, kind : Kinds]
      BY DEF CacheInv, CacheTypeOK
    <3>3. QED
      BY <2>1, <3>1, <3>2
  <2>3. calculatedAt' \in [Portfolios -> 0..MaxNow]
    BY DEF Install, CacheInv, CacheTypeOK
  <2>4. unrepaired' \in [Portfolios -> SUBSET Dates]
    <3>1. unrepaired' = [p \in Portfolios |->
            IF Replaces(c, p) THEN StillOwed(w, p) ELSE unrepaired[p]]
      BY DEF Install
    <3>2. \A p \in Portfolios : unrepaired[p] \in SUBSET Dates /\ StillOwed(w, p) \in SUBSET Dates
      BY DEF CacheInv, CacheTypeOK, StillOwed, LeavesOut
    <3>3. QED
      BY <3>1, <3>2
  <2>5. QED
    BY <1>1, <1>2, <2>2, <2>3, <2>4 DEF CacheInv, CacheTypeOK
<1>6. RowFacts'
  <2>1. \A p \in Portfolios, e \in Dates : rows[p][e] # NoRow => e <= today
    BY DEF CacheInv, RowFacts
  <2>2. c.end <= today /\ today \in Dates
    BY <1>1 DEF CacheInv, RowFacts, CacheTypeOK
  <2>3. \A p \in Portfolios, e \in Dates : rows'[p][e] # NoRow => e <= today
    BY <1>1, <1>3, <1>4, <2>1, <2>2 DEF Dates
  <2>4. QED
    BY <1>1, <1>2, <2>3 DEF RowFacts
<1>7. WrongRowHasRepair'
  <2> SUFFICES ASSUME NEW p \in Portfolios, NEW e \in Dates, Wrong(p, e)'
               PROVE  (e \in unrepaired[p] \/ \E h \in Hooks : Repairs(h, p, e))'
    BY DEF WrongRowHasRepair
  <2>1. /\ rows'[p][e] # NoRow /\ GetOldestTransaction(p) <= e
        /\ rows'[p][e] # Computed(p, e)
    BY <1>1, TablesSame DEF Wrong
  <2>2. LookedAfter(p, e, w) /\ ~(c.start <= e /\ UpToDate(w, p, e))
          => (e \in unrepaired[p] \/ \E h \in Hooks : Repairs(h, p, e))'
    <3> SUFFICES ASSUME LookedAfter(p, e, w), ~(c.start <= e /\ UpToDate(w, p, e))
                 PROVE  e \in unrepaired'[p] \/ \E h \in Hooks : Repairs(h, p, e)'
      OBVIOUS
    <3>1. CASE e \in unrepaired[p]
      BY <1>3, <3>1 DEF StillOwed
    <3>2. CASE \E h \in Hooks \ {w} : Repairs(h, p, e)
      BY <1>1, <1>2, <3>2, RepairsKept
    <3>3. QED
      BY <3>1, <3>2 DEF LookedAfter
  <2>3. p \in c.targets /\ e <= c.end /\ UpToDate(w, p, e) /\ e \notin LeavesOut(w, p)
          => Entry(c.snap[p], e) = Computed(p, e)
    BY <1>1, UpToDateEntry DEF CacheInv, CallFacts
  <2>4. CASE Replaces(c, p) /\ c.start <= e
    <3>1. NewRow(c, p, e) # NoRow /\ NewRow(c, p, e) = Entry(c.snap[p], e) /\ p \in c.targets
      BY <1>3, <2>1, <2>4 DEF NewRow, Replaces
    <3>2. e <= c.end
      BY <1>4, <3>1
    <3>3. CASE e \in LeavesOut(w, p)
      BY <1>3, <2>4, <3>3 DEF StillOwed
    <3>4. CASE e \notin LeavesOut(w, p)
      <4>1. ~UpToDate(w, p, e)
        BY <1>3, <2>1, <2>3, <2>4, <3>1, <3>2, <3>4
      <4>2. LookedAfter(p, e, w)
        BY <1>1, <2>1, <2>4, <3>1, <3>2, <4>1 DEF CacheInv, StaleSnapshotHasRepair
      <4>3. QED
        BY <2>2, <4>1, <4>2
    <3>5. QED
      BY <3>3, <3>4
  <2>5. CASE ~(Replaces(c, p) /\ c.start <= e)
    <3>1. Wrong(p, e) /\ rows[p][e] # NoRow
      BY <1>3, <2>1, <2>5 DEF Wrong
    <3>2. e <= c.end
      BY <1>1, <3>1 DEF CacheInv, RowFacts
    <3>3. CASE e \in unrepaired[p]
      BY <1>3, <2>5, <3>3 DEF StillOwed
    <3>4. CASE \E h \in Hooks \ {w} : Repairs(h, p, e)
      BY <1>1, <1>2, <3>4, RepairsKept
    <3>5. CASE w \in Hooks /\ Repairs(w, p, e)
      <4>1. p \in c.targets /\ c.start <= e /\ UpToDate(w, p, e)
        BY <3>5 DEF Repairs
      <4>2. Entry(c.snap[p], e) # NoRow
        BY <1>1, <2>1, <3>2, <4>1, UpToDateIsARow DEF CacheInv, CallFacts
      <4>3. FirstDay(c, p) <= e
        BY <1>1, <2>1, <4>1 DEF UpToDate, FirstDay
      <4>4. NewRow(c, p, e) # NoRow
        BY <3>2, <4>2, <4>3 DEF NewRow
      <4>5. QED
        BY <2>5, <4>1, <4>4 DEF Replaces
    <3>6. QED
      BY <3>1, <3>3, <3>4, <3>5 DEF CacheInv, WrongRowHasRepair
  <2>6. QED
    BY <2>4, <2>5
<1>8. QED
  BY <1>2, <1>5, <1>6, <1>7 DEF CacheInv

\* A call that fails leaves the rows alone, and debts if it was a hook's.
LEMMA FailKeepsInv ==
  ASSUME CacheInv, NEW w \in Workers, Fail(w), LoopInv', LoopLink'
  PROVE  CacheInv'
<1> DEFINE c == work[w]
<1> USE RegenLoopAssumption, MaterializedCacheAssumption
<1>1. /\ c \in Calls /\ source \subseteq Facts /\ c.pc = "load"
      /\ work' = [work EXCEPT ![w] = NoCall] /\ regenWriteMu' = NoWorker
      /\ UNCHANGED <<source, writes, rows, calculatedAt, today, now>>
      /\ c.start \in Dates /\ unrepaired \in [Portfolios -> SUBSET Dates]
  BY DEF Fail, CacheInv, CacheTypeOK, Calls
<1>2. /\ work' \in [Workers -> Calls]
      /\ \A v \in Workers : work'[v].pc # "load"
      /\ CallFacts' /\ WriteFacts' /\ StaleSnapshotHasRepair'
      /\ LoopTypeOK'
      /\ \A h \in Hooks \ {w} : work'[h] = work[h]
  BY <1>1, EndOfCall
<1>3. unrepaired' = [p \in Portfolios |->
         IF w \in Hooks /\ p \in c.targets THEN unrepaired[p] \cup c.start..LastDate ELSE unrepaired[p]]
  BY DEF Fail
<1>4. c.start..LastDate \subseteq Dates /\ \A e \in Dates : c.start <= e => e \in c.start..LastDate
  BY <1>1 DEF Dates
<1>5. CacheTypeOK'
  BY <1>1, <1>2, <1>3, <1>4 DEF CacheInv, CacheTypeOK
<1>6. RowFacts'
  BY <1>1, <1>2 DEF CacheInv, RowFacts
<1>7. WrongRowHasRepair'
  <2> SUFFICES ASSUME NEW p \in Portfolios, NEW e \in Dates, Wrong(p, e)'
               PROVE  (e \in unrepaired[p] \/ \E h \in Hooks : Repairs(h, p, e))'
    BY DEF WrongRowHasRepair
  <2>1. Wrong(p, e)
    BY <1>1, TablesSame DEF Wrong
  <2>2. CASE e \in unrepaired[p]
    BY <1>3, <2>2
  <2>3. CASE w \in Hooks /\ Repairs(w, p, e)
    BY <1>3, <1>4, <2>3 DEF Repairs
  <2>4. CASE \E h \in Hooks \ {w} : Repairs(h, p, e)
    BY <1>1, <1>2, <2>4, RepairsKept
  <2>5. QED
    BY <2>1, <2>2, <2>3, <2>4 DEF CacheInv, WrongRowHasRepair
<1>8. QED
  BY <1>2, <1>5, <1>6, <1>7 DEF CacheInv

------------------------------------------------------------------------------
(* Hooks, loop goroutines, readers and the environment                     *)

\* The end of a hook's call.
LEMMA HookEndsKeepsInv ==
  ASSUME CacheInv, NEW h \in Hooks, HookEnds(h)
  PROVE  CacheInv'
<1>1. LoopInv'
  BY LoopInvKept DEF HookEnds, CacheInv
<1>2. LoopLink'
  <2>1. work' = [work EXCEPT ![h] = NoCall] /\ loop' = loop
    BY DEF HookEnds, Install, Fail, loopVars
  <2>2. \A g \in Loops : g # h /\ g \in Workers
    BY WorkersAre DEF Workers
  <2>3. \A g \in Loops : work'[g] = work[g]
    BY <2>1, <2>2 DEF CacheInv, CacheTypeOK
  <2>4. QED
    BY <2>1, <2>3 DEF CacheInv, LoopLink
<1>3. h \in Workers
  BY DEF Workers
<1>4. QED
  BY <1>1, <1>2, <1>3, InstallKeepsInv, FailKeepsInv DEF HookEnds

\* A step that leaves the tables, rows, debts, hooks and the call that is loading alone
\* leaves the two guarantees alone.
LEMMA RepairsUntouched ==
  ASSUME CacheInv, UNCHANGED <<source, rows, unrepaired>>,
         \A v \in Workers : work'[v].pc = "load" => work'[v] = work[v],
         \A h \in Hooks : work'[h] = work[h]
  PROVE  StaleSnapshotHasRepair' /\ WrongRowHasRepair'
<1>1. source \subseteq Facts /\ source' \subseteq Facts
  BY DEF CacheInv, CacheTypeOK
<1>2. StaleSnapshotHasRepair'
  <2> SUFFICES ASSUME NEW v \in Workers, NEW p \in Portfolios, NEW e \in Dates,
                      work'[v].pc = "load", p \in work'[v].targets,
                      GetOldestTransaction(p)' <= e, work'[v].start <= e, e <= work'[v].end
               PROVE  UpToDate(v, p, e)' \/ LookedAfter(p, e, v)'
    BY DEF StaleSnapshotHasRepair
  <2>1. work'[v] = work[v] /\ GetOldestTransaction(p)' = GetOldestTransaction(p)
    BY TablesSame
  <2>2. UpToDate(v, p, e) \/ LookedAfter(p, e, v)
    BY <2>1 DEF CacheInv, StaleSnapshotHasRepair
  <2>3. CASE UpToDate(v, p, e)
    BY <1>1, <2>1, <2>3, UpToDateKept
  <2>4. CASE LookedAfter(p, e, v)
    BY <2>4, LookedAfterKept
  <2>5. QED
    BY <2>2, <2>3, <2>4
<1>3. WrongRowHasRepair'
  <2> SUFFICES ASSUME NEW p \in Portfolios, NEW e \in Dates, Wrong(p, e)'
               PROVE  (e \in unrepaired[p] \/ \E h \in Hooks : Repairs(h, p, e))'
    BY DEF WrongRowHasRepair
  <2>1. Wrong(p, e)
    BY TablesSame DEF Wrong
  <2>2. \A h \in Hooks : Repairs(h, p, e) => Repairs(h, p, e)'
    BY <1>1, RepairsKept
  <2>3. QED
    BY <2>1, <2>2 DEF CacheInv, WrongRowHasRepair
<1>4. QED
  BY <1>2, <1>3

\* A loop goroutine begins a call for its portfolio from the date of its entry.
LEMMA StartAttemptKeepsInv ==
  ASSUME CacheInv, NEW g \in Loops, StartAttempt(g)
  PROVE  CacheInv'
<1> DEFINE q == loop[g].portfolio
           c == Call("lock", {q}, regenInFlight[q])
<1> USE RegenLoopAssumption, MaterializedCacheAssumption
<1>1. /\ ReadEntry(g) /\ loop[g].pc = "head" /\ work' = [work EXCEPT ![g] = c]
      /\ UNCHANGED <<source, writes, rows, calculatedAt, regenWriteMu, today, now, unrepaired>>
  BY DEF StartAttempt, ReadEntry
<1>2. /\ work \in [Workers -> Calls] /\ loop \in [Loops -> LoopStates] /\ g \in Workers
      /\ source \subseteq Facts
  BY DEF CacheInv, CacheTypeOK, LoopTypeOK, Workers
<1>3. q \in Portfolios /\ regenInFlight[q] \in Dates
  <2>1. q \in Portfolios
    BY <1>1 DEF CacheInv, LoopInv, LoopFacts, Running
  <2>2. regenInFlight[q] # NoDate
    BY <1>1, <2>1 DEF CacheInv, LoopInv, EntryMeansLoop, Running
  <2>3. regenInFlight[q] \in Dates \cup {NoDate}
    BY <2>1 DEF CacheInv, CacheTypeOK, LoopTypeOK
  <2>4. QED
    BY <2>1, <2>2, <2>3
<1>4. PICK T \in SUBSET Portfolios, d \in Dates : c = Call("lock", T, d)
  BY <1>3
<1>5. c \in Calls /\ c.pc = "lock" /\ \A p \in Portfolios : c.loaded[p] = 0 /\ c.snap[p] = {}
  <2> DEFINE x == Call("lock", T, d)
  <2>1. x \in Calls /\ x.pc = "lock" /\ \A p \in Portfolios : x.loaded[p] = 0 /\ x.snap[p] = {}
    BY CallIs
  <2>2. c = x
    BY <1>4
  <2> HIDE DEF c, x
  <2>3. QED
    BY <2>1, <2>2
<1> HIDE DEF c
<1>6. work'[g] = c /\ work' \in [Workers -> Calls] /\ \A v \in Workers \ {g} : work'[v] = work[v]
  BY <1>1, <1>2, <1>5
<1>7. work[g].pc = "idle"
  BY <1>1 DEF CacheInv, LoopLink
<1>8. LoopInv' /\ LoopTypeOK'
  BY <1>1, LoopStepKeepsInv DEF CacheInv, LoopStep, LoopInv
<1>9. LoopLink'
  <2>1. loop'[g].pc = "regen" /\ \A x \in Loops \ {g} : loop'[x] = loop[x]
    BY <1>1, <1>2, <1>3, RegenLoopAssumption DEF ReadEntry, LoopStates, Dates, NoDate
  <2>2. QED
    BY <1>5, <1>6, <2>1 DEF CacheInv, LoopLink, Workers
<1>10. CacheTypeOK'
  BY <1>1, <1>6, <1>8 DEF CacheInv, CacheTypeOK
<1>11. CallFacts'
  <2> SUFFICES ASSUME NEW v \in Workers
               PROVE  /\ work'[v].pc = "idle" => work'[v].targets = {}
                      /\ work'[v].pc # "load" => \A p \in Portfolios : work'[v].loaded[p] = 0
                      /\ SnapFacts(v)'
                      /\ work'[v].pc = "load" <=> regenWriteMu' = v
    BY DEF CallFacts
  <2>1. CASE v = g
    BY <2>1, <1>1, <1>2, <1>5, <1>6, <1>7 DEF CacheInv, CallFacts, SnapFacts
  <2>2. CASE v # g
    BY <2>2, <1>1, <1>6 DEF CacheInv, CallFacts, SnapFacts
  <2>3. QED
    BY <2>1, <2>2
<1>12. \A v \in Workers : work'[v].pc = "load" => v # g /\ work'[v] = work[v]
  BY <1>5, <1>6
<1>13. RowFacts' /\ WriteFacts'
  BY <1>1, <1>12 DEF CacheInv, RowFacts, WriteFacts
<1>14. \A h \in Hooks : work'[h] = work[h]
  BY <1>6, WorkersAre DEF Workers
<1>15. StaleSnapshotHasRepair' /\ WrongRowHasRepair'
  BY <1>1, <1>12, <1>14, RepairsUntouched
<1>16. QED
  BY <1>8, <1>9, <1>10, <1>11, <1>13, <1>15 DEF CacheInv

\* The end of a loop goroutine's call.
LEMMA EndAttemptKeepsInv ==
  ASSUME CacheInv, NEW g \in Loops, EndAttempt(g)
  PROVE  CacheInv'
<1>1. LoopInv'
  BY LoopStepKeepsInv DEF EndAttempt, LoopStep, CacheInv
<1>2. LoopLink'
  <2>1. /\ work \in [Workers -> Calls] /\ loop \in [Loops -> LoopStates] /\ g \in Workers
        /\ work' = [work EXCEPT ![g] = NoCall]
    BY DEF CacheInv, CacheTypeOK, LoopTypeOK, Workers, EndAttempt, Install, Fail
  <2>2. loop'[g].pc \in {"check", "abort"} /\ \A x \in Loops \ {g} : loop'[x] = loop[x]
    BY <2>1 DEF EndAttempt, AttemptSucceeds, AttemptFails, LoopStates
  <2>3. work'[g].pc = "idle" /\ \A x \in Workers \ {g} : work'[x] = work[x]
    BY <2>1, NoCallIs
  <2>4. QED
    BY <2>2, <2>3 DEF CacheInv, LoopLink, Workers
<1>3. g \in Workers
  BY DEF Workers
<1>4. QED
  BY <1>1, <1>2, <1>3, InstallKeepsInv, FailKeepsInv DEF EndAttempt

\* A step that leaves the cache's own variables alone.
LEMMA CacheUntouched ==
  ASSUME CacheInv, UNCHANGED cacheVars, LoopInv', LoopLink'
  PROVE  CacheInv'
<1>1. UNCHANGED <<source, writes, rows, calculatedAt, work, regenWriteMu, today, now, unrepaired>>
  BY DEF cacheVars
<1>3. CacheTypeOK'
  BY <1>1 DEF CacheInv, CacheTypeOK, LoopInv
<1>4. CallFacts' /\ RowFacts' /\ WriteFacts'
  BY <1>1 DEF CacheInv, CallFacts, SnapFacts, RowFacts, WriteFacts
<1>5. StaleSnapshotHasRepair' /\ WrongRowHasRepair'
  BY <1>1, RepairsUntouched
<1>6. QED
  BY <1>3, <1>4, <1>5 DEF CacheInv

\* A loop goroutine between two calls.
LEMMA BetweenAttemptsKeepsInv ==
  ASSUME CacheInv, NEW g \in Loops, BetweenAttempts(g)
  PROVE  CacheInv'
<1>1. LoopInv'
  BY LoopStepKeepsInv DEF BetweenAttempts, LoopStep, CacheInv
<1>2. LoopLink'
  <2>1. loop \in [Loops -> LoopStates] /\ work' = work
    BY DEF CacheInv, CacheTypeOK, LoopTypeOK, BetweenAttempts, cacheVars
  <2>2. /\ loop[g].pc # "regen" /\ loop'[g].pc # "regen"
        /\ \A x \in Loops \ {g} : loop'[x] = loop[x]
    BY <2>1 DEF BetweenAttempts, Abort, Return, GoAround, RemoveEntryAndReturn, IdleLoop, LoopStates
  <2>3. QED
    BY <2>1, <2>2 DEF CacheInv, LoopLink
<1>3. QED
  BY <1>1, <1>2, CacheUntouched DEF BetweenAttempts

\* A reader that finds the cache stale.
LEMMA TriggerKeepsCacheInv ==
  ASSUME CacheInv, NEW ps \in SUBSET Portfolios, NEW d \in Dates, Trigger(ps, d), UNCHANGED cacheVars
  PROVE  CacheInv'
<1>1. LoopInv'
  BY TriggerKeepsInv DEF CacheInv
<1>2. LoopLink'
  <2>1. \A g \in Loops : loop'[g] = loop[g] \/ (~Running(g) /\ loop'[g].pc = "head")
    BY DEF Trigger, NewLoop
  <2>2. work' = work
    BY DEF cacheVars
  <2>3. QED
    BY <2>1, <2>2 DEF CacheInv, LoopLink, Running
<1>3. QED
  BY <1>1, <1>2, CacheUntouched

\* The clock and the calendar.
LEMMA TimeKeepsInv ==
  ASSUME CacheInv, Tick \/ NextDay
  PROVE  CacheInv'
<1> USE RegenLoopAssumption, MaterializedCacheAssumption
<1>1. /\ UNCHANGED <<source, writes, rows, calculatedAt, work, regenWriteMu, unrepaired>>
      /\ UNCHANGED loopVars
  BY DEF Tick, NextDay
<1>2. now' \in 0..MaxNow /\ today' \in Dates /\ today \in Dates /\ today <= today'
  BY DEF Tick, NextDay, CacheInv, CacheTypeOK, Dates
<1>3. LoopInv' /\ LoopTypeOK' /\ LoopLink'
  <2>1. LoopInv'
    BY <1>1, LoopInvKept DEF CacheInv
  <2>2. QED
    BY <1>1, <2>1 DEF LoopInv, CacheInv, LoopLink, loopVars
<1>4. CacheTypeOK'
  BY <1>1, <1>2, <1>3 DEF CacheInv, CacheTypeOK
<1>5. CallFacts' /\ WriteFacts'
  BY <1>1 DEF CacheInv, CallFacts, SnapFacts, WriteFacts
<1>6. RowFacts'
  <2>1. \A w \in Workers : work[w].end \in Dates
    BY DEF CacheInv, CacheTypeOK, Calls
  <2>2. \A d \in Dates : d <= today => d <= today'
    BY <1>2 DEF Dates
  <2>3. QED
    BY <1>1, <2>1, <2>2 DEF CacheInv, RowFacts
<1>7. StaleSnapshotHasRepair' /\ WrongRowHasRepair'
  BY <1>1, RepairsUntouched
<1>8. QED
  BY <1>3, <1>4, <1>5, <1>6, <1>7 DEF CacheInv

\* The end of the process.  The hooks that were alive leave their repairs as debts.
LEMMA RestartKeepsInv ==
  ASSUME CacheInv, Restart
  PROVE  CacheInv'
<1> USE RegenLoopAssumption, MaterializedCacheAssumption
<1>1. /\ work' = [w \in Workers |-> NoCall] /\ regenWriteMu' = NoWorker
      /\ unrepaired' = [p \in Portfolios |-> unrepaired[p] \cup Pending(p)]
      /\ UNCHANGED <<source, writes, rows, calculatedAt, today, now>>
      /\ unrepaired \in [Portfolios -> SUBSET Dates]
      /\ work \in [Workers -> Calls]
  BY DEF Restart, CacheInv, CacheTypeOK
<1>2. LoopInv' /\ LoopTypeOK'
  <2>1. LoopInit'
    BY DEF Restart, LoopInit
  <2>2. LoopInv'
    BY <2>1, LoopInvInit, PTL
  <2>3. QED
    BY <2>2 DEF LoopInv
<1>3. \A w \in Workers : work'[w] = NoCall
  BY <1>1
<1>4. LoopLink'
  BY <1>3, NoCallIs DEF LoopLink, Workers, Restart, IdleLoop
<1>5. \A p \in Portfolios : Pending(p) \in SUBSET Dates
  BY DEF Pending
<1>6. \A p \in Portfolios, e \in Dates : \A h \in Hooks : Repairs(h, p, e) => e \in Pending(p)
  BY DEF Pending, Repairs
<1>7. CacheTypeOK'
  <2>1. work' \in [Workers -> Calls]
    BY <1>1, NoCallIs
  <2>2. unrepaired' \in [Portfolios -> SUBSET Dates]
    BY <1>1, <1>5
  <2>3. QED
    BY <1>1, <1>2, <2>1, <2>2 DEF CacheInv, CacheTypeOK
<1>8. CallFacts'
  BY <1>1, <1>3, NoCallIs, WorkersAre DEF CallFacts, SnapFacts
<1>9. RowFacts' /\ WriteFacts' /\ StaleSnapshotHasRepair'
  BY <1>1, <1>3, NoCallIs DEF CacheInv, RowFacts, WriteFacts, StaleSnapshotHasRepair
<1>10. WrongRowHasRepair'
  <2> SUFFICES ASSUME NEW p \in Portfolios, NEW e \in Dates, Wrong(p, e)'
               PROVE  e \in unrepaired'[p]
    BY DEF WrongRowHasRepair
  <2>1. Wrong(p, e)
    BY <1>1, TablesSame DEF Wrong
  <2>2. e \in unrepaired[p] \/ e \in Pending(p)
    BY <1>6, <2>1 DEF CacheInv, WrongRowHasRepair
  <2>3. QED
    BY <1>1, <2>2
<1>11. QED
  BY <1>2, <1>4, <1>7, <1>8, <1>9, <1>10 DEF CacheInv

------------------------------------------------------------------------------
(* The theorems                                                            *)

\* The invariant is inductive.
LEMMA CacheInvStep == CacheInv /\ [CacheNext]_vars => CacheInv'
<1> SUFFICES ASSUME CacheInv, [CacheNext]_vars PROVE CacheInv'
  OBVIOUS
<1>1. CASE UNCHANGED vars
  <2>1. UNCHANGED cacheVars /\ UNCHANGED loopVars
    BY <1>1 DEF vars
  <2>2. LoopLink'
    BY <2>1 DEF CacheInv, LoopLink, cacheVars, loopVars
  <2>3. QED
    BY <2>1, <2>2, CacheUntouched, LoopInvKept DEF CacheInv
<1>2. CASE CommitAWrite
  BY <1>2, WritesKeepInv
<1>3. ASSUME NEW w \in Workers, Lock(w) \/ \E p \in Portfolios : Load(w, p)
      PROVE  CacheInv'
  BY <1>3, LockKeepsInv, LoadKeepsInv
<1>4. ASSUME NEW h \in Hooks, HookEnds(h)
      PROVE  CacheInv'
  BY <1>4, HookEndsKeepsInv
<1>5. ASSUME NEW g \in Loops, StartAttempt(g) \/ EndAttempt(g) \/ BetweenAttempts(g)
      PROVE  CacheInv'
  BY <1>5, StartAttemptKeepsInv, EndAttemptKeepsInv, BetweenAttemptsKeepsInv
<1>6. ASSUME NEW ps \in (SUBSET Portfolios) \ {{}}, NEW d \in Dates, NEW end \in Dates,
             ReadHistory(ps, d, end)
      PROVE  CacheInv'
  BY <1>6, TriggerKeepsCacheInv DEF ReadHistory
<1>7. ASSUME NEW ps \in (SUBSET Portfolios) \ {{}}, ReadSummary(ps)
      PROVE  CacheInv'
  <2> DEFINE D     == {GetOldestTransaction(p) : p \in ps}
             first == Earliest(D)
  <2>1. first <= today /\ Trigger(ps, first) /\ UNCHANGED cacheVars
    BY <1>7 DEF ReadSummary
  <2>2. D \in SUBSET Nat /\ D # {} /\ today \in Dates
    <3>0. source \in SUBSET Facts
      BY DEF CacheInv, CacheTypeOK
    <3>1. ASSUME NEW p \in ps PROVE GetOldestTransaction(p) \in Dates \cup {NoDate}
      <4>1. p \in Portfolios /\ GetOldestTransaction(p) = OldestIn(source, p)
        BY OldestNow
      <4>2. OldestIn(source, p) \in Dates \cup {NoDate}
        BY <3>0, <4>1, OldestIs
      <4>3. QED
        BY <4>1, <4>2
    <3>2. today \in Dates
      BY DEF CacheInv, CacheTypeOK
    <3>3. QED
      BY <3>1, <3>2, RegenLoopAssumption DEF Dates, NoDate
  <2> HIDE DEF D
  <2>3. first \in Nat
    BY <2>2, EarliestIsLeast
  <2> HIDE DEF first
  <2>4. first \in Dates
    BY <2>1, <2>2, <2>3, RegenLoopAssumption DEF Dates
  <2>5. QED
    BY <2>1, <2>4, TriggerKeepsCacheInv
<1>8. CASE Tick \/ NextDay
  BY <1>8, TimeKeepsInv
<1>9. CASE Restart
  BY <1>9, RestartKeepsInv
<1>10. QED
  BY <1>1, <1>2, <1>3, <1>4, <1>5, <1>6, <1>7, <1>8, <1>9 DEF CacheNext

\* Everything that keeps the cache repairable holds together in every reachable state.
THEOREM CacheInvariance == CacheSpec => []CacheInv
  BY CacheInvInit, CacheInvStep, PTL DEF CacheSpec

\* Every variable of the cache keeps its type.
THEOREM CacheTypeCorrect == CacheSpec => []CacheTypeOK
<1>1. CacheInv => CacheTypeOK
  BY DEF CacheInv
<1>2. QED
  BY <1>1, CacheInvariance, PTL

\* For any number of portfolios, hooks, loops, writes and days: a row that disagrees with the
\* tables has a hook on its way that will repair it, or its day is owed one: the repair failed
\* or was lost in a restart, the write found no portfolios to regenerate or regenerates others
\* than it changed (a dividend that moved, a trade taken back after a user moved a transaction
\* of it), or the day was last computed on itself, without its dividends.
THEOREM WrongRowsHaveRepair == CacheSpec => []WrongRowHasRepair
<1>1. CacheInv => WrongRowHasRepair
  BY DEF CacheInv
<1>2. QED
  BY <1>1, CacheInvariance, PTL

\* Sharing regenWriteMu with hooks, and restarts, do not break the loop protocol: still one
\* goroutine per portfolio, and an entry exactly while it runs.
THEOREM LoopsKeepTheirProtocol == CacheSpec => [](OneLoopPerPortfolio /\ EntryMeansLoop)
<1>1. CacheInv => OneLoopPerPortfolio /\ EntryMeansLoop
  BY DEF CacheInv, LoopInv
<1>2. QED
  BY <1>1, CacheInvariance, PTL

------------------------------------------------------------------------------
(* Reading settles.  What a loop installs reaches up to the day it read as *)
(* endDate, and is calculated no earlier than anything in the tables was   *)
(* created, so that checkStaleData accepts it.                             *)

\* Nothing was created later than now.
CreatedByNow == \A f \in source : f.created <= now

\* MAX of a set of numbers no greater than m is one of them and no less than any.
LEMMA LatestIsLast ==
  ASSUME NEW m \in Nat, NEW D \in SUBSET (0..m), D # {}
  PROVE  Latest(D) \in D /\ \A e \in D : e <= Latest(D)
<1> DEFINE E == {m - d : d \in D}
<1>0. \A d \in D : d \in Int /\ m - d \in Nat
  OBVIOUS
<1>1. E \in SUBSET Nat /\ E # {}
  BY <1>0
<1>2. Earliest(E) \in E /\ \A e \in E : Earliest(E) <= e
  BY <1>1, EarliestIsLeast
<1>3. PICK d \in D : Earliest(E) = m - d
  BY <1>2
<1>4. \A e \in D : m - d <= m - e
  BY <1>2, <1>3
<1>5. \A e \in D : e <= d
  BY <1>0, <1>4
<1>6. QED
  BY <1>5 DEF Latest

\* A write inserts facts created now, or when the fact they replace was; it starts no loop.
LEMMA CommitIsInTime ==
  ASSUME CommitAWrite
  PROVE  /\ UNCHANGED <<loop, now>>
         /\ \A f \in source' : f \in source \/ f.created = now \/ \E g \in source : f.created = g.created
<1> DEFINE InTime == \A f \in source' :
                       f \in source \/ f.created = now \/ \E g \in source : f.created = g.created
<1>1. ASSUME NEW deleted, NEW inserted, Commit(deleted, inserted),
             \A f \in inserted : f.created = now \/ \E g \in source : f.created = g.created
      PROVE  UNCHANGED <<loop, now>> /\ InTime
  BY <1>1 DEF Commit, loopVars
<1>2. /\ \A ps, kinds, ds, c : \A f \in Rows(ps, kinds, ds, c) : f.created = c
      /\ \A trade, ps, d : \A f \in AllocatedRows(trade, ps, d) : f.created = now
      /\ \A g, q, kinds, d : \A f \in UpdatedRows(g, q, kinds, d) : f.created = g.created
  <2>1. \A ps, kinds, ds, c : \A f \in Rows(ps, kinds, ds, c) : f.created = c
    BY DEF Rows
  <2>2. \A trade, ps, d : \A f \in AllocatedRows(trade, ps, d) : f.created = now
    BY DEF AllocatedRows, Rows
  <2>3. \A g, q, kinds, d : \A f \in UpdatedRows(g, q, kinds, d) : f.created = g.created
    BY DEF UpdatedRows, Rows
  <2>4. QED
    BY <2>1, <2>2, <2>3
<1> HIDE DEF InTime
<1>3. ASSUME NEW ps \in SUBSET Portfolios, NEW ds \in SUBSET Dates, UpdateFundPrices(ps, ds)
      PROVE  UNCHANGED <<loop, now>> /\ InTime
  BY <1>1, <1>2, <1>3 DEF UpdateFundPrices
<1>4. ASSUME NEW d \in Dates, NEW p \in Portfolios, NEW kinds \in TransactionForms,
             CreateTransaction(p, kinds, d)
      PROVE  UNCHANGED <<loop, now>> /\ InTime
  BY <1>1, <1>2, <1>4 DEF CreateTransaction
<1>5. ASSUME NEW d \in Dates, NEW p \in Portfolios, CreateDividend(p, d)
      PROVE  UNCHANGED <<loop, now>> /\ InTime
  BY <1>1, <1>2, <1>5 DEF CreateDividend
<1>6. ASSUME NEW f \in source, NEW d \in Dates, NEW q \in Portfolios,
             NEW kinds \in TransactionForms, UpdateTransaction(f, q, kinds, d)
      PROVE  UNCHANGED <<loop, now>> /\ InTime
  BY <1>1, <1>2, <1>6 DEF UpdateTransaction
<1>7. ASSUME NEW f \in source, NEW d \in Dates, NEW q \in Portfolios, UpdateDividend(f, q, d)
      PROVE  UNCHANGED <<loop, now>> /\ InTime
  BY <1>1, <1>2, <1>7 DEF UpdateDividend
<1>8. ASSUME NEW D, Commit(D, {})
      PROVE  UNCHANGED <<loop, now>> /\ InTime
  BY <1>1, <1>8
<1>9. ASSUME NEW f \in source, DeleteOne(f)
      PROVE  UNCHANGED <<loop, now>> /\ InTime
  BY <1>8, <1>9 DEF DeleteOne
<1>10. ASSUME NEW a, UnallocateIbkrTransaction(a)
       PROVE  UNCHANGED <<loop, now>> /\ InTime
  BY <1>8, <1>10 DEF UnallocateIbkrTransaction
<1>11. ASSUME NEW d \in Dates, NEW ps \in SUBSET Portfolios, AllocateIbkrTransaction(ps, d)
       PROVE  UNCHANGED <<loop, now>> /\ InTime
  BY <1>1, <1>2, <1>11 DEF AllocateIbkrTransaction
<1>12. ASSUME NEW a, NEW ps \in SUBSET Portfolios, ModifyAllocations(a, ps)
       PROVE  UNCHANGED <<loop, now>> /\ InTime
  BY <1>1, <1>2, <1>12 DEF ModifyAllocations
<1>13. UNCHANGED <<loop, now>> /\ InTime
  BY <1>3, <1>4, <1>5, <1>6, <1>7, <1>9, <1>10, <1>11, <1>12 DEF CommitAWrite
<1>14. QED
  BY <1>13 DEF InTime

\* No step but a write inserts facts, and the clock does not go back.
LEMMA OtherStepsInTime ==
  ASSUME [CacheNext]_vars, ~CommitAWrite, now \in Nat
  PROVE  source' = source /\ now' \in Nat /\ now <= now'
<1>1. ASSUME NEW w \in Workers, Lock(w) \/ \E p \in Portfolios : Load(w, p)
      PROVE  source' = source /\ now' = now
  BY <1>1 DEF Lock, Load
<1>2. ASSUME NEW h \in Hooks, HookEnds(h)
      PROVE  source' = source /\ now' = now
  BY <1>2 DEF HookEnds, Install, Fail
<1>3. ASSUME NEW g \in Loops, StartAttempt(g) \/ EndAttempt(g) \/ BetweenAttempts(g)
      PROVE  source' = source /\ now' = now
  BY <1>3 DEF StartAttempt, EndAttempt, Install, Fail, BetweenAttempts, cacheVars
<1>4. ASSUME NEW ps \in SUBSET Portfolios,
             ReadSummary(ps) \/ \E d, end \in Dates : ReadHistory(ps, d, end)
      PROVE  source' = source /\ now' = now
  BY <1>4 DEF ReadSummary, ReadHistory, cacheVars
<1>5. CASE Tick
  BY <1>5 DEF Tick
<1>6. CASE NextDay \/ Restart
  BY <1>6 DEF NextDay, Restart
<1>7. ASSUME UNCHANGED vars
      PROVE  source' = source /\ now' = now
  BY <1>7 DEF vars, cacheVars
<1>8. (source' = source /\ now' = now) \/ Tick \/ NextDay \/ Restart
  BY <1>1, <1>2, <1>3, <1>4, <1>7, Zenon DEF CacheNext
<1>9. now' = now => now' \in Nat /\ now <= now'
  OBVIOUS
<1>10. QED
  BY <1>5, <1>6, <1>8, <1>9, Zenon

\* At first the tables hold nothing of the future.
LEMMA CreatedByNowInit == CacheInit => CreatedByNow
BY DEF CacheInit, CreatedByNow

\* A commit is stamped with the clock, and the clock does not go back.
LEMMA CreatedByNowStep == CacheInv /\ CreatedByNow /\ [CacheNext]_vars => CreatedByNow'
<1> SUFFICES ASSUME CacheInv, CreatedByNow, [CacheNext]_vars
             PROVE  \A f \in source' : f.created <= now'
  BY DEF CreatedByNow
<1>1. now \in Nat /\ \A f \in source : f.created \in Nat /\ f.created <= now
  BY MaterializedCacheAssumption DEF CacheInv, CacheTypeOK, Facts, CreatedByNow
<1>2. CASE CommitAWrite
  BY <1>1, <1>2, CommitIsInTime
<1>3. CASE ~CommitAWrite
  BY <1>1, <1>3, OtherStepsInTime
<1>4. QED
  BY <1>2, <1>3

\* A step after which the attempt of loop g has succeeded is the installation of its call.
LEMMA SuccessIsInstall ==
  ASSUME CacheInv, [CacheNext]_vars, NEW g \in Loops,
         loop[g].pc = "regen", loop'[g].pc = "check", loop'[g].failures = 0
  PROVE  Install(g)
<1>1. loop \in [Loops -> LoopStates]
  BY DEF CacheInv, CacheTypeOK, LoopTypeOK
<1>2. loop[g].failures \in Nat
  BY <1>1, RegenLoopAssumption DEF LoopStates
<1>3. loop' # loop
  OBVIOUS
<1>4. CASE CommitAWrite
  BY <1>3, <1>4, CommitIsInTime, Zenon
<1>5. ASSUME NEW w \in Workers, Lock(w) \/ \E p \in Portfolios : Load(w, p)
      PROVE  FALSE
  BY <1>3, <1>5 DEF Lock, Load, loopVars
<1>6. ASSUME NEW h \in Hooks, HookEnds(h)
      PROVE  FALSE
  BY <1>3, <1>6 DEF HookEnds, loopVars
<1>7. ASSUME NEW h \in Loops, StartAttempt(h) \/ EndAttempt(h) \/ BetweenAttempts(h)
      PROVE  Install(g)
  <2>1. CASE StartAttempt(h)
    BY <1>1, <2>1 DEF StartAttempt, ReadEntry, IdleLoop
  <2>2. CASE BetweenAttempts(h)
    BY <1>1, <2>2 DEF BetweenAttempts, Abort, Return, GoAround, RemoveEntryAndReturn, IdleLoop
  <2>3. CASE Fail(h) /\ AttemptFails(h)
    <3>1. h = g
      BY <1>1, <2>3 DEF AttemptFails
    <3>2. loop'[g].failures = loop[g].failures + 1
      BY <1>1, <2>3, <3>1 DEF AttemptFails, LoopStates
    <3>3. QED
      BY <1>2, <3>2
  <2>4. CASE Install(h) /\ AttemptSucceeds(h)
    <3>1. h = g
      BY <1>1, <2>4 DEF AttemptSucceeds
    <3>2. QED
      BY <2>4, <3>1
  <2>5. QED
    BY <1>7, <2>1, <2>2, <2>3, <2>4 DEF EndAttempt
<1>8. ASSUME NEW ps \in SUBSET Portfolios, NEW d, Trigger(ps, d)
      PROVE  FALSE
  BY <1>1, <1>8 DEF Trigger, NewLoop
<1>9. ASSUME NEW ps \in SUBSET Portfolios,
             ReadSummary(ps) \/ \E d, end \in Dates : ReadHistory(ps, d, end)
      PROVE  FALSE
  BY <1>8, <1>9 DEF ReadSummary, ReadHistory
<1>10. CASE Tick \/ NextDay
  BY <1>3, <1>10 DEF Tick, NextDay, loopVars
<1>11. CASE Restart
  BY <1>11 DEF Restart, IdleLoop
<1>12. CASE UNCHANGED vars
  BY <1>3, <1>12 DEF vars, loopVars
<1>13. QED
  BY <1>4, <1>5, <1>6, <1>7, <1>9, <1>10, <1>11, <1>12 DEF CacheNext

\* A call that replaces the rows of a portfolio leaves a row of the day it read as endDate,
\* because whatever an earlier row counts, that row counts too.
LEMMA InstalledUpToItsEnd ==
  ASSUME CacheInv, NEW g \in Loops, work[g].pc = "load", Install(g), NEW p \in Portfolios,
         Replaces(work[g], p)
  PROVE  work[g].end \in Cached(p)'
<1> DEFINE c == work[g]
<1>1. c \in Calls /\ c.start \in Dates /\ c.end \in Dates /\ c.oldest[p] \in Dates \cup {NoDate}
      /\ c.snap[p] \in SUBSET Facts
  BY DEF CacheInv, CacheTypeOK, Calls, Workers
<1>2. PICK e \in Dates : NewRow(c, p, e) # NoRow
  BY DEF Replaces
<1>3. FirstDay(c, p) <= e /\ e <= c.end /\ Entry(c.snap[p], e) # NoRow
  BY <1>2 DEF NewRow
<1>4. FirstDay(c, p) \in Int /\ c.start <= FirstDay(c, p)
  BY <1>1, RegenLoopAssumption DEF FirstDay, Dates, NoDate
<1>5. PICK f \in c.snap[p] : f.date <= e /\ f.kind # "price"
  BY <1>3 DEF Entry
<1>6. f.date <= c.end
  BY <1>1, <1>3, <1>5, RegenLoopAssumption DEF Facts, Dates
<1>7. Entry(c.snap[p], c.end) # NoRow
  BY <1>5, <1>6 DEF Entry, NoRow
<1>8. c.start <= c.end /\ FirstDay(c, p) <= c.end
  BY <1>1, <1>3, <1>4, RegenLoopAssumption DEF Dates
<1>9. NewRow(c, p, c.end) # NoRow
  <2>1. FirstDay(c, p) <= c.end /\ c.end <= c.end
    BY <1>1, <1>8, RegenLoopAssumption DEF Dates
  <2>2. NewRow(c, p, c.end) = Entry(c.snap[p], c.end)
    BY <2>1 DEF NewRow
  <2>3. QED
    BY <1>7, <2>2
<1>10. rows'[p][c.end] = NewRow(c, p, c.end)
  BY <1>1, <1>8 DEF Install
<1>11. QED
  BY <1>1, <1>9, <1>10 DEF Cached

\* So checkStaleData finds nothing wrong when no price is of a later day.
LEMMA InstalledIsFresh ==
  ASSUME CacheInv, CreatedByNow, NEW g \in Loops, work[g].pc = "load", Install(g),
         NEW p \in Portfolios, Replaces(work[g], p),
         NEW end \in Dates, work[g].end = end,
         \A f \in OfPortfolio(p) : f.kind = "price" => f.date <= end
  PROVE  ~Stale({p}, end)'
<1>1. end \in Dates /\ LastDate \in Nat /\ Dates = 0..LastDate
  BY RegenLoopAssumption DEF CacheInv, CacheTypeOK, Calls, Workers, Dates
<1>2. end \in Cached(p)' /\ Cached(p)' \in SUBSET (0..LastDate)
  BY <1>1, InstalledUpToItsEnd DEF Cached
<1>3. now \in 0..MaxNow /\ MaxNow \in Nat /\ now' = now /\ source' = source /\ source \in SUBSET Facts
  BY MaterializedCacheAssumption DEF CacheInv, CacheTypeOK, Install
<1>4. Materialized({p})' = {p}
  BY <1>2 DEF Materialized
<1>5. CoverageEnd({p})' \in Nat /\ end <= CoverageEnd({p})'
  <2>1. Latest(Cached(p)') \in Cached(p)' /\ end <= Latest(Cached(p)')
    BY <1>1, <1>2, LatestIsLast
  <2>2. {Latest(Cached(q)') : q \in {p}} = {Latest(Cached(p)')}
    OBVIOUS
  <2>3. CoverageEnd({p})' = Earliest({Latest(Cached(p)')})
    BY <1>4, <2>2 DEF CoverageEnd
  <2>4. Earliest({Latest(Cached(p)')}) = Latest(Cached(p)')
    BY <1>2, <2>1, EarliestIsLeast
  <2>5. QED
    BY <1>2, <2>1, <2>3, <2>4
<1>6. LatestCalculated({p})' = now
  <2>1. calculatedAt'[p] = now
    BY DEF Install
  <2>2. {calculatedAt'[q] : q \in {p}} = {now}
    BY <2>1
  <2>3. LatestCalculated({p})' = Latest({now})
    BY <1>4, <2>2 DEF LatestCalculated
  <2>4. Latest({now}) = now
    BY <1>3, LatestIsLast
  <2>5. QED
    BY <2>3, <2>4
<1>7. LatestCreated({p})' \in Nat /\ LatestCreated({p})' <= now
  <2> DEFINE D == {0} \cup {f.created : f \in {h \in source' : /\ h.portfolio \in {p}
                                                   /\ h.kind \in {"transaction", "dividend"}}}
  <2>1. LatestCreated({p})' = Latest(D)
    BY DEF LatestCreated
  <2>2. \A f \in source : f.created \in Nat /\ f.created <= now
    BY <1>3 DEF Facts, CreatedByNow
  <2>3. D \in SUBSET (0..now) /\ D # {}
    BY <1>3, <2>2
  <2> HIDE DEF D
  <2>4. now \in Nat
    BY <1>3
  <2>5. Latest(D) \in D
    BY <2>3, <2>4, LatestIsLast, Zenon
  <2>6. Latest(D) \in 0..now
    BY <2>3, <2>5
  <2>7. QED
    BY <1>3, <2>1, <2>6
<1>8. LatestPrice({p})' \in Nat /\ LatestPrice({p})' <= end
  <2> DEFINE D == {0} \cup {f.date : f \in {h \in source' : h.portfolio \in {p} /\ h.kind = "price"}}
  <2>1. LatestPrice({p})' = Latest(D)
    BY DEF LatestPrice
  <2>2. \A f \in source : f.date \in Nat /\ (f.portfolio = p /\ f.kind = "price" => f.date <= end)
    BY <1>1, <1>3 DEF Facts, OfPortfolio
  <2>3. D \in SUBSET (0..end) /\ D # {}
    BY <1>1, <1>3, <2>2
  <2> HIDE DEF D
  <2>4. end \in Nat
    BY <1>1
  <2>5. Latest(D) \in D
    BY <2>3, <2>4, LatestIsLast, Zenon
  <2>6. Latest(D) \in 0..end
    BY <2>3, <2>5
  <2>7. QED
    BY <1>1, <2>1, <2>6
<1>9. Materialized({p})' # {}
  BY <1>4
<1>10. ~(CoverageEnd({p})' < end)
  BY <1>1, <1>5
<1>11. ~(LatestCreated({p})' > LatestCalculated({p})')
  BY <1>3, <1>6, <1>7
<1>12. ~(LatestPrice({p})' > CoverageEnd({p})')
  BY <1>1, <1>5, <1>8
<1>13. QED
  BY <1>9, <1>10, <1>11, <1>12, Zenon DEF Stale

\* For any portfolios, loops and hooks, and any bounds: when the regeneration a reader caused
\* has succeeded and replaced the rows of a portfolio, the next reader up to the same day is
\* served from them, unless a price of a later day is in the table.
THEOREM RefreshesSettle == CacheSpec => RefreshEndsStaleness
<1> DEFINE Settles ==
      \A g \in Loops, p \in Portfolios, end \in Dates :
        (/\ work[g].pc = "load" /\ work[g].end = end
         /\ loop[g].pc = "regen" /\ loop'[g].pc = "check"
         /\ loop'[g].failures = 0 /\ Replaces(work[g], p)
         /\ \A f \in OfPortfolio(p) : f.kind = "price" => f.date <= end)
          => ~Stale({p}, end)'
<1>1. CacheInv /\ CreatedByNow /\ [CacheNext]_vars => Settles
  BY SuccessIsInstall, InstalledIsFresh
<1>2. CacheInv /\ CreatedByNow /\ [CacheNext]_vars => [Settles]_vars
  BY <1>1
<1>3. QED
  BY <1>2, CreatedByNowInit, CreatedByNowStep, CacheInvariance, PTL DEF CacheSpec, RefreshEndsStaleness

=============================================================================
