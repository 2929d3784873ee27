-------------------------- MODULE MaterializedCache --------------------------
(***************************************************************************)
(* The materialized fund history: the source tables it is computed from,   *)
(* the cached rows, the goroutines that recompute them and the readers     *)
(* that decide whether they may be served.                                 *)
(*                                                                         *)
(* Two paths repair the cache.  A service that has committed a write       *)
(* starts a hook goroutine that calls RegenerateMaterializedTable once,    *)
(* and only logs its failure.  A reader that finds the cache stale asks    *)
(* for a loop goroutine (module RegenLoop), whose attempt is the same      *)
(* call.  regenWriteMu serializes the calls; the services write without    *)
(* it, so a write can fall between any two of a call's queries.            *)
(*                                                                         *)
(* A fact is a row of a source table: a buy is a "transaction", a sell a   *)
(* "transaction" and the "realized" gain inserted with it.  The value of a *)
(* cached row is the set of facts it counts: two values computed from the  *)
(* same facts are equal, and nothing else about the arithmetic matters to  *)
(* what follows.  A portfolio stands for one portfolio_fund of it.         *)
(*                                                                         *)
(* A transaction that an IBKR trade was allocated to is named by an        *)
(* allocation row, which keeps the portfolio and the day of the allocation *)
(* when the transaction is moved to others.                                *)
(***************************************************************************)
EXTENDS RegenLoop, Sequences

CONSTANTS
  Hooks,            \* identities of hook goroutines
  NoWorker,         \* regenWriteMu is free
  NoAllocation,     \* the allocation row of what a user entered
  MaxWrites,        \* bound: write requests committed
  MaxNow            \* bound: clock ticks

ASSUME MaterializedCacheAssumption ==
  /\ Hooks \cap Loops = {}
  /\ NoWorker \notin Hooks \cup Loops
  /\ MaxWrites \in Nat /\ MaxNow \in Nat
  /\ NoAllocation \notin [trade : 1..MaxWrites, portfolio : Portfolios, date : Dates]

VARIABLES
  source,           \* the facts in the transaction, dividend, fund_price and
                    \* realized_gain_loss tables
  writes,           \* the number of write requests committed
  rows,             \* portfolio -> day -> what the row counts, NoRow when there is none
  calculatedAt,     \* portfolio -> MAX(calculated_at) of its rows
  work,             \* goroutine -> its call of RegenerateMaterializedTable
  regenWriteMu,     \* the goroutine that holds regenWriteMu
  today,            \* the calendar day
  now,              \* the clock, in seconds, that created_at and calculated_at store
  unrepaired        \* history: portfolio -> the days a repair is owed to that no goroutine
                    \* is going to do

cacheVars == <<source, writes, rows, calculatedAt, work, regenWriteMu, today, now, unrepaired>>
vars      == <<cacheVars, loopVars>>

Workers == Hooks \cup Loops
Kinds   == {"transaction", "dividend", "price", "realized"}
Writes  == 1..MaxWrites
NoRow   == {}

\* trade: the write that first allocated it.  date: TransactionDate of the inbox row.
Allocations == [trade : Writes, portfolio : Portfolios, date : Dates]

Facts == [write : Writes, portfolio : Portfolios, kind : Kinds, date : Dates, created : 0..MaxNow,
          allocation : Allocations \cup {NoAllocation}]

\* The queries of LoadForPortfolios, in their order.
Queries == <<"oldest", "transaction", "dividend", "price", "realized">>

\* loaded: how many of the queries have been made for a portfolio.  oldest, snap: what
\* they returned.  end: endDate.
Calls == [pc      : {"idle", "lock", "load"},
          targets : SUBSET Portfolios,
          start   : Dates,
          end     : Dates,
          loaded  : [Portfolios -> 0..Len(Queries)],
          oldest  : [Portfolios -> Dates \cup {NoDate}],
          snap    : [Portfolios -> SUBSET Facts]]

Call(pc, targets, start) ==
  [pc |-> pc, targets |-> targets, start |-> start, end |-> 0,
   loaded |-> [p \in Portfolios |-> 0],
   oldest |-> [p \in Portfolios |-> NoDate],
   snap   |-> [p \in Portfolios |-> {}]]

NoCall == Call("idle", {}, 0)

CacheInit ==
  /\ LoopInit
  /\ source = {} /\ writes = 0
  /\ rows = [p \in Portfolios |-> [e \in Dates |-> NoRow]]
  /\ calculatedAt = [p \in Portfolios |-> 0]
  /\ work = [w \in Workers |-> NoCall]
  /\ regenWriteMu = NoWorker
  /\ today = 0 /\ now = 0
  /\ unrepaired = [p \in Portfolios |-> {}]

Earlier(d, e) == IF d < e THEN d ELSE e

\* MIN(date), NoDate when there is none.
Earliest(D) == IF D = {} THEN NoDate ELSE CHOOSE d \in D : \A e \in D : d <= e
Latest(D)   == CHOOSE d \in D : \A e \in D : e <= d

------------------------------------------------------------------------------
(* What a row should hold                                                  *)

OfPortfolio(p) == {f \in source : f.portfolio = p}

GetOldestTransaction(p) == Earliest({f.date : f \in {g \in OfPortfolio(p) : g.kind = "transaction"}})

\* The facts dated from the oldest transaction, which reads as the zero time when there is none.
Since(p, oldest) == {f \in OfPortfolio(p) : oldest = NoDate \/ oldest <= f.date}

\* The rows a query on one table returns, to endDate.  Dates are compared as text and an
\* ex-date is stored with a time of day, so the dividends of endDate are left out.
Query(p, kind, oldest, end) ==
  {f \in Since(p, oldest) : /\ f.kind = kind
                            /\ f.date <= end
                            /\ kind = "dividend" => f.date # end}

\* calculateFundsForDate computes an entry from the facts up to its day, and skips it when
\* it has only prices to show: no shares, and no financial activity.
Entry(F, e) ==
  LET upTo == {f \in F : f.date <= e} IN
  IF \A f \in upTo : f.kind = "price"
  THEN NoRow
  ELSE {[write |-> f.write, kind |-> f.kind] : f \in upTo}

\* What the tables say the row of day e should hold: what a regeneration to a later day
\* computes for it.
Computed(p, e) == Entry(Since(p, GetOldestTransaction(p)), e)

\* A row that is there, for a day since the first transaction, and counts other facts than
\* the tables hold.
Wrong(p, e) ==
  /\ rows[p][e] # NoRow
  /\ GetOldestTransaction(p) <= e
  /\ rows[p][e] # Computed(p, e)

------------------------------------------------------------------------------
(* Writes.  Each commits, then starts its hooks: hooks maps a goroutine to *)
(* the portfolios it is to regenerate, all from day start.                 *)

DatedADayLate(ps, kinds, ds, c) ==
  [write : {writes + 1}, portfolio : ps, kind : kinds, date : {d + 1 : d \in ds}, created : {c},
   allocation : {NoAllocation}]

Rows(ps, kinds, ds, c) ==
  [write : {writes + 1}, portfolio : ps, kind : kinds, date : ds, created : {c},
   allocation : {NoAllocation}]

\* The transaction of trade t in each of the portfolios, on the day of the trade.
AllocatedRows(t, ps, d) ==
  {[f EXCEPT !.allocation = [trade |-> t, portfolio |-> f.portfolio, date |-> d]] :
     f \in Rows(ps, {"transaction"}, {d}, now)}

\* A row that is updated keeps created_at and its allocation row.
UpdatedRows(f, q, kinds, d) ==
  {[g EXCEPT !.allocation = f.allocation] : g \in Rows({q}, kinds, {d}, f.created)}

Commit(deleted, inserted) ==
  /\ writes < MaxWrites
  /\ writes' = writes + 1
  /\ source' = (source \ deleted) \cup inserted
  /\ UNCHANGED <<rows, calculatedAt, regenWriteMu, today, now>>
  /\ UNCHANGED loopVars

FreeHooks == {h \in Hooks : work[h].pc = "idle"}

StartsToday(hooks, start) ==
  work' = [w \in Workers |-> IF w \in DOMAIN hooks THEN Call("lock", hooks[w], today) ELSE work[w]]

StartHooks(hooks, start) ==
  work' = [w \in Workers |-> IF w \in DOMAIN hooks THEN Call("lock", hooks[w], start) ELSE work[w]]

\* The days of p whose rows count one of the facts F.
Concerns(F, p) == {e \in Dates : \E f \in F : f.portfolio = p /\ f.date <= e}

NobodyRepairs(days) == unrepaired' = [p \in Portfolios |-> unrepaired[p] \cup days[p]]

\* A transaction is a buy, dividend or fee, or a sell with its realized gain.
TransactionForms == {{"transaction"}, {"transaction", "realized"}}

CreateTransaction(p, kinds, d) ==
  \E h \in FreeHooks :
    /\ Commit({}, Rows({p}, kinds, {d}, now))
    /\ StartHooks([x \in {h} |-> {p}], d)
    /\ UNCHANGED unrepaired

CreateDividend(p, d) ==
  \E h \in FreeHooks :
    /\ Commit({}, Rows({p}, {"dividend"}, {d}, now))
    /\ StartHooks([x \in {h} |-> {p}], d)
    /\ UNCHANGED unrepaired

\* A fund's prices of the days ds are inserted or overwritten; they concern every portfolio
\* that holds it.  The hook starts at the earliest.
UpdateFundPrices(ps, ds) ==
  \E h \in FreeHooks :
    /\ Commit({f \in source : f.kind = "price" /\ f.portfolio \in ps /\ f.date \in ds},
              Rows(ps, {"price"}, ds, now))
    /\ StartHooks([x \in {h} |-> ps], Earliest(ds))
    /\ UNCHANGED unrepaired

\* The facts one write inserted for one portfolio.
ItemOf(f) == {g \in source : g.write = f.write /\ g.portfolio = f.portfolio}

\* A transaction that moves to another portfolio starts two hooks.
UpdateTransaction(f, q, kinds, d) ==
  \E h, old \in FreeHooks :
    /\ f.kind = "transaction"
    /\ h = old <=> q = f.portfolio
    /\ Commit(ItemOf(f), UpdatedRows(f, q, kinds, d))
    /\ StartHooks([x \in {h, old} |-> IF x = h THEN {q} ELSE {f.portfolio}], Earlier(f.date, d))
    /\ UNCHANGED unrepaired

\* created_at becomes now.  Only the portfolio the dividend ends in is regenerated.
UpdateDividend(f, q, d) ==
  \E h \in FreeHooks :
    /\ f.kind = "dividend"
    /\ Commit({f}, Rows({q}, {"dividend"}, {d}, now))
    /\ StartHooks([x \in {h} |-> {q}], Earlier(f.date, d))
    /\ NobodyRepairs([p \in Portfolios |-> IF p = q THEN {} ELSE Concerns({f}, p)])

\* DeleteTransaction and DeleteDividend.  The allocation row goes with the transaction.
DeleteOne(f) ==
  \E h \in FreeHooks :
    /\ f.kind \in {"transaction", "dividend"}
    /\ Commit(ItemOf(f), {})
    /\ StartHooks([x \in {h} |-> {f.portfolio}], f.date)
    /\ UNCHANGED unrepaired

\* The facts of the trade of an allocation, and the portfolios its rows name.
OfTrade(a)     == {f \in source : f.allocation # NoAllocation /\ f.allocation.trade = a.trade}
AllocatedTo(a) == {f.allocation.portfolio : f \in OfTrade(a)}

\* The days of p that count a transaction of the trade which a user has moved there, out of
\* the portfolios of the allocation or before its day.
Strayed(a, p) == {e \in Concerns(OfTrade(a), p) : p \notin AllocatedTo(a) \/ e < a.date}

\* One hook for the portfolios found in the allocation rows, from the day of the trade, and
\* none when none was found.
HookForTrade(found, d) ==
  \/ found = {} /\ UNCHANGED work
  \/ found # {} /\ \E h \in FreeHooks : StartHooks([x \in {h} |-> found], d)

\* The query for the portfolios may fail, which is only logged.
Overlooks(found, F, p) == IF found = {} THEN Concerns(F, p) ELSE {}

AllocateIbkrTransaction(ps, d) ==
  LET made == AllocatedRows(writes + 1, ps, d) IN
  \E found \in {ps, {}} :
    /\ Commit({}, made)
    /\ HookForTrade(found, d)
    /\ NobodyRepairs([p \in Portfolios |-> Overlooks(found, made, p)])

UnallocateIbkrTransaction(a) ==
  \E found \in {AllocatedTo(a), {}} :
    /\ Commit(OfTrade(a), {})
    /\ HookForTrade(found, a.date)
    /\ NobodyRepairs([p \in Portfolios |-> Strayed(a, p) \cup Overlooks(found, OfTrade(a), p)])

HooksNewPortfolios(a, ps) ==
  LET made == AllocatedRows(a.trade, ps, a.date) IN
  \E old \in {AllocatedTo(a), {}}, new \in {ps, {}} :
    /\ Commit(OfTrade(a), made)
    /\ HookForTrade(new, a.date)
    /\ NobodyRepairs([p \in Portfolios |->
         Strayed(a, p) \cup Overlooks(old, OfTrade(a), p) \cup Overlooks(new, made, p)])

\* Other portfolios get the transactions of the trade, on its day.
ModifyAllocations(a, ps) ==
  LET made == AllocatedRows(a.trade, ps, a.date) IN
  \E old \in {AllocatedTo(a), {}}, new \in {ps, {}} :
    /\ Commit(OfTrade(a), made)
    /\ HookForTrade(old \cup new, a.date)
    /\ NobodyRepairs([p \in Portfolios |->
         Strayed(a, p) \cup Overlooks(old, OfTrade(a), p) \cup Overlooks(new, made, p)])

CommitAWrite ==
  \/ \E ps \in (SUBSET Portfolios) \ {{}}, ds \in (SUBSET Dates) \ {{}} : UpdateFundPrices(ps, ds)
  \/ \E d \in Dates :
       \/ \E p \in Portfolios, kinds \in TransactionForms : CreateTransaction(p, kinds, d)
       \/ \E p \in Portfolios : CreateDividend(p, d)
       \/ \E ps \in (SUBSET Portfolios) \ {{}} : AllocateIbkrTransaction(ps, d)
  \/ \E f \in source, d \in Dates :
       \/ \E q \in Portfolios, kinds \in TransactionForms : UpdateTransaction(f, q, kinds, d)
       \/ \E q \in Portfolios : UpdateDividend(f, q, d)
  \/ \E f \in source : DeleteOne(f)
  \/ \E a \in {f.allocation : f \in source} \ {NoAllocation} :
       \/ UnallocateIbkrTransaction(a)
       \/ \E ps \in (SUBSET Portfolios) \ {{}} : ModifyAllocations(a, ps)

------------------------------------------------------------------------------
(* RegenerateMaterializedTable                                             *)

\* Portfolios are resolved and endDate is read under the lock.
Lock(w) ==
  /\ work[w].pc = "lock" /\ regenWriteMu = NoWorker
  /\ regenWriteMu' = w
  /\ work' = [work EXCEPT ![w].pc = "load", ![w].end = today]
  /\ UNCHANGED <<source, writes, rows, calculatedAt, today, now, unrepaired>>
  /\ UNCHANGED loopVars

\* The next query of LoadForPortfolios, one portfolio after another.
Load(w, p) ==
  LET c     == work[w]
      query == Queries[c.loaded[p] + 1] IN
  /\ c.pc = "load" /\ p \in c.targets /\ c.loaded[p] < Len(Queries)
  /\ \A q \in c.targets \ {p} : c.loaded[q] \in {0, Len(Queries)}
  /\ work' = [work EXCEPT ![w] =
       IF query = "oldest"
       THEN [c EXCEPT !.loaded[p] = 1, !.oldest[p] = GetOldestTransaction(p)]
       ELSE [c EXCEPT !.loaded[p] = @ + 1, !.snap[p] = @ \cup Query(p, query, c.oldest[p], c.end)]]
  /\ UNCHANGED <<source, writes, rows, calculatedAt, regenWriteMu, today, now, unrepaired>>
  /\ UNCHANGED loopVars

\* The day entries are computed from: the start, or the oldest transaction if that is later.
FirstDay(c, p) == IF c.oldest[p] # NoDate /\ c.start < c.oldest[p] THEN c.oldest[p] ELSE c.start

NewRow(c, p, e) == IF FirstDay(c, p) <= e /\ e <= c.end THEN Entry(c.snap[p], e) ELSE NoRow

\* Only the portfolio_funds of computed entries are invalidated.
Replaces(c, p) == p \in c.targets /\ \E e \in Dates : NewRow(c, p, e) # NoRow

\* What w has read so far of p, as far as it concerns day e, is what it would read now.
UpToDate(w, p, e) ==
  LET c == work[w] IN
  /\ c.loaded[p] >= 1 => c.oldest[p] = GetOldestTransaction(p)
  /\ \A i \in 2..c.loaded[p] :
       {f \in c.snap[p] : f.kind = Queries[i] /\ f.date <= e}
         = {f \in Query(p, Queries[i], GetOldestTransaction(p), c.end) : f.date <= e}

\* The day of p that w computes without its dividends, if there are any: the end day.
LeavesOut(w, p) ==
  {e \in Dates : e = work[w].end /\ \E f \in OfPortfolio(p) : f.kind = "dividend" /\ f.date = e}

\* What is owed to p when w has installed its rows.
StillOwed(w, p) ==
  {e \in unrepaired[p] : ~(work[w].start <= e /\ UpToDate(w, p, e))} \cup LeavesOut(w, p)

\* Delete and insert in one database transaction, then unlock.
Install(w) ==
  LET c == work[w] IN
  /\ c.pc = "load" /\ \A p \in c.targets : c.loaded[p] = Len(Queries)
  /\ rows' = [p \in Portfolios |-> [e \in Dates |->
       IF Replaces(c, p) /\ c.start <= e THEN NewRow(c, p, e) ELSE rows[p][e]]]
  /\ calculatedAt' = [p \in Portfolios |-> IF Replaces(c, p) THEN now ELSE calculatedAt[p]]
  /\ unrepaired' = [p \in Portfolios |-> IF Replaces(c, p) THEN StillOwed(w, p) ELSE unrepaired[p]]
  /\ work' = [work EXCEPT ![w] = NoCall]
  /\ regenWriteMu' = NoWorker
  /\ UNCHANGED <<source, writes, today, now>>

FailsLocked(w) ==
  LET c == work[w] IN
  /\ c.pc = "load"
  /\ work' = [work EXCEPT ![w] = NoCall]
  /\ unrepaired' = [p \in Portfolios |->
       IF w \in Hooks /\ p \in c.targets THEN unrepaired[p] \cup c.start..LastDate ELSE unrepaired[p]]
  /\ UNCHANGED <<source, writes, rows, calculatedAt, regenWriteMu, today, now>>

\* A query, the database transaction or the commit fails.  Nothing retries a hook.
Fail(w) ==
  LET c == work[w] IN
  /\ c.pc = "load"
  /\ work' = [work EXCEPT ![w] = NoCall]
  /\ regenWriteMu' = NoWorker
  /\ unrepaired' = [p \in Portfolios |->
       IF w \in Hooks /\ p \in c.targets THEN unrepaired[p] \cup c.start..LastDate ELSE unrepaired[p]]
  /\ UNCHANGED <<source, writes, rows, calculatedAt, today, now>>

HookEnds(h) == (Install(h) \/ Fail(h)) /\ UNCHANGED loopVars

------------------------------------------------------------------------------
(* The loop goroutines of module RegenLoop                                 *)

StartAttempt(g) ==
  /\ ReadEntry(g)
  /\ work' = [work EXCEPT ![g] = Call("lock", {loop[g].portfolio}, regenInFlight[loop[g].portfolio])]
  /\ UNCHANGED <<source, writes, rows, calculatedAt, regenWriteMu, today, now, unrepaired>>

EndAttempt(g) ==
  \/ Install(g) /\ AttemptSucceeds(g)
  \/ Fail(g) /\ AttemptFails(g)

BetweenAttempts(g) ==
  /\ Abort(g) \/ Return(g) \/ GoAround(g)
  /\ UNCHANGED cacheVars

------------------------------------------------------------------------------
(* Readers                                                                 *)

Cached(p)       == {e \in Dates : rows[p][e] # NoRow}
Materialized(ps) == {p \in ps : Cached(p) # {}}

\* GetLatestMaterializedDate: portfolios without rows do not appear in the GROUP BY.
CoverageEnd(ps)      == Earliest({Latest(Cached(p)) : p \in Materialized(ps)})
LatestCalculated(ps) == Latest({calculatedAt[p] : p \in Materialized(ps)})

\* GetLatestSourceDates: the latest of a column over the rows of a kind, 0 for none.
LatestCreated(ps) ==
  Latest({0} \cup {f.created : f \in {g \in source : /\ g.portfolio \in ps
                                                  /\ g.kind \in {"transaction", "dividend"}}})
LatestPrice(ps) ==
  Latest({0} \cup {f.date : f \in {g \in source : g.portfolio \in ps /\ g.kind = "price"}})

StaleInSameSecond(ps, end) ==
  Materialized(ps) # {} =>
    \/ CoverageEnd(ps) < end
    \/ LatestCreated(ps) >= LatestCalculated(ps)
    \/ LatestPrice(ps) > CoverageEnd(ps)

\* checkStaleData(portfolioIDs, endDate).  created_at and calculated_at are compared to the
\* second; a price has only its date.
Stale(ps, end) ==
  Materialized(ps) # {} =>
    \/ CoverageEnd(ps) < end
    \/ LatestCreated(ps) > LatestCalculated(ps)
    \/ LatestPrice(ps) > CoverageEnd(ps)

\* Get...HistoryWithFallback(startDate, endDate): when the cache cannot be served the
\* answer is computed from the tables and the portfolios are regenerated behind it.
ReadHistory(ps, d, end) ==
  /\ \/ Stale(ps, end)
     \/ \A p \in ps : Cached(p) \cap d..end = {}
  /\ Trigger(ps, d)
  /\ UNCHANGED cacheVars

\* GetPortfolioSummaryWithFallback: the computed history starts at the oldest transaction
\* of any of the portfolios.
ReadSummary(ps) ==
  LET first == Earliest({GetOldestTransaction(p) : p \in ps}) IN
  /\ Stale(ps, today)
  /\ first <= today
  /\ Trigger(ps, first)
  /\ UNCHANGED cacheVars

------------------------------------------------------------------------------
(* The environment                                                         *)

Tick ==
  /\ now < MaxNow /\ now' = now + 1
  /\ UNCHANGED <<source, writes, rows, calculatedAt, work, regenWriteMu, today, unrepaired>>
  /\ UNCHANGED loopVars

NextDay ==
  /\ today < LastDate /\ today' = today + 1
  /\ UNCHANGED <<source, writes, rows, calculatedAt, work, regenWriteMu, now, unrepaired>>
  /\ UNCHANGED loopVars

\* The days a hook goroutine that is alive would have repaired for p.
Pending(p) == {e \in Dates : \E h \in Hooks : p \in work[h].targets /\ work[h].start <= e}

\* The process ends: main waits for requests and cron jobs, not for these goroutines.
Restart ==
  /\ \E w \in Workers : work[w].pc # "idle"
  /\ work' = [w \in Workers |-> NoCall]
  /\ regenWriteMu' = NoWorker
  /\ unrepaired' = [p \in Portfolios |-> unrepaired[p] \cup Pending(p)]
  /\ regenInFlight' = [p \in Portfolios |-> NoDate]
  /\ asked' = [p \in Portfolios |-> {}]
  /\ loop' = [g \in Loops |-> IdleLoop]
  /\ UNCHANGED <<source, writes, rows, calculatedAt, today, now>>

CacheNext ==
  \/ CommitAWrite
  \/ \E w \in Workers : Lock(w) \/ \E p \in Portfolios : Load(w, p)
  \/ \E h \in Hooks : HookEnds(h)
  \/ \E g \in Loops : StartAttempt(g) \/ EndAttempt(g) \/ BetweenAttempts(g)
  \/ \E ps \in (SUBSET Portfolios) \ {{}} :
       ReadSummary(ps) \/ \E d, end \in Dates : ReadHistory(ps, d, end)
  \/ Tick \/ NextDay \/ Restart

CacheSpec == CacheInit /\ [][CacheNext]_vars

\* A goroutine that can run does, and sync.Mutex starves nobody.  A call ends, in success
\* or failure.  Readers, writers, the clock and the operator promise nothing.
FairCacheSpec ==
  /\ CacheSpec
  /\ \A w \in Workers : /\ SF_vars(Lock(w))
                        /\ WF_vars(\E p \in Portfolios : Load(w, p))
  /\ \A h \in Hooks : WF_vars(HookEnds(h))
  /\ \A g \in Loops : WF_vars(StartAttempt(g) \/ EndAttempt(g) \/ BetweenAttempts(g))

------------------------------------------------------------------------------
(* Properties                                                              *)

CacheTypeOK ==
  /\ LoopTypeOK
  /\ source \subseteq Facts /\ writes \in 0..MaxWrites
  /\ rows \in [Portfolios -> [Dates -> SUBSET [write : Writes, kind : Kinds]]]
  /\ calculatedAt \in [Portfolios -> 0..MaxNow]
  /\ work \in [Workers -> Calls]
  /\ regenWriteMu \in Workers \cup {NoWorker}
  /\ today \in Dates /\ now \in 0..MaxNow
  /\ unrepaired \in [Portfolios -> SUBSET Dates]

\* A live hook goroutine is going to recompute day e of p from what the tables hold now.
Repairs(h, p, e) ==
  /\ p \in work[h].targets
  /\ work[h].start <= e
  /\ UpToDate(h, p, e)

\* Whatever the writers, the hooks and the loops do, and however a call's queries fall
\* between their commits, a row that no longer agrees with the tables has a hook on its
\* way that will repair it.  The exceptions are days whose repair failed or was lost in a
\* restart; the days a dividend has left by moving to another portfolio; those an
\* allocated transaction was moved to, before the day or out of the portfolios of its
\* allocation, when the allocation is taken back; and a day that was last computed on
\* itself and has a dividend.
WrongRowHasRepair ==
  \A p \in Portfolios, e \in Dates :
    Wrong(p, e) => e \in unrepaired[p] \/ \E h \in Hooks : Repairs(h, p, e)

\* A row that no longer agrees with the tables does not stay so, under the same exceptions.
WrongRowsHeal ==
  \A p \in Portfolios, e \in Dates : Wrong(p, e) ~> (~Wrong(p, e) \/ e \in unrepaired[p])

\* Reading settles down: when the regeneration a reader caused has succeeded and replaced
\* rows, the next reader up to the same day is served from them and causes no other,
\* unless a price of a later day is in the table.
RefreshEndsStaleness ==
  [][\A g \in Loops, p \in Portfolios, end \in Dates :
       (/\ work[g].pc = "load" /\ work[g].end = end
        /\ loop[g].pc = "regen" /\ loop'[g].pc = "check"
        /\ loop'[g].failures = 0 /\ Replaces(work[g], p)
        /\ \A f \in OfPortfolio(p) : f.kind = "price" => f.date <= end)
         => ~Stale({p}, end)']_vars

\* GetPortfolioHistoryWithFallback: returns complete history from startDate to endDate.
\* When no repair is on its way or owed and the rows are served, every day of the range
\* that has something to show has a row.
ServedHistoryIsComplete ==
  \A p \in Portfolios, d, end \in Dates :
    (/\ \A w \in Workers : work[w].pc = "idle"
     /\ unrepaired[p] = {}
     /\ ~Stale({p}, end) /\ Cached(p) \cap d..end # {})
      => \A e \in d..end : Computed(p, e) # NoRow => rows[p][e] # NoRow
=============================================================================
