------------------------------ MODULE LogPages ------------------------------
(***************************************************************************)
(* The log table as its readers see it: DeveloperRepository.GetLogs pages  *)
(* through it with a cursor while the writer of LogWriter adds rows and    *)
(* DeleteLogs clears it.  Each page is one query; a walk is the sequence   *)
(* of requests of one client that follows the cursors.                     *)
(***************************************************************************)
EXTENDS LogWriter

CONSTANTS
    Readers,   \* clients that walk through the log
    PerPage    \* per_page of their requests

ASSUME LogPagesAssumption == PerPage \in Nat \ {0}

VARIABLE walk  \* where each client is in its walk

pageVars == <<present, logVars, walk>>

(* What ParseLogFilters leaves of a query: the direction and the levels it  *)
(* asks for, none meaning all.                                              *)
Filters == [sortDir : {"asc", "desc"}, levels : SUBSET Levels]

NoCursor == [id |-> 0, timestamp |-> 0]
NotWalking == [at |-> "idle", filters |-> [sortDir |-> "desc", levels |-> {}],
               cursor |-> NoCursor, seen |-> {}, twice |-> FALSE, due |-> {}]

PagesInit == LogInit /\ walk = [r \in Readers |-> NotWalking]

(* ORDER BY timestamp, id. *)
Earlier(a, b) == \/ a.timestamp < b.timestamp
                 \/ a.timestamp = b.timestamp /\ a.id < b.id

Precedes(f, a, b) == IF f.sortDir = "asc" THEN Earlier(a, b) ELSE Earlier(b, a)

Matching(f) == {row \in table : f.levels = {} \/ row.level \in f.levels}

(* Mutant of Remaining: the cursor compares timestamps only. *)
RemainingBySecond(w) ==
    {row \in Matching(w.filters) :
        \/ w.at = "first"
        \/ IF w.filters.sortDir = "asc" THEN row.timestamp > w.cursor.timestamp
                                        ELSE row.timestamp < w.cursor.timestamp}

(* The WHERE clause: the filters and, past the first page, the cursor. *)
Remaining(w) == {row \in Matching(w.filters) :
                     w.at = "first" \/ Precedes(w.filters, w.cursor, row)}

(* The first PerPage rows in the order asked for. *)
Page(w) == {row \in Remaining(w) :
              Cardinality({q \in Remaining(w) : Precedes(w.filters, q, row)}) < PerPage}

(* The query asks for one row more than a page to know whether there are more. *)
HasMore(w) == Cardinality(Remaining(w)) > PerPage

LastOf(w) == CHOOSE row \in Page(w) : \A q \in Page(w) : q = row \/ Precedes(w.filters, q, row)

StartWalk(r, f) ==
    /\ walk[r].at \in {"idle", "done", "cut"}
    /\ walk' = [walk EXCEPT ![r] = [NotWalking EXCEPT !.at = "first", !.filters = f,
                                                       !.due = Matching(f)]]
    /\ UNCHANGED <<present, logVars>>

GetLogs(r) ==
    LET w == walk[r] IN
    /\ w.at \in {"first", "next"}
    /\ walk' = [walk EXCEPT
         ![r].at = IF HasMore(w) THEN "next" ELSE "done",
         ![r].cursor = IF HasMore(w) THEN [id |-> LastOf(w).id, timestamp |-> LastOf(w).timestamp]
                                     ELSE NoCursor,
         ![r].twice = @ \/ w.seen \intersect Page(w) # {},
         ![r].seen = @ \union Page(w)]
    /\ UNCHANGED <<present, logVars>>

(* GetLogs does not ask rows.Err: a read that fails after n rows answers     *)
(* with these rows and without a cursor, as if they were the last.  The      *)
(* client takes its walk to be over; here it is cut, so that the difference  *)
(* can be told.                                                             *)
GetLogsInPart(r) ==
    LET w == walk[r] IN
    /\ w.at \in {"first", "next"}
    /\ \E n \in 0..PerPage :
         LET part == {row \in Page(w) : Cardinality({q \in Remaining(w) : Precedes(w.filters, q, row)}) < n} IN
         /\ n < Cardinality(Remaining(w))
         /\ walk' = [walk EXCEPT ![r].at = "cut",
                                 ![r].cursor = NoCursor,
                                 ![r].twice = @ \/ w.seen \intersect part # {},
                                 ![r].seen = @ \union part]
    /\ UNCHANGED <<present, logVars>>

(* One transaction removes every row and records that it did.  Walks are    *)
(* owed only what is left.                                                  *)
DeleteLogs ==
    \E id \in {e.id : e \in present.records} \ used :
        LET audit == [id |-> id, timestamp |-> clock, level |-> "INFO"] IN
        /\ used' = used \union {id}
        /\ table' = {audit}
        /\ walk' = [r \in Readers |-> [walk[r] EXCEPT !.due = {}]]
        /\ UNCHANGED <<present, clock>> /\ UNCHANGED queueVars /\ UNCHANGED configVars

PagesNext ==
    \/ LogNext /\ UNCHANGED walk
    \/ \E r \in Readers \intersect present.clients :
         (\E f \in Filters : StartWalk(r, f)) \/ GetLogs(r) \/ GetLogsInPart(r)
    \/ DeleteLogs

PagesSpec == PagesInit /\ [][PagesNext]_pageVars

(* The writer runs and its database calls end (they have a timeout); the     *)
(* select takes a case that stays ready sooner or later; a goroutine blocked *)
(* on a channel that becomes ready runs.  Whoever logs, calls or asks does   *)
(* not have to.                                                             *)
PagesFairSpec ==
    /\ PagesSpec
    /\ WF_logVars(WriterStep)
    /\ WF_logVars(FlushTick)
    /\ SF_logVars(TakeDone)
    /\ \A c \in Callers : SF_logVars(TakeFlush(c)) /\ WF_logVars(WriterHasStopped(c))

-----------------------------------------------------------------------------
(* Every variable keeps its type. *)
LogTypeOK ==
    /\ clock \in 0..LastSecond /\ used \subseteq Ids
    /\ queue \in Seq(Entry) /\ batch \in Seq(Entry) /\ accepted \in Seq(Entry) /\ settled \in Seq(Entry)
    /\ writer \in [at : {"select", "drain", "final drain", "write", "final write", "stopped"},
                   ackTo : Callers \union {NoOne}]
    /\ closed \in BOOLEAN /\ closedAt \in Nat
    /\ call \in [Callers -> [op : {"none", "Flush", "Close"},
                             at : {"idle", "asks", "waits", "returned"}, mark : Nat]]
    /\ setting \in Config /\ running \in {Apply(config) : config \in Config} /\ unapplied \in BOOLEAN
    /\ setter \in [Setters -> [at : {"idle", "committed", "read", "enabled"}, read : Config]]
    /\ table \subseteq Entry /\ failed \subseteq Entry
    /\ Len(queue) <= QueueSize

(* What the queue took is, in the order it took it, first what has been      *)
(* settled, then the batch, then the queue: whatever the ticker, flushes,    *)
(* drains and close do, no entry is skipped, repeated or overtaken.          *)
EntriesKeepTheirPlace == accepted = settled \o batch \o queue

(* The comments on Flush and Close: when a call returns, every entry accepted *)
(* before it (and before Close) has been through a batch, also when Flush    *)
(* found the writer stopped.                                                *)
ReturnMeansSettled ==
    \A c \in Callers : call[c].at = "returned" => call[c].mark <= Len(settled)

(* The transaction of flushBatch: a batch that failed has left no row, at    *)
(* whichever of its statements it failed and whatever was written since.     *)
FailedBatchesLeaveNoRow == failed \intersect table = {}

(* A client that follows the cursors sees, once, every row that was there    *)
(* when it began and has not been deleted, in either direction, although     *)
(* rows appear before and behind its cursor and several rows share a second, *)
(* unless a read was cut short; even then it sees no row twice.              *)
WalksAreComplete ==
    \A r \in Readers : /\ ~walk[r].twice
                       /\ walk[r].at = "done" => walk[r].due \subseteq walk[r].seen

(* Between requests that set the configuration the handler runs with the     *)
(* configuration of the tables, unless requests overlapped or one failed     *)
(* after its commit.                                                        *)
RunningFollowsSetting == Setting = {} /\ ~unapplied => running = Apply(setting)

(* An entry accepted before Close is settled in the end, or the process ends. *)
AcceptedIsSettled ==
    \A n \in {1, Cardinality(Ids)} :
        (Len(accepted) >= n /\ ~closed) ~> (Len(settled) >= n \/ Len(accepted) < n)

(* Every call of Flush and Close returns, whichever of them the writer hears. *)
CallsReturn ==
    \A c \in Callers : (call[c].at \in {"asks", "waits"}) ~> (call[c].at \in {"returned", "idle"})

=============================================================================
