----------------------------- MODULE FlexImport -----------------------------
(***************************************************************************)
(* Importing trades from IBKR: ImportFlexReport of ibkr_service.go over    *)
(* the client of package ibkr.  An import takes the report from the import *)
(* cache or asks IBKR for it, and then writes in four transactions of the  *)
(* database: the cache, the trades that have no row yet, the exchange      *)
(* rates, and last_import_date.  The cron job and requests of the API run  *)
(* it side by side, and each may stop between any two of its steps.        *)
(*                                                                         *)
(* IBKR prepares a report on demand and answers "not ready" meanwhile.     *)
(* The rates of a report are named by the trades it came with.             *)
(***************************************************************************)
EXTENDS Integers, FiniteSets

CONSTANTS
  MaxTrades,       \* bound: trades, numbered as IBKR reports them
  Queries, NoQuery,
  Clients,         \* what runs imports
  Cron,            \* the one of them that does so again and again
  maxAttempts,     \* answers after which a report is not waited for (10)
  MaxFaults,       \* bound: failures and restarts
  MaxChanges       \* bound: what users change, in the configuration and the inbox

ASSUME FlexImportAssumption ==
  /\ MaxTrades \in Nat \ {0}
  /\ NoQuery \notin Queries
  /\ Cron \in Clients
  /\ maxAttempts \in Nat \ {0} /\ MaxFaults \in Nat /\ MaxChanges \in Nat

VARIABLES
  reported,     \* how many trades IBKR has reported or will in its next report
  status,       \* trade -> its row's status, "absent" when it has no row
  undated,      \* the rows whose imported_at is the zero time
  deletes,      \* deletions that have read a pending row
  rates,        \* exchange_rate
  cache,        \* the latest row of ibkr_import_cache
  config,       \* the row of ibkr_config: its query and whether it has a last_import_date
  imports,      \* client -> the import it runs; its gone and unread are history
  attempts,     \* query -> answers its flight to IBKR has had, 0 when there is none
  faults, changes,
  owed          \* history: trades an import cached and did not insert, and deleted ones

vars == <<reported, status, undated, deletes, rates, cache, config, imports, attempts, faults, changes, owed>>

Trades == 1..MaxTrades

(* What IBKR answers: a report, one with a date that cannot be parsed, or  *)
(* the last "not ready".                                                   *)
Bodies == [kind : {"report"}, size : Trades] \cup [kind : {"broken", "not ready"}, size : {0}]
NotReady == [kind |-> "not ready", size |-> 0]
NoCache == [kind |-> "none", size |-> 0]
TradesOf(body) == 1..body.size
NoConfig == [query |-> NoQuery, last |-> FALSE]

Idle == [step |-> "idle"]
Running == {c \in Clients : imports[c] # Idle}
Waiting(q) == {c \in Running : imports[c].step = "fetch" /\ imports[c].query = q}

Init ==
  /\ reported = 1
  /\ status = [t \in Trades |-> "absent"]
  /\ undated = {} /\ deletes = {} /\ rates = {} /\ owed = {}
  /\ cache = NoCache
  /\ config \in [query : Queries, last : {FALSE}]
  /\ imports = [c \in Clients |-> Idle]
  /\ attempts = [q \in Queries |-> 0]
  /\ faults = 0 /\ changes = 0

Present(S) == {t \in S : status[t] # "absent"}

------------------------------------------------------------------------------
(* IBKR                                                                    *)

(* singleflight: callers with the same query share one call, and its       *)
(* result.                                                                 *)
Returned(q, body) ==
  /\ Waiting(q) # {}
  /\ imports' = [c \in Clients |->
       IF c \in Waiting(q) THEN [imports[c] EXCEPT !.step = "cache", !.body = body] ELSE imports[c]]
  /\ attempts' = [attempts EXCEPT ![q] = 0]
  /\ UNCHANGED <<reported, status, undated, deletes, rates, cache, config, faults, changes, owed>>

AnswerReport(q) == Returned(q, [kind |-> "report", size |-> reported])

AnswerBroken(q) == Returned(q, [kind |-> "broken", size |-> 0])

(* Mutant.                                                                 *)
OneAttemptMore(q) ==
  IF attempts[q] < maxAttempts
  THEN /\ Waiting(q) # {}
       /\ attempts' = [attempts EXCEPT ![q] = @ + 1]
       /\ UNCHANGED <<reported, status, undated, deletes, rates, cache, config, imports, faults, changes, owed>>
  ELSE Returned(q, NotReady)

(* After the last attempt the loop is left as after a success.             *)
AnswerNotReady(q) ==
  IF attempts[q] + 1 < maxAttempts
  THEN /\ Waiting(q) # {}
       /\ attempts' = [attempts EXCEPT ![q] = @ + 1]
       /\ UNCHANGED <<reported, status, undated, deletes, rates, cache, config, imports, faults, changes, owed>>
  ELSE Returned(q, NotReady)

(* Another error, of IBKR, the network or the first caller's context, is   *)
(* that of all callers.                                                    *)
FetchFails(q) ==
  /\ Waiting(q) # {}
  /\ faults < MaxFaults
  /\ faults' = faults + 1
  /\ imports' = [c \in Clients |-> IF c \in Waiting(q) THEN Idle ELSE imports[c]]
  /\ attempts' = [attempts EXCEPT ![q] = 0]
  /\ UNCHANGED <<reported, status, undated, deletes, rates, cache, config, changes, owed>>

NewTrade ==
  /\ reported < MaxTrades
  /\ reported' = reported + 1
  /\ UNCHANGED <<status, undated, deletes, rates, cache, config, imports, attempts, faults, changes, owed>>

------------------------------------------------------------------------------
(* ImportFlexReport                                                        *)

(* From the cache the report is parsed at once: imported_at is not part of *)
(* IBKR's XML and stays zero.  What is no report fails at once.            *)
StartFromCache(c) ==
  /\ imports[c] = Idle
  /\ cache.kind = "report"
  /\ imports' = [imports EXCEPT ![c] =
       [step |-> "compare", query |-> config.query, body |-> cache, next |-> 1,
        missing |-> {}, dated |-> FALSE, gone |-> {}, unread |-> {}]]
  /\ UNCHANGED <<reported, status, undated, deletes, rates, cache, config, attempts, faults, changes, owed>>

(* Only this needs the token of the configuration.                         *)
StartFromIbkr(c) ==
  /\ imports[c] = Idle
  /\ cache = NoCache /\ config # NoConfig
  /\ imports' = [imports EXCEPT ![c] =
       [step |-> "fetch", query |-> config.query, body |-> NotReady, next |-> 1,
        missing |-> {}, dated |-> TRUE, gone |-> {}, unread |-> {}]]
  /\ UNCHANGED <<reported, status, undated, deletes, rates, cache, config, attempts, faults, changes, owed>>

StartImport(c) == StartFromCache(c) \/ StartFromIbkr(c)

(* Whatever was received is cached for an hour, before it is parsed.       *)
WriteImportCache(c) ==
  /\ imports[c].step = "cache"
  /\ LET body == imports[c].body
     IN /\ cache' = body
        /\ owed' = owed \cup (TradesOf(body) \ Present(TradesOf(body)))
        /\ imports' = [imports EXCEPT ![c] =
             IF body.kind = "broken" THEN Idle ELSE [@ EXCEPT !.step = "compare"]]
  /\ UNCHANGED <<reported, status, undated, deletes, rates, config, attempts, faults, changes>>

(* One query for each trade of the report, in its order.                   *)
CompareIbkrTransaction(c) ==
  LET i == imports[c]
  IN /\ i.step = "compare"
     /\ i.next \in TradesOf(i.body)
     /\ imports' = [imports EXCEPT ![c] =
          [i EXCEPT !.next = @ + 1,
                    !.missing = IF status[i.next] = "absent" THEN @ \cup {i.next} ELSE @]]
     /\ UNCHANGED <<reported, status, undated, deletes, rates, cache, config, attempts, faults, changes, owed>>

(* A query that fails is taken for a row: the trade is passed over, and    *)
(* the import goes on.                                                     *)
CompareFails(c) ==
  LET i == imports[c]
  IN /\ i.step = "compare"
     /\ i.next \in TradesOf(i.body)
     /\ faults < MaxFaults
     /\ faults' = faults + 1
     /\ imports' = [imports EXCEPT ![c] = [i EXCEPT !.next = @ + 1, !.unread = @ \cup {i.next}]]
     /\ UNCHANGED <<reported, status, undated, deletes, rates, cache, config, attempts, changes, owed>>

Compared(c) == imports[c].step = "compare" /\ imports[c].next > imports[c].body.size

(* All of S in one transaction of the database.                            *)
Insert(c, S, dated) ==
  /\ status' = [t \in Trades |-> IF t \in S THEN "pending" ELSE status[t]]
  /\ undated' = IF dated THEN undated \ S ELSE undated \cup S
  /\ owed' = IF imports[c].dated THEN owed \ S ELSE owed
  /\ imports' = [imports EXCEPT ![c] = [@ EXCEPT !.step = "rates", !.missing = {}, !.dated = TRUE]]
  /\ UNCHANGED <<reported, deletes, rates, cache, config, attempts, faults, changes>>

(* Mutant.                                                                 *)
KeepsGoingOnConflict(c) ==
  LET missing == imports[c].missing
  IN Compared(c) /\ Insert(c, IF Present(missing) = {} THEN missing ELSE {}, imports[c].dated)

(* Mutant.                                                                 *)
Replaces(c) == Compared(c) /\ Insert(c, imports[c].missing, imports[c].dated)

(* Mutant.                                                                 *)
NeverDates(c) ==
  Compared(c) /\ Present(imports[c].missing) = {} /\ Insert(c, imports[c].missing, FALSE)

AddIbkrTransactions(c) ==
  Compared(c) /\ Present(imports[c].missing) = {} /\ Insert(c, imports[c].missing, imports[c].dated)

(* ibkr_transaction_id is UNIQUE: a row inserted since it was missed fails *)
(* the whole import.                                                       *)
AddIbkrTransactionsFails(c) ==
  /\ Compared(c)
  /\ Present(imports[c].missing) # {}
  /\ imports' = [imports EXCEPT ![c] = Idle]
  /\ UNCHANGED <<reported, status, undated, deletes, rates, cache, config, attempts, faults, changes, owed>>

AddExchangeRates(c) ==
  /\ imports[c].step = "rates"
  /\ rates' = rates \cup TradesOf(imports[c].body)
  /\ imports' = [imports EXCEPT ![c].step = "finish"]
  /\ UNCHANGED <<reported, status, undated, deletes, cache, config, attempts, faults, changes, owed>>

(* The row is found by the query the import began with.                    *)
UpdateLastImportDate(c) ==
  /\ imports[c].step = "finish"
  /\ config' = IF config # NoConfig /\ config.query = imports[c].query
               THEN [config EXCEPT !.last = TRUE] ELSE config
  /\ imports' = [imports EXCEPT ![c] = Idle]
  /\ UNCHANGED <<reported, status, undated, deletes, rates, cache, attempts, faults, changes, owed>>

(* The client is gone, the time of the cron job is up, or a write fails.   *)
ImportStops(c) ==
  /\ c \in Running /\ imports[c].step # "fetch"
  /\ faults < MaxFaults
  /\ faults' = faults + 1
  /\ imports' = [imports EXCEPT ![c] = Idle]
  /\ UNCHANGED <<reported, status, undated, deletes, rates, cache, config, attempts, changes, owed>>

------------------------------------------------------------------------------
(* Around imports                                                          *)

(* Mutant.                                                                 *)
ReportsExpire ==
  /\ cache.kind = "report"
  /\ cache' = NoCache
  /\ UNCHANGED <<reported, status, undated, deletes, rates, config, imports, attempts, faults, changes, owed>>

(* A row that has expired is not looked at again.                          *)
CacheExpires ==
  /\ cache # NoCache
  /\ cache' = NoCache
  /\ UNCHANGED <<reported, status, undated, deletes, rates, config, imports, attempts, faults, changes, owed>>

(* A restart ends all imports, with their flights; deletions ended before. *)
Restart ==
  /\ faults < MaxFaults
  /\ Running # {} /\ deletes = {}
  /\ faults' = faults + 1
  /\ imports' = [c \in Clients |-> Idle]
  /\ attempts' = [q \in Queries |-> 0]
  /\ UNCHANGED <<reported, status, undated, deletes, rates, cache, config, changes, owed>>

(* An update writes the whole row and never a last_import_date: the        *)
(* NullString it binds is not marked valid.                                *)
UpdateIbkrConfig(q) ==
  /\ changes < MaxChanges
  /\ changes' = changes + 1
  /\ config' = [query |-> q, last |-> FALSE]
  /\ UNCHANGED <<reported, status, undated, deletes, rates, cache, imports, attempts, faults, owed>>

DeleteIbkrConfig ==
  /\ config # NoConfig
  /\ changes < MaxChanges
  /\ changes' = changes + 1
  /\ config' = NoConfig
  /\ UNCHANGED <<reported, status, undated, deletes, rates, cache, imports, attempts, faults, owed>>

(* Every decision reads the trade first, which fails when it is undated.   *)
IgnoreIbkrTransaction(t) ==
  /\ status[t] = "pending" /\ t \notin undated
  /\ changes < MaxChanges
  /\ changes' = changes + 1
  /\ status' = [status EXCEPT ![t] = "ignored"]
  /\ UNCHANGED <<reported, undated, deletes, rates, cache, config, imports, attempts, faults, owed>>

ReadTradeToDelete(t) ==
  /\ status[t] = "pending" /\ t \notin undated \cup deletes
  /\ changes < MaxChanges
  /\ changes' = changes + 1
  /\ deletes' = deletes \cup {t}
  /\ UNCHANGED <<reported, status, undated, rates, cache, config, imports, attempts, faults, owed>>

DeletionStops(t) ==
  /\ t \in deletes
  /\ deletes' = deletes \ {t}
  /\ UNCHANGED <<reported, status, undated, rates, cache, config, imports, attempts, faults, changes, owed>>

DeleteIbkrTransaction(t) ==
  /\ t \in deletes
  /\ deletes' = deletes \ {t}
  /\ status' = [status EXCEPT ![t] = "absent"]
  /\ owed' = owed \cup {t}
  /\ imports' = [c \in Clients |->
       IF c \in Running /\ imports[c].step \in {"compare", "rates", "finish"}
            /\ t \in TradesOf(imports[c].body) /\ t < imports[c].next
       THEN [imports[c] EXCEPT !.gone = @ \cup {t}] ELSE imports[c]]
  /\ UNCHANGED <<reported, undated, rates, cache, config, attempts, faults, changes>>

------------------------------------------------------------------------------

Continue(c) ==
  \/ WriteImportCache(c)
  \/ CompareIbkrTransaction(c)
  \/ AddIbkrTransactions(c) \/ AddIbkrTransactionsFails(c)
  \/ AddExchangeRates(c) \/ UpdateLastImportDate(c)

Next ==
  \/ \E c \in Clients : StartImport(c) \/ Continue(c) \/ CompareFails(c) \/ ImportStops(c)
  \/ \E q \in Queries : \/ AnswerReport(q) \/ AnswerBroken(q) \/ AnswerNotReady(q) \/ FetchFails(q)
                        \/ UpdateIbkrConfig(q)
  \/ \E t \in Trades : \/ IgnoreIbkrTransaction(t)
                       \/ ReadTradeToDelete(t) \/ DeletionStops(t) \/ DeleteIbkrTransaction(t)
  \/ NewTrade \/ CacheExpires \/ Restart \/ DeleteIbkrConfig

Spec == Init /\ [][Next]_vars

(* The cron job comes again, an import goes on, an hour passes, and IBKR's *)
(* report is sometimes ready and sound.                                    *)
FairSpec ==
  /\ Spec
  /\ WF_vars(StartImport(Cron))
  /\ \A c \in Clients : WF_vars(Continue(c))
  /\ WF_vars(CacheExpires)
  /\ \A q \in Queries : SF_vars(AnswerReport(q))

------------------------------------------------------------------------------
(* Properties                                                              *)

ImportTypeOK ==
  /\ reported \in Trades
  /\ rates \subseteq 1..reported /\ owed \subseteq 1..reported
  /\ status \in [Trades -> {"absent", "pending", "ignored"}]
  /\ Present(Trades) \subseteq 1..reported
  /\ undated \subseteq Present(Trades)
  /\ deletes \subseteq Trades
  /\ cache \in Bodies \cup {NoCache}
  /\ config \in [query : Queries, last : BOOLEAN] \cup {NoConfig}
  /\ \A c \in Running :
       imports[c] \in [step : {"fetch", "cache", "compare", "rates", "finish"},
                       query : Queries \cup {NoQuery}, body : Bodies,
                       next : 1..(MaxTrades + 1), missing : SUBSET Trades, dated : BOOLEAN,
                       gone : SUBSET Trades, unread : SUBSET Trades]
  /\ \A q \in Queries : attempts[q] \in 0..(maxAttempts - 1) /\ (Waiting(q) = {} => attempts[q] = 0)

(* When an import has stored its trades, its whole report is in the inbox, *)
(* but for what a user deleted while it ran and for the trades it could    *)
(* not look up: no two imports at once leave a trade out that both thought *)
(* the other would insert.                                                 *)
StoredMeansInInbox ==
  \A c \in Running :
    imports[c].step \in {"rates", "finish"} =>
      TradesOf(imports[c].body) \subseteq Present(Trades) \cup imports[c].gone \cup imports[c].unread

(* A trade of the inbox has the time of its import, and so can be listed   *)
(* and decided about, unless an import that served it from the cache came  *)
(* before the one that had fetched it inserted it, or after it was deleted.*)
DatedUnlessOwed == undated \subseteq owed

(* To the inbox an import is one insert of trades that it does not have:   *)
(* whatever runs beside it, a decision about a trade is never undone and a *)
(* deletion never hits another row by importing the trade again.           *)
Inbox ==
  INSTANCE IbkrInbox WITH
    WithFees <- {}, Portfolios <- {}, Dividends <- {}, NoPortfolio <- NoQuery, NoLink <- NoQuery,
    OwnLink <- Cron, MaxEntries <- 0, MaxRounds <- 0, MaxRequests <- Cardinality(Trades),
    round <- [t \in Trades |-> 0], transaction <- {}, allocation <- {}, disturbed <- {},
    dividend <- <<>>, requests <- {[op |-> "DeleteIbkrTransaction", trade |-> t] : t \in deletes}

ImplementsInbox == Inbox!Spec

(* While IBKR stays configured, every trade it reports comes to the inbox, *)
(* and the rates with it, whatever failed before: an answer that was not   *)
(* ready or could not be parsed is forgotten with the hour.                *)
ReportedTradesArrive ==
  <>[](config # NoConfig) =>
    \A t \in Trades : t <= reported ~> status[t] # "absent" /\ t \in rates
=============================================================================
