-------------------------- MODULE FlexImportProofs --------------------------
(***************************************************************************)
(* Theorems about FlexImport, for any number of trades, queries, clients,  *)
(* attempts, faults and changes.                                           *)
(*                                                                         *)
(* None of the invariants is inductive.  That an import has stored its     *)
(* report says nothing of one that still compares: the invariant adds that *)
(* what it has passed has a row, is missing, was deleted meanwhile or      *)
(* could not be looked up (Covers).  That only owed trades are undated says nothing of where such *)
(* a trade can come from: it adds that the cached report, and every report *)
(* taken from the cache, is owed what has no row (Owed).                   *)
(***************************************************************************)
EXTENDS FlexImport, FiniteSetTheorems, TLAPS

Imports == [step : {"fetch", "cache", "compare", "rates", "finish"},
            query : Queries \cup {NoQuery}, body : Bodies,
            next : 1..(MaxTrades + 1), missing : SUBSET Trades, dated : BOOLEAN,
            gone : SUBSET Trades, unread : SUBSET Trades]

Tables ==
  /\ reported \in Trades
  /\ rates \subseteq 1..reported /\ owed \subseteq 1..reported
  /\ status \in [Trades -> {"absent", "pending", "ignored"}]
  /\ \A t \in Trades : status[t] # "absent" => t <= reported
  /\ undated \subseteq owed
  /\ \A t \in undated : status[t] # "absent"
  /\ deletes \subseteq Trades
  /\ \A t \in deletes : status[t] # "absent" /\ t \notin undated
  /\ config \in [query : Queries, last : BOOLEAN] \cup {NoConfig}
  /\ imports \in [Clients -> {Idle} \cup Imports]
  /\ attempts \in [Queries -> Int]

\* What of body has no row is owed.
Owed(body) == \A t \in TradesOf(body) : status[t] = "absent" => t \in owed

CacheOK ==
  /\ cache \in Bodies \cup {NoCache}
  /\ cache.size <= reported
  /\ cache.kind = "report" => Owed(cache)

\* An import looks for missing trades in a report that it has received.
Starts(c) ==
  /\ imports[c].step \in {"fetch", "cache"} => imports[c].next = 1 /\ imports[c].missing = {}
  /\ imports[c].missing \subseteq TradesOf(imports[c].body)
  /\ imports[c].body.size <= reported

\* Trade t does not escape the import of c.
Knows(c, t) ==
  \/ status[t] # "absent" \/ t \in imports[c].missing
  \/ t \in imports[c].gone \/ t \in imports[c].unread

Covers(c) ==
  /\ imports[c].step = "compare" =>
       \A t \in TradesOf(imports[c].body) : t < imports[c].next => Knows(c, t)
  /\ imports[c].step \in {"rates", "finish"} =>
       /\ imports[c].next > imports[c].body.size
       /\ imports[c].missing = {}
       /\ \A t \in TradesOf(imports[c].body) : Knows(c, t)

ImportOK(c) ==
  imports[c] # Idle =>
    /\ Starts(c)
    /\ Covers(c)
    /\ imports[c].step = "compare" /\ ~imports[c].dated => Owed(imports[c].body)

AttemptsOK ==
  \A q \in Queries : attempts[q] \in 0..(maxAttempts - 1) /\ (Waiting(q) = {} => attempts[q] = 0)

IndInv == Tables /\ CacheOK /\ (\A c \in Clients : ImportOK(c)) /\ AttemptsOK

------------------------------------------------------------------------------
(* What most steps leave alone                                             *)

\* No row goes, and what was owed is owed or has one.
RowsStay ==
  /\ reported' >= reported
  /\ \A t \in Trades : status[t] # "absent" => status'[t] # "absent"
  /\ \A t \in Trades : t \in owed => t \in owed' \/ status'[t] # "absent"

\* The trades of whatever IBKR answers, and of no cache.
LEMMA BodySizes ==
  ASSUME NEW body \in Bodies \cup {NoCache}
  PROVE  /\ body.size \in Nat
         /\ TradesOf(body) \subseteq Trades
         /\ \A t \in TradesOf(body) : t <= body.size
<1> USE FlexImportAssumption DEF Trades
<1>1. body.size \in Nat /\ body.size <= MaxTrades
  <2>1. CASE body \in [kind : {"report"}, size : Trades]
    BY <2>1
  <2>2. CASE body \in [kind : {"broken", "not ready"}, size : {0}]
    <3>1. body.size \in {0}
      BY <2>2
    <3>2. QED
      BY <3>1
  <2>3. CASE body = NoCache
    BY <2>3 DEF NoCache
  <2>4. QED
    BY <2>1, <2>2, <2>3 DEF Bodies
<1>2. QED
  BY <1>1 DEF TradesOf

\* Attempts are numbers, the trades reported too.
LEMMA Numbers ==
  ASSUME Tables
  PROVE  /\ attempts \in [Queries -> Int]
         /\ reported \in Nat /\ reported <= MaxTrades
BY FlexImportAssumption DEF Tables, Trades

\* A step that touches no row.
LEMMA RowsUntouched ==
  ASSUME Tables, UNCHANGED <<reported, status, owed>>
  PROVE  RowsStay
BY Numbers DEF RowsStay

(* What holds of the cache stays while no row disappears.                  *)
LEMMA CacheStays ==
  ASSUME Tables, Tables', CacheOK, RowsStay, cache' = cache
  PROVE  CacheOK'
<1>1. TradesOf(cache) \subseteq Trades /\ cache.size \in Nat
  BY BodySizes DEF CacheOK
<1>2. cache'.size <= reported'
  BY <1>1, FlexImportAssumption DEF CacheOK, Tables, RowsStay, Trades
<1>3. cache'.kind = "report" => Owed(cache)'
  BY <1>1 DEF CacheOK, Owed, RowsStay, TradesOf
<1>4. QED
  BY <1>2, <1>3 DEF CacheOK

(* So does what holds of an import that does not move.                     *)
LEMMA ImportStays ==
  ASSUME Tables, Tables', RowsStay, NEW c \in Clients, ImportOK(c), imports'[c] = imports[c]
  PROVE  ImportOK(c)'
<1> SUFFICES ASSUME imports[c] # Idle
             PROVE  /\ Starts(c)' /\ Covers(c)'
                    /\ imports[c].step = "compare" /\ ~imports[c].dated => Owed(imports[c].body)'
  BY DEF ImportOK
<1>1. imports[c] \in Imports /\ imports[c].body \in Bodies
  BY DEF Tables, Imports
<1>2. TradesOf(imports[c].body) \subseteq Trades /\ imports[c].body.size \in Nat
  BY <1>1, BodySizes
<1>3. Starts(c)'
  BY <1>2, FlexImportAssumption DEF ImportOK, Starts, Tables, RowsStay, Trades, TradesOf
<1>4. Covers(c)'
  BY <1>2 DEF ImportOK, Covers, Knows, RowsStay, TradesOf
<1>5. imports[c].step = "compare" /\ ~imports[c].dated => Owed(imports[c].body)'
  BY <1>2 DEF ImportOK, Owed, RowsStay, TradesOf
<1>6. QED
  BY <1>3, <1>4, <1>5

\* A step is looked at for the imports that it takes further.
LEMMA ImportsStay ==
  ASSUME Tables, Tables', RowsStay, \A c \in Clients : ImportOK(c),
         \A c \in Clients : imports'[c] = imports[c] \/ imports'[c] = Idle \/ ImportOK(c)'
  PROVE  \A c \in Clients : ImportOK(c)'
<1> SUFFICES ASSUME NEW c \in Clients PROVE ImportOK(c)'
  OBVIOUS
<1>1. CASE imports'[c] = imports[c]
  BY <1>1, ImportStays
<1>2. CASE imports'[c] = Idle
  BY <1>2 DEF ImportOK
<1>3. QED
  BY <1>1, <1>2

\* Attempts are counted while somebody waits.
LEMMA AttemptsStay ==
  ASSUME Tables, AttemptsOK, attempts' = attempts,
         \A c \in Clients : imports[c].step = "fetch" =>
           imports'[c].step = "fetch" /\ imports'[c].query = imports[c].query
  PROVE  AttemptsOK'
<1> SUFFICES ASSUME NEW q \in Queries, Waiting(q)' = {}
             PROVE  Waiting(q) = {}
  BY DEF AttemptsOK
<1>1. \A c \in Clients : imports'[c].step = "fetch" => imports'[c] # Idle
  BY DEF Idle
<1>2. QED
  BY <1>1 DEF Waiting, Running

------------------------------------------------------------------------------
(* Steps of IBKR                                                           *)

\* Whatever all callers of a query receive at once, it is no longer than what IBKR has.
LEMMA ReturnedStep ==
  ASSUME IndInv, NEW q \in Queries, NEW body \in Bodies, body.size <= reported, Returned(q, body)
  PROVE  IndInv'
<1> USE DEF IndInv
<1>1. Tables'
  <2>1. ASSUME NEW c \in Waiting(q)
        PROVE  [imports[c] EXCEPT !.step = "cache", !.body = body] \in Imports
    <3>1. imports[c] \in Imports
      BY DEF Waiting, Running, Tables
    <3> QED
      BY <3>1 DEF Imports
  <2>2. imports' \in [Clients -> {Idle} \cup Imports]
    BY <2>1 DEF Returned, Tables
  <2>3. attempts' \in [Queries -> Int]
    <3>1. attempts' = [attempts EXCEPT ![q] = 0]
      BY DEF Returned
    <3>2. QED
      BY <3>1, Numbers
  <2>4. QED
    BY <2>2, <2>3 DEF Returned, Tables
<1>2. RowsStay
  BY RowsUntouched DEF Returned
<1>3. CacheOK'
  BY <1>1, <1>2, CacheStays DEF Returned
<1>4. \A c \in Clients : ImportOK(c)'
  <2>1. ASSUME NEW c \in Waiting(q) PROVE ImportOK(c)'
    <3>1. /\ c \in Clients /\ imports[c] \in Imports /\ imports[c].step = "fetch" /\ ImportOK(c)
          /\ imports'[c] = [imports[c] EXCEPT !.step = "cache", !.body = body]
      BY DEF Waiting, Running, Tables, Returned
    <3>2. /\ imports'[c].step = "cache" /\ imports'[c].body = body
          /\ imports'[c].next = 1 /\ imports'[c].missing = {}
      BY <3>1 DEF Imports, ImportOK, Starts, Idle
    <3>3. reported' = reported
      BY DEF Returned
    <3>4. QED
      BY <3>2, <3>3 DEF ImportOK, Starts, Covers
  <2>2. \A c \in Clients : c \notin Waiting(q) => imports'[c] = imports[c]
    BY DEF Returned
  <2>3. QED
    BY <1>1, <1>2, <2>1, <2>2, ImportsStay
<1>5. AttemptsOK'
  <2>1. SUFFICES ASSUME NEW r \in Queries
                 PROVE  attempts'[r] \in 0..(maxAttempts - 1) /\ (Waiting(r)' = {} => attempts'[r] = 0)
    BY DEF AttemptsOK
  <2>2. attempts' = [attempts EXCEPT ![q] = 0]
    BY DEF Returned
  <2>3. CASE r = q
    BY <2>3, <2>2, FlexImportAssumption, Numbers
  <2>4. CASE r # q
    <3>1. attempts'[r] = attempts[r]
      BY <2>4, <2>2, Numbers
    <3>2. Waiting(r) \subseteq Waiting(r)'
      BY <2>4 DEF Returned, Waiting, Running
    <3>3. QED
      BY <3>1, <3>2 DEF AttemptsOK
  <2>5. QED
    BY <2>3, <2>4
<1>6. QED
  BY <1>1, <1>3, <1>4, <1>5

(* A report arrives: IBKR reports only what has been traded.               *)
LEMMA AnswerReportStep ==
  ASSUME IndInv, NEW q \in Queries, AnswerReport(q)
  PROVE  IndInv'
<1>1. PICK body \in Bodies : body = [kind |-> "report", size |-> reported]
  BY DEF IndInv, Tables, Bodies
<1>2. body.size <= reported /\ Returned(q, body)
  BY <1>1, FlexImportAssumption DEF AnswerReport, IndInv, Tables, Trades
<1>3. QED
  BY <1>2, ReturnedStep

(* A report arrives that cannot be parsed, and is cached.                  *)
LEMMA AnswerBrokenStep ==
  ASSUME IndInv, NEW q \in Queries, AnswerBroken(q)
  PROVE  IndInv'
<1>1. PICK body \in Bodies : body = [kind |-> "broken", size |-> 0]
  BY DEF Bodies
<1>2. body.size <= reported /\ Returned(q, body)
  BY <1>1, FlexImportAssumption DEF AnswerBroken, IndInv, Tables, Trades
<1>3. QED
  BY <1>2, ReturnedStep

(* The report is not ready, or for the last time.                          *)
LEMMA AnswerNotReadyStep ==
  ASSUME IndInv, NEW q \in Queries, AnswerNotReady(q)
  PROVE  IndInv'
<1>1. CASE attempts[q] + 1 < maxAttempts
  <2> USE <1>1 DEF AnswerNotReady, IndInv
  <2>1. Tables' /\ RowsStay
    <3>1. attempts' \in [Queries -> Int]
      BY Numbers
    <3>2. QED
      BY <3>1, RowsUntouched DEF Tables
  <2>2. CacheOK' /\ \A c \in Clients : ImportOK(c)'
    BY <2>1, CacheStays, ImportsStay
  <2>3. AttemptsOK'
    BY FlexImportAssumption DEF AttemptsOK, Tables, Waiting, Running
  <2>4. QED
    BY <2>1, <2>2, <2>3
<1>2. CASE ~(attempts[q] + 1 < maxAttempts)
  <2>1. PICK body \in Bodies : body = NotReady
    BY DEF Bodies, NotReady
  <2>2. body.size <= reported /\ Returned(q, body)
    <3>1. Returned(q, body)
      BY <1>2, <2>1 DEF AnswerNotReady
    <3>2. body.size = 0
      BY <2>1 DEF NotReady
    <3>3. QED
      BY <3>1, <3>2, Numbers DEF IndInv
  <2>3. QED
    BY <2>2, ReturnedStep
<1>3. QED
  BY <1>1, <1>2

(* A call fails for all that share it.                                     *)
LEMMA FetchFailsStep ==
  ASSUME IndInv, NEW q \in Queries, FetchFails(q)
  PROVE  IndInv'
<1> USE DEF IndInv, FetchFails
<1>1. Tables' /\ RowsStay
  BY DEF Tables, RowsStay, Trades
<1>2. CacheOK' /\ \A c \in Clients : ImportOK(c)'
  BY <1>1, CacheStays, ImportsStay
<1>3. AttemptsOK'
  <2>1. SUFFICES ASSUME NEW r \in Queries
                 PROVE  attempts'[r] \in 0..(maxAttempts - 1) /\ (Waiting(r)' = {} => attempts'[r] = 0)
    BY DEF AttemptsOK
  <2>2. CASE r = q
    BY <2>2, FlexImportAssumption DEF Tables
  <2>3. CASE r # q
    <3>1. attempts'[r] = attempts[r]
      BY <2>3 DEF Tables
    <3>2. Waiting(r) \subseteq Waiting(r)'
      BY <2>3 DEF Waiting, Running
    <3>3. QED
      BY <3>1, <3>2 DEF AttemptsOK
  <2>4. QED
    BY <2>2, <2>3
<1>4. QED
  BY <1>1, <1>2, <1>3

------------------------------------------------------------------------------
(* Steps around imports                                                    *)

\* A step that leaves imports and the cache alone.
LEMMA CalmStep ==
  ASSUME IndInv, Tables', RowsStay, UNCHANGED <<imports, attempts>>,
         cache' = cache \/ cache' = NoCache
  PROVE  IndInv'
<1> USE DEF IndInv
<1>1. CASE cache' = NoCache
  <2>1. CacheOK'
    <3>1. reported' \in Nat
      BY FlexImportAssumption DEF Tables, Trades
    <3>2. QED
      BY <1>1, <3>1 DEF CacheOK, NoCache
  <2>2. QED
    BY <2>1, ImportsStay, AttemptsStay
<1>2. CASE cache' = cache
  BY <1>2, CacheStays, ImportsStay, AttemptsStay
<1>3. QED
  BY <1>1, <1>2

(* IBKR has one trade more.                                                *)
LEMMA NewTradeStep == IndInv /\ NewTrade => IndInv'
<1> SUFFICES ASSUME IndInv, NewTrade PROVE IndInv'
  OBVIOUS
<1>1. reported' \in Trades /\ reported' >= reported /\ 1..reported \subseteq 1..reported'
  BY FlexImportAssumption DEF IndInv, NewTrade, Tables, Trades
<1>2. Tables'
  <2>1. rates' \subseteq 1..reported' /\ owed' \subseteq 1..reported'
    BY <1>1 DEF IndInv, NewTrade, Tables
  <2>2. \A t \in Trades : status'[t] # "absent" => t <= reported'
    BY <1>1, FlexImportAssumption DEF IndInv, NewTrade, Tables, Trades
  <2>3. QED
    BY <1>1, <2>1, <2>2 DEF IndInv, NewTrade, Tables
<1>3. RowsStay
  BY <1>1 DEF NewTrade, RowsStay
<1>4. QED
  BY <1>2, <1>3, CalmStep DEF NewTrade

(* The cached report is not served any more.                               *)
LEMMA CacheExpiresStep == IndInv /\ CacheExpires => IndInv'
<1> SUFFICES ASSUME IndInv, CacheExpires PROVE IndInv'
  OBVIOUS
<1>1. Tables' /\ RowsStay
  BY RowsUntouched DEF IndInv, CacheExpires, Tables
<1>2. QED
  BY <1>1, CalmStep DEF CacheExpires

(* A user changes or removes the configuration.                            *)
LEMMA ConfigStep ==
  ASSUME IndInv, (\E q \in Queries : UpdateIbkrConfig(q)) \/ DeleteIbkrConfig
  PROVE  IndInv'
<1>1. /\ config' \in [query : Queries, last : BOOLEAN] \cup {NoConfig}
      /\ UNCHANGED <<reported, status, undated, deletes, rates, cache, imports, attempts, owed>>
  <2>1. CASE \E q \in Queries : UpdateIbkrConfig(q)
    BY <2>1 DEF UpdateIbkrConfig
  <2>2. CASE DeleteIbkrConfig
    BY <2>2 DEF DeleteIbkrConfig
  <2>3. QED
    BY <2>1, <2>2
<1>2. Tables' /\ RowsStay
  BY <1>1, RowsUntouched DEF IndInv, Tables
<1>3. QED
  BY <1>1, <1>2, CalmStep

(* A decision keeps all rows.                                              *)
LEMMA IgnoreStep ==
  ASSUME IndInv, NEW t \in Trades, IgnoreIbkrTransaction(t)
  PROVE  IndInv'
<1> USE DEF IndInv, IgnoreIbkrTransaction
<1>1. /\ status' \in [Trades -> {"absent", "pending", "ignored"}]
      /\ \A u \in Trades : status'[u] # "absent" <=> status[u] # "absent"
  BY DEF Tables
<1>2. undated \subseteq Trades
  BY FlexImportAssumption DEF Tables, Trades
<1>3. Tables'
  BY <1>1, <1>2 DEF Tables
<1>4. RowsStay
  BY <1>1, Numbers DEF RowsStay
<1>5. QED
  BY <1>3, <1>4, CalmStep

(* A deletion that only reads keeps all rows.                              *)
LEMMA ReadTradeToDeleteStep ==
  ASSUME IndInv, NEW t \in Trades, ReadTradeToDelete(t) \/ DeletionStops(t)
  PROVE  IndInv'
<1> USE DEF IndInv, ReadTradeToDelete, DeletionStops
<1>1. /\ deletes' \subseteq Trades
      /\ \A u \in deletes' : status[u] # "absent" /\ u \notin undated
  BY DEF Tables
<1>2. Tables' /\ RowsStay
  BY <1>1, RowsUntouched DEF Tables
<1>3. QED
  BY <1>2, CalmStep

\* An import that has passed the trade knows that it is gone; the trade is owed.
LEMMA DeleteIbkrTransactionStep ==
  ASSUME IndInv, NEW t \in Trades, DeleteIbkrTransaction(t)
  PROVE  IndInv'
<1> USE DEF IndInv
<1> DEFINE Passed(c) == /\ c \in Running /\ imports[c].step \in {"compare", "rates", "finish"}
                        /\ t \in TradesOf(imports[c].body) /\ t < imports[c].next
<1>1. /\ imports' = [c \in Clients |-> IF Passed(c) THEN [imports[c] EXCEPT !.gone = @ \cup {t}]
                                                    ELSE imports[c]]
      /\ deletes' = deletes \ {t} /\ owed' = owed \cup {t}
      /\ status' = [status EXCEPT ![t] = "absent"]
      /\ UNCHANGED <<reported, undated, rates, cache, config, attempts>>
      /\ t \in deletes
  BY DEF DeleteIbkrTransaction
<1>2. \A c \in Clients : Passed(c) => [imports[c] EXCEPT !.gone = @ \cup {t}] \in Imports
  BY DEF Running, Tables, Imports
<1> HIDE DEF Passed
<1>3. Tables'
  <2>1. imports' \in [Clients -> {Idle} \cup Imports]
    BY <1>1, <1>2 DEF Tables
  <2>2. /\ status' \in [Trades -> {"absent", "pending", "ignored"}]
        /\ status'[t] = "absent" /\ \A u \in Trades \ {t} : status'[u] = status[u]
    BY <1>1 DEF Tables
  <2>3. t \notin undated /\ t \in 1..reported
    BY <1>1, Numbers DEF Tables, Trades
  <2>4. undated \subseteq Trades /\ deletes \subseteq Trades
    BY Numbers, FlexImportAssumption DEF Tables, Trades
  <2>5. /\ \A u \in Trades : status'[u] # "absent" => u <= reported
        /\ \A u \in undated : status'[u] # "absent"
        /\ \A u \in deletes' : status'[u] # "absent" /\ u \notin undated
    BY <1>1, <2>2, <2>3, <2>4 DEF Tables
  <2>6. deletes' \subseteq Trades /\ owed' \subseteq 1..reported /\ undated \subseteq owed'
    BY <1>1, <2>3 DEF Tables
  <2>7. QED
    BY <1>1, <2>1, <2>2, <2>5, <2>6 DEF Tables
<1>4. \A u \in Trades : status'[u] = "absent" => u = t \/ status[u] = "absent"
  BY <1>1 DEF Tables
<1>5. CacheOK'
  <2>1. TradesOf(cache) \subseteq Trades
    BY BodySizes DEF CacheOK
  <2>2. QED
    BY <1>1, <1>4, <2>1 DEF CacheOK, Owed, TradesOf
<1>6. ASSUME NEW c \in Clients PROVE ImportOK(c)'
  <2>1. SUFFICES ASSUME imports'[c] # Idle PROVE ImportOK(c)'
    BY DEF ImportOK
  <2>2. imports[c] # Idle /\ imports[c] \in Imports /\ c \in Running
    BY <1>1, <2>1 DEF Passed, Running, Tables
  <2>3. /\ imports'[c].step = imports[c].step /\ imports'[c].next = imports[c].next
        /\ imports'[c].missing = imports[c].missing /\ imports'[c].body = imports[c].body
        /\ imports'[c].dated = imports[c].dated /\ imports'[c].unread = imports[c].unread
        /\ imports'[c].gone = IF Passed(c) THEN imports[c].gone \cup {t} ELSE imports[c].gone
    BY <1>1, <2>2 DEF Imports
  <2>4. TradesOf(imports[c].body) \subseteq Trades /\ imports[c].body.size \in Nat
    BY <2>2, BodySizes DEF Imports
  <2>5. Starts(c)'
    BY <1>1, <2>2, <2>3 DEF ImportOK, Starts, TradesOf
  <2>6. Covers(c)'
    <3>1. CASE imports[c].step = "compare"
      BY <1>4, <2>2, <2>3, <2>4, <3>1 DEF ImportOK, Covers, Knows, TradesOf, Passed
    <3>2. CASE imports[c].step \in {"rates", "finish"}
      <4>1. \A u \in TradesOf(imports[c].body) : u < imports[c].next
        <5>1. imports[c].next \in Nat /\ imports[c].next > imports[c].body.size
          BY <2>2, <3>2, FlexImportAssumption DEF ImportOK, Covers, Imports
        <5>2. \A u \in TradesOf(imports[c].body) : u \in Nat /\ u <= imports[c].body.size
          BY <2>4 DEF TradesOf
        <5>3. QED
          BY <2>4, <5>1, <5>2
      <4>2. QED
        BY <1>4, <2>2, <2>3, <2>4, <3>2, <4>1 DEF ImportOK, Covers, Knows, TradesOf, Passed
    <3>3. CASE imports[c].step \notin {"compare", "rates", "finish"}
      BY <2>3, <3>3 DEF Covers
    <3>4. QED
      BY <3>1, <3>2, <3>3
  <2>7. imports[c].step = "compare" /\ ~imports[c].dated => Owed(imports[c].body)'
    BY <1>1, <1>4, <2>2, <2>4 DEF ImportOK, Owed, TradesOf
  <2>8. QED
    BY <2>3, <2>5, <2>6, <2>7 DEF ImportOK, Owed, TradesOf
<1>7. AttemptsOK'
  <2>1. ASSUME NEW c \in Clients, imports[c].step = "fetch"
        PROVE  imports'[c].step = "fetch" /\ imports'[c].query = imports[c].query
    BY <1>1, <2>1 DEF Passed
  <2>2. QED
    BY <1>1, <2>1, AttemptsStay
<1>8. QED
  BY <1>3, <1>5, <1>6, <1>7

------------------------------------------------------------------------------
(* Steps of imports                                                        *)

\* An import that stops.
LEMMA IdleStep ==
  ASSUME IndInv, NEW c \in Clients, imports[c].step # "fetch",
         imports' = [imports EXCEPT ![c] = Idle],
         config' \in [query : Queries, last : BOOLEAN] \cup {NoConfig},
         UNCHANGED <<reported, status, undated, deletes, rates, cache, attempts, owed>>
  PROVE  IndInv'
<1> USE DEF IndInv
<1>1. Tables' /\ RowsStay
  BY RowsUntouched DEF Tables
<1>2. CacheOK' /\ \A d \in Clients : ImportOK(d)'
  BY <1>1, CacheStays, ImportsStay DEF Tables
<1>3. AttemptsOK'
  BY AttemptsStay DEF Tables
<1>4. QED
  BY <1>1, <1>2, <1>3

(* A failed insertion leaves the table as it was.                          *)
LEMMA AddIbkrTransactionsFailsStep ==
  ASSUME IndInv, NEW c \in Clients, AddIbkrTransactionsFails(c)
  PROVE  IndInv'
BY IdleStep DEF AddIbkrTransactionsFails, Compared, IndInv, Tables

(* An import that stops leaves what it has written.                        *)
LEMMA ImportStopsStep ==
  ASSUME IndInv, NEW c \in Clients, ImportStops(c)
  PROVE  IndInv'
BY IdleStep DEF ImportStops, IndInv, Tables

(* The last step of an import writes no trades.                            *)
LEMMA UpdateLastImportDateStep ==
  ASSUME IndInv, NEW c \in Clients, UpdateLastImportDate(c)
  PROVE  IndInv'
<1>1. config' \in [query : Queries, last : BOOLEAN] \cup {NoConfig}
  BY DEF UpdateLastImportDate, IndInv, Tables
<1>2. QED
  BY <1>1, IdleStep DEF UpdateLastImportDate

(* A restart loses the imports and the calls, not the tables.              *)
LEMMA RestartStep == IndInv /\ Restart => IndInv'
<1> SUFFICES ASSUME IndInv, Restart PROVE IndInv'
  OBVIOUS
<1> USE DEF IndInv, Restart
<1>1. Tables' /\ RowsStay
  <2>1. attempts' \in [Queries -> Int] /\ imports' \in [Clients -> {Idle} \cup Imports]
    OBVIOUS
  <2>2. QED
    BY <2>1, RowsUntouched DEF Tables
<1>2. CacheOK' /\ \A c \in Clients : ImportOK(c)'
  BY <1>1, CacheStays, ImportsStay
<1>3. AttemptsOK'
  BY FlexImportAssumption DEF AttemptsOK
<1>4. QED
  BY <1>1, <1>2, <1>3

\* An import that starts, from the cache or with a call to IBKR.
LEMMA StartImportStep ==
  ASSUME IndInv, NEW c \in Clients, StartImport(c)
  PROVE  IndInv'
<1> USE DEF IndInv
<1>1. PICK i : /\ imports' = [imports EXCEPT ![c] = i]
               /\ i \in Imports /\ i.next = 1 /\ i.missing = {}
               /\ i.body.size <= reported
               /\ i.step \in {"fetch", "compare"}
               /\ i.step = "compare" => Owed(i.body)
  <2>1. CASE StartFromCache(c)
    <3> DEFINE i == [step |-> "compare", query |-> config.query, body |-> cache, next |-> 1,
                     missing |-> {}, dated |-> FALSE, gone |-> {}, unread |-> {}]
    <3>1. cache \in Bodies /\ cache.size <= reported /\ Owed(cache)
      BY <2>1 DEF StartFromCache, CacheOK, NoCache
    <3>2. config.query \in Queries \cup {NoQuery}
      BY DEF Tables, NoConfig
    <3>3. i \in Imports
      BY <3>1, <3>2, FlexImportAssumption DEF Imports
    <3>4. imports' = [imports EXCEPT ![c] = i]
      BY <2>1 DEF StartFromCache
    <3>5. i.next = 1 /\ i.missing = {} /\ i.step = "compare" /\ i.body = cache
      OBVIOUS
    <3> HIDE DEF i
    <3>6. QED
      BY <3>1, <3>3, <3>4, <3>5
  <2>2. CASE StartFromIbkr(c)
    <3> DEFINE i == [step |-> "fetch", query |-> config.query, body |-> NotReady, next |-> 1,
                     missing |-> {}, dated |-> TRUE, gone |-> {}, unread |-> {}]
    <3>1. NotReady \in Bodies /\ NotReady.size <= reported
      BY Numbers DEF NotReady, Bodies
    <3>2. config.query \in Queries \cup {NoQuery}
      BY DEF Tables, NoConfig
    <3>3. i \in Imports
      BY <3>1, <3>2, FlexImportAssumption DEF Imports
    <3>4. imports' = [imports EXCEPT ![c] = i]
      BY <2>2 DEF StartFromIbkr
    <3>5. i.next = 1 /\ i.missing = {} /\ i.step = "fetch" /\ i.body = NotReady
      OBVIOUS
    <3> HIDE DEF i
    <3>6. QED
      BY <3>1, <3>3, <3>4, <3>5
  <2>3. QED
    BY <2>1, <2>2 DEF StartImport
<1>2. /\ imports[c] = Idle
      /\ UNCHANGED <<reported, status, undated, deletes, rates, cache, config, attempts, owed>>
  BY DEF StartImport, StartFromCache, StartFromIbkr
<1>3. Tables' /\ RowsStay
  BY <1>1, <1>2, RowsUntouched DEF Tables
<1>4. imports'[c] = i
  BY <1>1 DEF Tables
<1>5. ImportOK(c)'
  <2>1. i.step # "rates" /\ i.step # "finish" /\ i.body \in Bodies
    BY <1>1 DEF Imports
  <2>2. \A t \in TradesOf(i.body) : ~(t < 1)
    BY <2>1, BodySizes, FlexImportAssumption DEF Trades
  <2>3. Starts(c)' /\ Covers(c)'
    BY <1>1, <1>2, <1>4, <2>1, <2>2 DEF Starts, Covers
  <2>4. i.step = "compare" => Owed(i.body)'
    BY <1>1, <1>2 DEF Owed
  <2>5. QED
    BY <1>4, <2>3, <2>4 DEF ImportOK
<1>6. CacheOK' /\ \A d \in Clients : ImportOK(d)'
  BY <1>1, <1>2, <1>3, <1>5, CacheStays, ImportsStay DEF Tables
<1>7. AttemptsOK'
  BY <1>1, <1>2, AttemptsStay DEF Tables, Idle
<1>8. QED
  BY <1>3, <1>6, <1>7

\* What it received is cached; what of it has no row is owed from then on.
LEMMA WriteImportCacheStep ==
  ASSUME IndInv, NEW c \in Clients, WriteImportCache(c)
  PROVE  IndInv'
<1> USE DEF IndInv
<1>1. PICK body : body = imports[c].body
  OBVIOUS
<1>2. /\ imports[c].step = "cache" /\ imports[c] # Idle /\ imports[c] \in Imports
      /\ ImportOK(c) /\ body \in Bodies
      /\ cache' = body
      /\ owed' = owed \cup {t \in TradesOf(body) : status[t] = "absent"}
      /\ UNCHANGED <<reported, status, undated, deletes, rates, config, attempts>>
  BY <1>1 DEF WriteImportCache, Tables, Idle, Imports, Present
<1>3. /\ TradesOf(body) \subseteq Trades
      /\ TradesOf(body) \subseteq 1..reported
      /\ body.size <= reported
  <2>1. body.size <= reported /\ body.size \in Nat /\ TradesOf(body) \subseteq Trades
    BY <1>1, <1>2, BodySizes DEF ImportOK, Starts
  <2>2. QED
    BY <2>1, Numbers DEF TradesOf
<1>4. \/ imports' = [imports EXCEPT ![c] = Idle]
      \/ imports' = [imports EXCEPT ![c] = [imports[c] EXCEPT !.step = "compare"]]
  BY DEF WriteImportCache
<1>5. Tables'
  <2>1. [imports[c] EXCEPT !.step = "compare"] \in Imports
    BY <1>2 DEF Imports
  <2>2. imports' \in [Clients -> {Idle} \cup Imports]
    BY <1>4, <2>1 DEF Tables
  <2>3. owed' \subseteq 1..reported /\ undated \subseteq owed'
    BY <1>2, <1>3 DEF Tables
  <2>4. QED
    BY <1>2, <2>2, <2>3 DEF Tables
<1>6. RowsStay
  BY <1>2, Numbers DEF RowsStay
<1>7. Owed(body)'
  BY <1>2 DEF Owed
<1>8. CacheOK'
  BY <1>2, <1>3, <1>7 DEF CacheOK, Owed
<1>9. ImportOK(c)'
  <2>1. CASE imports' = [imports EXCEPT ![c] = Idle]
    BY <2>1 DEF ImportOK, Tables
  <2>2. CASE imports' = [imports EXCEPT ![c] = [imports[c] EXCEPT !.step = "compare"]]
    <3>1. /\ imports'[c].step = "compare" /\ imports'[c].next = 1 /\ imports'[c].missing = {}
          /\ imports'[c].body = body
      BY <1>1, <1>2, <2>2 DEF ImportOK, Starts, Tables, Imports
    <3>2. \A t \in TradesOf(body) : ~(t < 1)
      BY <1>3, FlexImportAssumption DEF Trades
    <3>3. Starts(c)' /\ Covers(c)'
      BY <1>2, <1>3, <3>1, <3>2 DEF Starts, Covers
    <3>4. QED
      BY <1>7, <3>1, <3>3 DEF ImportOK, Owed
  <2>3. QED
    BY <1>4, <2>1, <2>2
<1>10. \A d \in Clients : ImportOK(d)'
  BY <1>4, <1>5, <1>6, <1>9, ImportsStay DEF Tables
<1>11. AttemptsOK'
  BY <1>2, <1>4, AttemptsStay DEF Tables
<1>12. QED
  BY <1>5, <1>8, <1>10, <1>11

\* The import of c goes from i to j by a trade that has a row, is missing or could not be
\* looked up.
Passes(c, i, j) ==
  /\ i = imports[c] /\ imports' = [imports EXCEPT ![c] = j]
  /\ i.step = "compare" /\ i.next \in TradesOf(i.body)
  /\ j = [i EXCEPT !.next = i.next + 1, !.missing = j.missing, !.unread = j.unread]
  /\ i.missing \subseteq j.missing /\ j.missing \subseteq i.missing \cup {i.next}
  /\ i.unread \subseteq j.unread /\ j.unread \subseteq i.unread \cup {i.next}
  /\ status[i.next] # "absent" \/ i.next \in j.missing \/ i.next \in j.unread
  /\ UNCHANGED <<reported, status, undated, deletes, rates, cache, config, attempts, owed>>

\* Such a step forgets no trade.
LEMMA TradeIsPassed ==
  ASSUME IndInv, NEW c \in Clients, NEW i, NEW j, Passes(c, i, j)
  PROVE  IndInv'
<1> USE DEF IndInv, Passes
<1>1. i # Idle /\ i \in Imports /\ ImportOK(c)
  BY DEF Tables, Idle
<1>2. i.body \in Bodies /\ TradesOf(i.body) \subseteq Trades /\ i.next \in Trades
  BY <1>1, BodySizes DEF Imports
<1>3. /\ j.step = "compare" /\ j.body = i.body /\ j.gone = i.gone /\ j.dated = i.dated
      /\ j.next = i.next + 1
  BY <1>1 DEF Imports
<1>4. j \in Imports
  <2>1. i.next + 1 \in 1..(MaxTrades + 1)
    BY <1>2, FlexImportAssumption DEF Trades
  <2>2. j.missing \subseteq Trades /\ j.unread \subseteq Trades
    BY <1>1, <1>2 DEF Imports
  <2>3. QED
    BY <1>1, <2>1, <2>2 DEF Imports
<1>5. imports'[c] = j
  BY DEF Tables
<1>6. Tables' /\ RowsStay
  BY <1>4, RowsUntouched DEF Tables
<1>7. ImportOK(c)'
  <2>1. Starts(c)'
    BY <1>1, <1>3, <1>5 DEF ImportOK, Starts
  <2>2. ASSUME NEW t \in TradesOf(i.body), t < i.next + 1 PROVE Knows(c, t)'
    <3>1. CASE t = i.next
      BY <1>5, <3>1 DEF Knows
    <3>2. CASE t # i.next
      <4>1. t < i.next
        BY <1>2, <2>2, <3>2, FlexImportAssumption DEF Trades
      <4>2. Knows(c, t)
        BY <1>1, <2>2, <4>1 DEF ImportOK, Covers
      <4>3. QED
        BY <1>3, <1>5, <4>2 DEF Knows
    <3>3. QED
      BY <3>1, <3>2
  <2>3. Covers(c)'
    BY <1>3, <1>5, <2>2 DEF Covers
  <2>4. ~i.dated => \A t \in TradesOf(i.body) : status'[t] = "absent" => t \in owed'
    BY <1>1 DEF ImportOK, Owed
  <2>5. QED
    BY <1>3, <1>5, <2>1, <2>3, <2>4 DEF ImportOK, Owed
<1>8. CacheOK' /\ \A d \in Clients : ImportOK(d)'
  BY <1>6, <1>7, CacheStays, ImportsStay DEF Tables
<1>9. AttemptsOK'
  BY AttemptsStay DEF Tables, Idle
<1>10. QED
  BY <1>6, <1>8, <1>9

(* A trade that could be looked up has a row or is missing.                *)
LEMMA CompareIbkrTransactionStep ==
  ASSUME IndInv, NEW c \in Clients, CompareIbkrTransaction(c)
  PROVE  IndInv'
<1>1. PICK i, j :
        /\ i = imports[c] /\ imports' = [imports EXCEPT ![c] = j]
        /\ j = [i EXCEPT !.next = i.next + 1,
                         !.missing = IF status[i.next] = "absent" THEN i.missing \cup {i.next}
                                                                  ELSE i.missing]
  BY DEF CompareIbkrTransaction
<1>2. i \in Imports /\ i.step = "compare" /\ i.next \in TradesOf(i.body)
  BY <1>1 DEF CompareIbkrTransaction, IndInv, Tables, Idle
<1>3. /\ j.missing = IF status[i.next] = "absent" THEN i.missing \cup {i.next} ELSE i.missing
      /\ j.unread = i.unread
      /\ j = [i EXCEPT !.next = i.next + 1, !.missing = j.missing, !.unread = j.unread]
  BY <1>1, <1>2 DEF Imports
<1>4. UNCHANGED <<reported, status, undated, deletes, rates, cache, config, attempts, owed>>
  BY DEF CompareIbkrTransaction
<1>5. Passes(c, i, j)
  BY <1>1, <1>2, <1>3, <1>4 DEF Passes
<1>6. QED
  BY <1>5, TradeIsPassed

(* A trade that could not be looked up is remembered as such.              *)
LEMMA CompareFailsStep ==
  ASSUME IndInv, NEW c \in Clients, CompareFails(c)
  PROVE  IndInv'
<1>1. PICK i, j : /\ i = imports[c] /\ imports' = [imports EXCEPT ![c] = j]
                  /\ j = [i EXCEPT !.next = i.next + 1, !.unread = i.unread \cup {i.next}]
  BY DEF CompareFails
<1>2. i \in Imports /\ i.step = "compare" /\ i.next \in TradesOf(i.body)
  BY <1>1 DEF CompareFails, IndInv, Tables, Idle
<1>3. /\ j.missing = i.missing /\ j.unread = i.unread \cup {i.next}
      /\ j = [i EXCEPT !.next = i.next + 1, !.missing = j.missing, !.unread = j.unread]
  BY <1>1, <1>2 DEF Imports
<1>4. UNCHANGED <<reported, status, undated, deletes, rates, cache, config, attempts, owed>>
  BY DEF CompareFails
<1>5. Passes(c, i, j)
  BY <1>1, <1>2, <1>3, <1>4 DEF Passes
<1>6. QED
  BY <1>5, TradeIsPassed

\* The missing trades get their rows together.  They are owed no longer when the report came
\* from IBKR, and were owed when it came from the cache.
LEMMA AddIbkrTransactionsStep ==
  ASSUME IndInv, NEW c \in Clients, AddIbkrTransactions(c)
  PROVE  IndInv'
<1> USE DEF IndInv
<1>1. PICK i, S : i = imports[c] /\ S = imports[c].missing
  OBVIOUS
<1>2. /\ i.step = "compare" /\ i # Idle /\ i \in Imports /\ ImportOK(c)
      /\ i.next > i.body.size
      /\ status' = [t \in Trades |-> IF t \in S THEN "pending" ELSE status[t]]
      /\ undated' = IF i.dated THEN undated \ S ELSE undated \cup S
      /\ owed' = IF i.dated THEN owed \ S ELSE owed
      /\ UNCHANGED <<reported, deletes, rates, cache, config, attempts>>
  BY <1>1 DEF AddIbkrTransactions, Insert, Compared, Tables, Idle
<1>3. PICK j : /\ imports' = [imports EXCEPT ![c] = j]
               /\ j = [i EXCEPT !.step = "rates", !.missing = {}, !.dated = TRUE]
  BY <1>1 DEF AddIbkrTransactions, Insert
<1>4. /\ j.step = "rates" /\ j.missing = {} /\ j.body = i.body /\ j.gone = i.gone
      /\ j.unread = i.unread /\ j.next = i.next /\ j \in Imports
  BY <1>2, <1>3 DEF Imports
<1>5. /\ i.body \in Bodies /\ TradesOf(i.body) \subseteq Trades
      /\ \A t \in TradesOf(i.body) : t \in Nat /\ t <= i.body.size
      /\ i.body.size \in Nat /\ i.body.size <= reported
  BY <1>1, <1>2, BodySizes, FlexImportAssumption DEF Imports, ImportOK, Starts, Trades
<1>6. /\ S \subseteq TradesOf(i.body)
      /\ \A t \in S : status[t] = "absent"
      /\ \A t \in S : t <= reported
  <2>1. S \subseteq TradesOf(i.body)
    BY <1>1, <1>2 DEF ImportOK, Starts
  <2>2. \A t \in S : status[t] = "absent"
    BY <1>1 DEF AddIbkrTransactions, Present
  <2>3. QED
    BY <1>5, <2>1, <2>2, Numbers
<1>7. /\ \A t \in S : status'[t] = "pending"
      /\ \A t \in Trades \ S : status'[t] = status[t]
      /\ S \subseteq Trades
  BY <1>2, <1>5, <1>6
<1>8. Tables'
  <2>1. status' \in [Trades -> {"absent", "pending", "ignored"}]
    BY <1>2 DEF Tables
  <2>2. \A t \in Trades : status'[t] # "absent" => t <= reported'
    BY <1>2, <1>6, <1>7 DEF Tables
  <2>3. undated' \subseteq owed'
    <3>1. CASE i.dated
      BY <1>2, <3>1 DEF Tables
    <3>2. CASE ~i.dated
      BY <1>1, <1>2, <1>6, <3>2 DEF Tables, ImportOK, Owed
    <3>3. QED
      BY <3>1, <3>2
  <2>4. undated \subseteq Trades /\ deletes \subseteq Trades
    BY Numbers, FlexImportAssumption DEF Tables, Trades
  <2>5. \A t \in undated' : status'[t] # "absent"
    BY <1>2, <1>7, <2>4 DEF Tables
  <2>6. \A t \in deletes' : status'[t] # "absent" /\ t \notin undated'
    BY <1>2, <1>6, <1>7, <2>4 DEF Tables
  <2>7. imports' \in [Clients -> {Idle} \cup Imports]
    BY <1>3, <1>4 DEF Tables
  <2>8. owed' \subseteq 1..reported'
    BY <1>2 DEF Tables
  <2>9. QED
    BY <1>2, <2>1, <2>2, <2>3, <2>4, <2>5, <2>6, <2>7, <2>8 DEF Tables
<1>9. RowsStay
  BY <1>2, <1>6, <1>7, Numbers DEF RowsStay
<1>10. ImportOK(c)'
  <2>1. imports'[c] = j
    BY <1>3 DEF Tables
  <2>2. Starts(c)'
    BY <1>2, <1>4, <1>5, <2>1 DEF Starts
  <2>3. ASSUME NEW t \in TradesOf(i.body) PROVE status'[t] # "absent" \/ t \in i.gone \cup i.unread
    <3>1. t < i.next
      BY <1>2, <1>5, FlexImportAssumption DEF Imports
    <3>2. status[t] # "absent" \/ t \in S \/ t \in i.gone \cup i.unread
      BY <1>1, <1>2, <3>1 DEF ImportOK, Covers, Knows
    <3>3. QED
      BY <1>5, <1>7, <3>2
  <2>4. Covers(c)'
    BY <1>2, <1>4, <2>1, <2>3 DEF Covers, Knows
  <2>5. QED
    BY <1>4, <2>1, <2>2, <2>4 DEF ImportOK
<1>11. CacheOK' /\ \A d \in Clients : ImportOK(d)'
  BY <1>2, <1>3, <1>8, <1>9, <1>10, CacheStays, ImportsStay DEF Tables
<1>12. AttemptsOK'
  BY <1>1, <1>2, <1>3, AttemptsStay DEF Tables
<1>13. QED
  BY <1>8, <1>11, <1>12

(* Rates do not concern the trades.                                        *)
LEMMA AddExchangeRatesStep ==
  ASSUME IndInv, NEW c \in Clients, AddExchangeRates(c)
  PROVE  IndInv'
<1> USE DEF IndInv
<1>1. PICK i, j : /\ i = imports[c] /\ j = [i EXCEPT !.step = "finish"]
                  /\ imports' = [imports EXCEPT ![c] = j]
  BY DEF AddExchangeRates
<1>2. /\ i.step = "rates" /\ i # Idle /\ i \in Imports /\ ImportOK(c)
      /\ rates' = rates \cup TradesOf(i.body)
      /\ UNCHANGED <<reported, status, undated, deletes, cache, config, attempts, owed>>
  BY <1>1 DEF AddExchangeRates, Tables, Idle
<1>3. /\ j.step = "finish" /\ j.missing = i.missing /\ j.body = i.body /\ j.gone = i.gone
      /\ j.unread = i.unread /\ j.next = i.next /\ j \in Imports
  BY <1>1, <1>2 DEF Imports
<1>4. TradesOf(i.body) \subseteq 1..reported
  <2>1. i.body.size \in Nat /\ i.body.size <= reported
    BY <1>1, <1>2, BodySizes DEF Imports, ImportOK, Starts
  <2>2. QED
    BY <2>1, Numbers DEF TradesOf
<1>5. Tables' /\ RowsStay
  <2>1. imports' \in [Clients -> {Idle} \cup Imports]
    BY <1>1, <1>3 DEF Tables
  <2>2. rates' \subseteq 1..reported
    BY <1>2, <1>4 DEF Tables
  <2>3. QED
    BY <1>2, <2>1, <2>2, RowsUntouched DEF Tables
<1>6. ImportOK(c)'
  <2>1. imports'[c] = j
    BY <1>1 DEF Tables
  <2>2. Starts(c)' /\ Covers(c)'
    BY <1>1, <1>2, <1>3, <2>1 DEF ImportOK, Starts, Covers, Knows
  <2>3. QED
    BY <1>3, <2>1, <2>2 DEF ImportOK
<1>7. CacheOK' /\ \A d \in Clients : ImportOK(d)'
  BY <1>1, <1>2, <1>5, <1>6, CacheStays, ImportsStay DEF Tables
<1>8. AttemptsOK'
  BY <1>1, <1>2, AttemptsStay DEF Tables
<1>9. QED
  BY <1>5, <1>7, <1>8

------------------------------------------------------------------------------
(* The invariants                                                          *)

(* The empty tables satisfy the invariant.                                 *)
LEMMA InitHolds == Init => IndInv
<1> SUFFICES ASSUME Init PROVE IndInv
  OBVIOUS
<1> USE FlexImportAssumption DEF Init
<1>1. Tables
  <2>1. config \in [query : Queries, last : BOOLEAN]
    OBVIOUS
  <2>2. QED
    BY <2>1 DEF Tables, Trades
<1>2. CacheOK
  BY DEF CacheOK, NoCache
<1>3. \A c \in Clients : ImportOK(c)
  BY DEF ImportOK
<1>4. AttemptsOK
  BY DEF AttemptsOK
<1>5. QED
  BY <1>1, <1>2, <1>3, <1>4 DEF IndInv

(* Every step keeps it.                                                    *)
LEMMA StepHolds == IndInv /\ [Next]_vars => IndInv'
<1> SUFFICES ASSUME IndInv, [Next]_vars PROVE IndInv'
  OBVIOUS
<1>1. ASSUME NEW c \in Clients, StartImport(c) PROVE IndInv'
  BY <1>1, StartImportStep
<1>2. ASSUME NEW c \in Clients, Continue(c) PROVE IndInv'
  BY <1>2, WriteImportCacheStep, CompareIbkrTransactionStep, AddIbkrTransactionsStep,
     AddIbkrTransactionsFailsStep, AddExchangeRatesStep, UpdateLastImportDateStep DEF Continue
<1>3. ASSUME NEW c \in Clients, CompareFails(c) \/ ImportStops(c) PROVE IndInv'
  BY <1>3, CompareFailsStep, ImportStopsStep
<1>4. ASSUME NEW q \in Queries,
             AnswerReport(q) \/ AnswerBroken(q) \/ AnswerNotReady(q) \/ FetchFails(q)
      PROVE  IndInv'
  BY <1>4, AnswerReportStep, AnswerBrokenStep, AnswerNotReadyStep, FetchFailsStep
<1>5. ASSUME NEW q \in Queries, UpdateIbkrConfig(q) PROVE IndInv'
  BY <1>5, ConfigStep
<1>6. ASSUME NEW t \in Trades,
             \/ IgnoreIbkrTransaction(t) \/ ReadTradeToDelete(t)
             \/ DeletionStops(t) \/ DeleteIbkrTransaction(t)
      PROVE  IndInv'
  BY <1>6, IgnoreStep, ReadTradeToDeleteStep, DeleteIbkrTransactionStep
<1>7. CASE NewTrade \/ CacheExpires \/ Restart \/ DeleteIbkrConfig
  BY <1>7, NewTradeStep, CacheExpiresStep, RestartStep, ConfigStep
<1>8. CASE UNCHANGED vars
  <2>1. Tables' /\ RowsStay
    BY <1>8, RowsUntouched DEF IndInv, Tables, vars
  <2>2. QED
    BY <1>8, <2>1, CalmStep DEF vars
<1>9. QED
  BY <1>1, <1>2, <1>3, <1>4, <1>5, <1>6, <1>7, <1>8 DEF Next

(* So it holds of every reachable state.                                   *)
LEMMA IndInvHolds == Spec => []IndInv
BY InitHolds, StepHolds, PTL DEF Spec

\* Every table holds what its columns allow, and nothing but trades that IBKR has reported.
THEOREM TypeCorrect == Spec => []ImportTypeOK
<1>1. IndInv => ImportTypeOK
  <2> SUFFICES ASSUME IndInv PROVE ImportTypeOK
    OBVIOUS
  <2> USE DEF IndInv
  <2>1. Present(Trades) \subseteq 1..reported /\ undated \subseteq Present(Trades)
    BY Numbers, FlexImportAssumption DEF Tables, Present, Trades
  <2>2. ASSUME NEW c \in Running PROVE imports[c] \in Imports
    BY DEF Running, Tables
  <2>3. cache \in Bodies \cup {NoCache}
    BY DEF CacheOK
  <2>4. QED
    BY <2>1, <2>2, <2>3 DEF ImportTypeOK, Tables, AttemptsOK, Imports
<1>2. QED
  BY <1>1, IndInvHolds, PTL

\* An import that has stored its trades finds its whole report in the inbox, but for what
\* was deleted while it ran and what it could not look up, whatever other imports did.
THEOREM StoredMeansInInboxHolds == Spec => []StoredMeansInInbox
<1>1. IndInv => StoredMeansInInbox
  <2> SUFFICES ASSUME IndInv, NEW c \in Running, imports[c].step \in {"rates", "finish"},
                      NEW t \in TradesOf(imports[c].body)
               PROVE  t \in Present(Trades) \cup imports[c].gone \cup imports[c].unread
    BY DEF StoredMeansInInbox
  <2>1. c \in Clients /\ imports[c] # Idle /\ imports[c].body \in Bodies
    BY DEF IndInv, Tables, Imports, Running
  <2>2. t \in Trades
    BY <2>1, BodySizes
  <2>3. Covers(c)
    BY <2>1 DEF IndInv, ImportOK
  <2>4. QED
    BY <2>2, <2>3 DEF Covers, Knows, Present
<1>2. QED
  BY <1>1, IndInvHolds, PTL

\* Only a trade that an import cached and did not insert, or that was deleted, can come back
\* without the time of its import.
THEOREM DatedUnlessOwedHolds == Spec => []DatedUnlessOwed
<1>1. IndInv => DatedUnlessOwed
  BY DEF IndInv, Tables, DatedUnlessOwed
<1>2. QED
  BY <1>1, IndInvHolds, PTL

------------------------------------------------------------------------------
(* Imports implement the inbox                                             *)

\* The inbox sees the rows and the deletions under way, and nothing else.
InboxRequests == {[op |-> "DeleteIbkrTransaction", trade |-> t] : t \in deletes}

(* What touches neither rows nor deletions is invisible to the inbox.      *)
LEMMA Stutters == UNCHANGED <<status, deletes>> => UNCHANGED Inbox!vars
BY DEF Inbox!vars

\* A deletion begins only while some trade is not being deleted.
LEMMA RequestsFit ==
  ASSUME IndInv, NEW t \in Trades \ deletes
  PROVE  Cardinality(InboxRequests) < Cardinality(Trades)
<1>1. IsFiniteSet(Trades)
  BY FS_Interval, FlexImportAssumption DEF Trades
<1>2. IsFiniteSet(deletes) /\ Cardinality(deletes) \in Nat
  BY <1>1, FS_Subset, FS_CardinalityType DEF IndInv, Tables
<1>3. Cardinality(deletes \cup {t}) = Cardinality(deletes) + 1
  BY <1>2, FS_AddElement
<1>4. Cardinality(deletes \cup {t}) <= Cardinality(Trades)
  BY <1>1, FS_Subset DEF IndInv, Tables
<1>5. IsFiniteSet(InboxRequests) /\ Cardinality(InboxRequests) <= Cardinality(deletes)
  <2> DEFINE f == [u \in deletes |-> [op |-> "DeleteIbkrTransaction", trade |-> u]]
  <2>1. f \in Surjection(deletes, InboxRequests)
    BY DEF Surjection, InboxRequests
  <2>2. QED
    BY <1>2, <2>1, FS_Surjection
<1>6. Cardinality(InboxRequests) \in Nat /\ Cardinality(Trades) \in Nat
  BY <1>1, <1>5, FS_CardinalityType
<1>7. QED
  BY <1>2, <1>3, <1>4, <1>5, <1>6

(* The empty tables are the empty inbox.                                   *)
LEMMA InboxInit == Init => Inbox!Init
BY DEF Init, Inbox!Init, Inbox!NoDividend

\* The trades inserted together are one import of the inbox, or none.
LEMMA InsertIsImport ==
  ASSUME IndInv, NEW c \in Clients, AddIbkrTransactions(c)
  PROVE  [Inbox!Next]_(Inbox!vars)
<1>1. PICK S : S = imports[c].missing
  OBVIOUS
<1>2. /\ status' = [t \in Trades |-> IF t \in S THEN "pending" ELSE status[t]]
      /\ deletes' = deletes
      /\ \A t \in S : status[t] = "absent"
  BY <1>1 DEF AddIbkrTransactions, Insert, Present
<1>3. S \subseteq Trades
  BY <1>1 DEF AddIbkrTransactions, Compared, IndInv, Tables, Idle, Imports
<1>4. CASE S = {}
  <2>1. status' = status
    BY <1>2, <1>4 DEF IndInv, Tables
  <2>2. QED
    BY <1>2, <2>1, Stutters
<1>5. CASE S # {}
  <2>1. Inbox!Import(S)
    BY <1>2 DEF Inbox!Import
  <2>2. QED
    <3>1. S \in (SUBSET Trades) \ {{}}
      BY <1>3, <1>5
    <3>2. QED
      BY <2>1, <3>1, Zenon DEF Inbox!Next
<1>6. QED
  BY <1>4, <1>5

(* A decision is the inbox's.                                              *)
LEMMA IgnoreIsIgnore ==
  ASSUME NEW t \in Trades, IgnoreIbkrTransaction(t)
  PROVE  Inbox!Next
<1>1. Inbox!IgnoreIbkrTransaction(t)
  BY DEF IgnoreIbkrTransaction, Inbox!IgnoreIbkrTransaction
<1>2. QED
  BY <1>1 DEF Inbox!Next, Inbox!InboxStep

(* The inbox counts as this module does.                                   *)
LEMMA InboxCardinality == \A S : Inbox!Cardinality(S) = Cardinality(S)
BY DEF Inbox!Cardinality, Cardinality

(* A deletion begins as in the inbox, within its bound.                    *)
LEMMA ReadIsRead ==
  ASSUME IndInv, NEW t \in Trades, ReadTradeToDelete(t)
  PROVE  Inbox!Next
<1>1. Cardinality(InboxRequests) < Cardinality(Trades)
  BY RequestsFit DEF ReadTradeToDelete
<1>2. InboxRequests' = InboxRequests \cup {[op |-> "DeleteIbkrTransaction", trade |-> t]}
  BY DEF ReadTradeToDelete, InboxRequests
<1>3. Inbox!ReadTradeToDelete(t)
  BY <1>1, <1>2, InboxCardinality, Zenon DEF ReadTradeToDelete, Inbox!ReadTradeToDelete, InboxRequests
<1>4. QED
  BY <1>3 DEF Inbox!Next, Inbox!InboxStep

\* Removing a deletion under way.
LEMMA RequestGoes ==
  ASSUME NEW t \in deletes, deletes' = deletes \ {t}, NEW r,
         r = [op |-> "DeleteIbkrTransaction", trade |-> t]
  PROVE  r \in InboxRequests /\ InboxRequests' = InboxRequests \ {r}
<1>1. \A u : [op |-> "DeleteIbkrTransaction", trade |-> u] = r => u = t
  OBVIOUS
<1>2. QED
  BY <1>1 DEF InboxRequests

(* A deletion that is refused ends as in the inbox.                        *)
LEMMA StopIsEnd ==
  ASSUME NEW t \in Trades, DeletionStops(t)
  PROVE  Inbox!Next
<1>1. PICK r : r = [op |-> "DeleteIbkrTransaction", trade |-> t]
  OBVIOUS
<1>2. r \in InboxRequests /\ InboxRequests' = InboxRequests \ {r}
  BY <1>1, RequestGoes DEF DeletionStops
<1>3. Inbox!EndRequest(r)
  BY <1>2 DEF Inbox!EndRequest, InboxRequests, DeletionStops
<1>4. QED
  BY <1>2, <1>3 DEF Inbox!Next, InboxRequests

(* A deletion deletes as in the inbox.                                     *)
LEMMA DeleteIsDelete ==
  ASSUME NEW t \in Trades, DeleteIbkrTransaction(t)
  PROVE  Inbox!Next
<1>1. PICK r : r = [op |-> "DeleteIbkrTransaction", trade |-> t]
  OBVIOUS
<1>2. r \in InboxRequests /\ InboxRequests' = InboxRequests \ {r}
  BY <1>1, RequestGoes DEF DeleteIbkrTransaction
<1>3. Inbox!OnTrade(t) = {r}
  <2>1. r.op = "DeleteIbkrTransaction" /\ r.trade = t
    BY <1>1
  <2>2. \A x \in InboxRequests : x.trade = t => x = r
    BY <1>1 DEF InboxRequests
  <2>3. QED
    BY <1>2, <2>1, <2>2, Zenon DEF Inbox!OnTrade, InboxRequests
<1>4. Inbox!DeleteIbkrTransaction(t)
  BY <1>2, <1>3 DEF DeleteIbkrTransaction, Inbox!DeleteIbkrTransaction, Inbox!AllocationsOf,
     InboxRequests
<1>5. QED
  BY <1>4 DEF Inbox!Next, Inbox!InboxStep

(* Every step is one of the inbox or a stutter.                            *)
LEMMA StepIsInboxStep == IndInv /\ [Next]_vars => [Inbox!Next]_(Inbox!vars)
<1> SUFFICES ASSUME IndInv, [Next]_vars PROVE [Inbox!Next]_(Inbox!vars)
  OBVIOUS
<1>1. ASSUME NEW c \in Clients, StartImport(c) \/ CompareFails(c) \/ ImportStops(c)
      PROVE  UNCHANGED Inbox!vars
  BY <1>1, Stutters DEF StartImport, StartFromCache, StartFromIbkr, CompareFails, ImportStops
<1>2. ASSUME NEW c \in Clients, Continue(c) PROVE [Inbox!Next]_(Inbox!vars)
  <2>1. CASE AddIbkrTransactions(c)
    BY <2>1, InsertIsImport
  <2>2. CASE \/ WriteImportCache(c) \/ CompareIbkrTransaction(c) \/ AddIbkrTransactionsFails(c)
             \/ AddExchangeRates(c) \/ UpdateLastImportDate(c)
    BY <2>2, Stutters DEF WriteImportCache, CompareIbkrTransaction, AddIbkrTransactionsFails,
       AddExchangeRates, UpdateLastImportDate
  <2>3. QED
    BY <1>2, <2>1, <2>2 DEF Continue
<1>3. ASSUME NEW q \in Queries,
             \/ AnswerReport(q) \/ AnswerBroken(q) \/ AnswerNotReady(q) \/ FetchFails(q)
             \/ UpdateIbkrConfig(q)
      PROVE  UNCHANGED Inbox!vars
  BY <1>3, Stutters DEF AnswerReport, AnswerBroken, AnswerNotReady, Returned, FetchFails,
     UpdateIbkrConfig
<1>4. ASSUME NEW t \in Trades,
             \/ IgnoreIbkrTransaction(t) \/ ReadTradeToDelete(t)
             \/ DeletionStops(t) \/ DeleteIbkrTransaction(t)
      PROVE  Inbox!Next
  BY <1>4, IgnoreIsIgnore, ReadIsRead, StopIsEnd, DeleteIsDelete
<1>5. CASE NewTrade \/ CacheExpires \/ Restart \/ DeleteIbkrConfig
  BY <1>5, Stutters DEF NewTrade, CacheExpires, Restart, DeleteIbkrConfig
<1>6. CASE UNCHANGED vars
  BY <1>6, Stutters DEF vars
<1>7. QED
  BY <1>1, <1>2, <1>3, <1>4, <1>5, <1>6 DEF Next

\* To the inbox of module IbkrInbox an import is the insertion of trades without a row, all
\* at once: no decision is undone, and a deletion deletes the row that was read.
THEOREM ImportsImplementInbox == Spec => ImplementsInbox
<1>1. Init => Inbox!Init
  BY InboxInit
<1>2. IndInv /\ [Next]_vars => [Inbox!Next]_(Inbox!vars)
  BY StepIsInboxStep
<1>3. QED
  BY <1>1, <1>2, IndInvHolds, PTL DEF Spec, ImplementsInbox, Inbox!Spec
=============================================================================
