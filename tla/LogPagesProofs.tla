--------------------------- MODULE LogPagesProofs ---------------------------
(***************************************************************************)
(* Proofs about LogPages: the type invariant; the order in which entries   *)
(* pass through the queue and the batch; that Flush and Close return after *)
(* what they wait for; that the handler runs with the configuration of the *)
(* tables; and that walks through the log are complete.                    *)
(*                                                                         *)
(* A step disturbs few variables.  QueueSteps, ConfigSteps, TableSteps and *)
(* WalkSteps say what a step can do to the queue and its writer, to the    *)
(* configuration, to the table and to the walks; each part of the invariant *)
(* is proved from the one that matters to it.                              *)
(***************************************************************************)
EXTENDS LogPages, SequenceTheorems, FiniteSetTheorems, TLAPS

(* Every level has a name.                                                 *)
LEMMA SlogLevelToDBStringType == \A level \in Int : SlogLevelToDBString(level) \in Names
<1> SUFFICES ASSUME NEW level \in Int PROVE SlogLevelToDBString(level) \in Names
  OBVIOUS
<1> DEFINE reached == {n \in Names : DBStringToSlogLevel[n] <= level}
           Highest(n) == \A o \in reached : DBStringToSlogLevel[o] <= DBStringToSlogLevel[n]
<1>1. Names = {"CRITICAL", "ERROR", "WARNING", "INFO", "DEBUG"}
  BY DEF Names, DBStringToSlogLevel
<1>2. /\ DBStringToSlogLevel["CRITICAL"] = 12 /\ DBStringToSlogLevel["ERROR"] = 8
      /\ DBStringToSlogLevel["WARNING"] = 4 /\ DBStringToSlogLevel["INFO"] = 0
      /\ DBStringToSlogLevel["DEBUG"] = -4
  BY DEF DBStringToSlogLevel
<1>3. reached # {} => \E n \in reached : Highest(n)
  <2>1. CASE "CRITICAL" \in reached
    BY <1>1, <1>2, <2>1
  <2>2. CASE "ERROR" \in reached /\ "CRITICAL" \notin reached
    BY <1>1, <1>2, <2>2
  <2>3. CASE "WARNING" \in reached /\ "ERROR" \notin reached
    BY <1>1, <1>2, <2>3
  <2>4. CASE "INFO" \in reached /\ "WARNING" \notin reached
    BY <1>1, <1>2, <2>4
  <2>5. CASE reached \subseteq {"DEBUG"}
    BY <1>1, <1>2, <2>5
  <2> QED BY <1>1, <2>1, <2>2, <2>3, <2>4, <2>5
<1>4. reached # {} => (CHOOSE n \in reached : Highest(n)) \in reached
  BY <1>3
<1> QED
  BY <1>1, <1>4 DEF SlogLevelToDBString

(* BuildEntry makes a row of the table log of a record, under the id of    *)
(* the record.                                                             *)
LEMMA BuildEntryProperties ==
  ASSUME present \in Mixes, NEW record \in present.records
  PROVE  /\ BuildEntry(record) \in Entry
         /\ BuildEntry(record).id = record.id
         /\ record.id \in Ids
<1>1. record \in [id : Ids, timestamp : 0..LastSecond, level : Int]
  BY LogWriterAssumption
<1>2. SlogLevelToDBString(record.level) \in Names
  BY <1>1, SlogLevelToDBStringType
<1>3. BuildEntry(record) = [id |-> record.id, timestamp |-> record.timestamp, level |-> SlogLevelToDBString(record.level)]
  BY <1>1 DEF BuildEntry
<1> QED
  BY <1>1, <1>2, <1>3 DEF Entry

(* The parts of the type invariant: the queue with its writer and callers,   *)
(* the configuration with its requests, the clock and the table.            *)
QueueTypeOK ==
    /\ queue \in Seq(Entry) /\ batch \in Seq(Entry) /\ accepted \in Seq(Entry) /\ settled \in Seq(Entry)
    /\ Len(queue) <= QueueSize
    /\ failed \subseteq Entry

WriterTypeOK ==
    /\ writer \in [at : {"select", "drain", "final drain", "write", "final write", "stopped"},
                   ackTo : Callers \union {NoOne}]
    /\ closed \in BOOLEAN /\ closedAt \in Nat
    /\ call \in [Callers -> [op : {"none", "Flush", "Close"},
                             at : {"idle", "asks", "waits", "returned"}, mark : Nat]]

ConfigTypeOK ==
    /\ setting \in Config /\ running \in {Apply(config) : config \in Config} /\ unapplied \in BOOLEAN
    /\ setter \in [Setters -> [at : {"idle", "committed", "read", "enabled"}, read : Config]]

TableTypeOK == clock \in 0..LastSecond /\ used \subseteq Ids /\ table \subseteq Entry

(* What a step does to the queue and its writer. *)
QueueStep ==
    \/ UNCHANGED queueVars
    \/ \E record \in present.records : Handle(record)
    \/ WriterStep
    \/ \E c \in Callers : Flush(c) \/ Close(c) \/ WriterHasStopped(c)
    \/ Restart

(* What any step can do to the queue, its writer and its callers.          *)
LEMMA QueueSteps == [PagesNext]_pageVars => QueueStep
<1> SUFFICES ASSUME [PagesNext]_pageVars PROVE QueueStep
  OBVIOUS
<1>1. CASE LogNext /\ ~UNCHANGED queueVars
  BY <1>1 DEF LogNext, QueueStep, CommitConfig, ReadConfig, ReadConfigFails, SetEnabled, SetLevel, Second
<1>2. CASE \E r \in Readers \intersect present.clients : (\E f \in Filters : StartWalk(r, f)) \/ GetLogs(r) \/ GetLogsInPart(r)
  BY <1>2 DEF StartWalk, GetLogs, GetLogsInPart, logVars, QueueStep, queueVars
<1>3. CASE DeleteLogs
  BY <1>3 DEF DeleteLogs, QueueStep
<1>4. CASE UNCHANGED pageVars
  BY <1>4 DEF pageVars, logVars, QueueStep, queueVars
<1> QED
  BY <1>1, <1>2, <1>3, <1>4 DEF PagesNext, QueueStep

(* What a step does to the configuration. *)
ConfigStep ==
    \/ UNCHANGED configVars
    \/ \E s \in Setters :
         \/ \E new \in Config : CommitConfig(s, new)
         \/ ReadConfig(s) \/ ReadConfigFails(s) \/ SetEnabled(s) \/ SetLevel(s)
    \/ Restart

(* What any step can do to the configuration.                              *)
LEMMA ConfigSteps == [PagesNext]_pageVars => ConfigStep
<1> SUFFICES ASSUME [PagesNext]_pageVars PROVE ConfigStep
  OBVIOUS
<1>1. CASE LogNext /\ ~UNCHANGED configVars
  <2>1. WriterStep => UNCHANGED configVars
    BY DEF WriterStep, ReceiveEntry, FlushTick, TakeDone, DrainOne, DrainEnds, FlushBatch,
           FlushBatchFails, AfterWrite, TakeFlush
  <2>2. \A record : Handle(record) => UNCHANGED configVars
    BY DEF Handle
  <2>3. \A c : Flush(c) \/ Close(c) \/ WriterHasStopped(c) => UNCHANGED configVars
    BY DEF Flush, Close, WriterHasStopped
  <2> QED
    BY <1>1, <2>1, <2>2, <2>3 DEF LogNext, ConfigStep, Second
<1>2. CASE \E r \in Readers \intersect present.clients : (\E f \in Filters : StartWalk(r, f)) \/ GetLogs(r) \/ GetLogsInPart(r)
  BY <1>2 DEF StartWalk, GetLogs, GetLogsInPart, logVars, ConfigStep, configVars
<1>3. CASE DeleteLogs
  BY <1>3 DEF DeleteLogs, ConfigStep
<1>4. CASE UNCHANGED pageVars
  BY <1>4 DEF pageVars, logVars, ConfigStep, configVars
<1> QED
  BY <1>1, <1>2, <1>3, <1>4 DEF PagesNext, ConfigStep

(* What a step does to the clock, the uuids given out and the table. *)
TableStep ==
    \/ UNCHANGED <<clock, used, table>>
    \/ \E record \in present.records : Handle(record)
    \/ FlushBatch
    \/ Second
    \/ DeleteLogs

(* What any step can do to the table and to the walks through it.          *)
LEMMA TableSteps == [PagesNext]_pageVars => TableStep
<1> SUFFICES ASSUME [PagesNext]_pageVars PROVE TableStep
  OBVIOUS
<1>1. CASE LogNext
  <2>1. WriterStep => FlushBatch \/ UNCHANGED <<clock, used, table>>
    BY DEF WriterStep, ReceiveEntry, FlushTick, TakeDone, DrainOne, DrainEnds,
           FlushBatchFails, AfterWrite, TakeFlush
  <2>2. \A c : Flush(c) \/ Close(c) \/ WriterHasStopped(c) => UNCHANGED <<clock, used, table>>
    BY DEF Flush, Close, WriterHasStopped
  <2>3. \A s : (\E new \in Config : CommitConfig(s, new)) \/ ReadConfig(s) \/ ReadConfigFails(s)
               \/ SetEnabled(s) \/ SetLevel(s) => UNCHANGED <<clock, used, table>>
    BY DEF CommitConfig, ReadConfig, ReadConfigFails, SetEnabled, SetLevel
  <2>4. Restart => UNCHANGED <<clock, used, table>>
    BY DEF Restart
  <2> QED
    BY <1>1, <2>1, <2>2, <2>3, <2>4 DEF LogNext, TableStep
<1>2. CASE \E r \in Readers \intersect present.clients : (\E f \in Filters : StartWalk(r, f)) \/ GetLogs(r) \/ GetLogsInPart(r)
  BY <1>2 DEF StartWalk, GetLogs, GetLogsInPart, logVars, TableStep
<1>3. CASE UNCHANGED pageVars
  BY <1>3 DEF pageVars, logVars, TableStep
<1> QED
  BY <1>1, <1>2, <1>3 DEF PagesNext, TableStep

(* The kinds of clients are chosen at the start.                           *)
LEMMA MixIsKept == [PagesNext]_pageVars => present' = present
  BY DEF PagesNext, pageVars, LogNext, StartWalk, GetLogs, GetLogsInPart, DeleteLogs

(* Queue and batch keep their types and capacity.                          *)
LEMMA QueueTypes ==
  QueueTypeOK /\ present \in Mixes /\ [PagesNext]_pageVars => QueueTypeOK'
<1> SUFFICES ASSUME QueueTypeOK, present \in Mixes, [PagesNext]_pageVars PROVE QueueTypeOK'
  OBVIOUS
<1>Q. QueueStep
  BY QueueSteps
<1>E. <<>> \in Seq(Entry) /\ Len(<<>>) = 0
  BY EmptySeq
<1>0. Len(queue) \in Nat
  BY LenProperties DEF QueueTypeOK
<1>1. CASE UNCHANGED queueVars
  BY <1>1 DEF QueueTypeOK, queueVars
<1>2. ASSUME NEW record \in present.records, Handle(record) PROVE QueueTypeOK'
  <2>1. BuildEntry(record) \in Entry
    BY BuildEntryProperties
  <2>2. CASE Len(queue) < QueueSize
    <3>1. queue' = Append(queue, BuildEntry(record)) /\ accepted' = Append(accepted, BuildEntry(record))
      BY <1>2, <2>2 DEF Handle
    <3>2. queue' \in Seq(Entry) /\ Len(queue') = Len(queue) + 1
      BY <2>1, <3>1, AppendProperties DEF QueueTypeOK
    <3>3. accepted' \in Seq(Entry)
      BY <2>1, <3>1, AppendProperties DEF QueueTypeOK
    <3>4. Len(queue') <= QueueSize
      BY <3>2, <2>2, <1>0, LogWriterAssumption
    <3> QED BY <1>2, <3>2, <3>3, <3>4 DEF Handle, QueueTypeOK
  <2>3. CASE ~(Len(queue) < QueueSize)
    BY <1>2, <2>3 DEF Handle, QueueTypeOK
  <2> QED BY <2>2, <2>3
<1>3. CASE ReceiveEntry \/ DrainOne
  <2>1. queue # <<>> /\ batch' = Append(batch, Head(queue)) /\ queue' = Tail(queue)
    BY <1>3 DEF ReceiveEntry, DrainOne
  <2>2. Head(queue) \in Entry /\ queue' \in Seq(Entry) /\ Len(queue') = Len(queue) - 1
    BY <2>1, HeadTailProperties DEF QueueTypeOK
  <2>3. batch' \in Seq(Entry)
    BY <2>1, <2>2, AppendProperties DEF QueueTypeOK
  <2>4. Len(queue') <= QueueSize
    BY <2>2, <1>0, LogWriterAssumption DEF QueueTypeOK
  <2> QED BY <1>3, <2>2, <2>3, <2>4 DEF ReceiveEntry, DrainOne, QueueTypeOK
<1>4. CASE FlushBatch \/ FlushBatchFails
  <2>1. /\ batch' = <<>> /\ settled' = settled \o batch
        /\ UNCHANGED <<queue, accepted>>
        /\ failed' = failed \/ failed' = failed \union BatchSet
    BY <1>4 DEF FlushBatch, FlushBatchFails, AfterWrite
  <2>2. settled' \in Seq(Entry)
    BY <2>1, ConcatProperties DEF QueueTypeOK
  <2>3. BatchSet \subseteq Entry
    BY ElementOfSeq DEF BatchSet, QueueTypeOK
  <2> QED BY <2>1, <2>2, <2>3, <1>E DEF QueueTypeOK
<1>5. CASE \/ FlushTick \/ TakeDone \/ DrainEnds \/ \E c \in Callers : TakeFlush(c)
           \/ \E c \in Callers : Flush(c) \/ Close(c) \/ WriterHasStopped(c)
  BY <1>5 DEF FlushTick, TakeDone, DrainEnds, TakeFlush, Flush, Close, WriterHasStopped, QueueTypeOK
<1>6. CASE Restart
  BY <1>6, <1>E, LogWriterAssumption DEF Restart, QueueTypeOK
<1> QED BY <1>Q, <1>1, <1>2, <1>3, <1>4, <1>5, <1>6 DEF QueueStep, WriterStep

Places == {"select", "drain", "final drain", "write", "final write", "stopped"}
CallRecord == [op : {"none", "Flush", "Close"}, at : {"idle", "asks", "waits", "returned"}, mark : Nat]

(* Writer and callers keep theirs.                                         *)
LEMMA WriterTypes ==
  WriterTypeOK /\ QueueTypeOK /\ present \in Mixes /\ [PagesNext]_pageVars => WriterTypeOK'
<1> SUFFICES ASSUME WriterTypeOK, QueueTypeOK, present \in Mixes, [PagesNext]_pageVars
             PROVE  WriterTypeOK'
  OBVIOUS
<1>Q. QueueStep
  BY QueueSteps
<1>0. Owed \in Nat
  BY LenProperties DEF Owed, WriterTypeOK, QueueTypeOK
<1>1. CASE UNCHANGED queueVars
  BY <1>1 DEF WriterTypeOK, queueVars
<1>2. CASE \E record \in present.records : Handle(record)
  BY <1>2 DEF Handle, WriterTypeOK
<1>P. /\ Places = {"select", "drain", "final drain", "write", "final write", "stopped"}
      /\ \A at \in Places, c \in Callers \union {NoOne} :
            [at |-> at, ackTo |-> c] \in [at : Places, ackTo : Callers \union {NoOne}]
  BY DEF Places
<1>W. writer = [at |-> writer.at, ackTo |-> writer.ackTo] /\ writer.at \in Places /\ writer.ackTo \in Callers \union {NoOne}
  BY DEF WriterTypeOK, Places
<1>3. CASE ReceiveEntry \/ FlushTick \/ TakeDone \/ DrainOne \/ DrainEnds
  <2>1. UNCHANGED <<closed, closedAt, call>>
    BY <1>3 DEF ReceiveEntry, FlushTick, TakeDone, DrainOne, DrainEnds
  <2>2. writer' = writer \/ \E at \in Places, c \in Callers \union {NoOne} : WriterGoes(at, c)
    BY <1>3, <1>P, <1>W DEF ReceiveEntry, FlushTick, TakeDone, DrainOne, DrainEnds
  <2>3. writer' \in [at : Places, ackTo : Callers \union {NoOne}]
    <3>1. writer \in [at : Places, ackTo : Callers \union {NoOne}]
      BY DEF WriterTypeOK, Places
    <3>2. ASSUME NEW at \in Places, NEW c \in Callers \union {NoOne}, WriterGoes(at, c)
          PROVE  writer' \in [at : Places, ackTo : Callers \union {NoOne}]
      BY <3>2 DEF WriterGoes
    <3> QED BY <2>2, <3>1, <3>2
  <2> QED BY <2>1, <2>3 DEF WriterTypeOK, Places
<1>4. CASE FlushBatch \/ FlushBatchFails
  <2>1. /\ call' = [c \in Callers |-> IF c = writer.ackTo THEN [call[c] EXCEPT !.at = "returned"] ELSE call[c]]
        /\ WriterGoes("stopped", NoOne) \/ WriterGoes("select", NoOne)
        /\ UNCHANGED <<closed, closedAt>>
    BY <1>4 DEF FlushBatch, FlushBatchFails, AfterWrite
  <2>2. \A c \in Callers : [call[c] EXCEPT !.at = "returned"] \in CallRecord
    BY DEF WriterTypeOK, CallRecord
  <2>3. call' \in [Callers -> CallRecord]
    BY <2>1, <2>2 DEF WriterTypeOK, CallRecord
  <2>4. writer' \in [at : Places, ackTo : Callers \union {NoOne}]
    <3>1. PICK at \in Places : writer' = [at |-> at, ackTo |-> NoOne]
      BY <2>1 DEF WriterGoes, Places
    <3> QED BY <3>1
  <2> QED BY <2>1, <2>3, <2>4 DEF WriterTypeOK, Places, CallRecord
<1>5. ASSUME NEW c \in Callers, TakeFlush(c) PROVE WriterTypeOK'
  <2>1. WriterGoes("drain", c) /\ call' = [call EXCEPT ![c].at = "waits"] /\ UNCHANGED <<closed, closedAt>>
    BY <1>5 DEF TakeFlush
  <2>2. call' \in [Callers -> CallRecord]
    BY <2>1 DEF WriterTypeOK, CallRecord
  <2> QED BY <2>1, <2>2, <1>P DEF WriterTypeOK, WriterGoes, CallRecord
<1>6. ASSUME NEW c \in Callers, Flush(c) \/ Close(c) \/ WriterHasStopped(c) PROVE WriterTypeOK'
  <2>1. /\ UNCHANGED writer /\ closed' \in BOOLEAN
        /\ UNCHANGED closedAt \/ closedAt' = Owed
    BY <1>6 DEF Flush, Close, WriterHasStopped, WriterTypeOK
  <2>2. call' \in [Callers -> CallRecord]
    <3>1. CASE Flush(c) \/ Close(c)
      <4>1. PICK op \in {"Flush", "Close"} : call' = [call EXCEPT ![c] = [op |-> op, at |-> "asks", mark |-> Owed]]
        BY <3>1 DEF Flush, Close
      <4> QED BY <4>1, <1>0 DEF WriterTypeOK, CallRecord
    <3>2. CASE WriterHasStopped(c)
      BY <3>2 DEF WriterHasStopped, WriterTypeOK, CallRecord
    <3> QED BY <1>6, <3>1, <3>2
  <2> QED BY <2>1, <2>2, <1>0 DEF WriterTypeOK, CallRecord
<1>7. CASE Restart
  BY <1>7 DEF Restart, WriterTypeOK, Idle, AtSelect
<1> QED BY <1>Q, <1>1, <1>2, <1>3, <1>4, <1>5, <1>6, <1>7 DEF QueueStep, WriterStep

(* The defaults are a configuration.                                       *)
LEMMA DefaultConfigType == DefaultConfig \in Config
  BY LogWriterAssumption DEF DefaultConfig, Config

(* Settings, levels and setters keep their types.                          *)
LEMMA ConfigTypes ==
  ConfigTypeOK /\ [PagesNext]_pageVars => ConfigTypeOK'
<1> SUFFICES ASSUME ConfigTypeOK, [PagesNext]_pageVars PROVE ConfigTypeOK'
  OBVIOUS
<1>Q. ConfigStep
  BY ConfigSteps
<1>0. NotSetting \in [at : {"idle", "committed", "read", "enabled"}, read : Config]
  BY DefaultConfigType DEF NotSetting
<1>1. CASE UNCHANGED configVars
  BY <1>1 DEF ConfigTypeOK, configVars
<1>2. ASSUME NEW s \in Setters, NEW new \in Config, CommitConfig(s, new) PROVE ConfigTypeOK'
  BY <1>2 DEF CommitConfig, ConfigTypeOK
<1>3. ASSUME NEW s \in Setters, ReadConfig(s) \/ ReadConfigFails(s) PROVE ConfigTypeOK'
  <2>1. PICK new \in [at : {"idle", "committed", "read", "enabled"}, read : Config] :
           setter' = [setter EXCEPT ![s] = new]
    BY <1>3, <1>0 DEF ReadConfig, ReadConfigFails, ConfigTypeOK
  <2> QED BY <1>3, <2>1 DEF ReadConfig, ReadConfigFails, ConfigTypeOK
<1>4. ASSUME NEW s \in Setters, SetEnabled(s) PROVE ConfigTypeOK'
  <2>1. PICK config \in Config : running = Apply(config)
    BY DEF ConfigTypeOK
  <2> DEFINE new == [enabled |-> setter[s].read.enabled, level |-> config.level]
  <2>2. running' = Apply(new) /\ new \in Config
    BY <1>4, <2>1 DEF SetEnabled, Apply, Config, ConfigTypeOK
  <2> QED BY <1>4, <2>2 DEF SetEnabled, ConfigTypeOK
<1>5. ASSUME NEW s \in Setters, SetLevel(s) PROVE ConfigTypeOK'
  <2>1. PICK config \in Config : running = Apply(config)
    BY DEF ConfigTypeOK
  <2> DEFINE new == [enabled |-> config.enabled, level |-> setter[s].read.level]
  <2>2. running' = Apply(new) /\ new \in Config
    BY <1>5, <2>1 DEF SetLevel, Apply, Config, ConfigTypeOK
  <2> QED BY <1>5, <2>2, <1>0 DEF SetLevel, ConfigTypeOK
<1>6. CASE Restart
  BY <1>6, <1>0 DEF Restart, ConfigTypeOK
<1> QED BY <1>Q, <1>1, <1>2, <1>3, <1>4, <1>5, <1>6 DEF ConfigStep

(* Table and walks keep their types.                                       *)
LEMMA TableTypes ==
  TableTypeOK /\ QueueTypeOK /\ present \in Mixes /\ [PagesNext]_pageVars => TableTypeOK'
<1> SUFFICES ASSUME TableTypeOK, QueueTypeOK, present \in Mixes, [PagesNext]_pageVars
             PROVE  TableTypeOK'
  OBVIOUS
<1>Q. TableStep
  BY TableSteps
<1>0. present.records \subseteq [id : Ids, timestamp : 0..LastSecond, level : Int]
  BY LogWriterAssumption
<1>1. CASE UNCHANGED <<clock, used, table>>
  BY <1>1 DEF TableTypeOK
<1>2. CASE \E record \in present.records : Handle(record)
  BY <1>2, <1>0 DEF Handle, TableTypeOK
<1>3. CASE FlushBatch
  <2>1. BatchSet \subseteq Entry
    BY ElementOfSeq DEF BatchSet, QueueTypeOK
  <2> QED BY <1>3, <2>1 DEF FlushBatch, AfterWrite, TableTypeOK
<1>4. CASE Second
  BY <1>4, <1>0, LogWriterAssumption DEF Second, TableTypeOK
<1>5. CASE DeleteLogs
  <2>1. PICK id \in {e.id : e \in present.records} :
           used' = used \union {id} /\ table' = {[id |-> id, timestamp |-> clock, level |-> "INFO"]} /\ clock' = clock
    BY <1>5 DEF DeleteLogs
  <2>2. id \in Ids /\ "INFO" \in Names
    BY <1>0 DEF Names, DBStringToSlogLevel
  <2> QED BY <2>1, <2>2 DEF TableTypeOK, Entry
<1> QED BY <1>Q, <1>1, <1>2, <1>3, <1>4, <1>5 DEF TableStep

(* The type invariant, for every number of callers, requests, readers and   *)
(* entries: among it that the queue never holds more than QueueSize.        *)
THEOREM LogTypeIsKept == PagesSpec => [](LogTypeOK /\ present \in Mixes)
<1>1. LogTypeOK <=> QueueTypeOK /\ WriterTypeOK /\ ConfigTypeOK /\ TableTypeOK
  BY DEF LogTypeOK, QueueTypeOK, WriterTypeOK, ConfigTypeOK, TableTypeOK
<1>2. PagesInit => LogTypeOK /\ present \in Mixes
  <2>1. <<>> \in Seq(Entry) /\ Len(<<>>) = 0
    BY EmptySeq
  <2>2. PagesInit => QueueTypeOK
    BY <2>1, LogWriterAssumption DEF PagesInit, LogInit, StartsEmpty, QueueTypeOK
  <2>3. PagesInit => WriterTypeOK
    <3>1. Idle \in [op : {"none", "Flush", "Close"}, at : {"idle", "asks", "waits", "returned"}, mark : Nat]
      BY DEF Idle
    <3>2. PagesInit => writer = AtSelect /\ closed = FALSE /\ closedAt = 0 /\ call = [c \in Callers |-> Idle]
      BY DEF PagesInit, LogInit, StartsEmpty
    <3>3. AtSelect \in [at : Places, ackTo : Callers \union {NoOne}]
      BY DEF AtSelect, Places
    <3> SUFFICES ASSUME PagesInit PROVE WriterTypeOK
      OBVIOUS
    <3>4. call \in [Callers -> [op : {"none", "Flush", "Close"}, at : {"idle", "asks", "waits", "returned"}, mark : Nat]]
      BY <3>1, <3>2
    <3>5. writer \in [at : Places, ackTo : Callers \union {NoOne}]
      BY <3>2, <3>3, Zenon
    <3>6. closedAt \in Nat
      BY <3>2
    <3>7. closed \in BOOLEAN
      BY <3>2, Zenon
    <3> QED BY <3>4, <3>5, <3>6, <3>7 DEF WriterTypeOK, Places
  <2>4. PagesInit => ConfigTypeOK
    <3>1. NotSetting \in [at : {"idle", "committed", "read", "enabled"}, read : Config]
      BY DefaultConfigType DEF NotSetting
    <3>2. PagesInit => setter = [s \in Setters |-> NotSetting] /\ unapplied = FALSE
      BY DEF PagesInit, LogInit
    <3>3. PagesInit => setting = DefaultConfig /\ running = Apply(DefaultConfig)
      BY DEF PagesInit, LogInit
    <3> QED BY <3>1, <3>2, <3>3, DefaultConfigType DEF ConfigTypeOK
  <2>5. PagesInit => TableTypeOK
    BY LogWriterAssumption DEF PagesInit, LogInit, TableTypeOK
  <2> QED BY <1>1, <2>2, <2>3, <2>4, <2>5 DEF PagesInit, LogInit
<1>3. LogTypeOK /\ present \in Mixes /\ [PagesNext]_pageVars => (LogTypeOK /\ present \in Mixes)'
  BY <1>1, MixIsKept, QueueTypes, WriterTypes, ConfigTypes, TableTypes
     DEF LogTypeOK, QueueTypeOK, WriterTypeOK, ConfigTypeOK, TableTypeOK
<1> QED BY <1>2, <1>3, PTL DEF PagesSpec

-----------------------------------------------------------------------------
(* What the queue took stays in order.                                      *)

(* A sequence is its head and its tail.                                    *)
LEMMA HeadThenTail ==
  ASSUME NEW S, NEW s \in Seq(S), s # <<>>
  PROVE  <<Head(s)>> \o Tail(s) = s
<1>1. Head(s) \in S /\ Tail(s) \in Seq(S) /\ Len(Tail(s)) = Len(s) - 1
      /\ \A i \in 1..Len(Tail(s)) : Tail(s)[i] = s[i + 1]
  BY HeadTailProperties
<1>2. <<Head(s)>> \in Seq(S) /\ Len(<<Head(s)>>) = 1 /\ <<Head(s)>>[1] = s[1]
  BY <1>1
<1>3. Len(s) \in Nat
  BY LenProperties
<1> DEFINE both == <<Head(s)>> \o Tail(s)
<1>4. /\ both \in Seq(S) /\ Len(both) = 1 + Len(Tail(s))
      /\ \A i \in 1..(1 + Len(Tail(s))) : both[i] = IF i <= 1 THEN <<Head(s)>>[i] ELSE Tail(s)[i - 1]
  BY <1>1, <1>2, ConcatProperties
<1>5. ASSUME NEW i \in 1..Len(both) PROVE both[i] = s[i]
  BY <1>1, <1>2, <1>3, <1>4
<1>6. Len(both) = Len(s)
  BY <1>1, <1>3, <1>4
<1> HIDE DEF both
<1>7. both = s
  BY <1>4, <1>5, <1>6, SeqEqual
<1> QED BY <1>7 DEF both

(* What the writer takes keeps its place between the batch and the queue.  *)
LEMMA MoveHead ==
  \A S : \A a, b, q \in Seq(S) : q # <<>> => a \o Append(b, Head(q)) \o Tail(q) = a \o b \o q
<1> SUFFICES ASSUME NEW S, NEW a \in Seq(S), NEW b \in Seq(S), NEW q \in Seq(S), q # <<>>
             PROVE  a \o Append(b, Head(q)) \o Tail(q) = a \o b \o q
  OBVIOUS
<1>1. Head(q) \in S /\ Tail(q) \in Seq(S) /\ <<Head(q)>> \in Seq(S)
  BY HeadTailProperties
<1>2. a \o Append(b, Head(q)) = (a \o b) \o <<Head(q)>>
  BY <1>1, AppendIsConcat, ConcatAssociative
<1>3. a \o b \in Seq(S)
  BY ConcatProperties
<1>4. ((a \o b) \o <<Head(q)>>) \o Tail(q) = (a \o b) \o (<<Head(q)>> \o Tail(q))
  BY <1>1, <1>3, ConcatAssociative
<1> QED BY <1>2, <1>4, HeadThenTail

(* Settling, taking and handing over keep the order.                       *)
LEMMA PlaceIsKept ==
  QueueTypeOK /\ EntriesKeepTheirPlace /\ present \in Mixes /\ [PagesNext]_pageVars
    => EntriesKeepTheirPlace'
<1> SUFFICES ASSUME QueueTypeOK, EntriesKeepTheirPlace, present \in Mixes, [PagesNext]_pageVars
             PROVE  accepted' = settled' \o batch' \o queue'
  BY DEF EntriesKeepTheirPlace
<1>Q. QueueStep
  BY QueueSteps
<1>T. /\ queue \in Seq(Entry) /\ batch \in Seq(Entry) /\ settled \in Seq(Entry)
      /\ settled \o batch \in Seq(Entry) /\ accepted = settled \o batch \o queue
  BY ConcatProperties DEF QueueTypeOK, EntriesKeepTheirPlace
<1>1. CASE UNCHANGED <<accepted, settled, batch, queue>>
  BY <1>1, <1>T
<1>2. ASSUME NEW record \in present.records, Handle(record) PROVE accepted' = settled' \o batch' \o queue'
  <2> DEFINE e == BuildEntry(record)
  <2>1. e \in Entry /\ <<e>> \in Seq(Entry)
    BY BuildEntryProperties
  <2>2. CASE queue' = Append(queue, e) /\ accepted' = Append(accepted, e)
    <3>1. queue' = queue \o <<e>>
      BY <2>1, <2>2, <1>T, AppendIsConcat
    <3>2. accepted' = (settled \o batch \o queue) \o <<e>>
      BY <2>1, <2>2, <1>T, ConcatProperties, AppendIsConcat
    <3>3. (settled \o batch \o queue) \o <<e>> = (settled \o batch) \o (queue \o <<e>>)
      BY <2>1, <1>T, ConcatAssociative
    <3> QED BY <1>2, <3>1, <3>2, <3>3 DEF Handle
  <2> QED BY <1>2, <2>2, <1>1 DEF Handle
<1>3. CASE ReceiveEntry \/ DrainOne
  <2>1. /\ queue # <<>> /\ batch' = Append(batch, Head(queue)) /\ queue' = Tail(queue)
        /\ settled' = settled /\ accepted' = accepted
    BY <1>3 DEF ReceiveEntry, DrainOne
  <2>2. settled \o Append(batch, Head(queue)) \o Tail(queue) = settled \o batch \o queue
    <3> DEFINE Moved(a, b, q) == a \o Append(b, Head(q)) \o Tail(q) = a \o b \o q
    <3>1. \A S : \A a, b, q \in Seq(S) : q # <<>> => Moved(a, b, q)
      BY MoveHead
    <3> HIDE DEF Moved
    <3>2. Moved(settled, batch, queue)
      BY <2>1, <3>1, <1>T
    <3> QED BY <3>2 DEF Moved
  <2> QED BY <2>1, <2>2, <1>T
<1>4. CASE FlushBatch \/ FlushBatchFails
  <2>1. batch' = <<>> /\ settled' = settled \o batch /\ queue' = queue /\ accepted' = accepted
    BY <1>4 DEF FlushBatch, FlushBatchFails, AfterWrite
  <2>2. (settled \o batch) \o <<>> = settled \o batch
    BY <1>T, ConcatEmptySeq
  <2> QED BY <2>1, <2>2, <1>T
<1>5. CASE \/ FlushTick \/ TakeDone \/ DrainEnds \/ \E c \in Callers : TakeFlush(c)
           \/ \E c \in Callers : Flush(c) \/ Close(c) \/ WriterHasStopped(c)
  BY <1>5, <1>1 DEF FlushTick, TakeDone, DrainEnds, TakeFlush, Flush, Close, WriterHasStopped
<1>6. CASE Restart
  <2>1. accepted' = <<>> /\ settled' = <<>> /\ batch' = <<>> /\ queue' = <<>>
    BY <1>6 DEF Restart
  <2>2. <<>> \o <<>> \o <<>> = <<>>
    BY EmptySeq, ConcatEmptySeq
  <2> QED BY <2>1, <2>2
<1> QED BY <1>Q, <1>1, <1>2, <1>3, <1>4, <1>5, <1>6 DEF QueueStep, WriterStep, queueVars

(* What the queue took, first settled, then the batch, then the queue: no   *)
(* entry is skipped, repeated or overtaken, for every size of the queue and *)
(* of a batch, and however many goroutines log, flush and close.            *)
THEOREM PlacesAreKept == PagesSpec => []EntriesKeepTheirPlace
<1>1. PagesInit => EntriesKeepTheirPlace
  BY EmptySeq, ConcatEmptySeq DEF PagesInit, LogInit, StartsEmpty, EntriesKeepTheirPlace
<1>2. LogTypeOK => QueueTypeOK
  BY DEF LogTypeOK, QueueTypeOK
<1> QED BY <1>1, <1>2, PlaceIsKept, LogTypeIsKept, PTL DEF PagesSpec

-----------------------------------------------------------------------------
(* Flush and Close return after what they wait for.                         *)

(* How far the writer has come with what its callers wait for: calls wait   *)
(* for entries accepted before them, before Close once it is called; what   *)
(* the writer writes last reaches what Close waits for; what it writes for  *)
(* a caller reaches what that caller waits for.                             *)
MarksAreAccepted ==
    /\ \A c \in Callers : call[c].mark <= Len(accepted)
    /\ closed => \A c \in Callers : call[c].mark <= closedAt
    /\ closedAt <= Len(accepted)

LastWriteReaches ==
    /\ writer.at \in {"final drain", "final write", "stopped"} => closed
    /\ writer.at = "final write" => closedAt <= Len(settled) + Len(batch)
    /\ writer.at = "stopped" => closedAt <= Len(settled)

AckReaches ==
    writer.ackTo # NoOne =>
        /\ writer.at \in {"drain", "write"}
        /\ call[writer.ackTo].at = "waits"
        /\ writer.at = "write" => call[writer.ackTo].mark <= Len(settled) + Len(batch)

MarksInv == MarksAreAccepted /\ LastWriteReaches /\ AckReaches /\ ReturnMeansSettled

LengthsAddUp ==
    /\ Len(accepted) = Len(settled) + Len(batch) + Len(queue)
    /\ Len(settled) \in Nat /\ Len(batch) \in Nat /\ Len(queue) \in Nat

(* So the numbers of entries add up.                                       *)
LEMMA Lengths == QueueTypeOK /\ EntriesKeepTheirPlace => LengthsAddUp
<1> SUFFICES ASSUME QueueTypeOK, EntriesKeepTheirPlace PROVE LengthsAddUp
  OBVIOUS
<1>1. /\ settled \o batch \in Seq(Entry)
      /\ Len(settled \o batch) = Len(settled) + Len(batch)
  BY ConcatProperties DEF QueueTypeOK
<1>2. Len(accepted) = Len(settled \o batch) + Len(queue)
  BY <1>1, ConcatProperties DEF QueueTypeOK, EntriesKeepTheirPlace
<1> QED BY <1>1, <1>2, LenProperties DEF QueueTypeOK, LengthsAddUp

(* What a caller waits for does not move away from it.                     *)
LEMMA MarksAreKept ==
  /\ QueueTypeOK /\ WriterTypeOK /\ EntriesKeepTheirPlace /\ MarksInv
  /\ QueueTypeOK' /\ WriterTypeOK' /\ EntriesKeepTheirPlace'
  /\ [PagesNext]_pageVars
  => MarksInv'
<1> SUFFICES ASSUME QueueTypeOK, WriterTypeOK, EntriesKeepTheirPlace, MarksInv,
                    QueueTypeOK', WriterTypeOK', EntriesKeepTheirPlace', [PagesNext]_pageVars
             PROVE  MarksInv'
  OBVIOUS
<1>Q. QueueStep
  BY QueueSteps
<1>L. /\ Len(accepted) = Len(settled) + Len(batch) + Len(queue)
      /\ Len(settled) \in Nat /\ Len(batch) \in Nat /\ Len(queue) \in Nat
  BY Lengths DEF LengthsAddUp
<1>M. /\ Len(accepted') = Len(settled') + Len(batch') + Len(queue')
      /\ Len(settled') \in Nat /\ Len(batch') \in Nat /\ Len(queue') \in Nat
  <2>1. LengthsAddUp'
    BY Lengths, PTL
  <2> QED BY <2>1 DEF LengthsAddUp
<1>C. /\ closedAt \in Nat /\ \A c \in Callers : call[c].mark \in Nat
      /\ writer.ackTo \in Callers \union {NoOne} /\ closed \in BOOLEAN
  BY DEF WriterTypeOK
<1>D. call \in [Callers -> CallRecord] /\ NoOne \notin Callers
  BY CallersAssumption DEF WriterTypeOK, CallRecord
<1>1. CASE UNCHANGED queueVars
  BY <1>1 DEF MarksInv, MarksAreAccepted, LastWriteReaches, AckReaches, ReturnMeansSettled, queueVars
<1>2. ASSUME NEW record \in present.records, Handle(record) PROVE MarksInv'
  <2>1. UNCHANGED <<batch, writer, closed, call, settled, closedAt>>
    BY <1>2 DEF Handle
  <2>2. Len(accepted') >= Len(accepted)
    <3>1. CASE accepted' = accepted
      BY <3>1, <1>L
    <3>2. CASE queue' = Append(queue, BuildEntry(record))
      BY <3>2, <2>1, <1>L, <1>M DEF QueueTypeOK
    <3> QED BY <1>2, <3>1, <3>2 DEF Handle
  <2>a. MarksAreAccepted'
    BY <2>1, <2>2, <1>L, <1>M, <1>C DEF MarksInv, MarksAreAccepted
  <2>b. LastWriteReaches'
    BY <2>1, <2>2, <1>L, <1>M, <1>C DEF MarksInv, LastWriteReaches, MarksAreAccepted
  <2>c. AckReaches'
    BY <2>1, <2>2, <1>L, <1>M, <1>C DEF MarksInv, AckReaches, MarksAreAccepted
  <2>d. ReturnMeansSettled'
    BY <2>1, <2>2, <1>L, <1>M, <1>C DEF MarksInv, ReturnMeansSettled, MarksAreAccepted
  <2> QED BY <2>a, <2>b, <2>c, <2>d DEF MarksInv
<1>3. CASE ReceiveEntry \/ DrainOne
  <2>1. UNCHANGED <<closed, call, accepted, settled, closedAt>>
    BY <1>3 DEF ReceiveEntry, DrainOne
  <2>2. Len(batch') = Len(batch) + 1
    <3>1. queue # <<>> /\ batch' = Append(batch, Head(queue))
      BY <1>3 DEF ReceiveEntry, DrainOne
    <3>2. Head(queue) \in Entry
      BY <3>1, HeadTailProperties DEF QueueTypeOK
    <3> QED BY <3>1, <3>2, AppendProperties DEF QueueTypeOK
  <2>3. \/ writer' = writer
        \/ writer'.at = "write" /\ writer'.ackTo = NoOne
    <3>1. writer' = writer \/ WriterGoes("write", NoOne)
      BY <1>3 DEF ReceiveEntry, DrainOne
    <3> QED BY <3>1 DEF WriterGoes
  <2>a. MarksAreAccepted'
    BY <2>1, <2>2, <2>3, <1>L, <1>C, <1>D DEF MarksInv, MarksAreAccepted
  <2>b. LastWriteReaches'
    <3>1. CASE writer' = writer
      <4>1. /\ writer'.at \in {"final drain", "final write", "stopped"} => closed'
            /\ writer'.at = "stopped" => closedAt' <= Len(settled')
        BY <3>1, <2>1 DEF MarksInv, LastWriteReaches
      <4>2. writer'.at = "final write" => closedAt' <= Len(settled') + Len(batch')
        <5>1. writer.at = "final write" => closedAt <= Len(settled) + Len(batch)
          BY DEF MarksInv, LastWriteReaches
        <5>2. closedAt' = closedAt /\ Len(settled') = Len(settled) /\ writer'.at = writer.at
          BY <3>1, <2>1
        <5>3. closedAt <= Len(settled) + Len(batch) => closedAt <= Len(settled) + (Len(batch) + 1)
          BY <1>L, <1>C
        <5> QED BY <5>1, <5>2, <5>3, <2>2
      <4> QED BY <4>1, <4>2 DEF LastWriteReaches
    <3>2. CASE writer'.at = "write"
      BY <3>2 DEF LastWriteReaches
    <3> QED BY <2>3, <3>1, <3>2
  <2>c. AckReaches'
    BY <2>1, <2>2, <2>3, <1>L, <1>C, <1>D DEF MarksInv, AckReaches, MarksAreAccepted
  <2>d. ReturnMeansSettled'
    BY <2>1, <2>2, <2>3, <1>L, <1>C, <1>D DEF MarksInv, ReturnMeansSettled, MarksAreAccepted
  <2> QED BY <2>a, <2>b, <2>c, <2>d DEF MarksInv
<1>4. CASE FlushTick \/ TakeDone
  <2>1. UNCHANGED <<queue, batch, closed, call, accepted, settled, closedAt>>
    BY <1>4 DEF FlushTick, TakeDone
  <2>2. /\ writer'.ackTo = NoOne
        /\ writer'.at = "write" \/ (writer'.at = "final drain" /\ closed)
    <3>1. \/ WriterGoes("write", NoOne)
          \/ WriterGoes("final drain", NoOne) /\ closed
      BY <1>4 DEF FlushTick, TakeDone
    <3>2. \A at : WriterGoes(at, NoOne) => writer'.at = at /\ writer'.ackTo = NoOne
      BY DEF WriterGoes
    <3> QED BY <3>1, <3>2
  <2>a. MarksAreAccepted'
    BY <2>1, <2>2 DEF MarksInv, MarksAreAccepted
  <2>b. LastWriteReaches'
    BY <2>1, <2>2 DEF MarksInv, LastWriteReaches, MarksAreAccepted
  <2>c. AckReaches'
    BY <2>1, <2>2 DEF MarksInv, AckReaches, MarksAreAccepted
  <2>d. ReturnMeansSettled'
    BY <2>1, <2>2 DEF MarksInv, ReturnMeansSettled, MarksAreAccepted
  <2> QED BY <2>a, <2>b, <2>c, <2>d DEF MarksInv
<1>5. CASE DrainEnds
  <2>1. UNCHANGED <<queue, batch, closed, call, accepted, settled, closedAt>> /\ Len(queue) = 0
    BY <1>5, EmptySeq DEF DrainEnds
  <2>2. \/ writer.at = "drain" /\ writer'.at = "write" /\ writer'.ackTo = writer.ackTo
        \/ writer.at = "final drain" /\ writer'.at = "final write" /\ writer'.ackTo = writer.ackTo
    BY <1>5 DEF DrainEnds, WriterGoes
  <2>3. Len(accepted) = Len(settled) + Len(batch)
    BY <2>1, <1>L
  <2>a. MarksAreAccepted'
    BY <2>1, <2>2, <2>3, <1>L, <1>C, <1>D DEF MarksInv, MarksAreAccepted
  <2>b. LastWriteReaches'
    BY <2>1, <2>2, <2>3, <1>L, <1>C, <1>D DEF MarksInv, LastWriteReaches, MarksAreAccepted
  <2>c. AckReaches'
    BY <2>1, <2>2, <2>3, <1>L, <1>C, <1>D DEF MarksInv, AckReaches, MarksAreAccepted
  <2>d. ReturnMeansSettled'
    BY <2>1, <2>2, <2>3, <1>L, <1>C, <1>D DEF MarksInv, ReturnMeansSettled, MarksAreAccepted
  <2> QED BY <2>a, <2>b, <2>c, <2>d DEF MarksInv
<1>6. CASE FlushBatch \/ FlushBatchFails
  <2>1. /\ batch' = <<>> /\ settled' = settled \o batch /\ queue' = queue /\ accepted' = accepted
        /\ closed' = closed /\ closedAt' = closedAt
        /\ call' = [c \in Callers |-> IF c = writer.ackTo THEN [call[c] EXCEPT !.at = "returned"] ELSE call[c]]
        /\ writer' = [at |-> IF writer.at = "final write" THEN "stopped" ELSE "select", ackTo |-> NoOne]
        /\ writer.at \in {"write", "final write"}
    BY <1>6 DEF FlushBatch, FlushBatchFails, AfterWrite, WriterGoes
  <2>2. Len(settled') = Len(settled) + Len(batch)
    BY <2>1, ConcatProperties DEF QueueTypeOK
  <2>3. \A c \in Callers : /\ call'[c].mark = call[c].mark
                           /\ call'[c].at = IF c = writer.ackTo THEN "returned" ELSE call[c].at
    BY <2>1, <1>D DEF CallRecord
  <2>a. MarksAreAccepted'
    BY <2>1, <2>3, <1>L, <1>C DEF MarksInv, MarksAreAccepted
  <2>b. LastWriteReaches'
    BY <2>1, <2>2, <1>L, <1>C DEF MarksInv, LastWriteReaches
  <2>c. AckReaches'
    BY <2>1 DEF AckReaches
  <2>d. ReturnMeansSettled'
    <3>1. ASSUME NEW c \in Callers, call'[c].at = "returned" PROVE call'[c].mark <= Len(settled')
      <4>1. CASE c = writer.ackTo
        BY <4>1, <2>1, <2>2, <2>3, <1>D DEF MarksInv, AckReaches
      <4>2. CASE c # writer.ackTo
        BY <4>2, <3>1, <2>2, <2>3, <1>L, <1>C DEF MarksInv, ReturnMeansSettled
      <4> QED BY <4>1, <4>2
    <3> QED BY <3>1 DEF ReturnMeansSettled
  <2> QED BY <2>a, <2>b, <2>c, <2>d DEF MarksInv
<1>7. ASSUME NEW c \in Callers, TakeFlush(c) PROVE MarksInv'
  <2>1. /\ UNCHANGED <<queue, batch, closed, accepted, settled, closedAt>>
        /\ writer' = [at |-> "drain", ackTo |-> c]
    BY <1>7 DEF TakeFlush, WriterGoes
  <2>2. \A d \in Callers : /\ call'[d].mark = call[d].mark
                           /\ call'[d].at = IF d = c THEN "waits" ELSE call[d].at
    BY <1>7, <1>D DEF TakeFlush, CallRecord
  <2>a. MarksAreAccepted'
    BY <2>1, <2>2 DEF MarksInv, MarksAreAccepted
  <2>b. LastWriteReaches'
    BY <2>1, <2>2 DEF MarksInv, LastWriteReaches, MarksAreAccepted
  <2>c. AckReaches'
    BY <2>1, <2>2 DEF MarksInv, AckReaches, MarksAreAccepted
  <2>d. ReturnMeansSettled'
    BY <2>1, <2>2 DEF MarksInv, ReturnMeansSettled, MarksAreAccepted
  <2> QED BY <2>a, <2>b, <2>c, <2>d DEF MarksInv
<1>8. ASSUME NEW c \in Callers, Flush(c) \/ Close(c) PROVE MarksInv'
  <2>1. /\ UNCHANGED <<queue, batch, accepted, settled, writer>>
        /\ \/ closed' = closed /\ closedAt' = closedAt
           \/ closed' = TRUE /\ closedAt' = Owed
        /\ call[c].at \in {"idle", "returned"}
    BY <1>8 DEF Flush, Close
  <2>2. \A d \in Callers : /\ call'[d].mark = IF d = c THEN Owed ELSE call[d].mark
                           /\ call'[d].at = IF d = c THEN "asks" ELSE call[d].at
    <3>1. PICK op \in {"Flush", "Close"} : call' = [call EXCEPT ![c] = [op |-> op, at |-> "asks", mark |-> Owed]]
      BY <1>8 DEF Flush, Close
    <3> QED BY <3>1, <1>D
  <2>3. writer.ackTo # c
    BY <2>1, <1>D DEF MarksInv, AckReaches
  <2>4. /\ closed => Owed = closedAt
        /\ ~closed => Owed = Len(accepted)
    BY DEF Owed
  <2>a. MarksAreAccepted'
    BY <2>1, <2>2, <2>3, <2>4, <1>L, <1>C, <1>D DEF MarksInv, MarksAreAccepted
  <2>b. LastWriteReaches'
    BY <2>1, <2>2, <2>3, <2>4, <1>L, <1>C, <1>D DEF MarksInv, LastWriteReaches, MarksAreAccepted
  <2>c. AckReaches'
    BY <2>1, <2>2, <2>3, <2>4, <1>L, <1>C, <1>D DEF MarksInv, AckReaches, MarksAreAccepted
  <2>d. ReturnMeansSettled'
    BY <2>1, <2>2, <2>3, <2>4, <1>L, <1>C, <1>D DEF MarksInv, ReturnMeansSettled, MarksAreAccepted
  <2> QED BY <2>a, <2>b, <2>c, <2>d DEF MarksInv
<1>9. ASSUME NEW c \in Callers, WriterHasStopped(c) PROVE MarksInv'
  <2>1. /\ UNCHANGED <<queue, batch, closed, accepted, settled, closedAt, writer>>
        /\ call[c].at = "asks" /\ writer.at = "stopped"
    BY <1>9 DEF WriterHasStopped
  <2>2. \A d \in Callers : /\ call'[d].mark = call[d].mark
                           /\ call'[d].at = IF d = c THEN "returned" ELSE call[d].at
    BY <1>9, <1>D DEF WriterHasStopped, CallRecord
  <2>3. call[c].mark <= Len(settled)
    BY <2>1, <1>L, <1>C DEF MarksInv, MarksAreAccepted, LastWriteReaches
  <2>a. MarksAreAccepted'
    BY <2>1, <2>2, <2>3, <1>C, <1>D DEF MarksInv, MarksAreAccepted
  <2>b. LastWriteReaches'
    BY <2>1, <2>2, <2>3, <1>C, <1>D DEF MarksInv, LastWriteReaches, MarksAreAccepted
  <2>c. AckReaches'
    BY <2>1, <2>2, <2>3, <1>C, <1>D DEF MarksInv, AckReaches, MarksAreAccepted
  <2>d. ReturnMeansSettled'
    BY <2>1, <2>2, <2>3, <1>C, <1>D DEF MarksInv, ReturnMeansSettled, MarksAreAccepted
  <2> QED BY <2>a, <2>b, <2>c, <2>d DEF MarksInv
<1>10. CASE Restart
  <2>1. /\ writer' = [at |-> "select", ackTo |-> NoOne] /\ closed' = FALSE /\ closedAt' = 0
        /\ \A c \in Callers : call'[c].mark = 0 /\ call'[c].at = "idle"
    BY <1>10 DEF Restart, AtSelect, Idle
  <2>a. MarksAreAccepted'
    BY <2>1, <1>M DEF MarksInv, MarksAreAccepted
  <2>b. LastWriteReaches'
    BY <2>1, <1>M DEF MarksInv, LastWriteReaches, MarksAreAccepted
  <2>c. AckReaches'
    BY <2>1, <1>M DEF MarksInv, AckReaches, MarksAreAccepted
  <2>d. ReturnMeansSettled'
    BY <2>1, <1>M DEF MarksInv, ReturnMeansSettled, MarksAreAccepted
  <2> QED BY <2>a, <2>b, <2>c, <2>d DEF MarksInv
<1> QED BY <1>Q, <1>1, <1>2, <1>3, <1>4, <1>5, <1>6, <1>7, <1>8, <1>9, <1>10 DEF QueueStep, WriterStep

(* Whenever Flush or Close returns, every entry accepted before the call    *)
(* (before the first Close) has been through a batch: any number of callers, *)
(* any sizes, the writer stopped or not.                                    *)
THEOREM ReturnsAreSettled == PagesSpec => []ReturnMeansSettled
<1>1. PagesInit => MarksInv
  <2> SUFFICES ASSUME PagesInit PROVE MarksInv
    OBVIOUS
  <2>1. /\ writer = [at |-> "select", ackTo |-> NoOne] /\ closed = FALSE /\ closedAt = 0
        /\ \A c \in Callers : call[c].mark = 0 /\ call[c].at = "idle"
        /\ accepted = <<>>
    BY DEF PagesInit, LogInit, StartsEmpty, AtSelect, Idle
  <2>2. Len(accepted) = 0
    BY <2>1, EmptySeq
  <2> QED BY <2>1, <2>2 DEF MarksInv, MarksAreAccepted, LastWriteReaches, AckReaches, ReturnMeansSettled
<1>2. LogTypeOK => QueueTypeOK /\ WriterTypeOK
  BY DEF LogTypeOK, QueueTypeOK, WriterTypeOK
<1>3. MarksInv => ReturnMeansSettled
  BY DEF MarksInv
<1> QED BY <1>1, <1>2, <1>3, MarksAreKept, LogTypeIsKept, PlacesAreKept, PTL DEF PagesSpec

-----------------------------------------------------------------------------
(* The handler runs with what the tables hold.                              *)

(* Unless requests overlapped or one failed half way, at most one request is *)
(* inside SetLoggingConfig; what it has read is what the tables hold, what  *)
(* it has set agrees with them, and without one the handler agrees in full. *)
LoneRequestApplies ==
    ~unapplied =>
        /\ \A s, t \in Setting : s = t
        /\ \A s \in Setting : /\ setter[s].at \in {"read", "enabled"} => setter[s].read = setting
                              /\ setter[s].at = "enabled" => running.enabled = setting.enabled
        /\ Setting = {} => running = Apply(setting)

(* A setter that meets no other applies what it has committed.             *)
LEMMA LoneRequestIsKept ==
  ConfigTypeOK /\ LoneRequestApplies /\ [PagesNext]_pageVars => LoneRequestApplies'
<1> SUFFICES ASSUME ConfigTypeOK, LoneRequestApplies, [PagesNext]_pageVars, ~unapplied'
             PROVE  /\ \A s, t \in Setting' : s = t
                    /\ \A s \in Setting' : /\ setter'[s].at \in {"read", "enabled"} => setter'[s].read = setting'
                                           /\ setter'[s].at = "enabled" => running'.enabled = setting'.enabled
                    /\ Setting' = {} => running' = Apply(setting')
  BY DEF LoneRequestApplies
<1>Q. ConfigStep
  BY ConfigSteps
<1>S. /\ Setting = {s \in Setters : setter[s].at # "idle"}
      /\ Setting' = {s \in Setters : setter'[s].at # "idle"}
  BY DEF Setting
<1>T. /\ setter \in [Setters -> [at : {"idle", "committed", "read", "enabled"}, read : Config]]
      /\ setting \in Config
      /\ \E config \in Config : running = Apply(config)
  BY DEF ConfigTypeOK
<1>1. CASE UNCHANGED configVars
  BY <1>1, <1>S DEF LoneRequestApplies, configVars
<1>2. ASSUME NEW s \in Setters, NEW new \in Config, CommitConfig(s, new)
      PROVE  Setting' = {s} /\ setter'[s].at = "committed"
  BY <1>2, <1>S, <1>T DEF CommitConfig
<1>3. ASSUME NEW s \in Setters, ReadConfig(s)
      PROVE  /\ Setting = {s} /\ Setting' = {s} /\ setter'[s].at = "read" /\ setter'[s].read = setting
             /\ setting' = setting
  <2>1. /\ setter[s].at = "committed" /\ ~unapplied
        /\ setter' = [setter EXCEPT ![s] = [at |-> "read", read |-> setting]] /\ setting' = setting
    BY <1>3 DEF ReadConfig
  <2>2. Setting = {s}
    BY <2>1, <1>S DEF LoneRequestApplies
  <2> QED BY <2>1, <2>2, <1>S, <1>T
<1>4. ASSUME NEW s \in Setters, ReadConfigFails(s) PROVE FALSE
  BY <1>4 DEF ReadConfigFails
<1>5. ASSUME NEW s \in Setters, SetEnabled(s)
      PROVE  /\ Setting' = {s} /\ setter'[s].at = "enabled" /\ setter'[s].read = setting'
             /\ running'.enabled = setting'.enabled
  <2>1. /\ setter[s].at = "read" /\ ~unapplied /\ setting' = setting
        /\ setter' = [setter EXCEPT ![s].at = "enabled"]
        /\ running' = [running EXCEPT !.enabled = setter[s].read.enabled]
    BY <1>5 DEF SetEnabled, Apply
  <2>2. Setting = {s} /\ setter[s].read = setting
    BY <2>1, <1>S DEF LoneRequestApplies
  <2>3. running'.enabled = setter[s].read.enabled
    BY <2>1, <1>T DEF Apply
  <2>4. Setting' = {s} /\ setter'[s].at = "enabled" /\ setter'[s].read = setter[s].read
    BY <2>1, <2>2, <1>S, <1>T
  <2> QED BY <2>1, <2>2, <2>3, <2>4
<1>6. ASSUME NEW s \in Setters, SetLevel(s) PROVE Setting' = {} /\ running' = Apply(setting')
  <2>1. /\ setter[s].at = "enabled" /\ ~unapplied /\ setting' = setting
        /\ setter' = [setter EXCEPT ![s] = NotSetting]
        /\ running' = [running EXCEPT !.level = DBStringToSlogLevel[setter[s].read.level]]
    BY <1>6 DEF SetLevel, Apply
  <2>2. Setting = {s} /\ setter[s].read = setting /\ running.enabled = setting.enabled
    BY <2>1, <1>S DEF LoneRequestApplies
  <2>3. running' = [enabled |-> running.enabled, level |-> DBStringToSlogLevel[setter[s].read.level]]
    BY <2>1, <1>T DEF Apply
  <2>4. Setting' = {}
    BY <2>1, <2>2, <1>S, <1>T DEF NotSetting
  <2> QED BY <2>1, <2>2, <2>3, <2>4 DEF Apply
<1>7. CASE Restart
  <2>1. Setting' = {}
    BY <1>7, <1>S DEF Restart, NotSetting
  <2> QED BY <1>7, <2>1 DEF Restart
<1> QED BY <1>Q, <1>1, <1>2, <1>3, <1>4, <1>5, <1>6, <1>7 DEF ConfigStep

(* While no request is inside SetLoggingConfig, none overlapped another and *)
(* none failed half way, the handler runs with the configuration of the     *)
(* tables, for any number of requests and across restarts.                  *)
THEOREM RunningIsSetting == PagesSpec => []RunningFollowsSetting
<1>1. PagesInit => LoneRequestApplies
  BY DEF PagesInit, LogInit, LoneRequestApplies, Setting, NotSetting
<1>2. LogTypeOK => ConfigTypeOK
  BY DEF LogTypeOK, ConfigTypeOK
<1>3. LoneRequestApplies => RunningFollowsSetting
  BY DEF LoneRequestApplies, RunningFollowsSetting
<1> QED BY <1>1, <1>2, <1>3, LoneRequestIsKept, LogTypeIsKept, PTL DEF PagesSpec

-----------------------------------------------------------------------------
(* A uuid is one entry.                                                     *)

(* Entries accepted but not yet rows. *)
Pending == BatchSet \union {queue[i] : i \in 1..Len(queue)}
Known == table \union Pending

(* Entries on their way and rows with the same uuid are the same, and their *)
(* uuids are not given out again.                                           *)
UuidsAreUnique ==
    /\ IsFiniteSet(table)
    /\ \A e \in Known : e.id \in used
    /\ \A e, d \in Known : e.id = d.id => e = d

(* A batch is finite.                                                      *)
LEMMA BatchIsFinite ==
  ASSUME QueueTypeOK PROVE IsFiniteSet(BatchSet)
<1>1. Len(batch) \in Nat /\ batch \in [1..Len(batch) -> Entry]
  BY LenProperties DEF QueueTypeOK
<1>2. batch \in Surjection(1..Len(batch), BatchSet)
  BY <1>1 DEF Surjection, BatchSet
<1>3. IsFiniteSet(1..Len(batch))
  BY <1>1, FS_Interval
<1> QED BY <1>2, <1>3, FS_Surjection

(* A step brings in no entry but one with a new uuid. *)
NothingNew == Known' \subseteq Known /\ used' = used
OneNew == \E e : Known' \subseteq Known \union {e} /\ e.id \notin used /\ used' = used \union {e.id}

(* A step makes at most one new entry.                                     *)
LEMMA KnownGrows ==
  QueueTypeOK /\ present \in Mixes /\ [PagesNext]_pageVars => NothingNew \/ OneNew
<1> SUFFICES ASSUME QueueTypeOK, present \in Mixes, [PagesNext]_pageVars
             PROVE  NothingNew \/ OneNew
  OBVIOUS
<1>Q. QueueStep /\ TableStep
  BY QueueSteps, TableSteps
<1>T. /\ Len(queue) \in Nat /\ Len(batch) \in Nat /\ Len(<<>>) = 0
      /\ queue \in Seq(Entry) /\ batch \in Seq(Entry)
  BY LenProperties, EmptySeq DEF QueueTypeOK
<1>1. ASSUME UNCHANGED <<queue, batch, table, used>> PROVE NothingNew
  BY <1>1 DEF NothingNew, Known, Pending, BatchSet
<1>2. ASSUME NEW record \in present.records, Handle(record) PROVE OneNew
  <2> DEFINE e == BuildEntry(record)
  <2>1. e \in Entry /\ e.id = record.id
    BY BuildEntryProperties
  <2>2. /\ record.id \notin used /\ used' = used \union {record.id}
        /\ batch' = batch /\ table' = table
        /\ queue' = queue \/ queue' = Append(queue, e)
    BY <1>2 DEF Handle
  <2> HIDE DEF e
  <2>3. {queue'[i] : i \in 1..Len(queue')} \subseteq {queue[i] : i \in 1..Len(queue)} \union {e}
    <3>1. CASE queue' = Append(queue, e)
      <4>1. /\ Len(queue') = Len(queue) + 1
            /\ \A i \in 1..Len(queue) : queue'[i] = queue[i]
            /\ queue'[Len(queue) + 1] = e
        BY <3>1, <2>1, <1>T, AppendProperties
      <4>2. \A i \in 1..Len(queue') : i \in 1..Len(queue) \/ i = Len(queue) + 1
        BY <4>1, <1>T
      <4> QED BY <4>1, <4>2
    <3> QED BY <2>2, <3>1
  <2>4. BatchSet' = BatchSet
    BY <2>2 DEF BatchSet
  <2>5. Known' \subseteq Known \union {e}
    BY <2>2, <2>3, <2>4 DEF Known, Pending
  <2> QED BY <2>1, <2>2, <2>5 DEF OneNew
<1>3. CASE ReceiveEntry \/ DrainOne
  <2>1. /\ queue # <<>> /\ batch' = Append(batch, Head(queue)) /\ queue' = Tail(queue)
        /\ table' = table /\ used' = used
    BY <1>3 DEF ReceiveEntry, DrainOne
  <2>2. /\ Head(queue) \in Entry /\ Head(queue) = queue[1]
        /\ Len(queue') = Len(queue) - 1
        /\ \A i \in 1..Len(queue') : queue'[i] = queue[i + 1]
    BY <2>1, <1>T, HeadTailProperties
  <2>3. 1 \in 1..Len(queue) /\ \A i \in 1..Len(queue') : i + 1 \in 1..Len(queue)
    BY <2>1, <2>2, <1>T, EmptySeq
  <2>4. /\ Len(batch') = Len(batch) + 1
        /\ \A i \in 1..Len(batch) : batch'[i] = batch[i]
        /\ batch'[Len(batch) + 1] = queue[1]
    BY <2>1, <2>2, <1>T, AppendProperties
  <2>5. \A i \in 1..Len(batch') : i \in 1..Len(batch) \/ i = Len(batch) + 1
    BY <2>4, <1>T
  <2>6. {queue'[i] : i \in 1..Len(queue')} \subseteq {queue[i] : i \in 1..Len(queue)}
    BY <2>2, <2>3
  <2>7. BatchSet' \subseteq BatchSet \union {queue[i] : i \in 1..Len(queue)}
    BY <2>3, <2>4, <2>5 DEF BatchSet
  <2> QED BY <2>1, <2>6, <2>7 DEF NothingNew, Known, Pending
<1>4. CASE FlushBatch \/ FlushBatchFails
  <2>1. /\ batch' = <<>> /\ queue' = queue /\ used' = used
        /\ table' \subseteq table \union BatchSet
    BY <1>4 DEF FlushBatch, FlushBatchFails, AfterWrite
  <2>2. BatchSet' = {}
    BY <2>1, <1>T DEF BatchSet
  <2> QED BY <2>1, <2>2 DEF NothingNew, Known, Pending
<1>5. CASE \/ FlushTick \/ TakeDone \/ DrainEnds \/ \E c \in Callers : TakeFlush(c)
           \/ \E c \in Callers : Flush(c) \/ Close(c) \/ WriterHasStopped(c)
  BY <1>5, <1>1 DEF FlushTick, TakeDone, DrainEnds, TakeFlush, Flush, Close, WriterHasStopped
<1>6. CASE Restart
  <2>1. batch' = <<>> /\ queue' = <<>> /\ table' = table /\ used' = used
    BY <1>6 DEF Restart
  <2>2. BatchSet' = {} /\ {queue'[i] : i \in 1..Len(queue')} = {}
    BY <2>1, <1>T DEF BatchSet
  <2> QED BY <2>1, <2>2 DEF NothingNew, Known, Pending
<1>7. CASE UNCHANGED queueVars
  <2>1. queue' = queue /\ batch' = batch /\ BatchSet' = BatchSet
    BY <1>7 DEF queueVars, BatchSet
  <2>2. CASE DeleteLogs
    <3>1. PICK id \in {e.id : e \in present.records} \ used :
             used' = used \union {id} /\ table' = {[id |-> id, timestamp |-> clock, level |-> "INFO"]}
      BY <2>2 DEF DeleteLogs
    <3> DEFINE audit == [id |-> id, timestamp |-> clock, level |-> "INFO"]
    <3>2. Known' \subseteq Known \union {audit} /\ audit.id = id
      BY <2>1, <3>1 DEF Known, Pending
    <3> HIDE DEF audit
    <3> QED BY <3>1, <3>2 DEF OneNew
  <2>3. CASE UNCHANGED <<used, table>>
    BY <2>1, <2>3, <1>1
  <2> QED BY <1>Q, <1>2, <1>4, <2>2, <2>3 DEF TableStep, Second
<1> QED BY <1>Q, <1>2, <1>3, <1>4, <1>5, <1>6, <1>7 DEF QueueStep, WriterStep

(* No two entries, wherever they are, share an id.                         *)
LEMMA UuidsStayUnique ==
  QueueTypeOK /\ UuidsAreUnique /\ present \in Mixes /\ [PagesNext]_pageVars => UuidsAreUnique'
<1> SUFFICES ASSUME QueueTypeOK, UuidsAreUnique, present \in Mixes, [PagesNext]_pageVars
             PROVE  UuidsAreUnique'
  OBVIOUS
<1>1. IsFiniteSet(table')
  <2>1. CASE FlushBatch
    <3>1. table' = table \union BatchSet
      BY <2>1 DEF FlushBatch
    <3>2. IsFiniteSet(BatchSet) /\ IsFiniteSet(table)
      BY BatchIsFinite DEF UuidsAreUnique
    <3> QED BY <3>1, <3>2, FS_Union
  <2>2. CASE DeleteLogs
    <3>1. \E x : table' = {x}
      BY <2>2 DEF DeleteLogs
    <3> QED BY <3>1, FS_Singleton
  <2>3. CASE table' = table
    BY <2>3 DEF UuidsAreUnique
  <2> QED BY <2>1, <2>2, <2>3, TableSteps DEF TableStep, Handle, Second
<1>2. CASE NothingNew
  BY <1>1, <1>2 DEF NothingNew, UuidsAreUnique
<1>3. CASE OneNew
  <2>1. PICK e : Known' \subseteq Known \union {e} /\ e.id \notin used /\ used' = used \union {e.id}
    BY <1>3 DEF OneNew
  <2>2. \A d \in Known' : d.id \in used'
    BY <2>1 DEF UuidsAreUnique
  <2>3. \A d, f \in Known' : d.id = f.id => d = f
    BY <2>1 DEF UuidsAreUnique
  <2> QED BY <1>1, <2>2, <2>3 DEF UuidsAreUnique
<1> QED BY <1>2, <1>3, KnownGrows

-----------------------------------------------------------------------------
(* Walks through the log.                                                   *)

(* A strict total order on a finite set has a first element. *)
LEMMA HasFirst ==
  ASSUME NEW S, IsFiniteSet(S), S # {}, NEW R,
         \A x, y \in S : x = y \/ <<x, y>> \in R \/ <<y, x>> \in R,
         \A x, y, z \in S : <<x, y>> \in R /\ <<y, z>> \in R => <<x, z>> \in R
  PROVE  \E x \in S : \A y \in S : y = x \/ <<x, y>> \in R
<1> DEFINE Lacking == {T \in SUBSET S : T # {} /\ ~(\E x \in T : \A y \in T : y = x \/ <<x, y>> \in R)}
<1> SUFFICES ASSUME S \in Lacking PROVE FALSE
  OBVIOUS
<1>1. IsWellFoundedOn(StrictSubsetOrdering(S), FiniteSubsetsOf(S))
  BY FS_StrictSubsetOrderingWellFounded
<1>2. Lacking \subseteq FiniteSubsetsOf(S)
  BY FS_Subset DEF FiniteSubsetsOf
<1>3. \E T \in Lacking : \A U \in Lacking : <<U, T>> \notin StrictSubsetOrdering(S)
  <2> HIDE DEF Lacking
  <2> QED BY <1>1, <1>2, WFMin
<1>4. PICK T \in Lacking : \A U \in Lacking : <<U, T>> \notin StrictSubsetOrdering(S)
  BY <1>3
<1>5. PICK x \in T : TRUE
  OBVIOUS
<1>6. <<T \ {x}, T>> \in StrictSubsetOrdering(S)
  BY <1>5 DEF StrictSubsetOrdering
<1>7. T \ {x} \notin Lacking
  BY <1>4, <1>6
<1>8. CASE T \ {x} = {}
  BY <1>8, <1>5
<1>9. CASE T \ {x} # {}
  <2>1. PICK m \in T \ {x} : \A y \in T \ {x} : y = m \/ <<m, y>> \in R
    BY <1>7, <1>9
  <2>2. CASE <<x, m>> \in R
    <3>1. \A y \in T : y = x \/ <<x, y>> \in R
      BY <2>1, <2>2, <1>5
    <3> QED BY <3>1, <1>5
  <2>3. CASE <<m, x>> \in R
    <3>1. \A y \in T : y = m \/ <<m, y>> \in R
      BY <2>1, <2>3, <1>5
    <3> QED BY <3>1, <2>1
  <2> QED BY <2>1, <2>2, <2>3, <1>5
<1> QED BY <1>8, <1>9


(* A cursor is compared like a row. *)
LEMMA EntryKey == \A a \in Entry : a.id \in Nat /\ a.timestamp \in Nat
<1>1. Ids \subseteq Nat /\ LastSecond \in Nat
  BY LogWriterAssumption
<1>2. \A a \in Entry : a.id \in Ids /\ a.timestamp \in 0..LastSecond
  BY DEF Entry
<1>3. 0..LastSecond \subseteq Nat
  BY <1>1
<1> QED BY <1>1, <1>2, <1>3, Zenon

(* The cursor's key, time and then id, orders two rows and three.          *)
LEMMA KeysAreOrdered ==
  ASSUME NEW f \in Filters, NEW a, NEW b, NEW c,
         a.id \in Nat /\ a.timestamp \in Nat,
         b.id \in Nat /\ b.timestamp \in Nat,
         c.id \in Nat /\ c.timestamp \in Nat
  PROVE  /\ Precedes(f, a, b) => ~Precedes(f, b, a)
         /\ Precedes(f, a, b) /\ Precedes(f, b, c) => Precedes(f, a, c)
         /\ a.id # b.id => Precedes(f, a, b) \/ Precedes(f, b, a)
<1>1. \A x, y : Precedes(f, x, y) <=> IF f.sortDir = "asc" THEN Earlier(x, y) ELSE Earlier(y, x)
  BY DEF Precedes
<1>2. /\ Earlier(a, b) => ~Earlier(b, a)
      /\ Earlier(a, b) /\ Earlier(b, c) => Earlier(a, c)
      /\ Earlier(c, b) /\ Earlier(b, a) => Earlier(c, a)
      /\ a.id # b.id => Earlier(a, b) \/ Earlier(b, a)
  BY DEF Earlier
<1> QED BY <1>1, <1>2

(* So the rows of the table are in one order, in either direction.         *)
LEMMA PrecedesIsAnOrder ==
  ASSUME NEW f \in Filters
  PROVE  /\ \A a, b \in Entry : Precedes(f, a, b) => ~Precedes(f, b, a)
         /\ \A a, b, c \in Entry : Precedes(f, a, b) /\ Precedes(f, b, c) => Precedes(f, a, c)
         /\ \A a, b \in Entry : a.id # b.id => Precedes(f, a, b) \/ Precedes(f, b, a)
  BY EntryKey, KeysAreOrdered

(* A finite set of rows has a first and a last one in either direction. *)
LEMMA FirstAndLast ==
  ASSUME NEW f \in Filters, NEW S \in SUBSET Entry, IsFiniteSet(S), S # {},
         \A a, b \in S : a.id = b.id => a = b
  PROVE  /\ \E a \in S : \A b \in S : b = a \/ Precedes(f, a, b)
         /\ \E a \in S : \A b \in S : b = a \/ Precedes(f, b, a)
<1> DEFINE Up == {p \in S \X S : Precedes(f, p[1], p[2])}
           Down == {p \in S \X S : Precedes(f, p[2], p[1])}
<1>1. /\ \A a, b \in S : <<a, b>> \in Up <=> Precedes(f, a, b)
      /\ \A a, b \in S : <<a, b>> \in Down <=> Precedes(f, b, a)
  OBVIOUS
<1>2. /\ \A a, b \in S : a = b \/ Precedes(f, a, b) \/ Precedes(f, b, a)
      /\ \A a, b, c \in S : Precedes(f, a, b) /\ Precedes(f, b, c) => Precedes(f, a, c)
  BY PrecedesIsAnOrder
<1> HIDE DEF Up, Down
<1>3. \E a \in S : \A b \in S : b = a \/ <<a, b>> \in Up
  <2>1. \A a, b \in S : a = b \/ <<a, b>> \in Up \/ <<b, a>> \in Up
    BY <1>1, <1>2
  <2>2. \A a, b, c \in S : <<a, b>> \in Up /\ <<b, c>> \in Up => <<a, c>> \in Up
    BY <1>1, <1>2
  <2> QED BY <2>1, <2>2, HasFirst, ZenonT(40)
<1>4. \E a \in S : \A b \in S : b = a \/ <<a, b>> \in Down
  <2>1. \A a, b \in S : a = b \/ <<a, b>> \in Down \/ <<b, a>> \in Down
    BY <1>1, <1>2
  <2>2. \A a, b, c \in S : <<a, b>> \in Down /\ <<b, c>> \in Down => <<a, c>> \in Down
    BY <1>1, <1>2
  <2> QED BY <2>1, <2>2, HasFirst, ZenonT(40)
<1> QED BY <1>1, <1>3, <1>4

WalkRecord == [at : {"idle", "first", "next", "done", "cut"}, filters : Filters,
               cursor : [id : Nat, timestamp : Nat], seen : SUBSET Entry,
               twice : BOOLEAN, due : SUBSET Entry]

(* What a page is: the whole rest, or a first part of it with a last row. *)
LEMMA PageSplitsRemaining ==
  ASSUME UuidsAreUnique, TableTypeOK, NEW w \in WalkRecord
  PROVE  /\ Page(w) \subseteq Remaining(w) /\ Remaining(w) \subseteq table
         /\ ~HasMore(w) => Page(w) = Remaining(w)
         /\ HasMore(w) => /\ LastOf(w) \in Page(w)
                          /\ \A q \in Page(w) : q = LastOf(w) \/ Precedes(w.filters, q, LastOf(w))
                          /\ \A row \in Remaining(w) \ Page(w) : Precedes(w.filters, LastOf(w), row)
<1> DEFINE f == w.filters
           Before(row) == {q \in Remaining(w) : Precedes(f, q, row)}
<1>1. f \in Filters
  BY DEF WalkRecord
<1>2. Page(w) \subseteq Remaining(w) /\ Remaining(w) \subseteq table
  BY DEF Page, Remaining, Matching
<1>3. /\ IsFiniteSet(Remaining(w)) /\ IsFiniteSet(Page(w))
      /\ Remaining(w) \subseteq Entry /\ Page(w) \subseteq Entry
  BY <1>2, FS_Subset DEF UuidsAreUnique, TableTypeOK
<1>4. \A a, b \in Remaining(w) : a.id = b.id => a = b
  BY <1>2 DEF UuidsAreUnique, Known
<1>5. \A row : row \in Page(w) <=> row \in Remaining(w) /\ Cardinality(Before(row)) < PerPage
  BY DEF Page
<1>6. \A row \in Remaining(w) : /\ IsFiniteSet(Before(row)) /\ Cardinality(Before(row)) \in Nat
                                /\ row \notin Before(row)
  <2>1. \A row \in Remaining(w) : Before(row) \in SUBSET Remaining(w)
    OBVIOUS
  <2>2. \A row \in Remaining(w) : ~Precedes(f, row, row)
    BY <1>1, <1>3, PrecedesIsAnOrder
  <2> QED BY <1>3, <2>1, <2>2, FS_Subset, FS_CardinalityType
<1>7. Cardinality(Remaining(w)) \in Nat /\ PerPage \in Nat \ {0}
  BY <1>3, FS_CardinalityType, LogPagesAssumption
<1>8. ASSUME ~HasMore(w), NEW row \in Remaining(w) PROVE row \in Page(w)
  <2>1. Before(row) \in SUBSET Remaining(w) /\ Before(row) # Remaining(w)
    BY <1>6
  <2>2. Cardinality(Before(row)) < Cardinality(Remaining(w))
    <3> HIDE DEF Before
    <3> QED BY <2>1, <1>3, <1>6, <1>7, FS_Subset
  <2>3. Cardinality(Remaining(w)) <= PerPage
    BY <1>7, <1>8 DEF HasMore
  <2>4. Cardinality(Before(row)) < PerPage
    <3> HIDE DEF Before
    <3> QED BY <2>2, <2>3, <1>6, <1>7
  <2> QED BY <2>4, <1>5
<1>9. ASSUME HasMore(w) PROVE Page(w) # {}
  <2>1. Remaining(w) # {}
    BY <1>7, <1>9, FS_EmptySet DEF HasMore
  <2>2. PICK a \in Remaining(w) : \A b \in Remaining(w) : b = a \/ Precedes(f, a, b)
    BY <2>1, <1>1, <1>3, <1>4, FirstAndLast
  <2>3. Before(a) = {}
    <3>1. ASSUME NEW q \in Remaining(w), Precedes(f, q, a) PROVE FALSE
      BY <3>1, <2>2, <1>1, <1>3, PrecedesIsAnOrder
    <3> QED BY <3>1
  <2>4. Cardinality(Before(a)) < PerPage
    BY <2>3, <1>7, FS_EmptySet
  <2> QED BY <2>4, <1>5
<1>10. ASSUME HasMore(w)
       PROVE  LastOf(w) \in Page(w) /\ \A q \in Page(w) : q = LastOf(w) \/ Precedes(f, q, LastOf(w))
  <2>1. \A a, b \in Page(w) : a.id = b.id => a = b
    BY <1>2, <1>4
  <2>2. \E a \in Page(w) : \A q \in Page(w) : q = a \/ Precedes(f, q, a)
    BY <2>1, <1>1, <1>3, <1>9, <1>10, FirstAndLast
  <2> QED BY <2>2 DEF LastOf
<1>11. ASSUME HasMore(w), NEW row \in Remaining(w) \ Page(w) PROVE Precedes(f, LastOf(w), row)
  <2> DEFINE last == LastOf(w)
  <2>1. last \in Page(w) /\ last \in Remaining(w) /\ Cardinality(Before(last)) < PerPage
    BY <1>2, <1>5, <1>10, <1>11
  <2> HIDE DEF last
  <2>2. Precedes(f, last, row) \/ Precedes(f, row, last)
    BY <2>1, <1>1, <1>3, <1>4, PrecedesIsAnOrder
  <2>3. ASSUME Precedes(f, row, last) PROVE FALSE
    <3>1. Before(row) \in SUBSET Before(last)
      BY <2>1, <2>3, <1>1, <1>3, PrecedesIsAnOrder
    <3>2. Cardinality(Before(row)) <= Cardinality(Before(last))
      <4> HIDE DEF Before
      <4> QED BY <3>1, <2>1, <1>6, FS_Subset
    <3>3. Cardinality(Before(row)) < PerPage
      <4> HIDE DEF Before
      <4> QED BY <3>2, <2>1, <1>6, <1>7
    <3> QED BY <3>3, <1>5, <1>11
  <2> QED BY <2>2, <2>3 DEF last
<1> QED BY <1>2, <1>8, <1>10, <1>11

(* The cursor of a walk splits the rows: what the walk owes is seen or ahead *)
(* of the cursor, and nothing seen is ahead of it.                           *)
WalkKeepsPlace(w) ==
    /\ ~w.twice
    /\ w.at \in {"first", "next"} => w.due \subseteq Matching(w.filters)
    /\ w.at = "first" => w.seen = {}
    /\ w.at = "next" => /\ \A row \in w.due : row \in w.seen \/ Precedes(w.filters, w.cursor, row)
                        /\ \A row \in w.seen : ~Precedes(w.filters, w.cursor, row)
    /\ w.at = "done" => w.due \subseteq w.seen

WalksKeepPlace == walk \in [Readers -> WalkRecord] /\ \A r \in Readers : WalkKeepsPlace(walk[r])

(* A page has no row that a page before it had.                             *)
LEMMA NothingSeenIsAhead ==
  ASSUME NEW w, w.at \in {"first", "next"}, WalkKeepsPlace(w)
  PROVE  w.seen \intersect Page(w) = {}
<1>1. \A row \in Page(w) : w.at = "first" \/ Precedes(w.filters, w.cursor, row)
  BY DEF Page, Remaining
<1> QED BY <1>1 DEF WalkKeepsPlace

(* One page of a walk, taken while the table stands still. *)
NextPage(w) ==
    [w EXCEPT !.at = IF HasMore(w) THEN "next" ELSE "done",
              !.cursor = IF HasMore(w) THEN [id |-> LastOf(w).id, timestamp |-> LastOf(w).timestamp]
                                       ELSE NoCursor,
              !.twice = w.twice \/ w.seen \intersect Page(w) # {},
              !.seen = w.seen \union Page(w)]

(* A page continues where the one before ended.                            *)
LEMMA PageKeepsPlace ==
  ASSUME UuidsAreUnique, TableTypeOK,
         NEW w \in WalkRecord, w.at \in {"first", "next"}, WalkKeepsPlace(w)
  PROVE  NextPage(w) \in WalkRecord /\ WalkKeepsPlace(NextPage(w))
<1> DEFINE f == w.filters
           v == NextPage(w)
           last == LastOf(w)
<1>1. f \in Filters /\ w.seen \in SUBSET Entry /\ w.due \in SUBSET Entry /\ w.cursor \in [id : Nat, timestamp : Nat]
  BY DEF WalkRecord
<1>2. /\ Page(w) \subseteq Remaining(w) /\ Remaining(w) \subseteq table /\ table \subseteq Entry
      /\ ~HasMore(w) => Page(w) = Remaining(w)
      /\ HasMore(w) => /\ last \in Page(w)
                       /\ \A q \in Page(w) : q = last \/ Precedes(f, q, last)
                       /\ \A row \in Remaining(w) \ Page(w) : Precedes(f, last, row)
  BY PageSplitsRemaining DEF TableTypeOK
<1>3. /\ v.at = IF HasMore(w) THEN "next" ELSE "done"
      /\ v.cursor = IF HasMore(w) THEN [id |-> last.id, timestamp |-> last.timestamp] ELSE NoCursor
      /\ v.twice <=> (w.twice \/ w.seen \intersect Page(w) # {})
      /\ v.seen = w.seen \union Page(w)
      /\ v.due = w.due /\ v.filters = f
  BY DEF NextPage, WalkRecord
<1>4. v.cursor \in [id : Nat, timestamp : Nat]
  <2>1. HasMore(w) => last \in Entry
    BY <1>2
  <2>2. \A e \in Entry : e.id \in Nat /\ e.timestamp \in Nat
    BY EntryKey
  <2> HIDE DEF v, last
  <2> QED BY <1>3, <2>1, <2>2 DEF NoCursor
<1>5. v \in WalkRecord
  BY <1>1, <1>2, <1>3, <1>4 DEF NextPage, WalkRecord
<1>6. \A row \in Remaining(w) : w.at = "first" \/ Precedes(f, w.cursor, row)
  BY DEF Remaining
<1>7. \A row \in w.due : row \in w.seen \/ row \in Remaining(w)
  BY DEF WalkKeepsPlace, Remaining
<1>8. w.seen \intersect Page(w) = {}
  BY NothingSeenIsAhead
<1>9. ~v.twice
  BY <1>3, <1>8 DEF WalkKeepsPlace
<1>10. ASSUME ~HasMore(w) PROVE WalkKeepsPlace(v)
  <2>1. v.at = "done" /\ v.due \subseteq v.seen
    BY <1>2, <1>3, <1>7, <1>10
  <2> HIDE DEF v
  <2> QED BY <2>1, <1>5, <1>9 DEF WalkKeepsPlace
<1>11. ASSUME HasMore(w) PROVE WalkKeepsPlace(v)
  <2>1. v.at = "next" /\ \A x : Precedes(f, v.cursor, x) <=> Precedes(f, last, x)
    BY <1>3, <1>11 DEF Precedes, Earlier
  <2>2. last \in Page(w) /\ last \in Remaining(w) /\ last \in Entry
    BY <1>2, <1>11
  <2>3. ASSUME NEW row \in v.due PROVE row \in v.seen \/ Precedes(f, v.cursor, row)
    BY <1>2, <1>3, <1>7, <1>11, <2>1, <2>3
  <2>4. ASSUME NEW row \in v.seen PROVE ~Precedes(f, v.cursor, row)
    <3>1. CASE row \in Page(w)
      <4>1. row \in Entry /\ (row = last \/ Precedes(f, row, last))
        BY <1>2, <1>11, <3>1
      <4> QED BY <4>1, <2>1, <2>2, <1>1, PrecedesIsAnOrder
    <3>2. CASE row \in w.seen
      <4>1. w.at = "next" /\ ~Precedes(f, w.cursor, row) /\ row \in Entry
        BY <3>2, <1>1 DEF WalkKeepsPlace
      <4>2. Precedes(f, w.cursor, last)
        BY <4>1, <1>6, <2>2
      <4>3. Precedes(f, w.cursor, last) /\ Precedes(f, last, row) => Precedes(f, w.cursor, row)
        <5>1. /\ w.cursor.id \in Nat /\ w.cursor.timestamp \in Nat
              /\ last.id \in Nat /\ last.timestamp \in Nat
              /\ row.id \in Nat /\ row.timestamp \in Nat
          BY <4>1, <2>2, <1>1, EntryKey
        <5> HIDE DEF last
        <5> QED BY <5>1, <1>1, KeysAreOrdered
      <4> QED BY <4>1, <4>2, <4>3, <2>1
    <3> QED BY <1>3, <2>4, <3>1, <3>2
  <2>5. v.due \subseteq Matching(v.filters)
    BY <1>3 DEF WalkKeepsPlace
  <2> HIDE DEF v
  <2> QED BY <1>3, <1>5, <1>9, <2>1, <2>3, <2>4, <2>5 DEF WalkKeepsPlace
<1> QED BY <1>5, <1>10, <1>11

(* What a step does to the walks. *)
LEMMA WalkSteps ==
  [PagesNext]_pageVars =>
    \/ walk' = walk /\ (table \subseteq table')
    \/ \E r \in Readers : (\E f \in Filters : StartWalk(r, f)) \/ GetLogs(r) \/ GetLogsInPart(r)
    \/ walk' = [r \in Readers |-> [walk[r] EXCEPT !.due = {}]]
<1> SUFFICES ASSUME [PagesNext]_pageVars
             PROVE  \/ walk' = walk /\ (table \subseteq table')
                    \/ \E r \in Readers : (\E f \in Filters : StartWalk(r, f)) \/ GetLogs(r) \/ GetLogsInPart(r)
                    \/ walk' = [r \in Readers |-> [walk[r] EXCEPT !.due = {}]]
  OBVIOUS
<1>1. CASE DeleteLogs
  BY <1>1 DEF DeleteLogs
<1>2. CASE LogNext /\ walk' = walk
  <2>1. ~DeleteLogs => table \subseteq table'
    BY TableSteps DEF TableStep, Handle, FlushBatch, Second
  <2> QED BY <1>1, <1>2, <2>1
<1>3. CASE UNCHANGED pageVars
  BY <1>3 DEF pageVars, logVars
<1> QED BY <1>1, <1>2, <1>3 DEF PagesNext

(* Rows written or deleted meanwhile do not make a walk lose its place.    *)
LEMMA WalksGoOn ==
  /\ UuidsAreUnique /\ TableTypeOK /\ WalksKeepPlace /\ [PagesNext]_pageVars => WalksKeepPlace'
<1> SUFFICES ASSUME UuidsAreUnique, TableTypeOK, WalksKeepPlace, [PagesNext]_pageVars
             PROVE  WalksKeepPlace'
  OBVIOUS
<1>T. walk \in [Readers -> WalkRecord] /\ \A r \in Readers : WalkKeepsPlace(walk[r])
  BY DEF WalksKeepPlace
<1>M. ASSUME table \subseteq table', NEW w, WalkKeepsPlace(w) PROVE WalkKeepsPlace(w)'
  BY <1>M DEF WalkKeepsPlace, Matching
<1>N. ASSUME walk' \in [Readers -> WalkRecord],
             \A q \in Readers : \E w \in WalkRecord : walk'[q] = w /\ WalkKeepsPlace(w)'
      PROVE  WalksKeepPlace'
  <2>1. ASSUME NEW q \in Readers PROVE WalkKeepsPlace(walk[q])'
    <3>1. PICK w \in WalkRecord : walk'[q] = w /\ WalkKeepsPlace(w)'
      BY <1>N
    <3> QED BY <3>1 DEF WalkKeepsPlace
  <2> QED BY <1>N, <2>1 DEF WalksKeepPlace
<1>1. CASE walk' = walk /\ table \subseteq table'
  BY <1>1, <1>T, <1>M DEF WalksKeepPlace
<1>2. ASSUME NEW r \in Readers, NEW f \in Filters, StartWalk(r, f) PROVE WalksKeepPlace'
  <2> DEFINE fresh == [NotWalking EXCEPT !.at = "first", !.filters = f, !.due = Matching(f)]
  <2>0. /\ fresh.at = "first" /\ fresh.filters = f /\ fresh.due = Matching(f)
        /\ fresh.seen = {} /\ ~fresh.twice /\ fresh.cursor = NoCursor
    BY DEF NotWalking
  <2>1. fresh \in WalkRecord
    BY <2>0 DEF WalkRecord, NotWalking, NoCursor, Matching, TableTypeOK
  <2>2. walk' = [walk EXCEPT ![r] = fresh] /\ table' = table
    BY <1>2 DEF StartWalk, logVars
  <2>3. PICK new \in WalkRecord :
          /\ walk' = [walk EXCEPT ![r] = new]
          /\ new.at = "first" /\ new.filters = f /\ new.due = Matching(f) /\ new.seen = {} /\ ~new.twice
    <3> HIDE DEF fresh
    <3> QED BY <2>0, <2>1, <2>2
  <2>4. WalkKeepsPlace(new)'
    BY <2>2, <2>3 DEF WalkKeepsPlace, Matching
  <2>5. ASSUME NEW q \in Readers PROVE \E w \in WalkRecord : walk'[q] = w /\ WalkKeepsPlace(w)'
    <3>1. CASE q = r
      BY <3>1, <2>3, <2>4, <1>T
    <3>2. CASE q # r
      <4>1. PICK w \in WalkRecord : w = walk[q]
        BY <1>T
      <4>2. WalkKeepsPlace(w)'
        BY <4>1, <2>2, <1>T, <1>M
      <4> QED BY <3>2, <4>1, <4>2, <2>3, <1>T
    <3> QED BY <3>1, <3>2
  <2>6. walk' \in [Readers -> WalkRecord]
    BY <2>3, <1>T
  <2> QED BY <2>5, <2>6, <1>N
<1>3. ASSUME NEW r \in Readers, GetLogs(r) PROVE WalksKeepPlace'
  <2>1. PICK w \in WalkRecord : w = walk[r]
    BY <1>T
  <2>2. w.at \in {"first", "next"} /\ table' = table
    BY <1>3, <2>1 DEF GetLogs, logVars
  <2>3. walk' = [walk EXCEPT ![r] = NextPage(w)]
    BY <1>3, <1>T, <2>1 DEF GetLogs, NextPage, WalkRecord
  <2>4. NextPage(w) \in WalkRecord /\ WalkKeepsPlace(NextPage(w))
    BY <1>T, <2>1, <2>2, PageKeepsPlace
  <2>5. PICK new \in WalkRecord : new = NextPage(w) /\ WalkKeepsPlace(new)
    BY <2>4
  <2>6. ASSUME NEW q \in Readers PROVE \E v \in WalkRecord : walk'[q] = v /\ WalkKeepsPlace(v)'
    <3>1. CASE q = r
      <4>1. WalkKeepsPlace(new)'
        BY <2>2, <2>5, <1>M
      <4> QED BY <3>1, <4>1, <2>3, <2>5, <1>T
    <3>2. CASE q # r
      <4>1. PICK v \in WalkRecord : v = walk[q]
        BY <1>T
      <4>2. WalkKeepsPlace(v)'
        BY <4>1, <2>2, <1>T, <1>M
      <4> QED BY <3>2, <4>1, <4>2, <2>3, <1>T
    <3> QED BY <3>1, <3>2
  <2>7. walk' \in [Readers -> WalkRecord]
    BY <2>3, <2>5, <1>T
  <2> QED BY <2>6, <2>7, <1>N
<1>4. CASE walk' = [r \in Readers |-> [walk[r] EXCEPT !.due = {}]]
  <2>1. ASSUME NEW q \in Readers PROVE \E w \in WalkRecord : walk'[q] = w /\ WalkKeepsPlace(w)'
    <3>1. PICK v \in WalkRecord : v = walk[q]
      BY <1>T
    <3> DEFINE w == [v EXCEPT !.due = {}]
    <3>2. /\ w.at = v.at /\ w.filters = v.filters /\ w.cursor = v.cursor
          /\ w.seen = v.seen /\ w.twice = v.twice /\ w.due = {} /\ w \in WalkRecord
      BY DEF WalkRecord
    <3>3. walk'[q] = w
      BY <1>4, <3>1
    <3>4. WalkKeepsPlace(v)
      BY <3>1, <1>T
    <3> HIDE DEF w
    <3>5. WalkKeepsPlace(w)'
      BY <3>2, <3>4 DEF WalkKeepsPlace
    <3> QED BY <3>2, <3>3, <3>5
  <2>2. walk' \in [Readers -> WalkRecord]
    BY <1>4, <1>T DEF WalkRecord
  <2> QED BY <2>1, <2>2, <1>N
<1>5. ASSUME NEW r \in Readers, GetLogsInPart(r) PROVE WalksKeepPlace'
  <2>1. PICK w \in WalkRecord : w = walk[r]
    BY <1>T
  <2>2. PICK part : /\ part \subseteq Page(w)
                    /\ walk' = [walk EXCEPT ![r].at = "cut", ![r].cursor = NoCursor,
                                            ![r].twice = @ \/ w.seen \intersect part # {},
                                            ![r].seen = @ \union part]
    BY <1>5, <2>1 DEF GetLogsInPart
  <2>3. w.at \in {"first", "next"} /\ table' = table /\ WalkKeepsPlace(w)
    BY <1>5, <1>T, <2>1 DEF GetLogsInPart, logVars
  <2>4. w.seen \intersect part = {} /\ part \subseteq Entry
    <3>1. Page(w) \subseteq table
      BY DEF Page, Remaining, Matching
    <3>2. w.seen \intersect Page(w) = {}
      BY <2>3, NothingSeenIsAhead
    <3>3. table \subseteq Entry
      BY DEF TableTypeOK
    <3> QED BY <2>2, <3>1, <3>2, <3>3
  <2> DEFINE cut == [w EXCEPT !.at = "cut", !.cursor = NoCursor,
                              !.twice = w.twice \/ w.seen \intersect part # {}, !.seen = w.seen \union part]
  <2>5. walk' = [walk EXCEPT ![r] = cut]
    BY <1>T, <2>1, <2>2 DEF WalkRecord
  <2>6. cut \in WalkRecord /\ cut.at = "cut" /\ ~cut.twice
    BY <2>3, <2>4 DEF WalkRecord, NoCursor, WalkKeepsPlace
  <2>7. PICK new \in WalkRecord : walk' = [walk EXCEPT ![r] = new] /\ new.at = "cut" /\ ~new.twice
    <3> HIDE DEF cut
    <3> QED BY <2>5, <2>6
  <2>8. ASSUME NEW q \in Readers PROVE \E v \in WalkRecord : walk'[q] = v /\ WalkKeepsPlace(v)'
    <3>1. CASE q = r
      <4>1. WalkKeepsPlace(new)'
        BY <2>7 DEF WalkKeepsPlace
      <4> QED BY <3>1, <4>1, <2>7, <1>T
    <3>2. CASE q # r
      <4>1. PICK v \in WalkRecord : v = walk[q]
        BY <1>T
      <4>2. WalkKeepsPlace(v)'
        BY <4>1, <2>3, <1>T, <1>M
      <4> QED BY <3>2, <4>1, <4>2, <2>7, <1>T
    <3> QED BY <3>1, <3>2
  <2>9. walk' \in [Readers -> WalkRecord]
    BY <2>7, <1>T
  <2> QED BY <2>8, <2>9, <1>N
<1> QED BY <1>1, <1>2, <1>3, <1>4, <1>5, WalkSteps

(* A client that follows the cursors sees, once, every row that was there   *)
(* when it began and has not been deleted: in either direction, for every   *)
(* size of a page, however many rows share a second and whatever the writer *)
(* adds meanwhile.                                                          *)
THEOREM WalksSeeAll == PagesSpec => []WalksAreComplete
<1>1. PagesInit => UuidsAreUnique
  <2>1. PagesInit => Known = {} /\ table = {}
    BY EmptySeq DEF PagesInit, LogInit, StartsEmpty, Known, Pending, BatchSet
  <2> QED BY <2>1, FS_EmptySet DEF UuidsAreUnique
<1>2. PagesInit => WalksKeepPlace
  <2>1. NotWalking \in WalkRecord
    BY DEF NotWalking, WalkRecord, NoCursor, Filters
  <2>2. WalkKeepsPlace(NotWalking)
    BY DEF NotWalking, WalkKeepsPlace
  <2> QED BY <2>1, <2>2 DEF PagesInit, WalksKeepPlace
<1>3. LogTypeOK => QueueTypeOK /\ TableTypeOK
  BY DEF LogTypeOK, QueueTypeOK, TableTypeOK
<1>4. WalksKeepPlace => WalksAreComplete
  BY DEF WalksKeepPlace, WalkKeepsPlace, WalksAreComplete
<1> QED BY <1>1, <1>2, <1>3, <1>4, UuidsStayUnique, WalksGoOn, LogTypeIsKept, PTL DEF PagesSpec

=============================================================================
