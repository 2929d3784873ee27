------------------------------ MODULE LogWriter ------------------------------
(***************************************************************************)
(* The log handler of internal/logging: any goroutine hands entries to a   *)
(* bounded queue, one writer goroutine collects them in a batch and writes *)
(* each batch in one database transaction.  With it the callers of Flush   *)
(* and Close, the requests that change the logging configuration, and the  *)
(* end of the process at any moment.                                       *)
(*                                                                         *)
(* An entry is its uuid, the second it is stamped with and its level; the  *)
(* other columns are data.  The console, which gets every entry first, is  *)
(* not modelled.                                                           *)
(***************************************************************************)
EXTENDS Integers, Sequences, FiniteSets

CONSTANTS
    Ids,           \* the uuids of entries; comparable, because readers sort by them
    Levels,        \* the names of levels that may be set
    QueueSize,     \* queueSize, capacity of the channel
    MaxBatchSize,  \* maxBatchSize, entries after which the writer writes
    Callers,       \* goroutines that call Flush or Close
    Setters,       \* requests that set the logging configuration
    LastSecond,    \* bound of the clock
    Mixes          \* bounds: who takes part in a behaviour and what may be logged

ASSUME LogWriterAssumption ==
    /\ Ids \subseteq Nat
    /\ "INFO" \in Levels /\ Levels \subseteq {"CRITICAL", "ERROR", "WARNING", "INFO", "DEBUG"}
    /\ QueueSize \in Nat \ {0}
    /\ MaxBatchSize \in Nat \ {0}
    /\ LastSecond \in Nat
    /\ \A mix \in Mixes : mix.records \subseteq [id : Ids, timestamp : 0..LastSecond, level : Int]

VARIABLES
    present,   \* the mix of a behaviour, chosen at the start and kept
    clock,     \* seconds, the granularity of log.timestamp
    used,      \* uuids given out
    queue,     \* writerCore.queue
    batch,     \* the writer's slice of entries not yet written
    writer,    \* where the writer goroutine is, and the caller it works for
    closed,    \* writerCore.done is closed
    call,      \* the calls of Flush and Close
    setting,   \* LOGGING_ENABLED and LOGGING_LEVEL in table system_setting
    running,   \* enabled and level of the LogHandler
    setter,    \* the requests inside SetLoggingConfig
    table,     \* rows of table log
    accepted,  \* history: entries the queue took, in order
    settled,   \* history: entries whose batch ended, written or failed, in order
    failed,    \* history: entries of batches that failed
    closedAt,  \* history: how many entries had been accepted when Close was called
    unapplied  \* history: requests overlapped since the last lone one, or one failed

logVars == <<clock, used, queue, batch, writer, closed, call, setting, running,
             setter, table, accepted, settled, failed, closedAt, unapplied>>
queueVars  == <<queue, batch, writer, closed, call, accepted, settled, failed, closedAt>>
configVars == <<setting, running, setter, unapplied>>

(* Tables hold names of levels, slog and the handler numbers that grow with  *)
(* severity.                                                                *)
DBStringToSlogLevel == [CRITICAL |-> 12, ERROR |-> 8, WARNING |-> 4, INFO |-> 0, DEBUG |-> -4]
Names == DOMAIN DBStringToSlogLevel

(* The name of the highest named level reached, DEBUG below them all. *)
SlogLevelToDBString(level) ==
    LET reached == {n \in Names : DBStringToSlogLevel[n] <= level} IN
    IF reached = {} THEN "DEBUG"
    ELSE CHOOSE n \in reached : \A o \in reached : DBStringToSlogLevel[o] <= DBStringToSlogLevel[n]

(* What a valid request makes of the settings. *)
Config == [enabled : BOOLEAN, level : Levels]
Entry  == [id : Ids, timestamp : 0..LastSecond, level : Names]

(* GetLoggingConfig without rows in system_setting. *)
DefaultConfig == [enabled |-> TRUE, level |-> "INFO"]

(* How the handler keeps a configuration. *)
Apply(config) == [enabled |-> config.enabled, level |-> DBStringToSlogLevel[config.level]]

NoOne == "no one"

ASSUME CallersAssumption == NoOne \notin Callers

AtSelect == [at |-> "select", ackTo |-> NoOne]
Idle == [op |-> "none", at |-> "idle", mark |-> 0]
NotSetting == [at |-> "idle", read |-> DefaultConfig]

(* A new handler: empty queue, the writer goroutine at its select, the      *)
(* configuration of the tables.                                             *)
StartsEmpty ==
    /\ queue = <<>> /\ batch = <<>> /\ writer = AtSelect /\ closed = FALSE
    /\ call = [c \in Callers |-> Idle]
    /\ accepted = <<>> /\ settled = <<>> /\ failed = {} /\ closedAt = 0

LogInit ==
    /\ present \in Mixes
    /\ clock = 0 /\ used = {} /\ table = {}
    /\ StartsEmpty
    /\ setting = DefaultConfig /\ running = Apply(DefaultConfig)
    /\ setter = [s \in Setters |-> NotSetting]
    /\ unapplied = FALSE

-----------------------------------------------------------------------------
(* Producers.                                                               *)

(* The handler reports the level as enabled. *)
Enabled(level) == level >= running.level

(* The record was stamped when it was made, maybe some time ago; the entry   *)
(* gets a new uuid and the name of the level.                               *)
BuildEntry(record) == [record EXCEPT !.level = SlogLevelToDBString(record.level)]

(* Mutant of Handle: queues one entry too many. *)
HandleOverfull(record) ==
    /\ Enabled(record.level) /\ running.enabled
    /\ record.id \notin used /\ record.timestamp <= clock
    /\ used' = used \union {record.id}
    /\ IF Len(queue) <= QueueSize
         THEN /\ queue' = Append(queue, BuildEntry(record))
              /\ accepted' = Append(accepted, BuildEntry(record))
         ELSE UNCHANGED <<queue, accepted>>
    /\ UNCHANGED <<clock, batch, writer, closed, call, table, settled, failed, closedAt>>
    /\ UNCHANGED configVars

(* A goroutine logs: below the level or while disabled nothing is built; a  *)
(* full queue drops the entry.  A setting that changes between the checks   *)
(* and the send lets one more entry through or drops one: both are a step   *)
(* that comes a little earlier or later.                                    *)
Handle(record) ==
    /\ Enabled(record.level) /\ running.enabled
    /\ record.id \notin used /\ record.timestamp <= clock
    /\ used' = used \union {record.id}
    /\ IF Len(queue) < QueueSize
         THEN /\ queue' = Append(queue, BuildEntry(record))
              /\ accepted' = Append(accepted, BuildEntry(record))
         ELSE UNCHANGED <<queue, accepted>>
    /\ UNCHANGED <<clock, batch, writer, closed, call, table, settled, failed, closedAt>>
    /\ UNCHANGED configVars

-----------------------------------------------------------------------------
(* The writer goroutine.  Its select takes any ready case.                  *)

WriterGoes(at, c) == writer' = [at |-> at, ackTo |-> c]

(* A case of the select: an entry joins the batch, a full batch is written. *)
ReceiveEntry ==
    /\ writer = AtSelect /\ queue # <<>>
    /\ batch' = Append(batch, Head(queue)) /\ queue' = Tail(queue)
    /\ IF Len(batch') >= MaxBatchSize THEN WriterGoes("write", NoOne) ELSE UNCHANGED writer
    /\ UNCHANGED <<clock, used, closed, call, table, accepted, settled, failed, closedAt>>
    /\ UNCHANGED configVars

(* Mutant of FlushTick: only full batches are written. *)
FlushTickWhenFull ==
    /\ writer = AtSelect /\ Len(batch) >= MaxBatchSize
    /\ WriterGoes("write", NoOne)
    /\ UNCHANGED <<clock, used, queue, batch, closed, call, table, accepted, settled, failed, closedAt>>
    /\ UNCHANGED configVars

(* The ticker writes what there is. *)
FlushTick ==
    /\ writer = AtSelect /\ batch # <<>>
    /\ WriterGoes("write", NoOne)
    /\ UNCHANGED <<clock, used, queue, batch, closed, call, table, accepted, settled, failed, closedAt>>
    /\ UNCHANGED configVars

(* Mutant of TakeFlush: writes the batch without draining the queue. *)
TakeFlushUndrained(c) ==
    /\ writer = AtSelect /\ call[c].op = "Flush" /\ call[c].at = "asks"
    /\ WriterGoes("write", c)
    /\ call' = [call EXCEPT ![c].at = "waits"]
    /\ UNCHANGED <<clock, used, queue, batch, closed, table, accepted, settled, failed, closedAt>>
    /\ UNCHANGED configVars

(* Flush's send on the unbuffered channel meets the writer at its select. *)
TakeFlush(c) ==
    /\ writer = AtSelect /\ call[c].op = "Flush" /\ call[c].at = "asks"
    /\ WriterGoes("drain", c)
    /\ call' = [call EXCEPT ![c].at = "waits"]
    /\ UNCHANGED <<clock, used, queue, batch, closed, table, accepted, settled, failed, closedAt>>
    /\ UNCHANGED configVars

(* The closed done channel is always ready. *)
TakeDone ==
    /\ writer = AtSelect /\ closed
    /\ WriterGoes("final drain", NoOne)
    /\ UNCHANGED <<clock, used, queue, batch, closed, call, table, accepted, settled, failed, closedAt>>
    /\ UNCHANGED configVars

(* One turn of a drain loop: producers may refill the queue meanwhile. *)
DrainOne ==
    /\ writer.at \in {"drain", "final drain"} /\ queue # <<>>
    /\ batch' = Append(batch, Head(queue)) /\ queue' = Tail(queue)
    /\ UNCHANGED <<clock, used, writer, closed, call, table, accepted, settled, failed, closedAt>>
    /\ UNCHANGED configVars

(* The queue is empty: write, then answer the caller or stop. *)
DrainEnds ==
    /\ writer.at \in {"drain", "final drain"} /\ queue = <<>>
    /\ WriterGoes(IF writer.at = "drain" THEN "write" ELSE "final write", writer.ackTo)
    /\ UNCHANGED <<clock, used, queue, batch, closed, call, table, accepted, settled, failed, closedAt>>
    /\ UNCHANGED configVars

(* Mutant of AfterWrite: batch = batch[:0] is missing. *)
AfterWriteKeepsBatch ==
    /\ batch' = batch
    /\ settled' = settled \o batch
    /\ WriterGoes(IF writer.at = "final write" THEN "stopped" ELSE "select", NoOne)
    /\ call' = [c \in Callers |-> IF c = writer.ackTo THEN [call[c] EXCEPT !.at = "returned"] ELSE call[c]]
    /\ UNCHANGED <<clock, used, queue, closed, accepted, closedAt>>
    /\ UNCHANGED configVars

(* What follows flushBatch: the ack channel of a flush is closed; the done   *)
(* case returns, which closes stopped.                                       *)
AfterWrite ==
    /\ batch' = <<>>
    /\ settled' = settled \o batch
    /\ WriterGoes(IF writer.at = "final write" THEN "stopped" ELSE "select", NoOne)
    /\ call' = [c \in Callers |-> IF c = writer.ackTo THEN [call[c] EXCEPT !.at = "returned"] ELSE call[c]]
    /\ UNCHANGED <<clock, used, queue, closed, accepted, closedAt>>
    /\ UNCHANGED configVars

BatchSet == {batch[i] : i \in 1..Len(batch)}

(* flushBatch commits: all entries of the batch, or none, become rows. *)
FlushBatch ==
    /\ writer.at \in {"write", "final write"}
    /\ table' = table \union BatchSet
    /\ UNCHANGED failed
    /\ AfterWrite

(* Mutant of FlushBatchFails: the inserts are not one transaction, the first *)
(* has taken effect.                                                        *)
FlushBatchFailsInPart ==
    /\ writer.at \in {"write", "final write"} /\ batch # <<>>
    /\ failed' = failed \union BatchSet
    /\ table' = table \union {Head(batch)}
    /\ AfterWrite

(* Begin, prepare, an insert or the commit fails: the transaction is rolled *)
(* back and the batch is dropped.                                           *)
FlushBatchFails ==
    /\ writer.at \in {"write", "final write"} /\ batch # <<>>
    /\ failed' = failed \union BatchSet
    /\ UNCHANGED table
    /\ AfterWrite

-----------------------------------------------------------------------------
(* Flush and Close.                                                         *)

(* Entries a call answers for: those accepted before it, and before Close. *)
Owed == IF closed THEN closedAt ELSE Len(accepted)

Flush(c) ==
    /\ call[c].at \in {"idle", "returned"}
    /\ call' = [call EXCEPT ![c] = [op |-> "Flush", at |-> "asks", mark |-> Owed]]
    /\ UNCHANGED <<clock, used, queue, batch, writer, closed, table, accepted, settled, failed, closedAt>>
    /\ UNCHANGED configVars

(* closeOnce: only the first Close closes done. *)
Close(c) ==
    /\ call[c].at \in {"idle", "returned"}
    /\ call' = [call EXCEPT ![c] = [op |-> "Close", at |-> "asks", mark |-> Owed]]
    /\ closedAt' = Owed
    /\ closed' = TRUE
    /\ UNCHANGED <<clock, used, queue, batch, writer, table, accepted, settled, failed>>
    /\ UNCHANGED configVars

(* Mutant of WriterHasStopped: Flush does not listen to stopped. *)
OnlyCloseHearsStopped(c) ==
    /\ call[c].op = "Close" /\ call[c].at = "asks" /\ writer.at = "stopped"
    /\ call' = [call EXCEPT ![c].at = "returned"]
    /\ UNCHANGED <<clock, used, queue, batch, writer, closed, table, accepted, settled, failed, closedAt>>
    /\ UNCHANGED configVars

(* The stopped channel is closed: Close returns, and so does a Flush whose   *)
(* send the writer never took.                                               *)
WriterHasStopped(c) ==
    /\ call[c].at = "asks" /\ writer.at = "stopped"
    /\ call' = [call EXCEPT ![c].at = "returned"]
    /\ UNCHANGED <<clock, used, queue, batch, writer, closed, table, accepted, settled, failed, closedAt>>
    /\ UNCHANGED configVars

-----------------------------------------------------------------------------
(* DeveloperService.SetLoggingConfig.                                       *)

Setting == {s \in Setters : setter[s].at # "idle"}

(* The transaction that upserts the keys present in the request. *)
CommitConfig(s, new) ==
    /\ setter[s].at = "idle"
    /\ setting' = new
    /\ setter' = [setter EXCEPT ![s].at = "committed"]
    /\ unapplied' = (Setting # {})
    /\ UNCHANGED <<clock, used, table, running>> /\ UNCHANGED queueVars

(* GetLoggingConfig reads it back, outside the transaction. *)
ReadConfig(s) ==
    /\ setter[s].at = "committed"
    /\ setter' = [setter EXCEPT ![s] = [at |-> "read", read |-> setting]]
    /\ UNCHANGED <<clock, used, table, setting, running, unapplied>> /\ UNCHANGED queueVars

(* It fails: the request answers with an error though its change is committed. *)
ReadConfigFails(s) ==
    /\ setter[s].at = "committed"
    /\ setter' = [setter EXCEPT ![s] = NotSetting]
    /\ unapplied' = TRUE
    /\ UNCHANGED <<clock, used, table, setting, running>> /\ UNCHANGED queueVars

SetEnabled(s) ==
    /\ setter[s].at = "read"
    /\ running' = [running EXCEPT !.enabled = Apply(setter[s].read).enabled]
    /\ setter' = [setter EXCEPT ![s].at = "enabled"]
    /\ UNCHANGED <<clock, used, table, setting, unapplied>> /\ UNCHANGED queueVars

(* Mutant of SetLevel: the level is not applied. *)
SetLevelForgets(s) ==
    /\ setter[s].at = "enabled"
    /\ setter' = [setter EXCEPT ![s] = NotSetting]
    /\ UNCHANGED <<clock, used, table, setting, running, unapplied>> /\ UNCHANGED queueVars

SetLevel(s) ==
    /\ setter[s].at = "enabled"
    /\ running' = [running EXCEPT !.level = Apply(setter[s].read).level]
    /\ setter' = [setter EXCEPT ![s] = NotSetting]
    /\ UNCHANGED <<clock, used, table, setting, unapplied>> /\ UNCHANGED queueVars

-----------------------------------------------------------------------------
Second ==
    /\ (\E e \in present.records : clock < e.timestamp) /\ clock' = clock + 1
    /\ UNCHANGED <<used, table>> /\ UNCHANGED queueVars /\ UNCHANGED configVars

(* The process ends, at shutdown or by a crash, and starts again: Init reads *)
(* the settings; goroutines, queue and batch are gone.                      *)
Restart ==
    /\ queue' = <<>> /\ batch' = <<>> /\ writer' = AtSelect /\ closed' = FALSE
    /\ call' = [c \in Callers |-> Idle]
    /\ accepted' = <<>> /\ settled' = <<>> /\ failed' = {} /\ closedAt' = 0
    /\ running' = Apply(setting)
    /\ setter' = [s \in Setters |-> NotSetting]
    /\ unapplied' = FALSE
    /\ UNCHANGED <<clock, used, table, setting>>

WriterStep ==
    \/ ReceiveEntry \/ FlushTick \/ TakeDone \/ DrainOne \/ DrainEnds
    \/ FlushBatch \/ FlushBatchFails
    \/ \E c \in Callers : TakeFlush(c)

LogNext ==
    /\ \/ \E record \in present.records : Handle(record)
       \/ WriterStep
       \/ \E c \in Callers \intersect present.clients : Flush(c) \/ Close(c) \/ WriterHasStopped(c)
       \/ \E s \in Setters \intersect present.clients :
            \/ \E new \in Config : CommitConfig(s, new)
            \/ ReadConfig(s) \/ ReadConfigFails(s) \/ SetEnabled(s) \/ SetLevel(s)
       \/ Second
       \/ Restart
    /\ UNCHANGED present

LogSpec == LogInit /\ [][LogNext]_<<present, logVars>>

=============================================================================
