------------------------------- MODULE Logger -------------------------------
(***************************************************************************)
(* ut_logger_t, shared by threads through its lock callbacks and reached   *)
(* through the default logger. A step is one critical section. The UT_LOG  *)
(* macros ask is_enabled in one section and write in another, so levels    *)
(* may change in between; the console callback runs after the second one.  *)
(*                                                                         *)
(* Of a record its sequence and level are kept: the texts, the line and    *)
(* the timestamp are copied with it. A dump callback must not call the     *)
(* logger (it would wait for its own lock), so a dump is one look at       *)
(* Records(ring).                                                          *)
(***************************************************************************)
EXTENDS Integers, Sequences

CONSTANTS
  LogCapacity,   \* logger->capacity
  Level,         \* ut_log_level_t
  Writer,        \* threads that use the UT_LOG macros
  Setting,       \* the (enabled, level) pairs given to set_console, set_ring
  NoRecord,      \* what an array element holds before its first record
  MaxSequence    \* bound of the model: records written before a restart

Record == [sequence : Nat, level : Level]
LogIndex == 0 .. LogCapacity - 1

ASSUME LoggerAssumption ==
  /\ LogCapacity \in Nat \ {0}
  /\ Level \subseteq Nat /\ NoRecord \notin Record
  /\ Setting # {} /\ Setting \subseteq [enabled : BOOLEAN, level : Level]
  /\ MaxSequence \in Nat

VARIABLES
  ring,            \* storage, head, count and overwritten_count
  next_sequence,
  outputs,         \* console_enabled/_level and ring_enabled/_level
  default_logger,  \* whether a default logger is set
  writing,         \* level each writer passed is_enabled() with, or Idle
  reading          \* a reader: its next logical index and the sequence it
                   \* read last, -1 before the first record

loggerVars == <<ring, next_sequence, outputs, default_logger, writing, reading>>

Idle == -1
NotReading == [index |-> 0, last |-> -1]

(* ut_logger_init() keeps the caller's array as it is.                     *)
EmptyLog(storage) ==
  [storage |-> storage, head |-> 0, count |-> 0, overwritten_count |-> 0]

(* Before ut_log_initialize(); the context holds nothing of meaning.       *)
LoggerInit ==
  /\ ring = EmptyLog([i \in LogIndex |-> NoRecord])
  /\ next_sequence = 0
  /\ outputs = [console |-> CHOOSE s \in Setting : TRUE,
                ring |-> CHOOSE s \in Setting : TRUE]
  /\ default_logger = FALSE
  /\ writing = [w \in Writer |-> Idle]
  /\ reading = NotReading

(* Mistake: a full ring overwrites its oldest record without moving on.    *)
OverwriteInPlace(r, record) ==
  IF r.count = LogCapacity
  THEN [r EXCEPT !.storage[r.head] = record,
                 !.overwritten_count = @ + 1]
  ELSE [r EXCEPT !.storage[(r.head + r.count) % LogCapacity] = record,
                 !.count = @ + 1]

RingPush(r, record) ==
  IF r.count = LogCapacity
  THEN [storage |-> [r.storage EXCEPT ![r.head] = record],
        head |-> (r.head + 1) % LogCapacity,
        count |-> r.count,
        overwritten_count |-> r.overwritten_count + 1]
  ELSE [storage |->
          [r.storage EXCEPT ![(r.head + r.count) % LogCapacity] = record],
        head |-> r.head,
        count |-> r.count + 1,
        overwritten_count |-> r.overwritten_count]

Chosen(output, level) == output.enabled /\ level >= output.level

(* ut_log_default_is_enabled(), with a console callback set.               *)
IsEnabled(w, level) ==
  /\ default_logger /\ writing[w] = Idle
  /\ Chosen(outputs.console, level) \/ Chosen(outputs.ring, level)
  /\ writing' = [writing EXCEPT ![w] = level]
  /\ UNCHANGED <<ring, next_sequence, outputs, default_logger, reading>>

(* ut_log_write_v(): every record takes a number, also one that the ring   *)
(* no longer wants.                                                        *)
WriteRecord(w) ==
  /\ writing[w] # Idle /\ next_sequence < MaxSequence
  /\ next_sequence' = next_sequence + 1
  /\ ring' = IF Chosen(outputs.ring, writing[w])
             THEN RingPush(ring, [sequence |-> next_sequence, level |-> writing[w]])
             ELSE ring
  /\ writing' = [writing EXCEPT ![w] = Idle]
  /\ UNCHANGED <<outputs, default_logger, reading>>

SetConsole(setting) ==
  /\ default_logger
  /\ outputs' = [outputs EXCEPT !.console = setting]
  /\ UNCHANGED <<ring, next_sequence, default_logger, writing, reading>>

SetRing(setting) ==
  /\ default_logger
  /\ outputs' = [outputs EXCEPT !.ring = setting]
  /\ UNCHANGED <<ring, next_sequence, default_logger, writing, reading>>

(* Mistake: clear starts the numbering again.                              *)
ClearNumbering ==
  /\ default_logger
  /\ ring' = [ring EXCEPT !.head = 0, !.count = 0]
  /\ next_sequence' = 0
  /\ UNCHANGED <<outputs, default_logger, writing, reading>>

ClearLog ==
  /\ default_logger
  /\ ring' = [ring EXCEPT !.head = 0, !.count = 0]
  /\ UNCHANGED <<next_sequence, outputs, default_logger, writing, reading>>

(* ut_logger_read() by a thread that asks for rising indices.              *)
ReadRecord ==
  /\ default_logger /\ reading.index < ring.count
  /\ reading' =
       [index |-> reading.index + 1,
        last |-> ring.storage[(ring.head + reading.index) % LogCapacity].sequence]
  /\ UNCHANGED <<ring, next_sequence, outputs, default_logger, writing>>

(* NOT_FOUND, or the reader has had enough.                                *)
StopReading ==
  /\ reading # NotReading
  /\ reading' = NotReading
  /\ UNCHANGED <<ring, next_sequence, outputs, default_logger, writing>>

(* ut_log_shutdown() and ut_log_initialize(), while no thread logs.        *)
ShutdownLog ==
  /\ default_logger
  /\ \A w \in Writer : writing[w] = Idle
  /\ reading = NotReading
  /\ default_logger' = FALSE
  /\ UNCHANGED <<ring, next_sequence, outputs, writing, reading>>

InitializeLog ==
  /\ ~default_logger
  /\ ring' = EmptyLog(ring.storage)
  /\ next_sequence' = 0
  /\ outputs' \in [console : Setting, ring : Setting]
  /\ default_logger' = TRUE
  /\ UNCHANGED <<writing, reading>>

LoggerNext ==
  \/ \E w \in Writer, level \in Level : IsEnabled(w, level)
  \/ \E w \in Writer : WriteRecord(w)
  \/ \E setting \in Setting : SetConsole(setting) \/ SetRing(setting)
  \/ ClearLog
  \/ ReadRecord \/ StopReading
  \/ ShutdownLog \/ InitializeLog

LoggerSpec == LoggerInit /\ [][LoggerNext]_loggerVars

-----------------------------------------------------------------------------

LoggerType ==
  /\ ring \in [storage : [LogIndex -> Record \cup {NoRecord}], head : LogIndex,
               count : 0 .. LogCapacity, overwritten_count : Nat]
  /\ next_sequence \in Nat
  /\ outputs \in [console : Setting, ring : Setting]
  /\ default_logger \in BOOLEAN
  /\ writing \in [Writer -> Level \cup {Idle}]
  /\ reading \in [index : Nat, last : Nat \cup {-1}]

(* The array element of the i-th oldest record.                            *)
LogSlot(r, i) == (r.head + i - 1) % LogCapacity

(* What count, read and dump show, oldest record first.                    *)
Records(r) == [i \in 1 .. r.count |-> r.storage[LogSlot(r, i)]]

Newest == INSTANCE LogTail WITH
            tail <- Records(ring), lost <- ring.overwritten_count,
            stamp <- next_sequence

(* Whichever thread writes, clears or changes levels, and however often    *)
(* the array wraps, the ring holds the newest chosen records and counts    *)
(* exactly those it overwrote.                                             *)
ImplementsLogTail == Newest!TailSpec

(* A reader that walks the ring while others write, overwrite and clear    *)
(* may miss records, but never gets one twice or an older one after a      *)
(* newer one.                                                              *)
ReaderMovesForward ==
  [][ReadRecord => reading'.last > reading.last]_loggerVars
=============================================================================
