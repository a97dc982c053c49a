-------------------------- MODULE FoundationProofs --------------------------
(***************************************************************************)
(* The foundation libraries that share no state, for every value of their  *)
(* constants: the event queue, the logger, the state machine, the time     *)
(* service and the retry policy, in this order. The ring facts the queue   *)
(* needs are the lemmas of RingQueueProofs.                                *)
(***************************************************************************)
EXTENDS EventQueue, Logger, EventStateMachine, TimeService, RetryPolicy,
        RingQueueProofs

-----------------------------------------------------------------------------
(* The event queue.                                                        *)

QueueInv == RingCoherent

LEMMA InitQueueInv == Init => QueueInv
  BY EmptyRingIsEmpty DEF Init, QueueInv, TypeOK, RingCoherent, Answer

LEMMA NextQueueInv == QueueInv /\ [Next]_vars => QueueInv'
<1> SUFFICES ASSUME QueueInv, [Next]_vars PROVE QueueInv'
  OBVIOUS
<1> USE DEF QueueInv, TypeOK, RingCoherent
<1>1. CASE PushFull
  BY <1>1 DEF PushFull, Answer
<1>2. ASSUME NEW e \in Item, PushEvent(e) PROVE QueueInv'
  BY <1>2, PushAppends DEF PushEvent, Answer
<1>3. CASE PopEmpty
  BY <1>3 DEF PopEmpty, Answer
<1>4. CASE PopEvent
  BY <1>4, PopTakesFirst DEF PopEvent, Answer
<1>5. CASE PeekEvent
  BY <1>5, PopTakesFirst DEF PeekEvent, Answer
<1>6. CASE ClearEvents
  BY <1>6, ClearEmpties DEF ClearEvents, Answer
<1>7. CASE UNCHANGED vars
  BY <1>7 DEF vars
<1>8. QED
  BY <1>1, <1>2, <1>3, <1>4, <1>5, <1>6, <1>7 DEF Next

(* The indices and the count of the context stay valid, agree with each    *)
(* other, and every slot between them holds an event.                      *)
THEOREM QueueStaysCoherent == Spec => []RingCoherent
<1>1. QueueInv => RingCoherent
  BY DEF QueueInv
<1>2. QED
  BY <1>1, InitQueueInv, NextQueueInv, PTL DEF Spec

-----------------------------------------------------------------------------

LEMMA FullIsFull ==
  ASSUME NEW q \in Ring, Coherent(q)
  PROVE  /\ IsFull(q) <=> Len(Items(q)) = Capacity
         /\ ~IsFull(q) <=> Len(Items(q)) < Capacity
         /\ IsEmpty(q) <=> Items(q) = << >>
<1>1. Len(Items(q)) = q.count /\ q.count \in 0 .. Capacity /\ Items(q) \in Seq(Item)
  BY ItemsType, RingAssumption DEF Ring
<1>2. QED
  BY <1>1, RingAssumption DEF IsFull, IsEmpty

LEMMA InitImplementsFifo == Init => Fifo!Init
  BY EmptyRingIsEmpty DEF Init, Fifo!Init, Answer, Fifo!Answer

LEMMA NextImplementsFifo ==
  QueueInv /\ [Next]_vars => [Fifo!Next]_(Fifo!fifoVars)
<1> SUFFICES ASSUME QueueInv, [Next]_vars PROVE [Fifo!Next]_(Fifo!fifoVars)
  OBVIOUS
<1> USE DEF Answer, Fifo!Answer
<1>0. queue \in Ring /\ Coherent(queue)
  BY DEF QueueInv, TypeOK, RingCoherent
<1>1. CASE PushFull
  <2>1. \A e \in Item : Fifo!Push(e)
    BY <1>0, <1>1, FullIsFull DEF PushFull, Fifo!Push
  <2>2. CASE Item = {}
    BY <1>0, <1>1, <2>2, FullIsFull, ItemsType, RingAssumption DEF PushFull
  <2>3. QED
    BY <2>1, <2>2 DEF Fifo!Next
<1>2. ASSUME NEW e \in Item, PushEvent(e) PROVE Fifo!Next
  BY <1>0, <1>2, PushAppends, FullIsFull DEF PushEvent, Fifo!Push, Fifo!Next
<1>3. CASE PopEmpty
  BY <1>0, <1>3, FullIsFull DEF PopEmpty, Fifo!Pop, Fifo!Next
<1>4. CASE PopEvent
  BY <1>0, <1>4, PopTakesFirst DEF PopEvent, Fifo!Pop, Fifo!Next
<1>5. CASE PeekEvent
  BY <1>0, <1>5, PopTakesFirst, FullIsFull DEF PeekEvent, Fifo!Peek, Fifo!Next
<1>6. CASE ClearEvents
  BY <1>0, <1>6, ClearEmpties DEF ClearEvents, Fifo!Clear, Fifo!Next
<1>7. CASE UNCHANGED vars
  BY <1>7 DEF vars, Fifo!fifoVars, Items, Slot
<1>8. QED
  BY <1>1, <1>2, <1>3, <1>4, <1>5, <1>6, <1>7 DEF Next

(* ut_event_queue_t implements the bounded FIFO: each call has the result  *)
(* code, the copied event and the effect the abstract queue gives it.      *)
THEOREM QueueImplementsFifo == Spec => ImplementsFifo
  BY InitQueueInv, NextQueueInv, InitImplementsFifo, NextImplementsFifo, PTL
     DEF Spec, ImplementsFifo, Fifo!Spec

-----------------------------------------------------------------------------
(* The logger.                                                             *)
(* Its RAM ring implements the log tail, and a reader of it moves forward. *)

Slots == Record \cup {NoRecord}

LogRing ==
  [storage : [LogIndex -> Slots], head : LogIndex, count : 0 .. LogCapacity,
   overwritten_count : Nat]

(* The i-th oldest record, also beyond the count.                          *)
At(r, i) == r.storage[LogSlot(r, i)]

(* Sequence numbers rise through the ring up to the next one.              *)
Numbered ==
  /\ \A i \in 1 .. ring.count : At(ring, i) \in Record
  /\ \A i \in 1 .. ring.count : At(ring, i).sequence < next_sequence
  /\ \A i, j \in 1 .. ring.count :
       i < j => At(ring, i).sequence < At(ring, j).sequence

(* What a reader has not come to yet is newer than what it read last.      *)
Ahead ==
  /\ reading.last < next_sequence
  /\ \A i \in 1 .. ring.count :
       i > reading.index => At(ring, i).sequence > reading.last

LogInv ==
  /\ LoggerType
  /\ Numbered
  /\ Ahead
  /\ ~default_logger => reading = NotReading

-----------------------------------------------------------------------------

LEMMA Wrapped ==
  ASSUME NEW n \in Nat, n < 2 * LogCapacity
  PROVE  /\ n < LogCapacity => n % LogCapacity = n
         /\ n >= LogCapacity => n % LogCapacity = n - LogCapacity
         /\ n % LogCapacity \in LogIndex
  BY LoggerAssumption DEF LogIndex

LEMMA SlotInArray ==
  ASSUME NEW r \in LogRing, NEW i \in 1 .. LogCapacity
  PROVE  LogSlot(r, i) \in LogIndex /\ At(r, i) \in Slots
<1>1. r.head \in Nat /\ r.head + i - 1 \in Nat /\ r.head + i - 1 < 2 * LogCapacity
  BY LoggerAssumption DEF LogRing, LogIndex
<1>2. LogSlot(r, i) \in LogIndex
  BY <1>1, Wrapped DEF LogSlot
<1>3. QED
  BY <1>2 DEF At, LogRing

LEMMA RecordsType ==
  ASSUME NEW r \in LogRing
  PROVE  /\ Records(r) \in Seq(Slots) /\ Len(Records(r)) = r.count
         /\ \A i \in 1 .. r.count : Records(r)[i] = At(r, i)
<1>1. r.count \in Nat /\ \A i \in 1 .. r.count : i \in 1 .. LogCapacity
  BY LoggerAssumption DEF LogRing
<1>2. \A i \in 1 .. r.count : At(r, i) \in Slots
  BY <1>1, SlotInArray
<1>3. Records(r) = [i \in 1 .. r.count |-> At(r, i)]
  BY DEF Records, At
<1>4. QED
  BY <1>1, <1>2, <1>3

(* A push while there is room.                                             *)
LEMMA PushAppendsRecord ==
  ASSUME NEW r \in LogRing, NEW record \in Record, r.count # LogCapacity
  PROVE  LET p == RingPush(r, record)
         IN  /\ p \in LogRing
             /\ p.count = r.count + 1 /\ p.overwritten_count = r.overwritten_count
             /\ \A i \in 1 .. r.count : At(p, i) = At(r, i)
             /\ At(p, r.count + 1) = record
<1> DEFINE p == RingPush(r, record)
           slot == (r.head + r.count) % LogCapacity
<1>1. /\ r.head \in Nat /\ r.head < LogCapacity /\ r.count \in Nat
      /\ r.count < LogCapacity /\ LogCapacity \in Nat
      /\ r.storage \in [LogIndex -> Slots] /\ r.overwritten_count \in Nat
      /\ r.head \in LogIndex
  BY LoggerAssumption DEF LogRing, LogIndex
<1>2. slot \in LogIndex
  BY <1>1, Wrapped
<1>3. /\ p.storage = [r.storage EXCEPT ![slot] = record]
      /\ p.head = r.head /\ p.count = r.count + 1
      /\ p.overwritten_count = r.overwritten_count
      /\ p = [storage |-> p.storage, head |-> p.head, count |-> p.count,
              overwritten_count |-> p.overwritten_count]
  BY <1>1 DEF RingPush
<1> HIDE DEF p
<1>4. p.storage \in [LogIndex -> Slots]
  BY <1>1, <1>2, <1>3 DEF Slots
<1>5. p \in LogRing
  BY <1>1, <1>3, <1>4 DEF LogRing
<1>6. \A i \in 1 .. r.count : LogSlot(r, i) # slot /\ LogSlot(r, i) \in LogIndex
  <2> TAKE i \in 1 .. r.count
  <2>1. /\ r.head + i - 1 \in Nat /\ r.head + i - 1 < 2 * LogCapacity
        /\ r.head + r.count \in Nat /\ r.head + r.count < 2 * LogCapacity
    BY <1>1
  <2>2. QED
    BY <1>1, <2>1, Wrapped DEF LogSlot
<1>7. \A i : LogSlot(p, i) = LogSlot(r, i)
  BY <1>3 DEF LogSlot
<1>8. \A i \in 1 .. r.count : At(p, i) = At(r, i)
  BY <1>1, <1>3, <1>6, <1>7 DEF At
<1>9. LogSlot(p, r.count + 1) = slot
  BY <1>1, <1>3 DEF LogSlot
<1>10. At(p, r.count + 1) = record
  BY <1>1, <1>2, <1>3, <1>9 DEF At
<1>11. QED
  BY <1>3, <1>5, <1>8, <1>10 DEF p

(* A push into a full ring.                                                *)
LEMMA PushOverwritesRecord ==
  ASSUME NEW r \in LogRing, NEW record \in Record, r.count = LogCapacity
  PROVE  LET p == RingPush(r, record)
         IN  /\ p \in LogRing
             /\ p.count = r.count /\ p.overwritten_count = r.overwritten_count + 1
             /\ \A i \in 1 .. r.count - 1 : At(p, i) = At(r, i + 1)
             /\ At(p, r.count) = record
<1> DEFINE p == RingPush(r, record)
<1>1. /\ r.head \in Nat /\ r.head < LogCapacity /\ r.count \in Nat
      /\ r.count = LogCapacity /\ LogCapacity \in Nat \ {0}
      /\ r.storage \in [LogIndex -> Slots] /\ r.overwritten_count \in Nat
      /\ r.head \in LogIndex
  BY LoggerAssumption DEF LogRing, LogIndex
<1>2. /\ p.storage = [r.storage EXCEPT ![r.head] = record]
      /\ p.head = (r.head + 1) % LogCapacity /\ p.count = r.count
      /\ p.overwritten_count = r.overwritten_count + 1
      /\ p = [storage |-> p.storage, head |-> p.head, count |-> p.count,
              overwritten_count |-> p.overwritten_count]
  BY <1>1 DEF RingPush
<1> HIDE DEF p
<1>3. /\ p.head \in LogIndex
      /\ p.head = IF r.head + 1 < LogCapacity THEN r.head + 1 ELSE 0
  BY <1>1, <1>2, Wrapped
<1>4. p.storage \in [LogIndex -> Slots]
  BY <1>1, <1>2 DEF Slots
<1>5. p \in LogRing
  BY <1>1, <1>2, <1>3, <1>4 DEF LogRing
<1>6. ASSUME NEW i \in 1 .. LogCapacity
      PROVE  /\ LogSlot(p, i) = IF r.head + i < LogCapacity THEN r.head + i
                                ELSE r.head + i - LogCapacity
             /\ i < LogCapacity => LogSlot(r, i + 1) = LogSlot(p, i)
  <2>1. PICK n \in Nat : n = p.head + i - 1
    BY <1>1, <1>3
  <2>2. n < 2 * LogCapacity /\ n = IF r.head + 1 < LogCapacity THEN r.head + i ELSE i - 1
    BY <1>1, <1>3, <2>1
  <2>3. n % LogCapacity = IF n < LogCapacity THEN n ELSE n - LogCapacity
    BY <1>1, <2>2, Wrapped
  <2>4. LogSlot(p, i) = n % LogCapacity
    BY <2>1 DEF LogSlot
  <2>5. LogSlot(p, i) = IF r.head + i < LogCapacity THEN r.head + i
                        ELSE r.head + i - LogCapacity
    BY <1>1, <2>2, <2>3, <2>4
  <2>6. ASSUME i < LogCapacity PROVE LogSlot(r, i + 1) = LogSlot(p, i)
    <3>1. PICK m \in Nat : m = r.head + i
      BY <1>1
    <3>2. m % LogCapacity = IF m < LogCapacity THEN m ELSE m - LogCapacity
      BY <1>1, <2>6, <3>1, Wrapped
    <3>3. LogSlot(r, i + 1) = m % LogCapacity
      BY <1>1, <3>1 DEF LogSlot
    <3>4. QED
      BY <1>1, <2>5, <3>1, <3>2, <3>3
  <2>7. QED
    BY <2>5, <2>6
<1>7. \A i \in 1 .. r.count - 1 : At(p, i) = At(r, i + 1)
  <2> TAKE i \in 1 .. r.count - 1
  <2>1. i \in 1 .. LogCapacity /\ i < LogCapacity
    BY <1>1
  <2>2. /\ LogSlot(p, i) = LogSlot(r, i + 1)
        /\ LogSlot(p, i) = IF r.head + i < LogCapacity THEN r.head + i
                           ELSE r.head + i - LogCapacity
    BY <1>6, <2>1
  <2>3. LogSlot(p, i) # r.head /\ LogSlot(p, i) \in LogIndex
    BY <1>1, <2>1, <2>2 DEF LogIndex
  <2>4. QED
    BY <1>1, <1>2, <2>2, <2>3 DEF At
<1>8. At(p, r.count) = record
  <2>1. LogSlot(p, r.count) = r.head
    BY <1>1, <1>6
  <2>2. QED
    BY <1>1, <1>2, <2>1 DEF At
<1>9. QED
  BY <1>2, <1>5, <1>7, <1>8 DEF p

-----------------------------------------------------------------------------

LEMMA InitLogInv == LoggerInit => LogInv
<1> SUFFICES ASSUME LoggerInit PROVE LogInv
  OBVIOUS
<1>1. PICK storage : storage = [i \in LogIndex |-> NoRecord]
  OBVIOUS
<1>2. storage \in [LogIndex -> Slots]
  BY <1>1 DEF Slots
<1>3. ring = [storage |-> storage, head |-> 0, count |-> 0, overwritten_count |-> 0]
  BY <1>1 DEF LoggerInit, EmptyLog
<1>4. ring \in LogRing
  BY <1>2, <1>3, LoggerAssumption DEF LogRing, LogIndex
<1>5. outputs \in [console : Setting, ring : Setting]
  BY LoggerAssumption DEF LoggerInit
<1>6. LoggerType
  BY <1>4, <1>5 DEF LoggerInit, LoggerType, LogRing, Slots, NotReading, Idle
<1>7. QED
  BY <1>3, <1>6 DEF LoggerInit, LogInv, Numbered, Ahead, NotReading

LEMMA RingTyped == LoggerType => ring \in LogRing
  BY DEF LoggerType, LogRing, Slots

(* Steps that leave the ring and the numbers alone.                        *)
LEMMA SameRingKeepsNumbered ==
  ASSUME Numbered, UNCHANGED <<ring, next_sequence>>
  PROVE  Numbered'
  BY DEF Numbered, At, LogSlot

LEMMA SameReaderStaysAhead ==
  ASSUME Ahead, UNCHANGED <<ring, next_sequence, reading>>
  PROVE  Ahead'
  BY DEF Ahead, At, LogSlot

LEMMA WriteKeepsLogInv ==
  ASSUME LogInv, NEW w \in Writer, WriteRecord(w)
  PROVE  LogInv'
<1> DEFINE record == [sequence |-> next_sequence, level |-> writing[w]]
<1>1. /\ next_sequence \in Nat /\ ring \in LogRing /\ ring.count \in 0 .. LogCapacity
      /\ writing[w] \in Level /\ writing[w] # Idle
      /\ next_sequence' = next_sequence + 1
      /\ UNCHANGED <<outputs, default_logger, reading>>
      /\ reading.index \in Nat /\ reading.last \in Nat \cup {-1}
      /\ LogCapacity \in Nat
  BY RingTyped, LoggerAssumption DEF LogInv, LoggerType, WriteRecord, LogRing
<1>2. record \in Record /\ record.sequence = next_sequence
  BY <1>1 DEF Record
<1>3. ring' = ring \/ ring' = RingPush(ring, record)
  BY DEF WriteRecord
<1>4. writing' \in [Writer -> Level \cup {Idle}]
  BY <1>1 DEF WriteRecord, LogInv, LoggerType
<1>5. /\ \A i \in 1 .. ring.count : At(ring, i) \in Record
      /\ \A i \in 1 .. ring.count :
           /\ At(ring, i).sequence \in Nat
           /\ At(ring, i).sequence < next_sequence
      /\ \A i, j \in 1 .. ring.count :
           i < j => At(ring, i).sequence < At(ring, j).sequence
      /\ reading.last < next_sequence
      /\ \A i \in 1 .. ring.count :
           i > reading.index => At(ring, i).sequence > reading.last
  BY DEF LogInv, Numbered, Ahead, Record
<1> HIDE DEF record
<1>6. CASE ring' = ring
  <2>1. LoggerType'
    BY <1>1, <1>4, <1>6 DEF LogInv, LoggerType
  <2>2. \A i \in 1 .. ring.count : At(ring', i) = At(ring, i)
    BY <1>6
  <2>3. Numbered'
    BY <1>1, <1>5, <1>6, <2>2 DEF Numbered
  <2>4. Ahead'
    BY <1>1, <1>5, <1>6, <2>2 DEF Ahead
  <2>5. QED
    BY <1>1, <2>1, <2>3, <2>4 DEF LogInv
<1>7. CASE ring' = RingPush(ring, record) /\ ring.count # LogCapacity
  <2>1. /\ ring' \in LogRing /\ ring'.count = ring.count + 1
        /\ \A i \in 1 .. ring.count : At(ring', i) = At(ring, i)
        /\ At(ring', ring.count + 1) = record
    BY <1>1, <1>2, <1>7, PushAppendsRecord
  <2>2. LoggerType'
    BY <1>1, <1>4, <2>1 DEF LogInv, LoggerType, LogRing, Slots
  <2>3. Numbered'
    BY <1>1, <1>2, <1>5, <2>1 DEF Numbered
  <2>4. Ahead'
    BY <1>1, <1>2, <1>5, <2>1 DEF Ahead
  <2>5. QED
    BY <1>1, <2>2, <2>3, <2>4 DEF LogInv
<1>8. CASE ring' = RingPush(ring, record) /\ ring.count = LogCapacity
  <2>1. /\ ring' \in LogRing /\ ring'.count = ring.count
        /\ \A i \in 1 .. ring.count - 1 : At(ring', i) = At(ring, i + 1)
        /\ At(ring', ring.count) = record
    BY <1>1, <1>2, <1>8, PushOverwritesRecord
  <2>2. LoggerType'
    BY <1>1, <1>4, <2>1 DEF LogInv, LoggerType, LogRing, Slots
  <2>3. Numbered'
    BY <1>1, <1>2, <1>5, <2>1 DEF Numbered
  <2>4. Ahead'
    BY <1>1, <1>2, <1>5, <2>1 DEF Ahead
  <2>5. QED
    BY <1>1, <2>2, <2>3, <2>4 DEF LogInv
<1>9. QED
  BY <1>3, <1>6, <1>7, <1>8

(* Clearing and initializing leave an empty ring.                          *)
LEMMA EmptiedRing ==
  ASSUME LogInv, ClearLog \/ InitializeLog
  PROVE  ring' \in LogRing /\ ring'.count = 0
<1>1. /\ ring \in LogRing /\ 0 \in LogIndex /\ 0 \in 0 .. LogCapacity
      /\ ring.storage \in [LogIndex -> Slots] /\ ring.overwritten_count \in Nat
  BY RingTyped, LoggerAssumption DEF LogInv, LogRing, LogIndex
<1>2. CASE ClearLog
  <2>1. ring' = [storage |-> ring.storage, head |-> 0, count |-> 0,
                 overwritten_count |-> ring.overwritten_count]
    BY <1>1, <1>2 DEF ClearLog, LogRing
  <2>2. QED
    BY <1>1, <2>1 DEF LogRing
<1>3. CASE InitializeLog
  <2>1. ring' = [storage |-> ring.storage, head |-> 0, count |-> 0,
                 overwritten_count |-> 0]
    BY <1>3 DEF InitializeLog, EmptyLog
  <2>2. QED
    BY <1>1, <2>1 DEF LogRing
<1>4. QED
  BY <1>2, <1>3

LEMMA EmptiedKeepsLogInv ==
  ASSUME LogInv, ClearLog \/ InitializeLog
  PROVE  LogInv'
<1>1. ring' \in LogRing /\ ring'.count = 0
  BY EmptiedRing
<1>2. /\ next_sequence \in Nat /\ outputs \in [console : Setting, ring : Setting]
      /\ writing \in [Writer -> Level \cup {Idle}]
      /\ reading \in [index : Nat, last : Nat \cup {-1}]
      /\ reading.last < next_sequence
      /\ ~default_logger => reading = NotReading
  BY DEF LogInv, LoggerType, Ahead
<1>3. UNCHANGED <<writing, reading>> /\ default_logger'
  BY DEF ClearLog, InitializeLog
<1>4. /\ next_sequence' \in Nat /\ outputs' \in [console : Setting, ring : Setting]
      /\ reading.last < next_sequence'
  <2>1. CASE ClearLog
    BY <1>2, <2>1 DEF ClearLog
  <2>2. CASE InitializeLog
    BY <1>2, <2>2 DEF InitializeLog, NotReading
  <2>3. QED
    BY <2>1, <2>2
<1>5. default_logger' \in BOOLEAN
  BY DEF ClearLog, InitializeLog
<1>6. LoggerType'
  BY <1>1, <1>2, <1>3, <1>4, <1>5 DEF LoggerType, LogRing, Slots
<1>7. Numbered' /\ Ahead'
  BY <1>1, <1>3, <1>4 DEF Numbered, Ahead
<1>8. QED
  BY <1>3, <1>6, <1>7 DEF LogInv

(* What ut_logger_read() gives the reader is newer than what it had.       *)
LEMMA ReadIsNewer ==
  ASSUME LogInv, ReadRecord
  PROVE  /\ reading.index + 1 \in 1 .. ring.count
         /\ reading'.index = reading.index + 1
         /\ reading'.last = At(ring, reading.index + 1).sequence
         /\ reading'.last > reading.last
         /\ reading' = [index |-> reading'.index, last |-> reading'.last]
<1>1. /\ reading.index \in Nat /\ ring.count \in Nat /\ reading.index < ring.count
      /\ ring.head \in Nat
  BY LoggerAssumption DEF LogInv, LoggerType, ReadRecord, LogIndex
<1>2. LogSlot(ring, reading.index + 1) = (ring.head + reading.index) % LogCapacity
  BY <1>1 DEF LogSlot
<1>3. reading.index + 1 \in 1 .. ring.count /\ reading.index + 1 > reading.index
  BY <1>1
<1>4. /\ reading'.index = reading.index + 1
      /\ reading'.last = At(ring, reading.index + 1).sequence
      /\ reading' = [index |-> reading'.index, last |-> reading'.last]
  BY <1>2 DEF ReadRecord, At
<1>5. reading'.last > reading.last
  BY <1>3, <1>4 DEF LogInv, Ahead
<1>6. QED
  BY <1>3, <1>4, <1>5

LEMMA ReadKeepsLogInv ==
  ASSUME LogInv, ReadRecord
  PROVE  LogInv'
<1>1. /\ UNCHANGED <<ring, next_sequence, outputs, default_logger, writing>>
      /\ default_logger
  BY DEF ReadRecord
<1>2. PICK i \in 1 .. ring.count : i = reading.index + 1
  BY ReadIsNewer
<1>3. At(ring, i).sequence \in Nat /\ At(ring, i).sequence < next_sequence
  BY DEF LogInv, Numbered, Record
<1>4. /\ reading'.index = i /\ reading'.last = At(ring, i).sequence
      /\ reading' = [index |-> reading'.index, last |-> reading'.last]
  BY <1>2, ReadIsNewer
<1>5. i \in Nat
  OBVIOUS
<1>6. LoggerType'
  BY <1>1, <1>3, <1>4, <1>5 DEF LogInv, LoggerType
<1>7. \A j \in 1 .. ring.count : j > i => At(ring, j).sequence > At(ring, i).sequence
  BY DEF LogInv, Numbered, Record
<1>8. \A j : At(ring', j) = At(ring, j)
  BY <1>1
<1>9. Ahead'
  BY <1>1, <1>3, <1>4, <1>7, <1>8 DEF Ahead
<1>10. Numbered'
  BY <1>1, SameRingKeepsNumbered DEF LogInv
<1>11. QED
  BY <1>1, <1>6, <1>9, <1>10 DEF LogInv

LEMMA StopKeepsLogInv ==
  ASSUME LogInv, StopReading
  PROVE  LogInv'
<1>1. UNCHANGED <<ring, next_sequence, outputs, default_logger, writing>>
        /\ reading' = NotReading
  BY DEF StopReading
<1>2. /\ \A j : At(ring', j) = At(ring, j)
      /\ \A j \in 1 .. ring.count : At(ring, j).sequence \in Nat
      /\ next_sequence \in Nat
  BY <1>1 DEF LogInv, LoggerType, Numbered, Record
<1>3. LoggerType'
  BY <1>1 DEF LogInv, LoggerType, NotReading
<1>4. Ahead'
  BY <1>1, <1>2 DEF Ahead, NotReading
<1>5. Numbered'
  BY <1>1, SameRingKeepsNumbered DEF LogInv
<1>6. QED
  BY <1>1, <1>3, <1>4, <1>5 DEF LogInv

LEMMA QuietKeepsLogInv ==
  ASSUME LogInv, UNCHANGED <<ring, next_sequence, reading>>, LoggerType',
         ~default_logger' => reading = NotReading
  PROVE  LogInv'
  BY SameRingKeepsNumbered, SameReaderStaysAhead DEF LogInv

LEMMA NextLogInv == LogInv /\ [LoggerNext]_loggerVars => LogInv'
<1> SUFFICES ASSUME LogInv, [LoggerNext]_loggerVars PROVE LogInv'
  OBVIOUS
<1>1. ASSUME NEW w \in Writer, NEW level \in Level, IsEnabled(w, level) PROVE LogInv'
  <2>1. LoggerType'
    BY <1>1 DEF IsEnabled, LogInv, LoggerType
  <2>2. QED
    BY <1>1, <2>1, QuietKeepsLogInv DEF IsEnabled
<1>2. ASSUME NEW setting \in Setting, SetConsole(setting) \/ SetRing(setting)
      PROVE  LogInv'
  <2>1. outputs' \in [console : Setting, ring : Setting]
    BY <1>2 DEF SetConsole, SetRing, LogInv, LoggerType
  <2>2. UNCHANGED <<ring, next_sequence, default_logger, writing, reading>>
          /\ default_logger
    BY <1>2 DEF SetConsole, SetRing
  <2>3. LoggerType'
    BY <2>1, <2>2 DEF LogInv, LoggerType
  <2>4. QED
    BY <2>2, <2>3, QuietKeepsLogInv
<1>3. CASE ShutdownLog
  <2>1. LoggerType'
    BY <1>3 DEF ShutdownLog, LogInv, LoggerType
  <2>2. QED
    BY <1>3, <2>1, QuietKeepsLogInv DEF ShutdownLog
<1>4. CASE UNCHANGED loggerVars
  <2>1. LoggerType' /\ UNCHANGED <<ring, next_sequence, reading, default_logger>>
    BY <1>4 DEF loggerVars, LogInv, LoggerType
  <2>2. QED
    BY <2>1, QuietKeepsLogInv DEF LogInv
<1>5. QED
  BY <1>1, <1>2, <1>3, <1>4, WriteKeepsLogInv, EmptiedKeepsLogInv,
     ReadKeepsLogInv, StopKeepsLogInv DEF LoggerNext

(* However many threads write, overwrite and clear between two reads, a    *)
(* reader never gets a record twice or an older one after a newer one.     *)
THEOREM ReadersMoveForward == LoggerSpec => ReaderMovesForward
<1>1. LogInv => (ReadRecord => reading'.last > reading.last)
  BY ReadIsNewer
<1>2. QED
  BY <1>1, InitLogInv, NextLogInv, PTL DEF LoggerSpec, ReaderMovesForward

-----------------------------------------------------------------------------

LEMMA InitImplementsTail == LoggerInit => Newest!TailInit
<1> SUFFICES ASSUME LoggerInit PROVE Newest!TailInit
  OBVIOUS
<1>1. LogInv
  BY InitLogInv
<1>2. ring \in LogRing
  BY <1>1, RingTyped DEF LogInv
<1>3. ring.count = 0 /\ ring.overwritten_count = 0 /\ next_sequence = 0
  BY DEF LoggerInit, EmptyLog
<1>4. Records(ring) = << >>
  BY <1>2, <1>3, RecordsType, EmptySeq
<1>5. QED
  BY <1>3, <1>4 DEF Newest!TailInit

LEMMA WriteImplementsTail ==
  ASSUME LogInv, NEW w \in Writer, WriteRecord(w)
  PROVE  Newest!TailNext
<1> DEFINE record == [sequence |-> next_sequence, level |-> writing[w]]
           before == Records(ring)
           after == Records(ring')
<1>1. /\ next_sequence \in Nat /\ ring \in LogRing /\ ring.count \in Nat
      /\ ring.count \in 0 .. LogCapacity /\ LogCapacity \in Nat \ {0}
      /\ writing[w] \in Level /\ next_sequence' = next_sequence + 1
  BY RingTyped, LoggerAssumption DEF LogInv, LoggerType, WriteRecord, LogRing
<1>2. record \in Record /\ record = Newest!NextRecord(writing[w])
  BY <1>1 DEF Record, Newest!NextRecord
<1>3. ring' = ring \/ ring' = RingPush(ring, record)
  BY DEF WriteRecord
<1> HIDE DEF record
<1>4. before \in Seq(Slots) /\ Len(before) = ring.count
      /\ \A i \in 1 .. ring.count : before[i] = At(ring, i)
  BY <1>1, RecordsType
<1>5. CASE ring' = ring
  BY <1>1, <1>5 DEF Newest!TailNext, Newest!PassRecord
<1>6. CASE ring' = RingPush(ring, record) /\ ring.count # LogCapacity
  <2>1. /\ ring' \in LogRing /\ ring'.count = ring.count + 1
        /\ ring'.overwritten_count = ring.overwritten_count
        /\ \A i \in 1 .. ring.count : At(ring', i) = At(ring, i)
        /\ At(ring', ring.count + 1) = record
    BY <1>1, <1>2, <1>6, PushAppendsRecord
  <2>2. after \in Seq(Slots) /\ Len(after) = ring.count + 1
        /\ \A i \in 1 .. ring.count + 1 : after[i] = At(ring', i)
    BY <2>1, RecordsType
  <2>3. record \in Slots
    BY <1>2 DEF Slots
  <2> HIDE DEF before, after
  <2>4. \A i \in 1 .. ring.count + 1 : after[i] = Append(before, record)[i]
    BY <1>1, <1>4, <2>1, <2>2, <2>3
  <2>5. after = Append(before, record)
    <3>1. Append(before, record) \in Seq(Slots)
          /\ Len(Append(before, record)) = ring.count + 1
      BY <1>1, <1>4, <2>3
    <3>2. QED
      BY <2>2, <2>4, <3>1, SeqEqual
  <2>6. Records(ring)' = Append(Records(ring), record) /\ Len(Records(ring)) < LogCapacity
    BY <1>1, <1>4, <1>6, <2>5 DEF before, after
  <2>7. Newest!KeepRecord(writing[w])
    BY <1>1, <1>2, <2>1, <2>6 DEF Newest!KeepRecord
  <2>8. QED
    BY <1>1, <2>7 DEF Newest!TailNext
<1>7. CASE ring' = RingPush(ring, record) /\ ring.count = LogCapacity
  <2>1. /\ ring' \in LogRing /\ ring'.count = ring.count
        /\ ring'.overwritten_count = ring.overwritten_count + 1
        /\ \A i \in 1 .. ring.count - 1 : At(ring', i) = At(ring, i + 1)
        /\ At(ring', ring.count) = record
    BY <1>1, <1>2, <1>7, PushOverwritesRecord
  <2>2. after \in Seq(Slots) /\ Len(after) = ring.count
        /\ \A i \in 1 .. ring.count : after[i] = At(ring', i)
    BY <2>1, RecordsType
  <2>3. record \in Slots /\ ring.count > 0
    BY <1>1, <1>2, <1>7 DEF Slots
  <2> HIDE DEF before, after
  <2>4. /\ Tail(before) \in Seq(Slots) /\ Len(Tail(before)) = ring.count - 1
        /\ \A i \in 1 .. ring.count - 1 : Tail(before)[i] = before[i + 1]
    BY <1>1, <1>4, <2>3, before # << >>, HeadTailProperties
  <2>5. \A i \in 1 .. ring.count : after[i] = Append(Tail(before), record)[i]
    <3> TAKE i \in 1 .. ring.count
    <3>1. CASE i = ring.count
      BY <1>1, <2>1, <2>2, <2>3, <2>4, <3>1
    <3>2. CASE i # ring.count
      <4>1. i \in 1 .. ring.count - 1 /\ i + 1 \in 1 .. ring.count
        BY <1>1, <3>2
      <4>2. Append(Tail(before), record)[i] = Tail(before)[i]
        BY <1>1, <2>3, <2>4, <4>1
      <4>3. QED
        BY <1>4, <2>1, <2>2, <2>4, <4>1, <4>2
    <3>3. QED
      BY <3>1, <3>2
  <2>6. after = Append(Tail(before), record)
    <3>1. Append(Tail(before), record) \in Seq(Slots)
          /\ Len(Append(Tail(before), record)) = ring.count
      BY <1>1, <2>3, <2>4
    <3>2. QED
      BY <2>2, <2>5, <3>1, SeqEqual
  <2>7. Records(ring)' = Append(Tail(Records(ring)), record)
        /\ Len(Records(ring)) = LogCapacity
    BY <1>1, <1>4, <1>7, <2>6 DEF before, after
  <2>8. Newest!KeepRecord(writing[w])
    BY <1>1, <1>2, <2>1, <2>7 DEF Newest!KeepRecord
  <2>9. QED
    BY <1>1, <2>8 DEF Newest!TailNext
<1>8. QED
  BY <1>3, <1>5, <1>6, <1>7

LEMMA EmptiedImplementsTail ==
  ASSUME LogInv, ClearLog \/ InitializeLog
  PROVE  Newest!TailNext
<1>1. ring' \in LogRing /\ ring'.count = 0
  BY EmptiedRing
<1>2. Records(ring)' = << >>
  BY <1>1, RecordsType, EmptySeq
<1>3. CASE ClearLog
  <2>1. ring'.overwritten_count = ring.overwritten_count
    BY <1>3, RingTyped DEF ClearLog, LogInv, LogRing
  <2>2. QED
    BY <1>2, <1>3, <2>1 DEF ClearLog, Newest!TailNext, Newest!ForgetRecords
<1>4. CASE InitializeLog
  BY <1>2, <1>4 DEF InitializeLog, EmptyLog, Newest!TailNext, Newest!Restart
<1>5. QED
  BY <1>3, <1>4

(* The ring of the logger, whatever its capacity and whichever threads     *)
(* write, clear and change levels, implements the log tail.                *)
THEOREM RingImplementsLogTail == LoggerSpec => ImplementsLogTail
<1>1. LoggerInit => Newest!TailInit
  BY InitImplementsTail
<1>2. LogInv /\ [LoggerNext]_loggerVars => [Newest!TailNext]_Newest!tailVars
  <2> SUFFICES ASSUME LogInv, [LoggerNext]_loggerVars
               PROVE  [Newest!TailNext]_Newest!tailVars
    OBVIOUS
  <2>1. CASE UNCHANGED <<ring, next_sequence>>
    BY <2>1 DEF Newest!tailVars, Records, LogSlot
  <2>2. QED
    BY <2>1, WriteImplementsTail, EmptiedImplementsTail
       DEF LoggerNext, loggerVars, IsEnabled, SetConsole, SetRing, ReadRecord,
           StopReading, ShutdownLog
<1>3. QED
  BY <1>1, <1>2, InitLogInv, NextLogInv, PTL
     DEF LoggerSpec, ImplementsLogTail, Newest!TailSpec

-----------------------------------------------------------------------------
(* The state machine.                                                      *)
(* The invariant says how far the innermost dispatch has come: outer ones  *)
(* wait in their sink, and the flag dispatching is set exactly between the *)
(* exit hook of the innermost one and its return. No state is left between *)
(* the lookup and that hook, as guards do not dispatch.                    *)

Guarding == frames # << >> /\ Top.phase = "guard"

Busy == frames # << >> /\ Top.phase \in {"exit", "action", "entry"}

(* What is entered once the exit hook was called.                          *)
AfterExit == IF Row.internal THEN {Top.previous_state} ELSE {}

OuterTraced ==
  \A k \in DOMAIN frames : k < Len(frames) => frames[k].phase = "traced"

Progress ==
  /\ Guarding \/ Busy => Row.from_state \in {Top.previous_state, AnyState}
  /\ Guarding => machine.current_state = Top.previous_state
  /\ Busy =>
    /\ told \in {Top.previous_state, AnyState}
    /\ Top.phase = "exit" =>
         machine.current_state = Top.previous_state /\ entered = {Top.previous_state}
    /\ Top.phase = "action" =>
         machine.current_state = Top.previous_state /\ entered = AfterExit
    /\ Top.phase = "entry" =>
         machine.current_state = Row.to_state /\ entered = AfterExit

MachineInv ==
  /\ MachineType
  /\ OuterTraced
  /\ machine.dispatching <=> Busy
  /\ Progress
  /\ MachineAsObserved
  /\ unbroken
  /\ ~machine.trace => told = AnyState

-----------------------------------------------------------------------------

(* An internal row stays in its state, whatever state it started in.       *)
LEMMA InternalStays ==
  ASSUME NEW k \in DOMAIN Transitions, NEW state \in States,
         Transitions[k].from_state \in {state, AnyState}, Transitions[k].internal
  PROVE  Transitions[k].to_state = state
<1>1. Transitions[k] \in Transition
  BY MachineAssumption DEF TransitionsAreValid
<1>2. Transitions[k].to_state \in States
  BY <1>1 DEF Transition
<1>3. QED
  BY <1>2, MachineAssumption DEF StatesAreValid

LEMMA RowTypes ==
  ASSUME NEW k \in DOMAIN Transitions
  PROVE  /\ Transitions[k].to_state \in States
         /\ Transitions[k].from_state \in States \cup {AnyState}
         /\ Transitions[k].internal \in BOOLEAN
<1>1. Transitions[k] \in Transition
  BY MachineAssumption DEF TransitionsAreValid
<1>2. QED
  BY <1>1 DEF Transition

LEMMA TopTypes ==
  ASSUME MachineType, frames # << >>
  PROVE  /\ Top \in Frame /\ Len(frames) \in DOMAIN frames
         /\ Len(frames) \in Nat \ {0}
         /\ Top.row \in DOMAIN Transitions /\ Top.previous_state \in States
<1>1. frames \in Seq(Frame)
  BY DEF MachineType
<1>2. Len(frames) \in Nat \ {0} /\ Len(frames) \in DOMAIN frames
  BY <1>1, EmptySeq
<1>3. Top \in Frame
  BY <1>1, <1>2, ElementOfSeq DEF Top
<1>4. QED
  BY <1>2, <1>3 DEF Frame

(* A step of the innermost dispatch to its next phase.                     *)
LEMMA StepFrames ==
  ASSUME MachineType, OuterTraced, frames # << >>, NEW phase \in Phase,
         frames' = Step(phase)
  PROVE  /\ frames' \in Seq(Frame) /\ frames' # << >> /\ OuterTraced'
         /\ Top'.phase = phase /\ Top'.row = Top.row
         /\ Top'.previous_state = Top.previous_state
<1>1. Top \in Frame /\ Len(frames) \in DOMAIN frames
  BY TopTypes
<1>2. PICK f : f = [Top EXCEPT !.phase = phase]
  OBVIOUS
<1>3. f \in Frame /\ f.phase = phase /\ f.row = Top.row
        /\ f.previous_state = Top.previous_state
  BY <1>1, <1>2 DEF Frame
<1>4. frames' = [frames EXCEPT ![Len(frames)] = f]
  BY <1>2 DEF Step, Top
<1>5. frames \in Seq(Frame)
  BY DEF MachineType
<1>6. /\ frames' \in Seq(Frame) /\ Len(frames') = Len(frames)
      /\ DOMAIN frames' = DOMAIN frames
      /\ frames'[Len(frames)] = f
      /\ \A k \in DOMAIN frames : k # Len(frames) => frames'[k] = frames[k]
  BY <1>1, <1>3, <1>4, <1>5
<1>7. Top' = f
  BY <1>6 DEF Top
<1>8. OuterTraced'
  BY <1>6 DEF OuterTraced
<1>9. frames' # << >>
  BY <1>1, <1>5, <1>6
<1>10. QED
  BY <1>3, <1>6, <1>7, <1>8, <1>9

LEMMA InitMachineInv == MachineInit => MachineInv
<1> SUFFICES ASSUME MachineInit PROVE MachineInv
  OBVIOUS
<1>1. MachineType
  BY MachineAssumption DEF MachineInit, MachineType
<1>2. QED
  BY <1>1 DEF MachineInit, MachineInv, OuterTraced, Busy, Guarding, Progress,
              MachineAsObserved

(* The step into a row of the table: what the frames below hold, where the *)
(* machine is and where the row starts decide that the invariant holds.    *)
LEMMA TriedKeepsInv ==
  ASSUME MachineInv, ~machine.dispatching, NEW id \in MachineEvent,
         NEW k \in DOMAIN Transitions, Matches(k, id),
         NEW flag \in BOOLEAN, flag <=> ~Transitions[k].guarded,
         machine' = [machine EXCEPT !.dispatching = flag],
         frames' \in Seq(Frame), frames' # << >>, OuterTraced',
         Top' = Tried(k, id, machine.current_state),
         UNCHANGED <<entered, told, unbroken>>
  PROVE  MachineInv'
<1>1. Transitions[k].guarded \in BOOLEAN
  <2>1. Transitions[k] \in Transition
    BY MachineAssumption DEF TransitionsAreValid
  <2>2. QED
    BY <2>1 DEF Transition
<1>2. /\ machine.current_state \in States /\ machine.trace \in BOOLEAN
      /\ machine'.current_state = machine.current_state
      /\ machine'.dispatching = flag
      /\ machine'.trace = machine.trace
      /\ machine' \in [current_state : States, dispatching : BOOLEAN, trace : BOOLEAN]
  BY DEF MachineInv, MachineType
<1>3. /\ Top'.row = k /\ Top'.previous_state = machine.current_state
      /\ Top'.phase = IF Transitions[k].guarded THEN "guard" ELSE "exit"
  BY DEF Tried
<1>4. Row' = Transitions[k]
  BY <1>3 DEF Row
<1>5. /\ Busy' <=> ~Transitions[k].guarded
      /\ Guarding' <=> Transitions[k].guarded
  BY <1>1, <1>3 DEF Busy, Guarding
<1>6. Transitions[k].from_state \in {machine.current_state, AnyState}
  BY DEF Matches
<1>7. entered = {machine.current_state} /\ told \in {machine.current_state, AnyState}
  BY DEF MachineInv, MachineAsObserved
<1>8. Progress'
  <2>1. Row'.from_state \in {Top'.previous_state, AnyState}
    BY <1>3, <1>4, <1>6
  <2>2. machine'.current_state = Top'.previous_state
    BY <1>2, <1>3
  <2>3. entered' = {Top'.previous_state} /\ told' \in {Top'.previous_state, AnyState}
    BY <1>3, <1>7
  <2>4. Busy' => Top'.phase = "exit"
    BY <1>3, <1>5
  <2>5. QED
    BY <2>1, <2>2, <2>3, <2>4 DEF Progress
<1>9. MachineType'
  BY <1>2 DEF MachineInv, MachineType
<1>10. MachineAsObserved'
  BY <1>2, <1>7 DEF MachineInv, MachineAsObserved
<1>11. QED
  BY <1>2, <1>5, <1>8, <1>9, <1>10 DEF MachineInv

LEMMA TriedIsFrame ==
  ASSUME NEW k \in DOMAIN Transitions, NEW id \in MachineEvent, NEW state \in States
  PROVE  Tried(k, id, state) \in Frame
BY DEF Tried, Frame, Phase

LEMMA DispatchKeepsInv ==
  ASSUME ~GuardsDispatch, MachineInv, NEW id \in MachineEvent, Dispatch(id)
  PROVE  MachineInv'
<1>1. ~machine.dispatching /\ ~Guarding /\ UNCHANGED <<entered, told, unbroken>>
  BY DEF Dispatch, Callable, NotDispatching, TopIs, Guarding
<1>2. PICK k \in DOMAIN Transitions :
        /\ Candidate(id, 1, k)
        /\ frames' = Append(frames, Tried(k, id, machine.current_state))
        /\ machine' = [machine EXCEPT !.dispatching = ~Transitions[k].guarded]
  BY DEF Dispatch
<1>3. PICK f : f = Tried(k, id, machine.current_state)
  OBVIOUS
<1>4. machine.current_state \in States
  BY DEF MachineInv, MachineType
<1>5. f \in Frame
  BY <1>3, <1>4, TriedIsFrame
<1>6. frames \in Seq(Frame) /\ frames' = Append(frames, f)
  BY <1>2, <1>3 DEF MachineInv, MachineType
<1>7. /\ frames' \in Seq(Frame) /\ Len(frames') = Len(frames) + 1 /\ frames' # << >>
      /\ frames'[Len(frames')] = f
      /\ Len(frames) \in Nat /\ DOMAIN frames = 1 .. Len(frames)
      /\ DOMAIN frames' = 1 .. Len(frames) + 1
      /\ \A i \in DOMAIN frames : frames'[i] = frames[i]
  BY <1>5, <1>6
<1>8. OuterTraced'
  <2>1. frames # << >> => Top.phase = "traced"
    BY <1>1, TopTypes DEF MachineInv, Busy, Guarding, Frame, Phase
  <2>2. \A i \in DOMAIN frames : frames[i].phase = "traced"
    BY <1>7, <2>1 DEF MachineInv, OuterTraced, Top
  <2>3. QED
    BY <1>7, <2>2 DEF OuterTraced
<1>9. Top' = Tried(k, id, machine.current_state)
  BY <1>3, <1>7 DEF Top
<1>10. Matches(k, id)
  BY <1>2 DEF Candidate
<1>11. PICK flag \in BOOLEAN : flag = ~Transitions[k].guarded
  BY Zenon
<1>12. machine' = [machine EXCEPT !.dispatching = flag]
  BY <1>2, <1>11, Zenon
<1>13. flag <=> ~Transitions[k].guarded
  BY <1>11, Zenon
<1>14. QED
  BY <1>1, <1>7, <1>8, <1>9, <1>10, <1>12, <1>13, TriedKeepsInv

LEMMA AllowsKeepsInv == MachineInv /\ GuardAllows => MachineInv'
<1> SUFFICES ASSUME MachineInv, GuardAllows PROVE MachineInv'
  OBVIOUS
<1>1. /\ frames # << >> /\ Top.phase = "guard" /\ frames' = Step("exit")
      /\ machine' = [machine EXCEPT !.dispatching = TRUE]
      /\ UNCHANGED <<entered, told, unbroken>>
  BY DEF GuardAllows, TopIs
<1>2. /\ frames' \in Seq(Frame) /\ frames' # << >> /\ OuterTraced'
      /\ Top'.phase = "exit" /\ Top'.row = Top.row
      /\ Top'.previous_state = Top.previous_state
  BY <1>1, StepFrames DEF MachineInv, Phase
<1>3. Row' = Row
  BY <1>2 DEF Row
<1>4. ~Busy /\ Guarding /\ ~machine.dispatching
  BY <1>1 DEF Busy, Guarding, MachineInv
<1>5. /\ machine'.current_state = machine.current_state
      /\ machine'.dispatching = TRUE /\ machine'.trace = machine.trace
      /\ machine' \in [current_state : States, dispatching : BOOLEAN, trace : BOOLEAN]
  BY <1>1 DEF MachineInv, MachineType
<1>6. /\ Row.from_state \in {Top.previous_state, AnyState}
      /\ machine.current_state = Top.previous_state
  BY <1>4 DEF MachineInv, Progress
<1>7. entered = {Top.previous_state} /\ told \in {Top.previous_state, AnyState}
  BY <1>4, <1>6 DEF MachineInv, MachineAsObserved
<1>8. Busy' /\ ~Guarding'
  BY <1>2 DEF Busy, Guarding
<1>9. Progress'
  BY <1>1, <1>2, <1>3, <1>5, <1>6, <1>7, <1>8 DEF Progress
<1>10. MachineType'
  BY <1>1, <1>2, <1>5 DEF MachineInv, MachineType
<1>11. QED
  BY <1>1, <1>2, <1>5, <1>8, <1>9, <1>10 DEF MachineInv, MachineAsObserved

LEMMA RefusesKeepsInv == MachineInv /\ GuardRefuses => MachineInv'
<1> SUFFICES ASSUME MachineInv, GuardRefuses PROVE MachineInv'
  OBVIOUS
<1>1. frames # << >> /\ Top.phase = "guard" /\ UNCHANGED <<entered, told, unbroken>>
  BY DEF GuardRefuses, TopIs
<1>2. PICK k \in DOMAIN Transitions :
        /\ Candidate(Top.event, Top.row + 1, k)
        /\ frames' = [frames EXCEPT ![Len(frames)] = Tried(k, Top.event, Top.previous_state)]
        /\ machine' = [machine EXCEPT !.dispatching = ~Transitions[k].guarded]
  BY DEF GuardRefuses
<1>3. ~Busy /\ Guarding /\ ~machine.dispatching
  BY <1>1 DEF Busy, Guarding, MachineInv
<1>4. /\ Top \in Frame /\ Len(frames) \in DOMAIN frames
      /\ Top.previous_state \in States /\ frames \in Seq(Frame)
  BY <1>1, TopTypes DEF MachineInv, MachineType
<1>5. Top.event \in MachineEvent
  BY <1>4 DEF Frame
<1>6. PICK f : f = Tried(k, Top.event, Top.previous_state)
  OBVIOUS
<1>7. f \in Frame
  BY <1>4, <1>5, <1>6, TriedIsFrame
<1>8. frames' = [frames EXCEPT ![Len(frames)] = f]
  BY <1>2, <1>6
<1>9. /\ frames' \in Seq(Frame) /\ Len(frames') = Len(frames)
      /\ DOMAIN frames' = DOMAIN frames
      /\ frames'[Len(frames)] = f
      /\ \A i \in DOMAIN frames : i # Len(frames) => frames'[i] = frames[i]
  BY <1>4, <1>7, <1>8
<1>10. Top' = f
  BY <1>9 DEF Top
<1>11. OuterTraced'
  BY <1>9 DEF MachineInv, OuterTraced
<1>12. frames' # << >>
  BY <1>4, <1>9
<1>13. machine.current_state = Top.previous_state
  BY <1>3 DEF MachineInv, Progress
<1>14. Top' = Tried(k, Top.event, machine.current_state)
  BY <1>6, <1>10, <1>13
<1>15. Matches(k, Top.event)
  BY <1>2 DEF Candidate
<1>16. PICK flag \in BOOLEAN : flag = ~Transitions[k].guarded
  BY Zenon
<1>17. machine' = [machine EXCEPT !.dispatching = flag]
  BY <1>2, <1>16, Zenon
<1>18. flag <=> ~Transitions[k].guarded
  BY <1>16, Zenon
<1>19. QED
  BY <1>1, <1>3, <1>5, <1>9, <1>11, <1>12, <1>14, <1>15, <1>17, <1>18, TriedKeepsInv

LEMMA ExitKeepsInv == MachineInv /\ ExitState => MachineInv'
<1> SUFFICES ASSUME MachineInv, ExitState PROVE MachineInv'
  OBVIOUS
<1>1. /\ frames # << >> /\ Top.phase = "exit" /\ frames' = Step("action")
      /\ entered' = (IF Row.internal THEN entered ELSE entered \ {Top.previous_state})
      /\ UNCHANGED <<machine, told, unbroken>>
  BY DEF ExitState, TopIs
<1>2. /\ frames' \in Seq(Frame) /\ frames' # << >> /\ OuterTraced'
      /\ Top'.phase = "action" /\ Top'.row = Top.row
      /\ Top'.previous_state = Top.previous_state
  BY <1>1, StepFrames DEF MachineInv, Phase
<1>3. Row' = Row
  BY <1>2 DEF Row
<1>4. Busy /\ machine.dispatching
  BY <1>1 DEF Busy, MachineInv
<1>5. Row.internal \in BOOLEAN
  BY <1>1, TopTypes, RowTypes DEF MachineInv, Row
<1>6. entered = {Top.previous_state}
  BY <1>1, <1>4 DEF MachineInv, Progress
<1>7. entered' = AfterExit'
  BY <1>1, <1>2, <1>3, <1>5, <1>6 DEF AfterExit
<1>8. Progress'
  BY <1>1, <1>2, <1>3, <1>4, <1>7 DEF MachineInv, Progress, Guarding, Busy
<1>9. MachineType'
  BY <1>1, <1>2 DEF MachineInv, MachineType
<1>10. QED
  BY <1>1, <1>2, <1>4, <1>8, <1>9 DEF MachineInv, Busy, MachineAsObserved

LEMMA TakeKeepsInv == MachineInv /\ TakeTransition => MachineInv'
<1> SUFFICES ASSUME MachineInv, TakeTransition PROVE MachineInv'
  OBVIOUS
<1>1. /\ frames # << >> /\ Top.phase = "action" /\ frames' = Step("entry")
      /\ machine' = [machine EXCEPT !.current_state = Row.to_state]
      /\ UNCHANGED <<entered, told, unbroken>>
  BY DEF TakeTransition, TopIs
<1>2. /\ frames' \in Seq(Frame) /\ frames' # << >> /\ OuterTraced'
      /\ Top'.phase = "entry" /\ Top'.row = Top.row
      /\ Top'.previous_state = Top.previous_state
  BY <1>1, StepFrames DEF MachineInv, Phase
<1>3. Row' = Row /\ AfterExit' = AfterExit
  BY <1>2 DEF Row, AfterExit
<1>4. Busy /\ machine.dispatching
  BY <1>1 DEF Busy, MachineInv
<1>5. Row.to_state \in States
  BY <1>1, TopTypes, RowTypes DEF MachineInv, Row
<1>6. /\ machine'.current_state = Row.to_state
      /\ machine'.dispatching = machine.dispatching /\ machine'.trace = machine.trace
      /\ machine' \in [current_state : States, dispatching : BOOLEAN, trace : BOOLEAN]
  BY <1>1, <1>5 DEF MachineInv, MachineType
<1>7. Progress'
  BY <1>1, <1>2, <1>3, <1>4, <1>6 DEF MachineInv, Progress, Guarding, Busy
<1>8. MachineType'
  BY <1>1, <1>2, <1>6 DEF MachineInv, MachineType
<1>9. QED
  BY <1>1, <1>2, <1>4, <1>6, <1>7, <1>8 DEF MachineInv, Busy, MachineAsObserved

LEMMA EnterKeepsInv == MachineInv /\ EnterState => MachineInv'
<1> SUFFICES ASSUME MachineInv, EnterState PROVE MachineInv'
  OBVIOUS
<1>1. /\ frames # << >> /\ Top.phase = "entry" /\ frames' = Step("traced")
      /\ machine' = [machine EXCEPT !.dispatching = FALSE]
      /\ entered' = (IF Row.internal THEN entered ELSE entered \cup {Row.to_state})
      /\ told' = (IF machine.trace THEN machine.current_state ELSE told)
      /\ unbroken' = (unbroken /\ (machine.trace => told \in {Top.previous_state, AnyState}))
  BY DEF EnterState, TopIs, TraceTransition
<1>2. /\ frames' \in Seq(Frame) /\ frames' # << >> /\ OuterTraced'
      /\ Top'.phase = "traced"
  BY <1>1, StepFrames DEF MachineInv, Phase
<1>3. Busy /\ machine.dispatching
  BY <1>1 DEF Busy, MachineInv
<1>4. /\ Row.from_state \in {Top.previous_state, AnyState}
      /\ told \in {Top.previous_state, AnyState}
      /\ machine.current_state = Row.to_state /\ entered = AfterExit
  BY <1>1, <1>3 DEF MachineInv, Progress
<1>5. /\ Top.row \in DOMAIN Transitions /\ Top.previous_state \in States
      /\ Row.to_state \in States /\ Row.internal \in BOOLEAN
  BY <1>1, TopTypes, RowTypes DEF MachineInv, Row
<1>6. Row.internal => Row.to_state = Top.previous_state
  BY <1>4, <1>5, InternalStays DEF Row
<1>7. /\ machine'.current_state = machine.current_state
      /\ machine'.dispatching = FALSE /\ machine'.trace = machine.trace
      /\ machine' \in [current_state : States, dispatching : BOOLEAN, trace : BOOLEAN]
  BY <1>1 DEF MachineInv, MachineType
<1>8. entered' = {machine'.current_state}
  BY <1>1, <1>4, <1>5, <1>6, <1>7 DEF AfterExit
<1>9. unbroken' = TRUE
  BY <1>1, <1>4 DEF MachineInv
<1>10. /\ told' \in {machine'.current_state, AnyState}
       /\ ~machine'.trace => told' = AnyState
  BY <1>1, <1>7 DEF MachineInv, MachineType
<1>11. MachineType'
  BY <1>2, <1>4, <1>5, <1>7, <1>8, <1>9, <1>10 DEF MachineType
<1>12. ~Busy' /\ ~Guarding'
  BY <1>2 DEF Busy, Guarding
<1>13. Progress' /\ MachineAsObserved'
  BY <1>8, <1>9, <1>10, <1>12 DEF Progress, MachineAsObserved
<1>14. QED
  BY <1>2, <1>7, <1>9, <1>10, <1>11, <1>12, <1>13 DEF MachineInv

(* A dispatch ends, after its sink or as no row is left.                   *)
LEMMA PopKeepsInv ==
  ASSUME MachineInv, frames # << >>, ~Busy,
         frames' = SubSeq(frames, 1, Len(frames) - 1),
         UNCHANGED <<machine, entered, told, unbroken>>
  PROVE  MachineInv'
<1>2. frames \in Seq(Frame) /\ Len(frames) \in Nat \ {0}
  BY TopTypes DEF MachineInv, MachineType
<1>3. /\ frames' \in Seq(Frame) /\ Len(frames') = Len(frames) - 1
      /\ \A k \in 1 .. Len(frames) - 1 : frames'[k] = frames[k]
  <2>1. PICK n \in Nat : n = Len(frames) - 1
    BY <1>2
  <2>2. \A i \in 1 .. n : frames[i] \in Frame
    BY <1>2, <2>1
  <2>3. /\ SubSeq(frames, 1, n) \in Seq(Frame)
        /\ Len(SubSeq(frames, 1, n)) = IF 1 <= n THEN n - 1 + 1 ELSE 0
        /\ \A i \in 1 .. n - 1 + 1 : SubSeq(frames, 1, n)[i] = frames[1 + i - 1]
    BY <2>1, <2>2, SubSeqProperties
  <2>4. frames' = SubSeq(frames, 1, n)
    BY <2>1
  <2>5. QED
    BY <2>1, <2>3, <2>4
<1>4. \A k \in DOMAIN frames' : frames'[k].phase = "traced"
  BY <1>2, <1>3 DEF MachineInv, OuterTraced
<1>5. frames' = << >> \/ Len(frames') \in DOMAIN frames'
  BY <1>3, EmptySeq
<1>6. ~Busy' /\ ~Guarding'
  BY <1>4, <1>5 DEF Busy, Guarding, Top
<1>7. ~machine.dispatching
  BY DEF MachineInv
<1>8. MachineType'
  BY <1>3 DEF MachineInv, MachineType
<1>9. QED
  BY <1>4, <1>6, <1>7, <1>8 DEF MachineInv, OuterTraced, Progress, MachineAsObserved

LEMMA ReturnKeepsInv == MachineInv /\ Return => MachineInv'
BY PopKeepsInv DEF Return, TopIs, Busy

LEMMA NoTransitionKeepsInv == MachineInv /\ NoTransition => MachineInv'
BY PopKeepsInv DEF NoTransition, TopIs, Busy

LEMMA SetTraceKeepsInv ==
  ASSUME MachineInv, NEW attached \in BOOLEAN, SetTrace(attached)
  PROVE  MachineInv'
<1>1. /\ ~machine.dispatching /\ told' = AnyState
      /\ machine' = [machine EXCEPT !.trace = attached]
      /\ UNCHANGED <<frames, entered, unbroken>>
  BY DEF SetTrace, Callable, NotDispatching
<1>2. /\ machine'.current_state = machine.current_state
      /\ machine'.dispatching = machine.dispatching
      /\ machine' \in [current_state : States, dispatching : BOOLEAN, trace : BOOLEAN]
  BY <1>1 DEF MachineInv, MachineType
<1>3. MachineType'
  BY <1>1, <1>2 DEF MachineInv, MachineType
<1>4. ~Busy' /\ OuterTraced'
  BY <1>1 DEF MachineInv, OuterTraced, Busy, Top
<1>5. Progress'
  BY <1>1, <1>2, <1>4 DEF MachineInv, Progress, Guarding, Top, Row
<1>6. QED
  BY <1>1, <1>2, <1>3, <1>4, <1>5 DEF MachineInv, MachineAsObserved

LEMMA NextMachineInv ==
  ASSUME ~GuardsDispatch, MachineInv, [MachineNext]_machineVars
  PROVE  MachineInv'
<1>1. CASE UNCHANGED machineVars
  BY <1>1 DEF machineVars, MachineInv, MachineType, OuterTraced, Busy, Guarding, Top,
              Row, Progress, AfterExit, MachineAsObserved
<1>2. QED
  BY <1>1, DispatchKeepsInv, AllowsKeepsInv, RefusesKeepsInv, NoTransitionKeepsInv,
     ExitKeepsInv, TakeKeepsInv, EnterKeepsInv, ReturnKeepsInv, SetTraceKeepsInv
     DEF MachineNext

(* Entry and exit hooks, the current state and a connected trace show one  *)
(* picture between two transitions, for every table whose guards do not    *)
(* dispatch and any nesting of dispatches from hooks, actions and sinks.   *)
THEOREM ObserversAgree ==
  ASSUME ~GuardsDispatch
  PROVE  MachineSpec => [](MachineType /\ MachineAsObserved)
<1>1. MachineInv => MachineType /\ MachineAsObserved
  BY DEF MachineInv
<1>2. QED
  BY <1>1, InitMachineInv, NextMachineInv, PTL DEF MachineSpec

-----------------------------------------------------------------------------
(* UTC arithmetic and the time service.                                    *)
(* The arithmetic facts are stated first; the service follows from the one *)
(* on addition.                                                            *)

(* Multiplication by the positive NsPerSecond respects order.              *)
LEMMA ScaleOrder ==
  ASSUME NEW a \in Int, NEW b \in Int, a < b
  PROVE  a * NsPerSecond + NsPerSecond <= b * NsPerSecond
<1>1. NsPerSecond \in Nat /\ b - a - 1 \in Nat
  BY TimeAssumption
<1>2. (b - a - 1) * NsPerSecond >= 0
  BY <1>1
<1>3. (b - a - 1) * NsPerSecond = b * NsPerSecond - a * NsPerSecond - NsPerSecond
  BY <1>1
<1>4. a * NsPerSecond \in Int /\ b * NsPerSecond \in Int
  BY <1>1
<1>5. QED
  BY <1>1, <1>2, <1>3, <1>4

(* A value has a representation exactly if its seconds fit an int64_t.     *)
LEMMA RepresentableSeconds ==
  ASSUME NEW s \in Int, NEW n \in Nanosecond
  PROVE  Representable(s * NsPerSecond + n) <=> s \in Int64
<1>1. /\ MinInt \in Int /\ MaxInt \in Int /\ NsPerSecond \in Nat
      /\ n \in Nat /\ n < NsPerSecond
      /\ s * NsPerSecond \in Int
      /\ MinInt * NsPerSecond \in Int /\ MaxInt * NsPerSecond \in Int
  BY TimeAssumption DEF MinInt, Nanosecond
<1>2. s < MinInt => s * NsPerSecond + NsPerSecond <= MinInt * NsPerSecond
  BY <1>1, ScaleOrder
<1>3. s > MaxInt => MaxInt * NsPerSecond + NsPerSecond <= s * NsPerSecond
  BY <1>1, ScaleOrder
<1>4. s > MinInt => MinInt * NsPerSecond + NsPerSecond <= s * NsPerSecond
  BY <1>1, ScaleOrder
<1>5. s < MaxInt => s * NsPerSecond + NsPerSecond <= MaxInt * NsPerSecond
  BY <1>1, ScaleOrder
<1>6. QED
  BY <1>1, <1>2, <1>3, <1>4, <1>5 DEF Representable, Int64

LEMMA TimeFields ==
  ASSUME NEW t \in Time
  PROVE  /\ t.seconds \in Int64 /\ t.nanosecond \in Nanosecond
         /\ t.seconds \in Int /\ t.nanosecond \in Nat
         /\ t.nanosecond < NsPerSecond
         /\ MinInt <= t.seconds /\ t.seconds <= MaxInt
         /\ Value(t) \in Int
  BY TimeAssumption DEF Time, Int64, Nanosecond, Value, MinInt

LEMMA TimeOfFields ==
  ASSUME NEW s, NEW n
  PROVE  TimeOf(s, n).seconds = s /\ TimeOf(s, n).nanosecond = n
  BY DEF TimeOf

(* The sum of the fractions, with its carry.                               *)
LEMMA CarryIsRight ==
  ASSUME NEW n \in Nat, n < 2 * NsPerSecond
  PROVE  /\ n >= NsPerSecond => n % NsPerSecond = n - NsPerSecond
         /\ n < NsPerSecond => n % NsPerSecond = n
         /\ n % NsPerSecond \in Nanosecond
  BY TimeAssumption DEF Nanosecond

LEMMA ScaledSum ==
  ASSUME NEW a \in Int, NEW b \in Int, NEW c \in Int
  PROVE  (a + b + c) * NsPerSecond
           = a * NsPerSecond + b * NsPerSecond + c * NsPerSecond
  BY TimeAssumption

(* add_normalized(), under ut_time_utc_add(): seconds and fractions are    *)
(* added with the carry, and no sum of two int64_t is formed that does not *)
(* fit one; OUT_OF_RANGE is returned exactly if the sum does not.          *)
LEMMA AddedSeconds ==
  ASSUME NEW left \in Time, NEW right \in Time
  PROVE  LET nanosecond == left.nanosecond + right.nanosecond
             carry == IF nanosecond >= NsPerSecond THEN 1 ELSE 0
             seconds == left.seconds + right.seconds + carry
         IN  /\ seconds \in Int64 =>
                  AddNormalized(left, right) = TimeOf(seconds, nanosecond % NsPerSecond)
             /\ seconds \notin Int64 => AddNormalized(left, right) = NoTime
  BY TimeFields, TimeAssumption DEF AddNormalized, Int64, MinInt

(* For every width, ut_time_utc_add() returns OUT_OF_RANGE exactly if the  *)
(* sum has no representation, and otherwise the sum.                       *)
THEOREM AdditionIsExact ==
  ASSUME NEW left \in Time, NEW right \in Time
  PROVE  /\ AddNormalized(left, right) # NoTime
              <=> Representable(Value(left) + Value(right))
         /\ AddNormalized(left, right) # NoTime =>
              /\ AddNormalized(left, right) \in Time
              /\ Value(AddNormalized(left, right)) = Value(left) + Value(right)
<1> DEFINE nanosecond == left.nanosecond + right.nanosecond
           carry == IF nanosecond >= NsPerSecond THEN 1 ELSE 0
           seconds == left.seconds + right.seconds + carry
           rest == nanosecond % NsPerSecond
<1>1. /\ nanosecond \in Nat /\ nanosecond < 2 * NsPerSecond
      /\ carry \in {0, 1} /\ seconds \in Int /\ NsPerSecond \in Nat
      /\ left.seconds \in Int /\ right.seconds \in Int
  BY TimeFields, TimeAssumption
<1>2. rest \in Nanosecond /\ rest = nanosecond - carry * NsPerSecond
  BY <1>1, CarryIsRight
<1>3. seconds * NsPerSecond + rest = Value(left) + Value(right)
  <2>1. seconds * NsPerSecond
          = left.seconds * NsPerSecond + right.seconds * NsPerSecond + carry * NsPerSecond
    BY <1>1, ScaledSum
  <2>2. /\ left.seconds * NsPerSecond \in Int /\ right.seconds * NsPerSecond \in Int
        /\ carry * NsPerSecond \in Int
        /\ left.nanosecond \in Int /\ right.nanosecond \in Int
    BY <1>1, TimeFields
  <2>3. QED
    BY <1>2, <2>1, <2>2 DEF Value
<1>4. Representable(Value(left) + Value(right)) <=> seconds \in Int64
  BY <1>1, <1>2, <1>3, RepresentableSeconds
<1>5. /\ seconds \in Int64 => AddNormalized(left, right) = TimeOf(seconds, rest)
      /\ seconds \notin Int64 => AddNormalized(left, right) = NoTime
  BY AddedSeconds
<1> HIDE DEF seconds, rest
<1>6. seconds \in Int64 => TimeOf(seconds, rest) \in Time
  BY <1>2 DEF TimeOf, Time
<1>7. Value(TimeOf(seconds, rest)) = Value(left) + Value(right)
  BY <1>3, TimeOfFields DEF Value
<1>8. QED
  BY <1>4, <1>5, <1>6, <1>7, TimeAssumption

(* The difference of two seconds and a borrow, without a step outside      *)
(* int64_t.                                                                *)
LEMMA SubtractedSeconds ==
  ASSUME NEW left \in Int64, NEW right \in Int64, NEW borrow \in {0, 1}
  PROVE  /\ left - right - borrow \in Int64 =>
              SubtractSeconds(left, right, borrow) = left - right - borrow
         /\ left - right - borrow \notin Int64 =>
              SubtractSeconds(left, right, borrow) = NoTime
  BY TimeAssumption DEF SubtractSeconds, Int64, MinInt

(* For every width, ut_time_utc_subtract() and ut_time_utc_difference()    *)
(* return OUT_OF_RANGE exactly if the difference has no representation.    *)
THEOREM SubtractionIsExact ==
  ASSUME NEW left \in Time, NEW right \in Time
  PROVE  /\ Subtract(left, right) # NoTime
              <=> Representable(Value(left) - Value(right))
         /\ Subtract(left, right) # NoTime =>
              /\ Subtract(left, right) \in Time
              /\ Value(Subtract(left, right)) = Value(left) - Value(right)
<1> DEFINE borrow == IF left.nanosecond < right.nanosecond THEN 1 ELSE 0
           seconds == left.seconds - right.seconds - borrow
           rest == IF borrow = 0 THEN left.nanosecond - right.nanosecond
                   ELSE NsPerSecond - (right.nanosecond - left.nanosecond)
<1>1. /\ borrow \in {0, 1} /\ seconds \in Int /\ NsPerSecond \in Nat
      /\ left.seconds \in Int64 /\ right.seconds \in Int64
      /\ left.seconds \in Int /\ right.seconds \in Int
  BY TimeFields, TimeAssumption
<1>2. rest \in Nanosecond
      /\ rest = left.nanosecond - right.nanosecond + borrow * NsPerSecond
  BY <1>1, TimeFields DEF Nanosecond
<1>3. seconds * NsPerSecond + rest = Value(left) - Value(right)
  <2>1. left.seconds * NsPerSecond
          = seconds * NsPerSecond + right.seconds * NsPerSecond + borrow * NsPerSecond
    BY <1>1, ScaledSum
  <2>2. /\ left.seconds * NsPerSecond \in Int /\ right.seconds * NsPerSecond \in Int
        /\ borrow * NsPerSecond \in Int /\ seconds * NsPerSecond \in Int
        /\ left.nanosecond \in Int /\ right.nanosecond \in Int
    BY <1>1, TimeFields
  <2>3. QED
    BY <1>2, <2>1, <2>2 DEF Value
<1>4. Representable(Value(left) - Value(right)) <=> seconds \in Int64
  BY <1>1, <1>2, <1>3, RepresentableSeconds
<1>5. /\ seconds \in Int64 => Subtract(left, right) = TimeOf(seconds, rest)
      /\ seconds \notin Int64 => Subtract(left, right) = NoTime
  BY <1>1, SubtractedSeconds, TimeAssumption DEF Subtract, Int64
<1> HIDE DEF seconds, rest
<1>6. seconds \in Int64 => TimeOf(seconds, rest) \in Time
  BY <1>2 DEF TimeOf, Time
<1>7. Value(TimeOf(seconds, rest)) = Value(left) - Value(right)
  BY <1>3, TimeOfFields DEF Value
<1>8. QED
  BY <1>4, <1>5, <1>6, <1>7, TimeAssumption

-----------------------------------------------------------------------------

(* An elapsed tick split into seconds and nanoseconds keeps its length.    *)
LEMMA DurationIsExact ==
  ASSUME NEW elapsed \in Tick
  PROVE  DurationOf(elapsed) \in Time /\ Value(DurationOf(elapsed)) = elapsed
<1>1. elapsed \in Nat /\ elapsed <= 2 * MaxInt + 1 /\ MaxInt \in Nat
      /\ NsPerSecond \in Nat /\ NsPerSecond >= 2
  BY TimeAssumption DEF Tick, MaxTick
<1>2. PICK s \in Nat : s = elapsed \div NsPerSecond
  BY <1>1
<1>3. PICK n \in Nanosecond : n = elapsed % NsPerSecond
  BY <1>1 DEF Nanosecond
<1>4. elapsed = s * NsPerSecond + n
  BY <1>1, <1>2, <1>3
<1>5. s * 2 <= s * NsPerSecond /\ s * NsPerSecond \in Nat
  BY <1>1
<1>6. s \in Int64
  BY <1>1, <1>3, <1>4, <1>5 DEF Int64, MinInt, Nanosecond
<1>7. DurationOf(elapsed) = TimeOf(s, n)
  BY <1>2, <1>3 DEF DurationOf
<1>8. QED
  BY <1>3, <1>4, <1>6, <1>7, TimeOfFields DEF TimeOf, Time, Value

TimeInv == ServiceType /\ AnswersKeepPace

LEMMA InitTimeInv == TimeInit => TimeInv
  BY TimeAssumption, SourceAssumption
     DEF TimeInit, TimeInv, ServiceType, ValidState, AnswersKeepPace, NoAnswer,
         TimeOf, Time, Int64, MinInt, Nanosecond, Tick, MaxTick

LEMMA NowKeepsPace ==
  ASSUME TimeInv, NEW tick \in Tick, Now(tick)
  PROVE  TimeInv'
<1> DEFINE last == service.last_sync_monotonic_ns
           synchronized_utc == service.synchronized_utc
           utc == AddNormalized(synchronized_utc, DurationOf(tick - last))
<1>1. last \in Tick /\ synchronized_utc \in Time /\ tick >= last
  BY DEF TimeInv, ServiceType, Now
<1>2. tick - last \in Tick /\ tick \in Int /\ last \in Int
  BY <1>1, TimeAssumption DEF Tick, MaxTick
<1>3. /\ utc # NoTime /\ answer' = [tick |-> tick, utc |-> utc]
      /\ UNCHANGED <<service, clock>>
  BY DEF Now
<1>4. DurationOf(tick - last) \in Time /\ Value(DurationOf(tick - last)) = tick - last
  BY <1>2, DurationIsExact
<1>5. utc \in Time /\ Value(utc) = Value(synchronized_utc) + (tick - last)
  BY <1>1, <1>3, <1>4, AdditionIsExact
<1>6. Value(synchronized_utc) \in Int
  BY <1>1, TimeFields
<1> HIDE DEF utc
<1>7. ServiceType'
  BY <1>3, <1>5 DEF TimeInv, ServiceType, ValidState
<1>8. AnswersKeepPace'
  BY <1>1, <1>2, <1>3, <1>5, <1>6 DEF AnswersKeepPace
<1>9. QED
  BY <1>7, <1>8 DEF TimeInv

LEMMA NextTimeInv == TimeInv /\ [TimeNext]_timeVars => TimeInv'
<1> SUFFICES ASSUME TimeInv, [TimeNext]_timeVars PROVE TimeInv'
  OBVIOUS
<1>1. CASE ClockMoves
  BY <1>1 DEF ClockMoves, TimeInv, ServiceType, ValidState, AnswersKeepPace, NoAnswer
<1>2. ASSUME NEW tick \in Tick, Now(tick) PROVE TimeInv'
  BY <1>2, NowKeepsPace
<1>3. ASSUME NEW utc \in SyncTime, NEW tick \in Tick, NEW source \in Source,
             Update(utc, tick, source)
      PROVE  TimeInv'
  BY <1>3, SourceAssumption
     DEF Update, TimeInv, ServiceType, ValidState, AnswersKeepPace, NoAnswer
<1>4. CASE SetUnavailable
  BY <1>4 DEF SetUnavailable, TimeInv, ServiceType, ValidState, AnswersKeepPace, NoAnswer
<1>5. CASE UNCHANGED timeVars
  BY <1>5 DEF timeVars, TimeInv, ServiceType, ValidState, AnswersKeepPace, NoAnswer
<1>6. QED
  BY <1>1, <1>2, <1>3, <1>4, <1>5 DEF TimeNext

(* Every context a call may see passes valid_state(), and between two      *)
(* synchronizations the answers are apart exactly as the ticks, for every  *)
(* width, fraction and order of calls.                                     *)
THEOREM ServiceKeepsPace == TimeSpec => [](ServiceType /\ AnswersKeepPace)
  BY InitTimeInv, NextTimeInv, PTL DEF TimeSpec, TimeInv

-----------------------------------------------------------------------------
(* The retry policy.                                                       *)
(* The delay is computed in a loop, here a recursive function: that it     *)
(* exists, is unique and stays within bounds is shown by induction, with   *)
(* sets of numbers in the place of predicates.                             *)

(* One turn of the loop, and what the delays of all turns are.             *)
NextDelay(policy, delay) ==
  IF delay > policy.max_delay \div 2 THEN policy.max_delay ELSE 2 * delay

IsDoubling(g, policy, n) ==
  g = [k \in 0 .. n |-> IF k = 0 THEN policy.base_delay
                        ELSE IF g[k - 1] > policy.max_delay \div 2
                             THEN policy.max_delay
                             ELSE 2 * g[k - 1]]

ValidPolicies == {policy \in Policy : ValidPolicy(policy)}

LEMMA PolicyFields ==
  ASSUME NEW policy \in ValidPolicies
  PROVE  /\ policy.base_delay \in Nat /\ policy.max_delay \in Nat
         /\ policy.base_delay <= policy.max_delay
         /\ policy.max_attempts \in Nat
         /\ policy.backoff \in {Fixed, Exponential}
  BY PolicyAssumption DEF ValidPolicies, ValidPolicy

LEMMA DoublingTurns ==
  ASSUME NEW policy \in ValidPolicies, NEW n \in Nat, NEW g
  PROVE  IsDoubling(g, policy, n) <=>
           /\ g = [k \in 0 .. n |-> g[k]]
           /\ g[0] = policy.base_delay
           /\ \A k \in 1 .. n : g[k] = NextDelay(policy, g[k - 1])
<1>1. ASSUME IsDoubling(g, policy, n)
      PROVE  /\ g = [k \in 0 .. n |-> g[k]]
             /\ g[0] = policy.base_delay
             /\ \A k \in 1 .. n : g[k] = NextDelay(policy, g[k - 1])
  BY <1>1 DEF IsDoubling, NextDelay
<1>2. ASSUME g = [k \in 0 .. n |-> g[k]], g[0] = policy.base_delay,
             \A k \in 1 .. n : g[k] = NextDelay(policy, g[k - 1])
      PROVE  IsDoubling(g, policy, n)
  <2>1. \A k \in 0 .. n : g[k] = IF k = 0 THEN policy.base_delay
                                 ELSE NextDelay(policy, g[k - 1])
    BY <1>2
  <2>2. [k \in 0 .. n |-> g[k]] = [k \in 0 .. n |->
           IF k = 0 THEN policy.base_delay ELSE NextDelay(policy, g[k - 1])]
    BY <2>1
  <2>3. QED
    BY <1>2, <2>2 DEF IsDoubling, NextDelay
<1>3. QED
  BY <1>1, <1>2

LEMMA DoublingExists ==
  ASSUME NEW policy \in ValidPolicies, NEW n \in Nat
  PROVE  \E g : IsDoubling(g, policy, n)
<1> DEFINE T == {m \in Nat : \E g : IsDoubling(g, policy, m)}
<1>1. 0 \in T
  <2> DEFINE g == [k \in 0 .. 0 |-> policy.base_delay]
  <2>1. IsDoubling(g, policy, 0)
    BY DEF IsDoubling
  <2>2. QED
    BY <2>1
<1>2. ASSUME NEW m \in T PROVE m + 1 \in T
  <2>1. PICK g : IsDoubling(g, policy, m)
    OBVIOUS
  <2> DEFINE h == [k \in 0 .. m + 1 |-> IF k = m + 1 THEN NextDelay(policy, g[m])
                                       ELSE g[k]]
  <2>2. \A k \in 0 .. m : h[k] = g[k]
    OBVIOUS
  <2>3. h[0] = policy.base_delay
    BY <2>1, <2>2, DoublingTurns
  <2>4. ASSUME NEW k \in 1 .. m + 1 PROVE h[k] = NextDelay(policy, h[k - 1])
    <3>1. CASE k = m + 1
      BY <2>2, <3>1
    <3>2. CASE k # m + 1
      <4>1. k \in 1 .. m /\ k \in 0 .. m /\ k - 1 \in 0 .. m
        BY <3>2
      <4>2. h[k] = g[k] /\ h[k - 1] = g[k - 1]
        BY <2>2, <4>1
      <4>3. g[k] = NextDelay(policy, g[k - 1])
        BY <2>1, <4>1, DoublingTurns
      <4>4. QED
        BY <4>2, <4>3
    <3>3. QED
      BY <3>1, <3>2
  <2>5. h = [k \in 0 .. m + 1 |-> h[k]]
    OBVIOUS
  <2> HIDE DEF h
  <2>6. m + 1 \in Nat
    OBVIOUS
  <2>7. IsDoubling(h, policy, m + 1)
    <3> HIDE DEF T
    <3>1. QED
      BY <2>3, <2>4, <2>5, <2>6, DoublingTurns
  <2>8. QED
    BY <2>6, <2>7
<1>3. T = Nat
  <2> HIDE DEF T
  <2>1. T \in SUBSET Nat
    BY DEF T
  <2>2. QED
    BY <1>1, <1>2, <2>1, SetInduction
<1>4. QED
  BY <1>3

(* A longer computation begins with the shorter one.                       *)
LEMMA DoublingAgrees ==
  ASSUME NEW policy \in ValidPolicies, NEW n \in Nat, NEW m \in Nat, m <= n,
         NEW g, IsDoubling(g, policy, m), NEW h, IsDoubling(h, policy, n)
  PROVE  g[m] = h[m]
<1> DEFINE T == {k \in Nat : k <= m => g[k] = h[k]}
<1>1. 0 \in T
  BY DoublingTurns
<1>2. ASSUME NEW k \in T PROVE k + 1 \in T
  <2> SUFFICES ASSUME k + 1 <= m PROVE g[k + 1] = h[k + 1]
    OBVIOUS
  <2>1. /\ k \in Nat /\ g[k] = h[k] /\ k + 1 \in 1 .. m /\ k + 1 \in 1 .. n
        /\ (k + 1) - 1 = k
    OBVIOUS
  <2>2. \A i \in 1 .. m : g[i] = NextDelay(policy, g[i - 1])
    BY DoublingTurns
  <2>3. \A i \in 1 .. n : h[i] = NextDelay(policy, h[i - 1])
    BY DoublingTurns
  <2>4. QED
    BY <2>1, <2>2, <2>3
<1>3. T = Nat
  <2> HIDE DEF T
  <2>1. T \in SUBSET Nat
    BY DEF T
  <2>2. QED
    BY <1>1, <1>2, <2>1, SetInduction
<1>4. QED
  BY <1>3

LEMMA DoublingBounded ==
  ASSUME NEW policy \in ValidPolicies, NEW n \in Nat,
         NEW g, IsDoubling(g, policy, n)
  PROVE  g[n] \in policy.base_delay .. policy.max_delay
<1> DEFINE T == {k \in Nat : k <= n => g[k] \in policy.base_delay .. policy.max_delay}
<1>1. 0 \in T
  BY DoublingTurns, PolicyFields
<1>2. ASSUME NEW k \in T PROVE k + 1 \in T
  <2> SUFFICES ASSUME k + 1 <= n
               PROVE  g[k + 1] \in policy.base_delay .. policy.max_delay
    OBVIOUS
  <2>1. /\ g[k] \in policy.base_delay .. policy.max_delay
        /\ k + 1 \in 1 .. n /\ (k + 1) - 1 = k
    OBVIOUS
  <2>2. \A i \in 1 .. n : g[i] = NextDelay(policy, g[i - 1])
    BY DoublingTurns
  <2>3. g[k + 1] = NextDelay(policy, g[k])
    BY <2>1, <2>2
  <2>4. QED
    BY <2>1, <2>3, PolicyFields DEF NextDelay
<1>3. T = Nat
  <2> HIDE DEF T
  <2>1. T \in SUBSET Nat
    BY DEF T
  <2>2. QED
    BY <1>1, <1>2, <2>1, SetInduction
<1>4. QED
  BY <1>3

LEMMA DoubledIsLast ==
  ASSUME NEW policy \in ValidPolicies, NEW n \in Nat, policy.base_delay # 0
  PROVE  \E g : IsDoubling(g, policy, n) /\ Doubled(policy, n) = g[n]
<1> DEFINE value[k \in 0 .. n] ==
             IF k = 0 THEN policy.base_delay
             ELSE IF value[k - 1] > policy.max_delay \div 2
                  THEN policy.max_delay
                  ELSE 2 * value[k - 1]
<1>1. IsDoubling(value, policy, n)
  BY DoublingExists DEF IsDoubling
<1>2. Doubled(policy, n) = value[n]
  BY DEF Doubled
<1> HIDE DEF value
<1>3. QED
  BY <1>1, <1>2

(* The first delay is the base; each further one is twice the last, or the *)
(* limit; none leaves the bounds of the policy.                            *)
THEOREM DelaysDouble ==
  ASSUME NEW policy \in ValidPolicies, NEW n \in Nat
  PROVE  /\ Doubled(policy, n) \in policy.base_delay .. policy.max_delay
         /\ Doubled(policy, 0) = policy.base_delay
         /\ Doubled(policy, n + 1) =
              IF 2 * Doubled(policy, n) > policy.max_delay THEN policy.max_delay
              ELSE 2 * Doubled(policy, n)
<1>1. CASE policy.base_delay = 0
  <2>1. \A m \in Nat : Doubled(policy, m) = 0
    BY <1>1 DEF Doubled
  <2>2. QED
    BY <1>1, <2>1, PolicyFields
<1>2. CASE policy.base_delay # 0
  <2>1. PICK f : IsDoubling(f, policy, 0) /\ Doubled(policy, 0) = f[0]
    BY <1>2, DoubledIsLast
  <2>2. PICK g : IsDoubling(g, policy, n) /\ Doubled(policy, n) = g[n]
    BY <1>2, DoubledIsLast
  <2>3. n + 1 \in Nat /\ n <= n + 1 /\ n + 1 \in 1 .. n + 1 /\ (n + 1) - 1 = n
    OBVIOUS
  <2>4. PICK h : IsDoubling(h, policy, n + 1) /\ Doubled(policy, n + 1) = h[n + 1]
    BY <1>2, <2>3, DoubledIsLast
  <2>5. f[0] = policy.base_delay
    BY <2>1, DoublingTurns
  <2>6. g[n] = h[n]
    BY <2>2, <2>3, <2>4, DoublingAgrees
  <2>7. g[n] \in policy.base_delay .. policy.max_delay
    BY <2>2, DoublingBounded
  <2>8. \A i \in 1 .. n + 1 : h[i] = NextDelay(policy, h[i - 1])
    BY <2>3, <2>4, DoublingTurns
  <2>9. h[n + 1] = NextDelay(policy, g[n])
    BY <2>3, <2>6, <2>8
  <2>10. NextDelay(policy, g[n]) = IF 2 * g[n] > policy.max_delay
                                    THEN policy.max_delay ELSE 2 * g[n]
    BY <2>7, PolicyFields DEF NextDelay
  <2>11. QED
    BY <2>1, <2>2, <2>4, <2>5, <2>7, <2>9, <2>10
<1>3. QED
  BY <1>1, <1>2

RetryInv ==
  /\ retry \in [policy : ValidPolicies, attempts : Nat]
  /\ waited.attempts \in Nat /\ waited.attempts <= retry.attempts
  /\ waited.attempts # 0 /\ retry.policy.backoff = Exponential =>
       waited.delay = Doubled(retry.policy, waited.attempts - 1)

LEMMA InitRetryInv == RetryInit => RetryInv
<1> SUFFICES ASSUME RetryInit PROVE RetryInv
  OBVIOUS
<1>1. (CHOOSE policy \in Policy : ValidPolicy(policy)) \in ValidPolicies
  BY SomePolicyIsValid DEF ValidPolicies
<1>2. waited = NoWait /\ waited.attempts = 0
  BY DEF RetryInit, NoWait
<1>3. QED
  BY <1>1, <1>2 DEF RetryInit, RetryInv

LEMMA FailureWaits ==
  ASSUME RetryInv, Failure
  PROVE  /\ retry.policy \in ValidPolicies /\ retry.attempts \in Nat \ {0}
         /\ retry.attempts - 1 \in Nat /\ retry' = retry
         /\ waited'.attempts = retry.attempts
         /\ waited'.delay = IF retry.policy.backoff = Exponential
                            THEN Doubled(retry.policy, retry.attempts - 1)
                            ELSE retry.policy.base_delay
  BY DEF Failure, RetryInv

LEMMA NextRetryInv == RetryInv /\ [RetryNext]_retryVars => RetryInv'
<1> SUFFICES ASSUME RetryInv, [RetryNext]_retryVars PROVE RetryInv'
  OBVIOUS
<1>1. ASSUME NEW policy \in Policy, Initialize(policy) PROVE RetryInv'
  <2>1. policy \in ValidPolicies
    BY <1>1 DEF Initialize, ValidPolicies
  <2>2. QED
    BY <1>1, <2>1 DEF Initialize, NoWait, RetryInv
<1>2. CASE BeginAttempt
  <2>1. /\ retry' = [policy |-> retry.policy, attempts |-> retry.attempts + 1]
        /\ waited' = waited
    BY <1>2 DEF BeginAttempt, RetryInv
  <2>2. QED
    BY <2>1 DEF RetryInv
<1>3. CASE Failure
  BY <1>3, FailureWaits DEF RetryInv
<1>4. CASE Reset
  <2>1. retry' = [policy |-> retry.policy, attempts |-> 0] /\ waited' = NoWait
    BY <1>4 DEF Reset, RetryInv
  <2>2. QED
    BY <2>1 DEF RetryInv, NoWait
<1>5. CASE UNCHANGED retryVars
  BY <1>5 DEF retryVars, RetryInv
<1>6. QED
  BY <1>1, <1>2, <1>3, <1>4, <1>5 DEF RetryNext

(* For every set of policies the wait before the next attempt doubles up   *)
(* to the limit, stays there, and never leaves the policy's bounds.        *)
THEOREM BackoffAlwaysGrows == RetrySpec => BackoffGrows
<1>1. ASSUME RetryInv, Failure
      PROVE  /\ waited'.delay \in retry.policy.base_delay .. retry.policy.max_delay
             /\ retry.policy.backoff = Fixed => waited'.delay = retry.policy.base_delay
             /\ waited.attempts + 1 = retry.attempts /\ waited.attempts # 0
                  /\ retry.policy.backoff = Exponential =>
                waited'.delay = IF 2 * waited.delay > retry.policy.max_delay
                                THEN retry.policy.max_delay
                                ELSE 2 * waited.delay
  <2> DEFINE policy == retry.policy
             n == retry.attempts - 1
  <2>1. /\ policy \in ValidPolicies /\ n \in Nat
        /\ waited'.delay = IF policy.backoff = Exponential THEN Doubled(policy, n)
                           ELSE policy.base_delay
    BY <1>1, FailureWaits
  <2>2. waited'.delay \in policy.base_delay .. policy.max_delay
    BY <2>1, DelaysDouble, PolicyFields
  <2>3. policy.backoff = Fixed => waited'.delay = policy.base_delay
    BY <2>1, PolicyAssumption
  <2>4. ASSUME waited.attempts + 1 = retry.attempts, waited.attempts # 0,
               policy.backoff = Exponential
        PROVE  waited'.delay = IF 2 * waited.delay > policy.max_delay
                               THEN policy.max_delay ELSE 2 * waited.delay
    <3>1. PICK k \in Nat : k = waited.attempts - 1
      BY <1>1, <2>4 DEF RetryInv
    <3>2. n = k + 1
      BY <1>1, <2>4, <3>1 DEF RetryInv
    <3>3. waited.delay = Doubled(policy, k)
      BY <1>1, <2>4, <3>1 DEF RetryInv
    <3>4. waited'.delay = Doubled(policy, k + 1)
      BY <2>1, <2>4, <3>2
    <3>5. QED
      BY <2>1, <3>1, <3>3, <3>4, DelaysDouble
  <2>5. QED
    BY <2>2, <2>3, <2>4
<1>2. QED
  BY <1>1, InitRetryInv, NextRetryInv, PTL DEF RetrySpec, BackoffGrows
=============================================================================
