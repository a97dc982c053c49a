------------------------- MODULE EventBufferProofs -------------------------
(***************************************************************************)
(* The memory buffer and the envelopes that own its blocks, for any arena, *)
(* number of slots, generations, envelopes and queue.                      *)
(*                                                                         *)
(* The blocks stay inside the arena and apart: BlocksInArena is inductive. *)
(* Three lemmas say that placing a block, giving blocks back and adjusting *)
(* one block keep it, and every action is one of the three.                *)
(*                                                                         *)
(* Every block has one owner. OwnedInv says of each slot, in use or not,   *)
(* who holds the handle it has now: that nobody holds the handle of a free *)
(* slot is what an allocation needs to give its block a single owner.      *)
(*                                                                         *)
(* The blocks are those of BlockStore, each in memory of its own.          *)
(***************************************************************************)
EXTENDS EventBuffer, RingQueueProofs, FiniteSetTheorems, SequenceTheorems, TLAPS

SlotType ==
  [offset : 0 .. ArenaLen, length : 0 .. ArenaLen, capacity : 0 .. ArenaLen,
   generation : 1 .. MaxGeneration, map_count : 0 .. 1]

LEMMA NextGenerationType ==
  ASSUME NEW g \in 1 .. MaxGeneration
  PROVE  next_generation(g) \in 1 .. MaxGeneration
<1>1. MaxGeneration \in Nat \ {0, 1}
  BY MemoryAssumption
<1>2. CASE g = MaxGeneration
  <2>1. (g + 1) % (MaxGeneration + 1) = 0
    BY <1>1, <1>2
  <2>2. QED
    BY <1>1, <2>1 DEF next_generation
<1>3. CASE g # MaxGeneration
  BY <1>1, <1>3 DEF next_generation
<1>4. QED
  BY <1>2, <1>3

LEMMA StoredType ==
  ASSUME MemoryType, NEW from, NEW length, NEW b \in Byte
  PROVE  Stored(from, length, b) \in [0 .. ArenaLen - 1 -> Byte]
  BY DEF MemoryType, Stored

(* Records of a slot, written out.                                         *)
Adjusted(s, n, m) ==
  [offset |-> s.offset, length |-> n, capacity |-> s.capacity,
   generation |-> s.generation, map_count |-> m]

LEMMA SlotFields ==
  ASSUME NEW s \in SlotType
  PROVE  /\ Freed(s) = [offset |-> ArenaLen, length |-> 0, capacity |-> 0,
                        generation |-> next_generation(s.generation),
                        map_count |-> s.map_count]
         /\ \A n : [s EXCEPT !.length = n] = Adjusted(s, n, s.map_count)
         /\ \A m : [s EXCEPT !.map_count = m] = Adjusted(s, s.length, m)
         /\ s = Adjusted(s, s.length, s.map_count)
<1>1. PICK o, l, c, g, m :
        s = [offset |-> o, length |-> l, capacity |-> c, generation |-> g, map_count |-> m]
  BY DEF SlotType
<1> DEFINE next == next_generation(g)
<1>2. Freed(s) = [s EXCEPT !.offset = ArenaLen, !.length = 0, !.capacity = 0,
                           !.generation = next]
  BY <1>1 DEF Freed, INVALID_OFFSET
<1> HIDE DEF next
<1>3. Freed(s) = [offset |-> ArenaLen, length |-> 0, capacity |-> 0,
                  generation |-> next, map_count |-> m]
  BY <1>1, <1>2
<1>4. /\ \A n : [s EXCEPT !.length = n] = Adjusted(s, n, s.map_count)
      /\ \A k : [s EXCEPT !.map_count = k] = Adjusted(s, s.length, k)
      /\ s = Adjusted(s, s.length, s.map_count)
  BY <1>1 DEF Adjusted
<1>5. QED
  BY <1>1, <1>3, <1>4 DEF next

(* A first-fit region overlaps no block.                                   *)
LEMMA RegionIsFree ==
  ASSUME BlocksInArena, NEW c \in 0 .. ArenaLen, NEW capacity \in 1 .. ArenaLen,
         find_region(c, capacity), NEW j \in Buffers, Active(j)
  PROVE  End(j) <= c \/ c + capacity <= slots[j].offset
<1>1. \A i \in Buffers : /\ slots[i].offset \in Nat /\ slots[i].capacity \in Nat
                         /\ Active(i) => 0 < slots[i].capacity
  BY DEF BlocksInArena, MemoryType
<1>2. CASE slots[j].offset >= c
  BY <1>2 DEF find_region, Fits
<1>3. CASE slots[j].offset < c
  <2>1. PICK k \in Buffers : Active(k) /\ c = End(k)
    BY <1>1, <1>3 DEF find_region, Candidates
  <2>2. CASE j = k
    BY <1>1, <2>1, <2>2 DEF End
  <2>3. CASE j # k
    <3>1. End(j) <= slots[k].offset \/ c <= slots[j].offset
      BY <2>1, <2>3 DEF BlocksInArena
    <3>2. QED
      BY <1>1, <1>3, <2>1, <3>1 DEF End
  <2>4. QED
    BY <2>2, <2>3
<1>4. QED
  BY <1>1, <1>2, <1>3

LEMMA PlacedKeeps ==
  ASSUME BlocksInArena, NEW i \in Buffers, FreeSlot(i),
         NEW c \in 0 .. ArenaLen, NEW capacity \in 1 .. ArenaLen,
         find_region(c, capacity), NEW n \in 0 .. capacity,
         slots' = [slots EXCEPT ![i] = [AllocatedSlot(i, c, capacity) EXCEPT !.length = n]],
         arena' \in [0 .. ArenaLen - 1 -> Byte]
  PROVE  BlocksInArena'
<1> DEFINE s == [offset |-> c, length |-> n, capacity |-> capacity,
                 generation |-> slots[i].generation, map_count |-> 0]
<1>1. /\ ArenaLen \in Nat \ {0} /\ slots \in [Buffers -> SlotType]
      /\ c + capacity <= ArenaLen
  BY MemoryAssumption DEF BlocksInArena, MemoryType, SlotType, find_region, Fits
<1>2. slots' = [slots EXCEPT ![i] = s] /\ s \in SlotType
  <2>1. [AllocatedSlot(i, c, capacity) EXCEPT !.length = n] = s
    BY DEF AllocatedSlot
  <2>2. slots[i].generation \in 1 .. MaxGeneration /\ n \in 0 .. ArenaLen
    BY <1>1 DEF SlotType
  <2>3. s \in SlotType
    BY <2>2 DEF SlotType
  <2>4. QED
    BY <2>1, <2>3
<1>3. slots' \in [Buffers -> SlotType] /\ slots'[i] = s
      /\ \A j \in Buffers : j # i => slots'[j] = slots[j]
  BY <1>1, <1>2
<1>4. MemoryType'
  BY <1>3 DEF MemoryType, SlotType
<1>5. Active(i)' /\ ~Active(i) /\ \A j \in Buffers : j # i => (Active(j)' <=> Active(j))
  BY <1>1, <1>3 DEF Active, INVALID_OFFSET, FreeSlot
<1>6. ASSUME NEW j \in Buffers
      PROVE  IF Active(j)'
             THEN /\ slots'[j].length <= slots'[j].capacity
                  /\ 0 < slots'[j].capacity /\ End(j)' <= ArenaLen
             ELSE ~Mapped(j)' /\ slots'[j].length = 0 /\ slots'[j].capacity = 0
  <2>1. CASE j = i
    BY <1>1, <1>3, <1>5, <2>1 DEF End
  <2>2. CASE j # i
    BY <1>3, <1>5, <2>2 DEF BlocksInArena, End, Mapped
  <2>3. QED
    BY <2>1, <2>2
<1>7. ASSUME NEW j \in Buffers, NEW k \in Buffers, j # k, Active(j)', Active(k)'
      PROVE  End(j)' <= slots'[k].offset \/ End(k)' <= slots'[j].offset
  <2>1. CASE j # i /\ k # i
    BY <1>3, <1>5, <1>7, <2>1 DEF BlocksInArena, End
  <2>2. CASE j = i
    <3>1. End(k) <= c \/ c + capacity <= slots[k].offset
      BY <1>5, <1>7, <2>2, RegionIsFree
    <3>2. QED
      BY <1>3, <1>7, <2>2, <3>1 DEF End
  <2>3. CASE k = i
    <3>1. End(j) <= c \/ c + capacity <= slots[j].offset
      BY <1>5, <1>7, <2>3, RegionIsFree
    <3>2. QED
      BY <1>3, <1>7, <2>3, <3>1 DEF End
  <2>4. QED
    BY <2>1, <2>2, <2>3
<1>8. QED
  BY <1>4, <1>6, <1>7 DEF BlocksInArena

LEMMA GivenBackKeeps ==
  ASSUME BlocksInArena, NEW S, \A i \in S : ~Mapped(i), UNCHANGED arena,
         slots' = [i \in Buffers |-> IF i \in S THEN Freed(slots[i]) ELSE slots[i]]
  PROVE  BlocksInArena'
<1>1. /\ ArenaLen \in Nat \ {0} /\ slots \in [Buffers -> SlotType]
      /\ arena \in [0 .. ArenaLen - 1 -> Byte]
  BY MemoryAssumption DEF BlocksInArena, MemoryType, SlotType
<1>2. ASSUME NEW i \in Buffers
      PROVE  /\ Freed(slots[i]) \in SlotType
             /\ Freed(slots[i]).offset = ArenaLen
             /\ Freed(slots[i]).length = 0 /\ Freed(slots[i]).capacity = 0
             /\ Freed(slots[i]).map_count = slots[i].map_count
  <2>1. slots[i] \in SlotType /\ next_generation(slots[i].generation) \in 1 .. MaxGeneration
    BY <1>1, NextGenerationType DEF SlotType
  <2>2. Freed(slots[i]) =
          [offset |-> ArenaLen, length |-> 0, capacity |-> 0,
           generation |-> next_generation(slots[i].generation),
           map_count |-> slots[i].map_count]
    BY <2>1, SlotFields
  <2>3. QED
    BY <1>1, <2>1, <2>2 DEF SlotType
<1>3. slots' \in [Buffers -> SlotType]
  BY <1>1, <1>2
<1>4. MemoryType'
  BY <1>1, <1>3 DEF MemoryType, SlotType
<1>5. \A i \in Buffers : IF i \in S THEN ~Active(i)' ELSE Active(i)' <=> Active(i)
  BY <1>2 DEF Active, INVALID_OFFSET
<1>6. \A i \in Buffers :
        IF Active(i)'
        THEN /\ slots'[i].length <= slots'[i].capacity
             /\ 0 < slots'[i].capacity /\ End(i)' <= ArenaLen
        ELSE ~Mapped(i)' /\ slots'[i].length = 0 /\ slots'[i].capacity = 0
  <2> TAKE i \in Buffers
  <2>1. CASE i \in S
    BY <1>2, <1>5, <2>1 DEF Mapped
  <2>2. CASE i \notin S
    BY <1>5, <2>2 DEF BlocksInArena, End, Mapped
  <2>3. QED
    BY <2>1, <2>2
<1>7. \A i, j \in Buffers :
        i # j /\ Active(i)' /\ Active(j)' =>
          End(i)' <= slots'[j].offset \/ End(j)' <= slots'[i].offset
  BY <1>5 DEF BlocksInArena, End
<1>8. QED
  BY <1>4, <1>6, <1>7 DEF BlocksInArena

LEMMA AdjustedKeeps ==
  ASSUME BlocksInArena, NEW i, NEW n, NEW m,
         i \in Buffers => /\ Active(i) /\ n \in 0 .. slots[i].capacity
                          /\ m \in 0 .. 1,
         slots' = [j \in Buffers |-> slots'[j]],
         \A j \in Buffers : slots'[j] = IF j = i THEN Adjusted(slots[j], n, m) ELSE slots[j],
         arena' \in [0 .. ArenaLen - 1 -> Byte]
  PROVE  BlocksInArena'
<1>1. /\ ArenaLen \in Nat \ {0} /\ slots \in [Buffers -> SlotType]
  BY MemoryAssumption DEF BlocksInArena, MemoryType, SlotType
<1>2. ASSUME NEW j \in Buffers
      PROVE  /\ slots'[j] \in SlotType
             /\ slots'[j].offset = slots[j].offset
             /\ slots'[j].capacity = slots[j].capacity
             /\ Active(j) => slots'[j].length <= slots[j].capacity
             /\ ~Active(j) => slots'[j] = slots[j]
  <2>1. CASE j # i
    BY <1>1, <2>1 DEF BlocksInArena
  <2>2. CASE j = i
    <3>1. slots'[j] = [offset |-> slots[j].offset, length |-> n,
                       capacity |-> slots[j].capacity,
                       generation |-> slots[j].generation, map_count |-> m]
      BY <2>2 DEF Adjusted
    <3>2. Active(j) /\ n \in 0 .. slots[j].capacity /\ m \in 0 .. 1 /\ slots[j] \in SlotType
      BY <1>1, <2>2
    <3>3. n \in 0 .. ArenaLen /\ n <= slots[j].capacity
      BY <1>1, <3>2 DEF SlotType
    <3>4. QED
      BY <3>1, <3>2, <3>3 DEF SlotType
  <2>3. QED
    BY <2>1, <2>2
<1>3. slots' \in [Buffers -> SlotType]
  BY <1>1, <1>2
<1>4. MemoryType'
  BY <1>3 DEF MemoryType, SlotType
<1>5. \A j \in Buffers : (Active(j)' <=> Active(j)) /\ End(j)' = End(j)
  BY <1>2 DEF Active, End, INVALID_OFFSET
<1>6. \A j \in Buffers :
        IF Active(j)'
        THEN /\ slots'[j].length <= slots'[j].capacity
             /\ 0 < slots'[j].capacity /\ End(j)' <= ArenaLen
        ELSE ~Mapped(j)' /\ slots'[j].length = 0 /\ slots'[j].capacity = 0
  BY <1>2, <1>5 DEF BlocksInArena, Mapped
<1>7. \A j, k \in Buffers :
        j # k /\ Active(j)' /\ Active(k)' =>
          End(j)' <= slots'[k].offset \/ End(k)' <= slots'[j].offset
  BY <1>2, <1>5 DEF BlocksInArena
<1>8. QED
  BY <1>4, <1>6, <1>7 DEF BlocksInArena

-----------------------------------------------------------------------------

LEMMA InitBlocks == Init => BlocksInArena
<1> SUFFICES ASSUME Init PROVE BlocksInArena
  OBVIOUS
<1>1. /\ ArenaLen \in Nat \ {0} /\ MaxGeneration \in Nat \ {0, 1} /\ Unwritten \in Byte
  BY MemoryAssumption
<1>2. \A i \in Buffers : slots[i] = EmptySlot
  BY DEF Init, mb_init
<1>3. MemoryType
  BY <1>1 DEF Init, mb_init, MemoryType, EmptySlot, INVALID_OFFSET
<1>4. \A i \in Buffers : ~Active(i) /\ ~Mapped(i)
  BY <1>2 DEF Active, Mapped, EmptySlot
<1>5. QED
  BY <1>2, <1>3, <1>4 DEF BlocksInArena, EmptySlot

(* The calls of the memory buffer, whoever makes them.                     *)
LEMMA AllocKeeps ==
  ASSUME BlocksInArena, NEW capacity \in 1 .. ArenaLen, NEW h \in Handle,
         mb_alloc(capacity, h)
  PROVE  BlocksInArena'
<1>1. PICK c \in 0 .. ArenaLen :
        /\ find_region(c, capacity)
        /\ slots' = [slots EXCEPT ![h.index] = AllocatedSlot(h.index, c, capacity)]
  BY DEF mb_alloc
<1>2. h.index \in Buffers /\ FreeSlot(h.index) /\ capacity \in Nat
  BY DEF Handle, mb_alloc
<1>3. [AllocatedSlot(h.index, c, capacity) EXCEPT !.length = 0]
        = AllocatedSlot(h.index, c, capacity)
  BY DEF AllocatedSlot
<1>4. arena' \in [0 .. ArenaLen - 1 -> Byte] /\ 0 \in 0 .. capacity
  BY <1>2 DEF mb_alloc, BlocksInArena, MemoryType
<1>5. slots' = [slots EXCEPT ![h.index] =
                  [AllocatedSlot(h.index, c, capacity) EXCEPT !.length = 0]]
  BY <1>1, <1>3
<1>6. QED
  BY <1>1, <1>2, <1>4, <1>5, PlacedKeeps

LEMMA FreeKeeps ==
  ASSUME BlocksInArena, NEW h, mb_free(h)
  PROVE  BlocksInArena'
<1>1. slots \in [Buffers -> SlotType]
  BY DEF BlocksInArena, MemoryType, SlotType
<1>2. slots' = [i \in Buffers |-> IF i \in {h.index} THEN Freed(slots[i]) ELSE slots[i]]
  BY <1>1 DEF mb_free
<1>3. \A i \in {h.index} : ~Mapped(i)
  BY DEF mb_free, Usable
<1>4. QED
  BY <1>2, <1>3, GivenBackKeeps DEF mb_free

(* mb_write(), mb_set_length(), mb_map(), mb_unmap() and a store through a *)
(* mapping.                                                                *)
LEMMA AdjustingKeeps ==
  ASSUME BlocksInArena, NEW h,
         \/ \E offset \in Nat, n \in Nat, b \in Byte : mb_write(h, offset, n, b)
         \/ \E n \in Nat : mb_set_length(h, n)
         \/ mb_map(h) \/ mb_unmap(h)
         \/ \E offset \in Nat, b \in Byte : MappedStore(h, offset, b)
  PROVE  BlocksInArena'
<1> DEFINE i == h.index
<1>1. /\ slots \in [Buffers -> SlotType] /\ MemoryType /\ Active(i)
      /\ arena \in [0 .. ArenaLen - 1 -> Byte] /\ ArenaLen \in Nat
  BY MemoryAssumption
     DEF BlocksInArena, MemoryType, SlotType, mb_write, mb_set_length, mb_map,
         mb_unmap, MappedStore, Usable, Accepted
<1>2. i \in Buffers => /\ slots[i] \in SlotType
                       /\ slots[i].length \in 0 .. slots[i].capacity
                       /\ slots[i].capacity \in Nat
                       /\ slots[i].map_count \in 0 .. 1
  BY <1>1 DEF BlocksInArena, SlotType
(* Setting the length, or the map count, or nothing of the slot.           *)
<1>3. ASSUME NEW n, i \in Buffers => n \in 0 .. slots[i].capacity,
             slots' = [slots EXCEPT ![i].length = n],
             arena' \in [0 .. ArenaLen - 1 -> Byte]
      PROVE  BlocksInArena'
  <2>0. PICK m : m = slots[i].map_count
    OBVIOUS
  <2>1. \A j \in Buffers : [slots[j] EXCEPT !.length = n] = Adjusted(slots[j], n, slots[j].map_count)
    BY <1>1, SlotFields
  <2>2. slots' = [j \in Buffers |-> IF j = i THEN [slots[j] EXCEPT !.length = n] ELSE slots[j]]
    BY <1>1, <1>3
  <2>3. /\ slots' = [j \in Buffers |-> slots'[j]]
        /\ \A j \in Buffers :
             slots'[j] = IF j = i THEN Adjusted(slots[j], n, m) ELSE slots[j]
    BY <2>0, <2>1, <2>2
  <2>4. i \in Buffers => Active(i) /\ n \in 0 .. slots[i].capacity /\ m \in 0 .. 1
    BY <1>1, <1>2, <1>3, <2>0
  <2> HIDE DEF i
  <2>5. QED
    BY <1>3, <2>3, <2>4, AdjustedKeeps
<1>4. ASSUME NEW m, i \in Buffers => m \in 0 .. 1,
             slots' = [slots EXCEPT ![i].map_count = m], arena' = arena
      PROVE  BlocksInArena'
  <2>0. PICK n : n = slots[i].length
    OBVIOUS
  <2>1. \A j \in Buffers :
          [slots[j] EXCEPT !.map_count = m] = Adjusted(slots[j], slots[j].length, m)
    BY <1>1, SlotFields
  <2>2. slots' = [j \in Buffers |-> IF j = i THEN [slots[j] EXCEPT !.map_count = m] ELSE slots[j]]
    BY <1>1, <1>4
  <2>3. /\ slots' = [j \in Buffers |-> slots'[j]]
        /\ \A j \in Buffers :
             slots'[j] = IF j = i THEN Adjusted(slots[j], n, m) ELSE slots[j]
    BY <2>0, <2>1, <2>2
  <2>4. i \in Buffers => Active(i) /\ n \in 0 .. slots[i].capacity /\ m \in 0 .. 1
    BY <1>1, <1>2, <1>4, <2>0
  <2> HIDE DEF i
  <2>5. QED
    BY <1>1, <1>4, <2>3, <2>4, AdjustedKeeps
<1>5. ASSUME NEW offset \in Nat, NEW n \in Nat, NEW b \in Byte, mb_write(h, offset, n, b)
      PROVE  BlocksInArena'
  <2> DEFINE end == IF slots[i].length < offset + n THEN offset + n ELSE slots[i].length
  <2>1. slots' = [slots EXCEPT ![i].length = end]
    BY <1>5 DEF mb_write
  <2>2. i \in Buffers => end \in 0 .. slots[i].capacity
    BY <1>2, <1>5 DEF mb_write, checked_range
  <2>3. arena' \in [0 .. ArenaLen - 1 -> Byte]
    BY <1>1, <1>5, StoredType DEF mb_write
  <2> HIDE DEF i, end
  <2>4. QED
    BY <1>3, <2>1, <2>2, <2>3
<1>6. ASSUME NEW n \in Nat, mb_set_length(h, n) PROVE BlocksInArena'
  <2>1. /\ slots' = [slots EXCEPT ![i].length = n] /\ arena' = arena
        /\ i \in Buffers => n \in 0 .. slots[i].capacity
    BY <1>2, <1>6 DEF mb_set_length
  <2> HIDE DEF i
  <2>2. QED
    BY <1>1, <1>3, <2>1
<1>7. CASE mb_map(h)
  <2>1. slots' = [slots EXCEPT ![i].map_count = 1] /\ arena' = arena /\ 1 \in 0 .. 1
    BY <1>7 DEF mb_map
  <2> HIDE DEF i
  <2>2. QED
    BY <1>4, <2>1
<1>8. CASE mb_unmap(h)
  <2> DEFINE m == slots[i].map_count - 1
  <2>1. slots' = [slots EXCEPT ![i].map_count = m] /\ arena' = arena
    BY <1>8 DEF mb_unmap
  <2>2. i \in Buffers => m \in 0 .. 1
    BY <1>2, <1>8 DEF mb_unmap, Mapped
  <2> HIDE DEF i, m
  <2>3. QED
    BY <1>4, <2>1, <2>2
<1>9. ASSUME NEW offset \in Nat, NEW b \in Byte, MappedStore(h, offset, b)
      PROVE  BlocksInArena'
  <2>1. arena' \in [0 .. ArenaLen - 1 -> Byte] /\ slots' = slots
    BY <1>1, <1>9, StoredType DEF MappedStore
  <2>2. PICK n, m : n = slots[i].length /\ m = slots[i].map_count
    OBVIOUS
  <2>3. /\ slots' = [j \in Buffers |-> slots'[j]]
        /\ \A j \in Buffers :
             slots'[j] = IF j = i THEN Adjusted(slots[j], n, m) ELSE slots[j]
    BY <1>1, <2>1, <2>2, SlotFields
  <2>4. i \in Buffers => Active(i) /\ n \in 0 .. slots[i].capacity /\ m \in 0 .. 1
    BY <1>1, <1>2, <2>2
  <2> HIDE DEF i
  <2>5. QED
    BY <2>1, <2>3, <2>4, AdjustedKeeps
<1>10. QED
  BY <1>5, <1>6, <1>7, <1>8, <1>9

-----------------------------------------------------------------------------

LEMMA NextBlocks == BlocksInArena /\ [Next]_vars => BlocksInArena'
<1> SUFFICES ASSUME BlocksInArena, [Next]_vars PROVE BlocksInArena'
  OBVIOUS
<1>1. ASSUME UNCHANGED memoryVars PROVE BlocksInArena'
  BY <1>1 DEF memoryVars, BlocksInArena, MemoryType, Active, End, Mapped
<1>2. ASSUME NEW m \in Envelope, NEW length \in 1 .. ArenaLen, NEW b \in Byte,
             message_create_copy(m, length, b)
      PROVE  BlocksInArena'
  <2>1. PICK i \in Buffers, c \in 0 .. ArenaLen :
          /\ FreeSlot(i) /\ find_region(c, length)
          /\ slots' = [slots EXCEPT ![i] =
                         [AllocatedSlot(i, c, length) EXCEPT !.length = length]]
          /\ arena' = Stored(c, length, b)
    BY <1>2 DEF message_create_copy
  <2>2. arena' \in [0 .. ArenaLen - 1 -> Byte] /\ length \in 0 .. length
    BY <2>1, StoredType DEF BlocksInArena
  <2>3. QED
    BY <2>1, <2>2, PlacedKeeps
<1>3. ASSUME NEW m \in Envelope, message_release(m) PROVE BlocksInArena'
  BY <1>3, FreeKeeps DEF message_release
<1>4. ASSUME NEW m \in Envelope, queue_push_move(m) \/ queue_pop_move(m)
      PROVE  BlocksInArena'
  BY <1>1, <1>4 DEF queue_push_move, queue_pop_move
<1>5. CASE queue_release_all
  <2> DEFINE handle(k) == Items(queue)[k].handle
             mine(n) == {handle(k).index : k \in 1 .. n}
  <2>1. PICK n \in 1 .. queue.count :
          /\ \A k \in 1 .. n : Usable(handle(k))
          /\ slots' = [i \in Buffers |-> IF i \in mine(n) THEN Freed(slots[i]) ELSE slots[i]]
          /\ UNCHANGED arena
    BY <1>5 DEF queue_release_all
  <2>2. \A i \in mine(n) : ~Mapped(i)
    BY <2>1 DEF Usable
  <2> HIDE DEF mine
  <2>3. QED
    BY <2>1, <2>2, GivenBackKeeps
<1>6. CASE DirectAlloc
  BY <1>6, AllocKeeps DEF DirectAlloc
<1>7. CASE DirectFree
  BY <1>7, FreeKeeps DEF DirectFree
<1>8. CASE DirectForget
  BY <1>1, <1>8 DEF DirectForget
<1>9. CASE DirectChange
  <2>1. 0 .. ArenaLen \subseteq Nat
    BY MemoryAssumption
  <2>2. QED
    BY <1>9, <2>1, AdjustingKeeps DEF DirectChange
<1>10. CASE MapOrUnmap
  BY <1>10, AdjustingKeeps DEF MapOrUnmap
<1>11. CASE Reset
  <2>1. /\ \A i \in Buffers : ~Mapped(i)
        /\ slots' = [i \in Buffers |-> IF i \in Buffers THEN Freed(slots[i]) ELSE slots[i]]
        /\ UNCHANGED arena
    BY <1>11 DEF Reset, mb_reset
  <2>2. QED
    BY <2>1, GivenBackKeeps
<1>12. QED
  BY <1>1, <1>2, <1>3, <1>4, <1>5, <1>6, <1>7, <1>8, <1>9, <1>10, <1>11
     DEF Next, vars

(* Whatever is allocated, freed, reset, moved and released, the blocks of  *)
(* the memory buffer lie in the arena and apart, for every arena and any   *)
(* number of slots and generations.                                        *)
THEOREM BlocksStayApart == Spec => []BlocksInArena
  BY InitBlocks, NextBlocks, PTL DEF Spec

-----------------------------------------------------------------------------
(* The queue without its n oldest envelopes, whose slots are zeroed.       *)

Dropped(q, n) ==
  [storage |-> [i \in Index |-> IF \E k \in 1 .. n : Slot(q, k) = i
                                THEN Unset ELSE q.storage[i]],
   head |-> (q.head + n) % Capacity, tail |-> q.tail, count |-> q.count - n]

LEMMA DropTakesFirst ==
  ASSUME NEW q \in Ring, Coherent(q), NEW n \in 1 .. q.count
  PROVE  /\ Dropped(q, n) \in Ring /\ Coherent(Dropped(q, n))
         /\ Len(Items(Dropped(q, n))) = q.count - n
         /\ \A k \in 1 .. q.count - n : Items(Dropped(q, n))[k] = Items(q)[k + n]
<1> DEFINE p == Dropped(q, n)
<1>1. /\ Capacity \in Nat \ {0} /\ q.head \in 0 .. Capacity - 1 /\ q.tail \in Index
      /\ q.count \in 0 .. Capacity /\ n \in Nat /\ n <= q.count
      /\ q.storage \in [Index -> Item \cup {Unset}]
  BY RingAssumption DEF Ring, Index
<1>2. /\ p.head = (q.head + n) % Capacity /\ p.tail = q.tail /\ p.count = q.count - n
      /\ p.storage = [i \in Index |-> IF \E k \in 1 .. n : Slot(q, k) = i
                                      THEN Unset ELSE q.storage[i]]
  BY DEF Dropped
<1>3. p \in Ring
  <2>1. p.head \in Index /\ p.tail \in Index /\ p.count \in 0 .. Capacity
    <3>1. PICK x \in Nat : x = q.head + n
      BY <1>1
    <3>2. x % Capacity \in 0 .. Capacity - 1
      BY <1>1, <3>1
    <3>3. q.count - n \in 0 .. Capacity
      BY <1>1
    <3>4. QED
      BY <1>1, <1>2, <3>1, <3>2, <3>3 DEF Index
  <2>2. p.storage \in [Index -> Item \cup {Unset}]
    BY <1>1, <1>2
  <2>3. QED
    BY <1>2, <2>1, <2>2 DEF Ring, Dropped
<1>4. /\ p.head \in Nat /\ p.head < Capacity
      /\ q.head + n < Capacity => p.head = q.head + n
      /\ q.head + n >= Capacity => p.head = q.head + n - Capacity
  BY <1>1, <1>2, WrapOnce
<1> HIDE DEF p
<1>5. ASSUME NEW k \in 1 .. q.count - n
      PROVE  /\ Slot(p, k) = Slot(q, k + n) /\ Slot(p, k) \in Index
             /\ p.storage[Slot(p, k)] = q.storage[Slot(q, k + n)]
  <2>1. /\ k + n \in 1 .. Capacity /\ k + n \in 1 .. q.count /\ k \in 1 .. Capacity
        /\ k \in Nat /\ k >= 1
    BY <1>1
  <2>2. /\ p.head + k - 1 \in Nat /\ p.head + k - 1 < 2 * Capacity
        /\ q.head + (k + n) - 1 \in Nat /\ q.head + (k + n) - 1 < 2 * Capacity
    BY <1>1, <1>4, <2>1
  <2>3. (p.head + k - 1) % Capacity = (q.head + (k + n) - 1) % Capacity
    <3>1. CASE q.head + n < Capacity
      <4>1. p.head + k - 1 = q.head + (k + n) - 1
        BY <1>1, <1>4, <2>1, <3>1
      <4>2. QED
        BY <4>1
    <3>2. CASE q.head + n >= Capacity
      <4>1. PICK x \in Nat, y \in Nat : x = p.head + k - 1 /\ y = q.head + (k + n) - 1
        BY <2>2
      <4>2. y = x + Capacity /\ x < Capacity /\ y < 2 * Capacity /\ y >= Capacity
        BY <1>1, <1>4, <2>1, <2>2, <3>2, <4>1
      <4>3. x % Capacity = x /\ y % Capacity = y - Capacity
        BY <1>1, <4>2, WrapOnce
      <4>4. x % Capacity = y % Capacity
        BY <1>1, <4>2, <4>3
      <4>5. QED
        BY <4>1, <4>4
    <3>3. QED
      BY <1>1, <3>1, <3>2
  <2>4. Slot(p, k) = Slot(q, k + n)
    BY <2>3 DEF Slot
  <2>5. Slot(q, k + n) \in Index
    BY <2>1, SlotRange
  <2>6. ~ \E j \in 1 .. n : Slot(q, j) = Slot(q, k + n)
    <3> SUFFICES ASSUME NEW j \in 1 .. n, Slot(q, j) = Slot(q, k + n) PROVE FALSE
      OBVIOUS
    <3>1. j \in 1 .. Capacity /\ j # k + n
      BY <1>1, <2>1
    <3>2. QED
      BY <2>1, <3>1, SlotsDiffer
  <2>7. QED
    BY <1>2, <2>4, <2>5, <2>6
<1>6. Coherent(p)
  <2>1. p.tail = (p.head + p.count) % Capacity
    <3>1. q.tail = (q.head + q.count) % Capacity
      BY DEF Coherent
    <3>2. /\ q.head + q.count \in Nat /\ q.head + q.count < 2 * Capacity
          /\ p.head + p.count \in Nat /\ p.head + p.count < 2 * Capacity
      BY <1>1, <1>2, <1>4
    <3>3. (p.head + p.count) % Capacity = (q.head + q.count) % Capacity
      BY <1>1, <1>2, <1>4, <3>2, WrapOnce
    <3>4. QED
      BY <1>2, <3>1, <3>3
  <2>2. ASSUME NEW k \in 1 .. p.count PROVE p.storage[Slot(p, k)] \in Item
    <3>1. k \in 1 .. q.count - n /\ k + n \in 1 .. q.count
      BY <1>1, <1>2
    <3>2. QED
      BY <1>5, <3>1 DEF Coherent
  <2>3. QED
    BY <2>1, <2>2 DEF Coherent
<1>7. /\ Len(Items(p)) = p.count
      /\ \A k \in 1 .. p.count : Items(p)[k] = p.storage[Slot(p, k)]
      /\ \A k \in 1 .. q.count : Items(q)[k] = q.storage[Slot(q, k)]
  BY <1>3, <1>6, ItemsType
<1>8. ASSUME NEW k \in 1 .. q.count - n PROVE Items(p)[k] = Items(q)[k + n]
  <2>1. k \in 1 .. p.count /\ k + n \in 1 .. q.count
    BY <1>1, <1>2
  <2>2. QED
    BY <1>5, <1>7, <2>1
<1>9. QED
  BY <1>2, <1>3, <1>6, <1>7, <1>8 DEF p

(* queue_pop_move() drops one.                                             *)
LEMMA PopDropsOne ==
  ASSUME NEW q \in Ring, ~IsEmpty(q)
  PROVE  [Pop(q) EXCEPT !.storage[q.head] = Unset] = Dropped(q, 1)
<1>1. /\ Capacity \in Nat \ {0} /\ q.head \in 0 .. Capacity - 1
      /\ q.storage \in [Index -> Item \cup {Unset}]
  BY RingAssumption DEF Ring, Index
<1>2. Slot(q, 1) = q.head
  BY <1>1, WrapOnce DEF Slot
<1>3. [q.storage EXCEPT ![q.head] = Unset]
        = [i \in Index |-> IF \E k \in 1 .. 1 : Slot(q, k) = i THEN Unset ELSE q.storage[i]]
  BY <1>1, <1>2
<1>4. [Pop(q) EXCEPT !.storage[q.head] = Unset]
        = [storage |-> [q.storage EXCEPT ![q.head] = Unset],
           head |-> Advance(q.head), tail |-> q.tail, count |-> q.count - 1]
  BY DEF Pop
<1>5. QED
  BY <1>3, <1>4 DEF Dropped, Advance

-----------------------------------------------------------------------------
(* Who owns a handle: envelopes E, queued envelopes s, the application D.  *)

Held(E, h) == {m \in Envelope : E[m] # Unset /\ E[m].handle = h}
QueuedAt(s, h) == {k \in 1 .. Len(s) : s[k].handle = h}

Nobody(E, s, D, h) == Held(E, h) = {} /\ QueuedAt(s, h) = {} /\ h \notin D

Sole(E, s, D, h) ==
  \/ (\E m \in Envelope : Held(E, h) = {m}) /\ QueuedAt(s, h) = {} /\ h \notin D
  \/ Held(E, h) = {} /\ (\E k \in 1 .. Len(s) : QueuedAt(s, h) = {k}) /\ h \notin D
  \/ Held(E, h) = {} /\ QueuedAt(s, h) = {} /\ h \in D

InPool(E, s, e) ==
  (\E m \in Envelope : E[m] = e) \/ (\E k \in 1 .. Len(s) : s[k] = e)

EnvelopeRec == [Envelope -> Item \cup {Unset}]

(* The owners before, and those after, of one handle.                      *)
SameOwners(E, s, D, F, t, C, h) ==
  /\ Nobody(E, s, D, h) => Nobody(F, t, C, h)
  /\ Sole(E, s, D, h) => Sole(F, t, C, h)

LEMMA PooledIsOwned ==
  ASSUME NEW E, NEW s, NEW D, NEW e \in Item, InPool(E, s, e)
  PROVE  ~Nobody(E, s, D, e.handle) /\ (Sole(E, s, D, e.handle) => e.handle \notin D)
<1>1. Unset \notin Item
  BY RingAssumption
<1>2. Held(E, e.handle) # {} \/ QueuedAt(s, e.handle) # {}
  BY <1>1 DEF InPool, Held, QueuedAt
<1>3. QED
  BY <1>2 DEF Nobody, Sole

(* An envelope moves into the queue.                                       *)
LEMMA MovedIn ==
  ASSUME NEW E \in EnvelopeRec, NEW s \in Seq(Item), NEW D,
         NEW m \in Envelope, E[m] # Unset, NEW h,
         NEW F, F = [E EXCEPT ![m] = Unset], NEW t, t = Append(s, E[m])
  PROVE  /\ SameOwners(E, s, D, F, t, D, h)
         /\ \A e \in Item : InPool(F, t, e) => InPool(E, s, e)
<1>1. PICK x \in Item : x = E[m]
  BY DEF EnvelopeRec
<1>2. PICK n \in Nat : n = Len(s)
  BY LenProperties
<1>3. /\ Len(t) = n + 1 /\ t[n + 1] = x
      /\ \A k \in 1 .. n : t[k] = s[k]
  BY <1>1, <1>2, AppendProperties
<1>4. F[m] = Unset /\ \A l \in Envelope : l # m => F[l] = E[l]
  BY DEF EnvelopeRec
<1>5. Held(F, h) = Held(E, h) \ {m}
  BY <1>4 DEF Held
<1>6. m \in Held(E, h) <=> x.handle = h
  BY <1>1 DEF Held
<1>7. QueuedAt(t, h) = IF x.handle = h THEN QueuedAt(s, h) \cup {n + 1} ELSE QueuedAt(s, h)
  <2>1. \A k \in 1 .. n + 1 : k \in 1 .. n \/ k = n + 1
    OBVIOUS
  <2>2. \A k \in 1 .. n : k \in 1 .. n + 1
    OBVIOUS
  <2>3. n + 1 \in 1 .. n + 1
    OBVIOUS
  <2> DEFINE last == n + 1
  <2>4. last \in 1 .. last /\ t[last] = x /\ Len(t) = last
    BY <1>3, <2>3
  <2>5. /\ \A k \in 1 .. last : k \in 1 .. n \/ k = last
        /\ \A k \in 1 .. n : k \in 1 .. last
    BY <2>1, <2>2
  <2> HIDE DEF last
  <2>6. QueuedAt(t, h) = IF x.handle = h THEN QueuedAt(s, h) \cup {last} ELSE QueuedAt(s, h)
    BY <1>2, <1>3, <2>4, <2>5 DEF QueuedAt
  <2>7. QED
    BY <2>6 DEF last
<1>8. ASSUME x.handle = h PROVE SameOwners(E, s, D, F, t, D, h)
  <2>1. m \in Held(E, h)
    BY <1>6, <1>8
  <2>2. ~Nobody(E, s, D, h)
    BY <2>1 DEF Nobody
  <2>3. ASSUME Sole(E, s, D, h) PROVE Sole(F, t, D, h)
    <3>1. Held(E, h) = {m} /\ QueuedAt(s, h) = {} /\ h \notin D
      BY <2>1, <2>3 DEF Sole
    <3>2. Held(F, h) = {} /\ QueuedAt(t, h) = {n + 1}
      BY <1>5, <1>7, <1>8, <3>1
    <3>3. n + 1 \in 1 .. Len(t)
      BY <1>3
    <3>4. QED
      BY <3>1, <3>2, <3>3 DEF Sole
  <2>4. QED
    BY <2>2, <2>3 DEF SameOwners
<1>9. ASSUME x.handle # h PROVE SameOwners(E, s, D, F, t, D, h)
  <2>1. Held(F, h) = Held(E, h) /\ QueuedAt(t, h) = QueuedAt(s, h)
    BY <1>5, <1>6, <1>7, <1>9
  <2>2. \A k \in 1 .. Len(s) : k \in 1 .. Len(t)
    BY <1>2, <1>3
  <2>3. QED
    BY <2>1, <2>2 DEF SameOwners, Nobody, Sole
<1>10. \A e \in Item : InPool(F, t, e) => InPool(E, s, e)
  <2> SUFFICES ASSUME NEW e \in Item, InPool(F, t, e) PROVE InPool(E, s, e)
    OBVIOUS
  <2>1. CASE \E l \in Envelope : F[l] = e
    <3>1. Unset \notin Item
      BY RingAssumption
    <3>2. QED
      BY <1>4, <2>1, <3>1 DEF InPool
  <2>2. ASSUME NEW k \in 1 .. Len(t), t[k] = e PROVE InPool(E, s, e)
    <3>1. k \in 1 .. n \/ k = n + 1
      BY <1>3
    <3>2. QED
      BY <1>1, <1>2, <1>3, <2>2, <3>1 DEF InPool
  <2>3. QED
    BY <2>1, <2>2 DEF InPool
<1>11. QED
  BY <1>8, <1>9, <1>10

(* Whoever has none of the n oldest envelopes does not notice that they    *)
(* are gone.                                                               *)
LEMMA DroppedOthers ==
  ASSUME NEW E, NEW s \in Seq(Item), NEW D, NEW n \in 1 .. Len(s), NEW t,
         Len(t) = Len(s) - n, \A k \in 1 .. Len(t) : t[k] = s[k + n]
  PROVE  /\ \A h : (\A k \in 1 .. n : s[k].handle # h) => SameOwners(E, s, D, E, t, D, h)
         /\ \A h : Nobody(E, s, D, h) => Nobody(E, t, D, h)
         /\ \A e \in Item : InPool(E, t, e) => InPool(E, s, e)
<1>1. PICK l \in Nat : l = Len(s)
  BY LenProperties
<1>2. n \in Nat /\ Len(t) = l - n /\ l - n \in Nat
  BY <1>1
<1>3. \A k \in 1 .. l - n : k + n \in 1 .. l
  BY <1>1, <1>2
<1>4. \A h : \A k \in QueuedAt(t, h) : k + n \in QueuedAt(s, h)
  BY <1>1, <1>2, <1>3 DEF QueuedAt
<1>5. \A h : Nobody(E, s, D, h) => Nobody(E, t, D, h)
  BY <1>4 DEF Nobody
<1>6. ASSUME NEW h, \A k \in 1 .. n : s[k].handle # h, Sole(E, s, D, h)
      PROVE  Sole(E, t, D, h)
  <2>1. CASE QueuedAt(s, h) = {}
    <3>1. QueuedAt(t, h) = {}
      BY <1>4, <2>1
    <3>2. QED
      BY <1>6, <2>1, <3>1 DEF Sole
  <2>2. CASE QueuedAt(s, h) # {}
    <3>1. Held(E, h) = {} /\ h \notin D
      BY <1>6, <2>2 DEF Sole
    <3>2. PICK k \in 1 .. l : QueuedAt(s, h) = {k}
      BY <1>1, <1>6, <2>2 DEF Sole
    <3>3. k \in Nat /\ s[k].handle = h
      BY <3>2 DEF QueuedAt
    <3>4. ~(k <= n)
      BY <1>2, <1>6, <3>2, <3>3
    <3>5. PICK i \in 1 .. l - n : k = i + n
      <4>1. k - n \in 1 .. l - n /\ k = (k - n) + n
        BY <1>2, <3>2, <3>3, <3>4
      <4>2. QED
        BY <4>1
    <3>6. i \in QueuedAt(t, h)
      BY <1>2, <3>3, <3>5 DEF QueuedAt
    <3>7. \A j \in QueuedAt(t, h) : j = i
      <4> TAKE j \in QueuedAt(t, h)
      <4>1. j + n = k /\ j \in 1 .. l - n
        BY <1>2, <1>4, <3>2 DEF QueuedAt
      <4>2. QED
        BY <1>2, <3>5, <4>1
    <3>8. QueuedAt(t, h) = {i} /\ i \in 1 .. Len(t)
      BY <1>2, <3>6, <3>7
    <3>9. QED
      BY <3>1, <3>8 DEF Sole
  <2>3. QED
    BY <2>1, <2>2
<1>7. \A e \in Item : InPool(E, t, e) => InPool(E, s, e)
  BY <1>1, <1>2, <1>3 DEF InPool
<1>8. QED
  BY <1>5, <1>6, <1>7 DEF SameOwners

(* The oldest envelope of the queue moves out.                             *)
LEMMA MovedOut ==
  ASSUME NEW E \in EnvelopeRec, NEW s \in Seq(Item), NEW D, NEW m \in Envelope,
         E[m] = Unset, 1 \in 1 .. Len(s), NEW t,
         Len(t) = Len(s) - 1, \A k \in 1 .. Len(t) : t[k] = s[k + 1],
         NEW F, F = [E EXCEPT ![m] = s[1]]
  PROVE  /\ \A h : SameOwners(E, s, D, F, t, D, h)
         /\ \A e \in Item : InPool(F, t, e) => InPool(E, s, e)
<1>1. PICK l \in Nat : l = Len(s)
  BY LenProperties
<1>2. PICK x \in Item : x = s[1]
  BY ElementOfSeq
<1>3. F[m] = x /\ \A i \in Envelope : i # m => F[i] = E[i]
  BY <1>2 DEF EnvelopeRec
<1>4. x # Unset
  BY RingAssumption
<1>5. /\ \A h : (\A k \in 1 .. 1 : s[k].handle # h) => SameOwners(E, s, D, E, t, D, h)
      /\ \A h : Nobody(E, s, D, h) => Nobody(E, t, D, h)
      /\ \A e \in Item : InPool(E, t, e) => InPool(E, s, e)
  BY DroppedOthers
<1>6. \A h : Held(F, h) = IF x.handle = h THEN Held(E, h) \cup {m} ELSE Held(E, h)
  BY <1>3, <1>4 DEF Held
<1>7. ASSUME NEW h PROVE SameOwners(E, s, D, F, t, D, h)
  <2>1. CASE x.handle # h
    <3>1. SameOwners(E, s, D, E, t, D, h)
      BY <1>2, <1>5, <2>1
    <3>2. Held(F, h) = Held(E, h)
      BY <1>6, <2>1
    <3>3. QED
      BY <3>1, <3>2 DEF SameOwners, Nobody, Sole
  <2>2. CASE x.handle = h
    <3>1. 1 \in QueuedAt(s, h)
      BY <1>2, <2>2 DEF QueuedAt
    <3>2. ASSUME Sole(E, s, D, h) PROVE Sole(F, t, D, h)
      <4>1. Held(E, h) = {} /\ QueuedAt(s, h) = {1} /\ h \notin D
        BY <3>1, <3>2 DEF Sole
      <4>2. QueuedAt(t, h) = {}
        <5> SUFFICES ASSUME NEW k \in QueuedAt(t, h) PROVE FALSE
          OBVIOUS
        <5>1. k \in 1 .. l - 1 /\ t[k].handle = h
          BY <1>1 DEF QueuedAt
        <5>2. k + 1 \in 1 .. l /\ s[k + 1].handle = h /\ k + 1 # 1
          BY <1>1, <5>1
        <5>3. k + 1 \in QueuedAt(s, h)
          BY <1>1, <5>2 DEF QueuedAt
        <5>4. QED
          BY <4>1, <5>2, <5>3
      <4>3. Held(F, h) = {m}
        BY <1>6, <2>2, <4>1
      <4>4. QED
        BY <4>1, <4>2, <4>3 DEF Sole
    <3>3. QED
      BY <3>1, <3>2 DEF SameOwners, Nobody
  <2>3. QED
    BY <2>1, <2>2
<1>8. \A e \in Item : InPool(F, t, e) => InPool(E, s, e)
  <2> SUFFICES ASSUME NEW e \in Item, InPool(F, t, e) PROVE InPool(E, s, e)
    OBVIOUS
  <2>1. CASE InPool(E, t, e)
    BY <1>5, <2>1
  <2>2. CASE e = x
    BY <1>2, <2>2 DEF InPool
  <2>3. QED
    BY <1>3, <2>1, <2>2 DEF InPool
<1>9. QED
  BY <1>7, <1>8

(* An envelope without a block gets one, or one that has it loses it.      *)
LEMMA EnvelopeSet ==
  ASSUME NEW E \in EnvelopeRec, NEW s, NEW D, NEW m \in Envelope, E[m] = Unset,
         NEW x \in Item, NEW F, F = [E EXCEPT ![m] = x]
  PROVE  /\ \A h : h # x.handle => SameOwners(E, s, D, F, s, D, h)
         /\ Nobody(E, s, D, x.handle) => Sole(F, s, D, x.handle)
         /\ \A e \in Item : InPool(F, s, e) => InPool(E, s, e) \/ e = x
<1>1. F[m] = x /\ x # Unset /\ \A l \in Envelope : l # m => F[l] = E[l]
  BY RingAssumption DEF EnvelopeRec
<1>2. \A h : h # x.handle => Held(F, h) = Held(E, h)
  BY <1>1 DEF Held
<1>3. Held(F, x.handle) = Held(E, x.handle) \cup {m}
  BY <1>1 DEF Held
<1>4. \A h : h # x.handle => SameOwners(E, s, D, F, s, D, h)
  BY <1>2 DEF SameOwners, Nobody, Sole
<1>5. Nobody(E, s, D, x.handle) => Sole(F, s, D, x.handle)
  BY <1>3 DEF Nobody, Sole
<1>6. \A e \in Item : InPool(F, s, e) => InPool(E, s, e) \/ e = x
  BY <1>1 DEF InPool
<1>7. QED
  BY <1>4, <1>5, <1>6

LEMMA EnvelopeCleared ==
  ASSUME NEW E \in EnvelopeRec, NEW s, NEW D, NEW m \in Envelope,
         NEW F, F = [E EXCEPT ![m] = Unset]
  PROVE  /\ \A h : h # E[m].handle => SameOwners(E, s, D, F, s, D, h)
         /\ \A h : Nobody(E, s, D, h) => Nobody(F, s, D, h)
         /\ \A e \in Item : InPool(F, s, e) => InPool(E, s, e)
<1>1. F[m] = Unset /\ \A l \in Envelope : l # m => F[l] = E[l]
  BY DEF EnvelopeRec
<1>2. \A h : Held(F, h) = Held(E, h) \ {m}
  BY <1>1 DEF Held
<1>3. \A h : h # E[m].handle => m \notin Held(E, h)
  BY DEF Held
<1>4. ASSUME NEW h, h # E[m].handle
      PROVE  Held(F, h) = Held(E, h)
  <2>1. Held(F, h) = Held(E, h) \ {m} /\ m \notin Held(E, h)
    BY <1>2, <1>3, <1>4
  <2>2. QED
    BY <2>1
<1>5. \A h : h # E[m].handle => SameOwners(E, s, D, F, s, D, h)
  BY <1>4 DEF SameOwners, Nobody, Sole
<1>6. \A h : Nobody(E, s, D, h) => Nobody(F, s, D, h)
  BY <1>2 DEF Nobody
<1>7. \A e \in Item : InPool(F, s, e) => InPool(E, s, e)
  BY <1>1, RingAssumption DEF InPool
<1>8. QED
  BY <1>5, <1>6, <1>7

-----------------------------------------------------------------------------
(* The inductive invariant: a live block's handle has one owner, the       *)
(* handle a free slot would give out has none, envelopes are intact.       *)

BufferType ==
  /\ queue \in Ring /\ Coherent(queue)
  /\ envelopes \in EnvelopeRec /\ direct \in SUBSET Handle

OwnersInv ==
  \A i \in Buffers :
    IF Active(i) THEN Sole(envelopes, Items(queue), direct, HandleOf(i))
    ELSE Nobody(envelopes, Items(queue), direct, HandleOf(i))

ContentsInv ==
  \A e \in Item : InPool(envelopes, Items(queue), e) => Intact(e)

OwnedInv == BlocksInArena /\ BufferType /\ OwnersInv /\ ContentsInv

LEMMA ItemFields ==
  ASSUME NEW e \in Item
  PROVE  e.handle \in Handle /\ e.length \in 1 .. ArenaLen /\ e.copied \in Byte
  BY EnvelopeAssumption

LEMMA HandleIs ==
  ASSUME NEW h \in Handle
  PROVE  /\ h.index \in Buffers /\ h.generation # 0
         /\ \A g : h.generation = g => h = [index |-> h.index, generation |-> g]
  BY DEF Handle

LEMMA AcceptedIsCurrent ==
  ASSUME NEW h \in Handle, Accepted(h)
  PROVE  h = HandleOf(h.index) /\ h.index \in Buffers /\ Active(h.index)
  BY HandleIs DEF Accepted, HandleOf

LEMMA CurrentIsHandle ==
  ASSUME MemoryType, NEW i \in Buffers
  PROVE  HandleOf(i) \in Handle /\ HandleOf(i).index = i /\ (Active(i) => Accepted(HandleOf(i)))
  BY MemoryAssumption DEF MemoryType, HandleOf, Handle, Accepted

LEMMA ForgottenIsNobody ==
  ASSUME BufferType, NEW i, ForgottenInTime(i)
  PROVE  Nobody(envelopes, Items(queue), direct,
                [index |-> i, generation |-> next_generation(slots[i].generation)])
<1> DEFINE h == [index |-> i, generation |-> next_generation(slots[i].generation)]
<1>1. h \notin Remembered
  BY DEF ForgottenInTime
<1> HIDE DEF h
<1>2. h \notin direct /\ Held(envelopes, h) = {}
  BY <1>1 DEF Remembered, Held, Owned
<1>3. Len(Items(queue)) = queue.count
  BY ItemsType DEF BufferType
<1>4. QueuedAt(Items(queue), h) = {}
  BY <1>1, <1>3 DEF Remembered, Queued, QueuedAt
<1>5. QED
  BY <1>2, <1>4 DEF Nobody, h

-----------------------------------------------------------------------------
(* What the three kinds of changes to the memory buffer leave alone.       *)

LEMMA IntactStays ==
  ASSUME BlocksInArena, NEW e \in Item, Intact(e), Accepted(e.handle),
         slots'[e.handle.index].offset = slots[e.handle.index].offset,
         slots'[e.handle.index].length = slots[e.handle.index].length,
         \A k \in slots[e.handle.index].offset .. End(e.handle.index) - 1 : arena'[k] = arena[k]
  PROVE  Intact(e)'
<1> DEFINE j == e.handle.index
<1>1. j \in Buffers /\ Active(j)
  BY ItemFields, AcceptedIsCurrent
<1>2. /\ slots[j].offset \in Nat /\ slots[j].capacity \in Nat /\ slots[j].length \in Nat
      /\ slots[j].length <= slots[j].capacity
  BY <1>1, MemoryAssumption DEF BlocksInArena, MemoryType
<1>3. e.length = slots[j].length
      /\ \A k \in slots[j].offset .. slots[j].offset + e.length - 1 : arena[k] = e.copied
  BY DEF Intact
<1>4. \A k \in slots[j].offset .. slots[j].offset + e.length - 1 :
        k \in slots[j].offset .. End(j) - 1
  BY <1>2, <1>3 DEF End
<1>5. \A k \in slots'[j].offset .. slots'[j].offset + e.length - 1 : arena'[k] = e.copied
  BY <1>3, <1>4
<1>6. slots'[j].length = e.length
  BY <1>3
<1>7. QED
  BY <1>5, <1>6 DEF Intact

LEMMA GivenBackFacts ==
  ASSUME MemoryType, NEW S, NEW i \in Buffers,
         slots' = [j \in Buffers |-> IF j \in S THEN Freed(slots[j]) ELSE slots[j]]
  PROVE  /\ i \in S => /\ ~Active(i)'
                       /\ HandleOf(i)' = [index |-> i, generation |->
                                          next_generation(slots[i].generation)]
         /\ i \notin S => /\ slots'[i] = slots[i] /\ HandleOf(i)' = HandleOf(i)
                          /\ Active(i)' <=> Active(i)
<1>1. slots[i] \in SlotType
  BY DEF MemoryType, SlotType
<1>2. /\ Freed(slots[i]).offset = ArenaLen
      /\ Freed(slots[i]).generation = next_generation(slots[i].generation)
  BY <1>1, SlotFields
<1>3. CASE i \in S
  BY <1>2, <1>3 DEF Active, HandleOf, INVALID_OFFSET
<1>4. CASE i \notin S
  BY <1>4 DEF Active, HandleOf
<1>5. QED
  BY <1>3, <1>4

LEMMA PlacedFacts ==
  ASSUME BlocksInArena, NEW i \in Buffers, FreeSlot(i),
         NEW c \in 0 .. ArenaLen, NEW capacity \in 1 .. ArenaLen,
         find_region(c, capacity), NEW n,
         slots' = [slots EXCEPT ![i] = [AllocatedSlot(i, c, capacity) EXCEPT !.length = n]]
  PROVE  /\ Active(i)' /\ slots'[i].offset = c /\ slots'[i].length = n
         /\ \A j \in Buffers : HandleOf(j)' = HandleOf(j)
         /\ \A j \in Buffers :
              j # i => slots'[j] = slots[j] /\ (Active(j)' <=> Active(j))
<1> DEFINE s == [offset |-> c, length |-> n, capacity |-> capacity,
                 generation |-> slots[i].generation, map_count |-> 0]
<1>1. slots \in [Buffers -> SlotType] /\ c + capacity <= ArenaLen
  BY DEF BlocksInArena, MemoryType, SlotType, find_region, Fits
<1>2. slots' = [slots EXCEPT ![i] = s]
  <2>1. [AllocatedSlot(i, c, capacity) EXCEPT !.length = n] = s
    BY DEF AllocatedSlot
  <2>2. QED
    BY <2>1
<1>3. slots'[i] = s /\ \A j \in Buffers : j # i => slots'[j] = slots[j]
  BY <1>1, <1>2
<1>4. c # ArenaLen
  BY <1>1, MemoryAssumption
<1>5. QED
  BY <1>3, <1>4 DEF Active, HandleOf, INVALID_OFFSET

(* Blocks that are not the one at i are not in its bytes.                  *)
LEMMA OthersApart ==
  ASSUME BlocksInArena, NEW i \in Buffers, NEW j \in Buffers, i # j, Active(i), Active(j),
         NEW from \in Nat, NEW length \in Nat, NEW b,
         slots[i].offset <= from, from + length <= End(i),
         arena' = Stored(from, length, b)
  PROVE  \A k \in slots[j].offset .. End(j) - 1 : arena'[k] = arena[k]
<1>1. /\ slots[i].offset \in Nat /\ slots[i].capacity \in Nat
      /\ slots[j].offset \in Nat /\ slots[j].capacity \in Nat
      /\ End(j) <= ArenaLen /\ ArenaLen \in Nat
      /\ End(i) <= slots[j].offset \/ End(j) <= slots[i].offset
  BY MemoryAssumption DEF BlocksInArena, MemoryType
<1>2. End(i) \in Nat /\ End(j) \in Nat
  BY <1>1 DEF End
<1>3. ASSUME NEW k \in slots[j].offset .. End(j) - 1 PROVE arena'[k] = arena[k]
  <2>1. k \in 0 .. ArenaLen - 1 /\ ~(k \in from .. from + length - 1)
    BY <1>1, <1>2
  <2>2. QED
    BY <2>1 DEF Stored
<1>4. QED
  BY <1>3

-----------------------------------------------------------------------------
(* Each kind of change keeps owners and contents.                          *)

(* The owners of a handle before and after the step.                       *)
OwnersKept(h) ==
  SameOwners(envelopes, Items(queue), direct, envelopes', Items(queue)', direct', h)

PoolShrinks ==
  \A e \in Item : InPool(envelopes, Items(queue), e)' => InPool(envelopes, Items(queue), e)

LEMMA NothingChanged ==
  ASSUME UNCHANGED bufferVars
  PROVE  (\A h : OwnersKept(h)) /\ PoolShrinks /\ UNCHANGED Items(queue)
<1>1. UNCHANGED <<envelopes, queue, direct>>
  BY DEF bufferVars
<1>2. UNCHANGED Items(queue)
  BY <1>1
<1>3. QED
  BY <1>1, <1>2 DEF OwnersKept, SameOwners, PoolShrinks

LEMMA MovesKeep ==
  ASSUME OwnedInv, UNCHANGED memoryVars, PoolShrinks,
         \A i \in Buffers : OwnersKept(HandleOf(i))
  PROVE  OwnersInv' /\ ContentsInv'
<1>1. UNCHANGED <<arena, slots>>
  BY DEF memoryVars
<1>2. \A i \in Buffers : HandleOf(i)' = HandleOf(i) /\ (Active(i)' <=> Active(i))
  BY <1>1 DEF HandleOf, Active
<1>3. OwnersInv'
  BY <1>2 DEF OwnedInv, OwnersInv, OwnersKept, SameOwners
<1>4. \A e \in Item : Intact(e) => Intact(e)'
  BY <1>1 DEF Intact, Accepted, Active
<1>5. ContentsInv'
  BY <1>4 DEF OwnedInv, ContentsInv, PoolShrinks
<1>6. QED
  BY <1>3, <1>5

LEMMA FreedKeepsOwners ==
  ASSUME OwnedInv, NEW S, UNCHANGED arena,
         slots' = [i \in Buffers |-> IF i \in S THEN Freed(slots[i]) ELSE slots[i]],
         \A i \in Buffers : i \in S => ForgottenInTime(i),
         \A i \in Buffers : i \notin S => OwnersKept(HandleOf(i)),
         \A h : Nobody(envelopes, Items(queue), direct, h)
                  => Nobody(envelopes, Items(queue), direct, h)',
         PoolShrinks
  PROVE  OwnersInv' /\ ContentsInv'
<1>1. MemoryType /\ BufferType /\ BlocksInArena
  BY DEF OwnedInv, BlocksInArena
<1>2. ASSUME NEW i \in Buffers
      PROVE  /\ i \in S => /\ ~Active(i)'
                           /\ HandleOf(i)' = [index |-> i, generation |->
                                              next_generation(slots[i].generation)]
             /\ i \notin S => /\ slots'[i] = slots[i] /\ HandleOf(i)' = HandleOf(i)
                              /\ Active(i)' <=> Active(i)
  BY <1>1, GivenBackFacts
<1>3. ASSUME NEW i \in Buffers
      PROVE  IF Active(i)' THEN Sole(envelopes, Items(queue), direct, HandleOf(i))'
             ELSE Nobody(envelopes, Items(queue), direct, HandleOf(i))'
  <2>1. CASE i \in S
    <3> DEFINE h == [index |-> i, generation |-> next_generation(slots[i].generation)]
    <3>1. Nobody(envelopes, Items(queue), direct, h)
      BY <1>1, <2>1, ForgottenIsNobody
    <3>2. HandleOf(i)' = h /\ ~Active(i)'
      BY <1>2, <2>1
    <3> HIDE DEF h
    <3>3. Nobody(envelopes', Items(queue)', direct', h)
      BY <3>1
    <3>4. QED
      BY <3>2, <3>3
  <2>2. CASE i \notin S
    BY <1>2, <2>2 DEF OwnedInv, OwnersInv, OwnersKept, SameOwners
  <2>3. QED
    BY <2>1, <2>2
<1>4. OwnersInv'
  BY <1>3 DEF OwnersInv
<1>5. ASSUME NEW e \in Item, Intact(e), Accepted(e.handle)' PROVE Intact(e)'
  <2> DEFINE j == e.handle.index
  <2>1. j \in Buffers
    BY ItemFields, HandleIs
  <2>2. Active(j)' /\ e.handle.generation # 0 /\ slots'[j].generation = e.handle.generation
    BY <1>5 DEF Accepted
  <2>3. j \notin S /\ slots'[j] = slots[j] /\ Active(j)
    BY <1>2, <2>1, <2>2
  <2>4. Accepted(e.handle)
    BY <2>2, <2>3 DEF Accepted
  <2>5. QED
    BY <1>1, <1>5, <2>3, <2>4, IntactStays
<1>6. ContentsInv'
  <2> SUFFICES ASSUME NEW e \in Item, InPool(envelopes, Items(queue), e)' PROVE Intact(e)'
    BY DEF ContentsInv
  <2>1. Intact(e)
    BY DEF OwnedInv, ContentsInv, PoolShrinks
  <2>2. CASE Accepted(e.handle)'
    BY <1>5, <2>1, <2>2
  <2>3. CASE ~Accepted(e.handle)'
    BY <2>3 DEF Intact
  <2>4. QED
    BY <2>2, <2>3
<1>7. QED
  BY <1>4, <1>6

LEMMA PlacedKeepsOwners ==
  ASSUME OwnedInv, NEW i \in Buffers, FreeSlot(i),
         NEW c \in 0 .. ArenaLen, NEW capacity \in 1 .. ArenaLen,
         find_region(c, capacity), NEW n,
         slots' = [slots EXCEPT ![i] = [AllocatedSlot(i, c, capacity) EXCEPT !.length = n]],
         \A k \in 0 .. ArenaLen - 1 : k \in c .. c + capacity - 1 \/ arena'[k] = arena[k],
         \A h : h # HandleOf(i) => OwnersKept(h),
         Sole(envelopes, Items(queue), direct, HandleOf(i))',
         \A e \in Item : InPool(envelopes, Items(queue), e)'
           => InPool(envelopes, Items(queue), e) \/ (e.handle = HandleOf(i) /\ Intact(e)')
  PROVE  OwnersInv' /\ ContentsInv'
<1>1. BlocksInArena /\ MemoryType
  BY DEF OwnedInv, BlocksInArena
<1>2. /\ Active(i)' /\ ~Active(i) /\ \A j \in Buffers : HandleOf(j)' = HandleOf(j)
      /\ \A j \in Buffers : j # i => slots'[j] = slots[j] /\ (Active(j)' <=> Active(j))
  BY <1>1, PlacedFacts DEF FreeSlot
<1>3. \A j \in Buffers : HandleOf(j).index = j
  BY DEF HandleOf
<1>4. ASSUME NEW j \in Buffers
      PROVE  IF Active(j)' THEN Sole(envelopes, Items(queue), direct, HandleOf(j))'
             ELSE Nobody(envelopes, Items(queue), direct, HandleOf(j))'
  <2>1. CASE j = i
    BY <1>2, <2>1
  <2>2. CASE j # i
    <3>1. OwnersKept(HandleOf(j))
      BY <1>3, <2>2
    <3>2. QED
      BY <1>2, <2>2, <3>1 DEF OwnedInv, OwnersInv, OwnersKept, SameOwners
  <2>3. QED
    BY <2>1, <2>2
<1>5. OwnersInv'
  BY <1>4 DEF OwnersInv
<1>6. ASSUME NEW e \in Item, InPool(envelopes, Items(queue), e), Accepted(e.handle)'
      PROVE  Intact(e)'
  <2> DEFINE j == e.handle.index
  <2>1. e.handle \in Handle /\ j \in Buffers
    BY ItemFields, HandleIs
  <2>2. Active(j)' /\ e.handle.generation # 0 /\ slots'[j].generation = e.handle.generation
    BY <1>6 DEF Accepted
  <2>3. e.handle = HandleOf(j)
    <3>1. HandleOf(j)' = [index |-> j, generation |-> e.handle.generation]
      BY <2>2 DEF HandleOf
    <3>2. e.handle = [index |-> j, generation |-> e.handle.generation]
      BY <2>1, HandleIs
    <3>3. QED
      BY <1>2, <2>1, <3>1, <3>2
  <2>4. j # i
    <3>1. ~Nobody(envelopes, Items(queue), direct, e.handle)
      BY <1>6, PooledIsOwned
    <3>2. Nobody(envelopes, Items(queue), direct, HandleOf(i))
      BY <1>2 DEF OwnedInv, OwnersInv
    <3>3. QED
      BY <2>3, <3>1, <3>2
  <2>5. slots'[j] = slots[j] /\ Active(j)
    BY <1>2, <2>1, <2>2, <2>4
  <2>6. Accepted(e.handle)
    BY <2>2, <2>5 DEF Accepted
  <2>7. \A k \in slots[j].offset .. End(j) - 1 : arena'[k] = arena[k]
    <3> HIDE DEF j
    <3>1. End(j) <= c \/ c + capacity <= slots[j].offset
      BY <1>1, <2>1, <2>5, RegionIsFree
    <3>2. /\ slots[j].offset \in Nat /\ slots[j].capacity \in Nat /\ End(j) <= ArenaLen
          /\ ArenaLen \in Nat
      BY <1>1, <2>1, <2>5, MemoryAssumption DEF BlocksInArena, MemoryType
    <3>3. ASSUME NEW k \in slots[j].offset .. End(j) - 1
          PROVE  k \in 0 .. ArenaLen - 1 /\ ~(k \in c .. c + capacity - 1)
      BY <3>1, <3>2 DEF End
    <3>4. QED
      BY <3>3
  <2>8. Intact(e)
    BY <1>6 DEF OwnedInv, ContentsInv
  <2>9. QED
    BY <1>1, <2>5, <2>6, <2>7, <2>8, IntactStays
<1>7. ContentsInv'
  <2> SUFFICES ASSUME NEW e \in Item, InPool(envelopes, Items(queue), e)' PROVE Intact(e)'
    BY DEF ContentsInv
  <2>1. CASE ~Accepted(e.handle)'
    BY <2>1 DEF Intact
  <2>2. CASE InPool(envelopes, Items(queue), e) /\ Accepted(e.handle)'
    BY <1>6, <2>2
  <2>3. QED
    BY <2>1, <2>2
<1>8. QED
  BY <1>5, <1>7

(* The application changes a block of its own, or anybody a map count.     *)
LEMMA AdjustedKeepsOwners ==
  ASSUME OwnedInv, UNCHANGED bufferVars, NEW h \in Handle, Accepted(h), NEW n,
         \/ slots' = [slots EXCEPT ![h.index].length = n]
         \/ slots' = [slots EXCEPT ![h.index].map_count = n]
         \/ slots' = slots,
         \/ /\ UNCHANGED arena /\ slots'[h.index].length = slots[h.index].length
         \/ /\ h \in direct
            /\ \E from \in Nat, length \in Nat, b \in Byte :
                 /\ slots[h.index].offset <= from /\ from + length <= End(h.index)
                 /\ arena' = Stored(from, length, b)
         \/ h \in direct /\ UNCHANGED arena
  PROVE  OwnersInv' /\ ContentsInv'
<1> DEFINE i == h.index
<1>1. BlocksInArena /\ MemoryType
  BY DEF OwnedInv, BlocksInArena
<1>2. h = HandleOf(i) /\ i \in Buffers /\ Active(i)
  BY AcceptedIsCurrent
<1>3. /\ \A j \in Buffers : /\ HandleOf(j)' = HandleOf(j) /\ (Active(j)' <=> Active(j))
                            /\ slots'[j].offset = slots[j].offset
      /\ \A j \in Buffers : j # i => slots'[j] = slots[j]
  <2>1. slots \in [Buffers -> SlotType]
    BY <1>1 DEF MemoryType, SlotType
  <2>2. ASSUME NEW r \in SlotType, NEW q, \/ q = [r EXCEPT !.length = n]
                                          \/ q = [r EXCEPT !.map_count = n] \/ q = r
        PROVE  q.offset = r.offset /\ q.generation = r.generation
    BY <2>2 DEF SlotType
  <2>3. ASSUME NEW j \in Buffers
        PROVE  /\ slots'[j].offset = slots[j].offset
               /\ slots'[j].generation = slots[j].generation
               /\ j # i => slots'[j] = slots[j]
    <3>1. slots[j] \in SlotType
      BY <2>1
    <3>2. /\ \/ slots'[j] = [slots[j] EXCEPT !.length = n]
             \/ slots'[j] = [slots[j] EXCEPT !.map_count = n] \/ slots'[j] = slots[j]
          /\ j # i => slots'[j] = slots[j]
      BY <2>1
    <3>3. QED
      BY <2>2, <3>1, <3>2
  <2>4. QED
    BY <2>3 DEF HandleOf, Active
<1>4. (\A g : OwnersKept(g)) /\ PoolShrinks
  BY NothingChanged
<1>5. OwnersInv'
  BY <1>3, <1>4 DEF OwnedInv, OwnersInv, OwnersKept, SameOwners
<1>6. ASSUME NEW e \in Item, InPool(envelopes, Items(queue), e), Accepted(e.handle)'
      PROVE  Intact(e)'
  <2> DEFINE j == e.handle.index
  <2>1. e.handle \in Handle /\ j \in Buffers
    BY ItemFields, HandleIs
  <2>2. Accepted(e.handle)
    <3>1. Active(j)' /\ e.handle.generation # 0 /\ slots'[j].generation = e.handle.generation
      BY <1>6 DEF Accepted
    <3>2. HandleOf(j)'.generation = slots'[j].generation
          /\ HandleOf(j).generation = slots[j].generation
      BY DEF HandleOf
    <3>3. QED
      BY <1>3, <2>1, <3>1, <3>2 DEF Accepted
  <2>3. Intact(e)
    BY <1>6 DEF OwnedInv, ContentsInv
  <2>4. e.handle = HandleOf(j) /\ Active(j)
    BY <2>1, <2>2, AcceptedIsCurrent
  <2>5. CASE j = i /\ h \in direct
    <3>1. Sole(envelopes, Items(queue), direct, e.handle)
      BY <1>2, <2>4, <2>5 DEF OwnedInv, OwnersInv
    <3>2. e.handle \notin direct
      BY <1>6, <3>1, PooledIsOwned
    <3>3. QED
      BY <1>2, <2>4, <2>5, <3>2
  <2>6. CASE h \notin direct \/ (j # i /\ UNCHANGED arena)
    <3>1. UNCHANGED arena /\ slots'[j].length = slots[j].length
      BY <1>3, <2>1, <2>6
    <3>2. QED
      BY <1>1, <1>3, <2>1, <2>2, <2>3, <3>1, IntactStays
  <2>7. CASE h \in direct /\ j # i /\ ~UNCHANGED arena
    <3>1. PICK from \in Nat, length \in Nat, b \in Byte :
            /\ slots[i].offset <= from /\ from + length <= End(i)
            /\ arena' = Stored(from, length, b)
      BY <2>7
    <3>2. \A k \in slots[j].offset .. End(j) - 1 : arena'[k] = arena[k]
      <4> HIDE DEF i, j
      <4>1. QED
        BY <1>1, <1>2, <2>1, <2>4, <2>7, <3>1, OthersApart
    <3>3. QED
      BY <1>1, <1>3, <2>1, <2>2, <2>3, <2>7, <3>2, IntactStays
  <2>8. QED
    BY <2>5, <2>6, <2>7
<1>7. ContentsInv'
  <2> SUFFICES ASSUME NEW e \in Item, InPool(envelopes, Items(queue), e)' PROVE Intact(e)'
    BY DEF ContentsInv
  <2>1. CASE ~Accepted(e.handle)'
    BY <2>1 DEF Intact
  <2>2. CASE Accepted(e.handle)'
    BY <1>4, <1>6, <2>2 DEF PoolShrinks
  <2>3. QED
    BY <2>1, <2>2
<1>8. QED
  BY <1>5, <1>7

-----------------------------------------------------------------------------
(* The calls, one by one.                                                  *)

Kept == BufferType' /\ OwnersInv' /\ ContentsInv'

LEMMA ItemsAreItems ==
  ASSUME BufferType
  PROVE  Items(queue) \in Seq(Item) /\ Len(Items(queue)) = queue.count
  BY ItemsType DEF BufferType

(* An envelope is intact when its block has just been written.             *)
LEMMA CreatedIsIntact ==
  ASSUME BlocksInArena, NEW i \in Buffers, FreeSlot(i),
         NEW c \in 0 .. ArenaLen, NEW length \in 1 .. ArenaLen, find_region(c, length),
         slots' = [slots EXCEPT ![i] = [AllocatedSlot(i, c, length) EXCEPT !.length = length]],
         NEW b, arena' = Stored(c, length, b),
         NEW x, x.handle.index = i, x.length = length, x.copied = b
  PROVE  Intact(x)'
<1>1. slots'[i].offset = c /\ slots'[i].length = length
  <2>1. slots'[i] = [AllocatedSlot(i, c, length) EXCEPT !.length = length]
    BY DEF BlocksInArena, MemoryType
  <2>2. QED
    BY <2>1 DEF AllocatedSlot
<1>2. \A k \in c .. c + length - 1 : arena'[k] = b
  <2>1. c + length <= ArenaLen /\ ArenaLen \in Nat
    BY MemoryAssumption DEF find_region, Fits
  <2>2. \A k \in c .. c + length - 1 : k \in 0 .. ArenaLen - 1
    BY <2>1
  <2>3. QED
    BY <2>2 DEF Stored
<1>3. PICK t, A : t = slots' /\ A = arena'
  OBVIOUS
<1>4. /\ t[i].length = x.length
      /\ \A k \in t[i].offset .. t[i].offset + x.length - 1 : A[k] = x.copied
  BY <1>1, <1>2, <1>3
<1>5. QED
  BY <1>3, <1>4 DEF Intact

LEMMA CreateKeepsOwners ==
  ASSUME OwnedInv, NEW m \in Envelope, NEW length \in 1 .. ArenaLen, NEW b \in Byte,
         message_create_copy(m, length, b)
  PROVE  Kept
<1>1. PICK i \in Buffers, c \in 0 .. ArenaLen :
        /\ FreeSlot(i) /\ find_region(c, length)
        /\ slots' = [slots EXCEPT ![i] =
                       [AllocatedSlot(i, c, length) EXCEPT !.length = length]]
        /\ arena' = Stored(c, length, b)
        /\ envelopes' = [envelopes EXCEPT ![m] =
                           [handle |-> HandleOf(i), length |-> length, copied |-> b]]
  BY DEF message_create_copy
<1>2. envelopes[m] = Unset /\ UNCHANGED <<queue, direct>>
  BY DEF message_create_copy, Owned
<1>3. BlocksInArena /\ MemoryType /\ BufferType /\ envelopes \in EnvelopeRec
  BY DEF OwnedInv, BlocksInArena, BufferType
<1>4. PICK x \in Item : /\ x = [handle |-> HandleOf(i), length |-> length, copied |-> b]
                        /\ x.handle = HandleOf(i) /\ x.length = length /\ x.copied = b
  <2>1. HandleOf(i) \in Handle
    BY <1>3, CurrentIsHandle
  <2>2. [handle |-> HandleOf(i), length |-> length, copied |-> b] \in Item
    BY <2>1, EnvelopeAssumption
  <2>3. QED
    BY <2>2
<1>5. envelopes' = [envelopes EXCEPT ![m] = x]
  BY <1>1, <1>4
<1>6. /\ \A h : h # HandleOf(i) => OwnersKept(h)
      /\ Nobody(envelopes, Items(queue), direct, HandleOf(i))
           => Sole(envelopes, Items(queue), direct, HandleOf(i))'
      /\ \A e \in Item : InPool(envelopes, Items(queue), e)'
           => InPool(envelopes, Items(queue), e) \/ e = x
  <2>1. Items(queue)' = Items(queue) /\ direct' = direct
    BY <1>2
  <2>2. PICK F : F = envelopes'
    OBVIOUS
  <2>3. /\ \A h : h # x.handle =>
             SameOwners(envelopes, Items(queue), direct, F, Items(queue), direct, h)
        /\ Nobody(envelopes, Items(queue), direct, x.handle)
             => Sole(F, Items(queue), direct, x.handle)
        /\ \A e \in Item : InPool(F, Items(queue), e)
             => InPool(envelopes, Items(queue), e) \/ e = x
    <3>1. F = [envelopes EXCEPT ![m] = x]
      BY <1>5, <2>2
    <3>2. QED
      BY <1>2, <1>3, <3>1, EnvelopeSet
  <2>4. HandleOf(i)' = HandleOf(i)
    BY <1>1, <1>3, PlacedFacts
  <2>5. QED
    BY <1>4, <2>1, <2>2, <2>3, <2>4 DEF OwnersKept
<1>7. Sole(envelopes, Items(queue), direct, HandleOf(i))'
  <2>1. Nobody(envelopes, Items(queue), direct, HandleOf(i))
    BY <1>1 DEF OwnedInv, OwnersInv, FreeSlot
  <2>2. QED
    BY <1>6, <2>1
<1>8. Intact(x)'
  <2>1. x.handle.index = i
    BY <1>4 DEF HandleOf
  <2>2. QED
    BY <1>1, <1>3, <1>4, <2>1, CreatedIsIntact
<1>9. \A k \in 0 .. ArenaLen - 1 : k \in c .. c + length - 1 \/ arena'[k] = arena[k]
  BY <1>1 DEF Stored
<1>10. \A e \in Item : InPool(envelopes, Items(queue), e)'
         => InPool(envelopes, Items(queue), e) \/ (e.handle = HandleOf(i) /\ Intact(e)')
  <2> SUFFICES ASSUME NEW e \in Item, InPool(envelopes, Items(queue), e)',
                      ~InPool(envelopes, Items(queue), e)
               PROVE  e.handle = HandleOf(i) /\ Intact(e)'
    OBVIOUS
  <2>1. e = x
    BY <1>6
  <2>2. QED
    BY <1>4, <1>8, <2>1
<1>11. OwnersInv' /\ ContentsInv'
  BY <1>1, <1>6, <1>7, <1>9, <1>10, PlacedKeepsOwners
<1>12. BufferType'
  BY <1>2, <1>3, <1>4, <1>5 DEF BufferType, EnvelopeRec
<1>13. QED
  BY <1>11, <1>12 DEF Kept

(* mb_free() as a change of the whole table.                               *)
LEMMA FreeIsGivingBack ==
  ASSUME MemoryType, NEW h, mb_free(h)
  PROVE  /\ slots' = [i \in Buffers |-> IF i \in {h.index} THEN Freed(slots[i]) ELSE slots[i]]
         /\ UNCHANGED arena
<1>1. slots \in [Buffers -> SlotType]
  BY DEF MemoryType, SlotType
<1>2. QED
  BY <1>1 DEF mb_free

LEMMA ReleaseKeepsOwners ==
  ASSUME OwnedInv, NEW m \in Envelope, message_release(m)
  PROVE  Kept
<1> DEFINE h == envelopes[m].handle
<1>1. /\ ForgottenInTime(h.index) /\ mb_free(h) /\ envelopes' = [envelopes EXCEPT ![m] = Unset]
      /\ UNCHANGED <<queue, direct>>
  BY DEF message_release
<1>2. MemoryType /\ BufferType /\ envelopes \in EnvelopeRec
  BY DEF OwnedInv, BlocksInArena, BufferType
<1>3. /\ slots' = [i \in Buffers |-> IF i \in {h.index} THEN Freed(slots[i]) ELSE slots[i]]
      /\ UNCHANGED arena
  BY <1>1, <1>2, FreeIsGivingBack
<1>4. /\ \A g : g # h => OwnersKept(g)
      /\ \A g : Nobody(envelopes, Items(queue), direct, g)
                  => Nobody(envelopes, Items(queue), direct, g)'
      /\ PoolShrinks
  <2>1. Items(queue)' = Items(queue) /\ direct' = direct
    BY <1>1
  <2>2. PICK F : F = envelopes'
    OBVIOUS
  <2>3. /\ \A g : g # envelopes[m].handle =>
             SameOwners(envelopes, Items(queue), direct, F, Items(queue), direct, g)
        /\ \A g : Nobody(envelopes, Items(queue), direct, g)
                    => Nobody(F, Items(queue), direct, g)
        /\ \A e \in Item : InPool(F, Items(queue), e) => InPool(envelopes, Items(queue), e)
    BY <1>1, <1>2, <2>2, EnvelopeCleared
  <2>4. QED
    BY <2>1, <2>2, <2>3 DEF OwnersKept, PoolShrinks
<1>5. /\ \A i \in Buffers : i \in {h.index} => ForgottenInTime(i)
      /\ \A i \in Buffers : i \notin {h.index} => OwnersKept(HandleOf(i))
  <2> HIDE DEF h
  <2>1. \A i \in Buffers : i \notin {h.index} => HandleOf(i) # h
    BY DEF HandleOf
  <2>2. QED
    BY <1>1, <1>4, <2>1
<1> DEFINE S == {h.index}
<1>6. /\ slots' = [i \in Buffers |-> IF i \in S THEN Freed(slots[i]) ELSE slots[i]]
      /\ \A i \in Buffers : i \in S => ForgottenInTime(i)
      /\ \A i \in Buffers : i \notin S => OwnersKept(HandleOf(i))
  BY <1>3, <1>5
<1> HIDE DEF S
<1>7. OwnersInv' /\ ContentsInv'
  BY <1>3, <1>4, <1>6, FreedKeepsOwners
<1>8. BufferType'
  BY <1>1, <1>2 DEF BufferType, EnvelopeRec
<1>9. QED
  BY <1>7, <1>8 DEF Kept

LEMMA PushMoveKeepsOwners ==
  ASSUME OwnedInv, NEW m \in Envelope, queue_push_move(m)
  PROVE  Kept
<1>1. /\ envelopes[m] # Unset /\ ~IsFull(queue)
      /\ queue' = Push(queue, envelopes[m])
      /\ envelopes' = [envelopes EXCEPT ![m] = Unset]
      /\ UNCHANGED memoryVars /\ direct' = direct
  BY DEF queue_push_move, Owned
<1>2. /\ queue \in Ring /\ Coherent(queue) /\ envelopes \in EnvelopeRec
      /\ direct \in SUBSET Handle /\ Items(queue) \in Seq(Item)
  BY ItemsAreItems DEF OwnedInv, BufferType
<1>3. envelopes[m] \in Item
  BY <1>1, <1>2 DEF EnvelopeRec
<1>4. /\ queue' \in Ring /\ Coherent(queue')
      /\ Items(queue)' = Append(Items(queue), envelopes[m])
  BY <1>1, <1>2, <1>3, PushAppends
<1>5. BufferType'
  BY <1>1, <1>2, <1>4 DEF BufferType, EnvelopeRec
<1>6. (\A h : OwnersKept(h)) /\ PoolShrinks
  <2>1. PICK F, t : F = envelopes' /\ t = Items(queue)'
    OBVIOUS
  <2>2. \A h : /\ SameOwners(envelopes, Items(queue), direct, F, t, direct, h)
               /\ \A e \in Item : InPool(F, t, e) => InPool(envelopes, Items(queue), e)
    BY <1>1, <1>2, <1>4, <2>1, MovedIn
  <2>3. QED
    BY <1>1, <2>1, <2>2 DEF OwnersKept, PoolShrinks
<1>7. OwnersInv' /\ ContentsInv'
  BY <1>1, <1>6, MovesKeep
<1>8. QED
  BY <1>5, <1>7 DEF Kept

LEMMA PopMoveKeepsOwners ==
  ASSUME OwnedInv, NEW m \in Envelope, queue_pop_move(m)
  PROVE  Kept
<1>1. /\ envelopes[m] = Unset /\ ~IsEmpty(queue)
      /\ envelopes' = [envelopes EXCEPT ![m] = Oldest(queue)]
      /\ queue' = [Pop(queue) EXCEPT !.storage[queue.head] = Unset]
      /\ UNCHANGED memoryVars /\ direct' = direct
  BY DEF queue_pop_move, Owned
<1>2. /\ queue \in Ring /\ Coherent(queue) /\ envelopes \in EnvelopeRec
      /\ direct \in SUBSET Handle
      /\ Items(queue) \in Seq(Item) /\ Len(Items(queue)) = queue.count
  BY ItemsAreItems DEF OwnedInv, BufferType
<1>3. queue.count \in Nat /\ 1 \in 1 .. queue.count
  BY <1>1, <1>2, RingAssumption DEF IsEmpty, Ring
<1>4. /\ queue' \in Ring /\ Coherent(queue')
      /\ Len(Items(queue)') = queue.count - 1
      /\ \A k \in 1 .. queue.count - 1 : Items(queue)'[k] = Items(queue)[k + 1]
  <2>1. queue' = Dropped(queue, 1)
    BY <1>1, <1>2, PopDropsOne
  <2>2. /\ Dropped(queue, 1) \in Ring /\ Coherent(Dropped(queue, 1))
        /\ Len(Items(Dropped(queue, 1))) = queue.count - 1
        /\ \A k \in 1 .. queue.count - 1 :
             Items(Dropped(queue, 1))[k] = Items(queue)[k + 1]
    BY <1>2, <1>3, DropTakesFirst
  <2>3. Items(queue)' = Items(Dropped(queue, 1))
    BY <2>1 DEF Items, Slot
  <2>4. QED
    BY <2>1, <2>2, <2>3
<1>5. Oldest(queue) = Items(queue)[1] /\ Items(queue)[1] \in Item
  <2>1. Oldest(queue) = Head(Items(queue)) /\ Oldest(queue) \in Item
    BY <1>1, <1>2, PopTakesFirst
  <2>2. QED
    BY <2>1
<1>6. BufferType'
  BY <1>1, <1>2, <1>4, <1>5 DEF BufferType, EnvelopeRec
<1>7. (\A h : OwnersKept(h)) /\ PoolShrinks
  <2>1. PICK F, t, s : F = envelopes' /\ t = Items(queue)' /\ s = Items(queue)
    OBVIOUS
  <2>2. /\ s \in Seq(Item) /\ 1 \in 1 .. Len(s) /\ Len(t) = Len(s) - 1
        /\ \A k \in 1 .. Len(t) : t[k] = s[k + 1]
        /\ F = [envelopes EXCEPT ![m] = s[1]]
    BY <1>1, <1>2, <1>3, <1>4, <1>5, <2>1
  <2>3. PICK E \in EnvelopeRec : E = envelopes
    BY <1>2
  <2>4. E[m] = Unset /\ F = [E EXCEPT ![m] = s[1]]
    BY <1>1, <2>2, <2>3
  <2>5. /\ \A h : SameOwners(E, s, direct, F, t, direct, h)
        /\ \A e \in Item : InPool(F, t, e) => InPool(E, s, e)
    BY <2>2, <2>4, MovedOut
  <2>6. QED
    BY <1>1, <2>1, <2>3, <2>5 DEF OwnersKept, PoolShrinks
<1>8. OwnersInv' /\ ContentsInv'
  BY <1>1, <1>7, MovesKeep
<1>9. QED
  BY <1>6, <1>8 DEF Kept

LEMMA ReleaseAllKeepsOwners ==
  ASSUME OwnedInv, queue_release_all
  PROVE  Kept
<1> DEFINE handle(k) == Items(queue)[k].handle
           mine(n) == {handle(k).index : k \in 1 .. n}
<1>1. PICK n \in 1 .. queue.count :
        /\ \A k \in 1 .. n : ForgottenInTime(handle(k).index)
        /\ slots' = [i \in Buffers |-> IF i \in mine(n) THEN Freed(slots[i]) ELSE slots[i]]
        /\ queue' = Dropped(queue, n)
        /\ UNCHANGED <<arena, envelopes, direct>>
  BY DEF queue_release_all, Dropped
<1> DEFINE S == mine(n)
<1>2. /\ queue \in Ring /\ Coherent(queue) /\ envelopes \in EnvelopeRec
      /\ direct \in SUBSET Handle
      /\ Items(queue) \in Seq(Item) /\ Len(Items(queue)) = queue.count
  BY ItemsAreItems DEF OwnedInv, BufferType
<1>3. /\ queue' \in Ring /\ Coherent(queue')
      /\ Len(Items(queue)') = queue.count - n
      /\ \A k \in 1 .. queue.count - n : Items(queue)'[k] = Items(queue)[k + n]
  BY <1>1, <1>2, DropTakesFirst
<1>4. BufferType'
  BY <1>1, <1>2, <1>3 DEF BufferType
<1>5. /\ \A h : (\A k \in 1 .. n : handle(k) # h) => OwnersKept(h)
      /\ \A h : Nobody(envelopes, Items(queue), direct, h)
                  => Nobody(envelopes, Items(queue), direct, h)'
      /\ PoolShrinks
  <2>1. PICK t, s : t = Items(queue)' /\ s = Items(queue)
    OBVIOUS
  <2>2. /\ s \in Seq(Item) /\ n \in 1 .. Len(s) /\ Len(t) = Len(s) - n
        /\ \A k \in 1 .. Len(t) : t[k] = s[k + n]
    BY <1>2, <1>3, <2>1
  <2>3. /\ \A h : (\A k \in 1 .. n : s[k].handle # h)
                    => SameOwners(envelopes, s, direct, envelopes, t, direct, h)
        /\ \A h : Nobody(envelopes, s, direct, h) => Nobody(envelopes, t, direct, h)
        /\ \A e \in Item : InPool(envelopes, t, e) => InPool(envelopes, s, e)
    BY <2>2, DroppedOthers
  <2>4. QED
    BY <1>1, <2>1, <2>3 DEF OwnersKept, PoolShrinks
<1>6. \A i \in Buffers : i \in S => ForgottenInTime(i)
  BY <1>1
<1>7. \A i \in Buffers : i \notin S => OwnersKept(HandleOf(i))
  <2>1. \A i \in Buffers : i \notin S => \A k \in 1 .. n : handle(k) # HandleOf(i)
    <3>1. \A i \in Buffers : HandleOf(i).index = i
      BY DEF HandleOf
    <3> HIDE DEF handle
    <3>2. QED
      BY <3>1
  <2>2. QED
    BY <1>5, <2>1
<1> HIDE DEF S, mine, handle
<1>8. slots' = [i \in Buffers |-> IF i \in S THEN Freed(slots[i]) ELSE slots[i]]
  BY <1>1 DEF S
<1>9. OwnersInv' /\ ContentsInv'
  BY <1>1, <1>5, <1>6, <1>7, <1>8, FreedKeepsOwners
<1>10. QED
  BY <1>4, <1>9 DEF Kept

LEMMA DirectAllocKeepsOwners ==
  ASSUME OwnedInv, DirectAlloc
  PROVE  Kept
<1>1. PICK capacity \in 1 .. ArenaLen, h \in Handle :
        mb_alloc(capacity, h) /\ direct' = direct \cup {h}
  BY DEF DirectAlloc
<1>2. PICK i \in Buffers : i = h.index
  BY HandleIs
<1>3. FreeSlot(i) /\ h = HandleOf(i) /\ UNCHANGED <<arena, envelopes, queue>>
  BY <1>1, <1>2 DEF mb_alloc, DirectAlloc
<1>4. PICK c \in 0 .. ArenaLen :
        find_region(c, capacity) /\ slots' = [slots EXCEPT ![i] = AllocatedSlot(i, c, capacity)]
  BY <1>1, <1>2 DEF mb_alloc
<1>5. BlocksInArena /\ MemoryType /\ BufferType
  BY DEF OwnedInv, BlocksInArena
<1>6. PICK n : slots' = [slots EXCEPT ![i] = [AllocatedSlot(i, c, capacity) EXCEPT !.length = n]]
  <2>1. [AllocatedSlot(i, c, capacity) EXCEPT !.length = 0] = AllocatedSlot(i, c, capacity)
    BY DEF AllocatedSlot
  <2>2. QED
    BY <1>4, <2>1
<1>7. Items(queue)' = Items(queue) /\ envelopes' = envelopes
  BY <1>3 DEF Items, Slot
<1>8. HandleOf(i)' = h
  <2>1. find_region(c, capacity) /\ FreeSlot(i) /\ BlocksInArena
    BY <1>3, <1>4, <1>5
  <2>2. \A j \in Buffers : HandleOf(j)' = HandleOf(j)
    BY <1>6, <2>1, PlacedFacts
  <2>3. QED
    BY <1>3, <2>2
<1>9. \A g : g # HandleOf(i) => OwnersKept(g)
  BY <1>1, <1>3, <1>7 DEF OwnersKept, SameOwners, Nobody, Sole
<1>10. Sole(envelopes, Items(queue), direct, HandleOf(i))'
  <2>1. Nobody(envelopes, Items(queue), direct, h)
    BY <1>3 DEF OwnedInv, OwnersInv, FreeSlot
  <2>2. Sole(envelopes, Items(queue), direct \cup {h}, h)
    BY <2>1 DEF Nobody, Sole
  <2>3. QED
    BY <1>1, <1>7, <1>8, <2>2
<1>11. PoolShrinks
  BY <1>7 DEF PoolShrinks
<1>12. OwnersInv' /\ ContentsInv'
  <2>1. \A k \in 0 .. ArenaLen - 1 : k \in c .. c + capacity - 1 \/ arena'[k] = arena[k]
    BY <1>3
  <2>2. \A e \in Item : InPool(envelopes, Items(queue), e)'
          => InPool(envelopes, Items(queue), e) \/ (e.handle = HandleOf(i) /\ Intact(e)')
    BY <1>11 DEF PoolShrinks
  <2>3. find_region(c, capacity) /\ FreeSlot(i)
    BY <1>3, <1>4
  <2>4. QED
    BY <1>6, <1>9, <1>10, <2>1, <2>2, <2>3, PlacedKeepsOwners
<1>13. BufferType'
  BY <1>1, <1>3, <1>5 DEF BufferType
<1>14. QED
  BY <1>12, <1>13 DEF Kept

LEMMA DirectFreeKeepsOwners ==
  ASSUME OwnedInv, DirectFree
  PROVE  Kept
<1>1. PICK h \in direct : ForgottenInTime(h.index) /\ mb_free(h) /\ UNCHANGED bufferVars
  BY DEF DirectFree
<1>2. MemoryType /\ BufferType
  BY DEF OwnedInv, BlocksInArena
<1>3. PICK S : S = {h.index}
  OBVIOUS
<1>4. /\ slots' = [i \in Buffers |-> IF i \in S THEN Freed(slots[i]) ELSE slots[i]]
      /\ UNCHANGED arena
  BY <1>1, <1>2, <1>3, FreeIsGivingBack
<1>5. (\A g : OwnersKept(g)) /\ PoolShrinks
  BY <1>1, NothingChanged
<1>6. \A g : Nobody(envelopes, Items(queue), direct, g)
               => Nobody(envelopes, Items(queue), direct, g)'
  BY <1>5 DEF OwnersKept, SameOwners
<1>7. OwnersInv' /\ ContentsInv'
  <2>1. \A i \in Buffers : i \in S => ForgottenInTime(i)
    BY <1>1, <1>3
  <2>2. \A i \in Buffers : i \notin S => OwnersKept(HandleOf(i))
    BY <1>5
  <2>3. QED
    BY <1>4, <1>5, <1>6, <2>1, <2>2, FreedKeepsOwners
<1>8. QED
  BY <1>1, <1>2, <1>7 DEF Kept, BufferType, bufferVars

LEMMA ResetKeepsOwners ==
  ASSUME OwnedInv, Reset
  PROVE  Kept
<1>1. /\ \A i \in Buffers : ForgottenInTime(i)
      /\ slots' = [i \in Buffers |-> Freed(slots[i])]
      /\ UNCHANGED arena /\ UNCHANGED bufferVars
  BY DEF Reset, mb_reset
<1>2. PICK S : S = Buffers
  OBVIOUS
<1>3. slots' = [i \in Buffers |-> IF i \in S THEN Freed(slots[i]) ELSE slots[i]]
  BY <1>1, <1>2
<1>4. (\A g : OwnersKept(g)) /\ PoolShrinks
  BY <1>1, NothingChanged
<1>5. \A g : Nobody(envelopes, Items(queue), direct, g)
               => Nobody(envelopes, Items(queue), direct, g)'
  BY <1>4 DEF OwnersKept, SameOwners
<1>6. OwnersInv' /\ ContentsInv'
  <2>1. \A i \in Buffers : i \in S => ForgottenInTime(i)
    BY <1>1
  <2>2. \A i \in Buffers : i \notin S => OwnersKept(HandleOf(i))
    BY <1>4
  <2>3. QED
    BY <1>1, <1>3, <1>4, <1>5, <2>1, <2>2, FreedKeepsOwners
<1>7. QED
  BY <1>1, <1>6 DEF Kept, OwnedInv, BufferType, bufferVars

LEMMA DirectForgetKeepsOwners ==
  ASSUME OwnedInv, DirectForget
  PROVE  Kept
<1>1. PICK h \in direct : /\ ~Accepted(h) /\ direct' = direct \ {h}
                          /\ UNCHANGED <<memoryVars, envelopes, queue>>
  BY DEF DirectForget
<1>2. MemoryType
  BY DEF OwnedInv, BlocksInArena
<1>3. Items(queue)' = Items(queue) /\ envelopes' = envelopes
  BY <1>1 DEF Items, Slot
<1>4. ASSUME NEW i \in Buffers PROVE HandleOf(i) # h
  <2>1. CASE Active(i)
    BY <1>1, <1>2, <2>1, CurrentIsHandle
  <2>2. CASE ~Active(i)
    BY <1>1, <2>2 DEF OwnedInv, OwnersInv, Nobody
  <2>3. QED
    BY <2>1, <2>2
<1>5. \A g : g # h => OwnersKept(g)
  BY <1>1, <1>3 DEF OwnersKept, SameOwners, Nobody, Sole
<1>6. PoolShrinks
  BY <1>3 DEF PoolShrinks
<1>7. OwnersInv' /\ ContentsInv'
  BY <1>1, <1>4, <1>5, <1>6, MovesKeep
<1>8. BufferType'
  BY <1>1 DEF OwnedInv, BufferType
<1>9. QED
  BY <1>7, <1>8 DEF Kept

LEMMA DirectChangeKeepsOwners ==
  ASSUME OwnedInv, DirectChange
  PROVE  Kept
<1>1. PICK h \in direct, n \in 0 .. ArenaLen :
        \/ mb_set_length(h, n)
        \/ \E offset \in 0 .. ArenaLen, b \in Byte : mb_write(h, offset, n, b)
        \/ \E b \in Byte : MappedStore(h, n, b)
  BY DEF DirectChange
<1>2. UNCHANGED bufferVars /\ h \in Handle /\ BlocksInArena /\ MemoryType
  BY DEF DirectChange, OwnedInv, BufferType, BlocksInArena
<1>3. BufferType'
  BY <1>2 DEF OwnedInv, BufferType, bufferVars
<1>4. h.index \in Buffers
  BY <1>2, HandleIs
<1>5. /\ slots[h.index].offset \in Nat /\ slots[h.index].capacity \in Nat
      /\ \A k \in 0 .. ArenaLen : k \in Nat
  BY <1>2, <1>4 DEF MemoryType
<1>6. CASE mb_set_length(h, n)
  <2>1. Accepted(h) /\ slots' = [slots EXCEPT ![h.index].length = n] /\ UNCHANGED arena
    BY <1>6 DEF mb_set_length, Usable
  <2>2. OwnersInv' /\ ContentsInv'
    BY <1>2, <2>1, AdjustedKeepsOwners
  <2>3. QED
    BY <1>3, <2>2 DEF Kept
<1>7. ASSUME NEW offset \in 0 .. ArenaLen, NEW b \in Byte, mb_write(h, offset, n, b)
      PROVE  Kept
  <2>1. PICK m : slots' = [slots EXCEPT ![h.index].length = m]
    BY <1>7 DEF mb_write
  <2>2. /\ Accepted(h) /\ offset + n <= slots[h.index].capacity
        /\ arena' = Stored(slots[h.index].offset + offset, n, b)
    BY <1>7 DEF mb_write, Usable, checked_range
  <2>3. PICK from \in Nat : from = slots[h.index].offset + offset
    BY <1>5
  <2>4. slots[h.index].offset <= from /\ from + n <= End(h.index) /\ n \in Nat
    BY <1>5, <2>2, <2>3 DEF End
  <2>5. OwnersInv' /\ ContentsInv'
    BY <1>2, <2>1, <2>2, <2>3, <2>4, AdjustedKeepsOwners
  <2>6. QED
    BY <1>3, <2>5 DEF Kept
<1>8. ASSUME NEW b \in Byte, MappedStore(h, n, b)
      PROVE  Kept
  <2>1. /\ Accepted(h) /\ n < slots[h.index].capacity /\ slots' = slots
        /\ arena' = Stored(slots[h.index].offset + n, 1, b)
    BY <1>8 DEF MappedStore
  <2>2. PICK from \in Nat : from = slots[h.index].offset + n
    BY <1>5
  <2>3. slots[h.index].offset <= from /\ from + 1 <= End(h.index) /\ 1 \in Nat
    BY <1>5, <2>1, <2>2 DEF End
  <2>4. OwnersInv' /\ ContentsInv'
    BY <1>2, <2>1, <2>2, <2>3, AdjustedKeepsOwners
  <2>5. QED
    BY <1>3, <2>4 DEF Kept
<1>9. QED
  BY <1>1, <1>6, <1>7, <1>8

LEMMA RememberedHandles ==
  ASSUME BufferType
  PROVE  Remembered \subseteq Handle
<1>1. Items(queue) \in Seq(Item) /\ Len(Items(queue)) = queue.count
  BY ItemsAreItems
<1>2. \A e \in Queued : e \in Item
  BY <1>1 DEF Queued
<1>3. \A m \in Envelope : Owned(m) => envelopes[m] \in Item
  BY DEF BufferType, EnvelopeRec, Owned
<1>4. direct \subseteq Handle
  BY DEF BufferType
<1>5. QED
  BY <1>2, <1>3, <1>4, ItemFields DEF Remembered

LEMMA MapOrUnmapKeepsOwners ==
  ASSUME OwnedInv, MapOrUnmap
  PROVE  Kept
<1>1. PICK h \in Remembered : mb_map(h) \/ mb_unmap(h)
  BY DEF MapOrUnmap
<1>2. /\ UNCHANGED bufferVars /\ h \in Handle /\ h.index \in Buffers /\ MemoryType
      /\ BufferType
  <2>1. UNCHANGED bufferVars /\ MemoryType /\ BufferType
    BY DEF MapOrUnmap, OwnedInv, BlocksInArena
  <2>2. QED
    BY <2>1, RememberedHandles, HandleIs
<1>3. PICK n : /\ slots' = [slots EXCEPT ![h.index].map_count = n]
               /\ Accepted(h) /\ UNCHANGED arena
  <2>1. CASE mb_map(h)
    BY <2>1 DEF mb_map, Usable
  <2>2. CASE mb_unmap(h)
    BY <2>2 DEF mb_unmap
  <2>3. QED
    BY <1>1, <2>1, <2>2
<1>4. slots'[h.index].length = slots[h.index].length
  <2>1. slots[h.index] \in SlotType
    BY <1>2 DEF MemoryType, SlotType
  <2>2. slots'[h.index] = [slots[h.index] EXCEPT !.map_count = n]
    BY <1>2, <1>3 DEF MemoryType
  <2>3. QED
    BY <2>1, <2>2 DEF SlotType
<1>5. OwnersInv' /\ ContentsInv'
  BY <1>2, <1>3, <1>4, AdjustedKeepsOwners
<1>6. QED
  BY <1>2, <1>5 DEF Kept, BufferType, bufferVars

-----------------------------------------------------------------------------

LEMMA InitOwned == Init => OwnedInv
<1> SUFFICES ASSUME Init PROVE OwnedInv
  OBVIOUS
<1>1. BlocksInArena
  BY InitBlocks
<1>2. /\ envelopes = [m \in Envelope |-> Unset] /\ queue = EmptyRing /\ direct = {}
      /\ \A i \in Buffers : slots[i] = EmptySlot
  BY DEF Init, mb_init
<1>3. BufferType
  BY <1>2, EmptyRingIsEmpty DEF BufferType, EnvelopeRec
<1>4. Items(queue) = << >> /\ Len(<< >>) = 0
  BY <1>2, EmptyRingIsEmpty
<1>5. \A h : Nobody(envelopes, Items(queue), direct, h)
  <2>1. \A h : Held(envelopes, h) = {} /\ h \notin direct
    BY <1>2 DEF Held
  <2>2. \A h : QueuedAt(Items(queue), h) = {}
    BY <1>4 DEF QueuedAt
  <2>3. QED
    BY <2>1, <2>2 DEF Nobody
<1>6. OwnersInv
  BY <1>2, <1>5 DEF OwnersInv, Active, EmptySlot
<1>7. ContentsInv
  BY <1>5, PooledIsOwned DEF ContentsInv
<1>8. QED
  BY <1>1, <1>3, <1>6, <1>7 DEF OwnedInv

LEMMA NextOwned == OwnedInv /\ [Next]_vars => OwnedInv'
<1> SUFFICES ASSUME OwnedInv, [Next]_vars PROVE OwnedInv'
  OBVIOUS
<1>1. BlocksInArena'
  BY NextBlocks DEF OwnedInv
<1>2. ASSUME UNCHANGED vars PROVE Kept
  <2>1. UNCHANGED memoryVars /\ UNCHANGED bufferVars
    BY <1>2 DEF vars
  <2>2. (\A g : OwnersKept(g)) /\ PoolShrinks
    BY <2>1, NothingChanged
  <2>3. OwnersInv' /\ ContentsInv'
    BY <2>1, <2>2, MovesKeep
  <2>4. BufferType'
    BY <2>1 DEF OwnedInv, BufferType, bufferVars
  <2>5. QED
    BY <2>3, <2>4 DEF Kept
<1>3. ASSUME NEW m \in Envelope, NEW length \in 1 .. ArenaLen, NEW b \in Byte,
             message_create_copy(m, length, b)
      PROVE  Kept
  BY <1>3, CreateKeepsOwners
<1>4. ASSUME NEW m \in Envelope,
             message_release(m) \/ queue_push_move(m) \/ queue_pop_move(m)
      PROVE  Kept
  BY <1>4, ReleaseKeepsOwners, PushMoveKeepsOwners, PopMoveKeepsOwners
<1>5. ASSUME queue_release_all \/ DirectAlloc \/ DirectFree PROVE Kept
  BY <1>5, ReleaseAllKeepsOwners, DirectAllocKeepsOwners, DirectFreeKeepsOwners
<1>6. ASSUME DirectForget \/ DirectChange \/ MapOrUnmap \/ Reset PROVE Kept
  BY <1>6, DirectForgetKeepsOwners, DirectChangeKeepsOwners, MapOrUnmapKeepsOwners,
     ResetKeepsOwners
<1>7. Kept
  BY <1>2, <1>3, <1>4, <1>5, <1>6 DEF Next
<1>8. QED
  BY <1>1, <1>7 DEF Kept, OwnedInv

(* One owner, counted.                                                     *)
LEMMA SoleIsOne ==
  ASSUME BufferType, NEW h, Sole(envelopes, Items(queue), direct, h)
  PROVE  Owners(h) = 1
<1>1. Len(Items(queue)) = queue.count
  BY ItemsAreItems
<1> DEFINE holders == {m \in Envelope : Owned(m) /\ envelopes[m].handle = h}
           places == {k \in 1 .. queue.count : Items(queue)[k].handle = h}
<1>2. holders = Held(envelopes, h) /\ places = QueuedAt(Items(queue), h)
  BY <1>1 DEF Held, QueuedAt, Owned
<1>3. Owners(h) = Cardinality(holders) + Cardinality(places) + IF h \in direct THEN 1 ELSE 0
  BY DEF Owners
<1> HIDE DEF holders, places
<1>4. /\ Cardinality({}) = 0 /\ \A x : Cardinality({x}) = 1
  <2>1. \A x : Cardinality({x}) = 1
    BY FS_Singleton
  <2>2. QED
    BY <2>1, FS_EmptySet
<1>5. CASE (\E m \in Envelope : holders = {m}) /\ places = {} /\ h \notin direct
  <2>1. Cardinality(holders) = 1 /\ Cardinality(places) = 0
    BY <1>4, <1>5
  <2>2. QED
    BY <1>3, <1>5, <2>1
<1>6. CASE holders = {} /\ (\E k \in 1 .. queue.count : places = {k}) /\ h \notin direct
  <2>1. Cardinality(holders) = 0 /\ Cardinality(places) = 1
    BY <1>4, <1>6
  <2>2. QED
    BY <1>3, <1>6, <2>1
<1>7. CASE holders = {} /\ places = {} /\ h \in direct
  BY <1>3, <1>4, <1>7
<1>8. QED
  BY <1>1, <1>2, <1>5, <1>6, <1>7 DEF Sole

LEMMA OwnedHolds == OwnedInv => OwnersHoldBlocks
<1> SUFFICES ASSUME OwnedInv PROVE OwnersHoldBlocks
  OBVIOUS
<1>1. MemoryType /\ BufferType
  BY DEF OwnedInv, BlocksInArena
<1>2. ASSUME NEW i \in Buffers, Active(i)
      PROVE  Accepted(HandleOf(i)) /\ Owners(HandleOf(i)) = 1
  <2>1. Sole(envelopes, Items(queue), direct, HandleOf(i))
    BY <1>2 DEF OwnedInv, OwnersInv
  <2>2. QED
    BY <1>1, <1>2, <2>1, CurrentIsHandle, SoleIsOne
<1>3. ASSUME NEW e \in Queued \cup {envelopes[m] : m \in {n \in Envelope : Owned(n)}}
      PROVE  Intact(e)
  <2>1. Items(queue) \in Seq(Item) /\ Len(Items(queue)) = queue.count
    BY <1>1, ItemsAreItems
  <2>2. e \in Item /\ InPool(envelopes, Items(queue), e)
    BY <1>1, <1>3, <2>1 DEF Queued, Owned, InPool, BufferType, EnvelopeRec
  <2>3. QED
    BY <2>2 DEF OwnedInv, ContentsInv
<1>4. QED
  BY <1>2, <1>3 DEF OwnersHoldBlocks

(* However envelopes are created, queued, popped and released beside an    *)
(* application that allocates, frees, maps and resets: every live block is *)
(* owned by exactly one envelope, queue slot or application, under a       *)
(* handle the pool accepts, and an envelope whose handle is accepted still *)
(* holds what it was created with. For any arena, slots, queue, envelopes, *)
(* and generations that wrap, if a handle is forgotten in time.            *)
THEOREM BlocksHaveOneOwner == Spec => []OwnersHoldBlocks
<1>1. Spec => []OwnedInv
  BY InitOwned, NextOwned, PTL DEF Spec
<1>2. QED
  BY <1>1, OwnedHolds, PTL

-----------------------------------------------------------------------------
(* What a slot makes of the arena: BlockStore's block.                     *)
BlockOf(A, s) ==
  [data |-> [k \in 1 .. s.capacity |-> A[s.offset + k - 1]],
   length |-> s.length, mapped |-> s.map_count # 0]

Tags == [i \in Buffers |-> slots[i].generation]

LEMMA BlockIs ==
  ASSUME NEW i \in Buffers
  PROVE  Blocks[i] = IF Active(i) THEN BlockOf(arena, slots[i]) ELSE NoBlock
  BY DEF Blocks, BlockOf, Mapped

LEMMA BlockFields ==
  ASSUME NEW s \in SlotType, NEW A \in [0 .. ArenaLen - 1 -> Byte],
         0 < s.capacity, s.offset + s.capacity <= ArenaLen, s.length <= s.capacity
  PROVE  /\ BlockOf(A, s) \in Store!Block /\ BlockOf(A, s) # NoBlock
         /\ BlockOf(A, s).data \in [1 .. s.capacity -> Byte]
         /\ Len(BlockOf(A, s).data) = s.capacity
         /\ BlockOf(A, s).length = s.length
         /\ BlockOf(A, s).mapped = (s.map_count # 0)
<1>1. /\ ArenaLen \in Nat /\ s.capacity \in 1 .. ArenaLen /\ s.offset \in Nat
      /\ s.length \in 0 .. ArenaLen
  BY MemoryAssumption DEF SlotType
<1> DEFINE d == [k \in 1 .. s.capacity |-> A[s.offset + k - 1]]
<1>2. d \in [1 .. s.capacity -> Byte]
  <2>1. \A k \in 1 .. s.capacity : s.offset + k - 1 \in 0 .. ArenaLen - 1
    BY <1>1
  <2>2. QED
    BY <2>1
<1>3. Len(d) = s.capacity
  <2>1. PICK n \in Nat : n = s.capacity
    BY <1>1
  <2>2. d \in [1 .. n -> Byte]
    BY <1>2, <2>1
  <2>3. d \in Seq(Byte)
    BY <2>2, SeqDef
  <2>4. Len(d) \in Nat /\ 1 .. n = 1 .. Len(d)
    BY <2>2, <2>3, LenProperties
  <2>5. QED
    BY <2>1, <2>4
<1> HIDE DEF d
<1>4. BlockOf(A, s) = [data |-> d, length |-> s.length, mapped |-> s.map_count # 0]
  BY DEF BlockOf, d
<1>5. BlockOf(A, s) \in Store!Block
  <2>1. d \in UNION {[1 .. n -> Byte] : n \in 1 .. ArenaLen}
    BY <1>1, <1>2
  <2>2. (s.map_count # 0) \in BOOLEAN
    OBVIOUS
  <2>3. QED
    BY <1>1, <1>4, <2>1, <2>2 DEF Store!Block
<1>6. QED
  BY <1>2, <1>3, <1>4, <1>5, BlockAssumption

(* The block of an active slot.                                            *)
LEMMA ActiveBlock ==
  ASSUME BlocksInArena, NEW i \in Buffers
  PROVE  /\ Blocks[i] = IF Active(i) THEN BlockOf(arena, slots[i]) ELSE NoBlock
         /\ Active(i) => /\ Blocks[i] \in Store!Block /\ Blocks[i] # NoBlock
                         /\ Blocks[i].data \in [1 .. slots[i].capacity -> Byte]
                         /\ Len(Blocks[i].data) = slots[i].capacity
                         /\ Blocks[i].length = slots[i].length
                         /\ Blocks[i].length <= Len(Blocks[i].data)
                         /\ Blocks[i].mapped = Mapped(i)
<1>1. slots[i] \in SlotType /\ arena \in [0 .. ArenaLen - 1 -> Byte]
  BY DEF BlocksInArena, MemoryType, SlotType
<1>2. CASE Active(i)
  <2>1. /\ 0 < slots[i].capacity /\ slots[i].offset + slots[i].capacity <= ArenaLen
        /\ slots[i].length <= slots[i].capacity
    BY <1>2 DEF BlocksInArena, End
  <2>2. Blocks[i] = BlockOf(arena, slots[i])
    BY <1>2, BlockIs
  <2>0. PICK s \in SlotType, A \in [0 .. ArenaLen - 1 -> Byte] : s = slots[i] /\ A = arena
    BY <1>1
  <2>3. PICK b : s = slots[i] /\ A = arena /\ b = BlockOf(A, s)
    BY <2>0
  <2>4. /\ b \in Store!Block /\ b # NoBlock /\ b.data \in [1 .. s.capacity -> Byte]
        /\ Len(b.data) = s.capacity /\ b.length = s.length
        /\ b.mapped = (s.map_count # 0)
    BY <2>1, <2>3, BlockFields
  <2>5. Blocks[i] = b /\ s = slots[i] /\ b.length <= Len(b.data)
    BY <2>1, <2>2, <2>3, <2>4
  <2>6. b.mapped = Mapped(i)
    BY <2>3, <2>4 DEF Mapped
  <2>7. QED
    BY <1>2, <2>2, <2>4, <2>5, <2>6
<1>3. CASE ~Active(i)
  BY <1>3, BlockIs
<1>4. QED
  BY <1>2, <1>3

LEMMA BlockStays ==
  ASSUME NEW s \in SlotType, NEW A, NEW B,
         \A k \in s.offset .. s.offset + s.capacity - 1 : B[k] = A[k]
  PROVE  BlockOf(B, s) = BlockOf(A, s)
<1>1. s.offset \in Nat /\ s.capacity \in Nat
  BY MemoryAssumption DEF SlotType
<1>2. \A k \in 1 .. s.capacity : s.offset + k - 1 \in s.offset .. s.offset + s.capacity - 1
  BY <1>1
<1>3. \A k \in 1 .. s.capacity : B[s.offset + k - 1] = A[s.offset + k - 1]
  BY <1>2
<1>4. QED
  BY <1>3 DEF BlockOf

(* One slot changes, and the arena not in the others' blocks.              *)
LEMMA OneBlockChanges ==
  ASSUME BlocksInArena, NEW i \in Buffers,
         \A j \in Buffers : slots'[j].generation = slots[j].generation,
         \A j \in Buffers : j # i => slots'[j] = slots[j],
         \A j \in Buffers : j # i /\ Active(j) =>
           \A k \in slots[j].offset .. End(j) - 1 : arena'[k] = arena[k]
  PROVE  /\ Blocks' = [Blocks EXCEPT ![i] = Blocks'[i]]
         /\ Tags' = Tags
<1>1. Tags' = Tags
  BY DEF Tags
<1>2. ASSUME NEW j \in Buffers, j # i PROVE Blocks'[j] = Blocks[j]
  <2>1. Active(j)' <=> Active(j)
    BY <1>2 DEF Active
  <2>2. Blocks'[j] = IF Active(j)' THEN BlockOf(arena', slots'[j]) ELSE NoBlock
    BY DEF Blocks, BlockOf, Mapped
  <2>3. CASE Active(j)
    <3>1. slots[j] \in SlotType
      BY DEF BlocksInArena, MemoryType, SlotType
    <3>2. \A k \in slots[j].offset .. slots[j].offset + slots[j].capacity - 1 :
            arena'[k] = arena[k]
      <4>1. \A k \in slots[j].offset .. End(j) - 1 : arena'[k] = arena[k]
        BY <1>2, <2>3
      <4>2. slots[j].offset \in Nat /\ slots[j].capacity \in Nat
        BY <3>1, MemoryAssumption DEF SlotType
      <4>3. QED
        BY <4>1, <4>2 DEF End
    <3>3. BlockOf(arena', slots[j]) = BlockOf(arena, slots[j])
      BY <3>1, <3>2, BlockStays
    <3>4. QED
      BY <1>2, <2>1, <2>2, <2>3, <3>3, BlockIs
  <2>4. CASE ~Active(j)
    BY <2>1, <2>2, <2>4, BlockIs
  <2>5. QED
    BY <2>3, <2>4
<1>3. Blocks = [j \in Buffers |-> Blocks[j]] /\ Blocks' = [j \in Buffers |-> Blocks'[j]]
  BY DEF Blocks
<1> HIDE DEF Blocks
<1>4. QED
  BY <1>1, <1>2, <1>3

LEMMA BlocksAfter ==
  ASSUME BlocksInArena', NEW i \in Buffers, Active(i)'
  PROVE  /\ Blocks'[i] \in Store!Block
         /\ Blocks'[i].length <= Len(Blocks'[i].data)
         /\ Blocks'[i].mapped = Mapped(i)'
<1>0. PICK s \in SlotType, A \in [0 .. ArenaLen - 1 -> Byte] : s = slots'[i] /\ A = arena'
  BY DEF BlocksInArena, MemoryType, SlotType
<1>1. PICK b : s = slots'[i] /\ A = arena' /\ b = BlockOf(A, s)
  BY <1>0
<1>2. 0 < s.capacity /\ s.offset + s.capacity <= ArenaLen /\ s.length <= s.capacity
  BY <1>1 DEF BlocksInArena, End
<1>3. /\ b \in Store!Block /\ Len(b.data) = s.capacity /\ b.length = s.length
      /\ b.mapped = (s.map_count # 0)
  BY <1>1, <1>2, BlockFields
<1>4. Blocks'[i] = b
  BY <1>1 DEF Blocks, BlockOf, Mapped
<1>5. b.mapped = Mapped(i)' /\ b.length <= Len(b.data)
  <2>1. Mapped(i)' = (s.map_count # 0)
    BY <1>1 DEF Mapped
  <2>2. b.length <= Len(b.data)
    BY <1>2, <1>3
  <2>3. QED
    BY <1>3, <2>1, <2>2
<1>6. QED
  BY <1>3, <1>4, <1>5

StoreStep == [Store!Next]_<<Blocks, Tags>>

LEMMA PlacedIsCreate ==
  ASSUME BlocksInArena, BlocksInArena', NEW i \in Buffers, FreeSlot(i),
         NEW c \in 0 .. ArenaLen, NEW capacity \in 1 .. ArenaLen,
         find_region(c, capacity), NEW n,
         slots' = [slots EXCEPT ![i] = [AllocatedSlot(i, c, capacity) EXCEPT !.length = n]],
         \A k \in 0 .. ArenaLen - 1 : k \in c .. c + capacity - 1 \/ arena'[k] = arena[k]
  PROVE  StoreStep
<1>1. /\ Active(i)' /\ \A j \in Buffers : HandleOf(j)' = HandleOf(j)
      /\ \A j \in Buffers : j # i => slots'[j] = slots[j]
  BY PlacedFacts
<1>2. \A j \in Buffers : slots'[j].generation = slots[j].generation
  <2>1. \A j \in Buffers : /\ HandleOf(j)'.generation = slots'[j].generation
                           /\ HandleOf(j).generation = slots[j].generation
    BY DEF HandleOf
  <2>2. QED
    BY <1>1, <2>1
<1>3. ~Mapped(i)'
  <2>1. slots'[i] = [AllocatedSlot(i, c, capacity) EXCEPT !.length = n]
    BY DEF BlocksInArena, MemoryType
  <2>2. QED
    BY <2>1 DEF AllocatedSlot, Mapped
<1>4. ASSUME NEW j \in Buffers, j # i, Active(j), NEW k \in slots[j].offset .. End(j) - 1
      PROVE  arena'[k] = arena[k]
  <2>1. End(j) <= c \/ c + capacity <= slots[j].offset
    BY <1>4, RegionIsFree
  <2>2. /\ slots[j].offset \in Nat /\ End(j) \in Nat /\ End(j) <= ArenaLen
        /\ ArenaLen \in Nat
    <3>1. slots[j].offset \in Nat /\ slots[j].capacity \in Nat
      BY DEF BlocksInArena, MemoryType
    <3>2. End(j) <= ArenaLen
      BY <1>4 DEF BlocksInArena
    <3>3. QED
      BY <3>1, <3>2, MemoryAssumption DEF End
  <2>3. k \in 0 .. ArenaLen - 1 /\ k \notin c .. c + capacity - 1
    BY <2>1, <2>2
  <2>4. QED
    BY <2>3
<1>5. Blocks' = [Blocks EXCEPT ![i] = Blocks'[i]] /\ Tags' = Tags
  BY <1>1, <1>2, <1>4, OneBlockChanges
<1>6. Blocks[i] = NoBlock
  BY BlockIs DEF FreeSlot
<1>7. Blocks'[i] \in Store!Block /\ ~Blocks'[i].mapped
      /\ Blocks'[i].length <= Len(Blocks'[i].data)
  BY <1>1, <1>3, BlocksAfter
<1>8. Store!Create(i)
  BY <1>5, <1>6, <1>7 DEF Store!Create, Tags
<1>9. QED
  BY <1>8 DEF StoreStep, Store!Next

LEMMA FreedIsGiveBack ==
  ASSUME BlocksInArena, NEW S, \A i \in S : ~Mapped(i), UNCHANGED arena,
         slots' = [i \in Buffers |-> IF i \in S THEN Freed(slots[i]) ELSE slots[i]]
  PROVE  StoreStep
<1> DEFINE T == S \cap Buffers
<1>1. MemoryType /\ slots \in [Buffers -> SlotType]
  BY DEF BlocksInArena, MemoryType, SlotType
<1>2. ASSUME NEW i \in Buffers
      PROVE  /\ i \in T => ~Active(i)' /\ slots'[i].generation # slots[i].generation
             /\ i \notin T => slots'[i] = slots[i]
  <2>1. i \notin S => slots'[i] = slots[i]
    OBVIOUS
  <2>2. ASSUME i \in S PROVE ~Active(i)' /\ slots'[i].generation # slots[i].generation
    <3>1. slots'[i] = Freed(slots[i]) /\ slots[i] \in SlotType
      BY <1>1, <2>2
    <3>2. slots'[i].offset = ArenaLen
          /\ slots'[i].generation = next_generation(slots[i].generation)
      BY <3>1, SlotFields
    <3>3. PICK g \in 1 .. MaxGeneration : g = slots[i].generation
      BY <3>1 DEF SlotType
    <3>4. next_generation(g) # g
      <4>1. MaxGeneration \in Nat \ {0, 1}
        BY MemoryAssumption
      <4>2. g = MaxGeneration => next_generation(g) = 1
        BY <4>1 DEF next_generation
      <4>3. g < MaxGeneration => next_generation(g) = g + 1
        BY <4>1 DEF next_generation
      <4>4. QED
        BY <4>1, <4>2, <4>3
    <3>5. QED
      BY <3>2, <3>3, <3>4 DEF Active, INVALID_OFFSET
  <2>3. QED
    BY <2>1, <2>2
<1>3. \A i \in T : Blocks[i] # NoBlock => ~Blocks[i].mapped
  <2> TAKE i \in T
  <2>1. CASE Active(i)
    BY <2>1, ActiveBlock
  <2>2. CASE ~Active(i)
    BY <2>2, BlockIs
  <2>3. QED
    BY <2>1, <2>2
<1>4. ASSUME NEW i \in Buffers
      PROVE  Blocks'[i] = IF i \in T THEN NoBlock ELSE Blocks[i]
  <2>1. Blocks'[i] = IF Active(i)' THEN BlockOf(arena', slots'[i]) ELSE NoBlock
    BY DEF Blocks, BlockOf, Mapped
  <2>2. i \notin T => (Active(i)' <=> Active(i))
    BY <1>2 DEF Active
  <2>3. QED
    BY <1>2, <2>1, <2>2, BlockIs
<1>5. Blocks' = [i \in Buffers |-> IF i \in T THEN NoBlock ELSE Blocks[i]]
  <2>1. Blocks' = [i \in Buffers |-> Blocks'[i]]
    BY DEF Blocks
  <2> HIDE DEF T, Blocks
  <2>2. QED
    BY <1>4, <2>1
<1>6. \A i \in Buffers : i \in T <=> Tags'[i] # Tags[i]
  BY <1>2 DEF Tags
<1> HIDE DEF T
<1>7. Store!GiveBack(T) /\ T \in SUBSET Buffers
  BY <1>3, <1>5, <1>6 DEF Store!GiveBack, Tags, T
<1>8. QED
  BY <1>7 DEF StoreStep, Store!Next

(* The bytes of a block.                                                   *)
DataOf(A, s) == [k \in 1 .. s.capacity |-> A[s.offset + k - 1]]

(* A block keeps its place and size, whatever else changes of it.          *)
LEMMA AdjustedBlock ==
  ASSUME BlocksInArena, NEW i \in Buffers, Active(i), NEW s,
         s.offset = slots[i].offset, s.capacity = slots[i].capacity,
         s.generation = slots[i].generation,
         slots' = [slots EXCEPT ![i] = s],
         \A j \in Buffers : j # i /\ Active(j) =>
           \A k \in slots[j].offset .. End(j) - 1 : arena'[k] = arena[k]
  PROVE  /\ Tags' = Tags
         /\ Blocks' = [Blocks EXCEPT ![i] = [data |-> DataOf(arena', slots[i]),
                                             length |-> s.length,
                                             mapped |-> s.map_count # 0]]
<1>1. slots \in [Buffers -> SlotType]
  BY DEF BlocksInArena, MemoryType, SlotType
<1>2. slots'[i] = s /\ \A j \in Buffers : j # i => slots'[j] = slots[j]
  BY <1>1
<1>3. \A j \in Buffers : slots'[j].generation = slots[j].generation
  BY <1>2
<1>4. Blocks' = [Blocks EXCEPT ![i] = Blocks'[i]] /\ Tags' = Tags
  BY <1>2, <1>3, OneBlockChanges
<1>5. Blocks'[i] = [data |-> DataOf(arena', slots[i]), length |-> s.length,
                    mapped |-> s.map_count # 0]
  <2>1. Blocks'[i] = IF Active(i)' THEN BlockOf(arena', slots'[i]) ELSE NoBlock
    BY DEF Blocks, BlockOf, Mapped
  <2>2. Active(i)'
    BY <1>2 DEF Active
  <2>3. PICK A, r : A = arena' /\ r = slots[i]
    OBVIOUS
  <2>4. [k \in 1 .. s.capacity |-> A[s.offset + k - 1]] = DataOf(A, r)
    BY <2>3 DEF DataOf
  <2>5. BlockOf(A, s) = [data |-> DataOf(A, r), length |-> s.length,
                         mapped |-> s.map_count # 0]
    BY <2>4 DEF BlockOf
  <2>6. QED
    BY <1>2, <2>1, <2>2, <2>3, <2>5
<1>6. QED
  BY <1>4, <1>5

LEMMA ActiveIs ==
  ASSUME NEW i \in Buffers, Active(i)
  PROVE  Blocks[i] = [data |-> DataOf(arena, slots[i]),
                      length |-> slots[i].length, mapped |-> Mapped(i)]
  BY DEF Blocks, DataOf

LEMMA SetLengthIsSetLength ==
  ASSUME BlocksInArena, NEW h \in Handle, NEW n \in Nat, mb_set_length(h, n)
  PROVE  StoreStep
<1> DEFINE i == h.index
<1>1. /\ Active(i) /\ ~Mapped(i) /\ n <= slots[i].capacity /\ i \in Buffers
      /\ slots' = [slots EXCEPT ![i].length = n] /\ UNCHANGED arena
  BY HandleIs DEF mb_set_length, Usable, Accepted
<1> HIDE DEF i
<1>2. PICK s : /\ s = [slots[i] EXCEPT !.length = n]
               /\ slots' = [slots EXCEPT ![i] = s]
  BY <1>1
<1>3. /\ s.offset = slots[i].offset /\ s.capacity = slots[i].capacity
      /\ s.generation = slots[i].generation
      /\ s.length = n /\ s.map_count = slots[i].map_count
  <2>1. slots[i] \in SlotType
    BY <1>1 DEF BlocksInArena, MemoryType, SlotType
  <2>2. QED
    BY <1>2, <2>1 DEF SlotType
<1>4. PICK d, l, B, C :
        /\ d = DataOf(arena, slots[i]) /\ l = slots[i].length
        /\ B = Blocks /\ C = Blocks'
  OBVIOUS
<1>5. B[i] = [data |-> d, length |-> l, mapped |-> FALSE]
  <2>1. Mapped(i) = FALSE
    BY <1>1 DEF Mapped
  <2>2. QED
    BY <1>1, <1>4, <2>1, ActiveIs
<1>6. Tags' = Tags /\ C = [B EXCEPT ![i] = [data |-> d, length |-> n, mapped |-> FALSE]]
  <2>1. \A j \in Buffers : j # i /\ Active(j) =>
          \A k \in slots[j].offset .. End(j) - 1 : arena'[k] = arena[k]
    BY <1>1
  <2>2. /\ Tags' = Tags
        /\ Blocks' = [Blocks EXCEPT ![i] = [data |-> DataOf(arena', slots[i]),
                                            length |-> s.length,
                                            mapped |-> s.map_count # 0]]
    <3>1. Active(i) /\ i \in Buffers /\ slots' = [slots EXCEPT ![i] = s]
      BY <1>1, <1>2
    <3>2. QED
      BY <1>3, <2>1, <3>1, AdjustedBlock
  <2>3. (s.map_count # 0) = FALSE /\ DataOf(arena', slots[i]) = d
    BY <1>1, <1>3, <1>4 DEF Mapped
  <2>4. QED
    BY <1>3, <1>4, <2>2, <2>3
<1>7. B[i] # NoBlock /\ ~B[i].mapped /\ n \in 0 .. Len(B[i].data)
  <2>1. /\ Blocks[i] # NoBlock /\ Len(Blocks[i].data) = slots[i].capacity
        /\ Blocks[i].mapped = Mapped(i)
    BY <1>1, ActiveBlock
  <2>2. slots[i].capacity \in Nat
    BY <1>1, MemoryAssumption DEF BlocksInArena, MemoryType
  <2>3. QED
    BY <1>1, <1>4, <2>1, <2>2
<1>8. C = [B EXCEPT ![i].length = n]
  <2>1. PICK x, y : x = B[i] /\ y = [data |-> d, length |-> n, mapped |-> FALSE]
    OBVIOUS
  <2>2. \A v, f : [[data |-> d, length |-> l, mapped |-> f] EXCEPT !.length = v]
                   = [data |-> d, length |-> v, mapped |-> f]
    OBVIOUS
  <2>3. y = [x EXCEPT !.length = n]
    BY <1>5, <2>1, <2>2
  <2>4. QED
    BY <1>6, <2>1, <2>3
<1>9. Store!SetLength(i)
  BY <1>4, <1>6, <1>7, <1>8 DEF Store!SetLength, Tags
<1>10. QED
  BY <1>1, <1>9 DEF StoreStep, Store!Next

LEMMA MapIsMap ==
  ASSUME BlocksInArena, NEW h \in Handle, mb_map(h) \/ mb_unmap(h)
  PROVE  StoreStep
<1> DEFINE i == h.index
<1>1. /\ Active(i) /\ i \in Buffers /\ UNCHANGED arena
  BY HandleIs DEF mb_map, mb_unmap, Usable, Accepted
<1> HIDE DEF i
<1>2. slots[i] \in SlotType
  BY <1>1 DEF BlocksInArena, MemoryType, SlotType
<1>3. PICK m : /\ slots' = [slots EXCEPT ![i].map_count = m]
               /\ \/ ~Mapped(i) /\ m = 1
                  \/ Mapped(i) /\ m = 0
  <2>1. CASE mb_map(h)
    BY <2>1 DEF mb_map, Usable, i
  <2>2. CASE mb_unmap(h)
    <3>1. slots[i].map_count - 1 = 0
      BY <1>2, <2>2 DEF mb_unmap, Mapped, SlotType, i
    <3>2. slots' = [slots EXCEPT ![i].map_count = slots[i].map_count - 1] /\ Mapped(i)
      BY <2>2 DEF mb_unmap, i
    <3>3. QED
      BY <3>1, <3>2
  <2>3. QED
    BY <2>1, <2>2
<1>4. PICK s : /\ s = [slots[i] EXCEPT !.map_count = m]
               /\ slots' = [slots EXCEPT ![i] = s]
  BY <1>3
<1>5. /\ s.offset = slots[i].offset /\ s.capacity = slots[i].capacity
      /\ s.generation = slots[i].generation
      /\ s.length = slots[i].length /\ s.map_count = m
  BY <1>2, <1>4 DEF SlotType
<1>6. PICK d, l, r, q, B, C :
        /\ d = DataOf(arena, slots[i]) /\ l = slots[i].length /\ r = (s.map_count # 0)
        /\ q = Mapped(i) /\ B = Blocks /\ C = Blocks'
  OBVIOUS
<1>7. B[i] = [data |-> d, length |-> l, mapped |-> q] /\ B[i] # NoBlock
  <2>1. Blocks[i] # NoBlock
    BY <1>1, ActiveBlock
  <2>2. QED
    BY <1>1, <1>6, <2>1, ActiveIs
<1>8. Tags' = Tags /\ C = [B EXCEPT ![i] = [data |-> d, length |-> l, mapped |-> r]]
  <2>1. \A j \in Buffers : j # i /\ Active(j) =>
          \A k \in slots[j].offset .. End(j) - 1 : arena'[k] = arena[k]
    BY <1>1
  <2>2. /\ Tags' = Tags
        /\ Blocks' = [Blocks EXCEPT ![i] = [data |-> DataOf(arena', slots[i]),
                                            length |-> s.length,
                                            mapped |-> s.map_count # 0]]
    <3>1. Active(i) /\ i \in Buffers /\ slots' = [slots EXCEPT ![i] = s]
      BY <1>1, <1>4
    <3>2. QED
      BY <1>5, <2>1, <3>1, AdjustedBlock
  <2>3. DataOf(arena', slots[i]) = d
    BY <1>1, <1>6
  <2>4. QED
    BY <1>5, <1>6, <2>2, <2>3
<1>9. ASSUME NEW v, r = v PROVE C = [B EXCEPT ![i].mapped = v]
  <2>1. PICK x, y : x = B[i] /\ y = [data |-> d, length |-> l, mapped |-> v]
    OBVIOUS
  <2>2. y = [x EXCEPT !.mapped = v]
    BY <1>7, <2>1
  <2>3. QED
    BY <1>8, <1>9, <2>1, <2>2
<1>10. CASE ~Mapped(i) /\ m = 1
  <2>1. r = TRUE /\ q = FALSE
    <3>1. s.map_count # 0 /\ ~Mapped(i)
      BY <1>5, <1>10
    <3>2. (s.map_count # 0) = TRUE /\ Mapped(i) = FALSE
      BY <3>1 DEF Mapped
    <3>3. QED
      BY <1>6, <3>2
  <2>2. ~B[i].mapped /\ C = [B EXCEPT ![i].mapped = TRUE]
    <3>1. B[i].mapped = q
      BY <1>7
    <3>2. C = [B EXCEPT ![i].mapped = TRUE]
      BY <1>9, <2>1
    <3>3. QED
      BY <2>1, <3>1, <3>2
  <2>3. Store!Map(i)
    BY <1>6, <1>7, <1>8, <2>2 DEF Store!Map, Tags
  <2>4. QED
    BY <1>1, <2>3 DEF StoreStep, Store!Next
<1>11. CASE Mapped(i) /\ m = 0
  <2>1. r = FALSE /\ q = TRUE
    <3>1. s.map_count = 0 /\ Mapped(i)
      BY <1>5, <1>11
    <3>2. (s.map_count # 0) = FALSE /\ Mapped(i) = TRUE
      BY <3>1 DEF Mapped
    <3>3. QED
      BY <1>6, <3>2
  <2>2. B[i].mapped /\ C = [B EXCEPT ![i].mapped = FALSE]
    BY <1>7, <1>9, <2>1
  <2>3. Store!Unmap(i)
    BY <1>6, <1>7, <1>8, <2>2 DEF Store!Unmap, Tags
  <2>4. QED
    BY <1>1, <2>3 DEF StoreStep, Store!Next
<1>12. QED
  BY <1>3, <1>10, <1>11

(* Bytes stored in a block, seen in the block.                             *)
LEMMA StoredData ==
  ASSUME NEW s \in SlotType, s.offset + s.capacity <= ArenaLen,
         NEW from \in Nat, NEW n \in Nat, NEW b, NEW first \in Nat, NEW last \in Nat,
         0 < first, from = s.offset + first - 1, last = first + n - 1,
         NEW A, A = Stored(from, n, b)
  PROVE  \A k \in 1 .. s.capacity :
           DataOf(A, s)[k] = IF k \in first .. last THEN b ELSE DataOf(arena, s)[k]
<1>1. s.offset \in Nat /\ s.capacity \in Nat /\ ArenaLen \in Nat
  BY MemoryAssumption DEF SlotType
<1>2. ASSUME NEW k \in 1 .. s.capacity
      PROVE  A[s.offset + k - 1] = IF k \in first .. last THEN b ELSE DataOf(arena, s)[k]
  <2>1. PICK j : j = s.offset + k - 1
    OBVIOUS
  <2>2. /\ j \in 0 .. ArenaLen - 1
        /\ (j \in from .. from + n - 1) <=> (k \in first .. last)
    BY <1>1, <2>1
  <2>3. A[j] = IF j \in from .. from + n - 1 THEN b ELSE arena[j]
    BY <2>2 DEF Stored
  <2>4. DataOf(arena, s)[k] = arena[j]
    BY <2>1 DEF DataOf
  <2>5. QED
    BY <2>1, <2>2, <2>3, <2>4
<1>3. DataOf(A, s) = [k \in 1 .. s.capacity |-> A[s.offset + k - 1]]
  BY DEF DataOf
<1>4. QED
  BY <1>2, <1>3

LEMMA WriteIsWrite ==
  ASSUME BlocksInArena, NEW h \in Handle, NEW offset \in Nat, NEW n \in 0 .. ArenaLen,
         NEW b \in Byte, mb_write(h, offset, n, b)
  PROVE  StoreStep
<1> DEFINE i == h.index
           first == offset + 1
           last == first + n - 1
<1>1. /\ Active(i) /\ i \in Buffers /\ ~Mapped(i) /\ offset + n <= slots[i].capacity
      /\ arena' = Stored(slots[i].offset + offset, n, b)
  BY HandleIs DEF mb_write, Usable, Accepted, checked_range
<1>2. slots' = [slots EXCEPT ![i].length = IF slots[i].length < offset + n THEN offset + n
                                           ELSE slots[i].length]
  BY DEF mb_write
<1> HIDE DEF i
<1>3. slots[i] \in SlotType /\ slots[i].offset + slots[i].capacity <= ArenaLen
  BY <1>1 DEF BlocksInArena, MemoryType, SlotType, End
<1>4. /\ slots[i].offset \in Nat /\ slots[i].capacity \in Nat /\ ArenaLen \in Nat
      /\ slots[i].length \in Nat /\ n \in Nat
  BY <1>3, MemoryAssumption DEF SlotType
<1>5. last = offset + n
  BY <1>4
<1>6. PICK m : m = IF slots[i].length < last THEN last ELSE slots[i].length
  OBVIOUS
<1>7. PICK s : /\ s = [slots[i] EXCEPT !.length = m]
               /\ slots' = [slots EXCEPT ![i] = s]
  BY <1>2, <1>5, <1>6
<1>8. /\ s.offset = slots[i].offset /\ s.capacity = slots[i].capacity
      /\ s.generation = slots[i].generation
      /\ s.length = m /\ s.map_count = slots[i].map_count
  BY <1>3, <1>7 DEF SlotType
<1>9. PICK d, e, l, B, C :
        /\ d = DataOf(arena, slots[i]) /\ e = DataOf(arena', slots[i])
        /\ l = slots[i].length /\ B = Blocks /\ C = Blocks'
  OBVIOUS
<1>10. B[i] = [data |-> d, length |-> l, mapped |-> FALSE]
  <2>1. Mapped(i) = FALSE
    BY <1>1 DEF Mapped
  <2>2. QED
    BY <1>1, <1>9, <2>1, ActiveIs
<1>11. Tags' = Tags /\ C = [B EXCEPT ![i] = [data |-> e, length |-> m, mapped |-> FALSE]]
  <2>1. ASSUME NEW j \in Buffers, j # i, Active(j)
        PROVE  \A k \in slots[j].offset .. End(j) - 1 : arena'[k] = arena[k]
    <3>1. PICK from \in Nat : from = slots[i].offset + offset
      BY <1>4
    <3>2. slots[i].offset <= from /\ from + n <= End(i) /\ arena' = Stored(from, n, b)
      BY <1>1, <1>4, <3>1 DEF End
    <3>3. QED
      BY <1>1, <1>4, <2>1, <3>2, OthersApart
  <2>2. /\ Active(i) /\ i \in Buffers /\ slots' = [slots EXCEPT ![i] = s]
        /\ s.offset = slots[i].offset /\ s.capacity = slots[i].capacity
        /\ s.generation = slots[i].generation
    BY <1>1, <1>7, <1>8
  <2>3. /\ Tags' = Tags
        /\ Blocks' = [Blocks EXCEPT ![i] = [data |-> DataOf(arena', slots[i]),
                                            length |-> s.length,
                                            mapped |-> s.map_count # 0]]
    <3>1. \A j \in Buffers : j # i /\ Active(j) =>
            \A k \in slots[j].offset .. End(j) - 1 : arena'[k] = arena[k]
      BY <2>1
    <3>2. QED
      BY <2>2, <3>1, AdjustedBlock
  <2>4. (s.map_count # 0) = FALSE
    BY <1>1, <1>8 DEF Mapped
  <2>5. QED
    BY <1>8, <1>9, <2>3, <2>4
<1>12. e = [k \in DOMAIN d |-> IF k \in first .. last THEN b ELSE d[k]]
  <2>0. PICK A : A = arena'
    OBVIOUS
  <2>1. PICK r \in SlotType : r = slots[i]
    BY <1>3
  <2>2. \A k \in 1 .. r.capacity :
          DataOf(A, r)[k] = IF k \in first .. last THEN b ELSE DataOf(arena, r)[k]
    <3>1. PICK from \in Nat : from = slots[i].offset + offset
      BY <1>4
    <3>2. /\ r.offset + r.capacity <= ArenaLen /\ A = Stored(from, n, b)
          /\ from = r.offset + first - 1 /\ first \in Nat /\ 0 < first
          /\ n \in Nat /\ last \in Nat
      BY <1>1, <1>3, <1>4, <2>0, <2>1, <3>1
    <3>3. last = first + n - 1
      OBVIOUS
    <3> HIDE DEF first, last
    <3>4. QED
      BY <3>2, <3>3, StoredData
  <2>3. DOMAIN d = 1 .. r.capacity /\ e = [k \in 1 .. r.capacity |-> e[k]]
    BY <1>9, <2>1 DEF DataOf
  <2>4. d = DataOf(arena, r) /\ e = DataOf(A, r)
    BY <1>9, <2>0, <2>1
  <2> HIDE DEF first, last
  <2>5. \A k \in 1 .. r.capacity : e[k] = IF k \in first .. last THEN b ELSE d[k]
    BY <2>2, <2>4
  <2>6. [k \in 1 .. r.capacity |-> e[k]]
          = [k \in 1 .. r.capacity |-> IF k \in first .. last THEN b ELSE d[k]]
    BY <2>5
  <2>7. QED
    BY <2>3, <2>6
<1>13. B[i] # NoBlock /\ Len(B[i].data) = slots[i].capacity
  BY <1>1, <1>9, ActiveBlock
<1>14. first \in 1 .. Len(B[i].data) + 1 /\ last <= Len(B[i].data)
  <2>1. first \in 1 .. slots[i].capacity + 1 /\ last <= slots[i].capacity
    BY <1>1, <1>4, <1>5
  <2>2. QED
    BY <1>13, <2>1
<1>15. /\ B[i].data = d /\ B[i].length = l /\ B[i].mapped = FALSE
  BY <1>10
<1> HIDE DEF first, last
<1>16. C = [B EXCEPT ![i] =
              [data |-> [k \in DOMAIN @.data |-> IF k \in first .. last THEN b ELSE @.data[k]],
               length |-> IF @.length < last THEN last ELSE @.length,
               mapped |-> FALSE]]
  BY <1>6, <1>9, <1>11, <1>12, <1>15
<1>17. ~B[i].mapped
  BY <1>15
<1>18. Store!Write(i)
  <2>1. /\ first + n - 1 <= Len(B[i].data)
        /\ C = [B EXCEPT ![i] =
             [data |-> [j \in DOMAIN @.data |-> IF j \in first .. first + n - 1 THEN b
                                               ELSE @.data[j]],
              length |-> IF @.length < first + n - 1 THEN first + n - 1 ELSE @.length,
              mapped |-> FALSE]]
    BY <1>14, <1>16 DEF last
  <2> DEFINE Written(X, Y) ==
        \E f \in 1 .. Len(X[i].data) + 1, k \in 0 .. ArenaLen, c \in Byte :
          /\ f + k - 1 <= Len(X[i].data)
          /\ Y = [X EXCEPT ![i] =
               [data |-> [j \in DOMAIN @.data |-> IF j \in f .. f + k - 1 THEN c ELSE @.data[j]],
                length |-> IF @.length < f + k - 1 THEN f + k - 1 ELSE @.length,
                mapped |-> FALSE]]
  <2>2. Written(B, C)
    <3> USE <1>14
    <3> WITNESS first \in 1 .. Len(B[i].data) + 1, n \in 0 .. ArenaLen, b \in Byte
    <3>1. QED
      BY <2>1
  <2> HIDE DEF Written
  <2>3. Written(Blocks, Blocks')
    BY <1>9, <2>2
  <2>4. Blocks[i] # NoBlock /\ ~Blocks[i].mapped /\ Tags' = Tags
    BY <1>9, <1>11, <1>13, <1>17
  <2>5. QED
    BY <2>3, <2>4 DEF Store!Write, Tags, Written
<1>19. QED
  BY <1>1, <1>18 DEF StoreStep, Store!Next

LEMMA MappedStoreIsChange ==
  ASSUME BlocksInArena, NEW h \in Handle, NEW offset \in Nat, NEW b \in Byte,
         MappedStore(h, offset, b)
  PROVE  StoreStep
<1> DEFINE i == h.index
           first == offset + 1
<1>1. /\ Active(i) /\ i \in Buffers /\ Mapped(i) /\ offset < slots[i].capacity
      /\ arena' = Stored(slots[i].offset + offset, 1, b) /\ slots' = slots
  BY HandleIs DEF MappedStore, Accepted
<1> HIDE DEF i
<1>2. /\ slots[i] \in SlotType /\ slots[i].offset + slots[i].capacity <= ArenaLen
      /\ slots \in [Buffers -> SlotType]
  BY <1>1 DEF BlocksInArena, MemoryType, SlotType, End
<1>3. slots[i].offset \in Nat /\ slots[i].capacity \in Nat /\ ArenaLen \in Nat
  BY <1>2, MemoryAssumption DEF SlotType
<1>4. PICK s : s = slots[i] /\ slots' = [slots EXCEPT ![i] = s]
  BY <1>1, <1>2
<1>5. PICK d, e, l, B, C :
        /\ d = DataOf(arena, slots[i]) /\ e = DataOf(arena', slots[i])
        /\ l = slots[i].length /\ B = Blocks /\ C = Blocks'
  OBVIOUS
<1>6. B[i] = [data |-> d, length |-> l, mapped |-> TRUE]
  <2>1. Mapped(i) = TRUE
    BY <1>1 DEF Mapped
  <2>2. QED
    BY <1>1, <1>5, <2>1, ActiveIs
<1>7. Tags' = Tags /\ C = [B EXCEPT ![i] = [data |-> e, length |-> l, mapped |-> TRUE]]
  <2>1. ASSUME NEW j \in Buffers, j # i, Active(j)
        PROVE  \A k \in slots[j].offset .. End(j) - 1 : arena'[k] = arena[k]
    <3>1. PICK from \in Nat : from = slots[i].offset + offset
      BY <1>3
    <3>2. slots[i].offset <= from /\ from + 1 <= End(i) /\ arena' = Stored(from, 1, b)
      BY <1>1, <1>3, <3>1 DEF End
    <3>3. QED
      BY <1>1, <2>1, <3>2, OthersApart
  <2>2. /\ Active(i) /\ i \in Buffers /\ slots' = [slots EXCEPT ![i] = s]
        /\ s.offset = slots[i].offset /\ s.capacity = slots[i].capacity
        /\ s.generation = slots[i].generation
    BY <1>1, <1>4
  <2>3. /\ Tags' = Tags
        /\ Blocks' = [Blocks EXCEPT ![i] = [data |-> DataOf(arena', slots[i]),
                                            length |-> s.length,
                                            mapped |-> s.map_count # 0]]
    <3>1. \A j \in Buffers : j # i /\ Active(j) =>
            \A k \in slots[j].offset .. End(j) - 1 : arena'[k] = arena[k]
      BY <2>1
    <3>2. QED
      BY <2>2, <3>1, AdjustedBlock
  <2>4. (s.map_count # 0) = TRUE
    BY <1>1, <1>4 DEF Mapped
  <2>5. QED
    BY <1>4, <1>5, <2>3, <2>4
<1>8. e = [d EXCEPT ![first] = b] /\ first \in DOMAIN d
  <2>0. PICK A : A = arena'
    OBVIOUS
  <2>1. PICK r \in SlotType : r = slots[i]
    BY <1>2
  <2>2. \A k \in 1 .. r.capacity :
          DataOf(A, r)[k] = IF k \in first .. first THEN b ELSE DataOf(arena, r)[k]
    <3>1. PICK from \in Nat : from = slots[i].offset + offset
      BY <1>3
    <3>2. /\ r.offset + r.capacity <= ArenaLen /\ A = Stored(from, 1, b)
          /\ from = r.offset + first - 1 /\ first \in Nat /\ 0 < first
          /\ first = first + 1 - 1 /\ 1 \in Nat
      BY <1>1, <1>2, <1>3, <2>0, <2>1, <3>1
    <3> HIDE DEF first
    <3>3. QED
      BY <3>2, StoredData
  <2>3. /\ DOMAIN d = 1 .. r.capacity /\ d = [k \in 1 .. r.capacity |-> d[k]]
        /\ e = [k \in 1 .. r.capacity |-> e[k]]
    BY <1>5, <2>1 DEF DataOf
  <2>4. r.capacity \in Nat /\ offset < r.capacity
    BY <1>1, <1>3, <2>1
  <2>5. \A k \in 1 .. r.capacity : k \in first .. first <=> k = first
    BY <2>4
  <2>6. e = [k \in 1 .. r.capacity |-> IF k = first THEN b ELSE d[k]]
    BY <1>5, <2>0, <2>1, <2>2, <2>3, <2>5
  <2>7. first \in 1 .. r.capacity
    BY <2>4
  <2> HIDE DEF first
  <2>8. QED
    BY <2>3, <2>6, <2>7
<1> HIDE DEF first
<1>9. B[i] # NoBlock /\ B[i].data = d
  <2>1. Blocks[i] # NoBlock
    BY <1>1, ActiveBlock
  <2>2. B[i].data = d
    BY <1>6
  <2>3. QED
    BY <1>5, <2>1, <2>2
<1>10. B[i].mapped
  BY <1>6
<1>11. C = [B EXCEPT ![i].data[first] = b]
  <2>1. PICK x, y : x = B[i] /\ y = [data |-> e, length |-> l, mapped |-> TRUE]
    OBVIOUS
  <2>2. \A f : [[data |-> d, length |-> l, mapped |-> f] EXCEPT !.data = e]
                 = [data |-> e, length |-> l, mapped |-> f]
    OBVIOUS
  <2>3. y = [x EXCEPT !.data = e]
    BY <1>6, <2>1, <2>2
  <2>4. C = [B EXCEPT ![i] = [x EXCEPT !.data = [d EXCEPT ![first] = b]]]
    BY <1>7, <1>8, <2>1, <2>3
  <2>5. QED
    BY <1>9, <2>1, <2>4
<1>12. Store!ChangeMapped(i)
  <2>1. \E k \in DOMAIN B[i].data, c \in Byte : C = [B EXCEPT ![i].data[k] = c]
    <3>1. first \in DOMAIN B[i].data
      BY <1>8, <1>9
    <3> WITNESS first \in DOMAIN B[i].data, b \in Byte
    <3>2. QED
      BY <1>11
  <2>2. /\ Blocks[i] # NoBlock /\ Blocks[i].mapped /\ Tags' = Tags
        /\ \E k \in DOMAIN Blocks[i].data, c \in Byte :
             Blocks' = [Blocks EXCEPT ![i].data[k] = c]
    <3>1. Blocks[i] # NoBlock /\ Blocks[i].mapped /\ Tags' = Tags
      BY <1>5, <1>7, <1>9, <1>10
    <3>2. PICK k \in DOMAIN B[i].data, c \in Byte : C = [B EXCEPT ![i].data[k] = c]
      BY <2>1
    <3>3. k \in DOMAIN Blocks[i].data /\ Blocks' = [Blocks EXCEPT ![i].data[k] = c]
      BY <1>5, <3>2
    <3>4. QED
      BY <3>1, <3>3
  <2>3. QED
    BY <2>2 DEF Store!ChangeMapped, Tags
<1>13. QED
  BY <1>1, <1>12 DEF StoreStep, Store!Next

LEMMA FreeIsGiveBack ==
  ASSUME BlocksInArena, NEW h, mb_free(h)
  PROVE  StoreStep
<1>1. MemoryType
  BY DEF BlocksInArena
<1>2. PICK S : S = {h.index}
  OBVIOUS
<1>3. /\ slots' = [i \in Buffers |-> IF i \in S THEN Freed(slots[i]) ELSE slots[i]]
      /\ UNCHANGED arena
  BY <1>1, <1>2, FreeIsGivingBack
<1>4. \A i \in S : ~Mapped(i)
  BY <1>2 DEF mb_free, Usable
<1>5. QED
  BY <1>3, <1>4, FreedIsGiveBack

LEMMA InitStore == Init => Store!Init
<1> SUFFICES ASSUME Init PROVE Store!Init
  OBVIOUS
<1>1. \A i \in Buffers : slots[i] = EmptySlot
  BY DEF Init, mb_init
<1>2. \A i \in Buffers : ~Active(i) /\ slots[i].generation = 1
  BY <1>1 DEF Active, EmptySlot
<1>3. Blocks = [i \in Buffers |-> NoBlock]
  BY <1>2 DEF Blocks
<1>4. QED
  BY <1>2, <1>3 DEF Store!Init

LEMMA NextStore ==
  ASSUME BlocksInArena, BlocksInArena', BufferType, [Next]_vars
  PROVE  StoreStep
<1>1. ASSUME UNCHANGED memoryVars PROVE StoreStep
  <2>1. arena' = arena /\ slots' = slots
    BY <1>1 DEF memoryVars
  <2>2. Blocks' = Blocks /\ Tags' = Tags
    BY <2>1 DEF Blocks, Tags, Active, Mapped
  <2>3. QED
    BY <2>2 DEF StoreStep
<1>2. ASSUME NEW m \in Envelope, NEW length \in 1 .. ArenaLen, NEW b \in Byte,
             message_create_copy(m, length, b)
      PROVE  StoreStep
  <2>1. PICK i \in Buffers, c \in 0 .. ArenaLen :
          /\ FreeSlot(i) /\ find_region(c, length)
          /\ slots' = [slots EXCEPT ![i] =
                         [AllocatedSlot(i, c, length) EXCEPT !.length = length]]
          /\ arena' = Stored(c, length, b)
    BY <1>2 DEF message_create_copy
  <2>2. PICK n : slots' = [slots EXCEPT ![i] =
                             [AllocatedSlot(i, c, length) EXCEPT !.length = n]]
    BY <2>1
  <2>3. FreeSlot(i) /\ find_region(c, length)
    BY <2>1
  <2>4. \A k \in 0 .. ArenaLen - 1 : k \in c .. c + length - 1 \/ arena'[k] = arena[k]
    BY <2>1 DEF Stored
  <2>5. QED
    BY <2>2, <2>3, <2>4, PlacedIsCreate
<1>3. ASSUME NEW m \in Envelope, message_release(m) PROVE StoreStep
  BY <1>3, FreeIsGiveBack DEF message_release
<1>4. ASSUME NEW m \in Envelope, queue_push_move(m) \/ queue_pop_move(m)
      PROVE  StoreStep
  BY <1>1, <1>4 DEF queue_push_move, queue_pop_move
<1>5. CASE queue_release_all
  <2> DEFINE handle(k) == Items(queue)[k].handle
             mine(n) == {handle(k).index : k \in 1 .. n}
  <2>1. PICK n \in 1 .. queue.count :
          /\ \A k \in 1 .. n : Usable(handle(k))
          /\ slots' = [i \in Buffers |-> IF i \in mine(n) THEN Freed(slots[i]) ELSE slots[i]]
          /\ UNCHANGED arena
    BY <1>5 DEF queue_release_all
  <2>2. \A i \in mine(n) : ~Mapped(i)
    BY <2>1 DEF Usable
  <2> HIDE DEF mine
  <2>3. QED
    BY <2>1, <2>2, FreedIsGiveBack
<1>6. CASE DirectAlloc
  <2>1. PICK capacity \in 1 .. ArenaLen, h \in Handle : mb_alloc(capacity, h)
    BY <1>6 DEF DirectAlloc
  <2>2. PICK i \in Buffers : i = h.index
    BY HandleIs
  <2>3. PICK c \in 0 .. ArenaLen :
          /\ FreeSlot(i) /\ find_region(c, capacity)
          /\ slots' = [slots EXCEPT ![i] = AllocatedSlot(i, c, capacity)]
          /\ UNCHANGED arena
    BY <2>1, <2>2 DEF mb_alloc
  <2>4. PICK n : slots' = [slots EXCEPT ![i] =
                             [AllocatedSlot(i, c, capacity) EXCEPT !.length = n]]
    <3>1. [AllocatedSlot(i, c, capacity) EXCEPT !.length = 0] = AllocatedSlot(i, c, capacity)
      BY DEF AllocatedSlot
    <3>2. QED
      BY <2>3, <3>1
  <2>5. FreeSlot(i) /\ find_region(c, capacity)
    BY <2>3
  <2>6. \A k \in 0 .. ArenaLen - 1 : k \in c .. c + capacity - 1 \/ arena'[k] = arena[k]
    BY <2>3
  <2>7. QED
    BY <2>4, <2>5, <2>6, PlacedIsCreate
<1>7. CASE DirectFree
  BY <1>7, FreeIsGiveBack DEF DirectFree
<1>8. CASE DirectForget
  BY <1>1, <1>8 DEF DirectForget
<1>9. CASE DirectChange
  <2>1. PICK h \in direct, n \in 0 .. ArenaLen :
          \/ mb_set_length(h, n)
          \/ \E offset \in 0 .. ArenaLen, b \in Byte : mb_write(h, offset, n, b)
          \/ \E b \in Byte : MappedStore(h, n, b)
    BY <1>9 DEF DirectChange
  <2>2. h \in Handle /\ n \in Nat /\ \A k \in 0 .. ArenaLen : k \in Nat
    BY MemoryAssumption DEF BufferType
  <2>3. CASE mb_set_length(h, n)
    BY <2>2, <2>3, SetLengthIsSetLength
  <2>4. ASSUME NEW offset \in 0 .. ArenaLen, NEW b \in Byte, mb_write(h, offset, n, b)
        PROVE  StoreStep
    BY <2>2, <2>4, WriteIsWrite
  <2>5. ASSUME NEW b \in Byte, MappedStore(h, n, b) PROVE StoreStep
    BY <2>2, <2>5, MappedStoreIsChange
  <2>6. QED
    BY <2>1, <2>3, <2>4, <2>5
<1>10. CASE MapOrUnmap
  <2>1. PICK h \in Remembered : mb_map(h) \/ mb_unmap(h)
    BY <1>10 DEF MapOrUnmap
  <2>2. h \in Handle
    BY RememberedHandles
  <2>3. QED
    BY <2>1, <2>2, MapIsMap
<1>11. CASE Reset
  <2>1. /\ \A i \in Buffers : ~Mapped(i)
        /\ slots' = [i \in Buffers |-> IF i \in Buffers THEN Freed(slots[i]) ELSE slots[i]]
        /\ UNCHANGED arena
    BY <1>11 DEF Reset, mb_reset
  <2>2. QED
    BY <2>1, FreedIsGiveBack
<1>12. QED
  BY <1>1, <1>2, <1>3, <1>4, <1>5, <1>6, <1>7, <1>8, <1>9, <1>10, <1>11
     DEF Next, vars

(* First fit, the generation of a slot and the arithmetic of offsets give  *)
(* what BlockStore promises: whatever is done through one handle, by an    *)
(* envelope or by the application, changes that block alone, a mapped      *)
(* block changes through its mapping only, and the generation of a slot    *)
(* changes exactly when its block is given back.                           *)
THEOREM BlocksAreSeparate == Spec => ImplementsBlocks
<1>1. Spec => [](BlocksInArena /\ BufferType)
  BY InitOwned, NextOwned, PTL DEF Spec, OwnedInv
<1>2. BlocksInArena /\ BlocksInArena' /\ BufferType /\ [Next]_vars => StoreStep
  BY NextStore
<1>3. ImplementsBlocks <=> Store!Init /\ [][Store!Next]_<<Blocks, Tags>>
  BY DEF ImplementsBlocks, Store!Spec, Tags
<1>4. QED
  BY <1>1, <1>2, <1>3, InitStore, PTL DEF Spec, StoreStep
=============================================================================
