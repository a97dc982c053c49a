---------------------------- MODULE MemoryBuffer ----------------------------
(***************************************************************************)
(* mb_context_t (memory-buffer/src/buffer.rs): an arena of bytes handed    *)
(* out in blocks, and a table of slots that say where each lies. A handle  *)
(* names a slot and the generation the slot had; calls are serialised, and *)
(* one that is refused changes nothing. Arguments are valid pointers.      *)
(***************************************************************************)
EXTENDS Naturals

CONSTANTS
  MaxBuffers,      \* MB_MAX_BUFFERS
  ArenaLen,
  MaxGeneration,   \* 0x00FFFFFF, scaled down
  Byte,
  NoBlock,         \* stands for the block of a free slot, see Blocks
  Unwritten        \* what the arena holds before the first write

ASSUME MemoryAssumption ==
  /\ MaxBuffers \in Nat \ {0} /\ ArenaLen \in Nat \ {0}
  /\ MaxGeneration \in Nat \ {0, 1}
  /\ Unwritten \in Byte

Buffers == 1 .. MaxBuffers
Handle == [index : Buffers, generation : 1 .. MaxGeneration]

VARIABLES arena, slots

memoryVars == <<arena, slots>>

INVALID_OFFSET == ArenaLen

EmptySlot ==
  [offset |-> INVALID_OFFSET, length |-> 0, capacity |-> 0,
   generation |-> 1, map_count |-> 0]

mb_init ==
  /\ arena = [k \in 0 .. ArenaLen - 1 |-> Unwritten]
  /\ slots = [i \in Buffers |-> EmptySlot]

Active(i) == slots[i].offset # INVALID_OFFSET
End(i) == slots[i].offset + slots[i].capacity
Mapped(i) == slots[i].map_count # 0

HandleOf(i) == [index |-> i, generation |-> slots[i].generation]

(* slot_for_handle() and decode_handle().                                  *)
Accepted(h) ==
  /\ h.generation # 0
  /\ Active(h.index) /\ slots[h.index].generation = h.generation

next_generation(g) == IF (g + 1) % (MaxGeneration + 1) = 0 THEN 1 ELSE g + 1

(* A slot that is given back.                                              *)
Freed(s) ==
  [s EXCEPT !.offset = INVALID_OFFSET, !.length = 0, !.capacity = 0,
            !.generation = next_generation(@)]

-----------------------------------------------------------------------------
(* mb_alloc(): the first free slot, and the first gap between blocks that  *)
(* is large enough.                                                        *)

FreeSlot(i) == ~Active(i) /\ \A j \in Buffers : j < i => Active(j)

(* Mistake: a block that begins at the candidate is overlooked.            *)
FitsTouching(c, capacity) ==
  /\ c + capacity <= ArenaLen
  /\ \A i \in Buffers :
       Active(i) /\ slots[i].offset > c => c + capacity <= slots[i].offset

Fits(c, capacity) ==
  /\ c + capacity <= ArenaLen
  /\ \A i \in Buffers :
       Active(i) /\ slots[i].offset >= c => c + capacity <= slots[i].offset

(* The loop tries offset 0 and then the end of one block after another.    *)
Candidates == {0} \cup {End(i) : i \in {j \in Buffers : Active(j)}}

find_region(c, capacity) ==
  /\ c \in Candidates /\ Fits(c, capacity)
  /\ \A d \in Candidates : d < c => ~Fits(d, capacity)

AllocatedSlot(i, c, capacity) ==
  [offset |-> c, length |-> 0, capacity |-> capacity,
   generation |-> slots[i].generation, map_count |-> 0]

mb_alloc(capacity, h) ==
  /\ FreeSlot(h.index) /\ h = HandleOf(h.index)
  /\ \E c \in 0 .. ArenaLen :
       /\ find_region(c, capacity)
       /\ slots' = [slots EXCEPT ![h.index] = AllocatedSlot(h.index, c, capacity)]
  /\ UNCHANGED arena

Usable(h) == Accepted(h) /\ ~Mapped(h.index)

mb_free(h) ==
  /\ Usable(h)
  /\ slots' = [slots EXCEPT ![h.index] = Freed(@)]
  /\ UNCHANGED arena

mb_reset ==
  /\ \A i \in Buffers : ~Mapped(i)
  /\ slots' = [i \in Buffers |-> Freed(slots[i])]
  /\ UNCHANGED arena

-----------------------------------------------------------------------------

(* Mistake: the length is checked without the offset.                      *)
checked_length(offset, length, limit) == offset <= limit /\ length <= limit

checked_range(offset, length, limit) == offset + length <= limit

(* The source holds length times the byte b.                               *)
Stored(from, length, b) ==
  [k \in 0 .. ArenaLen - 1 |-> IF k \in from .. from + length - 1 THEN b ELSE arena[k]]

mb_write(h, offset, length, b) ==
  /\ Usable(h) /\ checked_range(offset, length, slots[h.index].capacity)
  /\ arena' = Stored(slots[h.index].offset + offset, length, b)
  /\ slots' = [slots EXCEPT ![h.index].length =
                 IF @ < offset + length THEN offset + length ELSE @]

mb_set_length(h, length) ==
  /\ Usable(h) /\ length <= slots[h.index].capacity
  /\ slots' = [slots EXCEPT ![h.index].length = length]
  /\ UNCHANGED arena

mb_map(h) ==
  /\ Usable(h)
  /\ slots' = [slots EXCEPT ![h.index].map_count = 1]
  /\ UNCHANGED arena

mb_unmap(h) ==
  /\ Accepted(h) /\ Mapped(h.index)
  /\ slots' = [slots EXCEPT ![h.index].map_count = @ - 1]
  /\ UNCHANGED arena

(* The borrower of a mapped block stores a byte through the pointer.       *)
MappedStore(h, offset, b) ==
  /\ Accepted(h) /\ Mapped(h.index) /\ offset < slots[h.index].capacity
  /\ arena' = Stored(slots[h.index].offset + offset, 1, b)
  /\ UNCHANGED slots

-----------------------------------------------------------------------------

MemoryType ==
  /\ arena \in [0 .. ArenaLen - 1 -> Byte]
  /\ slots \in [Buffers -> [offset : 0 .. ArenaLen, length : 0 .. ArenaLen,
                            capacity : 0 .. ArenaLen,
                            generation : 1 .. MaxGeneration, map_count : 0 .. 1]]

(* The blocks lie in the arena and apart from each other, however they     *)
(* were allocated, freed and reset.                                        *)
BlocksInArena ==
  /\ MemoryType
  /\ \A i \in Buffers :
       IF Active(i)
       THEN slots[i].length <= slots[i].capacity
              /\ 0 < slots[i].capacity /\ End(i) <= ArenaLen
       ELSE ~Mapped(i) /\ slots[i].length = 0 /\ slots[i].capacity = 0
  /\ \A i, j \in Buffers :
       i # j /\ Active(i) /\ Active(j) =>
         End(i) <= slots[j].offset \/ End(j) <= slots[i].offset

Blocks ==
  [i \in Buffers |->
     IF ~Active(i) THEN NoBlock
     ELSE [data |-> [k \in 1 .. slots[i].capacity |-> arena[slots[i].offset + k - 1]],
           length |-> slots[i].length, mapped |-> Mapped(i)]]

Store ==
  INSTANCE BlockStore WITH
    Free <- NoBlock, blocks <- Blocks, tag <- [i \in Buffers |-> slots[i].generation]

ASSUME BlockAssumption == NoBlock \notin Store!Block

(* Slots and arena implement separate blocks: no call through one handle   *)
(* is seen through another, no call changes a mapped block, and a freed    *)
(* slot's generation is no longer the one its handle names.                *)
ImplementsBlocks == Store!Spec
=============================================================================
