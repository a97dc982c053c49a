----------------------------- MODULE BlockStore -----------------------------
(***************************************************************************)
(* What the memory buffer promises: blocks of their own memory. What is    *)
(* done to one leaves the others alone, a mapped block changes through its *)
(* mapping only, and giving a block back invalidates its handle.           *)
(***************************************************************************)
EXTENDS Naturals, Sequences

CONSTANTS
  Buffers,
  Byte,
  ArenaLen,
  Free        \* no block

VARIABLES
  blocks,     \* each buffer's block, or Free
  tag         \* the part of a buffer's handle that freeing it changes

Block ==
  [data : UNION {[1 .. n -> Byte] : n \in 1 .. ArenaLen},
   length : 0 .. ArenaLen, mapped : BOOLEAN]

Init == blocks = [i \in Buffers |-> Free] /\ tag = [i \in Buffers |-> 1]

(* The content of a new block is anything.                                 *)
Create(i) ==
  /\ blocks[i] = Free
  /\ blocks'[i] \in Block /\ ~blocks'[i].mapped
  /\ blocks'[i].length <= Len(blocks'[i].data)
  /\ blocks' = [blocks EXCEPT ![i] = blocks'[i]]
  /\ UNCHANGED tag

Write(i) ==
  /\ blocks[i] # Free /\ ~blocks[i].mapped
  /\ \E first \in 1 .. Len(blocks[i].data) + 1, n \in 0 .. ArenaLen, b \in Byte :
       LET last == first + n - 1 IN
       /\ last <= Len(blocks[i].data)
       /\ blocks' = [blocks EXCEPT ![i] =
            [data |-> [k \in DOMAIN @.data |-> IF k \in first .. last THEN b ELSE @.data[k]],
             length |-> IF @.length < last THEN last ELSE @.length,
             mapped |-> FALSE]]
  /\ UNCHANGED tag

SetLength(i) ==
  /\ blocks[i] # Free /\ ~blocks[i].mapped
  /\ \E n \in 0 .. Len(blocks[i].data) : blocks' = [blocks EXCEPT ![i].length = n]
  /\ UNCHANGED tag

Map(i) ==
  /\ blocks[i] # Free /\ ~blocks[i].mapped
  /\ blocks' = [blocks EXCEPT ![i].mapped = TRUE]
  /\ UNCHANGED tag

ChangeMapped(i) ==
  /\ blocks[i] # Free /\ blocks[i].mapped
  /\ \E k \in DOMAIN blocks[i].data, b \in Byte :
       blocks' = [blocks EXCEPT ![i].data[k] = b]
  /\ UNCHANGED tag

Unmap(i) ==
  /\ blocks[i] # Free /\ blocks[i].mapped
  /\ blocks' = [blocks EXCEPT ![i].mapped = FALSE]
  /\ UNCHANGED tag

GiveBack(S) ==
  /\ \A i \in S : blocks[i] # Free => ~blocks[i].mapped
  /\ blocks' = [i \in Buffers |-> IF i \in S THEN Free ELSE blocks[i]]
  /\ \A i \in Buffers : i \in S <=> tag'[i] # tag[i]

Next ==
  \/ \E i \in Buffers :
       \/ Create(i) \/ Write(i) \/ SetLength(i)
       \/ Map(i) \/ ChangeMapped(i) \/ Unmap(i)
  \/ \E S \in SUBSET Buffers : GiveBack(S)

Spec == Init /\ [][Next]_<<blocks, tag>>
=============================================================================
