----------------------------- MODULE RingQueue -----------------------------
(***************************************************************************)
(* The fixed-length ring of ut_event_queue_t: a caller-owned array, the    *)
(* index of the oldest item, the index of the next free slot and a count.  *)
(* The job queue of ut_thread_pool_t is laid out and advanced in the same  *)
(* way, so both components use these operators.                            *)
(*                                                                         *)
(* A slot that was never written holds Unset: the array is the caller's    *)
(* and init does not clear it.                                             *)
(***************************************************************************)
EXTENDS Naturals, Sequences

CONSTANTS
  Item,      \* what the ring stores
  Unset,     \* the content of a slot nothing was stored in
  Capacity   \* queue->capacity

ASSUME RingAssumption == Capacity \in Nat \ {0} /\ Unset \notin Item

Index == 0 .. Capacity - 1

(* What queue_is_valid() checks of a context, with the array's type. *)
Ring ==
  [storage : [Index -> Item \cup {Unset}],
   head    : Index,
   tail    : Index,
   count   : 0 .. Capacity]

EmptyRing ==
  [storage |-> [i \in Index |-> Unset], head |-> 0, tail |-> 0, count |-> 0]

(* Mistakes the runs tell from the code: a full ring not noticed, and      *)
(* noticed one event too early.                                            *)
NeverFull(q) == FALSE
FullTooEarly(q) == q.count + 1 = Capacity

IsFull(q)  == q.count = Capacity
IsEmpty(q) == q.count = 0

(* Mistake: the index wraps one slot too late.                             *)
AdvanceTooFar(i) == (i + 1) % (Capacity + 1)

Advance(i) == (i + 1) % Capacity

Push(q, x) ==
  [storage |-> [q.storage EXCEPT ![q.tail] = x],
   head |-> q.head, tail |-> Advance(q.tail), count |-> q.count + 1]

Oldest(q) == q.storage[q.head]

Pop(q) ==
  [storage |-> q.storage,
   head |-> Advance(q.head), tail |-> q.tail, count |-> q.count - 1]

(* Mistake: clear forgets the tail.                                        *)
ClearHeadOnly(q) == [storage |-> q.storage, head |-> 0, tail |-> q.tail, count |-> 0]

Clear(q) == [storage |-> q.storage, head |-> 0, tail |-> 0, count |-> 0]

-----------------------------------------------------------------------------

(* The slot that holds the i-th oldest item. *)
Slot(q, i) == (q.head + i - 1) % Capacity

(* The sequence a ring stands for, oldest item first. *)
Items(q) == [i \in 1 .. q.count |-> q.storage[Slot(q, i)]]

(* queue_is_valid() does not relate the two indices to the count; every    *)
(* operation keeps them related, and nothing is Unset between them.        *)
Coherent(q) ==
  /\ q.tail = (q.head + q.count) % Capacity
  /\ \A i \in 1 .. q.count : q.storage[Slot(q, i)] \in Item
=============================================================================
