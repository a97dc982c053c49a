---------------------------- MODULE EventBuffer ----------------------------
(***************************************************************************)
(* ut_event_buffer_message_t: an envelope that owns a handle of a buffer   *)
(* pool, and the queue envelopes are moved through. The pool is a memory   *)
(* buffer (memory_buffer_event_adapter.c), which the application also uses *)
(* directly. The adapter forwards every call and translates its code one   *)
(* to one, so an action here calls the pool itself. One thread does it     *)
(* all; a step is one call. Rejected calls change nothing.                 *)
(*                                                                         *)
(* An envelope is its buffer_ref, or Unset when zeroed. copied is the      *)
(* content it was created with, which only the properties look at.         *)
(***************************************************************************)
EXTENDS MemoryBuffer, RingQueue, FiniteSets

CONSTANTS
  Envelope,   \* the envelopes outside the queue
  MaxDirect   \* bound: how many handles the application keeps

ASSUME EnvelopeAssumption ==
  Item = [handle : Handle, length : 1 .. ArenaLen, copied : Byte]

VARIABLES
  envelopes,
  queue,
  direct            \* the handles the application got from mb_alloc() itself
                    \* and still keeps

bufferVars == <<envelopes, queue, direct>>
vars == <<memoryVars, bufferVars>>

Init ==
  /\ mb_init
  /\ envelopes = [m \in Envelope |-> Unset]
  /\ queue = EmptyRing
  /\ direct = {}

Owned(m) == envelopes[m] # Unset

Queued == {Items(queue)[k] : k \in 1 .. queue.count}

Remembered ==
  direct \cup {e.handle : e \in Queued}
    \cup {envelopes[m].handle : m \in {n \in Envelope : Owned(n)}}

(* A handle is forgotten before its slot has been given back so often that *)
(* the generation comes round: 2^24 - 1 times in the program.              *)
ForgottenInTime(i) ==
  [index |-> i, generation |-> next_generation(slots[i].generation)] \notin Remembered

-----------------------------------------------------------------------------

(* ut_event_buffer_message_create_copy(). The write into the new block of  *)
(* the same length cannot fail with this pool.                             *)
message_create_copy(m, length, b) ==
  /\ ~Owned(m)
  /\ \E i \in Buffers, c \in 0 .. ArenaLen :
       /\ FreeSlot(i) /\ find_region(c, length)
       /\ slots' = [slots EXCEPT ![i] =
                      [AllocatedSlot(i, c, length) EXCEPT !.length = length]]
       /\ arena' = Stored(c, length, b)
       /\ envelopes' = [envelopes EXCEPT ![m] =
                          [handle |-> HandleOf(i), length |-> length, copied |-> b]]
  /\ UNCHANGED <<queue, direct>>

(* A release that fails leaves the envelope as it is.                      *)
message_release(m) ==
  /\ Owned(m) /\ ForgottenInTime(envelopes[m].handle.index)
  /\ mb_free(envelopes[m].handle)
  /\ envelopes' = [envelopes EXCEPT ![m] = Unset]
  /\ UNCHANGED <<queue, direct>>

(* Mistake: the source is left as it was.                                  *)
queue_push_copy(m) ==
  /\ Owned(m) /\ ~IsFull(queue)
  /\ queue' = Push(queue, envelopes[m])
  /\ UNCHANGED <<memoryVars, envelopes, direct>>

queue_push_move(m) ==
  /\ Owned(m) /\ ~IsFull(queue)
  /\ queue' = Push(queue, envelopes[m])
  /\ envelopes' = [envelopes EXCEPT ![m] = Unset]
  /\ UNCHANGED <<memoryVars, direct>>

queue_pop_move(m) ==
  /\ ~Owned(m) /\ ~IsEmpty(queue)
  /\ envelopes' = [envelopes EXCEPT ![m] = Oldest(queue)]
  /\ queue' = [Pop(queue) EXCEPT !.storage[queue.head] = Unset]
  /\ UNCHANGED <<memoryVars, direct>>

(* ut_event_buffer_queue_release_all() frees from the oldest on, up to the *)
(* first that cannot be freed.                                             *)
queue_release_all ==
  LET handle(k) == Items(queue)[k].handle
      CanFree(k) == Usable(handle(k)) /\ \A j \in 1 .. k - 1 : handle(j) # handle(k)
      mine(n) == {handle(k).index : k \in 1 .. n}
  IN \E n \in 1 .. queue.count :
       /\ \A k \in 1 .. n : CanFree(k) /\ ForgottenInTime(handle(k).index)
       /\ n < queue.count => ~CanFree(n + 1)
       /\ slots' = [i \in Buffers |-> IF i \in mine(n) THEN Freed(slots[i]) ELSE slots[i]]
       /\ queue' = [storage |-> [i \in Index |-> IF \E k \in 1 .. n : Slot(queue, k) = i
                                                 THEN Unset ELSE queue.storage[i]],
                    head |-> (queue.head + n) % Capacity, tail |-> queue.tail,
                    count |-> queue.count - n]
       /\ UNCHANGED <<arena, envelopes, direct>>

-----------------------------------------------------------------------------
(* The application on the memory buffer.                                   *)

DirectAlloc ==
  /\ Cardinality(direct) < MaxDirect
  /\ \E capacity \in 1 .. ArenaLen, h \in Handle :
       mb_alloc(capacity, h) /\ direct' = direct \cup {h}
  /\ UNCHANGED <<envelopes, queue>>

(* The handle is kept at first: later calls with it are refused.           *)
DirectFree ==
  \E h \in direct :
    ForgottenInTime(h.index) /\ mb_free(h) /\ UNCHANGED bufferVars

DirectForget ==
  \E h \in direct :
    /\ ~Accepted(h) /\ direct' = direct \ {h}
    /\ UNCHANGED <<memoryVars, envelopes, queue>>

DirectChange ==
  /\ \E h \in direct, n \in 0 .. ArenaLen :
       \/ mb_set_length(h, n)
       \/ \E offset \in 0 .. ArenaLen, b \in Byte : mb_write(h, offset, n, b)
       \/ \E b \in Byte : MappedStore(h, n, b)
  /\ UNCHANGED bufferVars

(* Handlers map the blocks of envelopes, too.                              *)
MapOrUnmap ==
  /\ \E h \in Remembered : mb_map(h) \/ mb_unmap(h)
  /\ UNCHANGED bufferVars

Reset ==
  /\ \A i \in Buffers : ForgottenInTime(i)
  /\ mb_reset
  /\ UNCHANGED bufferVars

Next ==
  \/ \E m \in Envelope :
       \/ \E length \in 1 .. ArenaLen, b \in Byte : message_create_copy(m, length, b)
       \/ message_release(m) \/ queue_push_move(m) \/ queue_pop_move(m)
  \/ queue_release_all
  \/ DirectAlloc \/ DirectFree \/ DirectForget \/ DirectChange
  \/ MapOrUnmap \/ Reset

Spec == Init /\ [][Next]_vars

-----------------------------------------------------------------------------

(* How many owners hold a handle.                                          *)
Owners(h) ==
  Cardinality({m \in Envelope : Owned(m) /\ envelopes[m].handle = h})
    + Cardinality({k \in 1 .. queue.count : Items(queue)[k].handle = h})
    + IF h \in direct THEN 1 ELSE 0

Intact(e) ==
  Accepted(e.handle) =>
    LET s == slots[e.handle.index] IN
    /\ s.length = e.length
    /\ \A k \in s.offset .. s.offset + e.length - 1 : arena[k] = e.copied

(* Every live block has one owner, an envelope, a queued envelope or the   *)
(* application, whose handle is accepted: none is leaked or owned twice,   *)
(* and no handle of a freed block is mistaken for a new one's. An envelope *)
(* holds what it was created with, whatever else uses the pool.            *)
OwnersHoldBlocks ==
  /\ \A i \in Buffers :
       Active(i) => Accepted(HandleOf(i)) /\ Owners(HandleOf(i)) = 1
  /\ \A e \in Queued \cup {envelopes[m] : m \in {n \in Envelope : Owned(n)}} : Intact(e)
=============================================================================
