----------------------------- MODULE EventQueue -----------------------------
(***************************************************************************)
(* ut_event_queue_t: the public operations of the event queue on its ring. *)
(* Each call runs to completion on the thread that owns the queue (or      *)
(* under the lock of its user), so a call is one step.                     *)
(*                                                                         *)
(* Calls with a NULL argument return INVALID_ARGUMENT before they touch    *)
(* the context and are left out. An Item is an event descriptor (id,       *)
(* source, payload pointer, size); Unset is also an out_event argument     *)
(* nothing was copied to.                                                  *)
(***************************************************************************)
EXTENDS RingQueue

VARIABLES
  queue,      \* the context and the caller's storage
  reply       \* result code and copied event of the last call

vars == <<queue, reply>>

Answer(result, event) == [result |-> result, event |-> event]

(* ut_event_queue_init() on zeroed or never used storage. *)
Init == queue = EmptyRing /\ reply = Answer("OK", Unset)

PushFull ==
  /\ IsFull(queue)
  /\ reply' = Answer("FULL", Unset)
  /\ UNCHANGED queue

PushEvent(e) ==
  /\ ~IsFull(queue)
  /\ queue' = Push(queue, e)
  /\ reply' = Answer("OK", Unset)

PopEmpty ==
  /\ IsEmpty(queue)
  /\ reply' = Answer("EMPTY", Unset)
  /\ UNCHANGED queue

PopEvent ==
  /\ ~IsEmpty(queue)
  /\ queue' = Pop(queue)
  /\ reply' = Answer("OK", Oldest(queue))

PeekEvent ==
  /\ reply' = IF IsEmpty(queue) THEN Answer("EMPTY", Unset)
                                ELSE Answer("OK", Oldest(queue))
  /\ UNCHANGED queue

(* ut_event_queue_clear(), and ut_event_queue_init() on a used context:    *)
(* both reset the indices and leave the array alone.                       *)
ClearEvents ==
  /\ queue' = Clear(queue)
  /\ reply' = Answer("OK", Unset)

Next ==
  \/ PushFull
  \/ \E e \in Item : PushEvent(e)
  \/ PopEmpty
  \/ PopEvent
  \/ PeekEvent
  \/ ClearEvents

Spec == Init /\ [][Next]_vars

-----------------------------------------------------------------------------

(* Indices and count stay inside the array: the condition every call       *)
(* checks with queue_is_valid() before it touches storage.                 *)
TypeOK ==
  /\ queue \in Ring
  /\ reply \in [result : {"OK", "FULL", "EMPTY"}, event : Item \cup {Unset}]

(* The two indices agree with the count and no live slot is garbage, the   *)
(* part of the context's consistency queue_is_valid() does not check.      *)
RingCoherent == TypeOK /\ Coherent(queue)

Fifo == INSTANCE BoundedFifo WITH
          Event <- Item, NoEvent <- Unset, items <- Items(queue)

(* The ring, through wrap-around, full, empty and clear, behaves as a      *)
(* bounded FIFO, result codes and copied events included.                  *)
ImplementsFifo == Fifo!Spec
=============================================================================
