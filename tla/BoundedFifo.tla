---------------------------- MODULE BoundedFifo ----------------------------
(***************************************************************************)
(* What ut_event_queue_t promises: a FIFO of at most Capacity events whose *)
(* calls never block, that refuses a push when it is full and reports when *)
(* it is empty.                                                            *)
(***************************************************************************)
EXTENDS Naturals, Sequences

CONSTANTS Event, NoEvent, Capacity

VARIABLES
  items,   \* the queued events, oldest first
  reply    \* what the last call returned

fifoVars == <<items, reply>>

Answer(result, event) == [result |-> result, event |-> event]

Init == items = << >> /\ reply = Answer("OK", NoEvent)

Push(e) ==
  \/ /\ Len(items) < Capacity
     /\ items' = Append(items, e)
     /\ reply' = Answer("OK", NoEvent)
  \/ /\ Len(items) = Capacity
     /\ reply' = Answer("FULL", NoEvent)
     /\ UNCHANGED items

Pop ==
  \/ /\ items # << >>
     /\ items' = Tail(items)
     /\ reply' = Answer("OK", Head(items))
  \/ /\ items = << >>
     /\ reply' = Answer("EMPTY", NoEvent)
     /\ UNCHANGED items

Peek ==
  /\ reply' = IF items = << >> THEN Answer("EMPTY", NoEvent)
                               ELSE Answer("OK", Head(items))
  /\ UNCHANGED items

Clear == items' = << >> /\ reply' = Answer("OK", NoEvent)

Next == (\E e \in Event : Push(e)) \/ Pop \/ Peek \/ Clear

Spec == Init /\ [][Next]_fifoVars
=============================================================================
