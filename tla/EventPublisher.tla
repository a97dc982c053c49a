--------------------------- MODULE EventPublisher ---------------------------
(***************************************************************************)
(* ut_event_publisher_t: an event queue whose payloads are copied to a     *)
(* fixed array of slots, and a dispatcher. Any thread publishes, handlers  *)
(* included; one thread dispatches. A step is one critical section of the  *)
(* lock callbacks, one handler call, or a step of that thread outside the  *)
(* lock. A nested dispatch returns BUSY and changes nothing.               *)
(*                                                                         *)
(* A payload is one value: sizes, which only bound the copy, are left out. *)
(***************************************************************************)
EXTENDS RingQueue, EventDispatcher

CONSTANTS
  Copied,       \* published events with a payload: records [id, payload]
  Bare,         \* published events without one
  NoPayload,    \* the NULL payload of a descriptor or bare event
  Budget        \* largest budget of a dispatch

(* A queued descriptor holds a pointer into payload_storage, here its      *)
(* slot, or NULL. There are as many payload slots as the queue has.        *)
PayloadSlots == Index
Payloads == {e.payload : e \in Copied}

ASSUME PublisherAssumption ==
  /\ Item = [id : EventId, payload : PayloadSlots \cup {NoPayload}]
  /\ NoPayload \notin PayloadSlots \cup Payloads
  /\ \A e \in Copied : e = [id |-> e.id, payload |-> e.payload] /\ e.id \in EventId
  /\ \A e \in Bare : e = [id |-> e.id, payload |-> NoPayload] /\ e.id \in EventId
  /\ Budget \in Nat \ {0}

VARIABLES
  queue,
  payload_storage,
  occupied_storage,
  delivery          \* ut_event_publisher_dispatch(): dispatching, the events
                    \* it may still deliver and the descriptor popped last

publisherVars == <<queue, payload_storage, occupied_storage, delivery>>
vars == <<dispatcherVars, publisherVars>>

Init ==
  /\ DispatcherInit
  /\ queue = EmptyRing
  /\ payload_storage = [i \in PayloadSlots |-> NoPayload]
  /\ occupied_storage = [i \in PayloadSlots |-> FALSE]
  /\ delivery = [dispatching |-> FALSE, left |-> 0, event |-> Unset]

-----------------------------------------------------------------------------
(* ut_event_publisher_publish_copy(). It returns FULL and changes nothing  *)
(* when no slot is free, or none of the queue for an event without payload.*)

find_free_slot(i) ==
  ~occupied_storage[i] /\ \A j \in PayloadSlots : j < i => occupied_storage[j]

PublishCopied(e) ==
  \E slot \in PayloadSlots :
    /\ find_free_slot(slot) /\ ~IsFull(queue)
    /\ payload_storage' = [payload_storage EXCEPT ![slot] = e.payload]
    /\ occupied_storage' = [occupied_storage EXCEPT ![slot] = TRUE]
    /\ queue' = Push(queue, [id |-> e.id, payload |-> slot])
    /\ UNCHANGED <<delivery, dispatcherVars>>

(* Events without payload fill the queue: the slot was written in vain.    *)
PublishCopiedFull(e) ==
  \E slot \in PayloadSlots :
    /\ find_free_slot(slot) /\ IsFull(queue)
    /\ payload_storage' = [payload_storage EXCEPT ![slot] = e.payload]
    /\ UNCHANGED <<queue, occupied_storage, delivery, dispatcherVars>>

PublishBare(e) ==
  /\ ~IsFull(queue)
  /\ queue' = Push(queue, [id |-> e.id, payload |-> NoPayload])
  /\ UNCHANGED <<payload_storage, occupied_storage, delivery, dispatcherVars>>

PublisherSubscribe(s) == Subscribe(s) /\ UNCHANGED publisherVars

-----------------------------------------------------------------------------
(* ut_event_publisher_dispatch()                                           *)

DispatchCall ==
  /\ ~delivery.dispatching
  /\ \E budget \in 1 .. Budget :
       delivery' = [delivery EXCEPT !.dispatching = TRUE, !.left = budget]
  /\ UNCHANGED <<queue, payload_storage, occupied_storage, dispatcherVars>>

MayPop ==
  /\ delivery.dispatching /\ ~round.dispatching
  /\ delivery.left > 0 /\ ~IsEmpty(queue)

PayloadIsValid(d) == d.payload # NoPayload => occupied_storage[d.payload]

(* Mistake: the payload slot is given back before the handlers run.        *)
PopEventReleasing ==
  /\ MayPop
  /\ queue' = Pop(queue)
  /\ delivery' = [delivery EXCEPT !.event = Oldest(queue)]
  /\ BeginRound(Oldest(queue).id)
  /\ occupied_storage' =
       [i \in PayloadSlots |-> occupied_storage[i] /\ i # Oldest(queue).payload]
  /\ UNCHANGED payload_storage

(* An event whose payload slot is not occupied would end the dispatch with *)
(* an error and be lost.                                                   *)
PopEvent ==
  /\ MayPop
  /\ queue' = Pop(queue)
  /\ LET event == Oldest(queue) IN
       IF PayloadIsValid(event)
       THEN /\ delivery' = [delivery EXCEPT !.event = event]
            /\ BeginRound(event.id)
       ELSE /\ delivery' = [dispatching |-> FALSE, left |-> 0, event |-> Unset]
            /\ UNCHANGED dispatcherVars
  /\ UNCHANGED <<payload_storage, occupied_storage>>

Deliver == CallHandler /\ UNCHANGED publisherVars

(* Mistake: the slot is never given back.                                  *)
ReleaseNothing ==
  /\ EndRound
  /\ delivery' = [delivery EXCEPT !.left = @ - 1, !.event = Unset]
  /\ UNCHANGED <<queue, payload_storage, occupied_storage>>

ReleaseSlot ==
  /\ EndRound
  /\ occupied_storage' =
       [i \in PayloadSlots |-> occupied_storage[i] /\ i # delivery.event.payload]
  /\ delivery' = [delivery EXCEPT !.left = @ - 1, !.event = Unset]
  /\ UNCHANGED <<queue, payload_storage>>

(* Mistake: dispatching stays set.                                         *)
DispatchReturnsBusy ==
  /\ delivery.dispatching /\ ~round.dispatching
  /\ delivery.left = 0 \/ IsEmpty(queue)
  /\ delivery' = [delivery EXCEPT !.left = 0]
  /\ UNCHANGED <<queue, payload_storage, occupied_storage, dispatcherVars>>

DispatchReturns ==
  /\ delivery.dispatching /\ ~round.dispatching
  /\ delivery.left = 0 \/ IsEmpty(queue)
  /\ delivery' = [delivery EXCEPT !.dispatching = FALSE, !.left = 0]
  /\ UNCHANGED <<queue, payload_storage, occupied_storage, dispatcherVars>>

Dispatching ==
  DispatchCall \/ PopEvent \/ Deliver \/ ReleaseSlot \/ DispatchReturns

Next ==
  \/ \E e \in Copied : PublishCopied(e) \/ PublishCopiedFull(e)
  \/ \E e \in Bare : PublishBare(e)
  \/ \E s \in Subscription : PublisherSubscribe(s)
  \/ Dispatching

(* The dispatching thread calls dispatch over and over and handlers return.*)
Spec == Init /\ [][Next]_vars /\ WF_vars(Dispatching)

-----------------------------------------------------------------------------

TypeOK ==
  /\ DispatcherType
  /\ queue \in Ring
  /\ payload_storage \in [PayloadSlots -> Payloads \cup {NoPayload}]
  /\ occupied_storage \in [PayloadSlots -> BOOLEAN]
  /\ delivery \in [dispatching : BOOLEAN, left : 0 .. Budget, event : Item \cup {Unset}]
  /\ round.dispatching <=> delivery.event # Unset

(* The descriptors whose payload a handler may still read, oldest first.   *)
HeldDescriptor == IF delivery.event = Unset THEN << >> ELSE << delivery.event >>
Live == HeldDescriptor \o Items(queue)

SlotsAgree ==
  /\ \A i \in PayloadSlots :
       occupied_storage[i] <=> \E k \in DOMAIN Live : Live[k].payload = i
  /\ \A j, k \in DOMAIN Live :
       Live[j].payload = Live[k].payload /\ Live[k].payload # NoPayload => j = k

(* A payload slot is occupied exactly while one live descriptor points to  *)
(* it: none is leaked, shared by two events, or free while a handler may   *)
(* still read it.                                                          *)
SlotsMatchDescriptors == TypeOK /\ SlotsAgree

(* What a descriptor stands for: its id and what its slot holds now.       *)
Published(d) ==
  [id |-> d.id,
   payload |-> IF d.payload = NoPayload THEN NoPayload ELSE payload_storage[d.payload]]

Pending == [k \in DOMAIN Items(queue) |-> Published(Items(queue)[k])]

Held == IF delivery.event = Unset THEN << >> ELSE << Published(delivery.event) >>

EventChannel ==
  INSTANCE EventChannel WITH channel <- [pending |-> Pending, held |-> Held]

(* Slots, flags and ring together deliver each event once, in order and    *)
(* with the payload it was published with, through slot reuse, handlers    *)
(* that publish and a full queue or slot array; no event is lost.          *)
ImplementsChannel == EventChannel!Spec

(* Every published event reaches its handlers, whatever others publish.    *)
PendingIsDelivered ==
  \A e \in Copied \cup Bare :
    (\E k \in DOMAIN Pending : Pending[k] = e) ~> (Held = << e >>)
=============================================================================
