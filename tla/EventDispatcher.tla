--------------------------- MODULE EventDispatcher ---------------------------
(***************************************************************************)
(* ut_event_dispatcher_t: a fixed array of subscriptions and the           *)
(* synchronous dispatch that scans it. A step is one public call, or one   *)
(* handler call of a dispatch under way; handlers may call the dispatcher  *)
(* back, and are answered BUSY without effect.                             *)
(*                                                                         *)
(* A Handler stands for a handler and its user_context. count is the       *)
(* number of occupied slots and not kept apart. registered and called      *)
(* record what happened; no action of the program reads them.              *)
(***************************************************************************)
EXTENDS Naturals, Sequences

CONSTANTS
  EventId,                \* event ids
  AnyId,                  \* UT_EVENT_ID_ANY
  Handler,
  Free,                   \* an unoccupied slot
  SubscriptionCapacity

ASSUME DispatcherAssumption ==
  /\ SubscriptionCapacity \in Nat \ {0}
  /\ AnyId \notin EventId
  /\ Free \notin [event_id : EventId \cup {AnyId}, handler : Handler]

Subscription == [event_id : EventId \cup {AnyId}, handler : Handler]
SubscriptionSlots == 1 .. SubscriptionCapacity

VARIABLES
  subscriptions,   \* the caller's array
  round,           \* ut_event_dispatch(): whether one runs (dispatching), the
                   \* event's id and the last slot scanned
  registered,      \* history: current subscriptions, oldest first
  called           \* history: subscriptions this round called, in order

dispatcherVars == <<subscriptions, round, registered, called>>

DispatcherInit ==
  /\ subscriptions = [i \in SubscriptionSlots |-> Free]
  /\ round = [dispatching |-> FALSE, id |-> AnyId, index |-> 0]
  /\ registered = << >> /\ called = << >>

Occupied(i) == subscriptions[i] # Free

(* Mistake: the scan keeps the last free slot.                             *)
LastFreeSlot(i) ==
  ~Occupied(i) /\ \A j \in SubscriptionSlots : j > i => Occupied(j)

FirstFreeSlot(i) ==
  ~Occupied(i) /\ \A j \in SubscriptionSlots : j < i => Occupied(j)

(* ut_event_subscribe() when it returns OK.                                *)
Subscribe(s) ==
  /\ ~round.dispatching
  /\ \A i \in SubscriptionSlots : subscriptions[i] # s
  /\ \E i \in SubscriptionSlots :
       FirstFreeSlot(i) /\ subscriptions' = [subscriptions EXCEPT ![i] = s]
  /\ registered' = Append(registered, s)
  /\ UNCHANGED <<round, called>>

(* ut_event_unsubscribe() when it returns OK.                              *)
Unsubscribe(s) ==
  /\ ~round.dispatching
  /\ \E i \in SubscriptionSlots :
       /\ subscriptions[i] = s
       /\ subscriptions' = [subscriptions EXCEPT ![i] = Free]
  /\ registered' = SelectSeq(registered, LAMBDA r : r # s)
  /\ UNCHANGED <<round, called>>

(* ut_event_dispatch(), from its checks to the scan.                       *)
BeginRound(id) ==
  /\ ~round.dispatching
  /\ round' = [dispatching |-> TRUE, id |-> id, index |-> 0]
  /\ called' = << >>
  /\ UNCHANGED <<subscriptions, registered>>

Wants(s, id) == s.event_id \in {id, AnyId}

Selected(i) == i > round.index /\ Occupied(i) /\ Wants(subscriptions[i], round.id)

CallHandler ==
  /\ round.dispatching
  /\ \E i \in SubscriptionSlots :
       /\ Selected(i) /\ \A j \in SubscriptionSlots : j < i => ~Selected(j)
       /\ round' = [round EXCEPT !.index = i]
       /\ called' = Append(called, subscriptions[i])
  /\ UNCHANGED <<subscriptions, registered>>

(* The scan found no further handler; no handler at all is NOT_FOUND.      *)
EndRound ==
  /\ round.dispatching /\ \A i \in SubscriptionSlots : ~Selected(i)
  /\ round' = [dispatching |-> FALSE, id |-> AnyId, index |-> 0]
  /\ called' = << >>
  /\ UNCHANGED <<subscriptions, registered>>

DispatcherNext ==
  \/ \E s \in Subscription : Subscribe(s) \/ Unsubscribe(s)
  \/ \E id \in EventId : BeginRound(id)
  \/ CallHandler
  \/ EndRound

DispatcherSpec == DispatcherInit /\ [][DispatcherNext]_dispatcherVars

-----------------------------------------------------------------------------

DispatcherType ==
  /\ subscriptions \in [SubscriptionSlots -> Subscription \cup {Free}]
  /\ round \in [dispatching : BOOLEAN, id : EventId \cup {AnyId},
                index : 0 .. SubscriptionCapacity]

(* utility_event_dispatcher.h: dispatch calls the matching handlers in the *)
(* order of their registration, each once and none left out.               *)
CalledInRegistrationOrder ==
  [][EndRound => called = SelectSeq(registered, LAMBDA s : Wants(s, round.id))]_dispatcherVars
=============================================================================
