------------------------ MODULE EventPublisherProofs ------------------------
(***************************************************************************)
(* For any number of slots, events, subscriptions and any budget: a        *)
(* payload slot is occupied exactly while one live descriptor points to    *)
(* it, and the publisher implements EventChannel.                          *)
(*                                                                         *)
(* The live descriptors, held one first, form a sequence that a publish    *)
(* extends, a pop leaves as it is and a release shortens; the invariant is *)
(* kept because the flags follow it.                                       *)
(***************************************************************************)
EXTENDS EventPublisher, RingQueueProofs, FiniteSetTheorems

PublisherInv ==
  /\ TypeOK
  /\ Coherent(queue)
  /\ round.dispatching => delivery.dispatching /\ delivery.left > 0
  /\ SlotsAgree

(* SlotsAgree, of any flags and any sequence of descriptors.    *)
Match(flags, live) ==
  /\ \A i \in PayloadSlots :
       flags[i] <=> \E k \in DOMAIN live : live[k].payload = i
  /\ \A j, k \in DOMAIN live :
       live[j].payload = live[k].payload /\ live[k].payload # NoPayload => j = k

-----------------------------------------------------------------------------
(* Sequences of descriptors.                                               *)

LEMMA HeldFirst ==
  ASSUME NEW d \in Item, NEW t \in Seq(Item)
  PROVE  /\ << d >> \o t \in Seq(Item)
         /\ Len(<< d >> \o t) = Len(t) + 1
         /\ (<< d >> \o t)[1] = d
         /\ \A k \in 1 .. Len(t) : (<< d >> \o t)[k + 1] = t[k]
<1>1. << d >> \in Seq(Item) /\ Len(<< d >>) = 1 /\ << d >>[1] = d
  OBVIOUS
<1>2. Len(t) \in Nat
  BY LenProperties
<1>3. QED
  BY <1>1, <1>2, ConcatProperties

LEMMA NothingHeld ==
  ASSUME NEW t \in Seq(Item)
  PROVE  << >> \o t = t
  BY ConcatEmptySeq

LEMMA AppendToLive ==
  ASSUME NEW h \in Seq(Item), NEW t \in Seq(Item), NEW d \in Item
  PROVE  h \o Append(t, d) = Append(h \o t, d)
<1>1. /\ Append(t, d) = t \o <<d>> /\ <<d>> \in Seq(Item)
      /\ h \o t \in Seq(Item) /\ Append(h \o t, d) = (h \o t) \o <<d>>
  BY AppendIsConcat, ConcatProperties
<1>2. QED
  BY <1>1, ConcatAssociative

LEMMA HeadHeld ==
  ASSUME NEW t \in Seq(Item), t # << >>
  PROVE  /\ Head(t) \in Item /\ Tail(t) \in Seq(Item)
         /\ << Head(t) >> \o Tail(t) = t
<1>1. /\ Head(t) \in Item /\ Tail(t) \in Seq(Item) /\ Len(Tail(t)) = Len(t) - 1
      /\ \A i \in 1 .. Len(Tail(t)) : Tail(t)[i] = t[i + 1]
      /\ Len(t) \in Nat \ {0} /\ Head(t) = t[1]
  BY HeadTailProperties, EmptySeq
<1> DEFINE c == << Head(t) >> \o Tail(t)
<1>2. /\ c \in Seq(Item) /\ Len(c) = Len(t)
      /\ c[1] = t[1] /\ \A k \in 1 .. Len(t) - 1 : c[k + 1] = t[k + 1]
  BY <1>1, HeldFirst
<1> HIDE DEF c
<1>3. ASSUME NEW i \in 1 .. Len(t) PROVE c[i] = t[i]
  <2>1. CASE i = 1
    BY <1>2, <2>1
  <2>2. CASE i # 1
    <3>1. i - 1 \in 1 .. Len(t) - 1 /\ i = (i - 1) + 1
      BY <1>1, <2>2
    <3>2. QED
      BY <1>2, <3>1
  <2>3. QED
    BY <2>1, <2>2
<1>4. QED
  BY <1>1, <1>2, <1>3, SeqEqual DEF c

-----------------------------------------------------------------------------
(* The flags follow the live descriptors.                                  *)

LEMMA MatchPublished ==
  ASSUME NEW flags \in [PayloadSlots -> BOOLEAN], NEW live \in Seq(Item),
         Match(flags, live),
         NEW slot \in PayloadSlots, ~flags[slot],
         NEW d \in Item, d.payload = slot
  PROVE  Match([flags EXCEPT ![slot] = TRUE], Append(live, d))
<1>1. /\ DOMAIN live = 1 .. Len(live) /\ Len(live) \in Nat
      /\ DOMAIN Append(live, d) = 1 .. Len(live) + 1
      /\ \A k \in 1 .. Len(live) : Append(live, d)[k] = live[k]
      /\ Append(live, d)[Len(live) + 1] = d
  BY AppendProperties, LenProperties
<1>2. \A k \in 1 .. Len(live) : live[k].payload # slot
  BY <1>1 DEF Match
<1>3. \A i \in PayloadSlots :
        [flags EXCEPT ![slot] = TRUE][i] <=>
          \E k \in DOMAIN Append(live, d) : Append(live, d)[k].payload = i
  <2> TAKE i \in PayloadSlots
  <2>1. (\E k \in 1 .. Len(live) + 1 : Append(live, d)[k].payload = i)
          <=> (\E k \in 1 .. Len(live) : live[k].payload = i) \/ slot = i
    BY <1>1
  <2>2. [flags EXCEPT ![slot] = TRUE][i] <=> flags[i] \/ slot = i
    OBVIOUS
  <2>3. QED
    BY <1>1, <2>1, <2>2 DEF Match
<1>4. ASSUME NEW j \in 1 .. Len(live) + 1, NEW k \in 1 .. Len(live) + 1,
             Append(live, d)[j].payload = Append(live, d)[k].payload,
             Append(live, d)[k].payload # NoPayload
      PROVE  j = k
  <2>1. CASE j \in 1 .. Len(live) /\ k \in 1 .. Len(live)
    BY <1>1, <1>4, <2>1 DEF Match
  <2>2. CASE j = Len(live) + 1 /\ k # j
    <3>1. k \in 1 .. Len(live)
      BY <1>1, <2>2
    <3>2. QED
      BY <1>1, <1>2, <1>4, <2>2, <3>1
  <2>3. CASE k = Len(live) + 1 /\ k # j
    <3>1. j \in 1 .. Len(live)
      BY <1>1, <2>3
    <3>2. QED
      BY <1>1, <1>2, <1>4, <2>3, <3>1
  <2>4. QED
    BY <1>1, <2>1, <2>2, <2>3
<1>5. QED
  BY <1>1, <1>3, <1>4 DEF Match

LEMMA MatchBare ==
  ASSUME NEW flags \in [PayloadSlots -> BOOLEAN], NEW live \in Seq(Item),
         Match(flags, live), NEW d \in Item, d.payload = NoPayload
  PROVE  Match(flags, Append(live, d))
<1>1. /\ DOMAIN live = 1 .. Len(live) /\ Len(live) \in Nat
      /\ DOMAIN Append(live, d) = 1 .. Len(live) + 1
      /\ \A k \in 1 .. Len(live) : Append(live, d)[k] = live[k]
      /\ Append(live, d)[Len(live) + 1] = d
  BY AppendProperties, LenProperties
<1>2. \A i \in PayloadSlots : i # NoPayload
  BY PublisherAssumption
<1>3. ASSUME NEW i \in PayloadSlots
      PROVE  flags[i] <=>
               \E k \in DOMAIN Append(live, d) : Append(live, d)[k].payload = i
  <2>1. (\E k \in 1 .. Len(live) + 1 : Append(live, d)[k].payload = i)
          <=> \E k \in 1 .. Len(live) : live[k].payload = i
    BY <1>1, <1>2
  <2>2. QED
    BY <1>1, <2>1 DEF Match
<1>4. ASSUME NEW j \in 1 .. Len(live) + 1, NEW k \in 1 .. Len(live) + 1,
             Append(live, d)[j].payload = Append(live, d)[k].payload,
             Append(live, d)[k].payload # NoPayload
      PROVE  j = k
  <2>1. j \in 1 .. Len(live) /\ k \in 1 .. Len(live)
    BY <1>1, <1>4
  <2>2. QED
    BY <1>1, <1>4, <2>1 DEF Match
<1>5. QED
  BY <1>1, <1>3, <1>4 DEF Match

LEMMA MatchReleased ==
  ASSUME NEW flags \in [PayloadSlots -> BOOLEAN], NEW d \in Item,
         NEW t \in Seq(Item), Match(flags, << d >> \o t)
  PROVE  Match([i \in PayloadSlots |-> flags[i] /\ i # d.payload], t)
<1> DEFINE live == << d >> \o t
           freed == [i \in PayloadSlots |-> flags[i] /\ i # d.payload]
<1>1. /\ live \in Seq(Item) /\ Len(live) = Len(t) + 1 /\ live[1] = d
      /\ \A k \in 1 .. Len(t) : live[k + 1] = t[k]
      /\ DOMAIN t = 1 .. Len(t) /\ Len(t) \in Nat
  BY HeldFirst, LenProperties
<1>2. DOMAIN live = 1 .. Len(t) + 1
  BY <1>1
<1>3. /\ \A i \in PayloadSlots :
           flags[i] <=> \E k \in DOMAIN live : live[k].payload = i
      /\ \A j, k \in DOMAIN live :
           live[j].payload = live[k].payload /\ live[k].payload # NoPayload => j = k
  BY DEF Match
<1> HIDE DEF live
<1>4. ASSUME NEW i \in PayloadSlots
      PROVE  freed[i] <=> \E k \in DOMAIN t : t[k].payload = i
  <2>1. i # NoPayload
    BY PublisherAssumption
  <2>2. ASSUME freed[i] PROVE \E k \in DOMAIN t : t[k].payload = i
    <3>1. flags[i] /\ i # d.payload
      BY <2>2
    <3>2. PICK k \in 1 .. Len(t) + 1 : live[k].payload = i
      BY <1>2, <1>3, <3>1
    <3>3. k # 1
      BY <1>1, <3>1, <3>2
    <3>4. k - 1 \in 1 .. Len(t) /\ k = (k - 1) + 1
      BY <1>1, <3>3
    <3>5. QED
      BY <1>1, <3>2, <3>4
  <2>3. ASSUME NEW k \in DOMAIN t, t[k].payload = i PROVE freed[i]
    <3>1. /\ k + 1 \in DOMAIN live /\ 1 \in DOMAIN live /\ 1 # k + 1
          /\ live[k + 1].payload = i
      BY <1>1, <1>2, <2>3
    <3>2. flags[i]
      BY <1>3, <3>1
    <3>3. d.payload # i
      BY <1>1, <1>3, <2>1, <3>1
    <3>4. QED
      BY <3>2, <3>3
  <2>4. QED
    BY <2>2, <2>3
<1>5. ASSUME NEW j \in DOMAIN t, NEW k \in DOMAIN t,
             t[j].payload = t[k].payload, t[k].payload # NoPayload
      PROVE  j = k
  <2>1. /\ j + 1 \in DOMAIN live /\ k + 1 \in DOMAIN live
        /\ live[j + 1] = t[j] /\ live[k + 1] = t[k]
        /\ j \in Nat /\ k \in Nat
    BY <1>1, <1>2
  <2>2. j + 1 = k + 1
    BY <1>3, <1>5, <2>1
  <2>3. QED
    BY <2>1, <2>2
<1>6. QED
  BY <1>4, <1>5 DEF Match

-----------------------------------------------------------------------------
(* The invariant.                                                          *)

LEMMA LiveType ==
  ASSUME TypeOK, Coherent(queue)
  PROVE  /\ HeldDescriptor \in Seq(Item) /\ Items(queue) \in Seq(Item)
         /\ Live \in Seq(Item)
<1>1. Items(queue) \in Seq(Item)
  BY ItemsType DEF TypeOK
<1>2. HeldDescriptor \in Seq(Item)
  <2>1. CASE delivery.event = Unset
    BY <2>1, EmptySeq DEF HeldDescriptor
  <2>2. CASE delivery.event # Unset
    <3>1. delivery.event \in Item
      BY <2>2 DEF TypeOK
    <3>2. QED
      BY <2>2, <3>1 DEF HeldDescriptor
  <2>3. QED
    BY <2>1, <2>2
<1>3. QED
  BY <1>1, <1>2, ConcatProperties DEF Live

LEMMA SlotsMatch == SlotsAgree <=> Match(occupied_storage, Live)
  BY DEF SlotsAgree, Match

LEMMA SlotsMatchNext ==
  SlotsAgree' <=> Match(occupied_storage', Live')
  BY DEF SlotsAgree, Match

LEMMA InitPublisherInv == Init => PublisherInv
<1> SUFFICES ASSUME Init PROVE PublisherInv
  OBVIOUS
<1>1. /\ queue \in Ring /\ Coherent(queue) /\ Items(queue) = << >>
  BY EmptyRingIsEmpty DEF Init
<1>2. TypeOK
  <2>1. DispatcherType
    BY DispatcherAssumption DEF Init, DispatcherInit, DispatcherType, SubscriptionSlots
  <2>2. delivery \in [dispatching : BOOLEAN, left : 0 .. Budget, event : Item \cup {Unset}]
    BY PublisherAssumption DEF Init
  <2>3. /\ payload_storage \in [PayloadSlots -> Payloads \cup {NoPayload}]
        /\ occupied_storage \in [PayloadSlots -> BOOLEAN]
        /\ round.dispatching <=> delivery.event # Unset
    BY DEF Init, DispatcherInit
  <2>4. QED
    BY <1>1, <2>1, <2>2, <2>3 DEF TypeOK
<1>3. Live = << >>
  BY <1>1, NothingHeld, EmptySeq DEF Live, HeldDescriptor, Init
<1>4. SlotsAgree
  BY <1>3 DEF SlotsAgree, Init
<1>5. QED
  BY <1>1, <1>2, <1>4 DEF PublisherInv, Init, DispatcherInit

(* What a publish puts into the queue.                                     *)
LEMMA DescriptorTypes ==
  /\ \A e \in Copied, slot \in PayloadSlots :
       /\ [id |-> e.id, payload |-> slot] \in Item
       /\ e.payload \in Payloads
  /\ \A e \in Bare : [id |-> e.id, payload |-> NoPayload] \in Item
  BY PublisherAssumption DEF Payloads

LEMMA CopiedKeepsInv ==
  ASSUME PublisherInv, NEW e \in Copied, PublishCopied(e)
  PROVE  PublisherInv'
<1>1. PICK slot \in PayloadSlots :
        /\ find_free_slot(slot) /\ ~IsFull(queue)
        /\ payload_storage' = [payload_storage EXCEPT ![slot] = e.payload]
        /\ occupied_storage' = [occupied_storage EXCEPT ![slot] = TRUE]
        /\ queue' = Push(queue, [id |-> e.id, payload |-> slot])
        /\ UNCHANGED <<delivery, dispatcherVars>>
  BY DEF PublishCopied
<1> DEFINE d == [id |-> e.id, payload |-> slot]
<1>2. d \in Item /\ d.payload = slot /\ e.payload \in Payloads
  BY DescriptorTypes
<1> HIDE DEF d
<1>3. /\ queue' \in Ring /\ Coherent(queue)' /\ Items(queue)' = Append(Items(queue), d)
  BY <1>1, <1>2, PushAppends DEF PublisherInv, TypeOK, d
<1>4. TypeOK'
  BY <1>1, <1>2, <1>3 DEF PublisherInv, TypeOK, dispatcherVars, DispatcherType
<1>5. Live' = Append(Live, d)
  <2>1. HeldDescriptor' = HeldDescriptor
    BY <1>1 DEF HeldDescriptor
  <2>2. QED
    BY <1>2, <1>3, <2>1, LiveType, AppendToLive DEF Live, PublisherInv
<1>6. SlotsAgree'
  <2>1. Match([occupied_storage EXCEPT ![slot] = TRUE], Append(Live, d))
    <3>1. /\ occupied_storage \in [PayloadSlots -> BOOLEAN] /\ Live \in Seq(Item)
          /\ Match(occupied_storage, Live) /\ ~occupied_storage[slot]
      BY <1>1, LiveType, SlotsMatch DEF PublisherInv, TypeOK, find_free_slot
    <3>2. QED
      BY <1>2, <3>1, MatchPublished
  <2>2. QED
    BY <1>1, <1>5, <2>1, SlotsMatchNext
<1>7. QED
  BY <1>1, <1>3, <1>4, <1>6 DEF PublisherInv, dispatcherVars

LEMMA BareKeepsInv ==
  ASSUME PublisherInv, NEW e \in Bare, PublishBare(e)
  PROVE  PublisherInv'
<1> DEFINE d == [id |-> e.id, payload |-> NoPayload]
<1>1. d \in Item /\ d.payload = NoPayload
  BY DescriptorTypes
<1>2. /\ ~IsFull(queue) /\ queue' = Push(queue, d)
      /\ UNCHANGED <<payload_storage, occupied_storage, delivery, dispatcherVars>>
  BY DEF PublishBare
<1> HIDE DEF d
<1>3. /\ queue' \in Ring /\ Coherent(queue)' /\ Items(queue)' = Append(Items(queue), d)
  BY <1>1, <1>2, PushAppends DEF PublisherInv, TypeOK
<1>4. TypeOK'
  BY <1>2, <1>3 DEF PublisherInv, TypeOK, dispatcherVars, DispatcherType
<1>5. Live' = Append(Live, d)
  <2>1. HeldDescriptor' = HeldDescriptor
    BY <1>2 DEF HeldDescriptor
  <2>2. QED
    BY <1>1, <1>3, <2>1, LiveType, AppendToLive DEF Live, PublisherInv
<1>6. SlotsAgree'
  <2>1. /\ occupied_storage \in [PayloadSlots -> BOOLEAN] /\ Live \in Seq(Item)
        /\ Match(occupied_storage, Live)
    BY LiveType, SlotsMatch DEF PublisherInv, TypeOK
  <2>2. Match(occupied_storage, Append(Live, d))
    BY <1>1, <2>1, MatchBare
  <2>3. QED
    BY <1>2, <1>5, <2>2, SlotsMatchNext
<1>7. QED
  BY <1>2, <1>3, <1>4, <1>6 DEF PublisherInv, dispatcherVars

(* Where a pop is possible the payload is valid: the error branch of the   *)
(* code is never taken.                                                    *)
LEMMA PopFindsPayload ==
  ASSUME PublisherInv, MayPop
  PROVE  /\ PayloadIsValid(Oldest(queue))
         /\ delivery.event = Unset
         /\ Oldest(queue) = Head(Items(queue)) /\ Items(queue) # << >>
         /\ Live = Items(queue)
<1>1. delivery.event = Unset
  BY DEF PublisherInv, TypeOK, MayPop
<1>2. /\ Items(queue) # << >> /\ Oldest(queue) = Head(Items(queue))
      /\ Items(queue) \in Seq(Item)
  BY PopTakesFirst, LiveType DEF PublisherInv, TypeOK, MayPop
<1>3. Live = Items(queue)
  BY <1>1, <1>2, NothingHeld DEF Live, HeldDescriptor
<1>4. /\ 1 \in DOMAIN Live /\ Live[1] = Oldest(queue) /\ Oldest(queue) \in Item
  BY <1>2, <1>3, HeadTailProperties, EmptySeq
<1>5. Oldest(queue).payload \in PayloadSlots \cup {NoPayload}
  BY <1>4, PublisherAssumption
<1>6. PayloadIsValid(Oldest(queue))
  BY <1>4, <1>5 DEF PayloadIsValid, PublisherInv, SlotsAgree
<1>7. QED
  BY <1>1, <1>2, <1>3, <1>6

LEMMA PopKeepsInv ==
  ASSUME PublisherInv, PopEvent
  PROVE  PublisherInv' /\ Live' = Live
<1>1. MayPop
  BY DEF PopEvent
<1>2. /\ PayloadIsValid(Oldest(queue)) /\ delivery.event = Unset
      /\ Oldest(queue) = Head(Items(queue)) /\ Items(queue) # << >>
      /\ Live = Items(queue) /\ Items(queue) \in Seq(Item)
  BY <1>1, PopFindsPayload, LiveType DEF PublisherInv
<1>3. /\ queue' \in Ring /\ Coherent(queue)' /\ Items(queue)' = Tail(Items(queue))
      /\ Oldest(queue) \in Item
  BY <1>1, <1>2, PopTakesFirst, HeadHeld DEF PublisherInv, TypeOK, MayPop, PopEvent
<1>4. /\ delivery' = [delivery EXCEPT !.event = Oldest(queue)]
      /\ BeginRound(Oldest(queue).id)
      /\ UNCHANGED <<payload_storage, occupied_storage>>
  BY <1>2 DEF PopEvent
<1>5. Oldest(queue) # Unset /\ Oldest(queue).id \in EventId
  BY <1>3, RingAssumption, PublisherAssumption
<1>6. TypeOK'
  <2>1. DispatcherType'
    BY <1>4, <1>5, DispatcherAssumption
       DEF PublisherInv, TypeOK, DispatcherType, BeginRound
  <2>2. delivery' \in [dispatching : BOOLEAN, left : 0 .. Budget, event : Item \cup {Unset}]
    BY <1>3, <1>4 DEF PublisherInv, TypeOK
  <2>3. round'.dispatching /\ delivery'.event # Unset
    BY <1>4, <1>5 DEF BeginRound, PublisherInv, TypeOK
  <2>4. QED
    BY <1>3, <1>4, <2>1, <2>2, <2>3 DEF PublisherInv, TypeOK
<1>7. Live' = Live
  <2>1. HeldDescriptor' = << Head(Items(queue)) >>
    BY <1>2, <1>4, <1>5 DEF HeldDescriptor, PublisherInv, TypeOK
  <2>2. QED
    BY <1>2, <1>3, <2>1, HeadHeld DEF Live
<1>8. SlotsAgree'
  BY <1>4, <1>7, SlotsMatch, SlotsMatchNext DEF PublisherInv
<1>9. delivery'.dispatching /\ delivery'.left > 0
  BY <1>1, <1>4 DEF MayPop, PublisherInv, TypeOK
<1>10. QED
  BY <1>3, <1>6, <1>7, <1>8, <1>9 DEF PublisherInv

LEMMA ReleaseKeepsInv ==
  ASSUME PublisherInv, ReleaseSlot
  PROVE  PublisherInv' /\ Live' = Items(queue) /\ delivery'.event = Unset
<1>1. /\ round.dispatching /\ EndRound
      /\ occupied_storage' =
           [i \in PayloadSlots |-> occupied_storage[i] /\ i # delivery.event.payload]
      /\ delivery' = [delivery EXCEPT !.left = @ - 1, !.event = Unset]
      /\ UNCHANGED <<queue, payload_storage>>
  BY DEF ReleaseSlot, EndRound
<1>2. /\ delivery.event # Unset /\ delivery.event \in Item
      /\ delivery.left \in 1 .. Budget
  BY <1>1, PublisherAssumption DEF PublisherInv, TypeOK
<1>3. /\ HeldDescriptor = << delivery.event >> /\ Items(queue) \in Seq(Item)
      /\ Items(queue)' = Items(queue)
  BY <1>1, <1>2, LiveType DEF HeldDescriptor, PublisherInv, Items, Slot
<1>4. /\ delivery' = [dispatching |-> delivery.dispatching,
                        left |-> delivery.left - 1, event |-> Unset]
      /\ delivery.dispatching \in BOOLEAN
      /\ delivery.left - 1 \in 0 .. Budget
  <2>1. /\ delivery \in [dispatching : BOOLEAN, left : 0 .. Budget,
                          event : Item \cup {Unset}]
        /\ Budget \in Nat
    BY PublisherAssumption DEF PublisherInv, TypeOK
  <2>2. delivery' = [dispatching |-> delivery.dispatching,
                     left |-> delivery.left - 1, event |-> Unset]
    BY <1>1, <2>1
  <2>3. delivery.dispatching \in BOOLEAN
    BY <2>1
  <2>4. delivery.left - 1 \in 0 .. Budget
    BY <1>2, <2>1
  <2>5. QED
    BY <2>2, <2>3, <2>4
<1>5. Live' = Items(queue)
  BY <1>3, <1>4, NothingHeld DEF Live, HeldDescriptor
<1>6. TypeOK'
  <2>1. DispatcherType'
    BY <1>1, DispatcherAssumption DEF PublisherInv, TypeOK, DispatcherType, EndRound
  <2>2. delivery' \in [dispatching : BOOLEAN, left : 0 .. Budget, event : Item \cup {Unset}]
    BY <1>4
  <2>3. ~round'.dispatching
    BY <1>1 DEF EndRound
  <2>4. QED
    BY <1>1, <1>4, <2>1, <2>2, <2>3 DEF PublisherInv, TypeOK
<1>7. SlotsAgree'
  <2>1. Match(occupied_storage, << delivery.event >> \o Items(queue))
    BY <1>3, SlotsMatch DEF PublisherInv, Live
  <2>2. occupied_storage \in [PayloadSlots -> BOOLEAN]
    BY DEF PublisherInv, TypeOK
  <2>3. Match([i \in PayloadSlots |-> occupied_storage[i] /\ i # delivery.event.payload],
              Items(queue))
    BY <1>2, <1>3, <2>1, <2>2, MatchReleased
  <2>4. QED
    BY <1>1, <1>5, <2>3, SlotsMatchNext
<1>8. Coherent(queue)' /\ ~round'.dispatching
  BY <1>1 DEF PublisherInv, EndRound, Coherent, Slot
<1>9. QED
  BY <1>4, <1>5, <1>6, <1>7, <1>8 DEF PublisherInv

(* Steps that move neither descriptors nor flags.                          *)
LEMMA ElsewhereKeepsInv ==
  ASSUME PublisherInv, TypeOK', UNCHANGED <<queue, occupied_storage>>,
         delivery'.event = delivery.event,
         round'.dispatching => delivery'.dispatching /\ delivery'.left > 0
  PROVE  PublisherInv'
<1>1. Live' = Live
  BY DEF Live, HeldDescriptor, Items, Slot
<1>2. SlotsAgree'
  BY <1>1, SlotsMatch, SlotsMatchNext DEF PublisherInv
<1>3. Coherent(queue)'
  BY DEF PublisherInv, Coherent, Slot
<1>4. QED
  BY <1>2, <1>3 DEF PublisherInv

LEMMA NextPublisherInv == PublisherInv /\ [Next]_vars => PublisherInv'
<1> SUFFICES ASSUME PublisherInv, [Next]_vars PROVE PublisherInv'
  OBVIOUS
<1>1. CASE \E e \in Copied : PublishCopied(e)
  BY <1>1, CopiedKeepsInv
<1>2. ASSUME NEW e \in Copied, PublishCopiedFull(e) PROVE PublisherInv'
  <2>1. TypeOK'
    BY <1>2, DescriptorTypes
       DEF PublishCopiedFull, PublisherInv, TypeOK, dispatcherVars, DispatcherType
  <2>2. QED
    BY <1>2, <2>1, ElsewhereKeepsInv
       DEF PublishCopiedFull, PublisherInv, dispatcherVars
<1>3. CASE \E e \in Bare : PublishBare(e)
  BY <1>3, BareKeepsInv
<1>4. ASSUME NEW s \in Subscription, PublisherSubscribe(s) PROVE PublisherInv'
  <2>1. TypeOK'
    BY <1>4 DEF PublisherSubscribe, Subscribe, publisherVars, PublisherInv,
                TypeOK, DispatcherType
  <2>2. QED
    BY <1>4, <2>1, ElsewhereKeepsInv
       DEF PublisherSubscribe, Subscribe, publisherVars, PublisherInv
<1>5. CASE DispatchCall
  <2>1. PICK budget \in 1 .. Budget :
          delivery' = [delivery EXCEPT !.dispatching = TRUE, !.left = budget]
    BY <1>5 DEF DispatchCall
  <2>2. /\ delivery \in [dispatching : BOOLEAN, left : 0 .. Budget,
                         event : Item \cup {Unset}]
        /\ budget \in 0 .. Budget /\ ~round.dispatching
    BY <1>5, PublisherAssumption DEF DispatchCall, PublisherInv, TypeOK
  <2>3. delivery' = [dispatching |-> TRUE, left |-> budget, event |-> delivery.event]
    BY <2>1, <2>2
  <2>4. TypeOK'
    BY <1>5, <2>2, <2>3
       DEF DispatchCall, PublisherInv, TypeOK, dispatcherVars, DispatcherType
  <2>5. QED
    BY <1>5, <2>2, <2>3, <2>4, ElsewhereKeepsInv DEF DispatchCall, dispatcherVars
<1>6. CASE PopEvent
  BY <1>6, PopKeepsInv
<1>7. CASE Deliver
  <2>1. DispatcherType' /\ round'.dispatching = round.dispatching
    <3>1. PICK i \in SubscriptionSlots : round' = [round EXCEPT !.index = i]
      BY <1>7 DEF Deliver, CallHandler
    <3>2. round \in [dispatching : BOOLEAN, id : EventId \cup {AnyId},
                     index : 0 .. SubscriptionCapacity]
      BY DEF PublisherInv, TypeOK, DispatcherType
    <3>3. round' = [dispatching |-> round.dispatching, id |-> round.id, index |-> i]
      BY <3>1, <3>2
    <3>4. i \in 0 .. SubscriptionCapacity
      BY DispatcherAssumption DEF SubscriptionSlots
    <3>5. QED
      BY <1>7, <3>2, <3>3, <3>4
         DEF Deliver, CallHandler, PublisherInv, TypeOK, DispatcherType
  <2>2. TypeOK'
    BY <1>7, <2>1 DEF Deliver, publisherVars, PublisherInv, TypeOK
  <2>3. QED
    BY <1>7, <2>1, <2>2, ElsewhereKeepsInv DEF Deliver, publisherVars, PublisherInv
<1>8. CASE ReleaseSlot
  BY <1>8, ReleaseKeepsInv
<1>9. CASE DispatchReturns
  <2>1. /\ delivery \in [dispatching : BOOLEAN, left : 0 .. Budget,
                         event : Item \cup {Unset}]
        /\ 0 \in 0 .. Budget /\ ~round.dispatching
    BY <1>9, PublisherAssumption DEF DispatchReturns, PublisherInv, TypeOK
  <2>2. delivery' = [dispatching |-> FALSE, left |-> 0, event |-> delivery.event]
    BY <1>9, <2>1 DEF DispatchReturns
  <2>3. TypeOK'
    BY <1>9, <2>1, <2>2
       DEF DispatchReturns, PublisherInv, TypeOK, dispatcherVars, DispatcherType
  <2>4. QED
    BY <1>9, <2>1, <2>2, <2>3, ElsewhereKeepsInv DEF DispatchReturns, dispatcherVars
<1>10. CASE UNCHANGED vars
  <2>1. TypeOK'
    BY <1>10 DEF vars, publisherVars, dispatcherVars, PublisherInv, TypeOK, DispatcherType
  <2>2. QED
    BY <1>10, <2>1, ElsewhereKeepsInv DEF vars, publisherVars, dispatcherVars, PublisherInv
<1>11. QED
  BY <1>1, <1>2, <1>3, <1>4, <1>5, <1>6, <1>7, <1>8, <1>9, <1>10 DEF Next, Dispatching

LEMMA PublisherInvariant == Spec => []PublisherInv
  BY InitPublisherInv, NextPublisherInv, PTL DEF Spec

(* Whatever the number of slots, events and subscriptions, a payload slot  *)
(* is occupied exactly while one live descriptor points to it: no slot     *)
(* leaks, none is shared, and none is reused under a running handler.      *)
THEOREM SlotsFollowDescriptors == Spec => []SlotsMatchDescriptors
<1>1. PublisherInv => SlotsMatchDescriptors
  BY DEF PublisherInv, SlotsMatchDescriptors
<1>2. QED
  BY <1>1, PublisherInvariant, PTL

-----------------------------------------------------------------------------
(* Refinement: the values a sequence of descriptors stands for.            *)

Value(slots, d) ==
  [id |-> d.id,
   payload |-> IF d.payload = NoPayload THEN NoPayload ELSE slots[d.payload]]

Values(slots, t) == [k \in DOMAIN t |-> Value(slots, t[k])]

ValueSet == [id : EventId, payload : Payloads \cup {NoPayload}]
SlotArray == [PayloadSlots -> Payloads \cup {NoPayload}]

LEMMA ValueType ==
  ASSUME NEW slots \in SlotArray, NEW d \in Item
  PROVE  Value(slots, d) \in ValueSet
<1>1. d.id \in EventId /\ d.payload \in PayloadSlots \cup {NoPayload}
  BY PublisherAssumption
<1>2. QED
  BY <1>1 DEF Value, ValueSet, SlotArray

LEMMA ValuesType ==
  ASSUME NEW slots \in SlotArray, NEW t \in Seq(Item)
  PROVE  /\ Values(slots, t) \in Seq(ValueSet)
         /\ Len(Values(slots, t)) = Len(t)
         /\ \A k \in 1 .. Len(t) : Values(slots, t)[k] = Value(slots, t[k])
<1>1. /\ Len(t) \in Nat /\ DOMAIN t = 1 .. Len(t)
      /\ \A k \in 1 .. Len(t) : t[k] \in Item
  BY LenProperties, ElementOfSeq
<1>2. Values(slots, t) = [k \in 1 .. Len(t) |-> Value(slots, t[k])]
  BY <1>1 DEF Values
<1>3. \A k \in 1 .. Len(t) : Value(slots, t[k]) \in ValueSet
  BY <1>1, ValueType
<1>4. QED
  BY <1>1, <1>2, <1>3

LEMMA ValuesAppend ==
  ASSUME NEW slots \in SlotArray, NEW t \in Seq(Item), NEW d \in Item
  PROVE  Values(slots, Append(t, d)) = Append(Values(slots, t), Value(slots, d))
<1> DEFINE a == Append(t, d)
           v == Values(slots, t)
           w == Value(slots, d)
           b == Append(v, w)
<1>1. /\ a \in Seq(Item) /\ Len(a) = Len(t) + 1 /\ Len(t) \in Nat
      /\ \A k \in 1 .. Len(t) : a[k] = t[k]
      /\ a[Len(t) + 1] = d
  BY AppendProperties, LenProperties
<1>2. /\ v \in Seq(ValueSet) /\ Len(v) = Len(t) /\ w \in ValueSet
      /\ \A k \in 1 .. Len(t) : v[k] = Value(slots, t[k])
  BY ValuesType, ValueType
<1> HIDE DEF a, v
<1>3. /\ Values(slots, a) \in Seq(ValueSet)
      /\ Len(Values(slots, a)) = Len(t) + 1
      /\ \A k \in 1 .. Len(t) + 1 : Values(slots, a)[k] = Value(slots, a[k])
  BY <1>1, ValuesType
<1> HIDE DEF w
<1>4. /\ b \in Seq(ValueSet) /\ Len(b) = Len(t) + 1
      /\ \A k \in 1 .. Len(t) : b[k] = v[k]
      /\ b[Len(t) + 1] = w
  BY <1>2, AppendProperties
<1> HIDE DEF b
<1>5. ASSUME NEW k \in 1 .. Len(t) + 1 PROVE Values(slots, a)[k] = b[k]
  <2>1. CASE k \in 1 .. Len(t)
    BY <1>1, <1>2, <1>3, <1>4, <2>1
  <2>2. CASE k = Len(t) + 1
    BY <1>1, <1>3, <1>4, <2>2 DEF w
  <2>3. QED
    BY <1>1, <2>1, <2>2
<1>6. Values(slots, a) = b
  BY <1>3, <1>4, <1>5, SeqEqual
<1>7. QED
  BY <1>6 DEF a, b, v, w

LEMMA ValuesHeadTail ==
  ASSUME NEW slots \in SlotArray, NEW t \in Seq(Item), t # << >>
  PROVE  /\ Values(slots, t) # << >>
         /\ Head(Values(slots, t)) = Value(slots, Head(t))
         /\ Tail(Values(slots, t)) = Values(slots, Tail(t))
<1> DEFINE v == Values(slots, t)
           u == Tail(t)
<1>1. /\ Len(t) \in Nat \ {0} /\ Head(t) = t[1]
      /\ u \in Seq(Item) /\ Len(u) = Len(t) - 1
      /\ \A i \in 1 .. Len(t) - 1 : u[i] = t[i + 1]
  BY HeadTailProperties, EmptySeq
<1>2. /\ v \in Seq(ValueSet) /\ Len(v) = Len(t)
      /\ \A k \in 1 .. Len(t) : v[k] = Value(slots, t[k])
  BY ValuesType
<1> HIDE DEF v, u
<1>3. v # << >>
  BY <1>1, <1>2, EmptySeq
<1>4. /\ Head(v) = v[1] /\ Tail(v) \in Seq(ValueSet) /\ Len(Tail(v)) = Len(t) - 1
      /\ \A i \in 1 .. Len(t) - 1 : Tail(v)[i] = v[i + 1]
  BY <1>2, <1>3, HeadTailProperties
<1>5. /\ Values(slots, u) \in Seq(ValueSet) /\ Len(Values(slots, u)) = Len(t) - 1
      /\ \A i \in 1 .. Len(t) - 1 : Values(slots, u)[i] = Value(slots, u[i])
  BY <1>1, ValuesType
<1>6. ASSUME NEW i \in 1 .. Len(t) - 1 PROVE Tail(v)[i] = Values(slots, u)[i]
  <2>1. i + 1 \in 1 .. Len(t)
    BY <1>1
  <2>2. QED
    BY <1>1, <1>2, <1>4, <1>5, <2>1
<1>7. Tail(v) = Values(slots, u)
  BY <1>4, <1>5, <1>6, SeqEqual
<1>8. Head(v) = Value(slots, Head(t))
  BY <1>1, <1>2, <1>4
<1>9. QED
  BY <1>3, <1>7, <1>8 DEF v, u

(* A payload written to a slot no descriptor points to goes unnoticed.     *)
LEMMA ValuesKept ==
  ASSUME NEW slots \in SlotArray, NEW t \in Seq(Item),
         NEW slot \in PayloadSlots, NEW x \in Payloads,
         \A k \in 1 .. Len(t) : t[k].payload # slot
  PROVE  Values([slots EXCEPT ![slot] = x], t) = Values(slots, t)
<1>1. DOMAIN t = 1 .. Len(t) /\ \A k \in 1 .. Len(t) : t[k] \in Item
  BY LenProperties, ElementOfSeq
<1>2. ASSUME NEW k \in DOMAIN t
      PROVE  Value([slots EXCEPT ![slot] = x], t[k]) = Value(slots, t[k])
  <2>1. t[k].payload \in PayloadSlots \cup {NoPayload} /\ t[k].payload # slot
    BY <1>1, PublisherAssumption
  <2>2. QED
    BY <2>1 DEF Value, SlotArray
<1>3. QED
  BY <1>2 DEF Values

(* What the invariant says of the queue and of the held descriptor.        *)
LEMMA DescriptorFacts ==
  ASSUME PublisherInv
  PROVE  /\ \A k \in 1 .. Len(Items(queue)), i \in PayloadSlots :
              Items(queue)[k].payload = i => occupied_storage[i]
         /\ \A j, k \in 1 .. Len(Items(queue)) :
              /\ Items(queue)[j].payload = Items(queue)[k].payload
              /\ Items(queue)[k].payload # NoPayload
              => j = k
         /\ delivery.event # Unset =>
              /\ delivery.event \in Item
              /\ \A i \in PayloadSlots :
                   delivery.event.payload = i => occupied_storage[i]
              /\ \A k \in 1 .. Len(Items(queue)) :
                   Items(queue)[k].payload = delivery.event.payload
                     => Items(queue)[k].payload = NoPayload
<1> DEFINE t == Items(queue)
<1>1. t \in Seq(Item) /\ Live \in Seq(Item) /\ Len(t) \in Nat
  BY LiveType, LenProperties DEF PublisherInv
<1>2. /\ \A i \in PayloadSlots :
           occupied_storage[i] <=> \E k \in DOMAIN Live : Live[k].payload = i
      /\ \A j, k \in DOMAIN Live :
           Live[j].payload = Live[k].payload /\ Live[k].payload # NoPayload => j = k
  BY DEF PublisherInv, SlotsAgree
<1> HIDE DEF t
<1>3. CASE delivery.event = Unset
  <2>1. Live = t
    BY <1>1, <1>3, NothingHeld DEF Live, HeldDescriptor, t
  <2>2. DOMAIN Live = 1 .. Len(t)
    BY <1>1, <2>1
  <2>3. QED
    BY <1>2, <1>3, <2>1, <2>2 DEF t
<1>4. CASE delivery.event # Unset
  <2>1. delivery.event \in Item
    BY <1>4 DEF PublisherInv, TypeOK
  <2>2. Live = << delivery.event >> \o t
    BY <1>4 DEF Live, HeldDescriptor, t
  <2>3. /\ Len(Live) = Len(t) + 1 /\ Live[1] = delivery.event
        /\ \A k \in 1 .. Len(t) : Live[k + 1] = t[k]
    BY <1>1, <2>1, <2>2, HeldFirst
  <2>4. DOMAIN Live = 1 .. Len(t) + 1
    BY <1>1, <2>3
  <2>5. 1 \in DOMAIN Live /\ \A k \in 1 .. Len(t) : k + 1 \in DOMAIN Live
    BY <1>1, <2>4
  <2>6. \A k \in 1 .. Len(t), i \in PayloadSlots :
          t[k].payload = i => occupied_storage[i]
    BY <1>2, <2>3, <2>5
  <2>7. ASSUME NEW j \in 1 .. Len(t), NEW k \in 1 .. Len(t),
               t[j].payload = t[k].payload, t[k].payload # NoPayload
        PROVE  j = k
    <3>1. j + 1 = k + 1
      BY <1>2, <2>3, <2>5, <2>7
    <3>2. QED
      BY <3>1
  <2>8. \A i \in PayloadSlots : delivery.event.payload = i => occupied_storage[i]
    BY <1>2, <2>3, <2>5
  <2>9. ASSUME NEW k \in 1 .. Len(t), t[k].payload = delivery.event.payload,
               t[k].payload # NoPayload
        PROVE  FALSE
    <3>1. k + 1 = 1
      BY <1>2, <2>3, <2>5, <2>9
    <3>2. QED
      BY <3>1
  <2>10. QED
    BY <2>1, <2>6, <2>7, <2>8, <2>9 DEF t
<1>5. QED
  BY <1>3, <1>4

-----------------------------------------------------------------------------
(* Refinement: the steps.                                                  *)

Channel == [pending |-> Pending, held |-> Held]

LEMMA ChannelNow ==
  /\ Pending = Values(payload_storage, Items(queue))
  /\ delivery.event = Unset => Held = << >>
  /\ delivery.event # Unset => Held = << Value(payload_storage, delivery.event) >>
  BY DEF Pending, Held, Published, Values, Value

LEMMA ChannelNext ==
  /\ Pending' = Values(payload_storage', Items(queue)')
  /\ delivery'.event = Unset => Held' = << >>
  /\ delivery'.event # Unset => Held' = << Value(payload_storage', delivery'.event) >>
  BY DEF Pending, Held, Published, Values, Value

(* Only a descriptor with a slot stands for an event with a payload.       *)
LEMMA CopiedHasSlot ==
  ASSUME NEW slots \in SlotArray, NEW d \in Item, Value(slots, d) \in Copied
  PROVE  d.payload \in PayloadSlots
<1>1. Value(slots, d).payload \in Payloads
  BY DEF Payloads
<1>2. Value(slots, d).payload # NoPayload
  BY <1>1, PublisherAssumption
<1>3. QED
  BY <1>2, PublisherAssumption DEF Value

(* EventChannel counts with the operator of its own FiniteSets.            *)
LEMMA SameCardinality ==
  ASSUME NEW S
  PROVE  EventChannel!Cardinality(S) = Cardinality(S)
  BY DEF EventChannel!Cardinality, Cardinality

(* The pigeonhole argument: events with a payload and a free slot together *)
(* are no more than the slots.                                             *)
LEMMA FreeSlotIsRoom ==
  ASSUME PublisherInv, NEW slot \in PayloadSlots, ~occupied_storage[slot]
  PROVE  EventChannel!SlotsInUse(Channel) < Capacity
<1> DEFINE t == Items(queue)
           waiting == {k \in DOMAIN Pending : Pending[k] \in Copied}
           running == {k \in DOMAIN Held : Held[k] \in Copied}
           target == PayloadSlots \ {slot}
           slotOf == [k \in waiting |-> t[k].payload]
<1>1. /\ t \in Seq(Item) /\ payload_storage \in SlotArray
  BY LiveType DEF PublisherInv, TypeOK, SlotArray
<1>2. /\ DOMAIN Pending = 1 .. Len(t) /\ DOMAIN t = 1 .. Len(t)
      /\ \A k \in 1 .. Len(t) : Pending[k] = Value(payload_storage, t[k]) /\ t[k] \in Item
  BY <1>1, ChannelNow, ValuesType, LenProperties, ElementOfSeq
<1>3. \A k \in waiting : /\ k \in 1 .. Len(t) /\ t[k].payload \in PayloadSlots
                         /\ occupied_storage[t[k].payload]
  <2> TAKE k \in waiting
  <2>1. k \in 1 .. Len(t) /\ Value(payload_storage, t[k]) \in Copied /\ t[k] \in Item
    BY <1>2
  <2>2. t[k].payload \in PayloadSlots
    BY <1>1, <2>1, CopiedHasSlot
  <2>3. QED
    BY <2>1, <2>2, DescriptorFacts
<1>4. \A j, k \in waiting : slotOf[j] = slotOf[k] => j = k
  <2>1. ASSUME NEW j \in waiting, NEW k \in waiting, slotOf[j] = slotOf[k] PROVE j = k
    <3>1. /\ j \in 1 .. Len(t) /\ k \in 1 .. Len(t)
          /\ t[j].payload = t[k].payload /\ t[k].payload \in PayloadSlots
      BY <1>3, <2>1
    <3>2. t[k].payload # NoPayload
      BY <3>1, PublisherAssumption
    <3>3. QED
      BY <3>1, <3>2, DescriptorFacts
  <2>2. QED
    BY <2>1
<1>5. /\ IsFiniteSet(PayloadSlots) /\ Cardinality(PayloadSlots) = Capacity
      /\ Capacity \in Nat \ {0}
  <2>1. 0 \in Int /\ Capacity - 1 \in Int /\ ~(0 > Capacity - 1)
        /\ Capacity \in Nat \ {0} /\ (Capacity - 1) - 0 + 1 = Capacity
    BY RingAssumption
  <2>2. QED
    BY <2>1, FS_Interval DEF PayloadSlots, Index
<1>6. IsFiniteSet(target) /\ Cardinality(target) = Capacity - 1
  BY <1>5, FS_RemoveElement
<1>7. EventChannel!SlotsInUse(Channel) = Cardinality(waiting) + Cardinality(running)
  BY SameCardinality DEF EventChannel!SlotsInUse, Channel
<1>8. CASE running = {}
  <2>1. slotOf \in [waiting -> target]
    BY <1>3
  <2>2. slotOf \in Injection(waiting, target)
    BY <1>4, <2>1 DEF Injection, IsInjective
  <2> HIDE DEF slotOf, waiting, target, running
  <2>3. IsFiniteSet(waiting) /\ Cardinality(waiting) <= Cardinality(target)
    BY <1>6, <2>2, FS_Injection
  <2>4. Cardinality(waiting) \in Nat /\ Cardinality(running) = 0
    BY <1>8, <2>3, FS_CardinalityType, FS_EmptySet
  <2>5. QED
    BY <1>5, <1>6, <1>7, <2>3, <2>4
<1>9. CASE running # {}
  <2> DEFINE own == delivery.event.payload
             rest == target \ {own}
  <2>1. delivery.event # Unset
    BY <1>9, ChannelNow
  <2>2. Held = << Value(payload_storage, delivery.event) >> /\ delivery.event \in Item
    BY <2>1, ChannelNow, DescriptorFacts
  <2>3. running = {1} /\ Value(payload_storage, delivery.event) \in Copied
    BY <1>9, <2>2
  <2>4. own \in PayloadSlots /\ own # slot
    BY <1>1, <2>1, <2>2, <2>3, CopiedHasSlot, DescriptorFacts
  <2>5. slotOf \in [waiting -> rest]
    <3>1. ASSUME NEW k \in waiting PROVE t[k].payload \in rest
      <4>1. k \in 1 .. Len(t) /\ t[k].payload \in target /\ t[k].payload # NoPayload
        BY <1>3, PublisherAssumption
      <4>2. QED
        BY <2>1, <4>1, DescriptorFacts
    <3>2. QED
      BY <3>1
  <2>6. slotOf \in Injection(waiting, rest)
    BY <1>4, <2>5 DEF Injection, IsInjective
  <2>7. IsFiniteSet(rest) /\ Cardinality(rest) = Capacity - 2
    <3>1. own \in target
      BY <2>4
    <3> HIDE DEF target, own
    <3>2. IsFiniteSet(rest) /\ Cardinality(rest) = Cardinality(target) - 1
      BY <1>6, <3>1, FS_RemoveElement
    <3>3. QED
      BY <1>5, <1>6, <3>2
  <2> HIDE DEF slotOf, waiting, target, running, rest
  <2>8. IsFiniteSet(waiting) /\ Cardinality(waiting) <= Cardinality(rest)
    BY <2>6, <2>7, FS_Injection
  <2>9. Cardinality(waiting) \in Nat /\ Cardinality(running) = 1
    BY <2>3, <2>8, FS_CardinalityType, FS_Singleton
  <2>10. QED
    BY <1>5, <1>7, <2>7, <2>8, <2>9
<1>10. QED
  BY <1>8, <1>9

LEMMA RoomInQueue ==
  ASSUME PublisherInv
  PROVE  ~IsFull(queue) <=> Len(Pending) < Capacity
<1>1. /\ queue \in Ring /\ Coherent(queue) /\ payload_storage \in SlotArray
      /\ Items(queue) \in Seq(Item)
  BY LiveType DEF PublisherInv, TypeOK, SlotArray
<1>2. Len(Pending) = queue.count
  BY <1>1, ItemsType, ChannelNow, ValuesType
<1>3. queue.count \in 0 .. Capacity /\ Capacity \in Nat
  BY <1>1, RingAssumption DEF Ring
<1>4. QED
  BY <1>2, <1>3 DEF IsFull

LEMMA CopiedPublishes ==
  ASSUME PublisherInv, NEW e \in Copied, PublishCopied(e)
  PROVE  EventChannel!Publish(e)
<1>1. PICK slot \in PayloadSlots :
        /\ find_free_slot(slot) /\ ~IsFull(queue)
        /\ payload_storage' = [payload_storage EXCEPT ![slot] = e.payload]
        /\ queue' = Push(queue, [id |-> e.id, payload |-> slot])
        /\ delivery' = delivery
  BY DEF PublishCopied
<1> DEFINE d == [id |-> e.id, payload |-> slot]
           t == Items(queue)
           written == [payload_storage EXCEPT ![slot] = e.payload]
<1>2. /\ d \in Item /\ d.payload = slot /\ d.id = e.id /\ e.payload \in Payloads
      /\ slot # NoPayload
  BY DescriptorTypes, PublisherAssumption
<1> HIDE DEF d
<1>3. /\ payload_storage \in SlotArray /\ t \in Seq(Item)
      /\ written \in SlotArray /\ written[slot] = e.payload
  BY <1>2, LiveType DEF PublisherInv, TypeOK, SlotArray
<1>4. Items(queue)' = Append(t, d)
  BY <1>1, <1>2, PushAppends DEF PublisherInv, TypeOK, d
<1>5. Value(written, d) = e
  BY <1>2, <1>3, PublisherAssumption DEF Value
<1>6. ~occupied_storage[slot]
  BY <1>1 DEF find_free_slot
<1>7. Values(written, t) = Values(payload_storage, t)
  <2>1. \A k \in 1 .. Len(t) : t[k].payload # slot
    BY <1>6, DescriptorFacts
  <2> HIDE DEF t
  <2>2. QED
    BY <1>2, <1>3, <2>1, ValuesKept
<1>8. Pending' = Append(Pending, e)
  <2> HIDE DEF written, t
  <2>1. Pending = Values(payload_storage, t)
    BY ChannelNow DEF t
  <2>2. Pending' = Values(written, Append(t, d))
    BY <1>1, <1>4, ChannelNext DEF written
  <2>3. QED
    BY <1>2, <1>3, <1>5, <1>7, <2>1, <2>2, ValuesAppend
<1>9. Held' = Held
  <2>1. CASE delivery.event = Unset
    BY <1>1, <2>1, ChannelNow, ChannelNext
  <2>2. CASE delivery.event # Unset
    <3>1. /\ delivery.event \in Item /\ delivery.event.payload # slot
          /\ delivery.event.payload \in PayloadSlots \cup {NoPayload}
      BY <1>6, <2>2, DescriptorFacts, PublisherAssumption
    <3>2. Value(written, delivery.event) = Value(payload_storage, delivery.event)
      BY <1>3, <3>1 DEF Value, SlotArray
    <3>3. QED
      BY <1>1, <2>2, <3>2, ChannelNow, ChannelNext
  <2>3. QED
    BY <2>1, <2>2
<1>10. EventChannel!HasRoom(Channel, e)
  BY <1>1, <1>6, FreeSlotIsRoom, RoomInQueue DEF EventChannel!HasRoom, Channel
<1>11. QED
  BY <1>8, <1>9, <1>10
     DEF EventChannel!Publish, EventChannel!Published, EventChannel!HasRoom, Channel

LEMMA BarePublishes ==
  ASSUME PublisherInv, NEW e \in Bare, PublishBare(e)
  PROVE  EventChannel!Publish(e)
<1> DEFINE d == [id |-> e.id, payload |-> NoPayload]
           t == Items(queue)
<1>1. /\ ~IsFull(queue) /\ queue' = Push(queue, d)
      /\ payload_storage' = payload_storage /\ delivery' = delivery
  BY DEF PublishBare
<1>2. /\ d \in Item /\ d.payload = NoPayload /\ e \notin Copied
      /\ Value(payload_storage, d) = e
  <2>1. e = [id |-> e.id, payload |-> NoPayload]
    BY PublisherAssumption
  <2>2. d \in Item /\ d.payload = NoPayload /\ Value(payload_storage, d) = e
    BY <2>1, DescriptorTypes DEF Value
  <2>3. e \notin Copied
    BY <2>1, PublisherAssumption DEF Payloads
  <2>4. QED
    BY <2>2, <2>3
<1> HIDE DEF d
<1>3. payload_storage \in SlotArray /\ t \in Seq(Item)
  BY LiveType DEF PublisherInv, TypeOK, SlotArray
<1>4. Items(queue)' = Append(t, d)
  BY <1>1, <1>2, PushAppends DEF PublisherInv, TypeOK
<1> HIDE DEF t
<1>5. Pending' = Append(Pending, e)
  <2>1. Pending = Values(payload_storage, t)
    BY ChannelNow DEF t
  <2>2. Pending' = Values(payload_storage, Append(t, d))
    BY <1>1, <1>4, ChannelNext
  <2>3. QED
    BY <1>2, <1>3, <2>1, <2>2, ValuesAppend
<1>6. Held' = Held
  BY <1>1, ChannelNow, ChannelNext
<1>7. EventChannel!HasRoom(Channel, e)
  BY <1>1, <1>2, RoomInQueue DEF EventChannel!HasRoom, Channel
<1>8. QED
  BY <1>5, <1>6, <1>7
     DEF EventChannel!Publish, EventChannel!Published, EventChannel!HasRoom, Channel

LEMMA PopTakes ==
  ASSUME PublisherInv, PopEvent
  PROVE  EventChannel!Take
<1> DEFINE t == Items(queue)
<1>1. MayPop
  BY DEF PopEvent
<1>2. /\ PayloadIsValid(Oldest(queue)) /\ delivery.event = Unset
      /\ Oldest(queue) = Head(t) /\ t # << >>
  BY <1>1, PopFindsPayload
<1>3. /\ queue' = Pop(queue) /\ payload_storage' = payload_storage
      /\ delivery' = [delivery EXCEPT !.event = Oldest(queue)]
  BY <1>2 DEF PopEvent
<1>4. payload_storage \in SlotArray /\ t \in Seq(Item)
  BY LiveType DEF PublisherInv, TypeOK, SlotArray
<1>5. Items(queue)' = Tail(t) /\ Oldest(queue) \in Item
  BY <1>1, <1>3, PopTakesFirst DEF PublisherInv, TypeOK, MayPop
<1>6. delivery'.event = Oldest(queue) /\ Oldest(queue) # Unset
  BY <1>3, <1>5, RingAssumption DEF PublisherInv, TypeOK
<1> HIDE DEF t
<1>7. Pending # << >> /\ Pending' = Tail(Pending)
  <2>1. Pending = Values(payload_storage, t)
    BY ChannelNow DEF t
  <2>2. Pending' = Values(payload_storage, Tail(t))
    BY <1>3, <1>5, ChannelNext
  <2>3. QED
    BY <1>2, <1>4, <2>1, <2>2, ValuesHeadTail
<1>8. Held = << >> /\ Held' = << Head(Pending) >>
  <2>1. Held = << >>
    BY <1>2, ChannelNow
  <2>2. Held' = << Value(payload_storage, Head(t)) >>
    BY <1>2, <1>3, <1>6, ChannelNext
  <2>3. Head(Pending) = Value(payload_storage, Head(t))
    BY <1>2, <1>4, ChannelNow, ValuesHeadTail DEF t
  <2>4. QED
    BY <2>1, <2>2, <2>3
<1>9. QED
  BY <1>7, <1>8 DEF EventChannel!Take, EventChannel!Taken, Channel

LEMMA ReleaseReleases ==
  ASSUME PublisherInv, ReleaseSlot
  PROVE  EventChannel!Release
<1>1. /\ delivery.event # Unset /\ delivery'.event = Unset
      /\ queue' = queue /\ payload_storage' = payload_storage
  BY ReleaseKeepsInv DEF ReleaseSlot, EndRound, PublisherInv, TypeOK
<1>2. Items(queue)' = Items(queue)
  BY <1>1 DEF Items, Slot
<1>3. Pending' = Pending
  BY <1>1, <1>2, ChannelNow, ChannelNext
<1>4. Held # << >> /\ Held' = << >>
  BY <1>1, ChannelNow, ChannelNext
<1>5. QED
  BY <1>3, <1>4 DEF EventChannel!Release, EventChannel!Released, Channel

(* Steps that leave the queue, the slots and the held descriptor alone.    *)
LEMMA ElsewhereStutters ==
  ASSUME UNCHANGED <<queue, payload_storage>>, delivery'.event = delivery.event
  PROVE  UNCHANGED Channel
<1>1. Items(queue)' = Items(queue)
  BY DEF Items, Slot
<1>2. Pending' = Pending
  BY <1>1, ChannelNow, ChannelNext
<1>3. Held' = Held
  BY ChannelNow, ChannelNext
<1>4. QED
  BY <1>2, <1>3 DEF Channel

(* A publish refused by the full queue has written to a free slot only.    *)
LEMMA RefusedStutters ==
  ASSUME PublisherInv, NEW e \in Copied, PublishCopiedFull(e)
  PROVE  UNCHANGED Channel
<1>1. PICK slot \in PayloadSlots :
        /\ find_free_slot(slot)
        /\ payload_storage' = [payload_storage EXCEPT ![slot] = e.payload]
        /\ queue' = queue /\ delivery' = delivery
  BY DEF PublishCopiedFull
<1> DEFINE t == Items(queue)
           written == [payload_storage EXCEPT ![slot] = e.payload]
<1>2. /\ payload_storage \in SlotArray /\ t \in Seq(Item)
      /\ e.payload \in Payloads /\ ~occupied_storage[slot]
  BY <1>1, LiveType, DescriptorTypes
     DEF PublisherInv, TypeOK, SlotArray, find_free_slot
<1>3. Items(queue)' = t
  BY <1>1 DEF Items, Slot
<1>4. Values(written, t) = Values(payload_storage, t)
  <2>1. \A k \in 1 .. Len(t) : t[k].payload # slot
    BY <1>2, DescriptorFacts
  <2> HIDE DEF t
  <2>2. QED
    BY <1>2, <2>1, ValuesKept
<1>5. Pending' = Pending
  <2> HIDE DEF written, t
  <2>1. Pending = Values(payload_storage, t)
    BY ChannelNow DEF t
  <2>2. Pending' = Values(written, t)
    BY <1>1, <1>3, ChannelNext DEF written
  <2>3. QED
    BY <1>4, <2>1, <2>2
<1>6. Held' = Held
  <2>1. CASE delivery.event = Unset
    BY <1>1, <2>1, ChannelNow, ChannelNext
  <2>2. CASE delivery.event # Unset
    <3>1. /\ delivery.event \in Item /\ delivery.event.payload # slot
          /\ delivery.event.payload \in PayloadSlots \cup {NoPayload}
      BY <1>2, <2>2, DescriptorFacts, PublisherAssumption
    <3>2. Value(written, delivery.event) = Value(payload_storage, delivery.event)
      BY <1>2, <3>1 DEF Value, SlotArray
    <3>3. QED
      BY <1>1, <2>2, <3>2, ChannelNow, ChannelNext
  <2>3. QED
    BY <2>1, <2>2
<1>7. QED
  BY <1>5, <1>6 DEF Channel

LEMMA ChannelInit == Init => Channel = EventChannel!EmptyChannel
<1> SUFFICES ASSUME Init PROVE Channel = EventChannel!EmptyChannel
  OBVIOUS
<1>1. Items(queue) = << >>
  BY EmptyRingIsEmpty DEF Init
<1>2. Pending = << >>
  BY <1>1 DEF Pending
<1>3. Held = << >>
  BY DEF Init, Held
<1>4. QED
  BY <1>2, <1>3 DEF Channel, EventChannel!EmptyChannel

LEMMA ChannelStep ==
  PublisherInv /\ [Next]_vars => [EventChannel!Next]_Channel
<1> SUFFICES ASSUME PublisherInv, [Next]_vars
             PROVE  EventChannel!Next \/ UNCHANGED Channel
  OBVIOUS
<1>1. ASSUME NEW e \in Copied, PublishCopied(e) PROVE EventChannel!Next
  BY <1>1, CopiedPublishes DEF EventChannel!Next, EventChannel!Event
<1>2. CASE \E e \in Copied : PublishCopiedFull(e)
  BY <1>2, RefusedStutters
<1>3. ASSUME NEW e \in Bare, PublishBare(e) PROVE EventChannel!Next
  BY <1>3, BarePublishes DEF EventChannel!Next, EventChannel!Event
<1>4. CASE \E s \in Subscription : PublisherSubscribe(s)
  BY <1>4, ElsewhereStutters DEF PublisherSubscribe, publisherVars
<1>5. CASE DispatchCall \/ DispatchReturns
  <2>1. delivery'.event = delivery.event
    BY <1>5 DEF DispatchCall, DispatchReturns, PublisherInv, TypeOK
  <2>2. QED
    BY <1>5, <2>1, ElsewhereStutters DEF DispatchCall, DispatchReturns
<1>6. CASE PopEvent
  BY <1>6, PopTakes DEF EventChannel!Next
<1>7. CASE Deliver
  BY <1>7, ElsewhereStutters DEF Deliver, publisherVars
<1>8. CASE ReleaseSlot
  BY <1>8, ReleaseReleases DEF EventChannel!Next
<1>9. CASE UNCHANGED vars
  BY <1>9, ElsewhereStutters DEF vars, publisherVars
<1>10. QED
  BY <1>1, <1>2, <1>3, <1>4, <1>5, <1>6, <1>7, <1>8, <1>9 DEF Next, Dispatching

(* Whatever the sizes, the publisher is an EventChannel: published events  *)
(* are delivered once, in order, one at a time, each with the payload it   *)
(* was published with until its handlers returned; and publish accepts an  *)
(* event only where the channel has room.                                  *)
THEOREM PublisherImplementsChannel == Spec => ImplementsChannel
<1>1. Spec => EventChannel!Spec
  BY ChannelInit, ChannelStep, PublisherInvariant, PTL
     DEF Spec, EventChannel!Spec, Channel
<1>2. QED
  BY <1>1 DEF ImplementsChannel
=============================================================================
