-------------------------- MODULE RingQueueProofs --------------------------
(***************************************************************************)
(* What the ring operators do to the sequence the ring stands for, and     *)
(* induction over the natural numbers as several proofs use it: with sets  *)
(* of numbers in the place of predicates.                                  *)
(***************************************************************************)
EXTENDS RingQueue, SequenceTheorems, WellFoundedInduction, TLAPS

(* Below twice the capacity, reducing an index is one subtraction. *)
LEMMA WrapOnce ==
  \A k \in Nat : k < 2 * Capacity =>
    /\ k < Capacity => k % Capacity = k
    /\ k >= Capacity => k % Capacity = k - Capacity
  BY RingAssumption

LEMMA SlotRange ==
  ASSUME NEW q \in Ring, NEW i \in 1 .. Capacity
  PROVE  Slot(q, i) \in Index
  BY RingAssumption DEF Slot, Ring, Index

(* The slots of different items differ, and the next free slot is not one. *)
LEMMA SlotsDiffer ==
  ASSUME NEW q \in Ring, NEW i \in 1 .. Capacity, NEW j \in 1 .. Capacity,
         Slot(q, i) = Slot(q, j)
  PROVE  i = j
<1>1. /\ q.head \in Nat /\ q.head < Capacity
      /\ q.head + i - 1 \in Nat /\ q.head + i - 1 < 2 * Capacity
      /\ q.head + j - 1 \in Nat /\ q.head + j - 1 < 2 * Capacity
  BY RingAssumption DEF Ring, Index
<1>2. QED
  BY <1>1, WrapOnce, RingAssumption DEF Slot

LEMMA ItemsType ==
  ASSUME NEW q \in Ring, Coherent(q)
  PROVE  /\ Items(q) \in Seq(Item)
         /\ Len(Items(q)) = q.count
         /\ \A i \in 1 .. q.count : Items(q)[i] = q.storage[Slot(q, i)]
<1>1. q.count \in Nat
  BY RingAssumption DEF Ring
<1>2. QED
  BY <1>1 DEF Items, Coherent

(* A push that finds room appends. *)
LEMMA PushAppends ==
  ASSUME NEW q \in Ring, Coherent(q), ~IsFull(q), NEW x \in Item
  PROVE  /\ Push(q, x) \in Ring
         /\ Coherent(Push(q, x))
         /\ Items(Push(q, x)) = Append(Items(q), x)
<1> DEFINE p == Push(q, x)
<1>1. /\ q.count \in 0 .. Capacity - 1
      /\ q.head \in Index /\ q.tail \in Index
      /\ q.tail = Slot(q, q.count + 1)
  BY RingAssumption DEF Ring, IsFull, Coherent, Slot, Index
<1>2. /\ p \in Ring
      /\ p.head = q.head
      /\ p.count = q.count + 1
      /\ p.tail = Advance(q.tail)
      /\ p.storage = [q.storage EXCEPT ![q.tail] = x]
  BY <1>1, RingAssumption DEF Push, Ring, Advance, Index
<1> HIDE DEF p
<1>3. \A i \in 1 .. q.count + 1 : Slot(p, i) = Slot(q, i) /\ Slot(q, i) \in Index
  BY <1>1, <1>2, SlotRange, RingAssumption DEF Slot
<1>4. \A i \in 1 .. q.count + 1 :
        p.storage[Slot(p, i)] = IF i = q.count + 1 THEN x ELSE q.storage[Slot(q, i)]
  <2> TAKE i \in 1 .. q.count + 1
  <2>1. i = q.count + 1 <=> Slot(q, i) = q.tail
    BY <1>1, SlotsDiffer, RingAssumption
  <2>2. QED
    BY <1>2, <1>3, <2>1 DEF Ring
<1>5. p.tail = (p.head + p.count) % Capacity
  <2>1. q.tail = (q.head + q.count) % Capacity
    BY DEF Coherent
  <2>2. /\ q.head + q.count \in Nat /\ q.head + q.count < 2 * Capacity
        /\ q.head + q.count + 1 \in Nat /\ q.head + q.count + 1 < 2 * Capacity
        /\ q.tail + 1 \in Nat /\ q.tail + 1 < 2 * Capacity
    BY <1>1, RingAssumption DEF Index
  <2>3. (q.tail + 1) % Capacity = (q.head + q.count + 1) % Capacity
    BY <1>1, <2>1, <2>2, WrapOnce, RingAssumption DEF Index
  <2>4. q.head + (q.count + 1) = q.head + q.count + 1
    BY <1>1, RingAssumption DEF Index
  <2>5. QED
    BY <1>2, <2>3, <2>4 DEF Advance
<1>6. Coherent(p)
  BY <1>1, <1>2, <1>4, <1>5, RingAssumption DEF Coherent
<1>7. Items(p) = Append(Items(q), x)
  <2>1. /\ Items(q) \in Seq(Item) /\ Len(Items(q)) = q.count
        /\ \A i \in 1 .. q.count : Items(q)[i] = q.storage[Slot(q, i)]
    BY ItemsType
  <2>2. /\ Items(p) \in Seq(Item) /\ Len(Items(p)) = q.count + 1
        /\ \A i \in 1 .. q.count + 1 : Items(p)[i] = p.storage[Slot(p, i)]
    BY <1>2, <1>6, ItemsType
  <2>3. /\ Append(Items(q), x) \in Seq(Item)
        /\ Len(Append(Items(q), x)) = q.count + 1
        /\ \A i \in 1 .. q.count + 1 :
             Append(Items(q), x)[i] = IF i = q.count + 1 THEN x ELSE Items(q)[i]
    BY <1>1, <2>1
  <2>4. \A i \in 1 .. q.count + 1 : Items(p)[i] = Append(Items(q), x)[i]
    BY <1>1, <1>4, <2>1, <2>2, <2>3
  <2>5. QED
    BY <2>2, <2>3, <2>4, SeqEqual
<1>8. QED
  BY <1>2, <1>6, <1>7 DEF p

(* A pop that finds an item takes the first one. *)
LEMMA PopTakesFirst ==
  ASSUME NEW q \in Ring, Coherent(q), ~IsEmpty(q)
  PROVE  /\ Pop(q) \in Ring
         /\ Coherent(Pop(q))
         /\ Items(q) # << >>
         /\ Oldest(q) = Head(Items(q))
         /\ Oldest(q) \in Item
         /\ Items(Pop(q)) = Tail(Items(q))
<1> DEFINE p == Pop(q)
<1>1. /\ q.count \in 1 .. Capacity
      /\ q.head \in Index /\ q.tail \in Index
      /\ Slot(q, 1) = q.head
  BY RingAssumption DEF Ring, IsEmpty, Slot, Index
<1>2. /\ p \in Ring
      /\ p.head = Advance(q.head)
      /\ p.count = q.count - 1
      /\ p.tail = q.tail
      /\ p.storage = q.storage
  <2>1. Advance(q.head) \in Index /\ q.count - 1 \in 0 .. Capacity
    BY <1>1, RingAssumption DEF Advance, Index
  <2>2. QED
    BY <2>1 DEF Pop, Ring
<1> HIDE DEF p
<1>3. /\ p.head \in Nat /\ p.head < Capacity
      /\ q.head + 1 < Capacity => p.head = q.head + 1
      /\ q.head + 1 >= Capacity => p.head = q.head + 1 - Capacity
  BY <1>1, <1>2, WrapOnce, RingAssumption DEF Advance, Index
<1>4. \A i \in 1 .. p.count : Slot(p, i) = Slot(q, i + 1)
  <2> TAKE i \in 1 .. p.count
  <2>1. /\ p.head + i - 1 \in Nat /\ p.head + i - 1 < 2 * Capacity
        /\ q.head + i \in Nat /\ q.head + i < 2 * Capacity
    BY <1>1, <1>2, <1>3, RingAssumption DEF Index
  <2>2. (p.head + i - 1) % Capacity = (q.head + i) % Capacity
    BY <1>1, <1>3, <2>1, WrapOnce, RingAssumption DEF Index
  <2>3. q.head + (i + 1) - 1 = q.head + i
    BY <1>1 DEF Index
  <2>4. QED
    BY <2>2, <2>3 DEF Slot
<1>5. p.tail = (p.head + p.count) % Capacity
  <2>1. q.tail = (q.head + q.count) % Capacity
    BY DEF Coherent
  <2>2. /\ q.head + q.count \in Nat /\ q.head + q.count < 2 * Capacity
        /\ p.head + p.count \in Nat /\ p.head + p.count < 2 * Capacity
    BY <1>1, <1>2, <1>3, RingAssumption DEF Index
  <2>3. (p.head + p.count) % Capacity = (q.head + q.count) % Capacity
    BY <1>1, <1>2, <1>3, <2>2, WrapOnce, RingAssumption DEF Index
  <2>4. QED
    BY <1>2, <2>1, <2>3
<1>6. Coherent(p)
  BY <1>1, <1>2, <1>4, <1>5, RingAssumption DEF Coherent
<1>7. /\ Items(q) \in Seq(Item) /\ Len(Items(q)) = q.count
      /\ \A i \in 1 .. q.count : Items(q)[i] = q.storage[Slot(q, i)]
  BY ItemsType
<1>8. Items(p) = Tail(Items(q))
  <2>1. /\ Items(p) \in Seq(Item) /\ Len(Items(p)) = q.count - 1
        /\ \A i \in 1 .. q.count - 1 : Items(p)[i] = p.storage[Slot(p, i)]
    BY <1>2, <1>6, ItemsType
  <2>2. /\ Tail(Items(q)) \in Seq(Item)
        /\ Len(Tail(Items(q))) = q.count - 1
        /\ \A i \in 1 .. q.count - 1 : Tail(Items(q))[i] = Items(q)[i + 1]
    BY <1>1, <1>7, HeadTailProperties
  <2>3. \A i \in 1 .. q.count - 1 : Items(p)[i] = Tail(Items(q))[i]
    <3> TAKE i \in 1 .. q.count - 1
    <3>1. i \in 1 .. p.count /\ i + 1 \in 1 .. q.count
      BY <1>1, <1>2
    <3>2. Items(p)[i] = q.storage[Slot(q, i + 1)]
      BY <1>2, <1>4, <2>1, <3>1
    <3>3. Tail(Items(q))[i] = Items(q)[i + 1]
      BY <2>2
    <3>4. QED
      BY <1>7, <3>1, <3>2, <3>3
  <2>4. QED
    BY <2>1, <2>2, <2>3, SeqEqual
<1>9. /\ Items(q) # << >> /\ Oldest(q) = Head(Items(q)) /\ Oldest(q) \in Item
  BY <1>1, <1>7 DEF Oldest
<1>10. QED
  BY <1>2, <1>6, <1>8, <1>9 DEF p

(* Init and clear leave the ring empty whatever the array still holds. *)
LEMMA ClearEmpties ==
  ASSUME NEW q \in Ring
  PROVE  /\ Clear(q) \in Ring /\ Coherent(Clear(q)) /\ Items(Clear(q)) = << >>
<1>1. Clear(q) \in Ring /\ Clear(q).head = 0 /\ Clear(q).tail = 0 /\ Clear(q).count = 0
  BY RingAssumption DEF Clear, Ring, Index
<1>2. Coherent(Clear(q))
  BY <1>1, WrapOnce, RingAssumption DEF Coherent
<1>3. Items(Clear(q)) = << >>
  BY <1>1, <1>2, ItemsType
<1>4. QED
  BY <1>1, <1>2, <1>3

LEMMA EmptyRingIsEmpty ==
  /\ EmptyRing \in Ring /\ Coherent(EmptyRing) /\ Items(EmptyRing) = << >>
<1>1. /\ EmptyRing \in Ring
      /\ EmptyRing.head = 0 /\ EmptyRing.tail = 0 /\ EmptyRing.count = 0
  BY RingAssumption DEF EmptyRing, Ring, Index
<1>2. Coherent(EmptyRing)
  BY <1>1, WrapOnce, RingAssumption DEF Coherent
<1>3. Items(EmptyRing) = << >>
  BY <1>1, <1>2, ItemsType
<1>4. QED
  BY <1>1, <1>2, <1>3

-----------------------------------------------------------------------------

LEMMA LeastElement ==
  ASSUME NEW T \in SUBSET Nat, T # {}
  PROVE  \E x \in T : \A y \in T : x <= y
<1>1. \E x \in T : \A y \in T : ~(<<y, x>> \in OpToRel(<, Nat))
  BY NatLessThanWellFounded, WFMin
<1>2. \A x, y \in T : y < x => <<y, x>> \in OpToRel(<, Nat)
  BY DEF OpToRel
<1>3. PICK x \in T : \A y \in T : ~(y < x)
  BY <1>1, <1>2
<1>4. QED
  BY <1>3

LEMMA SetInduction ==
  ASSUME NEW T \in SUBSET Nat, 0 \in T, \A n \in T : n + 1 \in T
  PROVE  T = Nat
<1>1. SUFFICES ASSUME Nat \ T # {} PROVE FALSE
  OBVIOUS
<1>2. Nat \ T \in SUBSET Nat
  OBVIOUS
<1>3. PICK x \in Nat \ T : \A y \in Nat \ T : x <= y
  BY <1>1, <1>2, LeastElement
<1>4. x # 0 /\ x - 1 \in Nat /\ x - 1 \in T
  BY <1>3
<1>5. QED
  BY <1>3, <1>4
=============================================================================
