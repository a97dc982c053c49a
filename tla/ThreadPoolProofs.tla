-------------------------- MODULE ThreadPoolProofs --------------------------
(***************************************************************************)
(* For any number of workers, any queue length and any jobs: accepted jobs *)
(* start in order and at most once, a successful join leaves none          *)
(* unsettled, and no thread outlives the mutex and condition it uses.      *)
(*                                                                         *)
(* The invariant adds to these the pool's life cycle: which states go with *)
(* which management call, which threads exist, and in which states jobs    *)
(* can be pending or dropped.                                              *)
(***************************************************************************)
EXTENDS ThreadPool, RingQueueProofs, FiniteSetTheorems

Alive(w) == worker[w] \in {"ready", "waiting", "running"}

(* The threads 1 .. created_workers exist, the first joined_workers of     *)
(* them were joined.                                                       *)
Threads ==
  /\ joined_workers <= created_workers
  /\ \A w \in Workers :
       /\ w > created_workers => worker[w] = "none"
       /\ w <= created_workers => worker[w] # "none"
       /\ w <= joined_workers => worker[w] = "exited"

LifeCycle ==
  /\ state \in {"RUNNING", "DRAINING", "STOPPING"}
       => mutex_initialized /\ condition_initialized
  /\ state \in {"UNINITIALIZED", "JOINED"} => joined_workers = created_workers
  /\ state = "UNINITIALIZED" => created_workers = 0 /\ ~condition_initialized
  /\ state \in {"RUNNING", "DRAINING"} /\ manager # "creating"
       => created_workers = WorkerCount
  /\ manager = "creating" => state = "RUNNING"
  /\ manager = "cleanup" => state = "STOPPING"
  /\ manager = "joining" => state \in {"DRAINING", "STOPPING"}
  /\ manager = "destroying" => state = "JOINED"

(* Where jobs are pending and where they may have been dropped.            *)
Pending ==
  /\ manager = "creating" => queue.count = 0
  /\ state \notin {"RUNNING", "DRAINING"} => queue.count = 0
  /\ state = "RUNNING" => \A w \in Workers : worker[w] # "exited"
  /\ state = "DRAINING" /\ (\E w \in Workers : worker[w] = "exited")
       => queue.count = 0
  /\ state \in {"RUNNING", "DRAINING"} => discarded = << >>

Elements(s) == {s[i] : i \in DOMAIN s}

StartedAreKnown == Elements(started) = finished \cup {job[w] : w \in InHand}

PoolInv ==
  /\ TypeOK
  /\ Coherent(queue)
  /\ Threads
  /\ LifeCycle
  /\ Pending
  /\ JobOrder
  /\ StartedAreKnown

-----------------------------------------------------------------------------
(* Sequences.                                                              *)

LEMMA AppendAtEnd ==
  ASSUME NEW s \in Seq(Job), NEW t \in Seq(Job), NEW x \in Job
  PROVE  s \o Append(t, x) = Append(s \o t, x)
<1>1. /\ Append(t, x) = t \o <<x>> /\ <<x>> \in Seq(Job)
      /\ s \o t \in Seq(Job) /\ Append(s \o t, x) = (s \o t) \o <<x>>
  BY AppendIsConcat, ConcatProperties
<1>2. QED
  BY <1>1, ConcatAssociative

LEMMA MoveHead ==
  ASSUME NEW S, NEW s \in Seq(S), NEW t \in Seq(S), t # << >>
  PROVE  Append(s, Head(t)) \o Tail(t) = s \o t
<1>1. /\ Head(t) \in S /\ Tail(t) \in Seq(S) /\ <<Head(t)>> \in Seq(S)
      /\ t = <<Head(t)>> \o Tail(t)
  <2>1. /\ Head(t) \in S /\ Tail(t) \in Seq(S) /\ Len(Tail(t)) = Len(t) - 1
        /\ \A i \in 1 .. Len(Tail(t)) : Tail(t)[i] = t[i + 1]
        /\ Len(t) \in Nat \ {0} /\ Head(t) = t[1]
    BY HeadTailProperties, EmptySeq
  <2>2. /\ <<Head(t)>> \in Seq(S) /\ Len(<<Head(t)>>) = 1
        /\ <<Head(t)>>[1] = Head(t)
    BY <2>1
  <2> DEFINE c == <<Head(t)>> \o Tail(t)
  <2>3. /\ c \in Seq(S) /\ Len(c) = Len(t)
        /\ \A i \in 1 .. Len(t) :
             c[i] = IF i <= 1 THEN <<Head(t)>>[i] ELSE Tail(t)[i - 1]
    BY <2>1, <2>2, ConcatProperties
  <2> HIDE DEF c
  <2>4. \A i \in 1 .. Len(t) : c[i] = t[i]
    BY <2>1, <2>2, <2>3
  <2>5. QED
    BY <2>1, <2>2, <2>3, <2>4, SeqEqual DEF c
<1>2. Append(s, Head(t)) = s \o <<Head(t)>>
  BY <1>1, AppendIsConcat
<1>3. QED
  BY <1>1, <1>2, ConcatAssociative

LEMMA ElementsOfAppend ==
  ASSUME NEW S, NEW s \in Seq(S), NEW x \in S
  PROVE  Elements(Append(s, x)) = Elements(s) \cup {x}
<1>1. /\ Append(s, x) \in Seq(S) /\ Len(Append(s, x)) = Len(s) + 1
      /\ \A i \in 1 .. Len(s) : Append(s, x)[i] = s[i]
      /\ Append(s, x)[Len(s) + 1] = x
      /\ Len(s) \in Nat
  BY AppendProperties
<1>2. DOMAIN s = 1 .. Len(s) /\ DOMAIN Append(s, x) = 1 .. Len(s) + 1
  BY <1>1
<1>3. QED
  BY <1>1, <1>2 DEF Elements

LEMMA ElementsOfConcat ==
  ASSUME NEW S, NEW s \in Seq(S), NEW t \in Seq(S)
  PROVE  Elements(s \o t) = Elements(s) \cup Elements(t)
<1>1. /\ s \o t \in Seq(S) /\ Len(s \o t) = Len(s) + Len(t)
      /\ \A i \in 1 .. Len(s) + Len(t) :
           (s \o t)[i] = IF i <= Len(s) THEN s[i] ELSE t[i - Len(s)]
      /\ Len(s) \in Nat /\ Len(t) \in Nat
  BY ConcatProperties
<1>2. /\ DOMAIN s = 1 .. Len(s) /\ DOMAIN t = 1 .. Len(t)
      /\ DOMAIN (s \o t) = 1 .. Len(s) + Len(t)
  BY <1>1
<1>3. Elements(s) \subseteq Elements(s \o t)
  BY <1>1, <1>2 DEF Elements
<1>4. Elements(t) \subseteq Elements(s \o t)
  <2> SUFFICES ASSUME NEW i \in 1 .. Len(t) PROVE t[i] \in Elements(s \o t)
    BY <1>2 DEF Elements
  <2>1. Len(s) + i \in 1 .. Len(s) + Len(t) /\ (s \o t)[Len(s) + i] = t[i]
    BY <1>1
  <2>2. QED
    BY <1>2, <2>1 DEF Elements
<1>5. Elements(s \o t) \subseteq Elements(s) \cup Elements(t)
  BY <1>1, <1>2 DEF Elements
<1>6. QED
  BY <1>3, <1>4, <1>5

-----------------------------------------------------------------------------
(* The invariant.                                                          *)

(* Threads only live while the pool runs or shuts down.                    *)
LEMMA AliveStates ==
  ASSUME PoolInv, NEW w \in Workers, Alive(w)
  PROVE  state \in {"RUNNING", "DRAINING", "STOPPING"}
<1>1. CASE state \in {"UNINITIALIZED", "JOINED"}
  <2>1. joined_workers = created_workers /\ joined_workers \in Nat /\ w \in Nat
    BY <1>1, PoolAssumption DEF PoolInv, LifeCycle, TypeOK, Workers
  <2>2. w > created_workers \/ w <= joined_workers
    BY <2>1
  <2>3. QED
    BY <2>2 DEF PoolInv, Threads, Alive
<1>2. QED
  BY <1>1 DEF PoolInv, TypeOK

(* A worker that takes a job finds one.                                    *)
LEMMA TakeFindsJob ==
  ASSUME PoolInv, NEW w \in Workers, Take(w)
  PROVE  ~IsEmpty(queue) /\ state \in {"RUNNING", "DRAINING"}
<1>1. state \in {"RUNNING", "DRAINING", "STOPPING"}
  BY AliveStates DEF Take, Alive
<1>2. QED
  BY <1>1 DEF Take, MustExit

(* What a running worker holds is a job it took.                           *)
LEMMA InHandIsJob ==
  ASSUME PoolInv, NEW w \in Workers, worker[w] = "running"
  PROVE  job[w] \in Job
<1>1. job[w] \in Elements(started) /\ started \in Seq(Job)
  BY DEF PoolInv, StartedAreKnown, InHand, TypeOK
<1>2. QED
  BY <1>1, ElementOfSeq, LenProperties DEF Elements

LEMMA EmptyItems ==
  ASSUME PoolInv, queue.count = 0
  PROVE  Items(queue) = << >>
  BY ItemsType DEF PoolInv, TypeOK

LEMMA InitPoolInv == Init => PoolInv
<1> SUFFICES ASSUME Init PROVE PoolInv
  OBVIOUS
<1>1. queue \in Ring /\ Coherent(queue) /\ Items(queue) = << >> /\ queue.count = 0
  BY EmptyRingIsEmpty DEF Init, EmptyRing
<1>2. TypeOK
  <2>1. /\ worker \in [Workers -> {"none", "ready", "waiting", "running", "exited"}]
        /\ job \in [Workers -> Job \cup {NoJob}]
    BY DEF Init
  <2>2. /\ created_workers \in 0 .. WorkerCount /\ joined_workers \in 0 .. WorkerCount
        /\ accepted \in Seq(Job) /\ started \in Seq(Job) /\ discarded \in Seq(Job)
    BY PoolAssumption, EmptySeq DEF Init
  <2>3. QED
    BY <1>1, <2>1, <2>2 DEF Init, TypeOK
<1>3. Threads /\ LifeCycle /\ Pending
  BY <1>1, PoolAssumption DEF Init, Threads, LifeCycle, Pending, Workers
<1>4. JobOrder
  BY <1>1 DEF Init, JobOrder
<1>5. StartedAreKnown
  BY DEF Init, StartedAreKnown, Elements, InHand
<1>6. QED
  BY <1>1, <1>2, <1>3, <1>4, <1>5 DEF PoolInv

(* Types, and the ring's coherence. *)
LEMMA NextTypeOK ==
  ASSUME PoolInv, [Next]_vars
  PROVE  TypeOK' /\ Coherent(queue)'
<1> USE PoolAssumption DEF PoolInv, TypeOK, Threads, LifeCycle, Workers, Job, NoJob
<1>1. CASE InitStart
  BY <1>1 DEF InitStart, primitives, history
<1>2. CASE InitConditionFails
  BY <1>2 DEF InitConditionFails, primitives, history
<1>3. CASE CreateWorker
  BY <1>3 DEF CreateWorker, primitives, history
<1>4. CASE InitReturns
  BY <1>4 DEF InitReturns, primitives, history
<1>5. CASE CreateFails
  BY <1>5 DEF CreateFails, primitives, history, Broadcast
<1>6. CASE ShutdownDrain
  BY <1>6 DEF ShutdownDrain, primitives, history, Broadcast
<1>7. CASE ShutdownImmediate
  BY <1>7, ClearEmpties, ItemsType DEF ShutdownImmediate, primitives, history, Broadcast
<1>8. CASE JoinCall
  BY <1>8 DEF JoinCall, primitives, history
<1>9. CASE JoinWorker
  BY <1>9 DEF JoinWorker, primitives, history
<1>10. CASE JoinReturns
  BY <1>10 DEF JoinReturns, primitives, history
<1>11. CASE JoinFails
  BY <1>11 DEF JoinFails, primitives, history
<1>12. CASE DestroyCall
  BY <1>12 DEF DestroyCall, primitives, history
<1>13. CASE DestroyCondition
  BY <1>13 DEF DestroyCondition, primitives, history
<1>14. CASE DestroyMutex
  <2>1. queue' \in Ring /\ Coherent(queue')
    BY <1>14, ClearEmpties DEF DestroyMutex
  <2>2. worker' \in [Workers -> {"none", "ready", "waiting", "running", "exited"}]
    BY <1>14 DEF DestroyMutex
  <2>3. created_workers' \in 0 .. WorkerCount /\ joined_workers' \in 0 .. WorkerCount
    BY <1>14 DEF DestroyMutex
  <2>4. QED
    BY <1>14, <2>1, <2>2, <2>3 DEF DestroyMutex, history
<1>15. CASE DestroyFails
  BY <1>15 DEF DestroyFails, primitives, history
<1>16. ASSUME NEW j \in Job, Submit(j) PROVE TypeOK' /\ Coherent(queue)'
  BY <1>16, PushAppends DEF Submit, primitives, history, Signal
<1>17. ASSUME NEW w \in Workers, Wait(w) PROVE TypeOK' /\ Coherent(queue)'
  BY <1>17 DEF Wait, primitives, history
<1>18. ASSUME NEW w \in Workers, Exit(w) PROVE TypeOK' /\ Coherent(queue)'
  BY <1>18 DEF Exit, primitives, history
<1>19. ASSUME NEW w \in Workers, Take(w) PROVE TypeOK' /\ Coherent(queue)'
  <2>1. queue' \in Ring /\ Coherent(queue') /\ Oldest(queue) \in Job
    BY <1>19, TakeFindsJob, PopTakesFirst DEF Take
  <2>2. started' \in Seq(Job)
    BY <1>19, <2>1 DEF Take
  <2>3. /\ worker' \in [Workers -> {"none", "ready", "waiting", "running", "exited"}]
        /\ job' \in [Workers -> Job \cup {NoJob}]
    BY <1>19, <2>1 DEF Take
  <2>4. QED
    BY <1>19, <2>1, <2>2, <2>3 DEF Take, primitives
<1>20. ASSUME NEW w \in Workers, Return(w) PROVE TypeOK' /\ Coherent(queue)'
  BY <1>20, InHandIsJob DEF Return, primitives
<1>21. ASSUME NEW w \in Workers, WakeSpurious(w) PROVE TypeOK' /\ Coherent(queue)'
  BY <1>21 DEF WakeSpurious, primitives, history
<1>22. CASE UNCHANGED vars
  BY <1>22 DEF vars, primitives, history
<1>23. QED
  BY <1>1, <1>2, <1>3, <1>4, <1>5, <1>6, <1>7, <1>8, <1>9, <1>10, <1>11,
     <1>12, <1>13, <1>14, <1>15, <1>16, <1>17, <1>18, <1>19, <1>20,
     <1>21, <1>22 DEF Next, Manage, Work

(* Which threads exist. *)
LEMMA NextThreads ==
  ASSUME PoolInv, [Next]_vars
  PROVE  Threads'
<1> USE PoolAssumption DEF PoolInv, TypeOK, Threads, LifeCycle, Workers
<1>1. CASE InitStart
  BY <1>1 DEF InitStart, primitives, history
<1>2. CASE InitConditionFails
  BY <1>2 DEF InitConditionFails, primitives, history
<1>3. CASE CreateWorker
  BY <1>3 DEF CreateWorker, primitives, history
<1>4. CASE InitReturns
  BY <1>4 DEF InitReturns, primitives, history
<1>5. CASE CreateFails
  BY <1>5 DEF CreateFails, primitives, history, Broadcast
<1>6. CASE ShutdownDrain
  BY <1>6 DEF ShutdownDrain, primitives, history, Broadcast
<1>7. CASE ShutdownImmediate
  BY <1>7 DEF ShutdownImmediate, primitives, history, Broadcast
<1>8. CASE JoinCall
  BY <1>8 DEF JoinCall, primitives, history
<1>9. CASE JoinWorker
  BY <1>9 DEF JoinWorker, primitives, history
<1>10. CASE JoinReturns
  BY <1>10 DEF JoinReturns, primitives, history
<1>11. CASE JoinFails
  BY <1>11 DEF JoinFails, primitives, history
<1>12. CASE DestroyCall
  BY <1>12 DEF DestroyCall, primitives, history
<1>13. CASE DestroyCondition
  BY <1>13 DEF DestroyCondition, primitives, history
<1>14. CASE DestroyMutex
  BY <1>14 DEF DestroyMutex, primitives, history
<1>15. CASE DestroyFails
  BY <1>15 DEF DestroyFails, primitives, history
<1>16. ASSUME NEW j \in Job, Submit(j) PROVE Threads'
  BY <1>16 DEF Submit, primitives, history, Signal
<1>17. ASSUME NEW w \in Workers, Wait(w) PROVE Threads'
  BY <1>17 DEF Wait, primitives, history
<1>18. ASSUME NEW w \in Workers, Exit(w) PROVE Threads'
  BY <1>18 DEF Exit, primitives, history
<1>19. ASSUME NEW w \in Workers, Take(w) PROVE Threads'
  BY <1>19 DEF Take, primitives, history
<1>20. ASSUME NEW w \in Workers, Return(w) PROVE Threads'
  BY <1>20 DEF Return, primitives, history
<1>21. ASSUME NEW w \in Workers, WakeSpurious(w) PROVE Threads'
  BY <1>21 DEF WakeSpurious, primitives, history
<1>22. CASE UNCHANGED vars
  BY <1>22 DEF vars, primitives, history
<1>23. QED
  BY <1>1, <1>2, <1>3, <1>4, <1>5, <1>6, <1>7, <1>8, <1>9, <1>10, <1>11,
     <1>12, <1>13, <1>14, <1>15, <1>16, <1>17, <1>18, <1>19, <1>20,
     <1>21, <1>22 DEF Next, Manage, Work

(* The life cycle. *)
LEMMA NextLifeCycle ==
  ASSUME PoolInv, [Next]_vars
  PROVE  LifeCycle'
<1> USE PoolAssumption DEF PoolInv, TypeOK, Threads, LifeCycle, Workers
<1>1. CASE InitStart
  BY <1>1 DEF InitStart, primitives, history
<1>2. CASE InitConditionFails
  BY <1>2 DEF InitConditionFails, primitives, history
<1>3. CASE CreateWorker
  BY <1>3 DEF CreateWorker, primitives, history
<1>4. CASE InitReturns
  BY <1>4 DEF InitReturns, primitives, history
<1>5. CASE CreateFails
  BY <1>5 DEF CreateFails, primitives, history, Broadcast
<1>6. CASE ShutdownDrain
  BY <1>6 DEF ShutdownDrain, primitives, history, Broadcast
<1>7. CASE ShutdownImmediate
  BY <1>7 DEF ShutdownImmediate, primitives, history, Broadcast
<1>8. CASE JoinCall
  BY <1>8 DEF JoinCall, primitives, history
<1>9. CASE JoinWorker
  BY <1>9 DEF JoinWorker, primitives, history
<1>10. CASE JoinReturns
  BY <1>10 DEF JoinReturns, primitives, history
<1>11. CASE JoinFails
  BY <1>11 DEF JoinFails, primitives, history
<1>12. CASE DestroyCall
  BY <1>12 DEF DestroyCall, primitives, history
<1>13. CASE DestroyCondition
  BY <1>13 DEF DestroyCondition, primitives, history
<1>14. CASE DestroyMutex
  BY <1>14 DEF DestroyMutex, primitives, history
<1>15. CASE DestroyFails
  BY <1>15 DEF DestroyFails, primitives, history
<1>16. ASSUME NEW j \in Job, Submit(j) PROVE LifeCycle'
  BY <1>16 DEF Submit, primitives, history, Signal
<1>17. ASSUME NEW w \in Workers, Wait(w) PROVE LifeCycle'
  BY <1>17 DEF Wait, primitives, history
<1>18. ASSUME NEW w \in Workers, Exit(w) PROVE LifeCycle'
  BY <1>18 DEF Exit, primitives, history
<1>19. ASSUME NEW w \in Workers, Take(w) PROVE LifeCycle'
  BY <1>19 DEF Take, primitives, history
<1>20. ASSUME NEW w \in Workers, Return(w) PROVE LifeCycle'
  BY <1>20 DEF Return, primitives, history
<1>21. ASSUME NEW w \in Workers, WakeSpurious(w) PROVE LifeCycle'
  BY <1>21 DEF WakeSpurious, primitives, history
<1>22. CASE UNCHANGED vars
  BY <1>22 DEF vars, primitives, history
<1>23. QED
  BY <1>1, <1>2, <1>3, <1>4, <1>5, <1>6, <1>7, <1>8, <1>9, <1>10, <1>11,
     <1>12, <1>13, <1>14, <1>15, <1>16, <1>17, <1>18, <1>19, <1>20,
     <1>21, <1>22 DEF Next, Manage, Work

(* Where jobs can be pending. *)
LEMMA NextPending ==
  ASSUME PoolInv, [Next]_vars
  PROVE  Pending'
<1> USE PoolAssumption
    DEF PoolInv, TypeOK, Threads, LifeCycle, Pending, Workers, IsEmpty, MustExit
<1>1. CASE InitStart
  BY <1>1 DEF InitStart, primitives, history
<1>2. CASE InitConditionFails
  BY <1>2 DEF InitConditionFails, primitives, history
<1>3. CASE CreateWorker
  BY <1>3 DEF CreateWorker, primitives, history
<1>4. CASE InitReturns
  BY <1>4 DEF InitReturns, primitives, history
<1>5. CASE CreateFails
  BY <1>5 DEF CreateFails, primitives, history, Broadcast
<1>6. CASE ShutdownDrain
  BY <1>6 DEF ShutdownDrain, primitives, history, Broadcast
<1>7. CASE ShutdownImmediate
  BY <1>7 DEF ShutdownImmediate, primitives, history, Broadcast, Clear
<1>8. CASE JoinCall
  BY <1>8 DEF JoinCall, primitives, history
<1>9. CASE JoinWorker
  BY <1>9 DEF JoinWorker, primitives, history
<1>10. CASE JoinReturns
  BY <1>10 DEF JoinReturns, primitives, history
<1>11. CASE JoinFails
  BY <1>11 DEF JoinFails, primitives, history
<1>12. CASE DestroyCall
  BY <1>12 DEF DestroyCall, primitives, history
<1>13. CASE DestroyCondition
  BY <1>13 DEF DestroyCondition, primitives, history
<1>14. CASE DestroyMutex
  BY <1>14 DEF DestroyMutex, primitives, history, Clear
<1>15. CASE DestroyFails
  BY <1>15 DEF DestroyFails, primitives, history
<1>16. ASSUME NEW j \in Job, Submit(j) PROVE Pending'
  BY <1>16 DEF Submit, primitives, history, Signal, Push
<1>17. ASSUME NEW w \in Workers, Wait(w) PROVE Pending'
  BY <1>17 DEF Wait, primitives, history
<1>18. ASSUME NEW w \in Workers, Exit(w) PROVE Pending'
  BY <1>18 DEF Exit, primitives, history
<1>19. ASSUME NEW w \in Workers, Take(w) PROVE Pending'
  BY <1>19, TakeFindsJob DEF Take, primitives, history, Pop
<1>20. ASSUME NEW w \in Workers, Return(w) PROVE Pending'
  BY <1>20 DEF Return, primitives, history
<1>21. ASSUME NEW w \in Workers, WakeSpurious(w) PROVE Pending'
  BY <1>21 DEF WakeSpurious, primitives, history
<1>22. CASE UNCHANGED vars
  BY <1>22 DEF vars, primitives, history
<1>23. QED
  BY <1>1, <1>2, <1>3, <1>4, <1>5, <1>6, <1>7, <1>8, <1>9, <1>10, <1>11,
     <1>12, <1>13, <1>14, <1>15, <1>16, <1>17, <1>18, <1>19, <1>20,
     <1>21, <1>22 DEF Next, Manage, Work

(* Only six actions touch the ring, a history or what is in hand.          *)
Untouched ==
  /\ UNCHANGED <<queue, accepted, started, finished, discarded, job>>
  /\ \A w \in Workers : worker'[w] = "running" <=> worker[w] = "running"

LEMMA OtherActions ==
  ASSUME PoolInv, [Next]_vars
  PROVE  \/ Untouched
         \/ InitStart \/ DestroyMutex \/ ShutdownImmediate
         \/ \E j \in Job \ Submitted : Submit(j)
         \/ \E w \in Workers : Take(w) \/ Return(w)
<1> USE DEF PoolInv, TypeOK, Threads, Workers, Untouched, primitives, history
<1>1. CASE InitConditionFails
  BY <1>1, PoolAssumption DEF InitConditionFails
<1>2. CASE CreateWorker
  BY <1>2, PoolAssumption DEF CreateWorker
<1>3. CASE InitReturns
  BY <1>3, PoolAssumption DEF InitReturns
<1>4. CASE CreateFails
  BY <1>4, PoolAssumption DEF CreateFails, Broadcast
<1>5. CASE ShutdownDrain
  BY <1>5, PoolAssumption DEF ShutdownDrain, Broadcast
<1>6. CASE JoinCall
  BY <1>6, PoolAssumption DEF JoinCall
<1>7. CASE JoinWorker
  BY <1>7, PoolAssumption DEF JoinWorker
<1>8. CASE JoinReturns
  BY <1>8, PoolAssumption DEF JoinReturns
<1>9. CASE JoinFails
  BY <1>9, PoolAssumption DEF JoinFails
<1>10. CASE DestroyCall
  BY <1>10, PoolAssumption DEF DestroyCall
<1>11. CASE DestroyCondition
  BY <1>11, PoolAssumption DEF DestroyCondition
<1>12. CASE DestroyFails
  BY <1>12, PoolAssumption DEF DestroyFails
<1>13. ASSUME NEW w \in Workers, Wait(w) PROVE Untouched
  BY <1>13 DEF Wait
<1>14. ASSUME NEW w \in Workers, Exit(w) PROVE Untouched
  BY <1>14 DEF Exit
<1>15. ASSUME NEW w \in Workers, WakeSpurious(w) PROVE Untouched
  BY <1>15 DEF WakeSpurious
<1>16. CASE UNCHANGED vars
  BY <1>16 DEF vars
<1> HIDE DEF PoolInv, TypeOK, Threads, Workers, Untouched, primitives, history
<1>17. QED
  BY <1>1, <1>2, <1>3, <1>4, <1>5, <1>6, <1>7,
     <1>8, <1>9, <1>10, <1>11, <1>12, <1>13, <1>14, <1>15, <1>16
     DEF Next, Manage, Work

LEMMA NextJobOrder ==
  ASSUME PoolInv, [Next]_vars
  PROVE  JobOrder'
<1>0. /\ queue \in Ring /\ Coherent(queue) /\ Items(queue) \in Seq(Job)
      /\ accepted \in Seq(Job) /\ started \in Seq(Job) /\ discarded \in Seq(Job)
      /\ accepted = started \o Items(queue) \o discarded
      /\ << >> \in Seq(Job)
  BY ItemsType, EmptySeq DEF PoolInv, TypeOK, JobOrder, Job
<1>1. CASE Untouched
  BY <1>0, <1>1 DEF Untouched, JobOrder, Items, Slot
<1>2. CASE InitStart
  <2>1. queue.count = 0
    BY <1>2 DEF InitStart, PoolInv, Pending
  <2>2. Items(queue) = << >>
    BY <2>1, EmptyItems
  <2>3. Items(queue)' = Items(queue)
    BY <1>2 DEF InitStart, Items, Slot
  <2>4. QED
    BY <1>0, <1>2, <2>2, <2>3, ConcatEmptySeq DEF InitStart, JobOrder
<1>3. CASE DestroyMutex
  <2>1. queue.count = 0
    BY <1>3 DEF DestroyMutex, PoolInv, Pending, LifeCycle
  <2>2. Items(queue) = << >>
    BY <2>1, EmptyItems
  <2>3. Items(queue)' = << >>
    BY <1>0, <1>3, ClearEmpties DEF DestroyMutex
  <2>4. QED
    BY <1>0, <1>3, <2>2, <2>3 DEF DestroyMutex, JobOrder, history
<1>4. CASE ShutdownImmediate
  <2>1. discarded = << >>
    BY <1>4 DEF ShutdownImmediate, PoolInv, Pending
  <2>2. Items(queue)' = << >> /\ discarded' = Items(queue)
    BY <1>0, <1>4, ClearEmpties DEF ShutdownImmediate
  <2>3. accepted' = accepted /\ started' = started
    BY <1>4 DEF ShutdownImmediate
  <2>4. accepted = started \o Items(queue)
    BY <1>0, <2>1, ConcatEmptySeq, ConcatProperties
  <2>5. QED
    BY <1>0, <2>2, <2>3, <2>4, ConcatEmptySeq DEF JobOrder
<1>5. ASSUME NEW j \in Job, Submit(j) PROVE JobOrder'
  <2>1. discarded = << >> /\ discarded' = << >> /\ started' = started
    BY <1>5 DEF Submit, PoolInv, Pending
  <2>2. Items(queue)' = Append(Items(queue), j)
    BY <1>0, <1>5, PushAppends DEF Submit, Job
  <2>3. accepted' = Append(started \o Items(queue), j)
    BY <1>0, <1>5, <2>1, ConcatEmptySeq, ConcatProperties DEF Submit
  <2>4. accepted' = started \o Append(Items(queue), j)
    <3>1. started \o Append(Items(queue), j) = Append(started \o Items(queue), j)
      BY <1>0, AppendAtEnd, Zenon
    <3>2. QED
      BY <2>3, <3>1
  <2>5. started \o Append(Items(queue), j) \in Seq(Job)
    BY <1>0, ConcatProperties, AppendProperties
  <2>6. QED
    BY <2>1, <2>2, <2>4, <2>5, ConcatEmptySeq DEF JobOrder
<1>6. ASSUME NEW w \in Workers, Take(w) PROVE JobOrder'
  <2>1. ~IsEmpty(queue)
    BY <1>6, TakeFindsJob
  <2>2. /\ Items(queue) # << >> /\ Oldest(queue) = Head(Items(queue))
        /\ Items(queue)' = Tail(Items(queue))
    BY <1>0, <1>6, <2>1, PopTakesFirst DEF Take
  <2>3. /\ started' = Append(started, Head(Items(queue)))
        /\ accepted' = accepted /\ discarded' = discarded
    BY <1>6, <2>2 DEF Take
  <2>4. Append(started, Head(Items(queue))) \o Tail(Items(queue))
          = started \o Items(queue)
    BY <1>0, <2>2, MoveHead
  <2>5. QED
    BY <1>0, <2>2, <2>3, <2>4 DEF JobOrder
<1>7. ASSUME NEW w \in Workers, Return(w) PROVE JobOrder'
  BY <1>0, <1>7 DEF Return, JobOrder, Items, Slot
<1>8. QED
  BY <1>1, <1>2, <1>3, <1>4, <1>5, <1>6, <1>7, OtherActions

LEMMA NextStartedAreKnown ==
  ASSUME PoolInv, [Next]_vars
  PROVE  StartedAreKnown'
<1> USE DEF InHand
<1>0. /\ Elements(started) = finished \cup {job[w] : w \in InHand}
      /\ worker \in [Workers -> {"none", "ready", "waiting", "running", "exited"}]
      /\ job \in [Workers -> Job \cup {NoJob}]
      /\ started \in Seq(Job)
  BY DEF PoolInv, StartedAreKnown, TypeOK
<1>1. CASE Untouched
  <2>1. started' = started /\ finished' = finished /\ job' = job /\ InHand' = InHand
    BY <1>0, <1>1 DEF Untouched
  <2> HIDE DEF InHand
  <2>2. QED
    BY <1>0, <2>1 DEF StartedAreKnown, Elements
<1>2. CASE InitStart
  <2>1. \A w \in Workers : worker[w] # "running"
    BY <1>2, AliveStates DEF InitStart, Alive
  <2>2. QED
    BY <1>2, <2>1 DEF InitStart, StartedAreKnown, Elements
<1>3. CASE DestroyMutex
  <2>1. \A w \in Workers : worker[w] # "running"
    BY <1>3, AliveStates DEF DestroyMutex, Alive, PoolInv, LifeCycle
  <2>2. QED
    BY <1>0, <1>3, <2>1 DEF DestroyMutex, StartedAreKnown, Elements, history
<1>4. CASE ShutdownImmediate
  BY <1>0, <1>4 DEF ShutdownImmediate, Broadcast, StartedAreKnown, Elements
<1>5. ASSUME NEW j \in Job, Submit(j) PROVE StartedAreKnown'
  <2>1. started' = started /\ finished' = finished /\ job' = job
    BY <1>5 DEF Submit
  <2>2. InHand' = InHand
    BY <1>0, <1>5 DEF Submit, Signal
  <2> HIDE DEF InHand
  <2>3. QED
    BY <1>0, <2>1, <2>2 DEF StartedAreKnown, Elements
<1>6. ASSUME NEW w \in Workers, Take(w) PROVE StartedAreKnown'
  <2>1. Oldest(queue) \in Job
    BY <1>6, TakeFindsJob, PopTakesFirst DEF PoolInv, TypeOK, Job
  <2>2. Elements(started') = Elements(started) \cup {Oldest(queue)}
    BY <1>0, <1>6, <2>1, ElementsOfAppend DEF Take
  <2>3. /\ InHand' = InHand \cup {w} /\ w \notin InHand
        /\ job'[w] = Oldest(queue) /\ \A v \in InHand : job'[v] = job[v]
        /\ finished' = finished
    BY <1>0, <1>6 DEF Take
  <2>4. {job'[v] : v \in InHand'} = {job[v] : v \in InHand} \cup {Oldest(queue)}
    BY <2>3
  <2>5. QED
    BY <1>0, <2>2, <2>3, <2>4 DEF StartedAreKnown, Elements
<1>7. ASSUME NEW w \in Workers, Return(w) PROVE StartedAreKnown'
  <2>1. /\ InHand' = InHand \ {w} /\ w \in InHand
        /\ \A v \in InHand' : job'[v] = job[v]
        /\ finished' = finished \cup {job[w]} /\ started' = started
    BY <1>0, <1>7 DEF Return
  <2>2. {job[v] : v \in InHand} = {job'[v] : v \in InHand'} \cup {job[w]}
    BY <2>1
  <2>3. Elements(started)' = Elements(started)
    BY <2>1 DEF Elements
  <2>4. {job[v] : v \in InHand}' = {job'[v] : v \in InHand'}
    OBVIOUS
  <2>5. QED
    BY <1>0, <2>1, <2>2, <2>3, <2>4 DEF StartedAreKnown
<1>8. QED
  BY <1>1, <1>2, <1>3, <1>4, <1>5, <1>6, <1>7, OtherActions

LEMMA PoolInvariant == Spec => []PoolInv
<1>1. PoolInv /\ [Next]_vars => PoolInv'
  BY NextTypeOK, NextThreads, NextLifeCycle, NextPending, NextJobOrder,
     NextStartedAreKnown DEF PoolInv
<1>2. QED
  BY <1>1, InitPoolInv, PTL DEF Spec

-----------------------------------------------------------------------------

(* Every variable keeps its type; in particular the ring's indices stay    *)
(* inside the caller's array and no more workers are joined than created.  *)
THEOREM PoolTypeCorrect == Spec => []TypeOK
<1>1. PoolInv => TypeOK
  BY DEF PoolInv
<1>2. QED
  BY <1>1, PoolInvariant, PTL

(* Workers start the jobs in the order in which submit accepted them, none *)
(* twice and none that was not accepted, and what an immediate shutdown    *)
(* drops is exactly the pending rest.                                      *)
THEOREM JobsStartInOrder == Spec => []JobOrder
<1>1. PoolInv => JobOrder
  BY DEF PoolInv
<1>2. QED
  BY <1>1, PoolInvariant, PTL

(* A successful join leaves no accepted job pending or running, and a      *)
(* draining pool has dropped none.                                         *)
THEOREM JoinSettlesJobs == Spec => []JoinedIsSettled
<1>1. PoolInv => JoinedIsSettled
  <2> SUFFICES ASSUME PoolInv PROVE JoinedIsSettled
    OBVIOUS
  <2>1. state = "DRAINING" => discarded = << >>
    BY DEF PoolInv, Pending
  <2>2. ASSUME state = "JOINED"
        PROVE  Elements(accepted) = finished \cup Elements(discarded)
    <3>1. Items(queue) = << >> /\ started \in Seq(Job) /\ discarded \in Seq(Job)
      BY <2>2, EmptyItems DEF PoolInv, Pending, TypeOK
    <3>2. accepted = started \o discarded
      BY <3>1, ConcatEmptySeq DEF PoolInv, JobOrder
    <3>3. \A w \in Workers : worker[w] # "running"
      BY <2>2, AliveStates DEF Alive
    <3>4. Elements(started) = finished
      BY <3>3 DEF PoolInv, StartedAreKnown, InHand
    <3>5. QED
      BY <3>1, <3>2, <3>4, ElementsOfConcat
  <2>3. QED
    BY <2>1, <2>2 DEF JoinedIsSettled, Elements
<1>2. QED
  BY <1>1, PoolInvariant, PTL

(* Whatever pthread calls failed and however often init, join and destroy  *)
(* were repeated, a worker thread only exists while the mutex and the      *)
(* condition it uses are initialized.                                      *)
THEOREM WorkersHavePrimitives == Spec => []NoWorkerWithoutPrimitives
<1>1. PoolInv => NoWorkerWithoutPrimitives
  BY AliveStates DEF PoolInv, LifeCycle, Alive, NoWorkerWithoutPrimitives
<1>2. QED
  BY <1>1, PoolInvariant, PTL

-----------------------------------------------------------------------------
(* Each job is run once.                                                   *)

NoRepeat(s) == \A i, k \in DOMAIN s : s[i] = s[k] => i = k

HeldOnce ==
  \A w \in InHand :
    /\ job[w] \notin finished
    /\ \A v \in InHand : job[v] = job[w] => v = w

JobsDiffer == NoRepeat(accepted)

OnceInv == PoolInv /\ JobsDiffer /\ HeldOnce

LEMMA NoRepeatAppend ==
  ASSUME NEW S, NEW s \in Seq(S), NEW x \in S, NoRepeat(s), x \notin Elements(s)
  PROVE  NoRepeat(Append(s, x))
<1>1. /\ Append(s, x) \in Seq(S) /\ Len(Append(s, x)) = Len(s) + 1
      /\ \A i \in 1 .. Len(s) : Append(s, x)[i] = s[i]
      /\ Append(s, x)[Len(s) + 1] = x
      /\ Len(s) \in Nat
  BY AppendProperties
<1>2. DOMAIN s = 1 .. Len(s) /\ DOMAIN Append(s, x) = 1 .. Len(s) + 1
  BY <1>1
<1>3. \A i \in 1 .. Len(s) : s[i] # x
  BY <1>2 DEF Elements
<1>4. QED
  BY <1>1, <1>2, <1>3 DEF NoRepeat

(* A pending job was not started before.                                   *)
LEMMA FreshHead ==
  ASSUME NEW s \in Seq(Job), NEW t \in Seq(Job), NEW r \in Seq(Job), t # << >>,
         NoRepeat(s \o t \o r)
  PROVE  Head(t) \notin Elements(s)
<1> DEFINE st == s \o t
           all == st \o r
<1>1. Len(s) \in Nat /\ Len(t) \in Nat \ {0} /\ Len(r) \in Nat /\ Head(t) = t[1]
  BY EmptySeq, HeadTailProperties, LenProperties
<1>2. /\ st \in Seq(Job) /\ Len(st) = Len(s) + Len(t)
      /\ \A i \in 1 .. Len(s) + Len(t) : st[i] = IF i <= Len(s) THEN s[i] ELSE t[i - Len(s)]
  BY ConcatProperties
<1> HIDE DEF st
<1>3. /\ all \in Seq(Job) /\ Len(all) = Len(st) + Len(r)
      /\ \A i \in 1 .. Len(st) + Len(r) :
           all[i] = IF i <= Len(st) THEN st[i] ELSE r[i - Len(st)]
  <2>1. st \in Seq(Job) /\ r \in Seq(Job)
    BY <1>2
  <2> HIDE DEF st
  <2>2. QED
    BY <2>1, ConcatProperties, Zenon
<1>4. NoRepeat(all)
  BY DEF st
<1> HIDE DEF all
<1>5. DOMAIN all = 1 .. Len(all) /\ DOMAIN s = 1 .. Len(s)
  BY <1>3
<1>6. ASSUME NEW i \in 1 .. Len(s), s[i] = Head(t) PROVE FALSE
  <2>1. all[i] = s[i] /\ i \in DOMAIN all
    BY <1>1, <1>2, <1>3, <1>5
  <2>2. all[Len(s) + 1] = t[1] /\ Len(s) + 1 \in DOMAIN all
    BY <1>1, <1>2, <1>3, <1>5
  <2>3. i = Len(s) + 1
    BY <1>1, <1>4, <1>6, <2>1, <2>2 DEF NoRepeat
  <2>4. QED
    BY <1>1, <2>3
<1>7. QED
  BY <1>5, <1>6 DEF Elements

LEMMA NextHeldOnce ==
  ASSUME OnceInv, [Next]_vars
  PROVE  JobsDiffer' /\ HeldOnce'
<1> USE DEF InHand
<1>0. /\ worker \in [Workers -> {"none", "ready", "waiting", "running", "exited"}]
      /\ job \in [Workers -> Job \cup {NoJob}]
      /\ queue \in Ring /\ Coherent(queue) /\ Items(queue) \in Seq(Job)
      /\ started \in Seq(Job) /\ accepted \in Seq(Job) /\ discarded \in Seq(Job)
      /\ NoRepeat(accepted) /\ HeldOnce /\ PoolInv
  BY ItemsType DEF OnceInv, JobsDiffer, PoolInv, TypeOK, Job
<1>1. CASE Untouched
  BY <1>0, <1>1 DEF Untouched, JobsDiffer, NoRepeat, HeldOnce
<1>2. CASE InitStart
  <2>1. InHand' = {} /\ accepted' = << >>
    BY <1>0, <1>2, AliveStates DEF InitStart, Alive
  <2>2. QED
    BY <2>1 DEF HeldOnce, JobsDiffer, NoRepeat
<1>3. CASE DestroyMutex
  <2>1. InHand' = {} /\ accepted' = accepted
    BY <1>3 DEF DestroyMutex, history
  <2>2. QED
    BY <1>0, <2>1 DEF HeldOnce, JobsDiffer, NoRepeat
<1>4. CASE ShutdownImmediate
  <2>1. /\ InHand' = InHand /\ job' = job /\ finished' = finished
        /\ accepted' = accepted
    BY <1>0, <1>4 DEF ShutdownImmediate, Broadcast
  <2>2. QED
    BY <1>0, <2>1 DEF HeldOnce, JobsDiffer, NoRepeat
<1>5. ASSUME NEW j \in Job \ Submitted, Submit(j)
      PROVE  JobsDiffer' /\ HeldOnce'
  <2>1. job' = job /\ finished' = finished /\ accepted' = Append(accepted, j)
    BY <1>5 DEF Submit
  <2>2. InHand' = InHand
    BY <1>0, <1>5 DEF Submit, Signal
  <2>3. JobsDiffer'
    BY <1>0, <2>1, NoRepeatAppend DEF Submitted, Elements, JobsDiffer
  <2>4. HeldOnce'
    BY <1>0, <2>1, <2>2 DEF HeldOnce
  <2>5. QED
    BY <2>3, <2>4
<1>6. ASSUME NEW w \in Workers, Take(w) PROVE JobsDiffer' /\ HeldOnce'
  <2>1. Items(queue) # << >> /\ Oldest(queue) = Head(Items(queue))
    BY <1>0, <1>6, TakeFindsJob, PopTakesFirst DEF Take
  <2>2. Oldest(queue) \notin Elements(started)
    BY <1>0, <2>1, FreshHead DEF PoolInv, JobOrder
  <2>3. Elements(started) = finished \cup {job[v] : v \in InHand}
    BY <1>0 DEF PoolInv, StartedAreKnown
  <2>4. /\ InHand' = InHand \cup {w} /\ w \notin InHand
        /\ job'[w] = Oldest(queue) /\ \A v \in InHand : job'[v] = job[v]
        /\ finished' = finished /\ accepted' = accepted
    BY <1>0, <1>6 DEF Take
  <2>5. Oldest(queue) \notin finished /\ \A v \in InHand : job[v] # Oldest(queue)
    BY <2>2, <2>3
  <2>6. HeldOnce'
    <3> HIDE DEF InHand
    <3>1. QED
      BY <1>0, <2>4, <2>5 DEF HeldOnce
  <2>7. QED
    BY <1>0, <2>4, <2>6 DEF JobsDiffer, NoRepeat
<1>7. ASSUME NEW w \in Workers, Return(w) PROVE JobsDiffer' /\ HeldOnce'
  <2>1. /\ InHand' = InHand \ {w} /\ w \in InHand
        /\ \A v \in InHand' : job'[v] = job[v]
        /\ finished' = finished \cup {job[w]} /\ accepted' = accepted
    BY <1>0, <1>7 DEF Return
  <2>2. QED
    BY <1>0, <2>1 DEF HeldOnce, JobsDiffer, NoRepeat
<1> HIDE DEF InHand
<1>8. QED
  BY <1>0, <1>1, <1>2, <1>3, <1>4, <1>5, <1>6, <1>7, OtherActions

(* What a worker took is being run by that worker and no other, or its     *)
(* callback returned: no job runs twice, is lost in a worker, or is run    *)
(* without having been accepted.                                           *)
THEOREM JobsRunOnce == Spec => []StartedRunsOnce
<1>1. Init => OnceInv
  BY InitPoolInv DEF Init, OnceInv, JobsDiffer, NoRepeat, HeldOnce, InHand
<1>2. OnceInv => StartedRunsOnce
  BY DEF OnceInv, PoolInv, StartedAreKnown, Elements, HeldOnce, StartedRunsOnce
<1>3. OnceInv /\ PoolInv' /\ [Next]_vars => OnceInv'
  BY NextHeldOnce DEF OnceInv
<1>4. QED
  BY <1>1, <1>2, <1>3, PoolInvariant, PTL DEF Spec

-----------------------------------------------------------------------------
(* Wakeups.                                                                *)

Ready == {w \in Workers : worker[w] = "ready"}

Sleeping == \E w \in Workers : worker[w] = "waiting"

WakeupInv == PoolInv /\ WakeupsSuffice

LEMMA ReadyIsFinite ==
  /\ IsFiniteSet(Ready) /\ Cardinality(Ready) \in Nat
  /\ \A w : w \in Ready => Cardinality(Ready \ {w}) = Cardinality(Ready) - 1
  /\ \A w : w \notin Ready => Cardinality(Ready \cup {w}) = Cardinality(Ready) + 1
<1>1. IsFiniteSet(Workers)
  BY PoolAssumption, FS_Interval DEF Workers
<1>2. IsFiniteSet(Ready)
  BY <1>1, FS_Subset DEF Ready
<1>3. QED
  BY <1>2, FS_CardinalityType, FS_AddElement, FS_RemoveElement

(* A step that neither adds a job nor takes a ready worker away.           *)
LEMMA StaysSufficient ==
  ASSUME PoolInv, WakeupsSuffice, Ready \subseteq Ready', queue'.count = queue.count,
         Sleeping' => Sleeping /\ state' = "RUNNING", IsFiniteSet(Ready')
  PROVE  WakeupsSuffice'
<1> SUFFICES ASSUME Sleeping'
             PROVE  state' = "RUNNING" /\ Cardinality(Ready') >= queue'.count
  BY DEF WakeupsSuffice, Sleeping, Ready
<1>1. state' = "RUNNING" /\ Cardinality(Ready) >= queue.count
  BY DEF WakeupsSuffice, Sleeping, Ready
<1>2. Cardinality(Ready) <= Cardinality(Ready')
  BY FS_Subset
<1>3. Cardinality(Ready) \in Nat /\ Cardinality(Ready') \in Nat /\ queue.count \in Nat
  BY ReadyIsFinite, FS_CardinalityType, RingAssumption DEF PoolInv, TypeOK, Ring
<1>4. QED
  BY <1>1, <1>2, <1>3

LEMMA NextWakeups ==
  ASSUME WakeupInv, [Next]_vars
  PROVE  WakeupsSuffice'
<1>0. /\ PoolInv /\ WakeupsSuffice /\ TypeOK
      /\ worker \in [Workers -> {"none", "ready", "waiting", "running", "exited"}]
      /\ Sleeping => state = "RUNNING" /\ Cardinality(Ready) >= queue.count
      /\ Cardinality(Ready) \in Nat /\ queue.count \in Nat
  BY ReadyIsFinite, RingAssumption
     DEF WakeupInv, PoolInv, TypeOK, Ring, WakeupsSuffice, Sleeping, Ready
<1>1. IsFiniteSet(Ready')
  <2>1. IsFiniteSet(Workers)
    BY PoolAssumption, FS_Interval DEF Workers
  <2>2. Ready' \in SUBSET Workers
    BY DEF Ready
  <2>3. QED
    BY <2>1, <2>2, FS_Subset
<1>2. ASSUME ~Sleeping' PROVE WakeupsSuffice'
  BY <1>2 DEF WakeupsSuffice, Sleeping
<1>3. ASSUME Ready \subseteq Ready', Sleeping' => Sleeping,
             UNCHANGED <<queue, state>>
      PROVE  WakeupsSuffice'
  BY <1>0, <1>1, <1>3, StaysSufficient
<1>4. CASE InitStart \/ InitConditionFails
  <2>1. \A w \in Workers : worker[w] # "waiting"
    BY <1>0, <1>4, AliveStates DEF InitStart, InitConditionFails, Alive
  <2>2. worker' = worker
    BY <1>4 DEF InitStart, InitConditionFails, primitives, history
  <2>3. QED
    BY <1>2, <2>1, <2>2 DEF Sleeping
<1>5. CASE CreateFails \/ ShutdownDrain \/ ShutdownImmediate
  <2>1. worker' = Broadcast
    BY <1>5 DEF CreateFails, ShutdownDrain, ShutdownImmediate
  <2>2. QED
    BY <1>2, <2>1 DEF Sleeping, Broadcast
<1>6. CASE JoinCall \/ JoinWorker \/ JoinReturns \/ JoinFails
           \/ DestroyCall \/ DestroyCondition \/ DestroyFails
  <2>1. state # "RUNNING"
    BY <1>0, <1>6 DEF JoinCall, JoinWorker, JoinReturns, JoinFails, DestroyCall,
         DestroyCondition, DestroyFails, PoolInv, LifeCycle
  <2>2. worker' = worker
    BY <1>6 DEF JoinCall, JoinWorker, JoinReturns, JoinFails, DestroyCall,
         DestroyCondition, DestroyFails
  <2>3. QED
    BY <1>0, <1>2, <2>1, <2>2 DEF Sleeping
<1>7. CASE DestroyMutex
  BY <1>2, <1>7 DEF DestroyMutex, Sleeping
<1>8. CASE CreateWorker
  <2>1. /\ created_workers + 1 \in Workers
        /\ worker' = [worker EXCEPT ![created_workers + 1] = "ready"]
        /\ UNCHANGED <<queue, state>>
    BY <1>0, <1>8, PoolAssumption DEF CreateWorker, TypeOK, Workers
  <2>2. QED
    BY <1>0, <1>3, <2>1 DEF Ready, Sleeping
<1>9. CASE InitReturns \/ UNCHANGED vars
  BY <1>3, <1>9 DEF InitReturns, vars, Ready, Sleeping
<1>10. ASSUME NEW j \in Job, Submit(j) PROVE WakeupsSuffice'
  <2>1. queue'.count = queue.count + 1 /\ state' = state /\ state = "RUNNING"
    BY <1>10 DEF Submit, Push
  <2>2. CASE \A w \in Workers : worker[w] # "waiting"
    BY <1>2, <1>10, <2>2 DEF Submit, Signal, Sleeping
  <2>3. CASE \E w \in Workers : worker[w] = "waiting"
    <3>1. PICK w \in Workers :
            worker[w] = "waiting" /\ worker' = [worker EXCEPT ![w] = "ready"]
      BY <1>10, <2>3 DEF Submit, Signal
    <3>2. Ready' = Ready \cup {w} /\ w \notin Ready
      BY <1>0, <3>1 DEF Ready
    <3>3. Cardinality(Ready') = Cardinality(Ready) + 1
      BY <3>2, ReadyIsFinite
    <3>4. Cardinality(Ready) >= queue.count
      BY <1>0, <3>1 DEF Sleeping
    <3>5. Cardinality(Ready') >= queue'.count
      BY <1>0, <2>1, <3>3, <3>4
    <3>6. QED
      BY <2>1, <3>5 DEF WakeupsSuffice, Ready
  <2>4. QED
    BY <2>2, <2>3
<1>11. ASSUME NEW w \in Workers, Wait(w) PROVE WakeupsSuffice'
  <2>1. queue'.count = 0 /\ state' = "RUNNING"
    BY <1>11 DEF Wait, IsEmpty
  <2>2. Cardinality(Ready') \in Nat
    BY <1>1, FS_CardinalityType
  <2>3. QED
    BY <2>1, <2>2 DEF WakeupsSuffice, Ready
<1>12. ASSUME NEW w \in Workers, Exit(w) PROVE WakeupsSuffice'
  <2>1. /\ state # "RUNNING" /\ worker' = [worker EXCEPT ![w] = "exited"]
    BY <1>12 DEF Exit, MustExit
  <2>2. QED
    BY <1>0, <1>2, <2>1 DEF Sleeping
<1>13. ASSUME NEW w \in Workers, Take(w) PROVE WakeupsSuffice'
  <2>1. /\ queue'.count = queue.count - 1 /\ state' = state
        /\ worker[w] = "ready" /\ worker' = [worker EXCEPT ![w] = "running"]
    BY <1>13 DEF Take, Pop
  <2>2. Ready' = Ready \ {w} /\ w \in Ready
    BY <1>0, <2>1 DEF Ready
  <2>3. Cardinality(Ready') = Cardinality(Ready) - 1
    BY <2>2, ReadyIsFinite
  <2>4. Sleeping' => Sleeping
    BY <1>0, <2>1 DEF Sleeping
  <2>5. Sleeping' => state' = "RUNNING" /\ Cardinality(Ready') >= queue'.count
    BY <1>0, <2>1, <2>3, <2>4
  <2>6. QED
    BY <2>5 DEF WakeupsSuffice, Ready, Sleeping
<1>14. ASSUME NEW w \in Workers, Return(w) \/ WakeSpurious(w) PROVE WakeupsSuffice'
  <2>1. /\ worker' = [worker EXCEPT ![w] = "ready"] /\ UNCHANGED <<queue, state>>
    BY <1>14 DEF Return, WakeSpurious
  <2>2. QED
    BY <1>0, <1>3, <2>1 DEF Ready, Sleeping
<1>15. QED
  BY <1>4, <1>5, <1>6, <1>7, <1>8, <1>9, <1>10, <1>11, <1>12, <1>13, <1>14
     DEF Next, Manage, Work

(* No wakeup is lost: at any time enough workers are awake for the jobs    *)
(* that wait, although submit signals one worker only and pthread_cond_wait*)
(* may return without a signal; nobody sleeps through a shutdown.          *)
THEOREM NoWakeupIsLost == Spec => []WakeupsSuffice
<1>1. Init => WakeupInv
  BY InitPoolInv DEF Init, WakeupInv, WakeupsSuffice
<1>2. WakeupInv /\ PoolInv' /\ [Next]_vars => WakeupInv'
  BY NextWakeups DEF WakeupInv
<1>3. WakeupInv => WakeupsSuffice
  BY DEF WakeupInv
<1>4. QED
  BY <1>1, <1>2, <1>3, PoolInvariant, PTL DEF Spec
=============================================================================
