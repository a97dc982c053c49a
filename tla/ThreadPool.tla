----------------------------- MODULE ThreadPool -----------------------------
(***************************************************************************)
(* ut_thread_pool_t: producers submit jobs to a fixed ring, workers take   *)
(* and run them, a manager starts the pool, shuts it down, joins and       *)
(* destroys it. A step is one critical section of pool->mutex, one pthread *)
(* call of the manager, or a callback's return.                            *)
(*                                                                         *)
(* The contract of the header is assumed: nobody submits before init has   *)
(* returned OK, management calls are serialised, and no submit runs during *)
(* join and destroy. Rejected calls change nothing.                        *)
(***************************************************************************)
EXTENDS RingQueue, FiniteSets

CONSTANT WorkerCount

ASSUME PoolAssumption == WorkerCount \in Nat \ {0}

Job == Item           \* a submission; each is made once between two inits
NoJob == Unset
Workers == 1 .. WorkerCount

VARIABLES
  state, mutex_initialized, condition_initialized,
  created_workers, joined_workers,
  queue,              \* queue, queue_head, queue_tail and queue_count
  worker,             \* where each worker thread is
  job,                \* the job a running worker holds
  manager,            \* the management call under way
  accepted,           \* history since init: accepted jobs, in order,
  started,            \* those a worker took, in order,
  finished,           \* those whose callback returned,
  discarded           \* and those an immediate shutdown dropped

primitives == <<mutex_initialized, condition_initialized>>
history == <<accepted, started, finished, discarded>>
vars == <<state, primitives, created_workers, joined_workers, queue, worker,
          job, manager, history>>

Init ==
  /\ state = "UNINITIALIZED"
  /\ mutex_initialized = FALSE /\ condition_initialized = FALSE
  /\ created_workers = 0 /\ joined_workers = 0
  /\ queue = EmptyRing
  /\ worker = [w \in Workers |-> "none"]
  /\ job = [w \in Workers |-> NoJob]
  /\ manager = "none"
  /\ accepted = << >> /\ started = << >> /\ finished = {} /\ discarded = << >>

(* Mistakes: waiting workers are not woken.                                *)
BroadcastNobody == worker
SignalNobody == worker' = worker

Broadcast == [w \in Workers |-> IF worker[w] = "waiting" THEN "ready" ELSE worker[w]]

(* pthread_cond_signal() wakes one of the waiting workers, if there is any. *)
Signal ==
  \/ /\ \A w \in Workers : worker[w] # "waiting"
     /\ worker' = worker
  \/ \E w \in Workers :
       worker[w] = "waiting" /\ worker' = [worker EXCEPT ![w] = "ready"]

-----------------------------------------------------------------------------
(* ut_thread_pool_init(). A failing mutex_init leaves nothing behind.      *)

InitStart ==
  /\ manager = "none" /\ state = "UNINITIALIZED"
  /\ state' = "RUNNING" /\ manager' = "creating"
  /\ mutex_initialized' = TRUE /\ condition_initialized' = TRUE
  /\ accepted' = << >> /\ started' = << >> /\ finished' = {} /\ discarded' = << >>
  /\ UNCHANGED <<created_workers, joined_workers, queue, worker, job>>

(* condition_init failed; the clean-up is the destroy call that follows.   *)
InitConditionFails ==
  /\ manager = "none" /\ state = "UNINITIALIZED"
  /\ state' = "JOINED" /\ manager' = "destroying"
  /\ mutex_initialized' = TRUE
  /\ UNCHANGED <<condition_initialized, created_workers, joined_workers, queue,
                 worker, job, history>>

CreateWorker ==
  /\ manager = "creating" /\ created_workers < WorkerCount
  /\ worker' = [worker EXCEPT ![created_workers + 1] = "ready"]
  /\ created_workers' = created_workers + 1
  /\ UNCHANGED <<state, primitives, joined_workers, queue, job, manager, history>>

InitReturns ==
  /\ manager = "creating" /\ created_workers = WorkerCount
  /\ manager' = "none"
  /\ UNCHANGED <<state, primitives, created_workers, joined_workers, queue,
                 worker, job, history>>

(* cleanup_failed_init() up to its join.                                   *)
CreateFails ==
  /\ manager = "creating" /\ created_workers < WorkerCount
  /\ state' = "STOPPING" /\ worker' = Broadcast
  /\ manager' = "cleanup"
  /\ UNCHANGED <<primitives, created_workers, joined_workers, queue, job, history>>

-----------------------------------------------------------------------------
(* ut_thread_pool_submit() when it returns OK.                             *)
Submit(j) ==
  /\ manager = "none" /\ state = "RUNNING"
  /\ ~IsFull(queue)
  /\ queue' = Push(queue, j)
  /\ Signal
  /\ accepted' = Append(accepted, j)
  /\ UNCHANGED <<state, primitives, created_workers, joined_workers, job,
                 manager, started, finished, discarded>>

ShutdownDrain ==
  /\ manager = "none" /\ state = "RUNNING"
  /\ state' = "DRAINING" /\ worker' = Broadcast
  /\ UNCHANGED <<primitives, created_workers, joined_workers, queue, job,
                 manager, history>>

ShutdownImmediate ==
  /\ manager = "none" /\ state = "RUNNING"
  /\ state' = "STOPPING" /\ worker' = Broadcast
  /\ queue' = Clear(queue) /\ discarded' = Items(queue)
  /\ UNCHANGED <<primitives, created_workers, joined_workers, job, manager,
                 accepted, started, finished>>

-----------------------------------------------------------------------------
(* ut_thread_pool_join() and ut_thread_pool_destroy(). Each pthread call   *)
(* may fail, which ends the call; the caller may call again.               *)

JoinCall ==
  /\ manager = "none" /\ state \in {"DRAINING", "STOPPING"}
  /\ manager' = "joining"
  /\ UNCHANGED <<state, primitives, created_workers, joined_workers, queue,
                 worker, job, history>>

JoinWorker ==
  /\ manager \in {"joining", "cleanup"} /\ joined_workers < created_workers
  /\ worker[joined_workers + 1] = "exited"
  /\ joined_workers' = joined_workers + 1
  /\ UNCHANGED <<state, primitives, created_workers, queue, worker, job,
                 manager, history>>

JoinReturns ==
  /\ manager \in {"joining", "cleanup"} /\ joined_workers = created_workers
  /\ state' = "JOINED"
  /\ manager' = IF manager = "cleanup" THEN "destroying" ELSE "none"
  /\ UNCHANGED <<primitives, created_workers, joined_workers, queue, worker,
                 job, history>>

(* Mistake: a failing pthread_join() counts as joined.                     *)
JoinFailsAsJoined ==
  /\ manager \in {"joining", "cleanup"} /\ joined_workers < created_workers
  /\ manager' = "none" /\ state' = "JOINED"
  /\ UNCHANGED <<primitives, created_workers, joined_workers, queue, worker,
                 job, history>>

JoinFails ==
  /\ manager \in {"joining", "cleanup"} /\ joined_workers < created_workers
  /\ manager' = "none"
  /\ UNCHANGED <<state, primitives, created_workers, joined_workers, queue,
                 worker, job, history>>

DestroyCall ==
  /\ manager = "none" /\ state = "JOINED"
  /\ manager' = "destroying"
  /\ UNCHANGED <<state, primitives, created_workers, joined_workers, queue,
                 worker, job, history>>

DestroyCondition ==
  /\ manager = "destroying" /\ condition_initialized
  /\ condition_initialized' = FALSE
  /\ UNCHANGED <<state, mutex_initialized, created_workers, joined_workers,
                 queue, worker, job, manager, history>>

(* The pool is zeroed; the job array is the caller's.                      *)
DestroyMutex ==
  /\ manager = "destroying" /\ ~condition_initialized
  /\ mutex_initialized' = FALSE
  /\ state' = "UNINITIALIZED" /\ manager' = "none"
  /\ created_workers' = 0 /\ joined_workers' = 0
  /\ queue' = Clear(queue)
  /\ worker' = [w \in Workers |-> "none"]
  /\ UNCHANGED <<condition_initialized, job, history>>

DestroyFails ==
  /\ manager = "destroying"
  /\ manager' = "none"
  /\ UNCHANGED <<state, primitives, created_workers, joined_workers, queue,
                 worker, job, history>>

-----------------------------------------------------------------------------
(* worker_main()                                                           *)

Wait(w) ==
  /\ worker[w] = "ready"
  /\ IsEmpty(queue) /\ state = "RUNNING"
  /\ worker' = [worker EXCEPT ![w] = "waiting"]
  /\ UNCHANGED <<state, primitives, created_workers, joined_workers, queue,
                 job, manager, history>>

WakeSpurious(w) ==
  /\ worker[w] = "waiting"
  /\ worker' = [worker EXCEPT ![w] = "ready"]
  /\ UNCHANGED <<state, primitives, created_workers, joined_workers, queue,
                 job, manager, history>>

(* Mistake: a drain leaves pending jobs behind.                            *)
ExitsWhenDraining == state \in {"STOPPING", "DRAINING"}

MustExit == state = "STOPPING" \/ (state = "DRAINING" /\ IsEmpty(queue))

Exit(w) ==
  /\ worker[w] = "ready" /\ MustExit
  /\ worker' = [worker EXCEPT ![w] = "exited"]
  /\ UNCHANGED <<state, primitives, created_workers, joined_workers, queue,
                 job, manager, history>>

(* Mistake: the job taken stays in the queue.                              *)
TakeAgain(w) ==
  /\ worker[w] = "ready" /\ ~MustExit
  /\ ~IsEmpty(queue) \/ state # "RUNNING"
  /\ job' = [job EXCEPT ![w] = Oldest(queue)]
  /\ started' = Append(started, Oldest(queue))
  /\ worker' = [worker EXCEPT ![w] = "running"]
  /\ UNCHANGED <<state, primitives, created_workers, joined_workers, queue,
                 manager, accepted, finished, discarded>>

Take(w) ==
  /\ worker[w] = "ready" /\ ~MustExit
  /\ ~IsEmpty(queue) \/ state # "RUNNING"
  /\ job' = [job EXCEPT ![w] = Oldest(queue)]
  /\ queue' = Pop(queue)
  /\ started' = Append(started, Oldest(queue))
  /\ worker' = [worker EXCEPT ![w] = "running"]
  /\ UNCHANGED <<state, primitives, created_workers, joined_workers, manager,
                 accepted, finished, discarded>>

Return(w) ==
  /\ worker[w] = "running"
  /\ worker' = [worker EXCEPT ![w] = "ready"]
  /\ job' = [job EXCEPT ![w] = NoJob]
  /\ finished' = finished \cup {job[w]}
  /\ UNCHANGED <<state, primitives, created_workers, joined_workers, queue,
                 manager, accepted, started, discarded>>

Work(w) == Wait(w) \/ Exit(w) \/ Take(w) \/ Return(w)

-----------------------------------------------------------------------------

Submitted == {accepted[i] : i \in DOMAIN accepted}

Manage ==
  \/ InitStart \/ InitConditionFails \/ CreateWorker \/ InitReturns \/ CreateFails
  \/ ShutdownDrain \/ ShutdownImmediate
  \/ JoinCall \/ JoinWorker \/ JoinReturns \/ JoinFails
  \/ DestroyCall \/ DestroyCondition \/ DestroyMutex \/ DestroyFails

Next ==
  \/ Manage
  \/ \E j \in Job \ Submitted : Submit(j)
  \/ \E w \in Workers : Work(w) \/ WakeSpurious(w)

(* The scheduler runs every runnable worker, and callbacks return.         *)
Spec == Init /\ [][Next]_vars /\ \A w \in Workers : WF_vars(Work(w))

-----------------------------------------------------------------------------
(* Properties.                                                             *)

TypeOK ==
  /\ state \in {"UNINITIALIZED", "RUNNING", "DRAINING", "STOPPING", "JOINED"}
  /\ mutex_initialized \in BOOLEAN /\ condition_initialized \in BOOLEAN
  /\ created_workers \in 0 .. WorkerCount /\ joined_workers \in 0 .. WorkerCount
  /\ queue \in Ring
  /\ worker \in [Workers -> {"none", "ready", "waiting", "running", "exited"}]
  /\ job \in [Workers -> Job \cup {NoJob}]
  /\ manager \in {"none", "creating", "cleanup", "joining", "destroying"}
  /\ accepted \in Seq(Job) /\ started \in Seq(Job) /\ discarded \in Seq(Job)
  /\ finished \subseteq Job

(* Jobs start in the order they were accepted, each at most once; what is  *)
(* neither started nor pending was dropped by an immediate shutdown, which *)
(* drops the youngest.                                                     *)
JobOrder == accepted = started \o Items(queue) \o discarded

InHand == {w \in Workers : worker[w] = "running"}

(* A job a worker took is run by that worker alone and to its end.         *)
StartedRunsOnce ==
  /\ {started[i] : i \in DOMAIN started} = finished \cup {job[w] : w \in InHand}
  /\ \A w \in InHand :
       /\ job[w] \notin finished
       /\ \A v \in InHand : job[v] = job[w] => v = w

(* When join has succeeded every accepted job is settled: its callback     *)
(* returned or it was dropped, so its context may be reclaimed; a drain    *)
(* dropped none.                                                           *)
JoinedIsSettled ==
  /\ state = "JOINED" =>
       {accepted[i] : i \in DOMAIN accepted}
         = finished \cup {discarded[i] : i \in DOMAIN discarded}
  /\ state = "DRAINING" => discarded = << >>

(* No worker thread is left when its primitives are destroyed, also after  *)
(* failed and repeated init, join and destroy calls.                       *)
NoWorkerWithoutPrimitives ==
  /\ TypeOK
  /\ (\E w \in Workers : worker[w] \in {"ready", "waiting", "running"})
       => mutex_initialized /\ condition_initialized

(* No wakeup is lost: while workers sleep, at least as many others are on  *)
(* their way to the queue as jobs wait in it; after a shutdown none        *)
(* sleeps.                                                                 *)
WakeupsSuffice ==
  (\E w \in Workers : worker[w] = "waiting") =>
    /\ state = "RUNNING"
    /\ Cardinality({w \in Workers : worker[w] = "ready"}) >= queue.count

(* Every accepted job is eventually finished or dropped.                   *)
AcceptedIsSettled ==
  \A j \in Job :
    j \in Submitted ~> (j \in finished \/ \E i \in DOMAIN discarded : discarded[i] = j)

(* After a shutdown the threads end, so join returns.                      *)
ShutdownEndsWorkers ==
  (state \in {"DRAINING", "STOPPING"})
    ~> (\A w \in Workers : worker[w] \in {"none", "exited"})
=============================================================================
