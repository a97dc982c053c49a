--------------------------- MODULE EventExecutor ---------------------------
(***************************************************************************)
(* ut_event_executor_t: run_once() lets due timers push their events, then *)
(* pops up to a budget of events, checks each against its contract and     *)
(* dispatches it. Timers, queue and dispatcher are unlocked: one thread    *)
(* runs it all, and handlers call back into timers and queue, and into     *)
(* run_once() itself. A step is one call, one timer, one event or one      *)
(* handler call.                                                           *)
(*                                                                         *)
(* Timers and a contract table are attached: without timers process_timers *)
(* returns as it does when none is active, and without a table every event *)
(* passes, as those the table lists do. Metrics, which count what the      *)
(* report counts, are left out.                                            *)
(***************************************************************************)
EXTENDS EventTimer, EventDispatcher, EventContract, FiniteSets

CONSTANTS
  Budget,           \* largest event_budget of a call
  TimerRequests,    \* the timer settings the application uses: id, event,
                    \* delay and period
  Published         \* the events it pushes itself

ASSUME ExecutorAssumption ==
  /\ Budget \in Nat \ {0}
  /\ Published \subseteq Item
  /\ \A r \in TimerRequests :
       /\ r.id \in TimerId /\ r.event \in Item
       /\ r.delay \in Tick /\ r.period \in Tick
  /\ \A e \in Item : e.id \in EventId
  /\ \A i \in DOMAIN Contracts : Contracts[i].event_id # AnyId
  /\ Inactive \notin [event : Item, deadline : Tick, period : Tick]

VARIABLES
  executor,     \* run_once(): where it is, its event_budget and its report
  clock         \* the caller's monotonic tick, as of its last call

vars == <<timerVars, dispatcherVars, queue, executor, clock>>

EmptyReport ==
  [dequeued |-> 0, dispatched |-> 0, unhandled |-> 0, rejected |-> 0,
   dispatch_error |-> 0]

Idle == [at |-> "idle", budget |-> 0, report |-> EmptyReport]

Init ==
  /\ TimerInit /\ DispatcherInit
  /\ queue = EmptyRing
  /\ executor = Idle
  /\ clock = 0

-----------------------------------------------------------------------------
(* The application, between two calls or in a handler. While run_once()    *)
(* steps, a handler that called it is suspended.                           *)

InHandler ==
  round.dispatching /\ round.index > 0 /\ executor.at \in {"idle", "dispatch"}

MayCall == InHandler \/ (executor.at = "idle" /\ ~round.dispatching)

SetTimer ==
  /\ MayCall
  /\ \E r \in TimerRequests :
       \/ TimerStart(r.id, r.event, clock, r.delay, r.period)
       \/ TimerRestart(r.id, r.event, clock, r.delay, r.period)
  /\ UNCHANGED <<dispatcherVars, executor, clock>>

CancelTimer ==
  /\ MayCall
  /\ \E id \in TimerId : TimerCancel(id)
  /\ UNCHANGED <<dispatcherVars, executor, clock>>

Publish ==
  /\ MayCall
  /\ ~IsFull(queue)
  /\ \E e \in Published : queue' = Push(queue, e)
  /\ UNCHANGED <<timerVars, dispatcherVars, executor, clock>>

ClearQueue ==
  /\ MayCall
  /\ queue' = Clear(queue)
  /\ UNCHANGED <<timerVars, dispatcherVars, executor, clock>>

ChangeSubscription ==
  /\ MayCall
  /\ \E s \in Subscription : Subscribe(s) \/ Unsubscribe(s)
  /\ UNCHANGED <<timerVars, queue, executor, clock>>

(* An event dispatched without the executor.                               *)
DispatchDirectly ==
  /\ executor.at = "idle"
  /\ \E id \in EventId : BeginRound(id)
  /\ UNCHANGED <<timerVars, queue, executor, clock>>

ClockAdvances ==
  /\ MayCall
  /\ clock < MaxTick /\ clock' = clock + 1
  /\ UNCHANGED <<timerVars, dispatcherVars, queue, executor>>

-----------------------------------------------------------------------------
(* ut_event_executor_run_once(). Called from a handler it called itself it *)
(* returns BUSY, but from a handler of a direct dispatch it runs.          *)

RunOnce ==
  /\ MayCall /\ executor.at = "idle"
  /\ \E budget \in 1 .. Budget :
       executor' = [at |-> "timers", budget |-> budget, report |-> EmptyReport]
  /\ ProcessCall(clock)
  /\ UNCHANGED <<dispatcherVars, clock>>

(* process_timers()                                                        *)
TimerEmits ==
  /\ executor.at = "timers" /\ Emit
  /\ UNCHANGED <<dispatcherVars, executor, clock>>

TimersProcessed ==
  /\ executor.at = "timers" /\ ProcessReturns
  /\ executor' = [executor EXCEPT !.at = "queue"]
  /\ UNCHANGED <<dispatcherVars, clock>>

(* process_queue() and process_event()                                     *)
MayPop ==
  /\ executor.at = "queue"
  /\ executor.report.dequeued < executor.budget /\ ~IsEmpty(queue)

RejectEvent ==
  /\ MayPop /\ ~Conforms(Oldest(queue))
  /\ queue' = Pop(queue)
  /\ executor' = [executor EXCEPT !.report.dequeued = @ + 1, !.report.rejected = @ + 1]
  /\ UNCHANGED <<timerVars, dispatcherVars, clock>>

DispatchEvent ==
  /\ MayPop /\ Conforms(Oldest(queue))
  /\ queue' = Pop(queue)
  /\ BeginRound(Oldest(queue).id)
  /\ executor' = [executor EXCEPT !.at = "dispatch", !.report.dequeued = @ + 1]
  /\ UNCHANGED <<timerVars, clock>>

(* The dispatcher is busy with the event whose handler called run_once().  *)
LoseEvent ==
  /\ MayPop /\ Conforms(Oldest(queue)) /\ round.dispatching
  /\ queue' = Pop(queue)
  /\ executor' =
       [executor EXCEPT !.report.dequeued = @ + 1, !.report.dispatch_error = @ + 1]
  /\ UNCHANGED <<timerVars, dispatcherVars, clock>>

RunReturns ==
  /\ executor.at = "queue"
  /\ executor.report.dequeued = executor.budget \/ IsEmpty(queue)
  /\ executor' = Idle
  /\ UNCHANGED <<timerVars, dispatcherVars, queue, clock>>

-----------------------------------------------------------------------------
(* ut_event_dispatch(), called by the executor or directly.                *)

Deliver ==
  /\ executor.at \in {"idle", "dispatch"} /\ CallHandler
  /\ UNCHANGED <<timerVars, queue, executor, clock>>

(* Mistake: an event without subscriber is not counted.                    *)
DispatchDoneIfHandled ==
  /\ executor.at \in {"idle", "dispatch"} /\ EndRound
  /\ executor' =
       IF executor.at = "idle" THEN executor
       ELSE [executor EXCEPT !.at = "queue",
               !.report.dispatched = @ + IF called # << >> THEN 1 ELSE 0]
  /\ UNCHANGED <<timerVars, queue, clock>>

(* Mistake: the report starts anew with every event.                       *)
DispatchDoneClearsReport ==
  /\ executor.at \in {"idle", "dispatch"} /\ EndRound
  /\ executor' = IF executor.at = "idle" THEN executor
                 ELSE [executor EXCEPT !.at = "queue", !.report = EmptyReport]
  /\ UNCHANGED <<timerVars, queue, clock>>

DispatchDone ==
  /\ executor.at \in {"idle", "dispatch"} /\ EndRound
  /\ executor' =
       IF executor.at = "idle" THEN executor
       ELSE [executor EXCEPT !.at = "queue",
               !.report.dispatched = @ + IF called # << >> THEN 1 ELSE 0,
               !.report.unhandled = @ + IF called = << >> THEN 1 ELSE 0]
  /\ UNCHANGED <<timerVars, queue, clock>>

Executing ==
  \/ TimerEmits \/ TimersProcessed
  \/ RejectEvent \/ DispatchEvent \/ LoseEvent \/ RunReturns
  \/ Deliver \/ DispatchDone

Next ==
  \/ SetTimer \/ CancelTimer \/ Publish \/ ClearQueue \/ ChangeSubscription
  \/ DispatchDirectly \/ ClockAdvances \/ RunOnce \/ Executing

(* Handlers return, though they may publish as long as they run.           *)
Spec == Init /\ [][Next]_vars /\ WF_vars(Executing)

-----------------------------------------------------------------------------

TypeOK ==
  /\ TimerType /\ DispatcherType
  /\ queue \in Ring
  /\ executor.at \in {"idle", "timers", "queue", "dispatch"}
  /\ executor.budget \in 0 .. Budget
  /\ executor.report \in [DOMAIN EmptyReport -> 0 .. executor.budget]
  /\ clock \in Tick
  /\ scan.processing <=> executor.at = "timers"

AlarmOf(id) ==
  LET mine == {i \in TimerSlots : Active(i) /\ slots[i].id = id} IN
    IF mine = {} THEN Inactive
    ELSE LET t == slots[CHOOSE i \in mine : TRUE] IN
           [event |-> t.event, deadline |-> t.deadline, period |-> t.period]

Alarm ==
  INSTANCE AlarmClock WITH
    Event <- Item, Off <- Inactive, Alarms <- TimerCapacity,
    armed <- [id \in TimerId |-> AlarmOf(id)], pending <- Items(queue)

(* Slots, ring and the arithmetic on deadlines implement an alarm per id   *)
(* (architecture.md): no event comes early, a late call delivers one event *)
(* and the next is due at the next multiple in the future, a full queue    *)
(* leaves the timer as it was.                                             *)
ImplementsAlarms == Alarm!Spec

(* When the timers were processed nothing is left to fire, unless the queue*)
(* is full: a late call leaves no periodic timer with a deadline in the    *)
(* past, so one pass serves them all.                                      *)
NothingOverdue ==
  [][TimersProcessed => IsFull(queue) \/ \A i \in TimerSlots : ~Due(i)]_vars

(* A slot's id is found by restart and cancel whichever slot it is in: two *)
(* active slots never share one.                                           *)
UniqueIds ==
  /\ TypeOK
  /\ \A i, j \in TimerSlots :
       Active(i) /\ Active(j) /\ slots[i].id = slots[j].id => i = j

(* Every event taken from the queue is accounted for in the report, and    *)
(* one that was to be delivered is only lost when run_once() was called    *)
(* from a handler of a direct dispatch.                                    *)
EventsAccounted ==
  LET report == executor.report IN
  /\ report.dequeued =
       report.dispatched + report.unhandled + report.rejected
         + report.dispatch_error + IF executor.at = "dispatch" THEN 1 ELSE 0
  /\ report.dispatch_error > 0 => round.dispatching /\ executor.at = "queue"

(* The budget lets run_once() return although handlers publish, set timers *)
(* and dispatch as they like.                                              *)
RunOnceReturns == (executor.at # "idle") ~> (executor.at = "idle")
=============================================================================
