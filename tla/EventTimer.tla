----------------------------- MODULE EventTimer -----------------------------
(***************************************************************************)
(* ut_event_timer_scheduler_t: caller-owned slots, each with the event it  *)
(* pushes to a queue once the tick passed to process() has reached its     *)
(* deadline. It owns no clock: every tick comes from the caller. A step is *)
(* one call, or one slot handled by the loop of process().                 *)
(*                                                                         *)
(* count is the number of active slots and not kept apart; rejected calls  *)
(* change nothing.                                                         *)
(***************************************************************************)
EXTENDS RingQueue

CONSTANTS
  TimerId,
  Inactive,        \* a zeroed slot
  TimerCapacity,   \* scheduler->capacity
  MaxTick          \* UINT64_MAX, scaled down

Tick == 0 .. MaxTick
TimerSlots == 1 .. TimerCapacity
Timer == [id : TimerId, event : Item, deadline : Tick, period : Tick]

ASSUME TimerAssumption ==
  /\ TimerCapacity \in Nat \ {0} /\ MaxTick \in Nat \ {0}
  /\ Inactive \notin Timer

VARIABLES
  slots,
  scan,            \* ut_event_timer_process(): whether it runs (processing),
                   \* its now and the last slot it handled
  queue            \* the queue given to process()

timerVars == <<slots, scan>>

NoScan == [processing |-> FALSE, now |-> 0, index |-> 0]

TimerInit == slots = [i \in TimerSlots |-> Inactive] /\ scan = NoScan

Active(i) == slots[i] # Inactive

(* find_slot(): timer ids are unique, see UniqueIds.                       *)
find_slot(id, i) ==
  /\ Active(i) /\ slots[i].id = id
  /\ \A j \in TimerSlots : j < i => ~(Active(j) /\ slots[j].id = id)

FreeTimerSlot(i) == ~Active(i) /\ \A j \in TimerSlots : j < i => Active(j)

Configured(id, event, deadline, period) ==
  [id |-> id, event |-> event, deadline |-> deadline, period |-> period]

-----------------------------------------------------------------------------

(* Mistake: the id may be in use already.                                  *)
TimerStartAnyway(id, event, now, delay, period) ==
  /\ ~scan.processing
  /\ now + delay <= MaxTick
  /\ \E i \in TimerSlots :
       /\ FreeTimerSlot(i)
       /\ slots' = [slots EXCEPT ![i] = Configured(id, event, now + delay, period)]
  /\ UNCHANGED <<scan, queue>>

(* ut_event_timer_start() when it returns OK.                              *)
TimerStart(id, event, now, delay, period) ==
  /\ ~scan.processing
  /\ now + delay <= MaxTick
  /\ ~\E i \in TimerSlots : find_slot(id, i)
  /\ \E i \in TimerSlots :
       /\ FreeTimerSlot(i)
       /\ slots' = [slots EXCEPT ![i] = Configured(id, event, now + delay, period)]
  /\ UNCHANGED <<scan, queue>>

(* ut_event_timer_restart() when it returns OK.                            *)
TimerRestart(id, event, now, delay, period) ==
  /\ ~scan.processing
  /\ now + delay <= MaxTick
  /\ \E i \in TimerSlots :
       /\ find_slot(id, i)
       /\ slots' = [slots EXCEPT ![i] = Configured(id, event, now + delay, period)]
  /\ UNCHANGED <<scan, queue>>

(* ut_event_timer_cancel() when it returns OK.                             *)
TimerCancel(id) ==
  /\ ~scan.processing
  /\ \E i \in TimerSlots :
       find_slot(id, i) /\ slots' = [slots EXCEPT ![i] = Inactive]
  /\ UNCHANGED <<scan, queue>>

-----------------------------------------------------------------------------
(* ut_event_timer_process()                                                *)

ProcessCall(now) ==
  /\ ~scan.processing
  /\ scan' = [processing |-> TRUE, now |-> now, index |-> 0]
  /\ UNCHANGED <<slots, queue>>

Due(i) == Active(i) /\ scan.now >= slots[i].deadline

Reached(i) ==
  /\ i > scan.index /\ Due(i)
  /\ \A j \in TimerSlots : j < i /\ j > scan.index => ~Due(j)

(* Mistakes: the sum may pass UINT64_MAX; the period counts from the late  *)
(* call; the quotient is not rounded up to a future deadline.              *)
AdvancedPastEnd(t, now) ==
  [t EXCEPT !.deadline = @ + ((now - @) \div t.period + 1) * t.period]

AdvancedFromNow(t, now) ==
  IF now + t.period > MaxTick THEN Inactive
  ELSE [t EXCEPT !.deadline = now + t.period]

AdvancedToPresent(t, now) ==
  [t EXCEPT !.deadline = @ + ((now - @) \div t.period) * t.period]

(* advance_periodic_deadline(), whose sum would otherwise wrap; a timer    *)
(* that cannot be advanced ends.                                           *)
Advanced(t, now) ==
  LET elapsed_periods == (now - t.deadline) \div t.period
      steps == (elapsed_periods + 1) % (MaxTick + 1)
  IN  IF elapsed_periods = MaxTick \/ steps > (MaxTick - t.deadline) \div t.period
      THEN Inactive
      ELSE [t EXCEPT !.deadline = @ + steps * t.period]

(* A due slot whose event fits into the queue.                             *)
Emit ==
  /\ scan.processing /\ ~IsFull(queue)
  /\ \E i \in TimerSlots :
       /\ Reached(i)
       /\ queue' = Push(queue, slots[i].event)
       /\ slots' = [slots EXCEPT ![i] =
            IF @.period = 0 THEN Inactive ELSE Advanced(@, scan.now)]
       /\ scan' = [scan EXCEPT !.index = i]

Blocked == IsFull(queue) /\ \E i \in TimerSlots : Reached(i)

(* The loop is through, or the queue is full: then it returns FULL.        *)
ProcessReturns ==
  /\ scan.processing
  /\ Blocked \/ \A i \in TimerSlots : ~Reached(i)
  /\ scan' = NoScan
  /\ UNCHANGED <<slots, queue>>

-----------------------------------------------------------------------------

TimerType ==
  /\ slots \in [TimerSlots -> Timer \cup {Inactive}]
  /\ scan \in [processing : BOOLEAN, now : Tick, index : 0 .. TimerCapacity]
=============================================================================
