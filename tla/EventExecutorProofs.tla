------------------------ MODULE EventExecutorProofs ------------------------
(***************************************************************************)
(* Proofs about the executor with its timers, queue and dispatcher: timer  *)
(* ids stay unique, a pass over the timers leaves none overdue, run_once() *)
(* accounts for every event, and the timer slots implement one alarm per   *)
(* timer id.                                                               *)
(***************************************************************************)
EXTENDS EventExecutor, RingQueueProofs, FiniteSetTheorems

(* Arithmetic of advance_periodic_deadline(). *)
LEMMA Quotient ==
  ASSUME NEW a \in Nat, NEW p \in Nat \ {0}
  PROVE  /\ a \div p \in Nat
         /\ (a \div p) * p <= a
         /\ a < (a \div p + 1) * p
         /\ a \div p <= a
  OBVIOUS

LEMMA Remainder ==
  ASSUME NEW a \in Nat, NEW p \in Nat \ {0}
  PROVE  a = (a \div p) * p + (a % p)
  OBVIOUS

LEMMA Multiplication ==
  ASSUME NEW a \in Nat, NEW b \in Nat, NEW p \in Nat \ {0}
  PROVE  /\ a * p \in Nat
         /\ a <= b <=> a * p <= b * p
         /\ (a * p) % p = 0
         /\ a <= b \div p <=> a * p <= b
  OBVIOUS

(* Of the multiples of a period counted from a deadline, the one the code  *)
(* computes is the first after now.                                        *)
FirstAfter(now, d, p) == d + ((now - d) \div p + 1) * p

LEMMA FirstMultiple ==
  ASSUME NEW p \in Nat \ {0}, NEW d \in Nat, NEW now \in Nat, d <= now,
         NEW first, first = FirstAfter(now, d, p)
  PROVE  /\ first \in Nat /\ first > now /\ (first - d) % p = 0
         /\ \A x \in Nat : x > now /\ (x - d) % p = 0 => x >= first
<1>1. PICK e \in Nat : e = (now - d) \div p
  BY Quotient
<1>2. first = d + (e + 1) * p
  BY <1>1 DEF FirstAfter
<1>3. now - d \in Nat /\ e + 1 \in Nat
  OBVIOUS
<1>4. (e + 1) * p \in Nat /\ now - d < (e + 1) * p /\ ((e + 1) * p) % p = 0
  BY <1>1, <1>3, Quotient, Multiplication
<1>5. first - d = (e + 1) * p
  BY <1>4, <1>2
<1>6. ASSUME NEW x \in Nat, x > now, (x - d) % p = 0
      PROVE  x >= first
  <2>1. x - d \in Nat /\ now - d < x - d
    BY <1>6
  <2>2. PICK k \in Nat : k = (x - d) \div p
    BY <2>1, Quotient
  <2>3. x - d = k * p
    BY <1>6, <2>1, <2>2, Remainder, Multiplication
  <2>4. e * p <= now - d /\ e * p \in Nat /\ k * p \in Nat
    BY <1>1, <1>3, Quotient, Multiplication
  <2>5. ~(k <= e)
    BY <2>1, <2>3, <2>4, Multiplication
  <2>6. (e + 1) * p <= k * p
    BY <1>3, <2>5, Multiplication
  <2>7. QED
    BY <1>2, <1>4, <2>3, <2>4, <2>6
<1>7. first \in Nat /\ first > now
  BY <1>2, <1>4
<1>8. QED
  BY <1>4, <1>5, <1>6, <1>7

-----------------------------------------------------------------------------
(* Timer slots and the scan over them.                                     *)

LEMMA TimerFields ==
  ASSUME NEW t \in Timer
  PROVE  /\ t.id \in TimerId /\ t.event \in Item
         /\ t.deadline \in Nat /\ t.deadline <= MaxTick
         /\ t.period \in Nat /\ t.period <= MaxTick
         /\ t # Inactive
  BY TimerAssumption DEF Timer, Tick

LEMMA TimerPostponed ==
  ASSUME NEW t \in Timer, NEW d \in Tick, NEW u, u = [t EXCEPT !.deadline = d]
  PROVE  /\ u \in Timer /\ u.id = t.id /\ u.event = t.event /\ u.deadline = d
         /\ u.period = t.period
  BY DEF Timer

(* What a periodic timer becomes when it fires: gone when no multiple of   *)
(* its period is left, else set to the first multiple after now.           *)
LEMMA AdvancedSetsFirstMultiple ==
  ASSUME NEW t \in Timer, NEW now \in Tick, t.period # 0, t.deadline <= now,
         NEW first, first = FirstAfter(now, t.deadline, t.period)
  PROVE  /\ first > MaxTick => Advanced(t, now) = Inactive
         /\ first <= MaxTick => Advanced(t, now) = [t EXCEPT !.deadline = first]
<1> DEFINE e == (now - t.deadline) \div t.period
           d == t.deadline + (e + 1) * t.period
           room == (MaxTick - t.deadline) \div t.period
<1>1. /\ now \in Nat /\ now <= MaxTick /\ MaxTick \in Nat
      /\ t.deadline \in Nat /\ t.deadline <= MaxTick
      /\ t.period \in Nat \ {0}
      /\ now - t.deadline \in Nat /\ MaxTick - t.deadline \in Nat
  BY TimerFields, TimerAssumption DEF Tick
<1>2. e \in Nat /\ e <= MaxTick /\ e + 1 \in Nat
  <2>1. e \in Nat /\ e <= now - t.deadline
    BY <1>1, Quotient
  <2> HIDE DEF e
  <2>2. QED
    BY <1>1, <2>1
<1>3. /\ e + 1 <= room <=> (e + 1) * t.period <= MaxTick - t.deadline
      /\ (e + 1) * t.period \in Nat /\ room \in Nat
  BY <1>1, <1>2, Multiplication, Quotient
<1>4. e + 1 <= room <=> d <= MaxTick
  BY <1>1, <1>3
<1>5. room <= MaxTick
  <2>1. room <= MaxTick - t.deadline
    BY <1>1, Quotient
  <2> HIDE DEF room
  <2>2. QED
    BY <1>1, <1>3, <2>1
<1>d. first = d
  BY DEF FirstAfter
<1>6. CASE e = MaxTick
  <2>1. d > MaxTick
    <3> HIDE DEF e, d, room
    <3>1. d \in Nat
      BY <1>1, <1>3 DEF d
    <3>2. QED
      BY <1>1, <1>2, <1>3, <1>4, <1>5, <1>6, <3>1
  <2>2. Advanced(t, now) = Inactive
    BY <1>6 DEF Advanced
  <2> HIDE DEF d
  <2>3. d \in Nat
    BY <1>1, <1>3 DEF d
  <2>4. QED
    BY <1>1, <1>d, <2>1, <2>2, <2>3
<1>7. CASE e # MaxTick
  <2>1. (e + 1) % (MaxTick + 1) = e + 1
    <3> HIDE DEF e
    <3>1. QED
      BY <1>1, <1>2, <1>7
  <2>2. Advanced(t, now) = IF e + 1 > room THEN Inactive ELSE [t EXCEPT !.deadline = d]
    BY <1>7, <2>1 DEF Advanced
  <2> HIDE DEF e, d, room
  <2>3. d \in Nat
    BY <1>1, <1>3 DEF d
  <2>4. QED
    BY <1>1, <1>2, <1>3, <1>4, <1>d, <2>2, <2>3
<1>8. QED
  BY <1>6, <1>7

-----------------------------------------------------------------------------
(* run_once(): its report and where it is.                                 *)

Report ==
  [dequeued : Nat, dispatched : Nat, unhandled : Nat, rejected : Nat,
   dispatch_error : Nat]

Execution ==
  [at : {"idle", "timers", "queue", "dispatch"}, budget : 0 .. Budget, report : Report]

LEMMA ReportFields ==
  ASSUME NEW r \in Report
  PROVE  /\ r.dequeued \in Nat /\ r.dispatched \in Nat /\ r.unhandled \in Nat
         /\ r.rejected \in Nat /\ r.dispatch_error \in Nat
  BY DEF Report

LEMMA ExecutionFields ==
  ASSUME NEW x \in Execution
  PROVE  /\ x.at \in {"idle", "timers", "queue", "dispatch"}
         /\ x.budget \in Nat /\ x.budget <= Budget
         /\ x.report \in Report
<1>1. Budget \in Nat
  BY ExecutorAssumption
<1>2. QED
  BY <1>1 DEF Execution

LEMMA ExecutionMoves ==
  ASSUME NEW x \in Execution, NEW y, NEW a \in {"idle", "timers", "queue", "dispatch"},
         y = [x EXCEPT !.at = a]
  PROVE  y \in Execution /\ y.at = a /\ y.budget = x.budget /\ y.report = x.report
  BY DEF Execution

LEMMA ExecutionReports ==
  ASSUME NEW x \in Execution, NEW y, NEW r \in Report, y = [x EXCEPT !.report = r]
  PROVE  y \in Execution /\ y.at = x.at /\ y.budget = x.budget /\ y.report = r
  BY DEF Execution

LEMMA NewExecution ==
  ASSUME NEW a \in {"idle", "timers"}, NEW b \in 0 .. Budget,
         NEW x, x = [at |-> a, budget |-> b, report |-> EmptyReport]
  PROVE  /\ x \in Execution /\ x.at = a /\ x.budget = b
         /\ x.report.dequeued = 0 /\ x.report.dispatched = 0
         /\ x.report.unhandled = 0 /\ x.report.rejected = 0
         /\ x.report.dispatch_error = 0
<1>1. EmptyReport \in Report
  BY DEF EmptyReport, Report
<1>2. x \in Execution
  BY <1>1 DEF Execution
<1>3. QED
  BY <1>2 DEF EmptyReport

(* What the steps of process_event() add to the report. *)
Added(r, n, dispatched, unhandled, rejected, dispatch_error) ==
  [dequeued |-> r.dequeued + n, dispatched |-> r.dispatched + dispatched,
   unhandled |-> r.unhandled + unhandled, rejected |-> r.rejected + rejected,
   dispatch_error |-> r.dispatch_error + dispatch_error]

LEMMA AddedFields ==
  ASSUME NEW r \in Report, NEW n \in Nat, NEW i \in Nat, NEW j \in Nat,
         NEW k \in Nat, NEW l \in Nat, NEW s, s = Added(r, n, i, j, k, l)
  PROVE  /\ s \in Report
         /\ s.dequeued = r.dequeued + n
         /\ s.dispatched = r.dispatched + i
         /\ s.unhandled = r.unhandled + j
         /\ s.rejected = r.rejected + k
         /\ s.dispatch_error = r.dispatch_error + l
  BY DEF Added, Report

LEMMA CountedReport ==
  ASSUME NEW r \in Report
  PROVE  /\ [r EXCEPT !.dequeued = @ + 1] = Added(r, 1, 0, 0, 0, 0)
         /\ [r EXCEPT !.dequeued = @ + 1, !.rejected = @ + 1] = Added(r, 1, 0, 0, 1, 0)
         /\ [r EXCEPT !.dequeued = @ + 1, !.dispatch_error = @ + 1] =
              Added(r, 1, 0, 0, 0, 1)
         /\ \A m \in Nat, n \in Nat :
              [r EXCEPT !.dispatched = @ + m, !.unhandled = @ + n] =
                Added(r, 0, m, n, 0, 0)
<1>1. PICK a \in Nat, b \in Nat, c \in Nat, d \in Nat, e \in Nat :
        r = [dequeued |-> a, dispatched |-> b, unhandled |-> c, rejected |-> d,
             dispatch_error |-> e]
  BY DEF Report
<1>3. a + 0 = a /\ b + 0 = b /\ c + 0 = c /\ d + 0 = d /\ e + 0 = e
  OBVIOUS
<1>4. PICK more : more = [r EXCEPT !.dequeued = @ + 1]
  OBVIOUS
<1>5. /\ more = [dequeued |-> a + 1, dispatched |-> b, unhandled |-> c, rejected |-> d,
                 dispatch_error |-> e]
      /\ more = Added(r, 1, 0, 0, 0, 0)
  BY <1>1, <1>3, <1>4 DEF Added
<1>6. [r EXCEPT !.dequeued = @ + 1, !.rejected = @ + 1] = Added(r, 1, 0, 0, 1, 0)
  <2>1. [r EXCEPT !.dequeued = @ + 1, !.rejected = @ + 1] =
          [more EXCEPT !.rejected = @ + 1]
    BY <1>1, <1>4
  <2>2. [more EXCEPT !.rejected = @ + 1] =
          [dequeued |-> a + 1, dispatched |-> b, unhandled |-> c, rejected |-> d + 1,
           dispatch_error |-> e]
    BY <1>5
  <2>3. Added(r, 1, 0, 0, 1, 0) =
          [dequeued |-> a + 1, dispatched |-> b, unhandled |-> c, rejected |-> d + 1,
           dispatch_error |-> e]
    BY <1>1, <1>3 DEF Added
  <2>4. QED
    BY <2>1, <2>2, <2>3
<1>7. [r EXCEPT !.dequeued = @ + 1, !.dispatch_error = @ + 1] = Added(r, 1, 0, 0, 0, 1)
  <2>1. [r EXCEPT !.dequeued = @ + 1, !.dispatch_error = @ + 1] =
          [more EXCEPT !.dispatch_error = @ + 1]
    BY <1>1, <1>4
  <2>2. [more EXCEPT !.dispatch_error = @ + 1] =
          [dequeued |-> a + 1, dispatched |-> b, unhandled |-> c, rejected |-> d,
           dispatch_error |-> e + 1]
    BY <1>5
  <2>3. Added(r, 1, 0, 0, 0, 1) =
          [dequeued |-> a + 1, dispatched |-> b, unhandled |-> c, rejected |-> d,
           dispatch_error |-> e + 1]
    BY <1>1, <1>3 DEF Added
  <2>4. QED
    BY <2>1, <2>2, <2>3
<1>8. ASSUME NEW m \in Nat, NEW n \in Nat
      PROVE  [r EXCEPT !.dispatched = @ + m, !.unhandled = @ + n] = Added(r, 0, m, n, 0, 0)
  <2>1. PICK sent : sent = [r EXCEPT !.dispatched = @ + m]
    OBVIOUS
  <2>2. sent = [dequeued |-> a, dispatched |-> b + m, unhandled |-> c, rejected |-> d,
                dispatch_error |-> e]
    BY <1>1, <2>1
  <2>3. [r EXCEPT !.dispatched = @ + m, !.unhandled = @ + n] =
          [sent EXCEPT !.unhandled = @ + n]
    BY <1>1, <2>1
  <2>4. [sent EXCEPT !.unhandled = @ + n] =
          [dequeued |-> a, dispatched |-> b + m, unhandled |-> c + n, rejected |-> d,
           dispatch_error |-> e]
    BY <2>2
  <2>5. Added(r, 0, m, n, 0, 0) =
          [dequeued |-> a, dispatched |-> b + m, unhandled |-> c + n, rejected |-> d,
           dispatch_error |-> e]
    BY <1>1, <1>3 DEF Added
  <2>6. QED
    BY <2>3, <2>4, <2>5
<1>9. QED
  BY <1>4, <1>5, <1>6, <1>7, <1>8

(* The inductive invariant of run_once(): the part of the type it needs,   *)
(* the accounting, and that only the pass over the timers runs the scan.   *)
ExecutorInv ==
  /\ executor \in Execution
  /\ executor.report.dequeued <= executor.budget
  /\ scan.processing <=> executor.at = "timers"
  /\ EventsAccounted

Scan == [processing : BOOLEAN, now : Tick, index : 0 .. TimerCapacity]

LEMMA ScanFields ==
  ASSUME NEW s \in Scan
  PROVE  /\ s.processing \in BOOLEAN /\ s.now \in Tick
         /\ s.index \in Nat /\ s.index <= TimerCapacity
         /\ \A i \in TimerSlots :
              /\ [s EXCEPT !.index = i] \in Scan
              /\ [s EXCEPT !.index = i].processing = s.processing
              /\ [s EXCEPT !.index = i].now = s.now
              /\ [s EXCEPT !.index = i].index = i
  BY TimerAssumption DEF Scan, TimerSlots

LEMMA NewScan ==
  /\ NoScan \in Scan /\ NoScan.processing = FALSE
  /\ \A now \in Tick :
       LET s == [processing |-> TRUE, now |-> now, index |-> 0] IN
         s \in Scan /\ s.processing = TRUE /\ s.now = now /\ s.index = 0
  BY TimerAssumption DEF NoScan, Scan, Tick

(* The accounting, in the form the steps below establish it. *)
Balanced(x, dispatching) ==
  /\ x \in Execution
  /\ x.report.dequeued <= x.budget
  /\ x.report.dequeued =
       x.report.dispatched + x.report.unhandled + x.report.rejected
         + x.report.dispatch_error + IF x.at = "dispatch" THEN 1 ELSE 0
  /\ x.report.dispatch_error > 0 => dispatching /\ x.at = "queue"

LEMMA ExecutorInvBalanced ==
  ExecutorInv <=>
    Balanced(executor, round.dispatching) /\ (scan.processing <=> executor.at = "timers")
  BY DEF ExecutorInv, Balanced, EventsAccounted

LEMMA ExecutorInvBalancedNext ==
  Balanced(executor', round'.dispatching) /\ (scan'.processing <=> executor'.at = "timers")
    => ExecutorInv'
  BY DEF ExecutorInv, Balanced, EventsAccounted

LEMMA ExecutorInit == Init => ExecutorInv
<1>1. SUFFICES ASSUME Init PROVE ExecutorInv
  OBVIOUS
<1>2. executor = [at |-> "idle", budget |-> 0, report |-> EmptyReport]
  BY <1>1 DEF Init, Idle
<1>3. 0 \in 0 .. Budget
  BY ExecutorAssumption
<1>4. Balanced(executor, round.dispatching)
  <2>1. /\ executor \in Execution /\ executor.at = "idle" /\ executor.budget = 0
        /\ executor.report.dequeued = 0 /\ executor.report.dispatched = 0
        /\ executor.report.unhandled = 0 /\ executor.report.rejected = 0
        /\ executor.report.dispatch_error = 0
    BY <1>2, <1>3, NewExecution
  <2>2. QED
    BY <2>1 DEF Balanced
<1>5. ~scan.processing /\ executor.at = "idle"
  BY <1>1, <1>2, NewScan DEF Init, TimerInit
<1>6. QED
  BY <1>4, <1>5, ExecutorInvBalanced

(* Steps that leave run_once() where it is, with the scan and the round    *)
(* they may touch.                                                         *)
LEMMA ExecutorRests ==
  ASSUME ExecutorInv, UNCHANGED executor, scan'.processing = scan.processing,
         executor.at = "queue" => round'.dispatching = round.dispatching
  PROVE  ExecutorInv'
<1>1. Balanced(executor', round'.dispatching)
  BY ExecutorInvBalanced DEF Balanced
<1>2. QED
  BY <1>1, ExecutorInvBalanced, ExecutorInvBalancedNext

LEMMA ExecutorStep ==
  ASSUME ExecutorInv, scan \in Scan, [Next]_vars
  PROVE  ExecutorInv'
<1> DEFINE r == executor.report
<1>a. /\ executor \in Execution
      /\ r \in Report
      /\ r.dequeued <= executor.budget
      /\ r.dequeued = r.dispatched + r.unhandled + r.rejected + r.dispatch_error
                        + IF executor.at = "dispatch" THEN 1 ELSE 0
      /\ r.dispatch_error > 0 => round.dispatching /\ executor.at = "queue"
      /\ scan.processing <=> executor.at = "timers"
  BY ExecutionFields, ExecutorInvBalanced DEF Balanced
<1>b. /\ r.dequeued \in Nat /\ r.dispatched \in Nat /\ r.unhandled \in Nat
      /\ r.rejected \in Nat /\ r.dispatch_error \in Nat
      /\ executor.budget \in Nat
  BY <1>a, ReportFields, ExecutionFields
<1> HIDE DEF r
<1>1. CASE SetTimer
  BY <1>1, ExecutorRests DEF SetTimer, TimerStart, TimerRestart, dispatcherVars
<1>2. CASE CancelTimer
  BY <1>2, ExecutorRests DEF CancelTimer, TimerCancel, dispatcherVars
<1>3. CASE Publish
  BY <1>3, ExecutorRests DEF Publish, dispatcherVars, timerVars
<1>4. CASE ClearQueue
  BY <1>4, ExecutorRests DEF ClearQueue, dispatcherVars, timerVars
<1>5. CASE ChangeSubscription
  BY <1>5, ExecutorRests DEF ChangeSubscription, Subscribe, Unsubscribe, timerVars
<1>6. CASE DispatchDirectly
  BY <1>6, ExecutorRests DEF DispatchDirectly, timerVars
<1>7. CASE ClockAdvances
  BY <1>7, ExecutorRests DEF ClockAdvances, dispatcherVars, timerVars
<1>8. CASE RunOnce
  <2>1. PICK budget \in 1 .. Budget :
          executor' = [at |-> "timers", budget |-> budget, report |-> EmptyReport]
    BY <1>8 DEF RunOnce
  <2>2. budget \in 0 .. Budget /\ budget \in Nat
    BY ExecutorAssumption
  <2>3. /\ executor' \in Execution /\ executor'.at = "timers" /\ executor'.budget = budget
        /\ executor'.report.dequeued = 0 /\ executor'.report.dispatched = 0
        /\ executor'.report.unhandled = 0 /\ executor'.report.rejected = 0
        /\ executor'.report.dispatch_error = 0
    BY <2>1, <2>2, NewExecution
  <2>4. scan'.processing
    BY <1>8 DEF RunOnce, ProcessCall
  <2>5. Balanced(executor', round'.dispatching)
    BY <2>2, <2>3 DEF Balanced
  <2>6. QED
    BY <2>3, <2>4, <2>5, ExecutorInvBalancedNext
<1>9. CASE TimerEmits
  <2>1. PICK i \in TimerSlots : scan' = [scan EXCEPT !.index = i]
    BY <1>9 DEF TimerEmits, Emit
  <2>2. scan'.processing = scan.processing
    BY <2>1, ScanFields
  <2>3. QED
    BY <1>9, <2>2, ExecutorRests DEF TimerEmits, dispatcherVars
<1>10. CASE TimersProcessed
  <2>1. executor' = [executor EXCEPT !.at = "queue"] /\ executor.at = "timers"
    BY <1>10 DEF TimersProcessed
  <2>2. executor' \in Execution /\ executor'.at = "queue"
        /\ executor'.budget = executor.budget /\ executor'.report = executor.report
    BY <1>a, <2>1, ExecutionMoves
  <2>3. scan'.processing = FALSE
    BY <1>10, NewScan DEF TimersProcessed, ProcessReturns
  <2>4. Balanced(executor', round'.dispatching)
    BY <1>a, <2>1, <2>2 DEF Balanced, r
  <2>5. QED
    BY <2>2, <2>3, <2>4, ExecutorInvBalancedNext
<1>11. CASE RejectEvent
  <2>1. /\ executor.at = "queue" /\ r.dequeued < executor.budget
        /\ scan' = scan /\ round' = round
    BY <1>11 DEF RejectEvent, MayPop, timerVars, dispatcherVars, r
  <2>2. PICK s : s = [r EXCEPT !.dequeued = @ + 1, !.rejected = @ + 1]
    OBVIOUS
  <2>3. executor' = [executor EXCEPT !.report = s]
    BY <1>11, <2>2 DEF RejectEvent, r
  <2>4. s = Added(r, 1, 0, 0, 1, 0)
    BY <1>a, <2>2, CountedReport
  <2>5. /\ s \in Report
        /\ s.dequeued = r.dequeued + 1
        /\ s.dispatched = r.dispatched + 0
        /\ s.unhandled = r.unhandled + 0
        /\ s.rejected = r.rejected + 1
        /\ s.dispatch_error = r.dispatch_error + 0
    BY <1>a, <2>4, AddedFields
  <2>6. /\ executor' \in Execution /\ executor'.at = "queue"
        /\ executor'.budget = executor.budget /\ executor'.report = s
    BY <1>a, <2>1, <2>3, <2>5, ExecutionReports
  <2>7. Balanced(executor', round'.dispatching)
    BY <1>a, <1>b, <2>1, <2>5, <2>6 DEF Balanced
  <2>8. QED
    BY <1>a, <2>1, <2>6, <2>7, ExecutorInvBalancedNext
<1>12. CASE DispatchEvent
  <2>1. /\ executor.at = "queue" /\ r.dequeued < executor.budget
        /\ scan' = scan /\ ~round.dispatching
    BY <1>12 DEF DispatchEvent, MayPop, BeginRound, timerVars, r
  <2>2. PICK s : s = [r EXCEPT !.dequeued = @ + 1]
    OBVIOUS
  <2>3. executor' = [executor EXCEPT !.at = "dispatch", !.report = s]
    BY <1>12, <2>2 DEF DispatchEvent, r
  <2>4. s = Added(r, 1, 0, 0, 0, 0)
    BY <1>a, <2>2, CountedReport
  <2>5. /\ s \in Report
        /\ s.dequeued = r.dequeued + 1
        /\ s.dispatched = r.dispatched + 0
        /\ s.unhandled = r.unhandled + 0
        /\ s.rejected = r.rejected + 0
        /\ s.dispatch_error = r.dispatch_error + 0
    BY <1>a, <2>4, AddedFields
  <2>6. /\ executor' \in Execution /\ executor'.at = "dispatch"
        /\ executor'.budget = executor.budget /\ executor'.report = s
    <3>1. PICK z : z = [executor EXCEPT !.at = "dispatch"]
      OBVIOUS
    <3>2. executor' = [z EXCEPT !.report = s]
      BY <2>3, <3>1
    <3>3. z \in Execution /\ z.at = "dispatch" /\ z.budget = executor.budget
      BY <1>a, <3>1, ExecutionMoves
    <3>4. QED
      BY <2>5, <3>2, <3>3, ExecutionReports
  <2>7. Balanced(executor', round'.dispatching)
    BY <1>a, <1>b, <2>1, <2>5, <2>6 DEF Balanced
  <2>8. QED
    BY <1>a, <2>1, <2>6, <2>7, ExecutorInvBalancedNext
<1>13. CASE LoseEvent
  <2>1. /\ executor.at = "queue" /\ r.dequeued < executor.budget
        /\ scan' = scan /\ round' = round /\ round.dispatching
    BY <1>13 DEF LoseEvent, MayPop, timerVars, dispatcherVars, r
  <2>2. PICK s : s = [r EXCEPT !.dequeued = @ + 1, !.dispatch_error = @ + 1]
    OBVIOUS
  <2>3. executor' = [executor EXCEPT !.report = s]
    BY <1>13, <2>2 DEF LoseEvent, r
  <2>4. s = Added(r, 1, 0, 0, 0, 1)
    BY <1>a, <2>2, CountedReport
  <2>5. /\ s \in Report
        /\ s.dequeued = r.dequeued + 1
        /\ s.dispatched = r.dispatched + 0
        /\ s.unhandled = r.unhandled + 0
        /\ s.rejected = r.rejected + 0
        /\ s.dispatch_error = r.dispatch_error + 1
    BY <1>a, <2>4, AddedFields
  <2>6. /\ executor' \in Execution /\ executor'.at = "queue"
        /\ executor'.budget = executor.budget /\ executor'.report = s
    BY <1>a, <2>1, <2>3, <2>5, ExecutionReports
  <2>7. Balanced(executor', round'.dispatching)
    BY <1>a, <1>b, <2>1, <2>5, <2>6 DEF Balanced
  <2>8. QED
    BY <1>a, <2>1, <2>6, <2>7, ExecutorInvBalancedNext
<1>14. CASE RunReturns
  <2>1. executor' = [at |-> "idle", budget |-> 0, report |-> EmptyReport]
    BY <1>14 DEF RunReturns, Idle
  <2>2. 0 \in 0 .. Budget
    BY ExecutorAssumption
  <2>3. /\ executor' \in Execution /\ executor'.at = "idle" /\ executor'.budget = 0
        /\ executor'.report.dequeued = 0 /\ executor'.report.dispatched = 0
        /\ executor'.report.unhandled = 0 /\ executor'.report.rejected = 0
        /\ executor'.report.dispatch_error = 0
    BY <2>1, <2>2, NewExecution
  <2>4. executor.at = "queue" /\ scan' = scan
    BY <1>14 DEF RunReturns, timerVars
  <2>5. Balanced(executor', round'.dispatching)
    BY <2>3 DEF Balanced
  <2>6. QED
    BY <1>a, <2>3, <2>4, <2>5, ExecutorInvBalancedNext
<1>15. CASE Deliver
  <2>1. executor.at \in {"idle", "dispatch"} /\ UNCHANGED <<executor, scan>>
    BY <1>15 DEF Deliver, timerVars
  <2>2. QED
    BY <2>1, ExecutorRests
<1>16. CASE DispatchDone
  <2>1. executor.at \in {"idle", "dispatch"} /\ scan' = scan
    BY <1>16 DEF DispatchDone, timerVars
  <2>2. CASE executor.at = "idle"
    <3>1. executor' = executor
      BY <1>16, <2>2 DEF DispatchDone
    <3>2. QED
      BY <2>1, <2>2, <3>1, ExecutorRests
  <2>3. CASE executor.at = "dispatch"
    <3>1. PICK m \in Nat : m = IF called # << >> THEN 1 ELSE 0
      OBVIOUS
    <3>2. PICK n \in Nat : n = IF called = << >> THEN 1 ELSE 0
      OBVIOUS
    <3>3. m + n = 1
      BY <3>1, <3>2
    <3>4. PICK s : s = [r EXCEPT !.dispatched = @ + m, !.unhandled = @ + n]
      OBVIOUS
    <3>5. executor' = [executor EXCEPT !.at = "queue", !.report = s]
      BY <1>16, <2>3, <3>1, <3>2, <3>4 DEF DispatchDone, r
    <3>6. s = Added(r, 0, m, n, 0, 0)
      BY <1>a, <3>4, CountedReport
    <3>7. /\ s \in Report
          /\ s.dequeued = r.dequeued + 0
          /\ s.dispatched = r.dispatched + m
          /\ s.unhandled = r.unhandled + n
          /\ s.rejected = r.rejected + 0
          /\ s.dispatch_error = r.dispatch_error + 0
      BY <1>a, <3>1, <3>2, <3>6, AddedFields
    <3>8. /\ executor' \in Execution /\ executor'.at = "queue"
          /\ executor'.budget = executor.budget /\ executor'.report = s
      <4>1. PICK z : z = [executor EXCEPT !.at = "queue"]
        OBVIOUS
      <4>2. executor' = [z EXCEPT !.report = s]
        BY <3>5, <4>1
      <4>3. z \in Execution /\ z.at = "queue" /\ z.budget = executor.budget
        BY <1>a, <4>1, ExecutionMoves
      <4>4. QED
        BY <3>7, <4>2, <4>3, ExecutionReports
    <3>9. Balanced(executor', round'.dispatching)
      BY <1>a, <1>b, <2>3, <3>3, <3>7, <3>8 DEF Balanced
    <3>10. QED
      BY <1>a, <2>1, <2>3, <3>8, <3>9, ExecutorInvBalancedNext
  <2>4. QED
    BY <2>1, <2>2, <2>3
<1>17. CASE UNCHANGED vars
  BY <1>17, ExecutorRests DEF vars, dispatcherVars, timerVars
<1>18. QED
  BY <1>1, <1>2, <1>3, <1>4, <1>5, <1>6, <1>7, <1>8, <1>9, <1>10, <1>11, <1>12,
     <1>13, <1>14, <1>15, <1>16, <1>17 DEF Next, Executing

-----------------------------------------------------------------------------
(* The timers.                                                             *)

DistinctIds ==
  \A i, j \in TimerSlots :
    Active(i) /\ Active(j) /\ slots[i].id = slots[j].id => i = j

(* The pass over the timers is one call, so the clock stands still in it,  *)
(* and what it left behind is not due any more.                            *)
Served ==
  scan.processing =>
    /\ scan.now = clock
    /\ \A i \in TimerSlots : i <= scan.index => ~Due(i)

TimerInv ==
  /\ slots \in [TimerSlots -> Timer \cup {Inactive}]
  /\ scan \in Scan
  /\ clock \in Tick
  /\ DistinctIds
  /\ Served

LEMMA TimerInitial == Init => TimerInv
<1>1. SUFFICES ASSUME Init PROVE TimerInv
  OBVIOUS
<1>2. slots = [i \in TimerSlots |-> Inactive] /\ scan = NoScan /\ clock = 0
  BY <1>1 DEF Init, TimerInit
<1>3. \A i \in TimerSlots : ~Active(i)
  BY <1>2 DEF Active
<1>4. QED
  BY <1>2, <1>3, NewScan, TimerAssumption DEF TimerInv, DistinctIds, Served, Tick

LEMMA FoundSlot ==
  ASSUME TimerInv, NEW i \in TimerSlots, Active(i)
  PROVE  slots[i] \in Timer
  BY DEF TimerInv, Active

(* find_slot() finds every active slot with the id it looks for. *)
LEMMA FindSlotFinds ==
  ASSUME TimerInv, NEW id, NEW i \in TimerSlots, Active(i), slots[i].id = id
  PROVE  find_slot(id, i)
<1>1. \A j \in TimerSlots : j < i => ~(Active(j) /\ slots[j].id = id)
  <2> TAKE j \in TimerSlots
  <2>1. j < i => j # i
    BY TimerAssumption DEF TimerSlots
  <2>2. QED
    BY <2>1 DEF TimerInv, DistinctIds
<1>2. QED
  BY <1>1 DEF find_slot

(* One slot changes, to an inactive one or to a timer whose id no other    *)
(* slot has.                                                               *)
LEMMA OneSlotChanges ==
  ASSUME TimerInv, NEW i \in TimerSlots, NEW t \in Timer \cup {Inactive},
         slots' = [slots EXCEPT ![i] = t],
         t # Inactive => \A j \in TimerSlots :
                           j # i /\ Active(j) => slots[j].id # t.id
  PROVE  /\ slots' \in [TimerSlots -> Timer \cup {Inactive}]
         /\ slots'[i] = t
         /\ \A j \in TimerSlots : j # i => slots'[j] = slots[j]
         /\ DistinctIds'
<1>1. slots' \in [TimerSlots -> Timer \cup {Inactive}]
  BY DEF TimerInv
<1>2. slots'[i] = t /\ \A j \in TimerSlots : j # i => slots'[j] = slots[j]
  BY DEF TimerInv
<1>3. DistinctIds'
  <2>1. SUFFICES ASSUME NEW j \in TimerSlots, NEW k \in TimerSlots,
                        slots'[j] # Inactive, slots'[k] # Inactive,
                        slots'[j].id = slots'[k].id
                 PROVE  j = k
    BY DEF DistinctIds, Active
  <2>2. CASE j = i \/ k = i
    BY <1>2, <2>1, <2>2 DEF Active
  <2>3. CASE j # i /\ k # i
    BY <1>2, <2>1, <2>3 DEF TimerInv, DistinctIds, Active
  <2>4. QED
    BY <2>2, <2>3
<1>4. QED
  BY <1>1, <1>2, <1>3

(* What ut_event_timer_start() and _restart() store. *)
LEMMA ConfiguredTimer ==
  ASSUME NEW r \in TimerRequests, NEW now \in Tick, now + r.delay <= MaxTick,
         NEW t, t = Configured(r.id, r.event, now + r.delay, r.period)
  PROVE  /\ t \in Timer /\ t.id = r.id /\ t.event = r.event
         /\ t.deadline = now + r.delay /\ t.deadline >= now /\ t.period = r.period
<1>1. /\ r.id \in TimerId /\ r.event \in Item /\ r.delay \in Tick /\ r.period \in Tick
  BY ExecutorAssumption
<1>2. now + r.delay \in Tick /\ now + r.delay >= now
  BY <1>1, TimerAssumption DEF Tick
<1>3. QED
  BY <1>1, <1>2 DEF Timer, Configured

(* A timer that is set goes to the slot that has its id, or to a free one  *)
(* when no slot has it.                                                    *)
LEMMA SetTimerStep ==
  ASSUME TimerInv, SetTimer
  PROVE  /\ ~scan.processing /\ scan' = scan /\ clock' = clock /\ queue' = queue
         /\ \E i \in TimerSlots, t \in Timer :
              /\ slots' = [slots EXCEPT ![i] = t]
              /\ t.deadline >= clock
              /\ \A j \in TimerSlots : j # i /\ Active(j) => slots[j].id # t.id
              /\ Active(i) => slots[i].id = t.id
<1>1. PICK r \in TimerRequests :
        \/ TimerStart(r.id, r.event, clock, r.delay, r.period)
        \/ TimerRestart(r.id, r.event, clock, r.delay, r.period)
  BY DEF SetTimer
<1>2. /\ ~scan.processing /\ scan' = scan /\ clock' = clock /\ queue' = queue
      /\ clock + r.delay <= MaxTick
  BY <1>1 DEF SetTimer, TimerStart, TimerRestart
<1>3. PICK t : t = Configured(r.id, r.event, clock + r.delay, r.period)
  OBVIOUS
<1>4. t \in Timer /\ t.id = r.id /\ t.deadline >= clock
  BY <1>2, <1>3, ConfiguredTimer DEF TimerInv
<1>5. CASE TimerStart(r.id, r.event, clock, r.delay, r.period)
  <2>1. PICK i \in TimerSlots : ~Active(i) /\ slots' = [slots EXCEPT ![i] = t]
    BY <1>3, <1>5 DEF TimerStart, FreeTimerSlot
  <2>2. \A j \in TimerSlots : Active(j) => slots[j].id # r.id
    BY <1>5, FindSlotFinds DEF TimerStart
  <2>3. QED
    BY <1>2, <1>4, <2>1, <2>2
<1>6. CASE TimerRestart(r.id, r.event, clock, r.delay, r.period)
  <2>1. PICK i \in TimerSlots : find_slot(r.id, i) /\ slots' = [slots EXCEPT ![i] = t]
    BY <1>3, <1>6 DEF TimerRestart
  <2>2. Active(i) /\ slots[i].id = r.id
    BY <2>1 DEF find_slot
  <2>3. \A j \in TimerSlots : j # i /\ Active(j) => slots[j].id # r.id
    BY <2>2 DEF TimerInv, DistinctIds
  <2>4. /\ i \in TimerSlots /\ t \in Timer
        /\ slots' = [slots EXCEPT ![i] = t] /\ t.deadline >= clock
        /\ \A j \in TimerSlots : j # i /\ Active(j) => slots[j].id # t.id
        /\ Active(i) => slots[i].id = t.id
    BY <1>4, <2>1, <2>2, <2>3
  <2>5. QED
    BY <1>2, <2>4
<1>7. QED
  BY <1>1, <1>5, <1>6

(* A timer that fires is gone or due in the future. *)
Fired(t, now) == IF t.period = 0 THEN Inactive ELSE Advanced(t, now)

LEMMA FiredTimer ==
  ASSUME NEW t \in Timer, NEW now \in Tick, t.deadline <= now,
         NEW u, u = Fired(t, now)
  PROVE  \/ u = Inactive
         \/ /\ u \in Timer /\ u.id = t.id /\ u.event = t.event /\ u.period = t.period
            /\ u.deadline > now
<1>1. CASE t.period = 0
  BY <1>1 DEF Fired
<1>2. CASE t.period # 0
  <2>1. PICK d : d = FirstAfter(now, t.deadline, t.period)
    OBVIOUS
  <2>3. /\ t.period \in Nat \ {0} /\ t.deadline \in Nat /\ now \in Nat
        /\ now - t.deadline \in Nat
    BY <1>2, TimerFields, TimerAssumption DEF Tick
  <2>5. d \in Nat /\ d > now
    <3>1. PICK p \in Nat \ {0}, q \in Nat, n \in Nat :
            p = t.period /\ q = t.deadline /\ n = now
      BY <2>3
    <3>2. q <= n /\ d = FirstAfter(n, q, p)
      BY <2>1, <3>1
    <3>3. QED
      BY <3>1, <3>2, FirstMultiple
  <2>6. /\ d > MaxTick => u = Inactive
        /\ d <= MaxTick => u = [t EXCEPT !.deadline = d]
    BY <1>2, <2>1, AdvancedSetsFirstMultiple DEF Fired
  <2>7. CASE d > MaxTick
    BY <2>6, <2>7
  <2>8. CASE d <= MaxTick
    <3>1. d \in Tick
      BY <2>5, <2>8, TimerAssumption DEF Tick
    <3>2. u = [t EXCEPT !.deadline = d]
      BY <2>6, <2>8
    <3>3. /\ u \in Timer /\ u.id = t.id /\ u.event = t.event /\ u.period = t.period
          /\ u.deadline = d
      BY <3>1, <3>2, TimerPostponed
    <3>4. QED
      BY <2>5, <3>3
  <2>9. QED
    BY <2>5, <2>7, <2>8, TimerAssumption
<1>3. QED
  BY <1>1, <1>2

(* What one slot of the pass does to the slots and the scan. *)
LEMMA EmitStep ==
  ASSUME TimerInv, TimerEmits
  PROVE  /\ ~IsFull(queue) /\ clock' = clock /\ scan.processing
         /\ \E i \in TimerSlots :
              /\ Active(i) /\ slots[i] \in Timer /\ slots[i].deadline <= clock
              /\ \A j \in TimerSlots : j < i => ~Due(j)
              /\ queue' = Push(queue, slots[i].event)
              /\ slots' = [slots EXCEPT ![i] = Fired(slots[i], clock)]
              /\ scan' = [scan EXCEPT !.index = i]
<1>1. /\ ~IsFull(queue) /\ clock' = clock /\ scan.processing
  BY DEF TimerEmits, Emit
<1>2. PICK i \in TimerSlots :
        /\ Reached(i)
        /\ queue' = Push(queue, slots[i].event)
        /\ slots' = [slots EXCEPT ![i] =
             IF @.period = 0 THEN Inactive ELSE Advanced(@, scan.now)]
        /\ scan' = [scan EXCEPT !.index = i]
  BY DEF TimerEmits, Emit
<1>3. scan.now = clock
  BY <1>1 DEF TimerInv, Served
<1>4. Active(i) /\ slots[i].deadline <= clock
  <2>1. Active(i) /\ scan.now >= slots[i].deadline
    BY <1>2 DEF Reached, Due
  <2>2. slots[i].deadline \in Nat /\ clock \in Nat
    BY <2>1, FoundSlot, TimerFields, TimerAssumption DEF TimerInv, Tick
  <2>3. QED
    BY <1>3, <2>1, <2>2
<1>5. \A j \in TimerSlots : j < i => ~Due(j)
  <2> TAKE j \in TimerSlots
  <2>1. scan.index \in Nat /\ j \in Nat
    BY ScanFields, TimerAssumption DEF TimerInv, TimerSlots
  <2>2. j <= scan.index => ~Due(j)
    BY <1>1 DEF TimerInv, Served
  <2>3. j < i /\ j > scan.index => ~Due(j)
    BY <1>2 DEF Reached
  <2>4. QED
    BY <2>1, <2>2, <2>3
<1>6. slots' = [slots EXCEPT ![i] = Fired(slots[i], clock)]
  BY <1>2, <1>3 DEF Fired
<1>7. QED
  BY <1>1, <1>2, <1>4, <1>5, <1>6, FoundSlot

(* Steps outside the pass that leave slots, scan and clock alone. *)
LEMMA TimersRest ==
  ASSUME TimerInv, UNCHANGED <<slots, scan, clock>>
  PROVE  TimerInv'
  BY DEF TimerInv, DistinctIds, Served, Due, Active

LEMMA TimerStep ==
  ASSUME ExecutorInv, TimerInv, [Next]_vars
  PROVE  TimerInv'
<1>1. CASE SetTimer
  <2>1. /\ ~scan.processing /\ scan' = scan /\ clock' = clock
    BY <1>1, SetTimerStep
  <2>2. PICK i \in TimerSlots, t \in Timer :
          /\ slots' = [slots EXCEPT ![i] = t]
          /\ \A j \in TimerSlots : j # i /\ Active(j) => slots[j].id # t.id
    BY <1>1, SetTimerStep
  <2>3. slots' \in [TimerSlots -> Timer \cup {Inactive}] /\ DistinctIds'
    BY <2>2, OneSlotChanges
  <2>4. QED
    BY <2>1, <2>3 DEF TimerInv, Served
<1>2. CASE CancelTimer
  <2>1. /\ ~scan.processing /\ scan' = scan /\ clock' = clock
        /\ \E i \in TimerSlots : slots' = [slots EXCEPT ![i] = Inactive]
    BY <1>2 DEF CancelTimer, TimerCancel
  <2>2. slots' \in [TimerSlots -> Timer \cup {Inactive}] /\ DistinctIds'
    BY <2>1, OneSlotChanges
  <2>3. QED
    BY <2>1, <2>2 DEF TimerInv, Served
<1>3. CASE ClockAdvances
  <2>1. executor.at \in {"idle", "dispatch"} /\ slots' = slots /\ scan' = scan
    BY <1>3 DEF ClockAdvances, MayCall, InHandler, timerVars
  <2>2. ~scan.processing
    BY <2>1 DEF ExecutorInv
  <2>3. clock' \in Tick
    BY <1>3, TimerAssumption DEF ClockAdvances, TimerInv, Tick
  <2>4. QED
    BY <2>1, <2>2, <2>3 DEF TimerInv, DistinctIds, Served, Active
<1>4. CASE RunOnce
  <2>1. /\ slots' = slots /\ clock' = clock
        /\ scan' = [processing |-> TRUE, now |-> clock, index |-> 0]
    BY <1>4 DEF RunOnce, ProcessCall
  <2>2. scan' \in Scan /\ scan'.now = clock /\ scan'.index = 0
    BY <2>1, NewScan DEF TimerInv
  <2>3. \A i \in TimerSlots : ~(i <= scan'.index)
    BY <2>2, TimerAssumption DEF TimerSlots
  <2>4. QED
    BY <2>1, <2>2, <2>3 DEF TimerInv, DistinctIds, Served, Active
<1>5. CASE TimerEmits
  <2>1. clock' = clock /\ scan.processing
    BY <1>5, EmitStep
  <2>2. PICK i \in TimerSlots :
          /\ Active(i) /\ slots[i] \in Timer /\ slots[i].deadline <= clock
          /\ \A j \in TimerSlots : j < i => ~Due(j)
          /\ slots' = [slots EXCEPT ![i] = Fired(slots[i], clock)]
          /\ scan' = [scan EXCEPT !.index = i]
    BY <1>5, EmitStep
  <2>3. PICK u : u = Fired(slots[i], clock) /\ slots' = [slots EXCEPT ![i] = u]
    BY <2>2
  <2>4. clock \in Tick /\ scan \in Scan /\ scan.now = clock
    BY <2>1 DEF TimerInv, Served
  <2>5. \/ u = Inactive
        \/ u \in Timer /\ u.id = slots[i].id /\ u.deadline > clock
    BY <2>2, <2>3, <2>4, FiredTimer
  <2>6. \A j \in TimerSlots : j # i /\ Active(j) => slots[j].id # slots[i].id
    BY <2>2, <2>3 DEF TimerInv, DistinctIds
  <2>7. /\ slots' \in [TimerSlots -> Timer \cup {Inactive}]
        /\ slots'[i] = u
        /\ \A j \in TimerSlots : j # i => slots'[j] = slots[j]
        /\ DistinctIds'
    <3>1. /\ u \in Timer \cup {Inactive}
          /\ u # Inactive => \A j \in TimerSlots :
                               j # i /\ Active(j) => slots[j].id # u.id
      BY <2>5, <2>6
    <3>2. slots' = [slots EXCEPT ![i] = u]
      BY <2>3
    <3>3. QED
      BY <3>1, <3>2, OneSlotChanges
  <2>8. /\ scan' \in Scan /\ scan'.processing = scan.processing
        /\ scan'.now = clock /\ scan'.index = i
    BY <2>2, <2>3, <2>4, ScanFields
  <2>9. ASSUME NEW j \in TimerSlots, j <= i
        PROVE  ~(slots'[j] # Inactive /\ clock >= slots'[j].deadline)
    <3>1. CASE j = i
      <4>1. u # Inactive => u.deadline \in Nat /\ clock \in Nat /\ u.deadline > clock
        BY <2>4, <2>5, TimerFields, TimerAssumption DEF Tick
      <4>2. QED
        BY <2>7, <3>1, <4>1
    <3>2. CASE j # i
      <4>1. j < i
        BY <2>9, <3>2, TimerAssumption DEF TimerSlots
      <4>2. ~Due(j) /\ slots'[j] = slots[j]
        BY <2>2, <2>3, <2>7, <3>2, <4>1
      <4>3. QED
        BY <2>4, <4>2 DEF Due, Active
    <3>3. QED
      BY <3>1, <3>2
  <2>10. Served'
    BY <2>1, <2>8, <2>9 DEF Served, Due, Active
  <2>11. QED
    BY <2>1, <2>4, <2>7, <2>8, <2>10 DEF TimerInv
<1>6. CASE TimersProcessed
  <2>1. slots' = slots /\ clock' = clock /\ scan' = NoScan
    BY <1>6 DEF TimersProcessed, ProcessReturns
  <2>2. scan' \in Scan /\ ~scan'.processing
    BY <2>1, NewScan
  <2>3. QED
    BY <2>1, <2>2 DEF TimerInv, DistinctIds, Served, Active
<1>7. CASE Publish \/ ClearQueue \/ ChangeSubscription \/ DispatchDirectly
  BY <1>7, TimersRest DEF Publish, ClearQueue, ChangeSubscription, DispatchDirectly, timerVars
<1>8. CASE RejectEvent \/ DispatchEvent \/ LoseEvent \/ RunReturns
  BY <1>8, TimersRest DEF RejectEvent, DispatchEvent, LoseEvent, RunReturns, timerVars
<1>9. CASE Deliver \/ DispatchDone \/ UNCHANGED vars
  BY <1>9, TimersRest DEF Deliver, DispatchDone, vars, timerVars
<1>10. QED
  BY <1>1, <1>2, <1>3, <1>4, <1>5, <1>6, <1>7, <1>8, <1>9 DEF Next, Executing

-----------------------------------------------------------------------------
(* Queue and dispatcher.                                                   *)

RingInv == queue \in Ring /\ Coherent(queue)

LEMMA RingStep ==
  ASSUME RingInv, TimerInv, [Next]_vars
  PROVE  RingInv'
<1>1. CASE Publish
  <2>1. PICK e \in Published : ~IsFull(queue) /\ queue' = Push(queue, e)
    BY <1>1 DEF Publish
  <2>2. e \in Item
    BY ExecutorAssumption
  <2>3. QED
    BY <2>1, <2>2, PushAppends DEF RingInv
<1>2. CASE TimerEmits
  <2>1. PICK i \in TimerSlots : slots[i] \in Timer /\ queue' = Push(queue, slots[i].event)
    BY <1>2, EmitStep
  <2>2. ~IsFull(queue) /\ slots[i].event \in Item
    BY <1>2, <2>1, EmitStep, TimerFields
  <2>3. QED
    BY <2>1, <2>2, PushAppends DEF RingInv
<1>3. CASE ClearQueue
  <2>1. queue' = Clear(queue)
    BY <1>3 DEF ClearQueue
  <2>2. QED
    BY <2>1, ClearEmpties DEF RingInv
<1>4. CASE RejectEvent \/ DispatchEvent \/ LoseEvent
  <2>1. ~IsEmpty(queue) /\ queue' = Pop(queue)
    BY <1>4 DEF RejectEvent, DispatchEvent, LoseEvent, MayPop
  <2>2. QED
    BY <2>1, PopTakesFirst DEF RingInv
<1>5. CASE SetTimer \/ CancelTimer \/ RunOnce \/ TimersProcessed
  BY <1>5 DEF RingInv, SetTimer, TimerStart, TimerRestart, CancelTimer, TimerCancel,
       RunOnce, ProcessCall, TimersProcessed, ProcessReturns
<1>6. CASE ChangeSubscription \/ DispatchDirectly \/ ClockAdvances \/ RunReturns
  BY <1>6 DEF RingInv, ChangeSubscription, DispatchDirectly, ClockAdvances, RunReturns
<1>7. CASE Deliver \/ DispatchDone \/ UNCHANGED vars
  BY <1>7 DEF RingInv, Deliver, DispatchDone, vars
<1>8. QED
  BY <1>1, <1>2, <1>3, <1>4, <1>5, <1>6, <1>7 DEF Next, Executing

Round ==
  [dispatching : BOOLEAN, id : EventId \cup {AnyId}, index : 0 .. SubscriptionCapacity]

LEMMA RoundMoves ==
  ASSUME NEW r \in Round, NEW i \in SubscriptionSlots
  PROVE  [r EXCEPT !.index = i] \in Round
  BY DispatcherAssumption DEF Round, SubscriptionSlots

LEMMA NewRound ==
  ASSUME NEW b \in BOOLEAN, NEW id \in EventId \cup {AnyId}
  PROVE  [dispatching |-> b, id |-> id, index |-> 0] \in Round
  BY DispatcherAssumption DEF Round

LEMMA DispatcherStep ==
  ASSUME DispatcherType, RingInv, [Next]_vars
  PROVE  DispatcherType'
<1>1. subscriptions \in [SubscriptionSlots -> Subscription \cup {Free}] /\ round \in Round
  BY DEF DispatcherType, Round
<1>2. SUFFICES /\ subscriptions' \in [SubscriptionSlots -> Subscription \cup {Free}]
               /\ round' \in Round
  BY DEF DispatcherType, Round
<1>3. CASE ChangeSubscription
  <2>1. PICK s \in Subscription : Subscribe(s) \/ Unsubscribe(s)
    BY <1>3 DEF ChangeSubscription
  <2>2. round' = round
    BY <2>1 DEF Subscribe, Unsubscribe
  <2>3. \E i \in SubscriptionSlots, t \in Subscription \cup {Free} :
          subscriptions' = [subscriptions EXCEPT ![i] = t]
    BY <2>1 DEF Subscribe, Unsubscribe
  <2>4. QED
    BY <1>1, <2>2, <2>3
<1>4. ASSUME NEW id \in EventId, BeginRound(id)
      PROVE  subscriptions' = subscriptions /\ round' \in Round
  BY <1>4, NewRound DEF BeginRound
<1>5. CASE DispatchDirectly
  BY <1>1, <1>4, <1>5 DEF DispatchDirectly
<1>6. CASE DispatchEvent
  <2>1. Oldest(queue) \in Item
    BY <1>6, PopTakesFirst DEF DispatchEvent, MayPop, RingInv
  <2>2. Oldest(queue).id \in EventId
    BY <2>1, ExecutorAssumption
  <2>3. QED
    BY <1>1, <1>4, <1>6, <2>2 DEF DispatchEvent
<1>7. CASE Deliver
  <2>1. \E i \in SubscriptionSlots : round' = [round EXCEPT !.index = i]
    BY <1>7 DEF Deliver, CallHandler
  <2>2. subscriptions' = subscriptions
    BY <1>7 DEF Deliver, CallHandler
  <2>3. QED
    BY <1>1, <2>1, <2>2, RoundMoves
<1>8. CASE DispatchDone
  <2>1. subscriptions' = subscriptions /\ round' = [dispatching |-> FALSE, id |-> AnyId, index |-> 0]
    BY <1>8 DEF DispatchDone, EndRound
  <2>2. QED
    BY <1>1, <2>1, NewRound
<1>9. CASE SetTimer \/ CancelTimer \/ Publish \/ ClearQueue \/ ClockAdvances \/ RunOnce
  BY <1>1, <1>9 DEF SetTimer, CancelTimer, Publish, ClearQueue, ClockAdvances, RunOnce,
       dispatcherVars
<1>10. CASE TimerEmits \/ TimersProcessed \/ RejectEvent \/ LoseEvent \/ RunReturns
  BY <1>1, <1>10 DEF TimerEmits, TimersProcessed, RejectEvent, LoseEvent, RunReturns,
       dispatcherVars
<1>11. CASE UNCHANGED vars
  BY <1>1, <1>11 DEF vars, dispatcherVars
<1>12. QED
  BY <1>3, <1>5, <1>6, <1>7, <1>8, <1>9, <1>10, <1>11 DEF Next, Executing

-----------------------------------------------------------------------------

ExecInv == ExecutorInv /\ TimerInv /\ RingInv /\ DispatcherType

LEMMA ExecInitial == Init => ExecInv
<1>1. SUFFICES ASSUME Init PROVE ExecInv
  OBVIOUS
<1>2. RingInv
  BY <1>1, EmptyRingIsEmpty DEF Init, RingInv
<1>3. DispatcherType
  <2>1. /\ subscriptions = [i \in SubscriptionSlots |-> Free]
        /\ round = [dispatching |-> FALSE, id |-> AnyId, index |-> 0]
    BY <1>1 DEF Init, DispatcherInit
  <2>2. round \in Round
    BY <2>1, NewRound
  <2>3. QED
    BY <2>1, <2>2 DEF DispatcherType, Round
<1>4. QED
  BY <1>1, <1>2, <1>3, ExecutorInit, TimerInitial DEF ExecInv

LEMMA ExecStep == ExecInv /\ [Next]_vars => ExecInv'
<1>1. SUFFICES ASSUME ExecInv, [Next]_vars PROVE ExecInv'
  OBVIOUS
<1>2. ExecutorInv /\ TimerInv /\ RingInv /\ DispatcherType /\ scan \in Scan
  BY <1>1 DEF ExecInv, TimerInv
<1>3. ExecutorInv' /\ TimerInv' /\ RingInv' /\ DispatcherType'
  BY <1>1, <1>2, ExecutorStep, TimerStep, RingStep, DispatcherStep
<1>4. QED
  BY <1>3 DEF ExecInv

LEMMA ExecAlways == Spec => []ExecInv
  BY ExecInitial, ExecStep, PTL DEF Spec

(* No field of the report exceeds the budget, for each counts some of the  *)
(* events that were taken.                                                 *)
LEMMA ReportBounded ==
  ASSUME ExecutorInv
  PROVE  executor.report \in [DOMAIN EmptyReport -> 0 .. executor.budget]
<1>1. PICK a \in Nat, b \in Nat, c \in Nat, d \in Nat, e \in Nat :
        executor.report = [dequeued |-> a, dispatched |-> b, unhandled |-> c,
                           rejected |-> d, dispatch_error |-> e]
  BY ExecutionFields DEF ExecutorInv, Report
<1>2. PICK n \in {0, 1} : n = IF executor.at = "dispatch" THEN 1 ELSE 0
  OBVIOUS
<1>3. /\ executor.budget \in Nat /\ a <= executor.budget /\ a = b + c + d + e + n
  <2>1. executor.budget \in Nat
    BY ExecutionFields DEF ExecutorInv
  <2>2. a <= executor.budget
    BY <1>1 DEF ExecutorInv
  <2>3. a = b + c + d + e + n
    BY <1>1, <1>2 DEF ExecutorInv, EventsAccounted
  <2>4. QED
    BY <2>1, <2>2, <2>3
<1>4. {a, b, c, d, e} \subseteq 0 .. executor.budget
  BY <1>3
<1>5. DOMAIN EmptyReport =
        {"dequeued", "dispatched", "unhandled", "rejected", "dispatch_error"}
  BY DEF EmptyReport
<1>6. /\ executor.report = [f \in DOMAIN EmptyReport |-> executor.report[f]]
      /\ \A f \in DOMAIN EmptyReport : executor.report[f] \in {a, b, c, d, e}
  BY <1>1, <1>5
<1>7. QED
  BY <1>4, <1>6

(* UniqueIds: in every state two active timer slots have different ids,    *)
(* and the state of timers, queue, dispatcher and executor has its type.   *)
THEOREM TimersHaveUniqueIds == Spec => []UniqueIds
<1>1. ExecInv => UniqueIds
  BY ReportBounded, ExecutionFields, ExecutorAssumption
     DEF ExecInv, UniqueIds, TypeOK, TimerType, DistinctIds, TimerInv, RingInv, Scan,
         ExecutorInv, Execution
<1>2. QED
  BY <1>1, ExecAlways, PTL

(* EventsAccounted: what run_once() took from the queue is the sum of what *)
(* it reports, and an event is lost to a busy dispatcher only when         *)
(* run_once() was called from a handler.                                   *)
THEOREM ReportAddsUp == Spec => []EventsAccounted
<1>1. ExecInv => EventsAccounted
  BY DEF ExecInv, ExecutorInv
<1>2. QED
  BY <1>1, ExecAlways, PTL

(* NothingOverdue: when the pass over the timers ends and the queue is not *)
(* full, no timer is due.                                                  *)
THEOREM PassServesAll == Spec => NothingOverdue
<1>1. ASSUME ExecInv, TimersProcessed, ~IsFull(queue), NEW i \in TimerSlots
      PROVE  ~Due(i)
  <2>1. scan.processing /\ \A j \in TimerSlots : ~Reached(j)
    BY <1>1 DEF TimersProcessed, ProcessReturns, Blocked
  <2>2. \A j \in TimerSlots : j <= scan.index => ~Due(j)
    BY <1>1, <2>1 DEF ExecInv, TimerInv, Served
  <2>3. scan.index \in Nat /\ TimerSlots \subseteq Nat
    BY <1>1, ScanFields, TimerAssumption DEF ExecInv, TimerInv, TimerSlots
  <2>4. PICK T \in SUBSET Nat : T = {j \in TimerSlots : j > scan.index /\ Due(j)}
    BY <2>3
  <2>5. T = {}
    <3>1. SUFFICES ASSUME T # {} PROVE FALSE
      OBVIOUS
    <3>2. PICK k \in T : \A j \in T : k <= j
      BY <3>1, LeastElement
    <3>3. k \in TimerSlots /\ k > scan.index /\ Due(k)
      BY <2>4
    <3>4. \A j \in TimerSlots : j < k /\ j > scan.index => ~Due(j)
      BY <2>3, <2>4, <3>2, <3>3
    <3>5. Reached(k)
      BY <3>3, <3>4 DEF Reached
    <3>6. QED
      BY <2>1, <3>3, <3>5
  <2>6. i <= scan.index \/ i > scan.index
    BY <2>3
  <2>7. QED
    BY <2>2, <2>4, <2>5, <2>6
<1>2. ExecInv => (TimersProcessed => IsFull(queue) \/ \A i \in TimerSlots : ~Due(i))
  BY <1>1
<1>3. QED
  BY <1>2, ExecAlways, PTL DEF NothingOverdue

-----------------------------------------------------------------------------
(* The slots implement one alarm per timer id. The mapping, with the slots *)
(* as a parameter, so that it can be applied to the next state too.        *)

Mine(s, id) == {i \in TimerSlots : s[i] # Inactive /\ s[i].id = id}

SetTo(t) == [event |-> t.event, deadline |-> t.deadline, period |-> t.period]

Some(S) == CHOOSE x \in S : TRUE

AlarmIn(s, id) ==
  IF Mine(s, id) = {} THEN Inactive ELSE SetTo(s[Some(Mine(s, id))])

Armed(s) == [id \in TimerId |-> AlarmIn(s, id)]

LEMMA ArmedIsTheMapping ==
  /\ [id \in TimerId |-> AlarmOf(id)] = Armed(slots)
  /\ [id \in TimerId |-> AlarmOf(id)]' = Armed(slots')
<1>1. \A id : AlarmOf(id) = AlarmIn(slots, id)
  BY DEF AlarmOf, AlarmIn, Some, Mine, SetTo, Active
<1>2. \A id : AlarmOf(id)' = AlarmIn(slots', id)
  BY DEF AlarmOf, AlarmIn, Some, Mine, SetTo, Active
<1>3. QED
  BY <1>1, <1>2 DEF Armed

LEMMA AlarmType ==
  ASSUME NEW t \in Timer
  PROVE  SetTo(t) \in Alarm!Alarm /\ SetTo(t) # Inactive
  BY ExecutorAssumption DEF Timer, Tick, SetTo, Alarm!Alarm

LEMMA SameCardinality ==
  ASSUME NEW S
  PROVE  Alarm!Cardinality(S) = Cardinality(S)
  BY DEF Alarm!Cardinality, Cardinality, Alarm!IsFiniteSet, IsFiniteSet

(* At most as many alarms are set as there are slots. *)
LEMMA AlarmsBounded ==
  ASSUME NEW s \in [TimerSlots -> Timer \cup {Inactive}]
  PROVE  Cardinality({id \in TimerId : Armed(s)[id] # Inactive}) <= TimerCapacity
<1> DEFINE used == {i \in TimerSlots : s[i] # Inactive}
           ids == {id \in TimerId : Mine(s, id) # {}}
           f == [i \in used |-> s[i].id]
<1>1. /\ IsFiniteSet(TimerSlots) /\ Cardinality(TimerSlots) = TimerCapacity
      /\ TimerCapacity \in Nat
  BY FS_Interval, TimerAssumption DEF TimerSlots
<1>2. /\ IsFiniteSet(used) /\ Cardinality(used) <= TimerCapacity
      /\ Cardinality(used) \in Nat
  BY <1>1, FS_Subset, FS_CardinalityType
<1>3. \A i \in used : s[i] \in Timer /\ s[i].id \in TimerId /\ i \in Mine(s, s[i].id)
  BY TimerFields DEF Mine
<1>4. f \in Surjection(used, ids)
  <2>1. f \in [used -> ids]
    BY <1>3
  <2>2. \A id \in ids : \E i \in used : f[i] = id
    BY DEF Mine
  <2>3. QED
    BY <2>1, <2>2 DEF Surjection
<1>5. IsFiniteSet(ids) /\ Cardinality(ids) <= Cardinality(used) /\ Cardinality(ids) \in Nat
  BY <1>2, <1>4, FS_Surjection, FS_CardinalityType
<1>6. {id \in TimerId : Armed(s)[id] # Inactive} \in SUBSET ids
  BY DEF Armed, AlarmIn
<1>7. /\ Cardinality({id \in TimerId : Armed(s)[id] # Inactive}) <= Cardinality(ids)
      /\ Cardinality({id \in TimerId : Armed(s)[id] # Inactive}) \in Nat
  BY <1>5, <1>6, FS_Subset, FS_CardinalityType
<1>8. QED
  BY <1>1, <1>2, <1>5, <1>7

(* A change of one slot is a change of one alarm. *)
SlotSet(s, r, i, t, id) ==
  /\ s \in [TimerSlots -> Timer \cup {Inactive}] /\ i \in TimerSlots
  /\ t \in Timer \cup {Inactive}
  /\ r = [s EXCEPT ![i] = t]
  /\ s[i] # Inactive => s[i].id = id
  /\ t # Inactive => t.id = id
  /\ \A j \in TimerSlots : j # i /\ s[j] # Inactive => s[j].id # id

LEMMA OneAlarmChanges ==
  ASSUME NEW s, NEW r, NEW i, NEW t, NEW id \in TimerId, SlotSet(s, r, i, t, id)
  PROVE  Armed(r) = [Armed(s) EXCEPT ![id] = IF t = Inactive THEN Inactive ELSE SetTo(t)]
<1>1. /\ s \in [TimerSlots -> Timer \cup {Inactive}] /\ i \in TimerSlots
      /\ t \in Timer \cup {Inactive}
      /\ r = [s EXCEPT ![i] = t]
      /\ s[i] # Inactive => s[i].id = id
      /\ t # Inactive => t.id = id
      /\ \A j \in TimerSlots : j # i /\ s[j] # Inactive => s[j].id # id
  BY DEF SlotSet
<1>2. r[i] = t /\ \A j \in TimerSlots : j # i => r[j] = s[j]
  BY <1>1
<1>3. ASSUME NEW k \in TimerId, k # id
      PROVE  AlarmIn(r, k) = AlarmIn(s, k)
  <2>1. i \notin Mine(s, k) /\ i \notin Mine(r, k)
    BY <1>1, <1>2, <1>3 DEF Mine
  <2>2. Mine(r, k) = Mine(s, k)
    BY <1>1, <1>2, <2>1 DEF Mine
  <2>3. CASE Mine(s, k) = {}
    BY <2>2, <2>3 DEF AlarmIn
  <2>4. CASE Mine(s, k) # {}
    <3>1. PICK j : j = Some(Mine(s, k))
      OBVIOUS
    <3>2. j \in Mine(s, k)
      BY <2>4, <3>1 DEF Some
    <3>3. j \in TimerSlots /\ j # i
      BY <2>1, <3>2 DEF Mine
    <3>4. r[j] = s[j]
      BY <1>2, <3>3
    <3>5. AlarmIn(s, k) = SetTo(s[j])
      BY <2>4, <3>1 DEF AlarmIn
    <3>6. AlarmIn(r, k) = SetTo(r[j])
      BY <2>2, <2>4, <3>1 DEF AlarmIn
    <3>7. QED
      BY <3>4, <3>5, <3>6
  <2>5. QED
    BY <2>3, <2>4
<1>4. AlarmIn(r, id) = IF t = Inactive THEN Inactive ELSE SetTo(t)
  <2>1. CASE t = Inactive
    <3>1. Mine(r, id) = {}
      BY <1>1, <1>2, <2>1 DEF Mine
    <3>2. QED
      BY <2>1, <3>1 DEF AlarmIn
  <2>2. CASE t # Inactive
    <3>1. Mine(r, id) = {i}
      BY <1>1, <1>2, <2>2 DEF Mine
    <3>2. Some({i}) = i
      BY DEF Some
    <3>3. AlarmIn(r, id) = SetTo(r[i])
      BY <3>1, <3>2 DEF AlarmIn
    <3>4. QED
      BY <1>2, <2>2, <3>3
  <2>3. QED
    BY <2>1, <2>2
<1>5. QED
  BY <1>3, <1>4 DEF Armed

(* advance_periodic_deadline() computes the first multiple in the future.  *)
LEMMA NextAlarm ==
  ASSUME NEW t \in Timer, clock \in Tick, t.deadline <= clock,
         NEW u, u = Fired(t, clock)
  PROVE  Alarm!Next(SetTo(t)) = IF u = Inactive THEN Inactive ELSE SetTo(u)
<1> DEFINE a == SetTo(t)
           future == {d \in clock + 1 .. MaxTick : a.period # 0 /\ Alarm!Multiple(d, a)}
<1>1. a.event = t.event /\ a.deadline = t.deadline /\ a.period = t.period
  BY DEF SetTo
<1>2. Alarm!Next(a) = IF future = {} THEN Inactive
                      ELSE [a EXCEPT !.deadline =
                              CHOOSE d \in future : \A e \in future : d <= e]
  BY DEF Alarm!Next
<1>3. CASE t.period = 0
  <2>1. future = {}
    BY <1>1, <1>3
  <2>2. QED
    BY <1>2, <1>3, <2>1 DEF Fired
<1>4. CASE t.period # 0
  <2>1. PICK d : d = FirstAfter(clock, t.deadline, t.period)
    OBVIOUS
  <2>3. /\ t.period \in Nat \ {0} /\ t.deadline \in Nat /\ clock \in Nat
        /\ clock - t.deadline \in Nat /\ MaxTick \in Nat
    BY <1>4, TimerFields, TimerAssumption DEF Tick
  <2>5. /\ d \in Nat /\ d > clock /\ (d - t.deadline) % t.period = 0
        /\ \A x \in Nat : x > clock /\ (x - t.deadline) % t.period = 0 => x >= d
    <3>1. PICK p \in Nat \ {0}, q \in Nat, n \in Nat :
            p = t.period /\ q = t.deadline /\ n = clock
      BY <2>3
    <3>2. q <= n /\ d = FirstAfter(n, q, p)
      BY <2>1, <3>1
    <3>3. /\ d \in Nat /\ d > n /\ (d - q) % p = 0
          /\ \A x \in Nat : x > n /\ (x - q) % p = 0 => x >= d
      BY <3>2, FirstMultiple
    <3>4. QED
      BY <3>1, <3>3
  <2>6. /\ d > MaxTick => u = Inactive
        /\ d <= MaxTick => u = [t EXCEPT !.deadline = d]
    BY <1>4, <2>1, AdvancedSetsFirstMultiple DEF Fired
  <2>7. \A x : x \in future <=>
               x \in clock + 1 .. MaxTick /\ (x - t.deadline) % t.period = 0
    BY <1>1, <2>3 DEF Alarm!Multiple
  <2>8. \A x \in future : x \in Nat /\ x >= d /\ x <= MaxTick
    BY <2>3, <2>5, <2>7
  <2>9. CASE d > MaxTick
    <3>1. future = {}
      BY <2>3, <2>5, <2>8, <2>9
    <3>2. QED
      BY <1>2, <2>6, <2>9, <3>1
  <2>10. CASE d <= MaxTick
    <3>1. d \in clock + 1 .. MaxTick /\ d \in Tick
      BY <2>3, <2>5, <2>10 DEF Tick
    <3>2. d \in future
      BY <2>5, <2>7, <3>1
    <3> HIDE DEF future
    <3>3. (CHOOSE x \in future : \A y \in future : x <= y) = d
      <4>1. d \in future /\ \A y \in future : d <= y
        BY <2>5, <2>8, <3>2
      <4>2. \A x \in future : (\A y \in future : x <= y) => x = d
        BY <2>5, <2>8, <3>2
      <4>3. QED
        BY <4>1, <4>2
    <3>4. u = [t EXCEPT !.deadline = d]
      BY <2>6, <2>10
    <3>5. u \in Timer /\ u.event = t.event /\ u.deadline = d /\ u.period = t.period
      BY <3>1, <3>4, TimerPostponed
    <3>6. u # Inactive
      BY <3>5, TimerFields
    <3>7. [a EXCEPT !.deadline = d] = SetTo(u)
      BY <3>5 DEF SetTo
    <3>8. Alarm!Next(a) = [a EXCEPT !.deadline = d]
      BY <1>2, <3>2, <3>3
    <3>9. QED
      BY <3>6, <3>7, <3>8
  <2>11. QED
    BY <2>3, <2>5, <2>9, <2>10
<1>5. QED
  BY <1>3, <1>4

AlarmStep ==
  \/ Alarm!Time \/ Alarm!Set \/ Alarm!Drop \/ Alarm!Ring \/ Alarm!Put \/ Alarm!Take
  \/ UNCHANGED Alarm!alarmVars

(* A pop takes the first pending event, a clear all of them. *)
LEMMA TakenFromQueue ==
  ASSUME RingInv, UNCHANGED <<slots, clock>>,
         \/ ~IsEmpty(queue) /\ queue' = Pop(queue)
         \/ queue' = Clear(queue)
  PROVE  AlarmStep
<1>1. [id \in TimerId |-> AlarmOf(id)]' = [id \in TimerId |-> AlarmOf(id)]
  BY ArmedIsTheMapping
<1>2. CASE ~IsEmpty(queue) /\ queue' = Pop(queue)
  <2>1. Items(queue) # << >> /\ Items(queue') = Tail(Items(queue))
    BY <1>2, PopTakesFirst DEF RingInv
  <2>2. Items(queue)' = Items(queue')
    BY DEF Items, Slot
  <2>3. Alarm!Take
    BY <1>1, <2>1, <2>2 DEF Alarm!Take
  <2>4. QED
    BY <2>3 DEF AlarmStep
<1>3. CASE queue' = Clear(queue)
  <2>1. Items(queue') = << >>
    BY <1>3, ClearEmpties DEF RingInv
  <2>2. Items(queue)' = Items(queue')
    BY DEF Items, Slot
  <2>3. CASE Items(queue) = << >>
    BY <1>1, <2>1, <2>2, <2>3 DEF AlarmStep, Alarm!alarmVars
  <2>4. CASE Items(queue) # << >>
    <3>1. Alarm!Take
      BY <1>1, <2>1, <2>2, <2>4 DEF Alarm!Take
    <3>2. QED
      BY <3>1 DEF AlarmStep
  <2>5. QED
    BY <2>3, <2>4
<1>4. QED
  BY <1>2, <1>3

(* An event that found room comes last. *)
LEMMA AppendedToQueue ==
  ASSUME RingInv, ~IsFull(queue), NEW e \in Item, queue' = Push(queue, e)
  PROVE  Len(Items(queue)) < Capacity /\ Items(queue)' = Append(Items(queue), e)
<1>1. Items(queue') = Append(Items(queue), e) /\ Len(Items(queue)) = queue.count
  BY PushAppends, ItemsType DEF RingInv
<1>2. queue.count < Capacity
  BY RingAssumption DEF RingInv, Ring, IsFull
<1>3. QED
  BY <1>1, <1>2 DEF Items, Slot

LEMMA StepImplementsAlarm == ExecInv /\ [Next]_vars => AlarmStep
<1> SUFFICES ASSUME ExecInv, [Next]_vars PROVE AlarmStep
  OBVIOUS
<1> DEFINE armed == [id \in TimerId |-> AlarmOf(id)]
<1>a. /\ TimerInv /\ RingInv /\ ExecutorInv
      /\ slots \in [TimerSlots -> Timer \cup {Inactive}] /\ clock \in Tick
  BY DEF ExecInv, TimerInv
<1>b. armed = Armed(slots) /\ armed' = Armed(slots')
  BY ArmedIsTheMapping
<1>c. ASSUME UNCHANGED slots PROVE UNCHANGED armed
  BY <1>b, <1>c
<1>d. TimerInv'
  BY <1>a, TimerStep
<1>e. ASSUME UNCHANGED <<slots, queue, clock>> PROVE AlarmStep
  <2>1. armed' = armed /\ Items(queue)' = Items(queue)
    BY <1>c, <1>e DEF Items, Slot
  <2>2. QED
    BY <1>e, <2>1 DEF AlarmStep, Alarm!alarmVars
<1> HIDE DEF armed
<1>1. CASE SetTimer
  <2>1. PICK i \in TimerSlots, t \in Timer :
          /\ slots' = [slots EXCEPT ![i] = t]
          /\ t.deadline >= clock
          /\ \A j \in TimerSlots : j # i /\ Active(j) => slots[j].id # t.id
          /\ Active(i) => slots[i].id = t.id
    BY <1>1, <1>a, SetTimerStep
  <2>2. queue' = queue /\ clock' = clock
    BY <1>1, <1>a, SetTimerStep
  <2>3. t.id \in TimerId /\ t # Inactive
    BY TimerFields
  <2>4. Armed(slots') = [Armed(slots) EXCEPT ![t.id] = SetTo(t)]
    <3>1. SlotSet(slots, slots', i, t, t.id)
      BY <1>a, <2>1, <2>3 DEF SlotSet, Active
    <3>2. QED
      BY <2>3, <3>1, OneAlarmChanges
  <2>5. SetTo(t) \in Alarm!Alarm /\ SetTo(t).deadline >= clock
    BY <2>1, AlarmType DEF SetTo
  <2>6. Cardinality({id \in TimerId : armed'[id] # Inactive}) <= TimerCapacity
    BY <1>b, <1>d, AlarmsBounded DEF TimerInv
  <2>7. Items(queue)' = Items(queue)
    BY <2>2 DEF Items, Slot
  <2>8. Alarm!Set
    <3>1. armed' = [armed EXCEPT ![t.id] = SetTo(t)]
      BY <1>b, <2>4
    <3>2. \E k \in TimerId, a \in Alarm!Alarm :
            a.deadline >= clock /\ armed' = [armed EXCEPT ![k] = a]
      BY <2>3, <2>5, <3>1
    <3>3. QED
      BY <2>2, <2>6, <2>7, <3>2, SameCardinality DEF Alarm!Set, armed
  <2>9. QED
    BY <2>8 DEF AlarmStep
<1>2. CASE CancelTimer
  <2>1. PICK id \in TimerId, i \in TimerSlots :
          find_slot(id, i) /\ slots' = [slots EXCEPT ![i] = Inactive]
    BY <1>2 DEF CancelTimer, TimerCancel
  <2>2. queue' = queue /\ clock' = clock
    BY <1>2 DEF CancelTimer, TimerCancel
  <2>3. /\ Active(i) /\ slots[i].id = id
        /\ \A j \in TimerSlots : j # i /\ Active(j) => slots[j].id # id
    BY <1>a, <2>1 DEF find_slot, TimerInv, DistinctIds
  <2>4. Armed(slots') = [Armed(slots) EXCEPT ![id] = Inactive]
    <3>1. SlotSet(slots, slots', i, Inactive, id)
      BY <1>a, <2>1, <2>3 DEF SlotSet, Active
    <3>2. QED
      BY <3>1, OneAlarmChanges
  <2>5. Items(queue)' = Items(queue)
    BY <2>2 DEF Items, Slot
  <2>6. Alarm!Drop
    BY <1>b, <2>2, <2>4, <2>5 DEF Alarm!Drop, armed
  <2>7. QED
    BY <2>6 DEF AlarmStep
<1>3. CASE TimerEmits
  <2>1. ~IsFull(queue) /\ clock' = clock
    BY <1>3, <1>a, EmitStep
  <2>2. PICK i \in TimerSlots :
          /\ Active(i) /\ slots[i] \in Timer /\ slots[i].deadline <= clock
          /\ queue' = Push(queue, slots[i].event)
          /\ slots' = [slots EXCEPT ![i] = Fired(slots[i], clock)]
    BY <1>3, <1>a, EmitStep
  <2>3. PICK u : u = Fired(slots[i], clock) /\ slots' = [slots EXCEPT ![i] = u]
    BY <2>2
  <2>4. PICK t \in Timer : t = slots[i]
    BY <2>2, <2>3
  <2>5. /\ u = Inactive \/ (u \in Timer /\ u.id = t.id)
        /\ t.id \in TimerId /\ t.event \in Item
    <3>1. t.id \in TimerId /\ t.event \in Item
      BY TimerFields
    <3>2. clock \in Tick
      BY <1>a
    <3>3. u = Inactive \/ (u \in Timer /\ u.id = slots[i].id)
      BY <2>2, <2>3, <3>2, FiredTimer
    <3>4. QED
      BY <2>4, <3>1, <3>3
  <2>6. \A j \in TimerSlots : j # i /\ Active(j) => slots[j].id # t.id
    BY <1>a, <2>2, <2>3, <2>4 DEF TimerInv, DistinctIds
  <2>7. Armed(slots') =
          [Armed(slots) EXCEPT ![t.id] = IF u = Inactive THEN Inactive ELSE SetTo(u)]
    <3>1. SlotSet(slots, slots', i, u, t.id)
      BY <1>a, <2>2, <2>3, <2>4, <2>5, <2>6 DEF SlotSet, Active
    <3>2. QED
      BY <2>5, <3>1, OneAlarmChanges
  <2>8. Alarm!Next(SetTo(t)) = IF u = Inactive THEN Inactive ELSE SetTo(u)
    BY <1>a, <2>2, <2>3, <2>4, NextAlarm
  <2>9. armed[t.id] = SetTo(t)
    <3>1. Mine(slots, t.id) = {i}
      BY <2>2, <2>3, <2>4, <2>6 DEF Mine, Active
    <3>2. Some({i}) = i
      BY DEF Some
    <3>3. AlarmIn(slots, t.id) = SetTo(t)
      BY <2>4, <3>1, <3>2 DEF AlarmIn
    <3>4. QED
      BY <1>b, <2>5, <3>3 DEF Armed
  <2>10. SetTo(t) # Inactive /\ SetTo(t).deadline <= clock /\ SetTo(t).event = t.event
    BY <2>2, <2>3, <2>4, AlarmType DEF SetTo
  <2>11. Len(Items(queue)) < Capacity /\ Items(queue)' = Append(Items(queue), t.event)
    BY <1>a, <2>1, <2>2, <2>3, <2>4, <2>5, AppendedToQueue
  <2>12. armed' = [armed EXCEPT ![t.id] = Alarm!Next(@)]
    BY <1>b, <2>7, <2>8, <2>9
  <2>13. Alarm!Ring
    <3>1. t.id \in TimerId
      BY <2>5
    <3>2. /\ armed[t.id] # Inactive /\ armed[t.id].deadline <= clock
          /\ Items(queue)' = Append(Items(queue), armed[t.id].event)
      BY <2>9, <2>10, <2>11
    <3>3. QED
      BY <2>1, <2>11, <2>12, <3>1, <3>2 DEF Alarm!Ring, armed
  <2>14. QED
    BY <2>13 DEF AlarmStep
<1>4. CASE Publish
  <2>1. PICK e \in Published : ~IsFull(queue) /\ queue' = Push(queue, e)
    BY <1>4 DEF Publish
  <2>2. e \in Item
    BY ExecutorAssumption
  <2>3. Len(Items(queue)) < Capacity /\ Items(queue)' = Append(Items(queue), e)
    BY <1>a, <2>1, <2>2, AppendedToQueue
  <2>4. slots' = slots /\ clock' = clock
    BY <1>4 DEF Publish, timerVars
  <2>5. armed' = armed
    BY <1>c, <2>4
  <2>6. Alarm!Put
    BY <2>2, <2>3, <2>4, <2>5 DEF Alarm!Put, armed
  <2>7. QED
    BY <2>6 DEF AlarmStep
<1>5. CASE ClearQueue
  BY <1>5, <1>a, TakenFromQueue DEF ClearQueue, timerVars
<1>6. CASE RejectEvent \/ DispatchEvent \/ LoseEvent
  BY <1>6, <1>a, TakenFromQueue DEF RejectEvent, DispatchEvent, LoseEvent, MayPop, timerVars
<1>7. CASE ClockAdvances
  <2>1. /\ slots' = slots /\ queue' = queue
        /\ clock < MaxTick /\ clock' = clock + 1
    BY <1>7 DEF ClockAdvances, timerVars
  <2>2. armed' = armed /\ Items(queue)' = Items(queue)
    BY <1>c, <2>1 DEF Items, Slot
  <2>3. clock' \in clock .. MaxTick
    BY <1>a, <2>1, TimerAssumption DEF Tick
  <2>4. Alarm!Time
    BY <2>2, <2>3 DEF Alarm!Time, armed
  <2>5. QED
    BY <2>4 DEF AlarmStep
<1>8. CASE RunOnce \/ TimersProcessed \/ RunReturns \/ ChangeSubscription
  BY <1>8, <1>e DEF RunOnce, ProcessCall, TimersProcessed, ProcessReturns, RunReturns,
       ChangeSubscription, timerVars
<1>9. CASE DispatchDirectly \/ Deliver \/ DispatchDone \/ UNCHANGED vars
  BY <1>9, <1>e DEF DispatchDirectly, Deliver, DispatchDone, vars, timerVars
<1>10. QED
  BY <1>1, <1>2, <1>3, <1>4, <1>5, <1>6, <1>7, <1>8, <1>9 DEF Next, Executing

(* ImplementsAlarms: slots, ring and the arithmetic on deadlines implement *)
(* one alarm per timer id. No event comes early, a late call delivers one  *)
(* event and sets the first multiple in the future, and a full queue       *)
(* leaves the alarm as it was.                                             *)
THEOREM TimersAreAlarms == Spec => ImplementsAlarms
<1>1. Init => Alarm!Init
  <2>1. SUFFICES ASSUME Init PROVE Alarm!Init
    OBVIOUS
  <2>2. /\ slots = [i \in TimerSlots |-> Inactive] /\ queue = EmptyRing /\ clock = 0
    BY <2>1 DEF Init, TimerInit
  <2>3. \A id \in TimerId : AlarmIn(slots, id) = Inactive
    BY <2>2 DEF AlarmIn, Mine
  <2>4. [id \in TimerId |-> AlarmOf(id)] = [id \in TimerId |-> Inactive]
    BY <2>3, ArmedIsTheMapping DEF Armed
  <2>5. Items(queue) = << >>
    BY <2>2, EmptyRingIsEmpty
  <2>6. QED
    BY <2>2, <2>4, <2>5 DEF Alarm!Init
<1>2. ExecInv /\ [Next]_vars =>
        [Alarm!Time \/ Alarm!Set \/ Alarm!Drop \/ Alarm!Ring \/ Alarm!Put
           \/ Alarm!Take]_Alarm!alarmVars
  BY StepImplementsAlarm DEF AlarmStep
<1>3. QED
  BY <1>1, <1>2, ExecAlways, PTL DEF Spec, ImplementsAlarms, Alarm!Spec
=============================================================================
