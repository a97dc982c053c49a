---------------------------- MODULE TimeService ----------------------------
(***************************************************************************)
(* time_service_t: the UTC of the last synchronization, carried on by the  *)
(* monotonic clock. Callers read the platform clocks and pass the tick on; *)
(* other calls may come between, so the tick they pass may be older than   *)
(* the last synchronization. Of the status, the uncertainty, which is only *)
(* stored and copied, is left out.                                         *)
(***************************************************************************)
EXTENDS PlatformTime

CONSTANTS
  Source, UnknownSource,
  SyncTime    \* the UTCs the sources report

ASSUME SourceAssumption == UnknownSource \notin Source /\ SyncTime \subseteq Time

VARIABLES
  service,   \* synchronized_utc, last_sync_monotonic_ns, source, available
             \* and synchronized
  clock,     \* external: CLOCK_MONOTONIC, in nanoseconds since it started
  answer     \* history: tick and UTC of the last OK answer of now() since
             \* the service was last updated or set unavailable

timeVars == <<service, clock, answer>>

NoAnswer == [tick |-> 0, utc |-> NoTime]

TimeInit ==
  /\ service = [synchronized_utc |-> TimeOf(0, 0), last_sync_monotonic_ns |-> 0,
                source |-> UnknownSource, available |-> FALSE, synchronized |-> FALSE]
  /\ clock = 0
  /\ answer = NoAnswer

(* What CLOCK_MONOTONIC answered at a time that has passed.                *)
MonotonicAt(t) == Monotonic([tv_sec |-> t \div NsPerSecond, tv_nsec |-> t % NsPerSecond])

(* Ticks callers may hold. The clock outlives the ticks a uint64_t holds.  *)
TickRead(tick) == tick # NoTime /\ \E t \in 0 .. clock : tick = MonotonicAt(t)

ClockMoves ==
  /\ clock <= MaxTick
  /\ clock' = clock + 1
  /\ UNCHANGED <<service, answer>>

NotBeforeLast(tick) ==
  service.synchronized => tick >= service.last_sync_monotonic_ns

(* time_service_update() with a UTC of any source. An older tick than the  *)
(* last is MONOTONIC_REGRESSION and changes nothing.                       *)
Update(utc, tick, source) ==
  /\ TickRead(tick) /\ NotBeforeLast(tick)
  /\ service' = [synchronized_utc |-> utc, last_sync_monotonic_ns |-> tick,
                 source |-> source, available |-> TRUE, synchronized |-> TRUE]
  /\ answer' = NoAnswer
  /\ UNCHANGED clock

SetUnavailable ==
  /\ service' = [service EXCEPT !.available = FALSE, !.synchronized = FALSE,
                                !.source = UnknownSource]
  /\ answer' = NoAnswer
  /\ UNCHANGED clock

(* Mistake: the nanoseconds of the elapsed time are dropped.               *)
WholeSeconds(elapsed) == TimeOf(elapsed \div NsPerSecond, 0)

DurationOf(elapsed) == TimeOf(elapsed \div NsPerSecond, elapsed % NsPerSecond)

(* time_service_now() when it returns OK. The other results, UNAVAILABLE,  *)
(* MONOTONIC_REGRESSION and OVERFLOW, leave everything as it is.           *)
Now(tick) ==
  /\ TickRead(tick)
  /\ service.available /\ tick >= service.last_sync_monotonic_ns
  /\ LET utc == AddNormalized(service.synchronized_utc,
                              DurationOf(tick - service.last_sync_monotonic_ns))
     IN utc # NoTime /\ answer' = [tick |-> tick, utc |-> utc]
  /\ UNCHANGED <<service, clock>>

TimeNext ==
  \/ ClockMoves
  \/ \E tick \in Tick : Now(tick)
  \/ \E utc \in SyncTime, tick \in Tick, source \in Source : Update(utc, tick, source)
  \/ SetUnavailable

TimeSpec == TimeInit /\ [][TimeNext]_timeVars

-----------------------------------------------------------------------------

(* valid_state(), which every call checks before it uses the service.      *)
ValidState ==
  \/ ~service.available /\ ~service.synchronized /\ service.source = UnknownSource
  \/ service.available /\ service.synchronized /\ service.source \in Source

ServiceType ==
  /\ service \in [synchronized_utc : Time, last_sync_monotonic_ns : Tick,
                  source : Source \cup {UnknownSource},
                  available : BOOLEAN, synchronized : BOOLEAN]
  /\ ValidState
  /\ clock \in Nat
  /\ answer = NoAnswer \/ answer \in [tick : Tick, utc : Time]

(* As long as the service is not synchronized again, the UTCs it answers   *)
(* are apart exactly as the ticks they were asked with: carries, the sign  *)
(* of the UTC and ticks passed late or out of order change nothing, and no *)
(* answer lies before the synchronization.                                 *)
AnswersKeepPace ==
  answer # NoAnswer =>
    /\ Value(answer.utc) - Value(service.synchronized_utc)
         = answer.tick - service.last_sync_monotonic_ns
    /\ answer.tick >= service.last_sync_monotonic_ns
=============================================================================
