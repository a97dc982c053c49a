---------------------------- MODULE MCFoundation ----------------------------
(***************************************************************************)
(* The foundation libraries that share no state: event queue, logger,      *)
(* state machine, time service and retry policy. No action of one reads a  *)
(* variable of another, so each behaviour exercises one of them, the       *)
(* subject; their product would add no behaviour to any.                   *)
(*                                                                         *)
(* The assumptions evaluate the pure functions: conversions, calendar,     *)
(* byte order and ids against their reference definitions.                 *)
(***************************************************************************)
EXTENDS EventQueue, Logger, EventStateMachine, TimeService, RetryPolicy,
        ByteCursor, Rfc3339

CONSTANTS e1, e2, e3, w1, w2, s1, s2, s3, start, done

VARIABLE subject

Subject == {"queue", "logger", "machine", "time", "retry"}

(* Log level 1 passes both thresholds, level 0 only the lower one.         *)
MCSetting ==
  {[enabled |-> TRUE, level |-> 0], [enabled |-> TRUE, level |-> 1],
   [enabled |-> FALSE, level |-> 1]}

MCRow(from, event, to, guarded, internal) ==
  [from_state |-> from, event_id |-> event, to_state |-> to,
   guarded |-> guarded, internal |-> internal]

(* A guarded row before a fallback, an internal one, a self transition and *)
(* both wildcards.                                                         *)
MCTransitions ==
  << MCRow(s1, start, s2, TRUE, FALSE), MCRow(s1, start, s1, FALSE, TRUE),
     MCRow(s2, AnyEvent, s3, TRUE, FALSE), MCRow(s2, done, s2, FALSE, FALSE),
     MCRow(AnyState, done, s1, FALSE, FALSE) >>

(* Around the epoch and at both ends of the range.                         *)
MCSyncTime ==
  {TimeOf(MinInt, 0), TimeOf(-1, 2), TimeOf(0, 0), TimeOf(MaxInt - 1, 1),
   TimeOf(MaxInt, 2)}

MCPolicy ==
  [max_attempts : {0, 1, 4, 5}, base_delay : 0 .. 3, max_delay : {0, 2, 5, 9},
   backoff : {Fixed, Exponential}]

FoundationInit ==
  /\ subject \in Subject
  /\ Init /\ LoggerInit /\ MachineInit /\ TimeInit /\ RetryInit

FoundationNext ==
  /\ UNCHANGED subject
  /\ \/ /\ subject = "queue" /\ Next
        /\ UNCHANGED <<loggerVars, machineVars, timeVars, retryVars>>
     \/ /\ subject = "logger" /\ LoggerNext
        /\ UNCHANGED <<vars, machineVars, timeVars, retryVars>>
     \/ /\ subject = "machine" /\ MachineNext
        /\ UNCHANGED <<vars, loggerVars, timeVars, retryVars>>
     \/ /\ subject = "time" /\ TimeNext
        /\ UNCHANGED <<vars, loggerVars, machineVars, retryVars>>
     \/ /\ subject = "retry" /\ RetryNext
        /\ UNCHANGED <<vars, loggerVars, machineVars, timeVars>>

FoundationSpec ==
  FoundationInit
    /\ [][FoundationNext]_<<subject, vars, loggerVars, machineVars, timeVars, retryVars>>

-----------------------------------------------------------------------------

(* Addition, subtraction and difference answer exactly when the result     *)
(* has a representation, and then with it; compare orders by value.        *)
ASSUME ArithmeticIsExact ==
  \A t, d \in Time :
    LET sum == AddNormalized(t, d)
        rest == Subtract(t, d)
    IN /\ sum # NoTime <=> Representable(Value(t) + Value(d))
       /\ sum # NoTime => sum \in Time /\ Value(sum) = Value(t) + Value(d)
       /\ rest # NoTime <=> Representable(Value(t) - Value(d))
       /\ rest # NoTime => rest \in Time /\ Value(rest) = Value(t) - Value(d)
       /\ Compare(t, d) > 0 <=> Value(t) > Value(d)
       /\ Compare(t, d) < 0 <=> Value(t) < Value(d)

(* A count of units becomes a time and the same count again, but for the   *)
(* counts below the last whole second an int64_t holds: to_units()         *)
(* compares with the truncated MinInt / units and refuses those.           *)
ASSUME UnitsComeBack ==
  \A nsPerUnit \in {u \in 1 .. NsPerSecond : NsPerSecond % u = 0} : \A count \in Int64 :
    LET t == FromUnits(count, nsPerUnit)
        units == NsPerSecond \div nsPerUnit
    IN /\ t \in Time /\ Value(t) = count * nsPerUnit
       /\ ToUnits(t, nsPerUnit) =
            IF count < Quotient(MinInt, units) * units THEN NoTime ELSE count

(* Clock snapshots are converted exactly or refused.                       *)
ASSUME SnapshotsAreExact ==
  \A seconds \in -MaxTick - 2 .. MaxTick + 2, nanosecond \in -1 .. NsPerSecond :
    LET timespec == [tv_sec |-> seconds, tv_nsec |-> nanosecond]
        valid == seconds \in Int64 /\ nanosecond \in Nanosecond
        value == seconds * NsPerSecond + nanosecond
    IN /\ Monotonic(timespec) = IF valid /\ value \in Tick THEN value ELSE NoTime
       /\ Utc(timespec) = IF valid THEN TimeOf(seconds, nanosecond) ELSE NoTime

ASSUME CalendarIsRight ==
  \A year \in (1 .. 5) \cup {100, 399, 400, 401, 1600, 1900, 1970, 1972}
                \cup (1999 .. 2001) \cup {2100, 2400, 9999} :
    YearIsConverted(year)

ASSUME FormatComesBack ==
  \A days \in {MinRfc3339Day - 1, MinRfc3339Day, -1, 0, 59, MaxRfc3339Day},
     second_of_day \in {0, 59, 60, 3599, 3600, 86399},
     nanosecond \in {0, 1, 120000000, 999999999} :
    FormatIsParsed([days |-> days, second_of_day |-> second_of_day,
                    nanosecond |-> nanosecond])

ASSUME BytesComeBack ==
  \A data \in {<< >>, <<1, 0, 1>>, <<0, 1, 1, 0>>}, order \in BOOLEAN,
     width \in 1 .. 4, value \in 0 .. 17 :
    \A offset \in 0 .. Len(data) :
      ReadsWhatWasWritten(data, offset, value, width, order)

ASSUME IdsDiffer == \A stored \in 0 .. MaxId : IdsInACycle(stored)
=============================================================================
