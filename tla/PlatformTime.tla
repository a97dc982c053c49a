---------------------------- MODULE PlatformTime ----------------------------
(***************************************************************************)
(* platform_linux_time.h: the conversion of a clock_gettime() snapshot to  *)
(* a monotonic tick or a UTC time. time_t values are -MaxTimeT - 1 ..      *)
(* MaxTimeT or, where time_t is unsigned, 0 .. MaxTimeT; uint64_t ticks    *)
(* are 0 .. MaxTick.                                                       *)
(***************************************************************************)
EXTENDS UtcTime

MaxTick == 2 * MaxInt + 1
Tick == 0 .. MaxTick

(* platform_linux_time_seconds_from_parts(); magnitude is a uint64_t.      *)
SecondsFromParts(negative, magnitude) ==
  IF magnitude > (IF negative THEN MaxInt + 1 ELSE MaxInt)
  THEN NoTime
  ELSE IF negative THEN -magnitude ELSE magnitude

(* time_t_to_seconds(): -(value + 1) + 1, as -value may not exist.         *)
TimeTToSeconds(value) ==
  IF value < 0 THEN SecondsFromParts(TRUE, -(value + 1) + 1)
               ELSE SecondsFromParts(FALSE, value)

(* valid_nanosecond(); tv_nsec is what the system returned.                *)
ValidNanosecond(snapshot) == snapshot.nanosecond \in Nanosecond

SnapshotToTick(snapshot) ==
  IF \/ ~ValidNanosecond(snapshot) \/ snapshot.seconds < 0
     \/ snapshot.seconds > MaxTick \div NsPerSecond
     \/ /\ snapshot.seconds = MaxTick \div NsPerSecond
        /\ snapshot.nanosecond > MaxTick % NsPerSecond
  THEN NoTime
  ELSE snapshot.seconds * NsPerSecond + snapshot.nanosecond

SnapshotToUtc(snapshot) ==
  IF ~ValidNanosecond(snapshot) THEN NoTime
  ELSE TimeOf(snapshot.seconds, snapshot.nanosecond)

(* system_gettime() on what clock_gettime() stored, if it succeeded.       *)
SystemGettime(timespec) ==
  LET seconds == TimeTToSeconds(timespec.tv_sec)
  IN IF timespec = NoTime \/ seconds = NoTime THEN NoTime
     ELSE [seconds |-> seconds, nanosecond |-> timespec.tv_nsec]

(* platform_linux_time_monotonic() and platform_linux_time_utc().          *)
Monotonic(timespec) ==
  IF SystemGettime(timespec) = NoTime THEN NoTime
  ELSE SnapshotToTick(SystemGettime(timespec))

Utc(timespec) ==
  IF SystemGettime(timespec) = NoTime THEN NoTime
  ELSE SnapshotToUtc(SystemGettime(timespec))
=============================================================================
