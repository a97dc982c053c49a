------------------------------ MODULE UtcTime ------------------------------
(***************************************************************************)
(* utility_time.h: UTC times and durations as seconds and normalized       *)
(* nanoseconds, their arithmetic and their conversions to counts of a      *)
(* unit. int64_t is scaled to -MaxInt - 1 .. MaxInt and a second to        *)
(* NsPerSecond nanoseconds, whose relation the code does not use. Signed   *)
(* division is C's: it truncates towards zero.                             *)
(*                                                                         *)
(* An operation on arguments that are NULL or not normalized returns       *)
(* INVALID_ARGUMENT and is left out; NoTime is the OUT_OF_RANGE result,    *)
(* after which the caller's output is untouched.                           *)
(***************************************************************************)
EXTENDS Integers

CONSTANTS NsPerSecond, MaxInt, NoTime

MinInt == -MaxInt - 1
Int64 == MinInt .. MaxInt
Nanosecond == 0 .. NsPerSecond - 1

(* ut_time_utc_t and ut_time_duration_t, utc_is_valid(), duration_is_valid() *)
Time == [seconds : Int64, nanosecond : Nanosecond]

ASSUME TimeAssumption ==
  /\ NsPerSecond \in Nat \ {0, 1} /\ MaxInt \in Nat \ {0}
  /\ NoTime \notin Time \cup Int

TimeOf(seconds, nanosecond) == [seconds |-> seconds, nanosecond |-> nanosecond]

Quotient(a, b) == IF a >= 0 THEN a \div b ELSE -((-a) \div b)
Remainder(a, b) == a - b * Quotient(a, b)

(* split_units(): floor division, and what it leaves.                      *)
SplitUnits(value, units) ==
  IF Remainder(value, units) < 0
  THEN <<Quotient(value, units) - 1, Remainder(value, units) + units>>
  ELSE <<Quotient(value, units), Remainder(value, units)>>

(* to_units() for a unit of nsPerUnit nanoseconds.                         *)
ToUnits(t, nsPerUnit) ==
  LET units == NsPerSecond \div nsPerUnit
      fraction == t.nanosecond \div nsPerUnit
  IN IF \/ t.seconds > Quotient(MaxInt, units)
        \/ t.seconds < Quotient(MinInt, units)
        \/ /\ t.seconds = Quotient(MaxInt, units)
           /\ fraction > Remainder(MaxInt, units)
     THEN NoTime
     ELSE t.seconds * units + fraction

FromUnits(value, nsPerUnit) ==
  LET split == SplitUnits(value, NsPerSecond \div nsPerUnit)
  IN TimeOf(split[1], split[2] * nsPerUnit)

(* add_normalized(). Every sum it forms lies in Int64.                     *)
AddNormalized(left, right) ==
  LET nanosecond == left.nanosecond + right.nanosecond
      carry == IF nanosecond >= NsPerSecond THEN 1 ELSE 0
      adjusted == right.seconds + carry
  IN IF carry = 1 /\ right.seconds = MaxInt
     THEN IF left.seconds >= 0
          THEN NoTime
          ELSE TimeOf((MaxInt + left.seconds) + 1, nanosecond % NsPerSecond)
     ELSE IF \/ adjusted > 0 /\ left.seconds > MaxInt - adjusted
             \/ adjusted < 0 /\ left.seconds < MinInt - adjusted
          THEN NoTime
          ELSE TimeOf(left.seconds + adjusted, nanosecond % NsPerSecond)

(* subtract_seconds(); NoTime is its OUT_OF_RANGE.                         *)
SubtractSeconds(left, right, borrow) ==
  LET adjusted == right + borrow
  IN IF borrow = 1 /\ right = MaxInt
     THEN IF left < 0 THEN NoTime ELSE MinInt + left
     ELSE IF \/ adjusted > 0 /\ left < MinInt + adjusted
             \/ adjusted < 0 /\ left > MaxInt + adjusted
          THEN NoTime
          ELSE left - adjusted

(* ut_time_utc_subtract(), and ut_time_utc_difference(), which differ in   *)
(* the types of their arguments.                                           *)
Subtract(left, right) ==
  LET borrow == IF left.nanosecond < right.nanosecond THEN 1 ELSE 0
      seconds == SubtractSeconds(left.seconds, right.seconds, borrow)
  IN IF seconds = NoTime
     THEN NoTime
     ELSE TimeOf(seconds,
                 IF borrow = 0 THEN left.nanosecond - right.nanosecond
                 ELSE NsPerSecond - (right.nanosecond - left.nanosecond))

Compare(left, right) ==
  IF left.seconds # right.seconds
  THEN IF left.seconds < right.seconds THEN -1 ELSE 1
  ELSE IF left.nanosecond # right.nanosecond
       THEN IF left.nanosecond < right.nanosecond THEN -1 ELSE 1
       ELSE 0

-----------------------------------------------------------------------------

(* The instant or length a time stands for, in nanoseconds.                *)
Value(t) == t.seconds * NsPerSecond + t.nanosecond
Representable(value) ==
  MinInt * NsPerSecond <= value /\ value <= MaxInt * NsPerSecond + (NsPerSecond - 1)
=============================================================================
