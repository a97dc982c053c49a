----------------------------- MODULE AlarmClock -----------------------------
(***************************************************************************)
(* What the timer scheduler promises: at most one alarm per timer id; an   *)
(* alarm whose time has come puts its event at the end of a bounded queue, *)
(* or stays as it is while the queue is full. A periodic alarm is then set *)
(* to its first multiple that lies in the future, however late the call    *)
(* came, and is dropped when no tick is left for one.                      *)
(***************************************************************************)
EXTENDS Naturals, Sequences, FiniteSets

CONSTANTS
  TimerId, Event,
  Off,            \* no alarm is set
  Alarms,         \* how many alarms may be set at a time
  MaxTick,
  Capacity        \* length of the queue

VARIABLES
  armed,          \* each timer's alarm, or Off
  pending,        \* events not yet taken
  clock

alarmVars == <<armed, pending, clock>>

Alarm == [event : Event, deadline : 0 .. MaxTick, period : 0 .. MaxTick]

Init ==
  /\ armed = [t \in TimerId |-> Off]
  /\ pending = << >>
  /\ clock = 0

Time == clock' \in clock .. MaxTick /\ UNCHANGED <<armed, pending>>

Set ==
  /\ \E t \in TimerId, a \in Alarm :
       /\ a.deadline >= clock
       /\ armed' = [armed EXCEPT ![t] = a]
  /\ Cardinality({t \in TimerId : armed'[t] # Off}) <= Alarms
  /\ UNCHANGED <<pending, clock>>

Drop ==
  /\ \E t \in TimerId : armed' = [armed EXCEPT ![t] = Off]
  /\ UNCHANGED <<pending, clock>>

Multiple(d, a) == (d - a.deadline) % a.period = 0

Next(a) ==
  LET future == {d \in clock + 1 .. MaxTick : a.period # 0 /\ Multiple(d, a)} IN
    IF future = {} THEN Off
    ELSE [a EXCEPT !.deadline = CHOOSE d \in future : \A e \in future : d <= e]

Ring ==
  /\ Len(pending) < Capacity
  /\ \E t \in TimerId :
       /\ armed[t] # Off /\ armed[t].deadline <= clock
       /\ pending' = Append(pending, armed[t].event)
       /\ armed' = [armed EXCEPT ![t] = Next(@)]
  /\ UNCHANGED clock

Put ==
  /\ Len(pending) < Capacity
  /\ \E e \in Event : pending' = Append(pending, e)
  /\ UNCHANGED <<armed, clock>>

Take ==
  /\ pending # << >> /\ pending' \in {Tail(pending), << >>}
  /\ UNCHANGED <<armed, clock>>

Spec == Init /\ [][Time \/ Set \/ Drop \/ Ring \/ Put \/ Take]_alarmVars
=============================================================================
