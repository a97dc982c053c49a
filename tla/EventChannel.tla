---------------------------- MODULE EventChannel ----------------------------
(***************************************************************************)
(* What ut_event_publisher_t promises to its users: events are delivered   *)
(* in the order they were published, one at a time, each with the payload  *)
(* value it was published with until its handlers return. EventPublisher   *)
(* shows that slots, flags and ring implement it; DomainService is built   *)
(* on it.                                                                  *)
(***************************************************************************)
EXTENDS Naturals, Sequences, FiniteSets

CONSTANTS
  Copied,     \* events published with a payload, by value
  Bare,       \* events published without one
  Capacity    \* length of the queue, and number of payload slots

VARIABLE channel   \* pending: not yet popped, oldest first
                   \* held: the event whose handlers run, if any

Event == Copied \cup Bare

ChannelType ==
  /\ channel.pending \in Seq(Event) /\ Len(channel.pending) <= Capacity
  /\ channel.held \in Seq(Event) /\ Len(channel.held) <= 1

EmptyChannel == [pending |-> << >>, held |-> << >>]

(* Payload slots stay occupied until the handlers returned.                *)
SlotsInUse(c) ==
  Cardinality({k \in DOMAIN c.pending : c.pending[k] \in Copied})
    + Cardinality({k \in DOMAIN c.held : c.held[k] \in Copied})

HasRoom(c, e) ==
  /\ Len(c.pending) < Capacity
  /\ e \in Copied => SlotsInUse(c) < Capacity

Published(c, e) ==
  IF HasRoom(c, e) THEN [c EXCEPT !.pending = Append(@, e)] ELSE c

Taken(c) == [pending |-> Tail(c.pending), held |-> << Head(c.pending) >>]

Released(c) == [c EXCEPT !.held = << >>]

-----------------------------------------------------------------------------

Publish(e) == HasRoom(channel, e) /\ channel' = Published(channel, e)

Take ==
  /\ channel.pending # << >> /\ channel.held = << >>
  /\ channel' = Taken(channel)

Release == channel.held # << >> /\ channel' = Released(channel)

Next == (\E e \in Event : Publish(e)) \/ Take \/ Release

Spec == channel = EmptyChannel /\ [][Next]_channel
=============================================================================
