-------------------------- MODULE MCEventExecutor --------------------------
(* Two timers: one is set one-shot or periodic, the other at every tick    *)
(* with a payload that breaks its contract. The application publishes a    *)
(* third event, which may have no subscriber.                              *)
EXTENDS EventExecutor

CONSTANTS e1, e2, t1, t2

Plain(id) == [id |-> id, payload |-> FALSE, payload_size |-> 0]
Broken(id) == [id |-> id, payload |-> TRUE, payload_size |-> 1]

MCEventId == {e1, e2}
MCItem == {Plain(e1), Plain(e2), Broken(e1)}
MCContracts ==
  << [event_id |-> e1, payload_min_size |-> 0, payload_max_size |-> 0,
      ownership |-> "NONE"],
     [event_id |-> e2, payload_min_size |-> 0, payload_max_size |-> 2,
      ownership |-> "BORROWED"] >>
MCTimerId == {t1, t2}
MCRequests ==
  { [id |-> t1, event |-> Plain(e1), delay |-> 1, period |-> 2],
    [id |-> t1, event |-> Plain(e1), delay |-> 1, period |-> 0],
    [id |-> t2, event |-> Broken(e1), delay |-> 0, period |-> 1] }
MCPublished == {Plain(e2)}
=============================================================================
