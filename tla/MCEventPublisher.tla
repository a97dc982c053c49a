-------------------------- MODULE MCEventPublisher --------------------------
(* Two event ids; one is published with either of two payloads, the other  *)
(* without.                                                                *)
EXTENDS EventPublisher

CONSTANTS e1, e2, p1, p2

MCEventId == {e1, e2}
MCCopied == {[id |-> e1, payload |-> p1], [id |-> e1, payload |-> p2]}
MCBare == {[id |-> e2, payload |-> NoPayload]}
MCItem == [id : MCEventId, payload : PayloadSlots \cup {NoPayload}]
=============================================================================
