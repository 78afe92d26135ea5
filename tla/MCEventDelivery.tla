--------------------------- MODULE MCEventDelivery --------------------------
(* A small configuration of EventDelivery for TLC. *)
EXTENDS EventDelivery

CONSTANTS t1, t2, r1

MCFilter == [v \in Readers |-> t2]
MCShapes == {[enabled |-> TRUE, blocked |-> FALSE], [enabled |-> TRUE, blocked |-> TRUE]}
MCRetries == {Unset}
=============================================================================
