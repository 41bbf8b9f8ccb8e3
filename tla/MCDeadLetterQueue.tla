-------------------------- MODULE MCDeadLetterQueue --------------------------
(* Instances of the dead letter queue for TLC. *)
EXTENDS DeadLetterQueueProperties, TLC

CONSTANTS m1, m2, m3

\* Messages of one topic: the first in a second of its own, the others in the same one.
Topics == [m \in Messages |-> "home/temp"]
Seconds == [m \in Messages |-> IF m = m1 THEN 1 ELSE 2]
=============================================================================
