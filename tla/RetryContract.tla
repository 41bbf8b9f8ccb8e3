---------------------------- MODULE RetryContract ----------------------------
(***************************************************************************)
(* What a dead letter queue promises its clients, message by message: a    *)
(* message that fails is tried again until it is delivered once or has     *)
(* failed Limit times, and in the second case, and only then, it is        *)
(* abandoned.  Nothing happens to a message that is delivered or abandoned.*)
(***************************************************************************)
EXTENDS Naturals

CONSTANTS Messages,  \* the messages
          Limit      \* failed attempts after which a message is abandoned

VARIABLES outcome,   \* what has become of each message
          failures   \* how often each message has failed

vars == <<outcome, failures>>

Init ==
    /\ outcome = [m \in Messages |-> "new"]
    /\ failures = [m \in Messages |-> 0]

Open(m) == outcome[m] \in {"new", "retrying"}

Deliver(m) ==
    /\ Open(m)
    /\ failures[m] < Limit
    /\ outcome' = [outcome EXCEPT ![m] = "delivered"]
    /\ UNCHANGED failures

Fail(m) ==
    /\ Open(m)
    /\ failures[m] < Limit
    /\ outcome' = [outcome EXCEPT ![m] = "retrying"]
    /\ failures' = [failures EXCEPT ![m] = @ + 1]

Abandon(m) ==
    /\ outcome[m] = "retrying"
    /\ failures[m] = Limit
    /\ outcome' = [outcome EXCEPT ![m] = "abandoned"]
    /\ UNCHANGED failures

Next == \E m \in Messages : Deliver(m) \/ Fail(m) \/ Abandon(m)

Spec == Init /\ [][Next]_vars
=============================================================================
