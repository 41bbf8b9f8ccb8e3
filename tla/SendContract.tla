----------------------------- MODULE SendContract -----------------------------
(***************************************************************************)
(* What a caller may rely on when it sends a message: a call that answers  *)
(* nil has stored the message, and a call that answers an error may have   *)
(* stored it all the same.                                                 *)
(***************************************************************************)
CONSTANT Callers

VARIABLES
    call,    \* "idle", "open", or the answer of the last call: "nil" or "error"
    stored   \* the message of the current or last call is in its topic

vars == <<call, stored>>

Init ==
    /\ call = [c \in Callers |-> "idle"]
    /\ stored = [c \in Callers |-> FALSE]

Begin(c) ==
    /\ call[c] # "open"
    /\ call' = [call EXCEPT ![c] = "open"]
    /\ stored' = [stored EXCEPT ![c] = FALSE]

Store(c) ==
    /\ call[c] = "open"
    /\ stored' = [stored EXCEPT ![c] = TRUE]
    /\ UNCHANGED call

\* A store and the answer may be one step.
Answer(c) ==
    /\ call[c] = "open"
    /\ \/ UNCHANGED stored
       \/ stored' = [stored EXCEPT ![c] = TRUE]
    /\ \/ call' = [call EXCEPT ![c] = "nil"] /\ stored'[c]
       \/ call' = [call EXCEPT ![c] = "error"]

Next == \E c \in Callers : Begin(c) \/ Store(c) \/ Answer(c)

Spec == Init /\ [][Next]_vars
=============================================================================
