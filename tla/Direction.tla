------------------------------ MODULE Direction ------------------------------
(***************************************************************************)
(* What BidirectionalBridge and main may rely on in one direction of the   *)
(* bridge.  Start runs in a goroutine of its own and Stop in main, so Stop *)
(* may be called at any time.  Called when Start has ended or will never   *)
(* be called it is orderly: then it returns and nothing panics.  Called    *)
(* earlier it may wait for ever or, once it has returned, leave behind a   *)
(* goroutine that panics.                                                  *)
(***************************************************************************)
VARIABLES
    process,   \* "up", "exited", "panicked" or "killed"
    start,     \* "idle", "disabled", "running", "returned" or "failed"
    stop,      \* "idle", "running" or "returned"
    orderly    \* Stop was called when Start had nothing more to do

vars == <<process, start, stop, orderly>>

Ended == {"disabled", "returned", "failed"}

Init == process = "up" /\ start = "idle" /\ stop = "idle" /\ orderly = FALSE

\* The direction is switched off: Start will not be called.
Disable ==
    /\ process = "up"
    /\ start = "idle" /\ start' = "disabled"
    /\ UNCHANGED <<process, stop, orderly>>

CallStart ==
    /\ process = "up"
    /\ start = "idle" /\ start' = "running"
    /\ UNCHANGED <<process, stop, orderly>>

EndStart ==
    /\ process = "up"
    /\ start = "running" /\ start' \in {"returned", "failed"}
    /\ UNCHANGED <<process, stop, orderly>>

CallStop ==
    /\ process = "up"
    /\ stop = "idle" /\ stop' = "running"
    /\ orderly' = (start \in Ended)
    /\ UNCHANGED <<process, start>>

ReturnFromStop ==
    /\ process = "up"
    /\ stop = "running" /\ stop' = "returned"
    /\ UNCHANGED <<process, start, orderly>>

Panic ==
    /\ process = "up" /\ process' = "panicked"
    /\ stop = "returned" /\ ~orderly
    /\ UNCHANGED <<start, stop, orderly>>

\* The process ends by itself only when both calls have.
Exit ==
    /\ process = "up" /\ process' = "exited"
    /\ stop = "returned" /\ start \in Ended
    /\ UNCHANGED <<start, stop, orderly>>

Kill ==
    /\ process = "up" /\ process' = "killed"
    /\ UNCHANGED <<start, stop, orderly>>

Restart ==
    /\ process = "killed" /\ process' = "up"
    /\ start' = "idle" /\ stop' = "idle" /\ orderly' = FALSE

Next ==
    \/ Disable \/ CallStart \/ EndStart
    \/ CallStop \/ ReturnFromStop \/ Exit
    \/ Panic \/ Kill \/ Restart

Safety == Init /\ [][Next]_vars

Up == process = "up"
StartEnds == (Up /\ start = "running") ~> (~Up \/ start # "running")
OrderlyStopReturns == (Up /\ stop = "running" /\ orderly) ~> (~Up \/ stop # "running")

Spec == Safety /\ StartEnds /\ OrderlyStopReturns
=============================================================================
