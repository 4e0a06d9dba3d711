------------------------------- MODULE Worker -------------------------------
(***************************************************************************)
(* What NetworkDetector relies on in each of the threads it starts with    *)
(* std::async and whose future it keeps: the thread runs until it is told  *)
(* to stop, then ends; or it ends by an exception before anybody asked.    *)
(* What it never does is Safety; that it does end once told is EndIsFair,  *)
(* which a thread can promise only if what it calls returns.               *)
(***************************************************************************)
VARIABLES
    keepRunning,   \* the flag the thread polls
    thread         \* "unstarted", "running", "ended" or "threw"

Init == keepRunning = TRUE /\ thread = "unstarted"

Start ==
    /\ thread = "unstarted"
    /\ keepRunning' = TRUE
    /\ thread' = "running"

Stop ==
    /\ thread # "unstarted"
    /\ keepRunning' = FALSE
    /\ UNCHANGED thread

End ==
    /\ thread = "running"
    /\ ~keepRunning
    /\ thread' = "ended"
    /\ UNCHANGED keepRunning

EndPrematurely ==
    /\ thread = "running"
    /\ keepRunning
    /\ thread' = "threw"
    /\ UNCHANGED keepRunning

Next == Start \/ Stop \/ End \/ EndPrematurely

Safety == Init /\ [][Next]_<<keepRunning, thread>>

\* The thread of a worker that is told to stop does end.
EndIsFair == WF_<<keepRunning, thread>>(End)

Spec == Safety /\ EndIsFair
=============================================================================
