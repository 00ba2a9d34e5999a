---------------------------- MODULE WorkerPromise ----------------------------
(***************************************************************************)
(* What interruptible.hpp tells the callers of a worker about the answers  *)
(* they get, stated of Worker with a history of what a caller was told.    *)
(***************************************************************************)
EXTENDS Worker

VARIABLE promised  \* wait_until_paused(true) returned, and no run() since

WaitForPauseReturns ==
    \E c \in Clients : /\ cpc[c] = "check" /\ cpc'[c] = "idle"
                       /\ call[c] = WaitUntil("pause", "paused")

PInit == Init /\ promised = FALSE

PNext ==
    /\ Next
    /\ promised' = IF WaitForPauseReturns THEN ~execute
                   ELSE promised /\ ~execute'

PSpec == PInit /\ [][PNext]_<<vars, promised>>

(* interruptible.hpp:30: wait_until_paused "hangs the calling thread until *)
(* the threaded process is paused".  Once it has returned, and until       *)
(* someone calls run(), no task may start.                                 *)
NoTaskOncePaused ==
    [][promised => ~(wpc = "call_task" /\ wpc' = "in_task")]_<<vars, promised>>

=============================================================================
