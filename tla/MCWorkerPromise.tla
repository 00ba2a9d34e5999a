--------------------------- MODULE MCWorkerPromise ---------------------------
(* WorkerPromise with one client, for TLC.                                 *)
EXTENDS WorkerPromise

CONSTANT c1

OneClient  == {c1}
PauseCalls == {Request("run"), WaitUntil("pause", "paused")}
EndCalls   == {WaitUntil("finalize", "finalized"), Query("running")}
None       == {}
=============================================================================
