------------------------------ MODULE MCWorker ------------------------------
(* Worker with two clients, for TLC: the sets of calls its configurations  *)
(* use, and the symmetry of the clients.                                   *)
EXTENDS Worker, TLC

CONSTANTS c1, c2

TwoClients == {c1, c2}

Symmetry == Permutations({c1, c2})

(* The requests, each with the wait that follows it, and a wait for the    *)
(* end that asks for nothing.                                              *)
WaitingCalls == {WaitUntil("finalize", "finalized"), WaitUntil("pause", "paused"),
                 WaitUntil("run", "running"), WaitUntil("none", "finalized")}

(* Every callback that runs without _mutex_execute.                        *)
CallsOnOneSelf == {"on_start", "on_resume", "in_task", "on_finalize"}
=============================================================================
