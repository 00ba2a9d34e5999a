---------------------------- MODULE Interruptible ----------------------------
(***************************************************************************)
(* What an interruptible process promises (src/cpptools/thread/            *)
(* interruptible.hpp, and the callback comments of worker.hpp): which      *)
(* callback may come after which, and how far the process may still run    *)
(* once it was asked to halt.  There are no locks and no flags here.       *)
(***************************************************************************)
EXTENDS Naturals

VARIABLES
    phase,  \* where the process is
    go,     \* the last of pause and run that was asked, TRUE for run
    quit,   \* finalization was asked
    debt    \* tasks started since the process was asked to halt

ivars == <<phase, go, quit, debt>>

Phase == {"starting", "resting", "resumed", "working", "finalizing",
          "finalized", "failed"}

(* The process owes at most one task.                                      *)
ITypeOK ==
    /\ phase \in Phase /\ go \in BOOLEAN /\ quit \in BOOLEAN /\ debt \in 0..1

IInit == phase = "starting" /\ go \in BOOLEAN /\ quit = FALSE /\ debt = 0

AskFinalize == quit' = TRUE /\ UNCHANGED <<phase, go, debt>>
AskPause    == go' = FALSE /\ UNCHANGED <<phase, quit, debt>>
AskRun      == go' = TRUE /\ debt' = (IF quit THEN debt ELSE 0)
                          /\ UNCHANGED <<phase, quit>>

Move(from, to) == phase \in from /\ phase' = to

Started == Move({"starting"}, "resting") /\ UNCHANGED <<go, quit, debt>>

(* It pauses only when that is what it is asked.                           *)
Pause == Move({"resting", "resumed"}, "resting") /\ ~go /\ ~quit
         /\ UNCHANGED <<go, quit, debt>>

(* It may resume on a run it saw although a later request takes it back,   *)
(* but not when it has started a task since that request.                  *)
Resume == Move({"resting"}, "resumed") /\ debt = 0 /\ UNCHANGED <<go, quit, debt>>

(* Asked to halt, it starts one more task at most.                         *)
StartTask ==
    /\ Move({"resumed"}, "working")
    /\ debt = 0
    /\ debt' = IF quit \/ ~go THEN 1 ELSE 0
    /\ UNCHANGED <<go, quit>>

EndTask == Move({"working"}, "resumed") /\ UNCHANGED <<go, quit, debt>>

(* It stops for good only when asked, from anywhere but inside a task.     *)
BeginFinalize == Move({"resting", "resumed"}, "finalizing") /\ quit
                 /\ UNCHANGED <<go, quit, debt>>

EndFinalize == Move({"finalizing"}, "finalized") /\ UNCHANGED <<go, quit, debt>>

(* A callback throws.                                                      *)
Fail == Move({"starting", "resting", "resumed", "working", "finalizing"}, "failed")
        /\ UNCHANGED <<go, quit, debt>>

INext == \/ AskFinalize \/ AskPause \/ AskRun
         \/ Started \/ Pause \/ Resume \/ StartTask \/ EndTask
         \/ BeginFinalize \/ EndFinalize \/ Fail

ISpec == IInit /\ [][INext]_ivars

=============================================================================
