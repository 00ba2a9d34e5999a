------------------------------- MODULE Worker -------------------------------
(***************************************************************************)
(* tools::worker (src/cpptools/thread/worker.cpp): one thread that runs a  *)
(* task in a loop, and any number of client threads that pause it, resume  *)
(* it, finalize it, ask for its state or wait for a state.                 *)
(*                                                                         *)
(* The class has four mutexes, each with one condition variable: "execute" *)
(* guards the two control flags _execute and _exit, the others each guard  *)
(* the informative flag they are named for.  A critical section of the     *)
(* code is several steps here: acquire, body, release.                     *)
(***************************************************************************)
EXTENDS Naturals, FiniteSets

CONSTANTS Clients,    \* the threads that call the worker's member functions
          W,          \* the worker's own thread
          Nobody,     \* the owner of a free mutex
          Calls,      \* the calls clients may make, see AllCalls
          Reentrant,  \* the callbacks that may call finalize, pause or run
          MayThrow,   \* the callbacks that may throw
          MaxEvents   \* bound on calls made plus spurious wake-ups

Threads == Clients \union {W}

Flags   == {"finalized", "paused", "running"}
Mutexes == Flags \union {"execute"}

Requests  == {"finalize", "pause", "run"}
Callbacks == {"on_start", "on_pause", "on_resume", "in_task", "on_finalize"}

(* A member function is a request (finalize, pause, run), then a look at   *)
(* a flag that blocks or not; either part may be missing.                  *)
CallType == [req : Requests \union {"none"}, flag : Flags \union {"none"},
             wait : BOOLEAN]

Request(r)      == [req |-> r,      flag |-> "none", wait |-> FALSE]
Query(f)        == [req |-> "none", flag |-> f,      wait |-> FALSE]
WaitUntil(r, f) == [req |-> r,      flag |-> f,      wait |-> TRUE]

(* finalize(), finalized(), wait_until_finalized(true), ...(false), etc.   *)
AllCalls ==
    {Request(r) : r \in Requests} \union {Query(f) : f \in Flags}
      \union {WaitUntil("finalize", "finalized"), WaitUntil("none", "finalized"),
              WaitUntil("pause", "paused"),       WaitUntil("none", "paused"),
              WaitUntil("run", "running"),        WaitUntil("none", "running")}

ASSUME WorkerAssumption ==
    /\ W \notin Clients
    /\ Nobody \notin Threads
    /\ Calls \subseteq AllCalls
    /\ Reentrant \subseteq Callbacks
    /\ MayThrow \subseteq Callbacks
    /\ MaxEvents \in Nat

VARIABLES
    exit,        \* _exit
    execute,     \* _execute
    flag,        \* flag[f]: _finalized, _paused, _running
    owner,       \* owner[m]: the thread that holds mutex m
    sleeping,    \* sleeping[m]: the threads blocked in m's condition variable
    wpc,         \* where the worker's thread is in _work
    stop,        \* its local stop_execution
    wasRunning,  \* its local was_running_before
    cpc,         \* cpc[t]: where thread t is in the member function it calls
    call,        \* call[t]: that call
    life,        \* the worker object: alive, dying, destroyed, terminated
    events,      \* calls made and spurious wake-ups so far
    overrun      \* history: tasks started since the worker was told to halt

control == <<exit, execute, overrun>>
worker  == <<wpc, stop, wasRunning>>
client  == <<cpc, call, events>>
vars    == <<exit, execute, flag, owner, sleeping, wpc, stop, wasRunning,
             cpc, call, life, events, overrun>>

WorkerPC == Callbacks \union
    {"lock", "decide", "unlock", "pause_lock", "pause_set", "run_lock",
     "run_reset", "wait", "asleep", "woken", "unpause_lock", "unpause_set",
     "branch", "resume_lock", "resume_set", "call_task", "fin_lock",
     "fin_set", "done", "thrown"}

ClientPC == {"idle", "request", "write", "leave", "observe", "check",
             "asleep", "join"}

Halted == exit \/ ~execute

(* Flags, mutexes, condition variables and program counters stay in their  *)
(* ranges; a thread is always at a point of a member function or of _work. *)
TypeOK ==
    /\ exit \in BOOLEAN /\ execute \in BOOLEAN
    /\ flag \in [Flags -> BOOLEAN]
    /\ owner \in [Mutexes -> Threads \union {Nobody}]
    /\ sleeping \in [Mutexes -> SUBSET Threads]
    /\ wpc \in WorkerPC /\ stop \in BOOLEAN /\ wasRunning \in BOOLEAN
    /\ cpc \in [Threads -> ClientPC]
    /\ call \in [Threads -> CallType]
    /\ life \in {"alive", "dying", "destroyed", "terminated"}
    /\ events \in 0..MaxEvents
    /\ overrun \in Nat

(* Mutant of Init: a constructor that leaves the informative flags unset.  *)
InitLeavingFlagsUnset ==
    /\ exit = FALSE /\ execute \in BOOLEAN
    /\ flag = [f \in Flags |-> Nobody]
    /\ owner = [m \in Mutexes |-> Nobody]
    /\ sleeping = [m \in Mutexes |-> {}]
    /\ wpc = "on_start" /\ stop = FALSE /\ wasRunning = FALSE
    /\ cpc = [t \in Threads |-> "idle"]
    /\ call = [t \in Threads |-> Request("none")]
    /\ life = "alive" /\ events = 0 /\ overrun = 0

(* The constructor; start_now gives _execute its first value.              *)
Init ==
    /\ exit = FALSE /\ execute \in BOOLEAN
    /\ flag = [f \in Flags |-> FALSE]
    /\ owner = [m \in Mutexes |-> Nobody]
    /\ sleeping = [m \in Mutexes |-> {}]
    /\ wpc = "on_start" /\ stop = FALSE /\ wasRunning = FALSE
    /\ cpc = [t \in Threads |-> "idle"]
    /\ call = [t \in Threads |-> Request("none")]
    /\ life = "alive" /\ events = 0 /\ overrun = 0

-----------------------------------------------------------------------------
(* std::mutex and std::condition_variable.                                 *)

Acquire(t, m) == owner[m] = Nobody /\ owner' = [owner EXCEPT ![m] = t]
Release(m)    == owner' = [owner EXCEPT ![m] = Nobody]
NotifyAll(m)  == sleeping' = [sleeping EXCEPT ![m] = {}]
NotifyOne(m)  ==
    IF sleeping[m] = {} THEN UNCHANGED sleeping
    ELSE \E t \in sleeping[m] : sleeping' = [sleeping EXCEPT ![m] = @ \ {t}]
Sleep(t, m)   == Release(m) /\ sleeping' = [sleeping EXCEPT ![m] = @ \union {t}]
Wake(t, m)    == t \notin sleeping[m] /\ Acquire(t, m) /\ UNCHANGED sleeping

-----------------------------------------------------------------------------
(* The member functions, as any thread t executes them.                    *)

Goto(t, pc) == cpc' = [cpc EXCEPT ![t] = pc]

(* A client calls a member function.                                       *)
Begin(c, k) ==
    /\ life = "alive" /\ cpc[c] = "idle" /\ events < MaxEvents
    /\ call' = [call EXCEPT ![c] = k]
    /\ Goto(c, IF k.req = "none" THEN "observe" ELSE "request")
    /\ events' = events + 1
    /\ UNCHANGED <<control, flag, owner, sleeping, worker, life>>

(* A callback calls finalize, pause or run on its own worker.              *)
SelfCall(r) ==
    /\ wpc \in Reentrant /\ cpc[W] = "idle" /\ events < MaxEvents
    /\ call' = [call EXCEPT ![W] = Request(r)]
    /\ Goto(W, "request")
    /\ events' = events + 1
    /\ UNCHANGED <<control, flag, owner, sleeping, worker, life>>

AcquireExecute(t) ==
    /\ cpc[t] = "request"
    /\ Acquire(t, "execute")
    /\ Goto(t, "write")
    /\ UNCHANGED <<control, flag, sleeping, worker, call, life, events>>

WriteRequest(t) ==
    /\ cpc[t] = "write"
    /\ \/ /\ call[t].req = "finalize"
          /\ exit' = TRUE
          /\ UNCHANGED <<execute, overrun>>
       \/ /\ call[t].req = "pause"
          /\ execute' = FALSE
          /\ UNCHANGED <<exit, overrun>>
       \/ /\ call[t].req = "run"
          /\ execute' = TRUE
          /\ overrun' = IF exit THEN overrun ELSE 0
          /\ UNCHANGED exit
    /\ Goto(t, "leave")
    /\ UNCHANGED <<flag, owner, sleeping, worker, call, life, events>>

(* Mutant of LeaveRequest: finalize does not notify.                       *)
LeaveRequestSilently(t) ==
    /\ cpc[t] = "leave"
    /\ \/ call[t].req \in {"finalize", "pause"} /\ UNCHANGED sleeping
       \/ call[t].req = "run"      /\ NotifyOne("execute")
    /\ Release("execute")
    /\ Goto(t, IF call[t].flag # "none" THEN "observe"
               ELSE IF life = "dying" /\ t # W THEN "join" ELSE "idle")
    /\ UNCHANGED <<control, flag, worker, call, life, events>>

(* Notify, unlock, and go on to the second part of the call, or to the     *)
(* join of the destructor.                                                 *)
LeaveRequest(t) ==
    /\ cpc[t] = "leave"
    /\ \/ call[t].req = "finalize" /\ NotifyAll("execute")
       \/ call[t].req = "pause"    /\ UNCHANGED sleeping
       \/ call[t].req = "run"      /\ NotifyOne("execute")
    /\ Release("execute")
    /\ Goto(t, IF call[t].flag # "none" THEN "observe"
               ELSE IF life = "dying" /\ t # W THEN "join" ELSE "idle")
    /\ UNCHANGED <<control, flag, worker, call, life, events>>

Observe(t) ==
    /\ cpc[t] = "observe"
    /\ Acquire(t, call[t].flag)
    /\ Goto(t, "check")
    /\ UNCHANGED <<control, flag, sleeping, worker, call, life, events>>

(* A getter returns; a wait returns or goes (back) to sleep.               *)
Return(t) ==
    /\ cpc[t] = "check"
    /\ call[t].wait => flag[call[t].flag]
    /\ Release(call[t].flag)
    /\ Goto(t, "idle")
    /\ UNCHANGED <<control, flag, sleeping, worker, call, life, events>>

Block(t) ==
    /\ cpc[t] = "check"
    /\ call[t].wait /\ ~flag[call[t].flag]
    /\ Sleep(t, call[t].flag)
    /\ Goto(t, "asleep")
    /\ UNCHANGED <<control, flag, worker, call, life, events>>

Unblock(t) ==
    /\ cpc[t] = "asleep"
    /\ Wake(t, call[t].flag)
    /\ Goto(t, "check")
    /\ UNCHANGED <<control, flag, worker, call, life, events>>

(* A condition variable may wake a thread that nobody notified.            *)
SpuriousWakeUp(t, m) ==
    /\ t \in sleeping[m] /\ events < MaxEvents
    /\ sleeping' = [sleeping EXCEPT ![m] = @ \ {t}]
    /\ events' = events + 1
    /\ UNCHANGED <<control, flag, owner, worker, cpc, call, life>>

(* Mutants of Destroy and Join: a destructor that waits for a thread it    *)
(* did not tell to end, and one that does not wait.                        *)
DestroyWithoutFinalize(c) ==
    /\ life = "alive" /\ \A d \in Clients : cpc[d] = "idle"
    /\ life' = "dying"
    /\ call' = [call EXCEPT ![c] = Request("finalize")]
    /\ Goto(c, "join")
    /\ UNCHANGED <<control, flag, owner, sleeping, worker, events>>

JoinWithoutWaiting(c) ==
    /\ cpc[c] = "join"
    /\ life' = "destroyed"
    /\ Goto(c, "idle")
    /\ UNCHANGED <<control, flag, owner, sleeping, worker, call, events>>

(* ~worker, once no client is inside a member function: finalize unless    *)
(* that was done, then wait for the thread.  The future's get rethrows     *)
(* what a callback threw, out of a noexcept destructor.                    *)
Destroy(c) ==
    /\ life = "alive" /\ \A d \in Clients : cpc[d] = "idle"
    /\ life' = "dying"
    /\ call' = [call EXCEPT ![c] = Request("finalize")]
    /\ Goto(c, IF exit THEN "join" ELSE "request")
    /\ UNCHANGED <<control, flag, owner, sleeping, worker, events>>

Join(c) ==
    /\ cpc[c] = "join"
    /\ \/ wpc = "done"   /\ life' = "destroyed"
       \/ wpc = "thrown" /\ life' = "terminated"
    /\ Goto(c, "idle")
    /\ UNCHANGED <<control, flag, owner, sleeping, worker, call, events>>

-----------------------------------------------------------------------------
(* worker::_work, the body of the worker's thread.                         *)

At(pc, next) == wpc = pc /\ wpc' = next

Lock(pc, m, next) ==
    /\ At(pc, next)
    /\ Acquire(W, m)
    /\ UNCHANGED <<control, flag, sleeping, stop, wasRunning, client, life>>

(* A callback returns, once the call it makes itself, if any, has.         *)
CallbackReturns(pc, next) == At(pc, next) /\ cpc[W] = "idle"

OnStart ==
    /\ CallbackReturns("on_start", "lock")
    /\ UNCHANGED <<control, flag, owner, sleeping, stop, wasRunning, client, life>>

LockExecute == Lock("lock", "execute", "decide")

(* if (!_exit && !_execute) ... else if (_exit) ... else ...               *)
DecideToPause ==
    /\ At("decide", "pause_lock")
    /\ ~exit /\ ~execute
    /\ UNCHANGED <<control, flag, owner, sleeping, stop, wasRunning, client, life>>

(* Mutant of DecideToGoOn: the branch of a running worker forgets _exit.   *)
DecideWithoutExit ==
    /\ At("decide", "unlock")
    /\ exit \/ execute
    /\ UNCHANGED <<control, flag, owner, sleeping, stop, wasRunning, client, life>>

DecideToGoOn ==
    /\ At("decide", "unlock")
    /\ exit \/ execute
    /\ stop' = (stop \/ exit)
    /\ UNCHANGED <<control, flag, owner, sleeping, wasRunning, client, life>>

UnlockExecute ==
    /\ At("unlock", "branch")
    /\ Release("execute")
    /\ UNCHANGED <<control, flag, sleeping, stop, wasRunning, client, life>>

LockPause == Lock("pause_lock", "paused", "pause_set")

SetPaused ==
    /\ At("pause_set", "run_lock")
    /\ flag' = [flag EXCEPT !["paused"] = TRUE]
    /\ NotifyAll("paused")
    /\ Release("paused")
    /\ UNCHANGED <<control, stop, wasRunning, client, life>>

LockRunReset == Lock("run_lock", "running", "run_reset")

(* Mutant of ResetRunning: _running is left as it was.                     *)
KeepRunning ==
    /\ At("run_reset", "on_pause")
    /\ Release("running")
    /\ UNCHANGED <<control, flag, sleeping, stop, wasRunning, client, life>>

ResetRunning ==
    /\ At("run_reset", "on_pause")
    /\ flag' = [flag EXCEPT !["running"] = FALSE]
    /\ Release("running")
    /\ UNCHANGED <<control, sleeping, stop, wasRunning, client, life>>

OnPause ==
    /\ CallbackReturns("on_pause", "wait")
    /\ UNCHANGED <<control, flag, owner, sleeping, stop, wasRunning, client, life>>

(* Mutant of FallAsleep: sleeping with the mutex locked.                   *)
FallAsleepWithTheLock ==
    /\ At("wait", "asleep")
    /\ ~execute /\ ~exit
    /\ sleeping' = [sleeping EXCEPT !["execute"] = @ \union {W}]
    /\ UNCHANGED <<control, flag, owner, stop, wasRunning, client, life>>

FallAsleep ==
    /\ At("wait", "asleep")
    /\ ~execute /\ ~exit
    /\ Sleep(W, "execute")
    /\ UNCHANGED <<control, flag, stop, wasRunning, client, life>>

WakeUp ==
    /\ At("asleep", "wait")
    /\ Wake(W, "execute")
    /\ UNCHANGED <<control, flag, stop, wasRunning, client, life>>

EndWait ==
    /\ At("wait", "woken")
    /\ execute \/ exit
    /\ UNCHANGED <<control, flag, owner, sleeping, stop, wasRunning, client, life>>

(* Mutant of ReadExit: the lock is kept until the end of the block.        *)
ReadExitWithoutUnlock ==
    /\ At("woken", "unpause_lock")
    /\ stop' = exit
    /\ UNCHANGED <<control, flag, owner, sleeping, wasRunning, client, life>>

ReadExit ==
    /\ At("woken", "unpause_lock")
    /\ stop' = exit
    /\ Release("execute")
    /\ UNCHANGED <<control, flag, sleeping, wasRunning, client, life>>

LockUnpause == Lock("unpause_lock", "paused", "unpause_set")

ResetPaused ==
    /\ At("unpause_set", "branch")
    /\ flag' = [flag EXCEPT !["paused"] = FALSE]
    /\ Release("paused")
    /\ wasRunning' = FALSE
    /\ UNCHANGED <<control, sleeping, stop, client, life>>

(* Mutant of Branch: the tests in the opposite order.                      *)
BranchOnRunningFirst ==
    /\ At("branch", IF wasRunning THEN "call_task"
                    ELSE IF stop THEN "on_finalize" ELSE "resume_lock")
    /\ UNCHANGED <<control, flag, owner, sleeping, stop, wasRunning, client, life>>

(* if (stop_execution) ... else if (!was_running_before) ...               *)
Branch ==
    /\ At("branch", IF stop THEN "on_finalize"
                    ELSE IF wasRunning THEN "call_task" ELSE "resume_lock")
    /\ UNCHANGED <<control, flag, owner, sleeping, stop, wasRunning, client, life>>

LockResume == Lock("resume_lock", "running", "resume_set")

(* Mutant of SetRunning: notify_one where several may wait.                *)
SetRunningNotifyingOne ==
    /\ At("resume_set", "on_resume")
    /\ flag' = [flag EXCEPT !["running"] = TRUE]
    /\ NotifyOne("running")
    /\ UNCHANGED <<control, owner, stop, wasRunning, client, life>>

SetRunning ==
    /\ At("resume_set", "on_resume")
    /\ flag' = [flag EXCEPT !["running"] = TRUE]
    /\ NotifyAll("running")
    /\ UNCHANGED <<control, owner, stop, wasRunning, client, life>>

(* _mutex_run is held while _on_resume runs.                               *)
OnResume ==
    /\ CallbackReturns("on_resume", "call_task")
    /\ wasRunning' = TRUE
    /\ Release("running")
    /\ UNCHANGED <<control, flag, sleeping, stop, client, life>>

StartTask ==
    /\ At("call_task", "in_task")
    /\ overrun' = IF Halted THEN overrun + 1 ELSE 0
    /\ UNCHANGED <<exit, execute, flag, owner, sleeping, stop, wasRunning,
                   client, life>>

EndTask ==
    /\ CallbackReturns("in_task", "lock")
    /\ UNCHANGED <<control, flag, owner, sleeping, stop, wasRunning, client, life>>

OnFinalize ==
    /\ CallbackReturns("on_finalize", "fin_lock")
    /\ UNCHANGED <<control, flag, owner, sleeping, stop, wasRunning, client, life>>

LockFinalized == Lock("fin_lock", "finalized", "fin_set")

SetFinalized ==
    /\ At("fin_set", "done")
    /\ flag' = [flag EXCEPT !["finalized"] = TRUE]
    /\ NotifyAll("finalized")
    /\ Release("finalized")
    /\ UNCHANGED <<control, stop, wasRunning, client, life>>

(* An exception leaves _work: every lock the thread holds is released and  *)
(* the future keeps the exception.                                         *)
Throw ==
    /\ wpc \in MayThrow /\ cpc[W] = "idle"
    /\ wpc' = "thrown"
    /\ owner' = [m \in Mutexes |-> IF owner[m] = W THEN Nobody ELSE owner[m]]
    /\ UNCHANGED <<control, flag, sleeping, stop, wasRunning, client, life>>

-----------------------------------------------------------------------------
(* The steps of a call once it is made.                                    *)
CallStep(t) ==
    \/ AcquireExecute(t) \/ WriteRequest(t) \/ LeaveRequest(t)
    \/ Observe(t) \/ Return(t) \/ Block(t) \/ Unblock(t)

Work ==
    \/ OnStart \/ LockExecute \/ DecideToPause \/ DecideToGoOn \/ UnlockExecute
    \/ LockPause \/ SetPaused \/ LockRunReset \/ ResetRunning \/ OnPause
    \/ FallAsleep \/ WakeUp \/ EndWait \/ ReadExit \/ LockUnpause \/ ResetPaused
    \/ Branch \/ LockResume \/ SetRunning \/ OnResume \/ StartTask \/ EndTask
    \/ OnFinalize \/ LockFinalized \/ SetFinalized

(* The object is gone, or std::terminate was called: nothing is left to do.*)
Gone == life \in {"destroyed", "terminated"} /\ UNCHANGED vars

Next ==
    \/ \E c \in Clients : \/ \E k \in Calls : Begin(c, k)
                          \/ Destroy(c)
                          \/ Join(c)
    \/ \E r \in Requests : SelfCall(r)
    \/ \E t \in Threads : CallStep(t) \/ \E m \in Mutexes : SpuriousWakeUp(t, m)
    \/ Work
    \/ Throw
    \/ Gone

Spec == Init /\ [][Next]_vars

(* Threads are scheduled, tasks and callbacks return; calls and spurious   *)
(* wake-ups are finite in number.  Nothing is assumed of who gets a mutex. *)
Fairness ==
    /\ WF_vars(Work)
    /\ \A t \in Threads : WF_vars(CallStep(t))
    /\ \A c \in Clients : WF_vars(Join(c))

FairSpec == Spec /\ Fairness

(* A thread that keeps trying to lock _mutex_execute, which the worker's   *)
(* loop keeps locking too, gets it some day.  std::mutex does not promise  *)
(* it: the properties that need it say so.                                 *)
NobodyStarves == \A t \in Threads : SF_vars(AcquireExecute(t))

-----------------------------------------------------------------------------
(* Where a thread is inside the critical section of a mutex.               *)
WorkerHolds(m) ==
    \/ m = "execute"   /\ wpc \in {"decide", "unlock", "pause_lock", "pause_set",
                                  "run_lock", "run_reset", "on_pause", "wait", "woken"}
    \/ m = "paused"    /\ wpc \in {"pause_set", "unpause_set"}
    \/ m = "running"   /\ wpc \in {"run_reset", "resume_set", "on_resume"}
    \/ m = "finalized" /\ wpc = "fin_set"

CallHolds(t, m) ==
    \/ m = "execute" /\ cpc[t] \in {"write", "leave"}
    \/ m = call[t].flag /\ cpc[t] = "check"

(* A mutex is owned exactly by the thread that is in its critical section: *)
(* no path of _work or of a member function, not even one an exception     *)
(* takes, leaves a mutex locked behind it or works unlocked.               *)
LockDiscipline ==
    \A m \in Mutexes : \A t \in Threads :
        owner[m] = t <=> CallHolds(t, m) \/ (t = W /\ WorkerHolds(m))

(* After pause() or finalize() the worker starts at most one more task     *)
(* until a run(), whatever the requests it raced with (worker.cpp:116-169: *)
(* the decision is taken under _mutex_execute, the task runs without it).  *)
AtMostOneOverrun == overrun <= 1

(* The informative flags, which four places of _work write one after the   *)
(* other, agree with what the worker does whenever it is inside a callback *)
(* or asleep.                                                              *)
FlagsTellTheState ==
    /\ wpc \in {"on_pause", "wait", "asleep"} => flag["paused"] /\ ~flag["running"]
    /\ wpc \in {"on_resume", "call_task", "in_task"}
           => flag["running"] /\ ~flag["paused"]
    /\ wpc \in {"on_finalize", "done"} => exit /\ ~flag["paused"]
    /\ flag["finalized"] <=> wpc = "done"

(* Nobody sleeps on a condition that holds: a thread asleep in a condition *)
(* variable finds its predicate false, or the thread that made it true     *)
(* still holds the mutex and is about to notify.                           *)
NoLostWakeUp ==
    /\ \A f \in Flags : flag[f] => sleeping[f] = {}
    /\ W \in sleeping["execute"] /\ (execute \/ exit) =>
           \E t \in Threads : cpc[t] = "leave" /\ call[t].req \in {"run", "finalize"}

(* When the destructor returns, the members it destroys are at rest: no    *)
(* mutex is locked, nobody is blocked in a condition variable, the thread  *)
(* has returned from _work and said so.                                    *)
DestroyedAtRest ==
    life = "destroyed" =>
        /\ \A m \in Mutexes : owner[m] = Nobody /\ sleeping[m] = {}
        /\ \A t \in Threads : cpc[t] = "idle"
        /\ flag["finalized"] /\ wpc = "done"

(* What makes the above inductive: when the worker's thread calls its own  *)
(* member functions, ...                                                   *)
SelfCalls ==
    /\ cpc[W] \in {"idle", "request", "write", "leave"}
    /\ cpc[W] # "idle" => wpc \in Callbacks /\ call[W].flag = "none"
    /\ cpc[W] \in {"write", "leave"} => wpc # "on_pause"

(* ... what it knows of the requests and of its debt of tasks, ...         *)
Decisions ==
    /\ wpc \in {"pause_lock", "pause_set", "run_lock", "run_reset", "on_pause"}
          => ~exit /\ ~execute
    /\ wpc = "woken" => execute \/ exit
    /\ stop => exit
    /\ wpc \in {"on_finalize", "fin_lock", "fin_set", "done"} => exit
    /\ wpc = "on_start" => ~wasRunning
    /\ wpc \in {"call_task", "in_task"} => wasRunning

Debt ==
    /\ overrun \in {0, 1}
    /\ ~Halted => overrun = 0
    /\ wpc \in {"unlock", "unpause_lock", "unpause_set", "branch"} => stop \/ overrun = 0
    /\ wpc \in {"resume_lock", "resume_set", "on_resume", "call_task"} => overrun = 0

(* ... and what the flags are between the places that write them.          *)
FlagWindows ==
    /\ wpc # "thrown" =>
         (flag["paused"] <=> wpc \in {"run_lock", "run_reset", "on_pause", "wait",
                                      "asleep", "woken", "unpause_lock", "unpause_set"})
    /\ wpc \in {"on_pause", "wait", "asleep", "woken", "unpause_lock", "unpause_set"}
          => ~flag["running"]
    /\ wpc \in {"on_start", "lock", "decide", "unlock", "branch"}
          => (flag["running"] <=> wasRunning)
    /\ wpc \in {"on_resume", "call_task", "in_task"} => flag["running"]
    /\ flag["finalized"] <=> wpc = "done"

(* What the worker implements.                                             *)
PhaseOf ==
    CASE wpc = "on_start" -> "starting"
      [] wpc = "in_task"  -> "working"
      [] wpc \in {"on_finalize", "fin_lock", "fin_set"} -> "finalizing"
      [] wpc = "done"     -> "finalized"
      [] wpc = "thrown"   -> "failed"
      [] wpc \in {"wait", "asleep", "woken", "unpause_lock", "unpause_set",
                  "resume_lock", "resume_set", "on_resume"} -> "resting"
      [] OTHER            -> IF wasRunning THEN "resumed" ELSE "resting"

Abstract == INSTANCE Interruptible
            WITH phase <- PhaseOf, go <- execute, quit <- exit, debt <- overrun

(* The worker, with all its locks and flags, is an interruptible process:  *)
(* its callbacks come in the order Interruptible allows and it starts one  *)
(* task at most after it was asked to halt.                                *)
ImplementsInterruptible == Abstract!ISpec

-----------------------------------------------------------------------------
Waits(c, f) == cpc[c] \in {"observe", "check", "asleep"}
               /\ call[c].wait /\ call[c].flag = f

(* finalize() is never lost: whatever the worker is doing, and asleep too, *)
(* it ends (or a callback threw).                                          *)
FinalizeIsHonoured == exit ~> wpc \in {"done", "thrown"}

(* wait_until_finalized returns once finalization is asked by anyone.      *)
FinalizedWaitersReturn ==
    \A c \in Clients :
        Waits(c, "finalized") /\ exit ~> ~Waits(c, "finalized") \/ wpc = "thrown"

(* wait_until_paused returns, unless someone takes the pause back.         *)
PauseWaitersReturn ==
    \A c \in Clients :
        Waits(c, "paused") /\ ~execute
            ~> ~Waits(c, "paused") \/ execute \/ exit \/ wpc = "thrown"

(* wait_until_running returns, unless someone pauses or finalizes.         *)
RunWaitersReturn ==
    \A c \in Clients :
        Waits(c, "running") /\ execute
            ~> ~Waits(c, "running") \/ ~execute \/ exit \/ wpc = "thrown"

(* interruptible.hpp:27-36: whoever waits for the worker to be finalized,  *)
(* paused or running is let go once that was asked for by anyone, although *)
(* the flag may be set, and set back, before the waiter looks at it.       *)
WaitersReturn == FinalizedWaitersReturn /\ PauseWaitersReturn /\ RunWaitersReturn

(* Where nobody starves, finalize(), pause() and run() return although the *)
(* worker's loop locks the same mutex again and again, from a callback too *)
(* and whatever another one throws while it holds a lock.                  *)
RequestsReturn ==
    NobodyStarves =>
        \A t \in Threads :
            cpc[t] = "request" ~> cpc[t] \notin {"request", "write", "leave"}

(* Where nobody starves, the destructor returns (or std::terminate is      *)
(* called), in whatever state it found the worker, a failed one included.  *)
DestructionEnds ==
    NobodyStarves => (life = "dying" ~> life \in {"destroyed", "terminated"})

=============================================================================
