---------------------------- MODULE WorkerProofs ----------------------------
(***************************************************************************)
(* Theorems about Worker, for any number of clients and any bound.         *)
(***************************************************************************)
EXTENDS Worker, TLAPS

USE DEF Threads, Flags, Mutexes

(* Every call of the class's interface is a call.                          *)
LEMMA CallsAreTyped ==
    /\ \A k \in Calls : k \in CallType
    /\ \A r \in Requests \union {"none"} : Request(r) \in CallType
<1>1. \A r \in Requests \union {"none"} : Request(r) \in CallType
  BY DEF CallType, Request
<1>2. \A f \in Flags : Query(f) \in CallType
  BY DEF CallType, Query
<1>3. \A r \in Requests \union {"none"}, f \in Flags : WaitUntil(r, f) \in CallType
  BY DEF CallType, WaitUntil
<1>4. \A k \in AllCalls : k \in CallType
  BY <1>1, <1>2, <1>3 DEF AllCalls, Requests
<1> QED BY <1>1, <1>4, WorkerAssumption

(* Every step of a member function or of _work keeps the variables in      *)
(* their ranges.                                                           *)
THEOREM TypeCorrect == Spec => []TypeOK
<1>1. Init => TypeOK
  <2> SUFFICES ASSUME Init PROVE TypeOK
    OBVIOUS
  <2>1. events \in 0..MaxEvents /\ overrun \in Nat
    BY WorkerAssumption DEF Init
  <2>2. call \in [Threads -> CallType]
    BY CallsAreTyped DEF Init
  <2>3. /\ exit \in BOOLEAN /\ execute \in BOOLEAN
        /\ stop \in BOOLEAN /\ wasRunning \in BOOLEAN
        /\ flag \in [Flags -> BOOLEAN]
    BY Zenon DEF Init
  <2>4. /\ wpc \in WorkerPC /\ cpc \in [Threads -> ClientPC]
        /\ owner \in [Mutexes -> Threads \union {Nobody}]
        /\ sleeping \in [Mutexes -> SUBSET Threads]
        /\ life \in {"alive", "dying", "destroyed", "terminated"}
    BY DEF Init, WorkerPC, ClientPC, Callbacks
  <2> QED BY <2>1, <2>2, <2>3, <2>4 DEF TypeOK
<1>2. TypeOK /\ [Next]_vars => TypeOK'
  <2> SUFFICES ASSUME TypeOK, [Next]_vars PROVE TypeOK'
    OBVIOUS
  <2> USE DEF TypeOK, control, client, worker, Goto, Acquire, Release
  <2>1. ASSUME NEW c \in Clients, NEW k \in Calls, Begin(c, k) PROVE TypeOK'
    <3>1. k \in CallType
      BY CallsAreTyped, WorkerAssumption
    <3> QED BY <2>1, <3>1, WorkerAssumption DEF Begin, ClientPC
  <2>2. ASSUME NEW c \in Clients, Destroy(c) PROVE TypeOK'
    BY <2>2, CallsAreTyped DEF Destroy, ClientPC, Requests
  <2>3. ASSUME NEW c \in Clients, Join(c) PROVE TypeOK'
    BY <2>3 DEF Join, ClientPC
  <2>4. ASSUME NEW r \in Requests, SelfCall(r) PROVE TypeOK'
    BY <2>4, CallsAreTyped, WorkerAssumption DEF SelfCall, ClientPC
  <2>5. ASSUME NEW t \in Threads, CallStep(t) PROVE TypeOK'
    <3>1. CASE AcquireExecute(t)
      BY <3>1 DEF AcquireExecute, ClientPC
    <3>2. CASE WriteRequest(t)
      <4>1. exit' \in BOOLEAN /\ execute' \in BOOLEAN
        BY <3>2, Zenon DEF WriteRequest
      <4>2. overrun' \in Nat
        <5>1. overrun' \in {overrun, 0}
          BY <3>2, Zenon DEF WriteRequest
        <5> QED BY <5>1
      <4>3. /\ cpc' = [cpc EXCEPT ![t] = "leave"]
            /\ UNCHANGED <<flag, owner, sleeping, wpc, stop, wasRunning, call, life, events>>
        BY <3>2 DEF WriteRequest
      <4> QED BY <4>1, <4>2, <4>3 DEF ClientPC
    <3>3. CASE LeaveRequest(t)
      BY <3>3 DEF LeaveRequest, ClientPC, NotifyAll, NotifyOne
    <3>4. CASE Observe(t)
      BY <3>4 DEF Observe, ClientPC
    <3>5. CASE Return(t)
      BY <3>5 DEF Return, ClientPC
    <3>6. CASE Block(t)
      BY <3>6 DEF Block, ClientPC, Sleep
    <3>7. CASE Unblock(t)
      BY <3>7 DEF Unblock, ClientPC, Wake
    <3> QED BY <2>5, <3>1, <3>2, <3>3, <3>4, <3>5, <3>6, <3>7 DEF CallStep
  <2>6. ASSUME NEW t \in Threads, NEW m \in Mutexes, SpuriousWakeUp(t, m) PROVE TypeOK'
    BY <2>6, WorkerAssumption DEF SpuriousWakeUp
  <2>7. CASE Work
    <3> USE DEF At, WorkerPC, CallbackReturns
    <3>1. CASE OnStart \/ DecideToPause \/ DecideToGoOn \/ UnlockExecute \/ OnPause
      <4>1. CASE OnStart \/ OnPause
        BY <4>1 DEF OnStart, OnPause, Callbacks
      <4>2. CASE DecideToPause \/ DecideToGoOn \/ UnlockExecute
        BY <4>2 DEF DecideToPause, DecideToGoOn, UnlockExecute
      <4> QED BY <3>1, <4>1, <4>2
    <3>2. CASE LockExecute \/ LockPause \/ LockRunReset \/ LockUnpause \/ LockResume
                 \/ LockFinalized
      <4>1. /\ {"decide", "pause_set", "run_reset", "unpause_set", "resume_set", "fin_set"}
                 \subseteq WorkerPC
            /\ {"execute", "paused", "running", "finalized"} \subseteq Mutexes
        BY DEF Mutexes, Flags
      <4> HIDE DEF WorkerPC
      <4>2. ASSUME NEW pc, NEW m \in Mutexes, NEW next \in WorkerPC, Lock(pc, m, next)
            PROVE  TypeOK'
        BY <4>2 DEF Lock
      <4> HIDE DEF TypeOK
      <4> QED BY <3>2, <4>1, <4>2 DEF LockExecute, LockPause, LockRunReset, LockUnpause,
                                      LockResume, LockFinalized
    <3>3. CASE SetPaused \/ SetRunning \/ SetFinalized
      <4>1. CASE SetPaused
        BY <4>1 DEF SetPaused, NotifyAll, Callbacks
      <4>2. CASE SetRunning
        BY <4>2 DEF SetRunning, NotifyAll, Callbacks
      <4>3. CASE SetFinalized
        BY <4>3 DEF SetFinalized, NotifyAll, Callbacks
      <4> QED BY <3>3, <4>1, <4>2, <4>3
    <3>6. CASE ResetRunning \/ ResetPaused
      BY <3>6 DEF ResetRunning, ResetPaused, Callbacks
    <3>4. CASE FallAsleep \/ WakeUp \/ EndWait \/ ReadExit
      BY <3>4 DEF FallAsleep, WakeUp, EndWait, ReadExit, Sleep, Wake
    <3>5. CASE Branch \/ EndTask \/ OnFinalize
      BY <3>5 DEF Branch, EndTask, OnFinalize, Callbacks
    <3>7. CASE OnResume
      BY <3>7 DEF OnResume
    <3>8. CASE StartTask
      <4>1. overrun' \in Nat
        <5>1. overrun' \in {overrun + 1, 0}
          BY <3>8, Zenon DEF StartTask
        <5> QED BY <5>1
      <4> QED BY <3>8, <4>1 DEF StartTask, Callbacks
    <3> QED BY <2>7, <3>1, <3>2, <3>3, <3>4, <3>5, <3>6, <3>7, <3>8 DEF Work
  <2>8. CASE Throw
    BY <2>8 DEF Throw, WorkerPC
  <2>9. CASE Gone \/ UNCHANGED vars
    BY <2>9 DEF Gone, vars
  <2> QED BY <2>1, <2>2, <2>3, <2>4, <2>5, <2>6, <2>7, <2>8, <2>9 DEF Next
<1> QED BY <1>1, <1>2, PTL DEF Spec

-----------------------------------------------------------------------------
(* Every mutex is owned exactly by the thread inside its critical section  *)
(* (worker.cpp: each unique_lock's scope, the wait that gives it up, the   *)
(* unwinding of an exception).                                             *)

LockInv == SelfCalls /\ LockDiscipline

(* Every step keeps the mutexes owned by the threads inside their critical *)
(* sections.                                                               *)
LEMMA LockStep == TypeOK /\ LockInv /\ [Next]_vars => LockInv'
<1> SUFFICES ASSUME TypeOK, LockInv, [Next]_vars PROVE LockInv'
  OBVIOUS
<1> USE WorkerAssumption
    DEF TypeOK, LockInv, SelfCalls, LockDiscipline, WorkerHolds, CallHolds,
        control, client, worker, Goto, Acquire, Release, Callbacks
<1>1. ASSUME NEW c \in Clients, NEW k \in Calls, Begin(c, k) PROVE LockInv'
  BY <1>1 DEF Begin
<1>2. ASSUME NEW c \in Clients, Destroy(c) PROVE LockInv'
  BY <1>2 DEF Destroy
<1>3. ASSUME NEW c \in Clients, Join(c) PROVE LockInv'
  BY <1>3 DEF Join
<1>4. ASSUME NEW r \in Requests, SelfCall(r) PROVE LockInv'
  BY <1>4 DEF SelfCall, Request
<1>5. ASSUME NEW t \in Threads, CallStep(t) PROVE LockInv'
  <2>1. CASE AcquireExecute(t)
    BY <2>1 DEF AcquireExecute
  <2>2. CASE WriteRequest(t)
    BY <2>2 DEF WriteRequest
  <2>3. CASE LeaveRequest(t)
    BY <2>3 DEF LeaveRequest
  <2>4. CASE Observe(t)
    BY <2>4 DEF Observe, CallType
  <2>5. CASE Return(t)
    BY <2>5 DEF Return
  <2>6. CASE Block(t)
    BY <2>6 DEF Block, Sleep
  <2>7. CASE Unblock(t)
    BY <2>7 DEF Unblock, Wake
  <2> QED BY <1>5, <2>1, <2>2, <2>3, <2>4, <2>5, <2>6, <2>7 DEF CallStep
<1>6. ASSUME NEW t \in Threads, NEW m \in Mutexes, SpuriousWakeUp(t, m) PROVE LockInv'
  BY <1>6 DEF SpuriousWakeUp
<1>7. CASE Work
  <2> USE DEF At, CallbackReturns
  <2>1. CASE OnStart \/ DecideToPause \/ DecideToGoOn \/ OnPause \/ EndWait
             \/ StartTask \/ EndTask \/ OnFinalize
    BY <2>1 DEF OnStart, DecideToPause, DecideToGoOn, OnPause, EndWait, StartTask,
                EndTask, OnFinalize
  <2>2. CASE LockExecute \/ LockPause \/ LockRunReset
    BY <2>2 DEF LockExecute, LockPause, LockRunReset, Lock
  <2>3. CASE LockUnpause \/ LockResume \/ LockFinalized
    BY <2>3 DEF LockUnpause, LockResume, LockFinalized, Lock
  <2>4. CASE SetPaused \/ ResetRunning
    BY <2>4 DEF SetPaused, ResetRunning
  <2>5. CASE UnlockExecute \/ ReadExit
    BY <2>5 DEF UnlockExecute, ReadExit
  <2>6. CASE ResetPaused \/ SetFinalized
    BY <2>6 DEF ResetPaused, SetFinalized
  <2>7. CASE SetRunning \/ OnResume
    BY <2>7 DEF SetRunning, OnResume
  <2>8. CASE FallAsleep \/ WakeUp
    BY <2>8 DEF FallAsleep, WakeUp, Sleep, Wake
  <2>9. CASE Branch
    BY <2>9 DEF Branch
  <2> QED BY <1>7, <2>1, <2>2, <2>3, <2>4, <2>5, <2>6, <2>7, <2>8, <2>9 DEF Work
<1>8. CASE Throw
  BY <1>8 DEF Throw
<1>9. CASE Gone \/ UNCHANGED vars
  BY <1>9 DEF Gone, vars
<1> QED BY <1>1, <1>2, <1>3, <1>4, <1>5, <1>6, <1>7, <1>8, <1>9 DEF Next

(* The mutual exclusion of the class holds in every execution.             *)
THEOREM LocksAreDisciplined == Spec => []LockDiscipline
<1>1. Init => LockInv
  BY WorkerAssumption DEF Init, LockInv, SelfCalls, LockDiscipline, WorkerHolds, CallHolds
<1> QED BY <1>1, LockStep, TypeCorrect, PTL DEF Spec, LockInv

-----------------------------------------------------------------------------
(* While it holds _mutex_execute the worker's thread is the only one that  *)
(* could write the control flags, and it does not.                         *)
LEMMA WorkerIsAlone ==
    ASSUME TypeOK, LockInv, NEW t \in Threads, cpc[t] \in {"write", "leave"}
    PROVE  ~WorkerHolds("execute") /\ \A u \in Threads \ {t} : cpc[u] \notin {"write", "leave"}
<1>1. owner["execute"] = t
  BY DEF LockInv, LockDiscipline, CallHolds
<1>2. \A u \in Threads \ {t} : cpc[u] \notin {"write", "leave"}
  BY <1>1 DEF LockInv, LockDiscipline, CallHolds
<1>3. CASE t # W
  BY <1>1, <1>2, <1>3 DEF LockInv, LockDiscipline
<1>4. CASE t = W
  BY <1>2, <1>4 DEF LockInv, SelfCalls, WorkerHolds, Callbacks
<1> QED BY <1>2, <1>3, <1>4

(* What the worker's thread decides under the lock stays true until it     *)
(* unlocks.                                                                *)
LEMMA DecisionsStep == TypeOK /\ LockInv /\ Decisions /\ [Next]_vars => Decisions'
<1> SUFFICES ASSUME TypeOK, LockInv, Decisions, [Next]_vars PROVE Decisions'
  OBVIOUS
<1> USE DEF Decisions, control, client, worker
<1>1. ASSUME UNCHANGED <<exit, execute, wpc, stop, wasRunning>> PROVE Decisions'
  BY <1>1
<1>2. ASSUME NEW t \in Threads, WriteRequest(t) PROVE Decisions'
  <2>1. wpc \notin {"pause_lock", "pause_set", "run_lock", "run_reset", "on_pause", "woken"}
    BY <1>2, WorkerIsAlone DEF WriteRequest, WorkerHolds
  <2>2. UNCHANGED <<wpc, stop, wasRunning>> /\ (exit => exit')
    BY <1>2 DEF WriteRequest
  <2> QED BY <2>1, <2>2, Zenon
<1>3. ASSUME NEW t \in Threads, CallStep(t) PROVE Decisions'
  <2>1. CASE WriteRequest(t)
    BY <1>2, <2>1
  <2>2. CASE ~WriteRequest(t)
    <3>1. UNCHANGED <<exit, execute, wpc, stop, wasRunning>>
      BY <1>3, <2>2 DEF CallStep, AcquireExecute, LeaveRequest, Observe, Return, Block, Unblock
    <3> QED BY <1>1, <3>1
  <2> QED BY <2>1, <2>2
<1>4. CASE Work
  <2> USE DEF At, CallbackReturns
  <2>1. CASE OnStart \/ OnPause \/ EndTask \/ OnFinalize
    BY <2>1 DEF OnStart, OnPause, EndTask, OnFinalize
  <2>2. CASE DecideToPause \/ EndWait \/ FallAsleep \/ WakeUp
    BY <2>2 DEF DecideToPause, EndWait, FallAsleep, WakeUp
  <2>3. CASE LockExecute \/ LockPause \/ LockRunReset \/ LockUnpause \/ LockResume
             \/ LockFinalized
    BY <2>3 DEF LockExecute, LockPause, LockRunReset, LockUnpause, LockResume,
                LockFinalized, Lock
  <2>4. CASE SetPaused \/ ResetRunning \/ SetRunning \/ SetFinalized
    BY <2>4 DEF SetPaused, ResetRunning, SetRunning, SetFinalized
  <2>5. CASE DecideToGoOn
    BY <2>5, Zenon DEF DecideToGoOn
  <2>6. CASE UnlockExecute \/ ReadExit
    BY <2>6 DEF UnlockExecute, ReadExit
  <2>7. CASE ResetPaused \/ OnResume \/ StartTask
    BY <2>7 DEF ResetPaused, OnResume, StartTask
  <2>8. CASE Branch
    BY <2>8 DEF Branch
  <2> QED BY <1>4, <2>1, <2>2, <2>3, <2>4, <2>5, <2>6, <2>7, <2>8 DEF Work
<1>5. CASE Throw
  BY <1>5 DEF Throw
<1>6. CASE ~Work /\ ~Throw /\ ~(\E t \in Threads : CallStep(t))
  <2>1. UNCHANGED <<exit, execute, wpc, stop, wasRunning>>
    BY <1>6 DEF Next, Begin, Destroy, Join, SelfCall, SpuriousWakeUp, Gone, vars
  <2> QED BY <1>1, <2>1
<1> QED BY <1>3, <1>4, <1>5, <1>6

(* A task starts on a decision that found no request to halt, or on one    *)
(* that such a request overtook; the next decision sees the request.       *)
LEMMA DebtStep == TypeOK /\ LockInv /\ Decisions /\ Debt /\ [Next]_vars => Debt'
<1> SUFFICES ASSUME TypeOK, LockInv, Decisions, Debt, [Next]_vars PROVE Debt'
  OBVIOUS
<1> USE DEF Debt, Halted, control, client, worker
<1>1. ASSUME UNCHANGED <<exit, execute, overrun, wpc, stop>> PROVE Debt'
  BY <1>1
<1>2. ASSUME NEW t \in Threads, WriteRequest(t) PROVE Debt'
  <2>1. wpc' = wpc /\ stop' = stop
    BY <1>2 DEF WriteRequest
  <2>2. overrun' = overrun \/ overrun' = 0
    BY <1>2, Zenon DEF WriteRequest
  <2>3. ~Halted' => overrun' = 0
    BY <1>2 DEF WriteRequest, TypeOK
  <2>4. overrun' \in {0, 1} /\ (overrun = 0 => overrun' = 0)
    BY <2>2, Zenon
  <2> QED BY <2>1, <2>3, <2>4, Zenon
<1>3. ASSUME NEW t \in Threads, CallStep(t) PROVE Debt'
  <2>1. CASE WriteRequest(t)
    BY <1>2, <2>1
  <2>2. CASE ~WriteRequest(t)
    <3>1. UNCHANGED <<exit, execute, overrun, wpc, stop>>
      BY <1>3, <2>2 DEF CallStep, AcquireExecute, LeaveRequest, Observe, Return, Block, Unblock
    <3> QED BY <1>1, <3>1
  <2> QED BY <2>1, <2>2
<1>4. CASE Work
  <2> USE DEF At, CallbackReturns
  <2>1. CASE OnStart \/ OnPause \/ EndTask \/ OnFinalize
    BY <2>1 DEF OnStart, OnPause, EndTask, OnFinalize
  <2>2. CASE DecideToPause \/ EndWait \/ FallAsleep \/ WakeUp
    BY <2>2 DEF DecideToPause, EndWait, FallAsleep, WakeUp
  <2>3. CASE LockExecute \/ LockPause \/ LockRunReset \/ LockUnpause \/ LockResume
             \/ LockFinalized
    BY <2>3 DEF LockExecute, LockPause, LockRunReset, LockUnpause, LockResume,
                LockFinalized, Lock
  <2>4. CASE SetPaused \/ ResetRunning \/ SetRunning \/ SetFinalized
    BY <2>4 DEF SetPaused, ResetRunning, SetRunning, SetFinalized
  <2>5. CASE DecideToGoOn
    <3>1. stop' \/ ~Halted
      BY <2>5, Zenon DEF DecideToGoOn, TypeOK
    <3>2. UNCHANGED <<exit, execute, overrun>> /\ wpc' = "unlock"
      BY <2>5 DEF DecideToGoOn
    <3> QED BY <3>1, <3>2
  <2>6. CASE ReadExit
    <3>1. stop' \/ ~Halted
      BY <2>6, Zenon DEF ReadExit, Decisions, TypeOK
    <3>2. UNCHANGED <<exit, execute, overrun>> /\ wpc' = "unpause_lock"
      BY <2>6 DEF ReadExit
    <3> QED BY <3>1, <3>2
  <2>7. CASE UnlockExecute \/ ResetPaused
    BY <2>7 DEF UnlockExecute, ResetPaused
  <2>8. CASE OnResume
    BY <2>8 DEF OnResume
  <2>9. CASE StartTask
    <3>1. overrun = 0 /\ wpc' = "in_task" /\ UNCHANGED <<exit, execute>>
      BY <2>9 DEF StartTask
    <3>2. (Halted /\ overrun' = overrun + 1) \/ (~Halted /\ overrun' = 0)
      BY <2>9, Zenon DEF StartTask
    <3>3. overrun' \in {0, 1}
      <4>1. overrun' \in {overrun + 1, 0}
        BY <3>2, Zenon
      <4> QED BY <3>1, <4>1
    <3>4. ~Halted' => overrun' = 0
      BY <3>1, <3>2, Zenon
    <3> QED BY <3>1, <3>3, <3>4
  <2>10. CASE Branch
    <3>1. CASE stop
      BY <2>10, <3>1 DEF Branch
    <3>2. CASE ~stop
      BY <2>10, <3>2 DEF Branch
    <3> QED BY <3>1, <3>2
  <2> QED BY <1>4, <2>1, <2>2, <2>3, <2>4, <2>5, <2>6, <2>7, <2>8, <2>9, <2>10 DEF Work
<1>5. CASE Throw
  BY <1>5 DEF Throw
<1>6. CASE ~Work /\ ~Throw /\ ~(\E t \in Threads : CallStep(t))
  <2>1. UNCHANGED <<exit, execute, overrun, wpc, stop>>
    BY <1>6 DEF Next, Begin, Destroy, Join, SelfCall, SpuriousWakeUp, Gone, vars
  <2> QED BY <1>1, <2>1
<1> QED BY <1>3, <1>4, <1>5, <1>6

(* The invariant of the worker that is inductive.                          *)
IInv == TypeOK /\ LockInv /\ Decisions /\ Debt

(* It holds in every execution.                                            *)
THEOREM InductiveInvariant == Spec => []IInv
<1>1. Init => LockInv
  BY WorkerAssumption DEF Init, LockInv, SelfCalls, LockDiscipline, WorkerHolds, CallHolds
<1>2. Init => Decisions
  BY DEF Init, Decisions
<1>3. Init => Debt
  BY DEF Init, Debt, Halted
<1>4. LockInv /\ Decisions /\ Debt /\ TypeOK /\ [Next]_vars => (LockInv /\ Decisions /\ Debt)'
  BY LockStep, DecisionsStep, DebtStep
<1> QED BY <1>1, <1>2, <1>3, <1>4, TypeCorrect, PTL DEF Spec, IInv

(* After pause() or finalize() at most one more task starts until a run(). *)
THEOREM OverrunIsBounded == Spec => []AtMostOneOverrun
<1>1. IInv => AtMostOneOverrun
  BY DEF IInv, Debt, AtMostOneOverrun
<1> QED BY <1>1, InductiveInvariant, PTL

-----------------------------------------------------------------------------
(* The informative flags.                                                  *)

(* Each of the four places of _work that write an informative flag leaves  *)
(* the flags as the next callback expects them.                            *)
LEMMA FlagsStep == TypeOK /\ Decisions /\ FlagWindows /\ [Next]_vars => FlagWindows'
<1> SUFFICES ASSUME TypeOK, Decisions, FlagWindows, [Next]_vars PROVE FlagWindows'
  OBVIOUS
<1> USE DEF TypeOK, FlagWindows, control, client, worker
<1>1. ASSUME UNCHANGED <<flag, wpc, wasRunning>> PROVE FlagWindows'
  BY <1>1
<1>2. CASE Work
  <2> USE DEF At, CallbackReturns
  <2>1. CASE OnStart \/ OnPause \/ EndTask \/ OnFinalize
    BY <2>1 DEF OnStart, OnPause, EndTask, OnFinalize, Decisions
  <2>2. CASE DecideToPause \/ DecideToGoOn \/ UnlockExecute \/ EndWait \/ ReadExit
    BY <2>2 DEF DecideToPause, DecideToGoOn, UnlockExecute, EndWait, ReadExit
  <2>3. CASE LockExecute \/ LockPause \/ LockRunReset \/ LockUnpause \/ LockResume
             \/ LockFinalized
    BY <2>3 DEF LockExecute, LockPause, LockRunReset, LockUnpause, LockResume,
                LockFinalized, Lock
  <2>4. CASE SetPaused
    BY <2>4 DEF SetPaused
  <2>5. CASE ResetRunning
    BY <2>5 DEF ResetRunning
  <2>6. CASE ResetPaused
    BY <2>6 DEF ResetPaused
  <2>7. CASE SetRunning
    BY <2>7 DEF SetRunning
  <2>8. CASE SetFinalized
    BY <2>8 DEF SetFinalized
  <2>9. CASE FallAsleep \/ WakeUp
    BY <2>9 DEF FallAsleep, WakeUp
  <2>10. CASE OnResume \/ StartTask
    BY <2>10 DEF OnResume, StartTask
  <2>11. CASE Branch
    BY <2>11 DEF Branch
  <2> QED BY <1>2, <2>1, <2>2, <2>3, <2>4, <2>5, <2>6, <2>7, <2>8, <2>9, <2>10, <2>11
          DEF Work
<1>3. CASE Throw
  BY <1>3, WorkerAssumption DEF Throw, Callbacks
<1>4. CASE ~Work /\ ~Throw
  <2>1. UNCHANGED <<flag, wpc, wasRunning>>
    BY <1>4 DEF Next, Begin, Destroy, Join, SelfCall, SpuriousWakeUp, Gone, vars,
       CallStep, AcquireExecute, WriteRequest, LeaveRequest, Observe, Return, Block, Unblock
  <2> QED BY <1>1, <2>1
<1> QED BY <1>2, <1>3, <1>4

(* paused() and running() tell the truth whenever the worker is in a       *)
(* callback or asleep, finalized() whenever the thread has ended.          *)
THEOREM FlagsAreTruthful == Spec => []FlagsTellTheState
<1>1. Init => FlagWindows
  BY DEF Init, FlagWindows
<1>2. IInv /\ FlagWindows => FlagsTellTheState
  BY DEF IInv, Decisions, FlagWindows, FlagsTellTheState
<1>3. IInv /\ FlagWindows /\ [Next]_vars => FlagWindows'
  BY FlagsStep DEF IInv
<1> QED BY <1>1, <1>2, <1>3, InductiveInvariant, PTL DEF Spec

-----------------------------------------------------------------------------
(* No notification is lost.                                                *)

WakeUpInv == NoLostWakeUp /\ (sleeping["execute"] \subseteq {W})
                          /\ (W \in sleeping["execute"] => wpc = "asleep")

(* No step makes a condition true and leaves a thread asleep on it.        *)
LEMMA WakeUpStep == TypeOK /\ LockInv /\ WakeUpInv /\ [Next]_vars => WakeUpInv'
<1> SUFFICES ASSUME TypeOK, LockInv, WakeUpInv, [Next]_vars PROVE WakeUpInv'
  OBVIOUS
<1> USE DEF TypeOK, WakeUpInv, NoLostWakeUp, control, client, worker, Goto
<1>1. ASSUME NEW c \in Clients, NEW k \in Calls, Begin(c, k) PROVE WakeUpInv'
  BY <1>1 DEF Begin
<1>2. ASSUME NEW c \in Clients, Destroy(c) PROVE WakeUpInv'
  <2>1. \A t \in Threads : cpc[t] = "leave" => t = W /\ t # c
    BY <1>2, WorkerAssumption DEF Destroy
  <2> QED BY <1>2, <2>1, WorkerAssumption DEF Destroy
<1>3. ASSUME NEW c \in Clients, Join(c) PROVE WakeUpInv'
  BY <1>3 DEF Join
<1>4. ASSUME NEW r \in Requests, SelfCall(r) PROVE WakeUpInv'
  BY <1>4 DEF SelfCall
<1>5. ASSUME NEW t \in Threads, CallStep(t) PROVE WakeUpInv'
  <2>1. CASE AcquireExecute(t)
    BY <2>1 DEF AcquireExecute
  <2>2. CASE WriteRequest(t)
    <3>1. \A u \in Threads : cpc[u] # "leave"
      BY <2>2, WorkerIsAlone DEF WriteRequest
    <3>2. W \in sleeping["execute"] => ~execute /\ ~exit
      BY <3>1
    <3>3. execute' \/ exit' => execute \/ exit \/ call[t].req \in {"run", "finalize"}
      BY <2>2, Zenon DEF WriteRequest
    <3>4. cpc' = [cpc EXCEPT ![t] = "leave"] /\ UNCHANGED <<sleeping, call, wpc, flag>>
      BY <2>2 DEF WriteRequest
    <3> QED BY <3>2, <3>3, <3>4
  <2>3. CASE LeaveRequest(t)
    <3>1. \A u \in Threads : cpc[u] = "leave" => u = t
      BY <2>3, WorkerIsAlone DEF LeaveRequest
    <3>2. UNCHANGED <<execute, exit, flag, wpc, call>>
      BY <2>3 DEF LeaveRequest
    <3>3. CASE call[t].req \in {"finalize", "run"}
      <4>1. sleeping' = [sleeping EXCEPT !["execute"] = {}]
        BY <2>3, <3>3 DEF LeaveRequest, NotifyAll, NotifyOne
      <4> QED BY <3>2, <4>1
    <3>4. CASE call[t].req \notin {"finalize", "run"}
      <4>1. UNCHANGED sleeping
        BY <2>3, <3>4 DEF LeaveRequest
      <4>2. ~(W \in sleeping["execute"] /\ (execute \/ exit))
        BY <3>1, <3>4
      <4> QED BY <3>2, <4>1, <4>2
    <3> QED BY <3>3, <3>4
  <2>4. CASE Observe(t) \/ Return(t)
    BY <2>4 DEF Observe, Return
  <2>5. CASE Block(t)
    <3>1. call[t].flag # "execute"
      BY DEF CallType
    <3> QED BY <2>5, <3>1 DEF Block, Sleep, Release
  <2>6. CASE Unblock(t)
    BY <2>6 DEF Unblock, Wake
  <2> QED BY <1>5, <2>1, <2>2, <2>3, <2>4, <2>5, <2>6 DEF CallStep
<1>6. ASSUME NEW t \in Threads, NEW m \in Mutexes, SpuriousWakeUp(t, m) PROVE WakeUpInv'
  BY <1>6 DEF SpuriousWakeUp
<1>7. CASE Work
  <2> USE DEF At, CallbackReturns
  <2>1. CASE OnStart \/ DecideToPause \/ DecideToGoOn \/ UnlockExecute \/ OnPause
    BY <2>1 DEF OnStart, DecideToPause, DecideToGoOn, UnlockExecute, OnPause
  <2>2. CASE LockExecute \/ LockPause \/ LockRunReset \/ LockUnpause \/ LockResume
             \/ LockFinalized
    BY <2>2 DEF LockExecute, LockPause, LockRunReset, LockUnpause, LockResume,
                LockFinalized, Lock
  <2>3. CASE SetPaused \/ SetRunning \/ SetFinalized
    BY <2>3 DEF SetPaused, SetRunning, SetFinalized, NotifyAll
  <2>4. CASE ResetRunning \/ ResetPaused
    BY <2>4 DEF ResetRunning, ResetPaused
  <2>5. CASE FallAsleep
    BY <2>5 DEF FallAsleep, Sleep
  <2>6. CASE WakeUp
    BY <2>6 DEF WakeUp, Wake
  <2>7. CASE EndWait \/ ReadExit \/ OnResume \/ StartTask \/ EndTask \/ OnFinalize
    BY <2>7 DEF EndWait, ReadExit, OnResume, StartTask, EndTask, OnFinalize
  <2>8. CASE Branch
    BY <2>8 DEF Branch
  <2> QED BY <1>7, <2>1, <2>2, <2>3, <2>4, <2>5, <2>6, <2>7, <2>8 DEF Work
<1>8. CASE Throw
  BY <1>8, WorkerAssumption DEF Throw, Callbacks
<1>9. CASE Gone \/ UNCHANGED vars
  BY <1>9 DEF Gone, vars
<1> QED BY <1>1, <1>2, <1>3, <1>4, <1>5, <1>6, <1>7, <1>8, <1>9 DEF Next

(* A thread asleep in a condition variable has nothing to wake up for, or  *)
(* the thread that gave it cause is about to notify.                       *)
THEOREM WakeUpsAreNotLost == Spec => []NoLostWakeUp
<1>1. Init => WakeUpInv
  BY DEF Init, WakeUpInv, NoLostWakeUp
<1>2. IInv /\ WakeUpInv /\ [Next]_vars => WakeUpInv'
  BY WakeUpStep DEF IInv
<1> QED BY <1>1, <1>2, InductiveInvariant, PTL DEF Spec, WakeUpInv

-----------------------------------------------------------------------------
(* The destructor.                                                         *)

(* Who is blocked in a condition variable is at the point of its code      *)
(* where it blocks.                                                        *)
Sleepers ==
    \A m \in Mutexes : \A t \in sleeping[m] :
      IF t = W THEN m = "execute" /\ wpc = "asleep"
               ELSE cpc[t] = "asleep" /\ call[t].flag = m

(* The destructor runs in one client, once the others have left, and is    *)
(* never entered again; it has returned only if the thread has.            *)
Lifetime ==
    /\ life = "alive" => \A c \in Clients : cpc[c] # "join"
    /\ life = "dying" => \E c \in Clients :
         /\ cpc[c] \in {"request", "write", "leave", "join"} /\ call[c].flag = "none"
         /\ \A d \in Clients \ {c} : cpc[d] = "idle"
    /\ life \in {"destroyed", "terminated"} => \A c \in Clients : cpc[c] = "idle"
    /\ life = "destroyed" => wpc = "done"

(* No step leaves a thread blocked elsewhere than where it waits.          *)
LEMMA SleepersStep == TypeOK /\ LockInv /\ Sleepers /\ [Next]_vars => Sleepers'
<1> SUFFICES ASSUME TypeOK, LockInv, Sleepers, [Next]_vars PROVE Sleepers'
  OBVIOUS
<1> USE WorkerAssumption
    DEF TypeOK, Sleepers, control, client, worker, Goto, LockInv, SelfCalls, Callbacks
<1>1. ASSUME NEW c \in Clients, NEW k \in Calls, Begin(c, k) PROVE Sleepers'
  BY <1>1 DEF Begin
<1>2. ASSUME NEW c \in Clients, Destroy(c) PROVE Sleepers'
  BY <1>2 DEF Destroy
<1>3. ASSUME NEW c \in Clients, Join(c) PROVE Sleepers'
  BY <1>3 DEF Join
<1>4. ASSUME NEW r \in Requests, SelfCall(r) PROVE Sleepers'
  BY <1>4 DEF SelfCall
<1>5. ASSUME NEW t \in Threads, CallStep(t) PROVE Sleepers'
  <2>1. CASE AcquireExecute(t) \/ WriteRequest(t)
    <3>1. /\ UNCHANGED <<sleeping, wpc, call>> /\ cpc[t] # "asleep"
          /\ \E pc : cpc' = [cpc EXCEPT ![t] = pc]
      BY <2>1 DEF AcquireExecute, WriteRequest
    <3> QED BY <3>1
  <2>2. CASE LeaveRequest(t)
    <3>1. \A m \in Mutexes : sleeping'[m] \subseteq sleeping[m]
      BY <2>2 DEF LeaveRequest, NotifyAll, NotifyOne
    <3>2. /\ UNCHANGED <<wpc, call>> /\ cpc[t] # "asleep"
          /\ \E pc : cpc' = [cpc EXCEPT ![t] = pc]
      BY <2>2 DEF LeaveRequest
    <3> QED BY <3>1, <3>2
  <2>3. CASE Observe(t) \/ Return(t)
    BY <2>3 DEF Observe, Return
  <2>4. CASE Block(t)
    <3>1. t # W /\ call[t].flag # "execute"
      BY <2>4 DEF Block, CallType
    <3> QED BY <2>4, <3>1 DEF Block, Sleep
  <2>5. CASE Unblock(t)
    BY <2>5 DEF Unblock, Wake
  <2> QED BY <1>5, <2>1, <2>2, <2>3, <2>4, <2>5 DEF CallStep
<1>6. ASSUME NEW t \in Threads, NEW m \in Mutexes, SpuriousWakeUp(t, m) PROVE Sleepers'
  BY <1>6 DEF SpuriousWakeUp
<1>7. CASE Work
  <2>1. CASE FallAsleep
    BY <2>1 DEF FallAsleep, Sleep, At
  <2>2. CASE WakeUp
    BY <2>2 DEF WakeUp, Wake, At
  <2>3. CASE ~FallAsleep /\ ~WakeUp
    <3>1. UNCHANGED <<cpc, call>> /\ wpc # "asleep"
      BY <1>7, <2>3 DEF Work, OnStart, LockExecute, DecideToPause, DecideToGoOn, UnlockExecute,
         LockPause, SetPaused, LockRunReset, ResetRunning, OnPause, EndWait, ReadExit,
         LockUnpause, ResetPaused, Branch, LockResume, SetRunning, OnResume, StartTask,
         EndTask, OnFinalize, LockFinalized, SetFinalized, At, Lock, CallbackReturns
    <3>2. \A m \in Mutexes : sleeping'[m] \subseteq sleeping[m]
      BY <1>7, <2>3 DEF Work, OnStart, LockExecute, DecideToPause, DecideToGoOn, UnlockExecute,
         LockPause, SetPaused, LockRunReset, ResetRunning, OnPause, EndWait, ReadExit,
         LockUnpause, ResetPaused, Branch, LockResume, SetRunning, OnResume, StartTask,
         EndTask, OnFinalize, LockFinalized, SetFinalized, Lock, NotifyAll
    <3> QED BY <3>1, <3>2
  <2> QED BY <2>1, <2>2, <2>3
<1>8. CASE Throw
  BY <1>8 DEF Throw
<1>9. CASE Gone \/ UNCHANGED vars
  BY <1>9 DEF Gone, vars
<1> QED BY <1>1, <1>2, <1>3, <1>4, <1>5, <1>6, <1>7, <1>8, <1>9 DEF Next

(* No step lets anyone in behind the destructor, or the thread out.        *)
LEMMA LifetimeStep == TypeOK /\ LockInv /\ Lifetime /\ [Next]_vars => Lifetime'
<1> SUFFICES ASSUME TypeOK, LockInv, Lifetime, [Next]_vars PROVE Lifetime'
  OBVIOUS
<1> USE WorkerAssumption
    DEF TypeOK, Lifetime, control, client, worker, Goto
<1>1. ASSUME NEW c \in Clients, NEW k \in Calls, Begin(c, k) PROVE Lifetime'
  BY <1>1 DEF Begin
<1>2. ASSUME NEW c \in Clients, Destroy(c) PROVE Lifetime'
  BY <1>2 DEF Destroy, Request
<1>3. ASSUME NEW c \in Clients, Join(c) PROVE Lifetime'
  <2>1. life = "dying"
    BY <1>3 DEF Join
  <2> QED BY <1>3, <2>1 DEF Join
<1>4. ASSUME NEW r \in Requests, SelfCall(r) PROVE Lifetime'
  BY <1>4 DEF SelfCall
<1>5. ASSUME NEW t \in Threads, CallStep(t) PROVE Lifetime'
  <2>1. /\ UNCHANGED <<life, wpc, call>>
        /\ cpc[t] \notin {"idle", "join"}
        /\ \E pc : cpc' = [cpc EXCEPT ![t] = pc]
    BY <1>5 DEF CallStep, AcquireExecute, WriteRequest, LeaveRequest, Observe, Return,
       Block, Unblock
  <2>2. CASE t = W
    BY <2>1, <2>2
  <2>3. CASE t # W
    <3>1. life \in {"alive", "dying"}
      BY <2>1, <2>3
    <3>2. CASE life = "alive"
      <4>1. cpc'[t] # "join"
        BY <1>5, <3>2 DEF CallStep, AcquireExecute, WriteRequest, LeaveRequest, Observe, Return,
           Block, Unblock
      <4> QED BY <2>1, <3>2, <4>1
    <3>3. CASE life = "dying"
      <4>1. call[t].flag = "none" /\ cpc[t] \in {"request", "write", "leave", "join"}
        BY <2>1, <2>3, <3>3
      <4>2. cpc'[t] \in {"request", "write", "leave", "join"}
        BY <1>5, <2>3, <3>3, <4>1 DEF CallStep, AcquireExecute, WriteRequest, LeaveRequest,
           Observe, Return, Block, Unblock
      <4> QED BY <2>1, <2>3, <3>3, <4>1, <4>2
    <3> QED BY <3>1, <3>2, <3>3
  <2> QED BY <2>2, <2>3
<1>6. ASSUME NEW t \in Threads, NEW m \in Mutexes, SpuriousWakeUp(t, m) PROVE Lifetime'
  BY <1>6 DEF SpuriousWakeUp
<1>7. CASE Work
  <2>1. UNCHANGED <<life, cpc, call>> /\ wpc # "done"
    BY <1>7 DEF Work, OnStart, LockExecute, DecideToPause, DecideToGoOn, UnlockExecute,
       LockPause, SetPaused, LockRunReset, ResetRunning, OnPause, FallAsleep, WakeUp, EndWait,
       ReadExit, LockUnpause, ResetPaused, Branch, LockResume, SetRunning, OnResume, StartTask,
       EndTask, OnFinalize, LockFinalized, SetFinalized, At, Lock, CallbackReturns
  <2> QED BY <2>1
<1>8. CASE Throw
  BY <1>8 DEF Throw, Callbacks
<1>9. CASE Gone \/ UNCHANGED vars
  BY <1>9 DEF Gone, vars
<1> QED BY <1>1, <1>2, <1>3, <1>4, <1>5, <1>6, <1>7, <1>8, <1>9 DEF Next

(* What the destructor destroys is at rest, whatever was called, paused,   *)
(* woken or finalized before, by the clients or by the callbacks.          *)
THEOREM DestructionIsSafe == Spec => []DestroyedAtRest
<1>1. Init => Sleepers /\ Lifetime
  BY DEF Init, Sleepers, Lifetime
<1>2. IInv /\ Sleepers /\ Lifetime /\ [Next]_vars => (Sleepers /\ Lifetime)'
  BY SleepersStep, LifetimeStep DEF IInv
<1>3. IInv /\ FlagWindows /\ Sleepers /\ Lifetime => DestroyedAtRest
  <2> SUFFICES ASSUME IInv, FlagWindows, Sleepers, Lifetime, life = "destroyed"
               PROVE  /\ \A m \in Mutexes : owner[m] = Nobody /\ sleeping[m] = {}
                      /\ \A t \in Threads : cpc[t] = "idle"
                      /\ flag["finalized"] /\ wpc = "done"
    BY DEF DestroyedAtRest
  <2>1. wpc = "done" /\ flag["finalized"]
    BY DEF Lifetime, FlagWindows
  <2>2. \A t \in Threads : cpc[t] = "idle"
    BY <2>1 DEF Lifetime, IInv, LockInv, SelfCalls, Callbacks
  <2>3. \A m \in Mutexes, t \in Threads : ~CallHolds(t, m) /\ ~WorkerHolds(m)
    BY <2>1, <2>2 DEF CallHolds, WorkerHolds
  <2>4. \A m \in Mutexes : owner[m] = Nobody
    BY <2>3 DEF IInv, TypeOK, LockInv, LockDiscipline
  <2>5. \A m \in Mutexes : sleeping[m] = {}
    BY <2>1, <2>2 DEF IInv, TypeOK, Sleepers
  <2> QED BY <2>1, <2>2, <2>4, <2>5
<1>4. Init => FlagWindows
  BY DEF Init, FlagWindows
<1>5. IInv /\ FlagWindows /\ [Next]_vars => FlagWindows'
  BY FlagsStep DEF IInv
<1> QED BY <1>1, <1>2, <1>3, <1>4, <1>5, InductiveInvariant, PTL DEF Spec

-----------------------------------------------------------------------------
(* Refinement: every step of the worker is a step of an interruptible      *)
(* process, or none.                                                       *)

(* A step of the worker, seen through PhaseOf, is one of Interruptible.    *)
LEMMA RefinementStep == IInv /\ IInv' /\ [Next]_vars => [Abstract!INext]_(Abstract!ivars)
<1> SUFFICES ASSUME IInv, IInv', [Next]_vars PROVE [Abstract!INext]_(Abstract!ivars)
  OBVIOUS
<1> DEFINE Same == UNCHANGED <<PhaseOf, execute, exit, overrun>>
<1>0. Same => [Abstract!INext]_(Abstract!ivars)
  BY DEF Abstract!ivars
<1>1. UNCHANGED <<exit, execute, overrun, wpc, wasRunning>> => Same
  BY DEF PhaseOf
<1> USE DEF control, client, worker
<1>2. ASSUME NEW t \in Threads, WriteRequest(t) PROVE [Abstract!INext]_(Abstract!ivars)
  <2>1. UNCHANGED PhaseOf
    BY <1>2 DEF WriteRequest, PhaseOf
  <2> QED BY <1>2, <2>1, Zenon DEF WriteRequest, Abstract!INext, Abstract!AskFinalize,
             Abstract!AskPause, Abstract!AskRun, Abstract!ivars
<1>3. ASSUME NEW t \in Threads, CallStep(t) PROVE [Abstract!INext]_(Abstract!ivars)
  <2>1. CASE WriteRequest(t)
    BY <1>2, <2>1
  <2>2. CASE ~WriteRequest(t)
    <3>1. UNCHANGED <<exit, execute, overrun, wpc, wasRunning>>
      BY <1>3, <2>2 DEF CallStep, AcquireExecute, LeaveRequest, Observe, Return, Block, Unblock
    <3> QED BY <1>0, <1>1, <3>1
  <2> QED BY <2>1, <2>2
<1>4. CASE Work
  <2> USE DEF At, CallbackReturns, PhaseOf
  <2>1. CASE OnStart
    <3>1. PhaseOf = "starting" /\ PhaseOf' = "resting" /\ UNCHANGED <<exit, execute, overrun>>
      BY <2>1 DEF OnStart, IInv, Decisions
    <3> QED BY <3>1 DEF Abstract!INext, Abstract!Started, Abstract!Move
  <2>2. CASE OnPause
    <3>1. /\ PhaseOf \in {"resting", "resumed"} /\ PhaseOf' = "resting"
          /\ ~execute /\ ~exit /\ UNCHANGED <<exit, execute, overrun>>
      BY <2>2 DEF OnPause, IInv, Decisions
    <3> QED BY <3>1 DEF Abstract!INext, Abstract!Pause, Abstract!Move
  <2>3. CASE OnResume
    <3>1. /\ PhaseOf = "resting" /\ PhaseOf' = "resumed" /\ overrun = 0
          /\ UNCHANGED <<exit, execute, overrun>>
      BY <2>3 DEF OnResume, IInv, Debt
    <3> QED BY <3>1 DEF Abstract!INext, Abstract!Resume, Abstract!Move
  <2>4. CASE StartTask
    <3>1. /\ PhaseOf = "resumed" /\ PhaseOf' = "working" /\ overrun = 0
          /\ UNCHANGED <<exit, execute>>
      BY <2>4 DEF StartTask, IInv, Decisions, Debt
    <3>2. overrun' = IF exit \/ ~execute THEN overrun + 1 ELSE 0
      BY <2>4 DEF StartTask, Halted
    <3>3. overrun + 1 = 1
      BY <3>1
    <3>4. overrun' = IF exit \/ ~execute THEN 1 ELSE 0
      BY <3>2, <3>3, Zenon
    <3> QED BY <3>1, <3>4, Zenon DEF Abstract!INext, Abstract!StartTask, Abstract!Move
  <2>5. CASE EndTask
    <3>1. PhaseOf = "working" /\ PhaseOf' = "resumed" /\ UNCHANGED <<exit, execute, overrun>>
      BY <2>5 DEF EndTask, IInv, Decisions
    <3> QED BY <3>1 DEF Abstract!INext, Abstract!EndTask, Abstract!Move
  <2>6. CASE Branch
    <3>1. CASE stop
      <4>1. /\ PhaseOf \in {"resting", "resumed"} /\ PhaseOf' = "finalizing" /\ exit
            /\ UNCHANGED <<exit, execute, overrun>>
        BY <2>6, <3>1 DEF Branch, IInv, Decisions
      <4> QED BY <4>1 DEF Abstract!INext, Abstract!BeginFinalize, Abstract!Move
    <3>2. CASE ~stop
      <4>1. Same
        BY <2>6, <3>2 DEF Branch
      <4> QED BY <1>0, <4>1
    <3> QED BY <3>1, <3>2
  <2>7. CASE SetFinalized
    <3>1. /\ PhaseOf = "finalizing" /\ PhaseOf' = "finalized"
          /\ UNCHANGED <<exit, execute, overrun>>
      BY <2>7 DEF SetFinalized
    <3> QED BY <3>1 DEF Abstract!INext, Abstract!EndFinalize, Abstract!Move
  <2>8. CASE LockExecute \/ LockPause \/ LockRunReset \/ LockUnpause \/ LockResume
             \/ LockFinalized
    <3>1. Same
      BY <2>8 DEF LockExecute, LockPause, LockRunReset, LockUnpause, LockResume,
                  LockFinalized, Lock
    <3> QED BY <1>0, <3>1
  <2>9. CASE DecideToPause \/ DecideToGoOn \/ UnlockExecute \/ SetPaused \/ ResetRunning
             \/ OnFinalize
    <3>1. Same
      BY <2>9 DEF DecideToPause, DecideToGoOn, UnlockExecute, SetPaused, ResetRunning,
                  OnFinalize
    <3> QED BY <1>0, <3>1
  <2>10. CASE FallAsleep \/ WakeUp \/ EndWait \/ ReadExit \/ ResetPaused \/ SetRunning
    <3>1. Same
      BY <2>10 DEF FallAsleep, WakeUp, EndWait, ReadExit, ResetPaused, SetRunning
    <3> QED BY <1>0, <3>1
  <2> QED BY <1>4, <2>1, <2>2, <2>3, <2>4, <2>5, <2>6, <2>7, <2>8, <2>9, <2>10 DEF Work
<1>5. CASE Throw
  <2>1. wpc \in Callbacks /\ wpc' = "thrown" /\ UNCHANGED <<exit, execute, overrun>>
    BY <1>5, WorkerAssumption DEF Throw
  <2>2. /\ PhaseOf \in {"starting", "resting", "resumed", "working", "finalizing"}
        /\ PhaseOf' = "failed"
    BY <2>1 DEF PhaseOf, Callbacks
  <2> QED BY <2>1, <2>2 DEF Abstract!INext, Abstract!Fail, Abstract!Move
<1>6. CASE ~Work /\ ~Throw /\ ~(\E t \in Threads : CallStep(t))
  <2>1. UNCHANGED <<exit, execute, overrun, wpc, wasRunning>>
    BY <1>6 DEF Next, Begin, Destroy, Join, SelfCall, SpuriousWakeUp, Gone, vars
  <2> QED BY <1>0, <1>1, <2>1
<1> QED BY <1>3, <1>4, <1>5, <1>6

(* The worker implements the interruptible process: the order of its       *)
(* callbacks and the bound on its overrun hold in every execution.         *)
THEOREM WorkerImplementsInterruptible == Spec => ImplementsInterruptible
<1>1. Init => Abstract!IInit
  BY DEF Init, Abstract!IInit, PhaseOf
<1> QED BY <1>1, RefinementStep, InductiveInvariant, PTL
        DEF Spec, ImplementsInterruptible, Abstract!ISpec
=============================================================================
