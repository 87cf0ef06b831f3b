---------------------------- MODULE RuntimeProofs ---------------------------
(***************************************************************************)
(* Theorems about Runtime for every set of threads and every bound: its    *)
(* type invariant, its safety invariants, the finality of the worker's     *)
(* death, and that it implements SerialExecutor.                           *)
(*                                                                         *)
(* TaskManager is Runtime with more steps, so what is proved of Runtime    *)
(* holds of it; and no two threads are in Lean's set-up of the task        *)
(* manager at once.                                                        *)
(***************************************************************************)
EXTENDS TaskManager, TLAPS

BootStages == {"runtime_module", "thread", "task_manager", "mark", "env"}
Serving == {"recv_task", "task", "self_send", "send_done"}
BeyondOnce == {"attach", "lean", "fetch", "send", "recv_done"}
InsideOnce == {"recv_init", "store", "complete"}

\* WORKER_INIT is running exactly while one thread is inside its closure, and it
\* lets nobody past before the worker serves and the sender is stored.
OnceInv ==
  /\ once # "complete" => \A t \in Threads : pc[t] \notin BeyondOnce
  /\ \A t \in Threads : pc[t] \in InsideOnce => once = "running"
  /\ \A t, u \in Threads : pc[t] \in InsideOnce /\ pc[u] \in InsideOnce => t = u
  /\ \A t \in Threads : pc[t] = "recv_init" => worker \in BootPCs \cup {"dead"}
  /\ \A t \in Threads : pc[t] \in {"store", "complete"} => worker = "recv_task"
  /\ \A t \in Threads : pc[t] = "complete" => slot
  /\ once = "incomplete" => worker = "none"
  /\ once = "poisoned" => worker \in {"none", "dead"}
  /\ once = "complete" => slot /\ worker \in Serving \cup {"dead"} /\ env = "complete"

\* The worker boots in order and serves only when it is done.
BootInv ==
  /\ worker \in BootStages \cup {"none"} => env = "incomplete"
  /\ worker \in {"send_init"} \cup Serving => env = "complete"
  /\ worker \in {"task_manager", "mark", "env", "send_init"} \cup Serving => Worker \in attached
  /\ env = "incomplete" <=> envBy = None
  /\ env # "incomplete" => envBy = Worker
  /\ env # "running"
  /\ env = "poisoned" => worker = "dead"
  /\ marked \subseteq attached

\* The worker holds the closure of a thread exactly while that thread waits.
DispatchInv ==
  /\ worker \in {"task", "self_send", "send_done"} <=> current # None
  /\ current # None => pc[current] = "recv_done"
  /\ \A t \in Threads : pc[t] \in {"fetch", "send", "recv_done"} => op[t] = "with_worker"
  /\ \A t \in Threads : pc[t] \in {"attach", "lean"} => op[t] = "with_lean"
  /\ \A t \in Threads : pc[t] = "lean" => t \in marked

\* How often the closure of the current call was started, and how the call ended.
RanInv ==
  \A t \in Threads :
    /\ pc[t] # "idle" => outcome[t] = "none"
    /\ pc[t] \notin {"idle", "recv_done"} => ran[t] = 0
    /\ pc[t] = "recv_done" => ran[t] = 1
    /\ pc[t] = "idle" /\ outcome[t] = "ok" /\ op[t] = "with_worker" => ran[t] = 1
    /\ ran[t] \in {0, 1}

IInv == TypeOK /\ OnceInv /\ BootInv /\ DispatchInv /\ RanInv

-----------------------------------------------------------------------------
(* IInv is inductive.                                                      *)

\* Before the first call the invariant holds.
LEMMA InitEstablishesIInv == Init => IInv
<1> SUFFICES ASSUME Init PROVE IInv
  OBVIOUS
<1> USE RuntimeAssumption DEF Init
<1>1. TypeOK
  <2>1. pc \in [Threads -> CallerPCs] BY DEF CallerPCs
  <2>2. op \in [Threads -> Ops] BY DEF Ops
  <2>3. calls \in [Threads -> 0..MaxCalls] OBVIOUS
  <2>4. outcome \in [Threads -> {"none", "ok", "panic"}] OBVIOUS
  <2>5. ran \in [Threads -> Nat] OBVIOUS
  <2>6. once \in OnceStates /\ env \in OnceStates BY DEF OnceStates
  <2>7. worker \in WorkerPCs BY DEF WorkerPCs
  <2>8. panics \in 0..MaxPanics OBVIOUS
  <2> QED BY <2>1, <2>2, <2>3, <2>4, <2>5, <2>6, <2>7, <2>8 DEF TypeOK
<1>2. OnceInv
  BY DEF OnceInv, BeyondOnce, InsideOnce
<1>3. BootInv
  BY DEF BootInv, BootStages, Serving
<1>4. DispatchInv
  BY DEF DispatchInv
<1>5. RanInv
  BY DEF RanInv
<1> QED
  BY <1>1, <1>2, <1>3, <1>4, <1>5 DEF IInv

\* Each step keeps the types.
LEMMA NextKeepsTypes ==
  ASSUME IInv, [Next]_vars
  PROVE  TypeOK'
<1> USE RuntimeAssumption
    DEF IInv, TypeOK, Ops, OnceStates, CallerPCs, WorkerPCs, BootPCs, Goto, Leave, WorkerStep,
        callerVars, bootVars, threadVars
<1>1. ASSUME NEW t \in Threads, CallerStep(t) PROVE TypeOK'
  <2>1. CASE OnceComplete(t) BY <2>1 DEF OnceComplete, PassOnce, AfterOnce
  <2>2. CASE OncePoisoned(t) BY <2>2 DEF OncePoisoned
  <2>3. CASE Spawn(t) BY <2>3 DEF Spawn
  <2>4. CASE SpawnFails(t) BY <2>4 DEF SpawnFails
  <2>5. CASE RecvInit(t) BY <2>5 DEF RecvInit
  <2>6. CASE RecvInitFails(t) BY <2>6 DEF RecvInitFails
  <2>7. CASE StoreSender(t) BY <2>7 DEF StoreSender
  <2>8. CASE CompleteOnce(t) BY <2>8 DEF CompleteOnce, PassOnce, AfterOnce
  <2>9. CASE Attach(t) BY <2>9 DEF Attach
  <2>10. CASE UseLean(t) BY <2>10 DEF UseLean
  <2>11. CASE FetchSender(t) BY <2>11 DEF FetchSender
  <2>12. CASE SendTask(t) BY <2>12 DEF SendTask
  <2>13. CASE SendTaskFails(t) BY <2>13 DEF SendTaskFails
  <2>14. CASE RecvDone(t) BY <2>14 DEF RecvDone
  <2>15. CASE RecvDoneFails(t) BY <2>15 DEF RecvDoneFails
  <2> QED
    BY <1>1, <2>1, <2>2, <2>3, <2>4, <2>5, <2>6, <2>7, <2>8, <2>9, <2>10, <2>11,
       <2>12, <2>13, <2>14, <2>15 DEF CallerStep
<1>2. ASSUME NEW t \in Threads, NEW o \in Ops, Call(t, o) PROVE TypeOK'
  BY <1>2 DEF Call
<1>3. CASE WorkerNext
  BY <1>3 DEF WorkerNext, BootRuntime, BootThread, BootTaskManager, BootMark, BootEnv,
              BootEnvPanics, TaskReturns, TaskPanics, TaskNests
<1>4. CASE UNCHANGED vars
  BY <1>4 DEF vars
<1> QED
  BY <1>1, <1>2, <1>3, <1>4 DEF Next

\* Nobody passes WORKER_INIT before the worker serves and the sender is stored.
LEMMA NextKeepsOnceInv ==
  ASSUME IInv, [Next]_vars
  PROVE  OnceInv'
<1> USE RuntimeAssumption
    DEF IInv, TypeOK, OnceInv, BootInv, DispatchInv, Ops, OnceStates, CallerPCs, WorkerPCs, BootPCs, BootStages, Serving,
        BeyondOnce, InsideOnce, Goto, Leave, WorkerStep, callerVars, bootVars, threadVars
<1>1. ASSUME NEW t \in Threads, CallerStep(t) PROVE OnceInv'
  <2>1. CASE OnceComplete(t) BY <2>1 DEF OnceComplete, PassOnce, AfterOnce
  <2>2. CASE OncePoisoned(t) BY <2>2 DEF OncePoisoned
  <2>3. CASE Spawn(t) BY <2>3 DEF Spawn
  <2>4. CASE SpawnFails(t) BY <2>4 DEF SpawnFails
  <2>5. CASE RecvInit(t) BY <2>5 DEF RecvInit
  <2>6. CASE RecvInitFails(t) BY <2>6 DEF RecvInitFails
  <2>7. CASE StoreSender(t) BY <2>7 DEF StoreSender
  <2>8. CASE CompleteOnce(t) BY <2>8 DEF CompleteOnce, PassOnce, AfterOnce
  <2>9. CASE Attach(t) BY <2>9 DEF Attach
  <2>10. CASE UseLean(t) BY <2>10 DEF UseLean
  <2>11. CASE FetchSender(t) BY <2>11 DEF FetchSender
  <2>12. CASE SendTask(t) BY <2>12 DEF SendTask
  <2>13. CASE SendTaskFails(t) BY <2>13 DEF SendTaskFails
  <2>14. CASE RecvDone(t) BY <2>14 DEF RecvDone
  <2>15. CASE RecvDoneFails(t) BY <2>15 DEF RecvDoneFails
  <2> QED
    BY <1>1, <2>1, <2>2, <2>3, <2>4, <2>5, <2>6, <2>7, <2>8, <2>9, <2>10, <2>11,
       <2>12, <2>13, <2>14, <2>15 DEF CallerStep
<1>2. ASSUME NEW t \in Threads, NEW o \in Ops, Call(t, o) PROVE OnceInv'
  BY <1>2 DEF Call
<1>3. ASSUME WorkerNext PROVE OnceInv'
  <2>1. CASE BootRuntime BY <2>1 DEF BootRuntime
  <2>2. CASE BootThread BY <2>2 DEF BootThread
  <2>3. CASE BootTaskManager BY <2>3 DEF BootTaskManager
  <2>4. CASE BootMark BY <2>4 DEF BootMark
  <2>5. CASE BootEnv BY <2>5 DEF BootEnv
  <2>6. CASE BootEnvPanics BY <2>6 DEF BootEnvPanics
  <2>7. CASE TaskReturns BY <2>7 DEF TaskReturns
  <2>8. CASE TaskPanics BY <2>8 DEF TaskPanics
  <2>9. CASE TaskNests BY <2>9 DEF TaskNests
  <2> QED
    BY <1>3, <2>1, <2>2, <2>3, <2>4, <2>5, <2>6, <2>7, <2>8, <2>9 DEF WorkerNext
<1>4. CASE UNCHANGED vars
  BY <1>4 DEF vars
<1> QED
  BY <1>1, <1>2, <1>3, <1>4 DEF Next

\* The worker boots in order, and nobody else runs the module initializers.
LEMMA NextKeepsBootInv ==
  ASSUME IInv, [Next]_vars
  PROVE  BootInv'
<1> USE RuntimeAssumption
    DEF IInv, TypeOK, OnceInv, BootInv, DispatchInv, Ops, OnceStates, CallerPCs, WorkerPCs, BootPCs, BootStages, Serving,
        BeyondOnce, InsideOnce, Goto, Leave, WorkerStep, callerVars, bootVars, threadVars
<1>1. ASSUME NEW t \in Threads, CallerStep(t) PROVE BootInv'
  <2>1. CASE OnceComplete(t) BY <2>1 DEF OnceComplete, PassOnce, AfterOnce
  <2>2. CASE OncePoisoned(t) BY <2>2 DEF OncePoisoned
  <2>3. CASE Spawn(t) BY <2>3 DEF Spawn
  <2>4. CASE SpawnFails(t) BY <2>4 DEF SpawnFails
  <2>5. CASE RecvInit(t) BY <2>5 DEF RecvInit
  <2>6. CASE RecvInitFails(t) BY <2>6 DEF RecvInitFails
  <2>7. CASE StoreSender(t) BY <2>7 DEF StoreSender
  <2>8. CASE CompleteOnce(t) BY <2>8 DEF CompleteOnce, PassOnce, AfterOnce
  <2>9. CASE Attach(t) BY <2>9 DEF Attach
  <2>10. CASE UseLean(t) BY <2>10 DEF UseLean
  <2>11. CASE FetchSender(t) BY <2>11 DEF FetchSender
  <2>12. CASE SendTask(t) BY <2>12 DEF SendTask
  <2>13. CASE SendTaskFails(t) BY <2>13 DEF SendTaskFails
  <2>14. CASE RecvDone(t) BY <2>14 DEF RecvDone
  <2>15. CASE RecvDoneFails(t) BY <2>15 DEF RecvDoneFails
  <2> QED
    BY <1>1, <2>1, <2>2, <2>3, <2>4, <2>5, <2>6, <2>7, <2>8, <2>9, <2>10, <2>11,
       <2>12, <2>13, <2>14, <2>15 DEF CallerStep
<1>2. ASSUME NEW t \in Threads, NEW o \in Ops, Call(t, o) PROVE BootInv'
  BY <1>2 DEF Call
<1>3. ASSUME WorkerNext PROVE BootInv'
  <2>1. CASE BootRuntime BY <2>1 DEF BootRuntime
  <2>2. CASE BootThread BY <2>2 DEF BootThread
  <2>3. CASE BootTaskManager BY <2>3 DEF BootTaskManager
  <2>4. CASE BootMark BY <2>4 DEF BootMark
  <2>5. CASE BootEnv BY <2>5 DEF BootEnv
  <2>6. CASE BootEnvPanics BY <2>6 DEF BootEnvPanics
  <2>7. CASE TaskReturns BY <2>7 DEF TaskReturns
  <2>8. CASE TaskPanics BY <2>8 DEF TaskPanics
  <2>9. CASE TaskNests BY <2>9 DEF TaskNests
  <2> QED
    BY <1>3, <2>1, <2>2, <2>3, <2>4, <2>5, <2>6, <2>7, <2>8, <2>9 DEF WorkerNext
<1>4. CASE UNCHANGED vars
  BY <1>4 DEF vars
<1> QED
  BY <1>1, <1>2, <1>3, <1>4 DEF Next

\* The worker holds a closure exactly while its caller waits.
LEMMA NextKeepsDispatchInv ==
  ASSUME IInv, [Next]_vars
  PROVE  DispatchInv'
<1> USE RuntimeAssumption
    DEF IInv, TypeOK, OnceInv, DispatchInv, Ops, OnceStates, CallerPCs, WorkerPCs, BootPCs, BootStages, Serving,
        BeyondOnce, InsideOnce, Goto, Leave, WorkerStep, callerVars, bootVars, threadVars
<1>1. ASSUME NEW t \in Threads, CallerStep(t) PROVE DispatchInv'
  <2>1. CASE OnceComplete(t) BY <2>1 DEF OnceComplete, PassOnce, AfterOnce
  <2>2. CASE OncePoisoned(t) BY <2>2 DEF OncePoisoned
  <2>3. CASE Spawn(t) BY <2>3 DEF Spawn
  <2>4. CASE SpawnFails(t) BY <2>4 DEF SpawnFails
  <2>5. CASE RecvInit(t) BY <2>5 DEF RecvInit
  <2>6. CASE RecvInitFails(t) BY <2>6 DEF RecvInitFails
  <2>7. CASE StoreSender(t) BY <2>7 DEF StoreSender
  <2>8. CASE CompleteOnce(t) BY <2>8 DEF CompleteOnce, PassOnce, AfterOnce
  <2>9. CASE Attach(t) BY <2>9 DEF Attach
  <2>10. CASE UseLean(t) BY <2>10 DEF UseLean
  <2>11. CASE FetchSender(t) BY <2>11 DEF FetchSender
  <2>12. CASE SendTask(t) BY <2>12 DEF SendTask
  <2>13. CASE SendTaskFails(t) BY <2>13 DEF SendTaskFails
  <2>14. CASE RecvDone(t) BY <2>14 DEF RecvDone
  <2>15. CASE RecvDoneFails(t) BY <2>15 DEF RecvDoneFails
  <2> QED
    BY <1>1, <2>1, <2>2, <2>3, <2>4, <2>5, <2>6, <2>7, <2>8, <2>9, <2>10, <2>11,
       <2>12, <2>13, <2>14, <2>15 DEF CallerStep
<1>2. ASSUME NEW t \in Threads, NEW o \in Ops, Call(t, o) PROVE DispatchInv'
  BY <1>2 DEF Call
<1>3. ASSUME WorkerNext PROVE DispatchInv'
  <2>1. CASE BootRuntime BY <2>1 DEF BootRuntime
  <2>2. CASE BootThread BY <2>2 DEF BootThread
  <2>3. CASE BootTaskManager BY <2>3 DEF BootTaskManager
  <2>4. CASE BootMark BY <2>4 DEF BootMark
  <2>5. CASE BootEnv BY <2>5 DEF BootEnv
  <2>6. CASE BootEnvPanics BY <2>6 DEF BootEnvPanics
  <2>7. CASE TaskReturns BY <2>7 DEF TaskReturns
  <2>8. CASE TaskPanics BY <2>8 DEF TaskPanics
  <2>9. CASE TaskNests BY <2>9 DEF TaskNests
  <2> QED
    BY <1>3, <2>1, <2>2, <2>3, <2>4, <2>5, <2>6, <2>7, <2>8, <2>9 DEF WorkerNext
<1>4. CASE UNCHANGED vars
  BY <1>4 DEF vars
<1> QED
  BY <1>1, <1>2, <1>3, <1>4 DEF Next

\* The closure of a call is started at most once.
LEMMA NextKeepsRanInv ==
  ASSUME IInv, [Next]_vars
  PROVE  RanInv'
<1> USE RuntimeAssumption
    DEF IInv, TypeOK, RanInv, DispatchInv, Ops, OnceStates, CallerPCs, WorkerPCs, BootPCs, BootStages, Serving,
        BeyondOnce, InsideOnce, Goto, Leave, WorkerStep, callerVars, bootVars, threadVars
<1>1. ASSUME NEW t \in Threads, CallerStep(t) PROVE RanInv'
  <2>1. CASE OnceComplete(t) BY <2>1 DEF OnceComplete, PassOnce, AfterOnce
  <2>2. CASE OncePoisoned(t) BY <2>2 DEF OncePoisoned
  <2>3. CASE Spawn(t) BY <2>3 DEF Spawn
  <2>4. CASE SpawnFails(t) BY <2>4 DEF SpawnFails
  <2>5. CASE RecvInit(t) BY <2>5 DEF RecvInit
  <2>6. CASE RecvInitFails(t) BY <2>6 DEF RecvInitFails
  <2>7. CASE StoreSender(t) BY <2>7 DEF StoreSender
  <2>8. CASE CompleteOnce(t) BY <2>8 DEF CompleteOnce, PassOnce, AfterOnce
  <2>9. CASE Attach(t) BY <2>9 DEF Attach
  <2>10. CASE UseLean(t) BY <2>10 DEF UseLean
  <2>11. CASE FetchSender(t) BY <2>11 DEF FetchSender
  <2>12. CASE SendTask(t) BY <2>12 DEF SendTask
  <2>13. CASE SendTaskFails(t) BY <2>13 DEF SendTaskFails
  <2>14. CASE RecvDone(t) BY <2>14 DEF RecvDone
  <2>15. CASE RecvDoneFails(t) BY <2>15 DEF RecvDoneFails
  <2> QED
    BY <1>1, <2>1, <2>2, <2>3, <2>4, <2>5, <2>6, <2>7, <2>8, <2>9, <2>10, <2>11,
       <2>12, <2>13, <2>14, <2>15 DEF CallerStep
<1>2. ASSUME NEW t \in Threads, NEW o \in Ops, Call(t, o) PROVE RanInv'
  BY <1>2 DEF Call
<1>3. ASSUME WorkerNext PROVE RanInv'
  <2>1. CASE BootRuntime BY <2>1 DEF BootRuntime
  <2>2. CASE BootThread BY <2>2 DEF BootThread
  <2>3. CASE BootTaskManager BY <2>3 DEF BootTaskManager
  <2>4. CASE BootMark BY <2>4 DEF BootMark
  <2>5. CASE BootEnv BY <2>5 DEF BootEnv
  <2>6. CASE BootEnvPanics BY <2>6 DEF BootEnvPanics
  <2>7. CASE TaskReturns BY <2>7 DEF TaskReturns
  <2>8. CASE TaskPanics BY <2>8 DEF TaskPanics
  <2>9. CASE TaskNests BY <2>9 DEF TaskNests
  <2> QED
    BY <1>3, <2>1, <2>2, <2>3, <2>4, <2>5, <2>6, <2>7, <2>8, <2>9 DEF WorkerNext
<1>4. CASE UNCHANGED vars
  BY <1>4 DEF vars
<1> QED
  BY <1>1, <1>2, <1>3, <1>4 DEF Next

\* Every step keeps it, so it always holds.
LEMMA IInvIsInductive == Spec => []IInv
<1>1. IInv /\ [Next]_vars => IInv'
  BY NextKeepsTypes, NextKeepsOnceInv, NextKeepsBootInv, NextKeepsDispatchInv, NextKeepsRanInv
     DEF IInv
<1> QED
  BY InitEstablishesIInv, <1>1, PTL DEF Spec

-----------------------------------------------------------------------------
(* What the runs check, for every number of threads, calls and panics.     *)

\* Every variable keeps its type.
THEOREM TypeCorrect == Spec => []TypeOK
<1>1. IInv => TypeOK
  BY DEF IInv
<1> QED
  BY IInvIsInductive, <1>1, PTL

\* No thread is in Lean code before it is attached and Lean is initialized, and
\* the module initializers run on the worker thread and nowhere else.
THEOREM LeanOnlyAfterBootHolds == Spec => []LeanOnlyAfterBoot
<1>1. IInv => LeanOnlyAfterBoot
  BY DEF IInv, LeanOnlyAfterBoot, OnceInv, BootInv, DispatchInv, BeyondOnce, Serving
<1> QED
  BY IInvIsInductive, <1>1, PTL

\* What a dispatched closure borrows from its caller's stack outlives it.
THEOREM CapturesOutliveUseHolds == Spec => []CapturesOutliveUse
<1>1. IInv => CapturesOutliveUse
  BY DEF IInv, TypeOK, CapturesOutliveUse, DispatchInv
<1> QED
  BY IInvIsInductive, <1>1, PTL

\* The sender is stored before anyone unwraps it.
THEOREM SenderStoredBeforeFetchHolds == Spec => []SenderStoredBeforeFetch
<1>1. IInv => SenderStoredBeforeFetch
  BY DEF IInv, SenderStoredBeforeFetch, OnceInv, BeyondOnce
<1> QED
  BY IInvIsInductive, <1>1, PTL

\* A call that returned ran its closure exactly once.
THEOREM ReturnedMeansRanOnceHolds == Spec => []ReturnedMeansRanOnce
<1>1. ASSUME IInv, NEW t \in Threads
      PROVE  ran[t] <= 1 /\ (op[t] = "with_worker" /\ outcome[t] = "ok" => ran[t] = 1)
  <2>1. ran[t] = 0 \/ ran[t] = 1
    BY <1>1 DEF IInv, RanInv
  <2>2. op[t] = "with_worker" /\ outcome[t] = "ok" => ran[t] = 1
    BY <1>1 DEF IInv, RanInv
  <2> QED
    BY <2>1, <2>2
<1>2. IInv => ReturnedMeansRanOnce
  BY <1>1 DEF ReturnedMeansRanOnce
<1> QED
  BY IInvIsInductive, <1>2, PTL

\* The step form of DeathIsFinal.
NothingAfterDeath ==
  worker = "dead" =>
    /\ worker' = "dead"
    /\ \A t \in Threads : op[t] = "with_worker" /\ outcome[t] = "none" => outcome'[t] # "ok"

\* No step brings a dead worker back or lets a call on it succeed.
LEMMA StepsRespectDeath ==
  ASSUME IInv, Next
  PROVE  NothingAfterDeath
<1> USE DEF NothingAfterDeath, IInv, TypeOK, OnceInv, BootInv, DispatchInv, Goto, Leave,
            WorkerStep, callerVars, bootVars, threadVars
<1>1. ASSUME NEW t \in Threads, CallerStep(t) PROVE NothingAfterDeath
  BY <1>1 DEF CallerStep, OnceComplete, OncePoisoned, Spawn, SpawnFails, RecvInit, RecvInitFails,
              StoreSender, CompleteOnce, PassOnce, AfterOnce, Attach, UseLean, FetchSender,
              SendTask, SendTaskFails, RecvDone, RecvDoneFails
<1>2. ASSUME NEW t \in Threads, NEW o \in Ops, Call(t, o) PROVE NothingAfterDeath
  BY <1>2 DEF Call
<1>3. CASE WorkerNext
  BY <1>3 DEF WorkerNext, BootRuntime, BootThread, BootTaskManager, BootMark, BootEnv,
              BootEnvPanics, TaskReturns, TaskPanics, TaskNests
<1> QED
  BY <1>1, <1>2, <1>3 DEF Next

\* The worker is never restarted, and nothing is served after its death.
THEOREM DeathIsFinalHolds == Spec => DeathIsFinal
<1>1. IInv /\ [Next]_vars => [NothingAfterDeath]_vars
  BY StepsRespectDeath
<1> QED
  BY IInvIsInductive, <1>1, PTL DEF Spec, DeathIsFinal, NothingAfterDeath

-----------------------------------------------------------------------------
(* Runtime implements SerialExecutor.                                      *)


\* The initial states map to the initial state.
LEMMA InitRefines == Init => Executor!Init
BY RuntimeAssumption DEF Init, Executor!Init, CallStatus

\* A step that moves only the call of t, from one abstract status to another, is
\* that move of the executor.
LEMMA MoveRefines ==
  ASSUME NEW t \in Threads, NEW from, NEW to,
         CallStatus(t) = from, CallStatus(t)' = to,
         \A u \in Threads \ {t} : CallStatus(u)' = CallStatus(u)
  PROVE  Executor!Become(t, from, to)
<1>1. [u \in Threads |-> CallStatus(u)]'
        = [[u \in Threads |-> CallStatus(u)] EXCEPT ![t] = to]
  OBVIOUS
<1> QED
  BY <1>1 DEF Executor!Become

\* Every step of a caller maps to a step of the executor or to a stutter.
LEMMA CallerStepRefines ==
  ASSUME IInv, NEW t \in Threads, CallerStep(t)
  PROVE  [Executor!Next]_(Executor!vars)
<1> USE RuntimeAssumption
    DEF IInv, TypeOK, OnceInv, BootInv, DispatchInv, BootPCs, Serving, BeyondOnce, InsideOnce,
        Goto, Leave, WorkerStep, callerVars, bootVars, threadVars,
        Executor!Next, Executor!vars, Ops, CallerPCs, WorkerPCs, OnceStates
<1>1. CASE OnceComplete(t) BY <1>1 DEF OnceComplete, CallStatus, PassOnce, AfterOnce
<1>2. CASE OncePoisoned(t)
  <2>1. \A u \in Threads \ {t} : CallStatus(u)' = CallStatus(u)
    BY <1>2 DEF OncePoisoned, CallStatus
  <2>2. ~(once # "poisoned" /\ worker # "dead")'
    BY <1>2 DEF OncePoisoned
  <2>3. CASE op[t] = "with_worker"
    <3>1. CallStatus(t) = "waiting" /\ CallStatus(t)' = "idle"
      BY <1>2, <2>3 DEF OncePoisoned, CallStatus
    <3>2. Executor!Refuse(t)
      BY <2>1, <2>2, <3>1, MoveRefines DEF Executor!Refuse
    <3> QED
      BY <3>2
  <2>4. CASE op[t] # "with_worker"
    <3>1. CallStatus(t) = "idle" /\ CallStatus(t)' = "idle"
      BY <1>2, <2>4 DEF OncePoisoned, CallStatus
    <3>2. Executor!Retire
      BY <2>1, <2>2, <3>1 DEF Executor!Retire
    <3> QED
      BY <3>2
  <2> QED
    BY <2>3, <2>4
<1>3. CASE Spawn(t) BY <1>3 DEF Spawn, CallStatus
<1>4. CASE SpawnFails(t)
  <2>1. \A u \in Threads \ {t} : CallStatus(u)' = CallStatus(u)
    BY <1>4 DEF SpawnFails, CallStatus
  <2>2. ~(once # "poisoned" /\ worker # "dead")'
    BY <1>4 DEF SpawnFails
  <2>3. CASE op[t] = "with_worker"
    <3>1. CallStatus(t) = "waiting" /\ CallStatus(t)' = "idle"
      BY <1>4, <2>3 DEF SpawnFails, CallStatus
    <3>2. Executor!Refuse(t)
      BY <2>1, <2>2, <3>1, MoveRefines DEF Executor!Refuse
    <3> QED
      BY <3>2
  <2>4. CASE op[t] # "with_worker"
    <3>1. CallStatus(t) = "idle" /\ CallStatus(t)' = "idle"
      BY <1>4, <2>4 DEF SpawnFails, CallStatus
    <3>2. Executor!Retire
      BY <2>1, <2>2, <3>1 DEF Executor!Retire
    <3> QED
      BY <3>2
  <2> QED
    BY <2>3, <2>4
<1>5. CASE RecvInit(t) BY <1>5 DEF RecvInit, CallStatus
<1>6. CASE RecvInitFails(t)
  <2>1. \A u \in Threads \ {t} : CallStatus(u)' = CallStatus(u)
    BY <1>6 DEF RecvInitFails, CallStatus
  <2>2. ~(once # "poisoned" /\ worker # "dead")'
    BY <1>6 DEF RecvInitFails
  <2>3. CASE op[t] = "with_worker"
    <3>1. CallStatus(t) = "waiting" /\ CallStatus(t)' = "idle"
      BY <1>6, <2>3 DEF RecvInitFails, CallStatus
    <3>2. Executor!Refuse(t)
      BY <2>1, <2>2, <3>1, MoveRefines DEF Executor!Refuse
    <3> QED
      BY <3>2
  <2>4. CASE op[t] # "with_worker"
    <3>1. CallStatus(t) = "idle" /\ CallStatus(t)' = "idle"
      BY <1>6, <2>4 DEF RecvInitFails, CallStatus
    <3>2. Executor!Retire
      BY <2>1, <2>2, <3>1 DEF Executor!Retire
    <3> QED
      BY <3>2
  <2> QED
    BY <2>3, <2>4
<1>7. CASE StoreSender(t) BY <1>7 DEF StoreSender, CallStatus
<1>8. CASE CompleteOnce(t) BY <1>8 DEF CompleteOnce, CallStatus, PassOnce, AfterOnce
<1>9. CASE Attach(t) BY <1>9 DEF Attach, CallStatus
<1>10. CASE UseLean(t) BY <1>10 DEF UseLean, CallStatus
<1>11. CASE FetchSender(t) BY <1>11 DEF FetchSender, CallStatus
<1>12. CASE SendTask(t)
  <2>1. CallStatus(t) = "waiting" /\ CallStatus(t)' = "running"
    BY <1>12 DEF SendTask, CallStatus
  <2>2. \A u \in Threads \ {t} : CallStatus(u)' = CallStatus(u)
    BY <1>12 DEF SendTask, CallStatus
  <2>3. \A u \in Threads : CallStatus(u) # "running"
    BY <1>12 DEF SendTask, CallStatus
  <2>4. Executor!Start(t)
    <3>1. once # "poisoned" /\ (once # "poisoned" /\ worker # "dead")'
      BY <1>12 DEF SendTask
    <3> QED
      BY <1>12, <2>1, <2>2, <2>3, <3>1, MoveRefines DEF SendTask, Executor!Start
  <2> QED
    BY <2>4
<1>13. CASE SendTaskFails(t)
  <2>1. CallStatus(t) = "waiting" /\ CallStatus(t)' = "idle"
    BY <1>13 DEF SendTaskFails, CallStatus
  <2>2. \A u \in Threads \ {t} : CallStatus(u)' = CallStatus(u)
    BY <1>13 DEF SendTaskFails, CallStatus
  <2>3. Executor!Refuse(t)
    BY <1>13, <2>1, <2>2, MoveRefines DEF SendTaskFails, Executor!Refuse
  <2> QED
    BY <2>3
<1>14. CASE RecvDone(t)
  <2>1. CallStatus(t) = "finished" /\ CallStatus(t)' = "idle"
    BY <1>14 DEF RecvDone, CallStatus
  <2>2. \A u \in Threads \ {t} : CallStatus(u)' = CallStatus(u)
    BY <1>14 DEF RecvDone, CallStatus
  <2>3. Executor!Deliver(t)
    BY <1>14, <2>1, <2>2, MoveRefines DEF RecvDone, Executor!Deliver
  <2> QED
    BY <2>3
<1>15. CASE RecvDoneFails(t)
  <2>1. CallStatus(t) = "lost" /\ CallStatus(t)' = "idle"
    BY <1>15 DEF RecvDoneFails, CallStatus
  <2>2. \A u \in Threads \ {t} : CallStatus(u)' = CallStatus(u)
    BY <1>15 DEF RecvDoneFails, CallStatus
  <2>3. Executor!Lose(t)
    BY <1>15, <2>1, <2>2, MoveRefines DEF RecvDoneFails, Executor!Lose
  <2> QED
    BY <2>3
<1> QED
  BY <1>1, <1>2, <1>3, <1>4, <1>5, <1>6, <1>7, <1>8, <1>9, <1>10, <1>11, <1>12, <1>13,
     <1>14, <1>15 DEF CallerStep

\* A new call is a submission, or nothing the executor sees.
LEMMA CallRefines ==
  ASSUME IInv, NEW t \in Threads, NEW o \in Ops, Call(t, o)
  PROVE  [Executor!Next]_(Executor!vars)
<1> USE DEF IInv, TypeOK, Ops, Call, Goto, bootVars, Executor!Next, Executor!vars
<1>1. \A u \in Threads \ {t} : CallStatus(u)' = CallStatus(u)
  BY DEF CallStatus
<1>2. UNCHANGED (once # "poisoned" /\ worker # "dead")
  OBVIOUS
<1>3. CASE o = "with_worker"
  <2>1. CallStatus(t) = "idle" /\ CallStatus(t)' = "waiting"
    BY <1>3 DEF CallStatus
  <2>2. Executor!Submit(t)
    BY <1>1, <1>2, <2>1, MoveRefines DEF Executor!Submit
  <2> QED
    BY <2>2
<1>4. CASE o # "with_worker"
  <2>1. CallStatus(t) = "idle" /\ CallStatus(t)' = "idle"
    BY <1>4 DEF CallStatus
  <2> QED
    BY <1>1, <1>2, <2>1
<1> QED
  BY <1>3, <1>4

\* A step of the worker finishes or crashes the closure it runs, retires the
\* executor before it ever ran, or is invisible.
LEMMA WorkerNextRefines ==
  ASSUME IInv, WorkerNext
  PROVE  [Executor!Next]_(Executor!vars)
<1> USE RuntimeAssumption
    DEF IInv, TypeOK, OnceInv, BootInv, DispatchInv, BootPCs, WorkerStep, callerVars, bootVars,
        threadVars, Executor!Next, Executor!vars
<1>1. ASSUME BootRuntime \/ BootThread \/ BootTaskManager \/ BootMark \/ BootEnv \/ TaskNests
      PROVE  [Executor!Next]_(Executor!vars)
  <2>1. \A t \in Threads : CallStatus(t)' = CallStatus(t)
    BY <1>1 DEF BootRuntime, BootThread, BootTaskManager, BootMark, BootEnv, TaskNests, CallStatus
  <2>2. UNCHANGED (once # "poisoned" /\ worker # "dead")
    BY <1>1 DEF BootRuntime, BootThread, BootTaskManager, BootMark, BootEnv, TaskNests
  <2> QED
    BY <2>1, <2>2
<1>2. CASE BootEnvPanics
  <2>1. \A t \in Threads : CallStatus(t)' = CallStatus(t)
    BY <1>2 DEF BootEnvPanics, CallStatus
  <2>2. Executor!Retire
    BY <1>2, <2>1 DEF BootEnvPanics, Executor!Retire
  <2> QED
    BY <2>2
<1>3. CASE TaskReturns
  <2>1. PICK t \in Threads : t = current
    BY <1>3 DEF TaskReturns
  <2>2. CallStatus(t) = "running" /\ CallStatus(t)' = "finished"
    BY <1>3, <2>1 DEF TaskReturns, CallStatus
  <2>3. \A u \in Threads \ {t} : CallStatus(u)' = CallStatus(u)
    BY <2>1, <1>3 DEF TaskReturns, CallStatus
  <2>4. UNCHANGED (once # "poisoned" /\ worker # "dead")
    BY <1>3 DEF TaskReturns
  <2>5. Executor!Finish(t)
    BY <2>1, <2>2, <2>3, <2>4, MoveRefines DEF Executor!Finish
  <2> QED
    BY <2>1, <2>5
<1>4. CASE TaskPanics
  <2>1. PICK t \in Threads : t = current
    BY <1>4 DEF TaskPanics
  <2>2. CallStatus(t) = "running" /\ CallStatus(t)' = "lost"
    BY <1>4, <2>1 DEF TaskPanics, CallStatus
  <2>3. \A u \in Threads \ {t} : CallStatus(u)' = CallStatus(u)
    BY <2>1, <1>4 DEF TaskPanics, CallStatus
  <2>4. ~(once # "poisoned" /\ worker # "dead")'
    BY <1>4 DEF TaskPanics
  <2>5. Executor!Crash(t)
    BY <2>1, <2>2, <2>3, <2>4, MoveRefines DEF Executor!Crash
  <2> QED
    BY <2>1, <2>5
<1> QED
  BY <1>1, <1>2, <1>3, <1>4 DEF WorkerNext

\* The worker, its Once and its channels implement the serial executor: one
\* closure at a time, each at most once, failures only when the worker is dead.
THEOREM RuntimeImplementsSerialExecutor == Spec => ImplementsSerialExecutor
<1>1. IInv /\ [Next]_vars => [Executor!Next]_(Executor!vars)
  <2>1. CASE Next
    BY <2>1, CallerStepRefines, CallRefines, WorkerNextRefines DEF Next
  <2>2. CASE UNCHANGED vars
    BY <2>2 DEF vars, callerVars, bootVars, threadVars, Executor!vars, CallStatus
  <2> QED
    BY <2>1, <2>2
<1> QED
  BY IInvIsInductive, InitRefines, <1>1, PTL DEF Spec, ImplementsSerialExecutor, Executor!Spec

-----------------------------------------------------------------------------
(* The composition with the task manager.                                  *)

\* The uses of the task manager that hold TASK_MANAGER_GUARD.
Holding == {"locked", "init", "store"}

\* A thread past the lock holds the guard.
GuardInv ==
  /\ use \in [Threads -> {"out", "wait", "wait_init", "locked", "init", "store", "done"}]
  /\ \A t \in Threads : use[t] \in Holding => guard = t

-----------------------------------------------------------------------------
\* Every step of the composition is a step of Runtime or leaves it alone.
LEMMA ManagerStepsAreRuntimeSteps == [ManagerNext]_tmVars => [Next]_vars
<1> SUFFICES ASSUME [ManagerNext]_tmVars PROVE [Next]_vars
  OBVIOUS
<1>1. ASSUME NEW t \in Threads, CallerMoves(t) PROVE Next
  <2>1. CallerStep(t)
    BY <1>1 DEF CallerMoves, LeaveLean, CallerStep
  <2> QED
    BY <2>1 DEF Next
<1>2. ASSUME NEW t \in Threads, Ensure(t) \/ InitManager(t) \/ ManagerStep(t)
      PROVE  UNCHANGED vars
  BY <1>2 DEF Ensure, InitManager, ManagerStep, Lock, Recheck, InitReturns, StoreFlag
<1>3. CASE WorkerMoves
  <2>1. WorkerNext
    BY <1>3 DEF WorkerMoves, BootManager, WorkerNext
  <2> QED
    BY <2>1 DEF Next
<1>4. CASE \E t \in Threads, o \in Ops : EnterCall(t, o)
  BY <1>4 DEF EnterCall, Next
<1>5. CASE UNCHANGED tmVars
  BY <1>5 DEF tmVars
<1> QED
  BY <1>1, <1>2, <1>3, <1>4, <1>5 DEF ManagerNext

\* The composition implements Runtime: the theorems of RuntimeProofs hold of it.
THEOREM ManagerImplementsRuntime == ManagerSpec => Spec
<1>1. ManagerInit => Init
  BY DEF ManagerInit
<1> QED
  BY <1>1, ManagerStepsAreRuntimeSteps, PTL DEF ManagerSpec, Spec

-----------------------------------------------------------------------------
\* Whoever is past the lock holds the guard alone.
LEMMA NextKeepsGuardInv ==
  ASSUME GuardInv, [ManagerNext]_tmVars
  PROVE  GuardInv'
<1> USE RuntimeAssumption DEF GuardInv, Holding, UseAt, Proceed
<1>1. ASSUME UNCHANGED managerVars PROVE GuardInv'
  BY <1>1 DEF managerVars
<1>2. ASSUME NEW t \in Threads, LeaveLean(t) PROVE GuardInv'
  BY <1>2 DEF LeaveLean, NotInUse
<1>3. ASSUME NEW t \in Threads, Ensure(t) \/ InitManager(t) PROVE GuardInv'
  BY <1>3 DEF Ensure, InitManager
<1>4. ASSUME NEW t \in Threads, ManagerStep(t) PROVE GuardInv'
  <2>1. CASE Lock(t) BY <2>1 DEF Lock
  <2>2. CASE Recheck(t) BY <2>2 DEF Recheck
  <2>3. CASE InitReturns(t) BY <2>3 DEF InitReturns
  <2>4. CASE StoreFlag(t) BY <2>4 DEF StoreFlag
  <2> QED
    BY <1>4, <2>1, <2>2, <2>3, <2>4 DEF ManagerStep
<1>5. ASSUME NEW t \in Threads, NEW o \in Ops, EnterCall(t, o) PROVE GuardInv'
  BY <1>5 DEF EnterCall, NotInUse
<1>6. CASE BootManager
  BY <1>6 DEF BootManager
<1>7. CASE UNCHANGED tmVars
  BY <1>1, <1>7 DEF tmVars
<1> QED
  BY <1>1, <1>2, <1>3, <1>4, <1>5, <1>6, <1>7 DEF ManagerNext, CallerMoves, WorkerMoves

\* One thread at a time sets Lean's task manager up: the guard excludes the
\* callers from each other, WORKER_INIT excludes those inside of with_lean from
\* the boot.
THEOREM SetUpAloneHolds == ManagerSpec => []SetUpAlone
<1>1. ManagerInit => GuardInv
  BY DEF ManagerInit, GuardInv, Holding
<1>2. ManagerSpec => []IInv
  BY ManagerImplementsRuntime, IInvIsInductive, PTL
<1>3. GuardInv /\ IInv => SetUpAlone
  <2> SUFFICES ASSUME GuardInv, IInv, NEW t \in Threads, UseAt(t, "init")
               PROVE  /\ \A u \in Threads : UseAt(u, "init") => u = t
                      /\ worker = "task_manager" => pc[t] = "idle"
    BY DEF SetUpAlone
  <2>1. \A u \in Threads : UseAt(u, "init") => u = t
    BY DEF UseAt, GuardInv, Holding
  <2>2. ASSUME pc[t] = "lean" PROVE worker # "task_manager"
    <3>1. once = "complete"
      BY <2>2 DEF IInv, OnceInv, BeyondOnce
    <3> QED
      BY <3>1 DEF IInv, OnceInv, Serving
  <2> QED
    BY <2>1, <2>2 DEF UseAt
<1> QED
  BY <1>1, <1>2, <1>3, NextKeepsGuardInv, PTL DEF ManagerSpec
=============================================================================
