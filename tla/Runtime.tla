------------------------------- MODULE Runtime ------------------------------
(***************************************************************************)
(* The runtime worker of leo3: bootstrap, attachment of other threads and  *)
(* dispatch of closures (leo3/src/runtime.rs, the thread flag of           *)
(* leo3/src/sync.rs, the entry points of leo3/src/lib.rs).                 *)
(*                                                                         *)
(* WORKER_INIT and ENV_INIT are std::sync::Once: the first caller runs the *)
(* closure, the others wait, and a closure that panics poisons the Once so *)
(* that every later call_once panics.  All channels are rendezvous         *)
(* channels (sync_channel(0)): a send and the matching receive are one     *)
(* step.  A std Mutex held for one statement is part of that statement's   *)
(* step.                                                                   *)
(***************************************************************************)
EXTENDS Naturals

CONSTANTS
  Threads,     \* application threads that call into leo3
  Worker,      \* the thread named leo3-runtime-worker
  None,        \* no thread
  MaxCalls,    \* bound: calls each thread makes
  MaxPanics,   \* bound: closures that panic on the worker
  BootMayFail, \* whether spawning or initializing the worker may fail
  MayNest      \* whether a closure on the worker may itself call run_worker

ASSUME RuntimeAssumption ==
  /\ Worker \notin Threads
  /\ None \notin Threads \cup {Worker}
  /\ MaxCalls \in Nat
  /\ MaxPanics \in Nat
  /\ BootMayFail \in BOOLEAN
  /\ MayNest \in BOOLEAN

VARIABLES
  pc,       \* where each application thread is
  op,       \* the entry point its current call went through
  calls,    \* calls it has made
  outcome,  \* how its last call ended
  ran,      \* how often the closure of its current call was started
  once,     \* WORKER_INIT
  env,      \* ENV_INIT
  envBy,    \* the thread that ran the closure of ENV_INIT
  slot,     \* whether WORKER holds a sender
  worker,   \* where the worker thread is
  current,  \* the thread whose closure the worker holds
  attached, \* threads that called lean_initialize_thread
  marked,   \* threads whose LEAN_THREAD_INITIALIZED is set
  panics    \* closures that panicked on the worker

callerVars == <<pc, op, calls, outcome, ran>>
bootVars == <<once, env, envBy, slot>>
threadVars == <<attached, marked>>
vars == <<callerVars, bootVars, worker, current, threadVars, panics>>

Ops == {"prepare_freethreaded_lean", "with_lean", "with_worker"}
OnceStates == {"incomplete", "running", "complete", "poisoned"}
CallerPCs == {"idle", "once", "recv_init", "store", "complete",
              "attach", "lean", "fetch", "send", "recv_done"}
BootPCs == {"runtime_module", "thread", "task_manager", "mark", "env", "send_init"}
WorkerPCs == BootPCs \cup {"none", "recv_task", "task", "self_send", "send_done", "dead"}

TypeOK ==
  /\ pc \in [Threads -> CallerPCs]
  /\ op \in [Threads -> Ops]
  /\ calls \in [Threads -> 0..MaxCalls]
  /\ outcome \in [Threads -> {"none", "ok", "panic"}]
  /\ ran \in [Threads -> Nat]
  /\ once \in OnceStates
  /\ env \in OnceStates
  /\ envBy \in Threads \cup {Worker, None}
  /\ slot \in BOOLEAN
  /\ worker \in WorkerPCs
  /\ current \in Threads \cup {None}
  /\ attached \subseteq Threads \cup {Worker}
  /\ marked \subseteq Threads \cup {Worker}
  /\ panics \in 0..MaxPanics

Init ==
  /\ pc = [t \in Threads |-> "idle"]
  /\ op = [t \in Threads |-> "prepare_freethreaded_lean"]
  /\ calls = [t \in Threads |-> 0]
  /\ outcome = [t \in Threads |-> "none"]
  /\ ran = [t \in Threads |-> 0]
  /\ once = "incomplete"
  /\ env = "incomplete"
  /\ envBy = None
  /\ slot = FALSE
  /\ worker = "none"
  /\ current = None
  /\ attached = {}
  /\ marked = {}
  /\ panics = 0

-----------------------------------------------------------------------------
(* The calling threads.                                                    *)

Goto(t, to) == pc' = [pc EXCEPT ![t] = to]

\* The call ends, with a value or by unwinding; either way the thread may call
\* again (exported entry points catch the unwinding at the C boundary).
Leave(t, how) == Goto(t, "idle") /\ outcome' = [outcome EXCEPT ![t] = how]

\* Where a call goes once WORKER_INIT has completed.
AfterOnce(t) ==
  CASE op[t] = "prepare_freethreaded_lean" -> "idle"
    [] op[t] = "with_lean" -> "attach"
    [] op[t] = "with_worker" -> "fetch"

PassOnce(t) ==
  /\ Goto(t, AfterOnce(t))
  /\ outcome' = [outcome EXCEPT ![t] = IF AfterOnce(t) = "idle" THEN "ok" ELSE @]

\* Every entry point begins with ensure_worker_initialized.
Call(t, o) ==
  /\ pc[t] = "idle" /\ calls[t] < MaxCalls
  /\ Goto(t, "once")
  /\ op' = [op EXCEPT ![t] = o]
  /\ calls' = [calls EXCEPT ![t] = @ + 1]
  /\ outcome' = [outcome EXCEPT ![t] = "none"]
  /\ ran' = [ran EXCEPT ![t] = 0]
  /\ UNCHANGED <<bootVars, worker, current, threadVars, panics>>

OnceComplete(t) ==
  /\ pc[t] = "once" /\ once = "complete"
  /\ PassOnce(t)
  /\ UNCHANGED <<op, calls, ran, bootVars, worker, current, threadVars, panics>>

OncePoisoned(t) ==
  /\ pc[t] = "once" /\ once = "poisoned"
  /\ Leave(t, "panic")
  /\ UNCHANGED <<op, calls, ran, bootVars, worker, current, threadVars, panics>>

\* The first caller creates the channels and spawns the worker.
Spawn(t) ==
  /\ pc[t] = "once" /\ once = "incomplete"
  /\ once' = "running"
  /\ worker' = "runtime_module"
  /\ Goto(t, "recv_init")
  /\ UNCHANGED <<op, calls, outcome, ran, env, envBy, slot, current, threadVars, panics>>

SpawnFails(t) ==
  /\ BootMayFail
  /\ pc[t] = "once" /\ once = "incomplete"
  /\ once' = "poisoned"
  /\ Leave(t, "panic")
  /\ UNCHANGED <<op, calls, ran, env, envBy, slot, worker, current, threadVars, panics>>

\* Faulty variant: the worker sends init_tx before ensure_environment_initialized.
RecvInitEarly(t) ==
  /\ pc[t] = "recv_init" /\ worker = "env"
  /\ Goto(t, "store")
  /\ UNCHANGED <<op, calls, outcome, ran, bootVars, worker, current, threadVars, panics>>

\* init_rx.recv() meets init_tx.send(()).
RecvInit(t) ==
  /\ pc[t] = "recv_init" /\ worker = "send_init"
  /\ worker' = "recv_task"
  /\ Goto(t, "store")
  /\ UNCHANGED <<op, calls, outcome, ran, bootVars, current, threadVars, panics>>

\* The worker unwound and dropped init_tx.
RecvInitFails(t) ==
  /\ pc[t] = "recv_init" /\ worker = "dead"
  /\ once' = "poisoned"
  /\ Leave(t, "panic")
  /\ UNCHANGED <<op, calls, ran, env, envBy, slot, worker, current, threadVars, panics>>

StoreSender(t) ==
  /\ pc[t] = "store"
  /\ slot' = TRUE
  /\ Goto(t, "complete")
  /\ UNCHANGED <<op, calls, outcome, ran, once, env, envBy, worker, current, threadVars, panics>>

CompleteOnce(t) ==
  /\ pc[t] = "complete"
  /\ once' = "complete"
  /\ PassOnce(t)
  /\ UNCHANGED <<op, calls, ran, env, envBy, slot, worker, current, threadVars, panics>>

\* The rest of ensure_lean_thread.
Attach(t) ==
  /\ pc[t] = "attach"
  /\ attached' = attached \cup (IF t \in marked THEN {} ELSE {t})
  /\ marked' = marked \cup {t}
  /\ Goto(t, "lean")
  /\ UNCHANGED <<op, calls, outcome, ran, bootVars, worker, current, panics>>

\* The closure of with_lean: the meta entry points it can use start with
\* ensure_environment_initialized, which runs the module initializers on this
\* thread should nobody have run them.
UseLean(t) ==
  /\ pc[t] = "lean" /\ env # "running"
  /\ env' = IF env = "incomplete" THEN "complete" ELSE env
  /\ envBy' = IF env = "incomplete" THEN t ELSE envBy
  /\ Leave(t, IF env = "poisoned" THEN "panic" ELSE "ok")
  /\ UNCHANGED <<op, calls, ran, once, slot, worker, current, threadVars, panics>>

\* guard.as_ref().unwrap().clone()
FetchSender(t) ==
  /\ pc[t] = "fetch" /\ slot
  /\ Goto(t, "send")
  /\ UNCHANGED <<op, calls, outcome, ran, bootVars, worker, current, threadVars, panics>>

\* sender.send(task) meets the worker's receive.
SendTask(t) ==
  /\ pc[t] = "send" /\ worker = "recv_task"
  /\ worker' = "task"
  /\ current' = t
  /\ ran' = [ran EXCEPT ![t] = @ + 1]
  /\ Goto(t, "recv_done")
  /\ UNCHANGED <<op, calls, outcome, bootVars, threadVars, panics>>

SendTaskFails(t) ==
  /\ pc[t] = "send" /\ worker = "dead"
  /\ Leave(t, "panic")
  /\ UNCHANGED <<op, calls, ran, bootVars, worker, current, threadVars, panics>>

\* Faulty variant: the caller does not wait for done_rx (recv_timeout).
RecvDoneTimesOut(t) ==
  /\ pc[t] = "recv_done" /\ worker = "task" /\ current = t
  /\ Leave(t, "ok")
  /\ UNCHANGED <<op, calls, ran, bootVars, worker, current, threadVars, panics>>

\* done_rx.recv() meets done_tx.send(result).
RecvDone(t) ==
  /\ pc[t] = "recv_done" /\ worker = "send_done" /\ current = t
  /\ worker' = "recv_task"
  /\ current' = None
  /\ Leave(t, "ok")
  /\ UNCHANGED <<op, calls, ran, bootVars, threadVars, panics>>

\* The closure, and done_tx with it, is gone.
RecvDoneFails(t) ==
  /\ pc[t] = "recv_done" /\ current # t
  /\ Leave(t, "panic")
  /\ UNCHANGED <<op, calls, ran, bootVars, worker, current, threadVars, panics>>

-----------------------------------------------------------------------------
(* The worker thread.                                                      *)

WorkerStep(from, to) == worker = from /\ worker' = to

\* lean_initialize_runtime_module
BootRuntime ==
  /\ WorkerStep("runtime_module", "thread")
  /\ UNCHANGED <<callerVars, bootVars, current, threadVars, panics>>

BootThread ==
  /\ WorkerStep("thread", "task_manager")
  /\ attached' = attached \cup {Worker}
  /\ UNCHANGED <<callerVars, bootVars, current, marked, panics>>

\* lean_init_task_manager
BootTaskManager ==
  /\ WorkerStep("task_manager", "mark")
  /\ UNCHANGED <<callerVars, bootVars, current, threadVars, panics>>

BootMark ==
  /\ WorkerStep("mark", "env")
  /\ marked' = marked \cup {Worker}
  /\ UNCHANGED <<callerVars, bootVars, current, attached, panics>>

\* ensure_environment_initialized on the worker.  An initializer that fails an
\* assertion panics: ENV_INIT is poisoned and the worker thread ends.
BootEnv ==
  /\ WorkerStep("env", "send_init")
  /\ env \in {"incomplete", "complete"}
  /\ env' = "complete"
  /\ envBy' = IF env = "incomplete" THEN Worker ELSE envBy
  /\ UNCHANGED <<callerVars, once, slot, current, threadVars, panics>>

BootEnvPanics ==
  /\ BootMayFail
  /\ WorkerStep("env", "dead")
  /\ env = "incomplete"
  /\ env' = "poisoned"
  /\ envBy' = Worker
  /\ UNCHANGED <<callerVars, once, slot, current, threadVars, panics>>

TaskReturns ==
  /\ WorkerStep("task", "send_done")
  /\ UNCHANGED <<callerVars, bootVars, current, threadVars, panics>>

\* Faulty variant: the worker catches the panic and hands the closure back.
TaskPanicsRetries ==
  /\ WorkerStep("task", "recv_task")
  /\ current' = None
  /\ pc' = [pc EXCEPT ![current] = "send"]
  /\ UNCHANGED <<op, calls, outcome, ran, bootVars, threadVars, panics>>

\* Faulty variant: the worker catches the panic and goes on.
TaskPanicsCaught ==
  /\ WorkerStep("task", "recv_task")
  /\ current' = None
  /\ UNCHANGED <<callerVars, bootVars, threadVars, panics>>

\* Faulty variant: the panicking thread leaks done_tx (panic in a nested frame that
\* forgot the closure).
TaskPanicsLeaks ==
  /\ WorkerStep("task", "dead")
  /\ UNCHANGED <<callerVars, bootVars, current, threadVars, panics>>

\* Nothing catches the unwinding of task(): the closure and the receiver are
\* dropped and the thread ends.
TaskPanics ==
  /\ WorkerStep("task", "dead")
  /\ panics < MaxPanics
  /\ panics' = panics + 1
  /\ current' = None
  /\ UNCHANGED <<callerVars, bootVars, threadVars>>

\* The closure calls run_worker: it passes WORKER_INIT and sends to the channel
\* whose only receiver is this very thread.
TaskNests ==
  /\ MayNest
  /\ once = "complete" /\ slot
  /\ WorkerStep("task", "self_send")
  /\ UNCHANGED <<callerVars, bootVars, current, threadVars, panics>>

-----------------------------------------------------------------------------
CallerStep(t) ==
  \/ OnceComplete(t) \/ OncePoisoned(t) \/ Spawn(t) \/ SpawnFails(t)
  \/ RecvInit(t) \/ RecvInitFails(t) \/ StoreSender(t) \/ CompleteOnce(t)
  \/ Attach(t) \/ UseLean(t)
  \/ FetchSender(t) \/ SendTask(t) \/ SendTaskFails(t) \/ RecvDone(t) \/ RecvDoneFails(t)

WorkerNext ==
  \/ BootRuntime \/ BootThread \/ BootTaskManager \/ BootMark
  \/ BootEnv \/ BootEnvPanics
  \/ TaskReturns \/ TaskPanics \/ TaskNests

Next ==
  \/ \E t \in Threads : CallerStep(t)
  \/ \E t \in Threads, o \in Ops : Call(t, o)
  \/ WorkerNext

Spec == Init /\ [][Next]_vars

\* The operating system schedules every thread; nobody has to make a call.
Fairness ==
  /\ \A t \in Threads : WF_vars(CallerStep(t))
  /\ WF_vars(WorkerNext)

FairSpec == Spec /\ Fairness

-----------------------------------------------------------------------------
(* Properties.                                                             *)

\* Lean code runs, on whichever thread, only after that thread was attached and
\* the module initializers have completed, on the worker: "The Once guards in
\* ensure_*_initialized are triggered on the worker thread before any short-lived
\* thread can trigger them" (prepare_freethreaded_lean).
LeanOnlyAfterBoot ==
  /\ \A t \in Threads : pc[t] = "lean" => env = "complete" /\ t \in attached
  /\ worker \in {"task", "self_send", "send_done"} => env = "complete" /\ Worker \in attached
  /\ envBy \in {None, Worker}

\* The SAFETY argument of SendBox: as long as the worker holds the closure of a
\* thread, that thread is blocked inside the same with_worker call, so what the
\* closure borrows from its stack is alive.
CapturesOutliveUse ==
  current # None => pc[current] = "recv_done" /\ op[current] = "with_worker"

\* guard.as_ref().unwrap() never meets None: whoever passed WORKER_INIT finds the
\* sender stored.
SenderStoredBeforeFetch == \A t \in Threads : pc[t] \in {"fetch", "send"} => slot

\* A run_worker call that returned ran its closure exactly once; one that
\* unwound ran it at most once.
ReturnedMeansRanOnce ==
  \A t \in Threads :
    /\ ran[t] <= 1
    /\ op[t] = "with_worker" /\ outcome[t] = "ok" => ran[t] = 1

\* A worker that died stays dead, and no run_worker call returns a value any
\* more: there is no silent restart that would initialize Lean a second time.
DeathIsFinal ==
  [][worker = "dead" =>
       /\ worker' = "dead"
       /\ \A t \in Threads :
            op[t] = "with_worker" /\ outcome[t] = "none" => outcome'[t] # "ok"]_vars

\* Every call comes back, by returning or by unwinding, unless a closure on the
\* worker called run_worker itself and blocks the worker for good.
CallsComeBack ==
  \A t \in Threads : pc[t] # "idle" ~> (pc[t] = "idle" \/ worker = "self_send")

-----------------------------------------------------------------------------
(* The refinement.                                                         *)

\* The with_worker call of t as the abstract executor sees it.
CallStatus(t) ==
  CASE pc[t] = "idle" \/ op[t] # "with_worker" -> "idle"
    [] pc[t] # "idle" /\ pc[t] # "recv_done" /\ op[t] = "with_worker" -> "waiting"
    [] pc[t] = "recv_done" /\ op[t] = "with_worker" ->
         IF current # t THEN "lost"
         ELSE IF worker = "send_done" THEN "finished" ELSE "running"

Executor == INSTANCE SerialExecutor WITH
              status <- [t \in Threads |-> CallStatus(t)],
              alive <- once # "poisoned" /\ worker # "dead"

ImplementsSerialExecutor == Executor!Spec

=============================================================================
