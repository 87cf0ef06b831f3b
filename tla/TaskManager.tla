----------------------------- MODULE TaskManager ----------------------------
(***************************************************************************)
(* Lean's task manager, which the runtime worker of module Runtime sets up *)
(* while it boots and which the functions of leo3/src/task.rs set up as    *)
(* well: LeanTask::spawn before it hands a closure over, unless it finds   *)
(* TASK_MANAGER_INITIALIZED set, and init_task_manager whenever it is      *)
(* called.                                                                 *)
(*                                                                         *)
(* Neither init_task_manager nor ensure_task_manager_initialized takes a   *)
(* token: a thread calls them in a closure of with_lean, where it spawns   *)
(* tasks, or outside of any call, before or during the boot as well.  A    *)
(* thread does so once, if at all, in each closure and between two calls.  *)
(* finalize_task_manager, meant for the end of the program, is left out.   *)
(***************************************************************************)
EXTENDS Runtime

MaxManagers == 2   \* bound of the history: once, or more than once

VARIABLES
  use,       \* where the use of the task manager by each thread is
  guard,     \* who holds TASK_MANAGER_GUARD
  flag,      \* TASK_MANAGER_INITIALIZED
  managers   \* history: calls of lean_init_task_manager that have returned, up to 2

managerVars == <<use, guard, flag, managers>>
tmVars == <<vars, managerVars>>

ManagerTypeOK ==
  /\ use \in [Threads -> {"out", "wait", "wait_init", "locked", "init", "store", "done"}]
  /\ guard \in Threads \cup {None}
  /\ flag \in BOOLEAN
  /\ managers \in 0..MaxManagers

ManagerInit ==
  /\ Init
  /\ use = [t \in Threads |-> "out"]
  /\ guard = None
  /\ flag = FALSE
  /\ managers = 0

-----------------------------------------------------------------------------
UseAt(t, from) == pc[t] \in {"idle", "lean"} /\ use[t] = from
Proceed(t, to) == use' = [use EXCEPT ![t] = to]

\* lean_init_task_manager, or lean_init_task_manager_using, returns.
OneMore == managers' = IF managers < MaxManagers THEN managers + 1 ELSE managers

\* The first check of ensure_task_manager_initialized, which LeanTask::spawn calls
Ensure(t) ==
  /\ UseAt(t, "out")
  /\ Proceed(t, IF flag THEN "done" ELSE "wait")
  /\ UNCHANGED <<vars, guard, flag, managers>>

\* init_task_manager and init_task_manager_with
InitManager(t) ==
  /\ UseAt(t, "out")
  /\ Proceed(t, "wait_init")
  /\ UNCHANGED <<vars, guard, flag, managers>>

\* Faulty variant: the guard is taken for the recheck only.
LockBriefly(t) ==
  /\ UseAt(t, "wait") \/ UseAt(t, "wait_init")
  /\ guard = None
  /\ Proceed(t, IF use[t] = "wait" THEN "locked" ELSE "init")
  /\ UNCHANGED <<vars, guard, flag, managers>>

Lock(t) ==
  /\ UseAt(t, "wait") \/ UseAt(t, "wait_init")
  /\ guard = None
  /\ guard' = t
  /\ Proceed(t, IF use[t] = "wait" THEN "locked" ELSE "init")
  /\ UNCHANGED <<vars, flag, managers>>

\* The second check, under the guard.
Recheck(t) ==
  /\ UseAt(t, "locked")
  /\ IF flag THEN Proceed(t, "done") /\ guard' = None ELSE Proceed(t, "init") /\ UNCHANGED guard
  /\ UNCHANGED <<vars, flag, managers>>

InitReturns(t) ==
  /\ UseAt(t, "init")
  /\ OneMore
  /\ Proceed(t, "store")
  /\ UNCHANGED <<vars, guard, flag>>

StoreFlag(t) ==
  /\ UseAt(t, "store")
  /\ flag' = TRUE
  /\ guard' = None
  /\ Proceed(t, "done")
  /\ UNCHANGED <<vars, managers>>

ManagerStep(t) ==
  \/ Lock(t) \/ Recheck(t) \/ InitReturns(t) \/ StoreFlag(t)

-----------------------------------------------------------------------------
(* The runtime: the boot of the worker sets a task manager up and leaves   *)
(* the flag alone; a closure of with_lean ends, and a call begins, when    *)
(* the thread is through with its use of the task manager.                 *)

BootManager ==
  /\ BootTaskManager
  /\ OneMore
  /\ UNCHANGED <<use, guard, flag>>

NotInUse(t) ==
  /\ use[t] \in {"out", "done"}
  /\ Proceed(t, "out")
  /\ UNCHANGED <<guard, flag, managers>>

LeaveLean(t) == UseLean(t) /\ NotInUse(t)

EnterCall(t, o) == Call(t, o) /\ NotInUse(t)

CallerMoves(t) ==
  \/ /\ pc[t] # "lean" /\ CallerStep(t) /\ UNCHANGED managerVars
  \/ LeaveLean(t)

WorkerMoves ==
  \/ /\ worker # "task_manager" /\ WorkerNext /\ UNCHANGED managerVars
  \/ BootManager

ManagerNext ==
  \/ \E t \in Threads :
       CallerMoves(t) \/ Ensure(t) \/ InitManager(t) \/ ManagerStep(t)
  \/ \E t \in Threads, o \in Ops : EnterCall(t, o)
  \/ WorkerMoves

ManagerSpec == ManagerInit /\ [][ManagerNext]_tmVars

\* As in Runtime; a use of the task manager that has begun goes on.
ManagerFairSpec ==
  /\ ManagerSpec
  /\ \A t \in Threads : WF_tmVars(CallerMoves(t)) /\ WF_tmVars(ManagerStep(t))
  /\ WF_tmVars(WorkerMoves)

-----------------------------------------------------------------------------
\* "Serializes the lazy task-manager initialization so concurrent first spawns
\* cannot race Lean's internal g_task_manager setup" (task.rs:76-77): one thread
\* at a time comes by the guard into lean_init_task_manager.  The worker calls it
\* without the guard (runtime.rs:201): WORKER_INIT lets no closure of with_lean
\* past before that, only a thread that calls init_task_manager or
\* ensure_task_manager_initialized outside of any call meets the worker there.
SetUpAlone ==
  \A t \in Threads :
    UseAt(t, "init") =>
      /\ \A u \in Threads : UseAt(u, "init") => u = t
      /\ worker = "task_manager" => pc[t] = "idle"

=============================================================================
