------------------------------ MODULE Promises ------------------------------
(***************************************************************************)
(* A promise and its task (leo3/src/promise.rs), shared by threads through *)
(* clones and TaskHandles (leo3/src/task.rs) and awaited on tokio's        *)
(* blocking pool (leo3/src/tokio_bridge.rs).                               *)
(*                                                                         *)
(* new and resolve run on the runtime worker, of which only its promise to *)
(* its callers is used: SerialExecutor, which Runtime implements.  A       *)
(* closure of the program on that worker may itself wait for the task.     *)
(***************************************************************************)
EXTENDS Naturals, FiniteSets

CONSTANTS
  Threads,       \* threads of the program
  Values,        \* what the promise is resolved with; each is used once
  Unresolved,    \* the task has no value yet
  Nothing,       \* the value of a task whose promise was dropped unresolved; no result
  MaxHandles,    \* bound: handles to the promise, and to its task
  WorkerMayWait, \* whether a closure on the worker may wait for the task
  WorkerMayDie   \* whether another closure may kill the worker

ASSUME PromisesAssumption ==
  /\ IsFiniteSet(Threads)
  /\ Unresolved \notin Values /\ Nothing \notin Values /\ Unresolved # Nothing
  /\ Values \cap {"none", "new", "failed", "rejected", "wait", "waiting", "empty", "promise", "task"} = {}
  /\ MaxHandles \in Nat /\ WorkerMayWait \in BOOLEAN /\ WorkerMayDie \in BOOLEAN

VARIABLES
  status, alive,  \* the worker, as its callers know it
  job,      \* what the current call of each thread does on the worker
  made,     \* whether the promise was created
  promises, \* LeanPromise handles of each thread
  tasks,    \* LeanTask and TaskHandle handles of each thread
  at,       \* the blocking operation a thread is in
  result,   \* the value of the task
  results,  \* what each thread has got from the task
  pool,     \* the job of each thread on tokio's blocking pool
  unused,   \* values nobody has resolved with
  counts,   \* reference counts of the promise, its task and the values
  leaked,   \* values that unwinding left behind
  errors    \* how many calls of resolve have come back with an error

workerVars == <<status, alive>>
promiseVars == <<workerVars, job, made, promises, tasks, at, result, results, pool, unused, counts, leaked, errors>>

Exec == INSTANCE SerialExecutor WITH Threads <- Threads, status <- status, alive <- alive

\* How many there are in all, when thread t has f[t].
Sum(f) == Cardinality(UNION {{t} \X (1..f[t]) : t \in DOMAIN f})
Free(t) == at[t] = "idle" /\ status[t] = "idle"
Change(f, t, n) == f' = [f EXCEPT ![t] = n]

-----------------------------------------------------------------------------
(* References: the promise has one to its task, the task one to its value. *)

IncRef(c, o) == [c EXCEPT ![o] = @ + 1]
DecValue(c, v) == IF v \in Values THEN [c EXCEPT ![v] = @ - 1] ELSE c
DecTask(c) ==
  IF c["task"] = 1 THEN DecValue([c EXCEPT !["task"] = 0], result) ELSE [c EXCEPT !["task"] = @ - 1]
DecPromise(c) ==
  IF c["promise"] = 1 THEN DecTask([c EXCEPT !["promise"] = 0]) ELSE [c EXCEPT !["promise"] = @ - 1]

\* A promise that nobody can resolve any more may give its task a value of its own.
DropPromise(c) ==
  /\ counts' = DecPromise(c)
  /\ IF c["promise"] = 1 /\ result = Unresolved THEN result' \in {Unresolved, Nothing}
     ELSE UNCHANGED result

PromisesInit ==
  /\ Exec!Init
  /\ job = [t \in Threads |-> "none"] /\ made = FALSE
  /\ promises = [t \in Threads |-> 0] /\ tasks = [t \in Threads |-> 0]
  /\ at = [t \in Threads |-> "idle"] /\ result = Unresolved
  /\ results = [t \in Threads |-> Nothing] /\ pool = [t \in Threads |-> "none"]
  /\ unused = Values /\ counts = [o \in {"promise", "task"} \cup Values |-> 0]
  /\ leaked = {} /\ errors = 0

-----------------------------------------------------------------------------
(* LeanPromise::new *)

CallNew(t) ==
  /\ Free(t) /\ ~made
  /\ Exec!Submit(t)
  /\ made' = TRUE /\ Change(job, t, "new")
  /\ UNCHANGED <<promises, tasks, at, result, results, pool, unused, counts, leaked, errors>>

\* lean_io_promise_new, which may fail before Lean 4.26.
RunNew(t) ==
  /\ job[t] = "new"
  /\ Exec!Finish(t)
  /\ \/ counts' = [counts EXCEPT !["promise"] = 1, !["task"] = 1] /\ UNCHANGED job
     \/ UNCHANGED counts /\ Change(job, t, "failed")
  /\ UNCHANGED <<made, promises, tasks, at, result, results, pool, unused, leaked, errors>>

ReturnNew(t) ==
  /\ job[t] = "new" /\ Exec!Deliver(t)
  /\ Change(job, t, "none") /\ Change(promises, t, promises[t] + 1)
  /\ UNCHANGED <<made, tasks, at, result, results, pool, unused, counts, leaked, errors>>

ReturnError(t) ==
  /\ job[t] = "failed" /\ Exec!Deliver(t)
  /\ Change(job, t, "none")
  /\ UNCHANGED <<made, promises, tasks, at, result, results, pool, unused, counts, leaked, errors>>

(* LeanPromise::resolve: the value goes into the closure as a raw pointer, *)
(* the handle is dropped when the call returns or unwinds.                 *)

CallResolve(t, v) ==
  /\ Free(t) /\ promises[t] > 0 /\ v \in unused
  /\ Exec!Submit(t)
  /\ Change(job, t, v) /\ unused' = unused \ {v}
  /\ counts' = IncRef(counts, v)
  /\ UNCHANGED <<made, promises, tasks, at, result, results, pool, leaked, errors>>

\* Faulty variant: the error that lean_io_promise_resolve returns is not looked at.
RunResolveUnchecked(t) ==
  /\ job[t] \in Values
  /\ Exec!Finish(t)
  /\ \/ IF result = Unresolved THEN result' = job[t] /\ UNCHANGED counts
        ELSE counts' = DecValue(counts, job[t]) /\ UNCHANGED result
     \/ counts' = DecValue(counts, job[t]) /\ UNCHANGED result
  /\ UNCHANGED <<job, made, promises, tasks, at, results, pool, unused, leaked, errors>>

\* lean_io_promise_resolve: the first value stays, a second one is dropped.  Before
\* Lean 4.26 it may fail instead; the value is consumed all the same.
RunResolve(t) ==
  /\ job[t] \in Values
  /\ Exec!Finish(t)
  /\ \/ /\ IF result = Unresolved THEN result' = job[t] /\ UNCHANGED counts
           ELSE counts' = DecValue(counts, job[t]) /\ UNCHANGED result
        /\ UNCHANGED job
     \/ counts' = DecValue(counts, job[t]) /\ UNCHANGED result /\ Change(job, t, "rejected")
  /\ UNCHANGED <<made, promises, tasks, at, results, pool, unused, leaked, errors>>

ReturnResolve(t) ==
  /\ job[t] \in Values /\ Exec!Deliver(t)
  /\ Change(job, t, "none") /\ Change(promises, t, promises[t] - 1)
  /\ DropPromise(counts)
  /\ UNCHANGED <<made, tasks, at, results, pool, unused, leaked, errors>>

ReturnRejected(t) ==
  /\ job[t] = "rejected" /\ Exec!Deliver(t)
  /\ Change(job, t, "none") /\ Change(promises, t, promises[t] - 1)
  /\ DropPromise(counts)
  /\ errors' = errors + 1
  /\ UNCHANGED <<made, tasks, at, results, pool, unused, leaked>>

(* The program runs a closure on the worker that waits for the task. *)

CallWait(t) ==
  /\ WorkerMayWait /\ Free(t) /\ tasks[t] > 0 /\ results[t] = Nothing
  /\ Exec!Submit(t)
  /\ Change(job, t, "wait")
  /\ UNCHANGED <<made, promises, tasks, at, result, results, pool, unused, counts, leaked, errors>>

RunWait(t) ==
  /\ job[t] = "wait" /\ result # Unresolved
  /\ Exec!Finish(t)
  /\ UNCHANGED <<job, made, promises, tasks, at, result, results, pool, unused, counts, leaked, errors>>

ReturnWait(t) ==
  /\ job[t] = "wait" /\ Exec!Deliver(t)
  /\ Change(job, t, "none")
  /\ UNCHANGED <<made, promises, tasks, at, result, results, pool, unused, counts, leaked, errors>>

-----------------------------------------------------------------------------
(* The worker *)

WorkerStarts(t) ==
  /\ Exec!Start(t)
  /\ UNCHANGED <<job, made, promises, tasks, at, result, results, pool, unused, counts, leaked, errors>>

\* A closure of another part of the program panics on it.
WorkerDies ==
  /\ WorkerMayDie /\ alive /\ \A t \in Threads : status[t] # "running"
  /\ Exec!Retire
  /\ UNCHANGED <<job, made, promises, tasks, at, result, results, pool, unused, counts, leaked, errors>>

\* with_worker panics: resolve drops its handle, and nobody drops the value.
CallUnwinds(t) ==
  /\ ~alive /\ Exec!Refuse(t)
  /\ Change(job, t, "none")
  /\ IF job[t] \in Values
     THEN /\ Change(promises, t, promises[t] - 1)
          /\ DropPromise(counts)
          /\ leaked' = leaked \cup {job[t]}
     ELSE UNCHANGED <<promises, result, counts, leaked>>
  /\ UNCHANGED <<made, tasks, at, results, pool, unused, errors>>

-----------------------------------------------------------------------------
(* Handles.  Another thread gets one through unbind_mt.                    *)

ClonePromise(t, u) ==
  /\ Free(t) /\ promises[t] > 0 /\ Sum(promises) < MaxHandles
  /\ Change(promises, u, promises[u] + 1)
  /\ counts' = IncRef(counts, "promise")
  /\ UNCHANGED <<workerVars, job, made, tasks, at, result, results, pool, unused, leaked, errors>>

LetGoOfPromise(t) ==
  /\ Free(t) /\ promises[t] > 0
  /\ Change(promises, t, promises[t] - 1)
  /\ DropPromise(counts)
  /\ UNCHANGED <<workerVars, job, made, tasks, at, results, pool, unused, leaked, errors>>

\* Faulty variant: task() returns the promise's own reference.
TaskUncounted(t) ==
  /\ Free(t) /\ promises[t] > 0 /\ Sum(tasks) < MaxHandles
  /\ Change(tasks, t, tasks[t] + 1)
  /\ UNCHANGED <<workerVars, job, made, promises, at, result, results, pool, unused, counts, leaked, errors>>

Task(t) ==
  /\ Free(t) /\ promises[t] > 0 /\ Sum(tasks) < MaxHandles
  /\ Change(tasks, t, tasks[t] + 1)
  /\ counts' = IncRef(counts, "task")
  /\ UNCHANGED <<workerVars, job, made, promises, at, result, results, pool, unused, leaked, errors>>

\* to_handle, clone_ref, bind: a reference more, for any thread.
CloneTask(t, u) ==
  /\ Free(t) /\ tasks[t] > 0 /\ Sum(tasks) < MaxHandles
  /\ Change(tasks, u, tasks[u] + 1)
  /\ counts' = IncRef(counts, "task")
  /\ UNCHANGED <<workerVars, job, made, promises, at, result, results, pool, unused, leaked, errors>>

LetGoOfTask(t) ==
  /\ Free(t) /\ tasks[t] > 0
  /\ Change(tasks, t, tasks[t] - 1)
  /\ counts' = DecTask(counts)
  /\ UNCHANGED <<workerVars, job, made, promises, at, result, results, pool, unused, leaked, errors>>

LetGoOfResult(t) ==
  /\ Free(t) /\ results[t] # Nothing
  /\ Change(results, t, Nothing)
  /\ counts' = DecValue(counts, results[t])
  /\ UNCHANGED <<workerVars, job, made, promises, tasks, at, result, pool, unused, leaked, errors>>

-----------------------------------------------------------------------------
(* Waiting for the task *)

\* get_cloned and get_unbound keep the handle, get_owned gives it up.
Get(t, how) ==
  /\ Free(t) /\ tasks[t] > 0 /\ results[t] = Nothing
  /\ Change(at, t, how)
  /\ UNCHANGED <<workerVars, job, made, promises, tasks, result, results, pool, unused, counts, leaked, errors>>

Taken(c) == IF result \in Values THEN IncRef(c, result) ELSE c

GetReturns(t) ==
  /\ at[t] \in {"get", "get_owned"} /\ result # Unresolved
  /\ Change(at, t, "idle") /\ Change(results, t, result)
  /\ IF at[t] = "get_owned"
     THEN Change(tasks, t, tasks[t] - 1) /\ counts' = DecTask(Taken(counts))
     ELSE UNCHANGED tasks /\ counts' = Taken(counts)
  /\ UNCHANGED <<workerVars, job, made, promises, result, pool, unused, leaked, errors>>

\* spawn_on_tokio and into_tokio_future: the handle moves to the blocking pool.
IntoTokio(t) ==
  /\ Free(t) /\ tasks[t] > 0 /\ pool[t] = "none" /\ results[t] = Nothing
  /\ Change(tasks, t, tasks[t] - 1) /\ Change(pool, t, "waiting")
  /\ UNCHANGED <<workerVars, job, made, promises, at, result, results, unused, counts, leaked, errors>>

\* get_unbound on the pool, and the end of the closure that owns the handle.
PoolReturns(t) ==
  /\ pool[t] = "waiting" /\ result # Unresolved
  /\ Change(pool, t, IF result \in Values THEN result ELSE "empty")
  /\ counts' = DecTask(Taken(counts))
  /\ UNCHANGED <<workerVars, job, made, promises, tasks, at, result, results, unused, leaked, errors>>

\* The async task that awaits the JoinHandle receives what the pool got.
Await(t) ==
  /\ Free(t) /\ pool[t] \notin {"none", "waiting"} /\ results[t] = Nothing
  /\ Change(pool, t, "none")
  /\ Change(results, t, IF pool[t] \in Values THEN pool[t] ELSE Nothing)
  /\ UNCHANGED <<workerVars, job, made, promises, tasks, at, result, unused, counts, leaked, errors>>

-----------------------------------------------------------------------------
WorkerStep(t) == WorkerStarts(t) \/ RunNew(t) \/ RunResolve(t) \/ RunWait(t)
ThreadStep(t) ==
  ReturnNew(t) \/ ReturnError(t) \/ ReturnResolve(t) \/ ReturnRejected(t) \/ ReturnWait(t)
  \/ CallUnwinds(t) \/ GetReturns(t)

PromisesNext ==
  \/ WorkerDies
  \/ \E t \in Threads :
       \/ WorkerStep(t) \/ ThreadStep(t) \/ PoolReturns(t)
       \/ CallNew(t) \/ CallWait(t) \/ Task(t)
       \/ LetGoOfPromise(t) \/ LetGoOfTask(t) \/ LetGoOfResult(t)
       \/ IntoTokio(t) \/ Await(t)
       \/ \E v \in Values : CallResolve(t, v)
       \/ \E how \in {"get", "get_owned"} : Get(t, how)
       \/ \E u \in Threads : ClonePromise(t, u) \/ CloneTask(t, u)

\* The worker serves its callers, who return; nobody has to call anything.
PromisesFairness ==
  \A t \in Threads : WF_promiseVars(WorkerStep(t)) /\ WF_promiseVars(ThreadStep(t)) /\ WF_promiseVars(PoolReturns(t))

PromisesSpec == PromisesInit /\ [][PromisesNext]_promiseVars /\ PromisesFairness

-----------------------------------------------------------------------------
Holders(v) ==
  Cardinality({t \in Threads : results[t] = v}) + Cardinality({t \in Threads : pool[t] = v})
    + Cardinality({t \in Threads : job[t] = v /\ status[t] \in {"waiting", "running"}})
    + (IF result = v /\ counts["task"] > 0 THEN 1 ELSE 0) + (IF v \in leaked THEN 1 ELSE 0)

MadeBy == {t \in Threads : job[t] = "new" /\ status[t] = "finished"}

(* The promise, its task and every value have as many references as there  *)
(* are owners, whoever drops what while others wait or resolve: nobody     *)
(* waits for a freed task, and no value is freed under a thread that got   *)
(* it, nor kept but by a call that unwinds.  All that threads get is one   *)
(* value, that of the first resolve that the worker ran.                   *)
PromiseIsShared ==
  /\ counts["promise"] = Sum(promises) + Cardinality(MadeBy)
  /\ counts["task"] = Sum(tasks) + Cardinality({t \in Threads : pool[t] = "waiting"})
                        + (IF counts["promise"] > 0 THEN 1 ELSE 0)
  /\ \A v \in Values : counts[v] = Holders(v)
  /\ \A t \in Threads : results[t] \in {result, Nothing} /\ pool[t] \in {"none", "waiting", "empty", result}

ResolveCalled == unused # Values
Waiting(t) == at[t] # "idle" \/ pool[t] = "waiting"
WorkerWaits == \E t \in Threads : job[t] = "wait" /\ status[t] = "running"

\* Everybody who called resolve has been told that it failed (promise.rs:175-179).
EveryResolveFailed == errors = Cardinality(Values \ unused)

(* Once somebody calls resolve, those who wait for the task get its value, *)
(* unless the worker on which resolve runs is dead or waits itself, or     *)
(* every such call comes back with an error.                               *)
WaitersReturn ==
  \A t \in Threads :
    (ResolveCalled /\ Waiting(t)) ~>
      (~Waiting(t) \/ ~alive \/ (WorkerWaits /\ result = Unresolved) \/ EveryResolveFailed)
=============================================================================
