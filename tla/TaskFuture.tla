------------------------------ MODULE TaskFuture ----------------------------
(***************************************************************************)
(* LeanTaskFuture (leo3/src/task.rs): the Future a Lean task is turned     *)
(* into, the watcher thread that wakes the executor, and the references    *)
(* both hold on the task object.                                           *)
(*                                                                         *)
(* A poll is three steps, because the task manager and the watcher thread  *)
(* run between them: the task's state is read, the waker is stored under   *)
(* its mutex, and the watcher is spawned the first time.  Wakers are the   *)
(* async tasks of the executor; the future may be moved to another one and *)
(* is then polled with that one's waker.  Every action takes the Lean task *)
(* it is about, so that Combinators can drive several of these futures.    *)
(***************************************************************************)
EXTENDS Naturals

CONSTANTS
  Tasks,        \* Lean tasks, each turned into one future
  Wakers,       \* async tasks of the executor
  NoWaker,      \* an empty waker slot
  MaxPolls,     \* bound: polls of each future
  SpawnMayFail  \* whether the operating system may refuse a thread

ASSUME TaskFutureAssumption ==
  /\ NoWaker \notin Wakers
  /\ MaxPolls \in Nat
  /\ SpawnMayFail \in BOOLEAN

VARIABLES
  task,     \* whether the Lean task has finished
  rc,       \* references to the task object held through this future
  fut,      \* the future: live, done (it returned Ready) or dropped
  pc,       \* where the poll in progress is
  cur,      \* the waker of the poll in progress or of the latest poll
  polls,    \* polls begun
  slot,     \* WakerState.waker
  spawned,  \* WakerState.thread_spawned
  watcher,  \* the lean-task-waker thread
  woken     \* wakers that were woken since their latest poll

futureVars == <<fut, pc, cur, polls>>
watcherVars == <<slot, spawned, watcher>>
vars == <<task, rc, futureVars, watcherVars, woken>>

Set(f, k, v) == f' = [f EXCEPT ![k] = v]

TypeOK ==
  /\ task \in [Tasks -> {"unfinished", "finished"}]
  /\ rc \in [Tasks -> Nat]
  /\ fut \in [Tasks -> {"live", "done", "dropped"}]
  /\ pc \in [Tasks -> {"out", "store", "spawn"}]
  /\ cur \in [Tasks -> Wakers \cup {NoWaker}]
  /\ polls \in [Tasks -> 0..MaxPolls]
  /\ slot \in [Tasks -> Wakers \cup {NoWaker}]
  /\ spawned \in [Tasks -> BOOLEAN]
  /\ watcher \in [Tasks -> {"none", "polling", "release", "wake", "exited"}]
  /\ woken \subseteq Tasks \X Wakers

\* Faulty variant: into_future takes no reference for the watcher.
NoWatcherReference == [k \in Tasks |-> 1]

\* into_future: the task's own reference moves into the future, lean_inc adds the
\* one of the watcher that has yet to be spawned.
ReferencesTaken == [k \in Tasks |-> 2]

\* No future has been polled yet.
Unpolled ==
  /\ task \in [Tasks -> {"unfinished", "finished"}]
  /\ fut = [k \in Tasks |-> "live"]
  /\ pc = [k \in Tasks |-> "out"]
  /\ cur = [k \in Tasks |-> NoWaker]
  /\ polls = [k \in Tasks |-> 0]
  /\ slot = [k \in Tasks |-> NoWaker]
  /\ spawned = [k \in Tasks |-> FALSE]
  /\ watcher = [k \in Tasks |-> "none"]
  /\ woken = {}

Init == Unpolled /\ rc = ReferencesTaken

-----------------------------------------------------------------------------
\* Lean's task manager completes the task.
Finish(k) ==
  /\ task[k] = "unfinished"
  /\ Set(task, k, "finished")
  /\ UNCHANGED <<rc, futureVars, watcherVars, woken>>

\* A live future may be polled whenever no poll of it is in progress.
BeginPoll(k, w) ==
  /\ fut[k] = "live" /\ pc[k] = "out" /\ polls[k] < MaxPolls
  /\ Set(polls, k, polls[k] + 1)
  /\ Set(cur, k, w)

\* is_finished() is true: take the task and get_owned(), which gives up the
\* future's reference to the task.
PollReady(k, w) ==
  /\ BeginPoll(k, w)
  /\ task[k] = "finished"
  /\ Set(fut, k, "done")
  /\ Set(rc, k, rc[k] - 1)
  /\ UNCHANGED <<task, pc, watcherVars>>

PollNotReady(k, w) ==
  /\ BeginPoll(k, w)
  /\ task[k] = "unfinished"
  /\ Set(pc, k, "store")
  /\ UNCHANGED <<task, rc, fut, watcherVars>>

\* Store the waker of this poll (will_wake: the same waker stays).
StoreWaker(k) ==
  /\ pc[k] = "store"
  /\ Set(slot, k, cur[k])
  /\ Set(pc, k, "spawn")
  /\ UNCHANGED <<task, rc, fut, cur, polls, spawned, watcher, woken>>

\* Spawn the watcher the first time, and return Pending.
SpawnWatcher(k) ==
  /\ pc[k] = "spawn"
  /\ Set(spawned, k, TRUE)
  /\ Set(watcher, k, IF spawned[k] THEN watcher[k] ELSE "polling")
  /\ Set(pc, k, "out")
  /\ UNCHANGED <<task, rc, fut, cur, polls, slot, woken>>

\* expect("failed to spawn lean-task-waker thread"): poll unwinds, and the future
\* with it.
SpawnFails(k) ==
  /\ SpawnMayFail
  /\ pc[k] = "spawn" /\ ~spawned[k]
  /\ Set(spawned, k, TRUE)
  /\ Set(pc, k, "out")
  /\ Set(fut, k, "dropped")
  /\ Set(rc, k, rc[k] - 1)
  /\ UNCHANGED <<task, cur, polls, slot, watcher, woken>>

\* The owner drops the future between two polls.
DropFuture(k) ==
  /\ fut[k] = "live" /\ pc[k] = "out"
  /\ Set(fut, k, "dropped")
  /\ Set(rc, k, rc[k] - 1)
  /\ UNCHANGED <<task, pc, cur, polls, watcherVars, woken>>

\* Faulty variant: the watcher gives up waiting and wakes the executor anyway.
WatcherGivesUp(k) ==
  /\ watcher[k] = "polling"
  /\ Set(watcher, k, "release")
  /\ UNCHANGED <<task, rc, futureVars, slot, spawned, woken>>

\* wait_for_task_completion: the watcher reads the state of the task object with
\* backoff until it has finished.
WatcherSees(k) ==
  /\ watcher[k] = "polling" /\ task[k] = "finished"
  /\ Set(watcher, k, "release")
  /\ UNCHANGED <<task, rc, futureVars, slot, spawned, woken>>

\* Faulty variant: a watcher that finds the future gone leaves its reference to it.
WatcherReleasesIfLive(k) ==
  /\ watcher[k] = "release"
  /\ Set(rc, k, IF fut[k] = "live" THEN rc[k] - 1 ELSE rc[k])
  /\ Set(watcher, k, "wake")
  /\ UNCHANGED <<task, futureVars, slot, spawned, woken>>

\* lean_dec of the watcher's own reference.
WatcherReleases(k) ==
  /\ watcher[k] = "release"
  /\ Set(rc, k, rc[k] - 1)
  /\ Set(watcher, k, "wake")
  /\ UNCHANGED <<task, futureVars, slot, spawned, woken>>

\* Take the waker out of the slot and wake it.
WatcherWakes(k) ==
  /\ watcher[k] = "wake"
  /\ Set(slot, k, NoWaker)
  /\ woken' = woken \cup (IF slot[k] = NoWaker THEN {} ELSE {<<k, slot[k]>>})
  /\ Set(watcher, k, "exited")
  /\ UNCHANGED <<task, rc, futureVars, spawned>>

-----------------------------------------------------------------------------
WatcherStep(k) == WatcherSees(k) \/ WatcherReleases(k) \/ WatcherWakes(k)

\* The rest of a poll that has begun.
PollStep(k) == StoreWaker(k) \/ SpawnWatcher(k) \/ SpawnFails(k)

\* The executor polls the future on its own behalf, which uses up the wake-up of
\* that waker.
ExecutorPolls(k, w) ==
  /\ PollReady(k, w) \/ PollNotReady(k, w)
  /\ woken' = woken \ {<<k, w>>}

Next ==
  \E k \in Tasks :
    \/ Finish(k) \/ DropFuture(k)
    \/ \E w \in Wakers : ExecutorPolls(k, w)
    \/ PollStep(k) \/ WatcherStep(k)

Spec == Init /\ [][Next]_vars

\* A poll that began runs to its end and the watcher thread is scheduled; the
\* task need not finish, and nobody has to poll.
FairSpec ==
  /\ Spec
  /\ \A k \in Tasks : WF_vars(PollStep(k)) /\ WF_vars(WatcherStep(k))

-----------------------------------------------------------------------------
\* As long as the future is live, or the watcher reads or releases the raw task
\* pointer, the task object has a reference left, even after the future was
\* dropped or had its result taken.
TaskOutlivesItsUsers ==
  \A k \in Tasks :
    fut[k] = "live" \/ watcher[k] \in {"polling", "release"} => rc[k] > 0

\* The watcher, once started, ends with its reference given back exactly once: what
\* is left then is the reference of a live future.
WatcherGivesBackItsReference ==
  \A k \in Tasks :
    watcher[k] \in {"wake", "exited"} => rc[k] = IF fut[k] = "live" THEN 1 ELSE 0

\* The waker of the latest poll was stored after the watcher had emptied the slot:
\* the poll read the task as unfinished, and the task finished and the watcher took
\* the waker of an earlier poll before this one stored its own (task.rs:651-663).
\* The watcher runs once (task.rs:666-670), so nobody will take the waker any more.
StoredTooLate(k) == watcher[k] = "exited" /\ slot[k] = cur[k]

SomebodyIsWoken(k) == \E w \in Wakers : <<k, w>> \in woken

\* A poll that returned Pending is followed by a wake-up once the task finishes,
\* unless the future is polled again or dropped first: of the waker it was given, or,
\* if that one was stored too late, of one of an earlier poll (task.rs:651-692).
PendingIsWoken ==
  \A k \in Tasks :
    (fut[k] = "live" /\ pc[k] = "out" /\ cur[k] # NoWaker /\ task[k] = "finished")
      ~> \/ pc[k] # "out" \/ fut[k] # "live"
         \/ <<k, cur[k]>> \in woken
         \/ StoredTooLate(k) /\ SomebodyIsWoken(k)

\* What the comments say and Future::poll obliges an implementation to: the waker of
\* the latest poll is the one to be woken, "Store/update the waker so the background
\* thread can notify us" (task.rs:655).
LatestWakerIsWoken ==
  \A k \in Tasks :
    (fut[k] = "live" /\ pc[k] = "out" /\ cur[k] # NoWaker /\ task[k] = "finished")
      ~> (pc[k] # "out" \/ fut[k] # "live" \/ <<k, cur[k]>> \in woken)

\* Once the watcher is through, somebody has a wake-up: a live future without one
\* would never be polled again (task.rs:651-692).  It is the async task that polled
\* last, unless the waker of that poll was stored too late or is yet to be stored.
WatcherLeavesWakeup ==
  \A k \in Tasks :
    fut[k] = "live" /\ watcher[k] = "exited" =>
      \/ <<k, cur[k]>> \in woken
      \/ (StoredTooLate(k) \/ pc[k] = "store") /\ SomebodyIsWoken(k)

=============================================================================
