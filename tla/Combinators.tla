----------------------------- MODULE Combinators ----------------------------
(***************************************************************************)
(* leo3/src/task_combinators.rs: the futures JoinFuture, SelectFuture,     *)
(* RaceFuture and TimeoutFuture, driven by an executor, over the           *)
(* LeanTaskFutures of module TaskFuture, and the functions join, select,   *)
(* race and timeout, which block their caller.                             *)
(*                                                                         *)
(* One call is modelled at a time.  A poll of the outer future, or a round *)
(* of a blocking function, goes through its tasks in order; between any    *)
(* two steps tasks finish, watchers wake and the clock passes the deadline.*)
(***************************************************************************)
EXTENDS TaskFuture, FiniteSets

CONSTANTS
  RaceSize,    \* number of tasks in a race
  Executor,    \* the waker of the async task that owns the outer future
  MaxSpurious  \* bound: polls nobody asked for

ASSUME CombinatorsAssumption ==
  /\ RaceSize \in Nat \ {0, 1}
  /\ Tasks = 1..RaceSize
  /\ Executor \in Wakers
  /\ MaxSpurious \in Nat
  /\ MaxPolls >= RaceSize + 2 + MaxSpurious  \* first poll, one wake-up per thread

VARIABLES
  kind,      \* which combinator was called
  blocking,  \* whether it blocks its caller
  phase,     \* where the poll of the outer future, or the round, is
  turn,      \* the inner future, or the task, it is at
  outcome,   \* what the combinator has returned
  values,    \* tasks whose results were taken
  handles,   \* tasks of which the outer future holds a clone to cancel them
  canceled,  \* tasks whose cancellation was requested
  passed,    \* whether Instant::now() has reached the deadline
  dlSlot,    \* DeadlineWakerState.waker
  dlThread,  \* the lean-task-timeout thread
  notified,  \* whether that thread woke the executor since its last poll
  spurious   \* polls nobody asked for

call == <<kind, blocking>>
outerVars == <<phase, turn, outcome, values, handles, canceled>>
deadlineVars == <<dlSlot, dlThread, notified>>
allVars == <<vars, outerVars, deadlineVars, call, passed, spurious>>

\* The inner tasks, numbered in polling order.
Inner ==
  CASE kind \in {"join", "select"} -> {1, 2}
    [] kind = "race" -> Tasks
    [] kind = "timeout" -> {1}

End == Cardinality(Inner) + 1

OuterTypeOK ==
  /\ TypeOK
  /\ kind \in {"join", "select", "race", "timeout"} /\ blocking \in BOOLEAN
  /\ phase \in {"first", "idle", "deadline", "inner", "resolve"}
  /\ turn \in 1..End
  /\ outcome \in {"pending", "ready", "timed_out", "dropped"}
  /\ values \subseteq Inner
  /\ handles \subseteq Inner
  /\ canceled \subseteq Inner
  /\ passed \in BOOLEAN
  /\ dlSlot \in {Executor, NoWaker}
  /\ dlThread \in {"none", "sleeping", "exited"}
  /\ notified \in BOOLEAN
  /\ spurious \in 0..MaxSpurious

\* join_future, select_future, race_future, timeout_future; join, select, race,
\* timeout
OuterInit ==
  /\ kind \in {"join", "select", "race", "timeout"}
  /\ blocking \in BOOLEAN
  /\ Unpolled /\ rc = IF blocking THEN [k \in Tasks |-> 1] ELSE ReferencesTaken
  /\ task = [k \in Tasks |-> "unfinished"]
  /\ phase = IF blocking THEN "inner" ELSE "first"
  /\ turn = 1
  /\ outcome = "pending"
  /\ values = {}
  /\ handles = IF kind = "join" THEN {} ELSE Inner
  /\ canceled = {}
  /\ passed = FALSE
  /\ dlSlot = NoWaker /\ dlThread = "none" /\ notified = FALSE
  /\ spurious = 0

-----------------------------------------------------------------------------
(* The surroundings: the task manager, the clock, the threads.             *)

TaskFinishes(k) ==
  /\ Finish(k)
  /\ UNCHANGED <<outerVars, deadlineVars, call, passed, spurious>>

DeadlinePasses ==
  /\ kind = "timeout" /\ ~passed
  /\ passed' = TRUE
  /\ UNCHANGED <<vars, outerVars, deadlineVars, call, spurious>>

WatcherRuns(k) ==
  /\ WatcherStep(k)
  /\ UNCHANGED <<outerVars, deadlineVars, call, passed, spurious>>

\* The timeout thread wakes up at the deadline and takes the waker.
DeadlineThreadWakes ==
  /\ dlThread = "sleeping" /\ passed
  /\ notified' = (notified \/ dlSlot # NoWaker)
  /\ dlSlot' = NoWaker
  /\ dlThread' = "exited"
  /\ UNCHANGED <<vars, outerVars, call, passed, spurious>>

-----------------------------------------------------------------------------
(* A poll of the outer future.                                             *)

Live == {k \in Inner : fut[k] = "live"}

\* The next inner future that is still Some, from j on.
NextLive(j) ==
  IF \E k \in Live : k >= j
  THEN CHOOSE k \in Live : k >= j /\ \A i \in Live : i >= j => k <= i
  ELSE End

Notified == notified \/ \E k \in Tasks : <<k, Executor>> \in woken

\* register_deadline_waker
RegisterDeadlineWaker ==
  /\ dlSlot' = Executor
  /\ dlThread' = IF dlThread = "none" THEN "sleeping" ELSE dlThread

StartPoll ==
  /\ outcome = "pending"
  /\ notified' = FALSE
  /\ woken' = {}
  /\ turn' = NextLive(1)
  /\ IF kind = "timeout"
     THEN RegisterDeadlineWaker /\ phase' = "deadline"
     ELSE UNCHANGED <<dlSlot, dlThread>> /\ phase' = "inner"
  /\ UNCHANGED <<task, rc, futureVars, watcherVars, outcome, values, handles, canceled,
                 call, passed>>

\* The executor polls a new future, and one whose waker was woken.
PollWhenAsked ==
  /\ phase = "first" \/ (phase = "idle" /\ Notified)
  /\ StartPoll
  /\ UNCHANGED spurious

PollSpuriously ==
  /\ phase = "idle" /\ ~Notified /\ spurious < MaxSpurious
  /\ spurious' = spurious + 1
  /\ StartPoll

\* "Check deadline first": an expired TimeoutFuture cancels its task.  A blocking
\* timeout goes back to the task after a while.
CheckDeadline ==
  /\ phase = "deadline"
  /\ IF passed
     THEN /\ canceled' = canceled \cup handles
          /\ handles' = {}
          /\ phase' = "resolve"
     ELSE phase' = "inner" /\ UNCHANGED <<canceled, handles>>
  /\ UNCHANGED <<vars, turn, outcome, values, deadlineVars, call, passed, spurious>>

\* Faulty variant: the winner is asked to cancel as well.
CancelAll(k) == Inner

\* cancel_all_except, and its unrolled form in SelectFuture and TimeoutFuture.
CancelAllExcept(k) == Inner \ {k}

\* Poll::Ready(val) of the inner future at hand.  A join goes on; the others cancel
\* what is left through the clones they kept and resolve.
InnerReady(k) ==
  /\ ~blocking
  /\ phase = "inner" /\ turn = k
  /\ PollReady(k, Executor) /\ UNCHANGED woken
  /\ values' = values \cup {k}
  /\ IF kind = "join"
     THEN turn' = NextLive(k + 1) /\ UNCHANGED <<phase, handles, canceled>>
     ELSE /\ phase' = "resolve"
          /\ canceled' = canceled \cup CancelAllExcept(k)
          /\ handles' = IF kind = "race" THEN handles ELSE {}
          /\ UNCHANGED turn
  /\ dlSlot' = IF kind = "timeout" THEN NoWaker ELSE dlSlot
  /\ UNCHANGED <<outcome, dlThread, notified, call, passed, spurious>>

InnerNotReady(k) ==
  /\ ~blocking
  /\ phase = "inner" /\ turn = k
  /\ PollNotReady(k, Executor) /\ UNCHANGED woken
  /\ UNCHANGED <<outerVars, deadlineVars, call, passed, spurious>>

InnerStores(k) ==
  /\ phase = "inner" /\ turn = k
  /\ StoreWaker(k)
  /\ UNCHANGED <<outerVars, deadlineVars, call, passed, spurious>>

\* Faulty variant: a poll stops at the first inner future that is pending.
InnerPendingStops(k) ==
  /\ phase = "inner" /\ turn = k
  /\ SpawnWatcher(k)
  /\ phase' = "idle"
  /\ UNCHANGED <<turn, outcome, values, handles, canceled, deadlineVars, call, passed, spurious>>

\* Poll::Pending of the inner future at hand.
InnerPending(k) ==
  /\ phase = "inner" /\ turn = k
  /\ SpawnWatcher(k)
  /\ turn' = NextLive(k + 1)
  /\ UNCHANGED <<phase, outcome, values, handles, canceled, deadlineVars, call, passed, spurious>>

\* expect("failed to spawn ..."): the poll unwinds, and what is left is dropped.
Unwind ==
  /\ outcome' = "dropped"
  /\ handles' = {}
  /\ phase' = "resolve"
  /\ UNCHANGED <<turn, values, canceled>>

InnerSpawnFails(k) ==
  /\ phase = "inner" /\ turn = k
  /\ SpawnFails(k)
  /\ Unwind
  /\ UNCHANGED <<deadlineVars, call, passed, spurious>>

\* The first poll of a timeout spawns its thread.
DeadlineSpawnFails ==
  /\ SpawnMayFail
  /\ ~blocking /\ kind = "timeout" /\ phase = "first" /\ outcome = "pending"
  /\ dlSlot' = Executor
  /\ Unwind
  /\ UNCHANGED <<vars, dlThread, notified, call, passed, spurious>>

\* All inner futures were polled.
EndOfPoll ==
  /\ ~blocking
  /\ phase = "inner" /\ turn = End
  /\ phase' = IF values = Inner THEN "resolve" ELSE "idle"
  /\ UNCHANGED <<vars, turn, outcome, values, handles, canceled, deadlineVars, call, passed, spurious>>

\* The inner futures that are left are dropped, one after the other.
DropInner(k) ==
  /\ phase = "resolve"
  /\ DropFuture(k)
  /\ UNCHANGED <<outerVars, deadlineVars, call, passed, spurious>>

Return ==
  /\ phase = "resolve" /\ Live = {}
  /\ outcome' = IF outcome = "dropped" THEN "dropped"
                ELSE IF values = {} THEN "timed_out" ELSE "ready"
  /\ phase' = "idle"
  /\ UNCHANGED <<vars, turn, values, handles, canceled, deadlineVars, call, passed, spurious>>

\* The owner drops the outer future between two polls.
DropOuter ==
  /\ ~blocking /\ phase \in {"first", "idle"} /\ outcome = "pending"
  /\ Unwind
  /\ UNCHANGED <<vars, deadlineVars, call, passed, spurious>>

-----------------------------------------------------------------------------
(* The blocking functions.                                                 *)

\* get_owned of a task that has finished
GetOwned(k) ==
  /\ task[k] = "finished"
  /\ Set(fut, k, "done")
  /\ Set(rc, k, rc[k] - 1)
  /\ values' = values \cup {k}
  /\ UNCHANGED <<task, pc, cur, polls, watcherVars, woken>>

\* join waits for its tasks one after the other.
JoinTakes(k) ==
  /\ blocking /\ kind = "join" /\ phase = "inner" /\ turn = k
  /\ GetOwned(k)
  /\ turn' = k + 1
  /\ UNCHANGED <<phase, outcome, handles, canceled, deadlineVars, call, passed, spurious>>

\* The others take the first task they find finished and cancel the rest.
FinishedWins(k) ==
  /\ blocking /\ kind # "join" /\ phase = "inner" /\ turn = k
  /\ GetOwned(k)
  /\ canceled' = canceled \cup CancelAllExcept(k)
  /\ handles' = {}
  /\ phase' = "resolve"
  /\ UNCHANGED <<turn, outcome, deadlineVars, call, passed, spurious>>

\* timeout looks at the clock only after it has looked at the task.
NotFinished(k) ==
  /\ blocking /\ kind # "join" /\ phase = "inner" /\ turn = k
  /\ task[k] = "unfinished"
  /\ IF kind = "timeout" THEN phase' = "deadline" /\ UNCHANGED turn
                         ELSE turn' = k + 1 /\ UNCHANGED phase
  /\ UNCHANGED <<vars, outcome, values, handles, canceled, deadlineVars, call, passed, spurious>>

\* The end of a round: a join is through, the others sleep and begin again.
EndOfRound ==
  /\ blocking /\ phase = "inner" /\ turn = End
  /\ IF kind = "join" THEN phase' = "resolve" /\ UNCHANGED turn
                      ELSE turn' = 1 /\ UNCHANGED phase
  /\ UNCHANGED <<vars, outcome, values, handles, canceled, deadlineVars, call, passed, spurious>>

BlockingStep ==
  \/ EndOfRound
  \/ \E k \in Inner : JoinTakes(k) \/ FinishedWins(k) \/ NotFinished(k)

-----------------------------------------------------------------------------
OuterPollStep ==
  \/ PollWhenAsked \/ CheckDeadline \/ EndOfPoll \/ Return \/ BlockingStep
  \/ DeadlineSpawnFails
  \/ \E k \in Inner :
       InnerReady(k) \/ InnerNotReady(k) \/ InnerStores(k) \/ InnerPending(k) \/ InnerSpawnFails(k)
       \/ DropInner(k)

OuterNext ==
  \/ OuterPollStep \/ PollSpuriously \/ DropOuter
  \/ DeadlinePasses \/ DeadlineThreadWakes
  \/ \E k \in Inner : TaskFinishes(k) \/ WatcherRuns(k)

OuterSpec == OuterInit /\ [][OuterNext]_allVars

\* The executor polls what was woken, a blocking caller and the helper threads are
\* scheduled; tasks need not finish.
OuterFairSpec ==
  /\ OuterSpec
  /\ WF_allVars(OuterPollStep)
  /\ WF_allVars(DeadlineThreadWakes)
  /\ \A k \in Tasks : WF_allVars(WatcherRuns(k))

-----------------------------------------------------------------------------
\* What a combinator has done when it returns.  Ready: a join took every result and
\* canceled nothing; a select or a race took one result, asked every other task to
\* cancel and never its winner; a timeout took the result and canceled nothing.
\* Timed out: the deadline has passed, the task was asked to cancel and its result,
\* which may be there by now, is not taken.
ResolvesRightly ==
  /\ outcome = "ready" =>
       /\ \A k \in values : task[k] = "finished"
       /\ IF kind \in {"select", "race"}
          THEN Cardinality(values) = 1 /\ canceled = Inner \ values
          ELSE values = Inner /\ canceled = {}
  /\ outcome = "timed_out" => passed /\ canceled = Inner /\ values = {}

\* What the owner of the future waits for.
Due ==
  CASE kind = "join" -> \A k \in Inner : task[k] = "finished"
    [] kind \in {"select", "race"} -> \E k \in Inner : task[k] = "finished"
    [] kind = "timeout" -> passed \/ \A k \in Inner : task[k] = "finished"

\* No wake-up is lost: once its tasks have finished (or its deadline has passed) the
\* outer future resolves, polled by an executor that only polls what was woken, and
\* a blocking function returns.
Resolves == Due ~> outcome # "pending"
=============================================================================
