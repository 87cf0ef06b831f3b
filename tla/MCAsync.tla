------------------------------ MODULE MCAsync -------------------------------
(* TaskFuture, Combinators and Promises for TLC, side by side: a behaviour is *)
(* about two futures that are polled by themselves, about a race of three     *)
(* tasks or another combinator over the first one or two of them, or about a  *)
(* promise.                                                                   *)
EXTENDS Combinators, Promises

CONSTANT MaxPlainPolls  \* bound: polls of each future that is polled by itself

VARIABLE subject  \* what the behaviour is about

RaceTasks == 1..RaceSize

CombinatorRests ==
  /\ kind = "timeout" /\ blocking = FALSE /\ phase = "first" /\ turn = 1 /\ outcome = "dropped"
  /\ values = {} /\ handles = {1} /\ canceled = {} /\ passed = FALSE
  /\ dlSlot = NoWaker /\ dlThread = "none" /\ notified = FALSE /\ spurious = 0

AsyncInit ==
  /\ PromisesInit
  /\ \/ subject = "futures" /\ Init /\ CombinatorRests /\ task[RaceSize] = "unfinished"
     \/ subject = "combinator" /\ OuterInit
     \/ subject = "promise" /\ Init /\ CombinatorRests /\ task = [k \in Tasks |-> "unfinished"]

\* The last task is there for the race.
Plain ==
  /\ \A k \in Tasks : polls'[k] <= (IF k = RaceSize THEN 0 ELSE MaxPlainPolls)
  /\ task'[RaceSize] = task[RaceSize] /\ fut'[RaceSize] = fut[RaceSize]

AsyncNext ==
  /\ subject' = subject
  /\ \/ /\ subject = "futures" /\ Next /\ Plain
        /\ UNCHANGED <<outerVars, deadlineVars, call, passed, spurious, promiseVars>>
     \/ subject = "combinator" /\ OuterNext /\ UNCHANGED promiseVars
     \/ subject = "promise" /\ PromisesNext /\ UNCHANGED allVars

\* The fairness of each part, in the behaviours that are about it.
AsyncSpec ==
  /\ AsyncInit /\ [][AsyncNext]_<<allVars, promiseVars, subject>>
  /\ \A k \in Tasks :
       WF_vars(subject = "futures" /\ PollStep(k)) /\ WF_vars(subject = "futures" /\ WatcherStep(k))
  /\ WF_allVars(subject = "combinator" /\ OuterPollStep)
  /\ WF_allVars(subject = "combinator" /\ DeadlineThreadWakes)
  /\ \A k \in Tasks : WF_allVars(subject = "combinator" /\ WatcherRuns(k))
  /\ PromisesFairness
=============================================================================
