-------------------------- MODULE CombinatorsProofs -------------------------
(***************************************************************************)
(* Theorems about Combinators for every size of a race and every number of *)
(* polls: what join, select, race and timeout return is what they promise, *)
(* polled or blocking, and the tasks outlive the futures and the watchers  *)
(* that read them.                                                         *)
(*                                                                         *)
(* The invariant has two halves.  One accounts for the references to the   *)
(* tasks; it is about the inner futures alone.  The other follows a call   *)
(* from its first poll to its result: which results were taken and which   *)
(* tasks were asked to cancel, at each phase, and why.                     *)
(***************************************************************************)
EXTENDS Combinators, FiniteSetTheorems, TLAPS

FutureHolds(k) == IF fut[k] = "live" THEN 1 ELSE 0

\* A blocking call makes no future, so that no watcher will ever hold a reference.
WatcherHolds(k) == IF ~blocking /\ watcher[k] \in {"none", "polling", "release"} THEN 1 ELSE 0

ReferencesExact == \A k \in Tasks : rc[k] = FutureHolds(k) + WatcherHolds(k)

PollInv ==
  \A k \in Tasks :
    /\ pc[k] # "out" => fut[k] = "live"
    /\ ~spawned[k] => watcher[k] = "none"
    /\ blocking => pc[k] = "out" /\ ~spawned[k]

\* A result was taken of a task that had finished, and by no one else.
ValuesInv ==
  \A k \in Inner :
    /\ k \in values => task[k] = "finished" /\ fut[k] = "done"
    /\ k \notin values => fut[k] # "done"
    /\ fut[k] = "dropped" => phase = "resolve" \/ outcome # "pending"

\* A call is over once it has an outcome; what is dropped is let go of first.
PhaseInv ==
  /\ outcome # "pending" => phase \in {"resolve", "idle"}
  /\ phase = "resolve" => outcome \in {"pending", "dropped"}
  /\ phase = "deadline" => kind = "timeout"
  /\ blocking => phase # "first" /\ (phase = "idle" => outcome # "pending")

\* Someone won: his result was taken and the others were asked to cancel.
Won == \E k \in Inner : values = {k} /\ canceled = Inner \ {k}

TimedOut == kind = "timeout" /\ passed /\ values = {} /\ canceled = Inner

\* The calls that stop at the first result.
FirstWinsInv ==
  kind # "join" =>
    /\ outcome = "pending" /\ phase # "resolve" =>
         values = {} /\ canceled = {} /\ handles = Inner
    /\ outcome = "pending" /\ phase = "resolve" => Won \/ TimedOut
    /\ outcome = "ready" => Won
    /\ outcome = "timed_out" => TimedOut

\* A join, which has nothing to cancel.  A blocking one takes its results in order.
JoinInv ==
  kind = "join" =>
    /\ canceled = {}
    /\ outcome = "pending" /\ phase = "resolve" => values = Inner
    /\ outcome = "ready" => values = Inner
    /\ outcome # "timed_out"
    /\ blocking /\ phase = "inner" => values = {k \in Inner : k < turn}

ReferencesInv == ReferencesExact /\ PollInv
CallInv == ValuesInv /\ PhaseInv /\ FirstWinsInv /\ JoinInv
IInv == OuterTypeOK /\ ReferencesInv /\ CallInv

-----------------------------------------------------------------------------
(* The inner tasks and the end of a round.                                  *)

\* The size of an interval that starts at 1.
LEMMA IntervalSize ==
  ASSUME NEW n \in Nat
  PROVE  Cardinality(1..n) = n
<1>1. n \in Int /\ 1 \in Int
  OBVIOUS
<1>2. Cardinality(1..n) = IF 1 > n THEN 0 ELSE n - 1 + 1
  BY <1>1, FS_Interval
<1> QED
  BY <1>2

\* The inner tasks are tasks, and End is the number after the last of them: 3 for two
\* of them, RaceSize + 1 for a race, 2 for a timeout.
LEMMA InnerTasks ==
  ASSUME kind \in {"join", "select", "race", "timeout"}
  PROVE  /\ Inner \subseteq Tasks
         /\ End \in Nat
         /\ Inner = 1..(End - 1)
         /\ 1 \in Inner
<1>0. RaceSize \in Nat /\ RaceSize >= 2 /\ Tasks = 1..RaceSize
  BY CombinatorsAssumption
<1>1. CASE kind \in {"join", "select"}
  <2>1. Inner = {1, 2}
    BY <1>1 DEF Inner
  <2>2. Inner = 1..2
    BY <2>1
  <2>3. Cardinality(1..2) = 2
    BY IntervalSize
  <2> QED
    BY <1>0, <2>2, <2>3 DEF End
<1>2. CASE kind = "race"
  <2>1. Inner = 1..RaceSize
    BY <1>0, <1>2 DEF Inner
  <2>2. Cardinality(1..RaceSize) = RaceSize
    BY <1>0, IntervalSize
  <2> QED
    BY <1>0, <2>1, <2>2 DEF End
<1>3. CASE kind = "timeout"
  <2>1. Inner = {1}
    BY <1>3 DEF Inner
  <2>2. Inner = 1..1
    BY <2>1
  <2>3. Cardinality(1..1) = 1
    BY IntervalSize
  <2> QED
    BY <1>0, <2>2, <2>3 DEF End
<1> QED
  BY <1>1, <1>2, <1>3

\* A set of natural numbers that is not empty has a smallest element.
LEMMA SmallestElement ==
  ASSUME NEW S \in SUBSET Nat, S # {}
  PROVE  \E k \in S : \A i \in S : k <= i
<1> DEFINE R == OpToRel(<, Nat)
<1>1. R = {p \in Nat \X Nat : p[1] < p[2]}
  BY DEF OpToRel
<1>2. IsWellFoundedOn(R, Nat)
  BY NatLessThanWellFounded
<1> HIDE DEF R
<1>3. PICK k \in S : \A i \in S : ~ (<<i, k>> \in R)
  BY <1>2, WFMin
<1>4. ASSUME NEW i \in S PROVE k <= i
  <2>1. ~ (i < k)
    BY <1>1, <1>3
  <2> QED
    BY <2>1
<1> QED
  BY <1>4

\* The next live inner future is an inner task, or there is none and the round ends.
LEMMA NextLiveInRound ==
  ASSUME kind \in {"join", "select", "race", "timeout"}, NEW j \in Nat
  PROVE  NextLive(j) \in 1..End
<1>1. Inner = 1..(End - 1) /\ End \in Nat /\ 1 \in Inner
  BY InnerTasks
<1>2. CASE \E k \in Live : k >= j
  <2>1. {k \in Live : k >= j} \in SUBSET Nat
    BY <1>1 DEF Live
  <2>2. \E n \in Live : n >= j /\ \A i \in Live : i >= j => n <= i
    BY <1>2, <2>1, SmallestElement
  <2>3. NextLive(j) \in Live
    BY <1>2, <2>2 DEF NextLive
  <2> QED
    BY <1>1, <2>3 DEF Live
<1>3. CASE ~ \E k \in Live : k >= j
  BY <1>1, <1>3 DEF NextLive
<1> QED
  BY <1>2, <1>3

-----------------------------------------------------------------------------
(* The inner futures.                                                       *)

\* What a step does to the inner futures.
FutureStep(k) ==
  \/ Finish(k) \/ StoreWaker(k) \/ SpawnWatcher(k) \/ SpawnFails(k) \/ DropFuture(k)
  \/ WatcherStep(k)
  \/ PollReady(k, Executor) /\ ~blocking /\ UNCHANGED woken
  \/ PollNotReady(k, Executor) /\ ~blocking /\ UNCHANGED woken
  \/ GetOwned(k) /\ blocking /\ fut[k] = "live"

FuturesRest == UNCHANGED <<task, rc, futureVars, watcherVars>> /\ woken' \in {woken, {}}

\* A blocking call takes the result of a task only once.
LEMMA BlockingTakesOnce ==
  ASSUME IInv, NEW k \in Inner, JoinTakes(k) \/ FinishedWins(k)
  PROVE  fut[k] = "live"
<1>0. kind \in {"join", "select", "race", "timeout"}
  BY DEF IInv, OuterTypeOK
<1>1. k \in Tasks /\ k \in Nat
  BY <1>0, InnerTasks
<1>2. fut[k] \in {"live", "done", "dropped"}
  BY <1>1 DEF IInv, OuterTypeOK, TypeOK
<1>3. outcome = "pending"
  BY DEF IInv, CallInv, PhaseInv, JoinTakes, FinishedWins
<1>4. k \notin values
  <2>1. CASE JoinTakes(k)
    BY <1>1, <2>1, <1>3 DEF JoinTakes, IInv, CallInv, JoinInv
  <2>2. CASE FinishedWins(k)
    BY <2>2, <1>3 DEF FinishedWins, IInv, CallInv, FirstWinsInv
  <2> QED
    BY <2>1, <2>2
<1>5. phase = "inner"
  BY DEF JoinTakes, FinishedWins
<1> QED
  BY <1>2, <1>3, <1>4, <1>5 DEF IInv, CallInv, ValuesInv

\* Every step is a step of one inner future, or leaves them alone; the call stays
\* what it is.
LEMMA StepsOfTheFutures ==
  ASSUME IInv, [OuterNext]_allVars
  PROVE  /\ FuturesRest \/ \E k \in Inner : FutureStep(k)
         /\ UNCHANGED <<kind, blocking>>
<1> DEFINE G == (FuturesRest \/ \E k \in Inner : FutureStep(k)) /\ UNCHANGED <<kind, blocking>>
<1> USE DEF call
<1>1. CASE PollWhenAsked \/ PollSpuriously
  BY <1>1 DEF PollWhenAsked, PollSpuriously, StartPoll, FuturesRest
<1>2. CASE CheckDeadline \/ EndOfPoll \/ Return \/ DeadlineSpawnFails \/ DropOuter \/ EndOfRound
  BY <1>2 DEF CheckDeadline, EndOfPoll, Return, DeadlineSpawnFails, DropOuter, EndOfRound, vars,
              FuturesRest
<1>3. CASE DeadlinePasses \/ DeadlineThreadWakes
  BY <1>3 DEF DeadlinePasses, DeadlineThreadWakes, vars, FuturesRest
<1>4. ASSUME NEW k \in Inner, JoinTakes(k) \/ FinishedWins(k) PROVE G
  BY <1>4, BlockingTakesOnce DEF JoinTakes, FinishedWins, FutureStep
<1>5. ASSUME NEW k \in Inner, NotFinished(k) PROVE G
  BY <1>5 DEF NotFinished, vars, FuturesRest
<1>6. ASSUME NEW k \in Inner, InnerReady(k) \/ InnerNotReady(k) PROVE G
  BY <1>6 DEF InnerReady, InnerNotReady, FutureStep
<1>7. ASSUME NEW k \in Inner, InnerStores(k) \/ InnerPending(k) \/ InnerSpawnFails(k)
      PROVE  G
  BY <1>7 DEF InnerStores, InnerPending, InnerSpawnFails, FutureStep
<1>8. ASSUME NEW k \in Inner, DropInner(k) \/ TaskFinishes(k) \/ WatcherRuns(k) PROVE G
  BY <1>8 DEF DropInner, TaskFinishes, WatcherRuns, FutureStep
<1>9. CASE UNCHANGED allVars
  BY <1>9 DEF allVars, vars, FuturesRest
<1> QED
  BY <1>1, <1>2, <1>3, <1>4, <1>5, <1>6, <1>7, <1>8, <1>9
     DEF OuterNext, OuterPollStep, BlockingStep

\* A step of an inner future keeps the types: a reference is given up only by a user
\* that holds one.
LEMMA FutureStepKeepsTypes ==
  ASSUME TypeOK, blocking \in BOOLEAN, ReferencesInv, NEW k \in Tasks, FutureStep(k)
  PROVE  TypeOK'
<1> USE TaskFutureAssumption, CombinatorsAssumption DEF TypeOK, Set, futureVars, watcherVars
<1>1. FutureHolds(k) \in {0, 1} /\ WatcherHolds(k) \in {0, 1}
  BY DEF FutureHolds, WatcherHolds
<1>2. rc[k] = FutureHolds(k) + WatcherHolds(k)
  BY DEF ReferencesInv, ReferencesExact
<1>3. fut[k] = "live" => rc[k] - 1 \in Nat
  BY <1>1, <1>2 DEF FutureHolds
<1>4. CASE Finish(k) \/ StoreWaker(k) \/ SpawnWatcher(k)
  BY <1>4 DEF Finish, StoreWaker, SpawnWatcher
<1>11. CASE PollNotReady(k, Executor) /\ UNCHANGED woken
  BY <1>11 DEF PollNotReady, BeginPoll
<1>5. CASE SpawnFails(k)
  <2>1. fut[k] = "live"
    BY <1>5 DEF SpawnFails, ReferencesInv, PollInv
  <2> QED
    BY <1>3, <1>5, <2>1 DEF SpawnFails
<1>6. CASE DropFuture(k)
  BY <1>3, <1>6 DEF DropFuture
<1>7. CASE WatcherSees(k)
  BY <1>7 DEF WatcherSees
<1>12. CASE WatcherWakes(k)
  <2>1. woken' \subseteq Tasks \X Wakers
    <3>1. slot[k] # NoWaker => <<k, slot[k]>> \in Tasks \X Wakers
      OBVIOUS
    <3> QED
      BY <1>12, <3>1 DEF WatcherWakes
  <2> QED
    BY <1>12, <2>1 DEF WatcherWakes
<1>8. CASE WatcherReleases(k)
  <2>1. rc[k] - 1 \in Nat
    BY <1>1, <1>2, <1>8 DEF WatcherReleases, WatcherHolds, ReferencesInv, PollInv
  <2> QED
    BY <1>8, <2>1 DEF WatcherReleases
<1>9. CASE PollReady(k, Executor) /\ UNCHANGED woken
  BY <1>3, <1>9 DEF PollReady, BeginPoll
<1>10. CASE GetOwned(k) /\ fut[k] = "live"
  BY <1>3, <1>10 DEF GetOwned
<1> QED
  BY <1>4, <1>5, <1>6, <1>7, <1>8, <1>9, <1>10, <1>11, <1>12
     DEF FutureStep, WatcherStep

\* A step of an inner future keeps the account of the references.
LEMMA FutureStepKeepsReferences ==
  ASSUME TypeOK, blocking \in BOOLEAN, ReferencesInv, NEW k \in Tasks, FutureStep(k),
         UNCHANGED blocking
  PROVE  ReferencesInv'
<1> USE DEF TypeOK, Set, futureVars, watcherVars, ReferencesInv, ReferencesExact, PollInv,
            FutureHolds, WatcherHolds
<1>1. CASE Finish(k)
  BY <1>1 DEF Finish
<1>2. CASE StoreWaker(k)
  BY <1>2 DEF StoreWaker
<1>3. CASE SpawnWatcher(k)
  BY <1>3 DEF SpawnWatcher
<1>4. CASE SpawnFails(k)
  BY <1>4 DEF SpawnFails
<1>5. CASE DropFuture(k)
  BY <1>5 DEF DropFuture
<1>6. CASE WatcherSees(k)
  BY <1>6 DEF WatcherSees
<1>7. CASE WatcherReleases(k)
  BY <1>7 DEF WatcherReleases
<1>8. CASE WatcherWakes(k)
  BY <1>8 DEF WatcherWakes
<1>9. CASE PollReady(k, Executor) /\ UNCHANGED woken
  BY <1>9 DEF PollReady, BeginPoll
<1>10. CASE PollNotReady(k, Executor) /\ ~blocking
  BY <1>10 DEF PollNotReady, BeginPoll
<1>11. CASE GetOwned(k) /\ blocking /\ fut[k] = "live"
  BY <1>11 DEF GetOwned
<1> QED
  BY <1>1, <1>2, <1>3, <1>4, <1>5, <1>6, <1>7, <1>8, <1>9, <1>10, <1>11
     DEF FutureStep, WatcherStep

\* So does every step of a combinator.
LEMMA StepKeepsReferences ==
  ASSUME IInv, [OuterNext]_allVars
  PROVE  TypeOK' /\ ReferencesInv'
<1>1. TypeOK /\ blocking \in BOOLEAN /\ ReferencesInv
  BY DEF IInv, OuterTypeOK
<1>2. Inner \subseteq Tasks
  BY InnerTasks DEF IInv, OuterTypeOK
<1>3. CASE FuturesRest
  <2>1. TypeOK'
    BY <1>1, <1>3 DEF TypeOK, FuturesRest, futureVars, watcherVars
  <2>2. ReferencesInv'
    BY <1>1, <1>3, StepsOfTheFutures
       DEF FuturesRest, futureVars, watcherVars, ReferencesInv, ReferencesExact, PollInv,
           FutureHolds, WatcherHolds
  <2> QED
    BY <2>1, <2>2
<1>4. ASSUME NEW k \in Inner, FutureStep(k) PROVE TypeOK' /\ ReferencesInv'
  <2>1. k \in Tasks /\ UNCHANGED blocking
    BY <1>2, StepsOfTheFutures
  <2> QED
    BY <1>1, <1>4, <2>1, FutureStepKeepsTypes, FutureStepKeepsReferences
<1> QED
  BY <1>3, <1>4, StepsOfTheFutures

-----------------------------------------------------------------------------
(* The outer future and the blocking functions.                             *)

\* Each step keeps the types of the outer future.
LEMMA StepKeepsOuterTypes ==
  ASSUME IInv, [OuterNext]_allVars
  PROVE  OuterTypeOK'
<1> USE DEF IInv, OuterTypeOK, call, outerVars, deadlineVars
<1>1. TypeOK' /\ UNCHANGED <<kind, blocking>>
  BY StepKeepsReferences, StepsOfTheFutures
<1>2. /\ Inner' = Inner /\ End' = End
      /\ End \in Nat /\ Inner = 1..(End - 1) /\ 1 \in Inner
  BY <1>1, InnerTasks DEF Inner, End
<1>14. 1 \in 1..End /\ NextLive(1) \in 1..End
  BY <1>2, NextLiveInRound
<1>15. \A k \in Inner : k + 1 \in 1..End /\ NextLive(k + 1) \in 1..End
  <2>1. \A k \in Inner : k + 1 \in Nat /\ k + 1 \in 1..End
    BY <1>2
  <2> QED
    BY <2>1, NextLiveInRound
<1>3. ASSUME StartPoll, spurious' \in 0..MaxSpurious PROVE OuterTypeOK'
  BY <1>1, <1>2, <1>14, <1>3 DEF StartPoll, RegisterDeadlineWaker
<1>4. CASE PollWhenAsked \/ PollSpuriously
  BY <1>3, <1>4, CombinatorsAssumption DEF PollWhenAsked, PollSpuriously
<1>5. CASE CheckDeadline \/ EndOfPoll \/ Return \/ EndOfRound
  BY <1>1, <1>2, <1>14, <1>5 DEF CheckDeadline, EndOfPoll, Return, EndOfRound
<1>6. CASE DeadlineSpawnFails \/ DropOuter
  BY <1>1, <1>2, <1>6 DEF DeadlineSpawnFails, DropOuter, Unwind
<1>7. CASE DeadlinePasses \/ DeadlineThreadWakes
  BY <1>1, <1>2, <1>7 DEF DeadlinePasses, DeadlineThreadWakes
<1>8. ASSUME NEW k \in Inner, JoinTakes(k) \/ FinishedWins(k) \/ NotFinished(k)
      PROVE  OuterTypeOK'
  <2>1. CASE JoinTakes(k)
    BY <1>1, <1>2, <1>15, <2>1 DEF JoinTakes, GetOwned
  <2>2. CASE FinishedWins(k)
    BY <1>1, <1>2, <2>2 DEF FinishedWins, GetOwned, CancelAllExcept
  <2>3. CASE NotFinished(k)
    BY <1>1, <1>2, <1>15, <2>3 DEF NotFinished
  <2> QED
    BY <1>8, <2>1, <2>2, <2>3
<1>9. ASSUME NEW k \in Inner, InnerReady(k) PROVE OuterTypeOK'
  BY <1>1, <1>2, <1>15, <1>9 DEF InnerReady, CancelAllExcept
<1>10. ASSUME NEW k \in Inner, InnerNotReady(k) \/ InnerStores(k) \/ InnerPending(k)
       PROVE  OuterTypeOK'
  BY <1>1, <1>2, <1>15, <1>10 DEF InnerNotReady, InnerStores, InnerPending
<1>11. ASSUME NEW k \in Inner, InnerSpawnFails(k) PROVE OuterTypeOK'
  BY <1>1, <1>2, <1>11 DEF InnerSpawnFails, Unwind
<1>12. ASSUME NEW k \in Inner, DropInner(k) \/ TaskFinishes(k) \/ WatcherRuns(k)
       PROVE  OuterTypeOK'
  <2>1. UNCHANGED <<outerVars, deadlineVars, passed, spurious>>
    BY <1>12 DEF DropInner, TaskFinishes, WatcherRuns
  <2> QED
    BY <1>1, <1>2, <2>1
<1>13. CASE UNCHANGED allVars
  BY <1>1, <1>2, <1>13 DEF allVars
<1> QED
  BY <1>4, <1>5, <1>6, <1>7, <1>8, <1>9, <1>10, <1>11, <1>12, <1>13
     DEF OuterNext, OuterPollStep, BlockingStep

-----------------------------------------------------------------------------
(* From the first poll to the result.                                       *)

\* What the surroundings and the inner futures do beside the call leaves it as it is:
\* a task that has finished stays so, and time does not run back.
LEMMA SurroundingsKeepCallInv ==
  ASSUME IInv, UNCHANGED <<kind, blocking, phase, turn, outcome, values, handles, canceled>>,
         passed => passed',
         \A k \in Tasks : task[k] = "finished" => task'[k] = "finished",
         \A k \in Tasks : fut'[k] = fut[k] \/ (fut[k] = "live" /\ fut'[k] = "dropped"
                                                /\ phase = "resolve")
  PROVE  CallInv'
<1> USE DEF IInv, CallInv
<1>1. Inner \subseteq Tasks /\ Inner' = Inner
  BY InnerTasks DEF OuterTypeOK, Inner
<1>2. ValuesInv'
  BY <1>1 DEF ValuesInv
<1>3. PhaseInv'
  BY DEF PhaseInv
<1>4. FirstWinsInv'
  BY <1>1 DEF FirstWinsInv, Won, TimedOut
<1>5. JoinInv'
  BY <1>1 DEF JoinInv
<1> QED
  BY <1>2, <1>3, <1>4, <1>5

\* The steps of the surroundings, and those of a poll that leave the call as it is.
LEMMA OtherStepsKeepCallInv ==
  ASSUME IInv,
         \/ DeadlinePasses \/ DeadlineThreadWakes \/ UNCHANGED allVars
         \/ \E k \in Inner : \/ TaskFinishes(k) \/ WatcherRuns(k) \/ InnerNotReady(k)
                             \/ InnerStores(k) \/ DropInner(k)
  PROVE  CallInv'
<1> USE DEF IInv, call, outerVars, OuterTypeOK, TypeOK, vars, futureVars, Set
<1>1. Inner \subseteq Tasks
  BY InnerTasks
<1>2. CASE DeadlinePasses \/ DeadlineThreadWakes \/ UNCHANGED allVars
  BY <1>2, SurroundingsKeepCallInv DEF DeadlinePasses, DeadlineThreadWakes, allVars
<1>3. ASSUME NEW k \in Inner, TaskFinishes(k) \/ WatcherRuns(k) PROVE CallInv'
  BY <1>1, <1>3, SurroundingsKeepCallInv
     DEF TaskFinishes, Finish, WatcherRuns, WatcherStep, WatcherSees, WatcherReleases, WatcherWakes
<1>4. ASSUME NEW k \in Inner, InnerNotReady(k) \/ InnerStores(k) PROVE CallInv'
  BY <1>1, <1>4, SurroundingsKeepCallInv
     DEF InnerNotReady, PollNotReady, BeginPoll, InnerStores, StoreWaker
<1>5. ASSUME NEW k \in Inner, DropInner(k) PROVE CallInv'
  BY <1>1, <1>5, SurroundingsKeepCallInv DEF DropInner, DropFuture
<1> QED
  BY <1>2, <1>3, <1>4, <1>5

\* A poll that begins has taken nothing yet, unless it is that of a join.
LEMMA PollsKeepCallInv ==
  ASSUME IInv, PollWhenAsked \/ PollSpuriously
  PROVE  CallInv'
<1> USE DEF IInv, CallInv, OuterTypeOK
<1>1. StartPoll /\ phase \in {"first", "idle"}
  BY DEF PollWhenAsked, PollSpuriously
<1>2. /\ UNCHANGED <<task, fut, outcome, values, handles, canceled, kind, blocking, passed>>
      /\ outcome = "pending"
      /\ phase' = IF kind = "timeout" THEN "deadline" ELSE "inner"
      /\ ~blocking
  BY <1>1 DEF StartPoll, futureVars, call, PhaseInv
<1>3. Inner' = Inner
  BY <1>2 DEF Inner
<1>4. ValuesInv'
  BY <1>1, <1>2, <1>3 DEF ValuesInv
<1>5. PhaseInv'
  BY <1>1, <1>2 DEF PhaseInv
<1>6. FirstWinsInv' /\ JoinInv'
  BY <1>1, <1>2, <1>3 DEF FirstWinsInv, Won, TimedOut, JoinInv
<1> QED
  BY <1>4, <1>5, <1>6

\* A timeout that finds its deadline passed cancels its task and takes no result.
LEMMA CheckDeadlineKeepsCallInv ==
  ASSUME IInv, CheckDeadline
  PROVE  CallInv'
<1> USE DEF IInv, CallInv, OuterTypeOK, CheckDeadline, vars, futureVars, call
<1>1. Inner' = Inner /\ kind = "timeout" /\ outcome = "pending"
  BY DEF Inner, PhaseInv
<1>2. ValuesInv'
  BY <1>1 DEF ValuesInv
<1>3. PhaseInv'
  BY <1>1 DEF PhaseInv
<1>4. FirstWinsInv' /\ JoinInv'
  BY <1>1 DEF FirstWinsInv, Won, TimedOut, JoinInv
<1> QED
  BY <1>2, <1>3, <1>4

\* At the end of a poll, or of a round, a join has all its results or goes on.
LEMMA EndsKeepCallInv ==
  ASSUME IInv, EndOfPoll \/ EndOfRound
  PROVE  CallInv'
<1> USE DEF IInv, CallInv, OuterTypeOK, vars, futureVars, call
<1>0. /\ UNCHANGED <<task, fut, outcome, values, handles, canceled, kind, blocking, passed>>
      /\ phase = "inner" /\ turn = End
  BY DEF EndOfPoll, EndOfRound
<1>1. Inner' = Inner /\ Inner = 1..(End - 1) /\ 1 \in Inner /\ outcome = "pending"
  BY <1>0, InnerTasks DEF Inner, PhaseInv
<1>2. kind = "join" \/ values # Inner
  BY <1>0, <1>1 DEF FirstWinsInv
<1>3. CASE EndOfPoll
  <2>1. phase' = IF values = Inner THEN "resolve" ELSE "idle"
    BY <1>3 DEF EndOfPoll
  <2>2. ~blocking
    BY <1>3 DEF EndOfPoll
  <2>3. ValuesInv' /\ PhaseInv'
    BY <1>0, <1>1, <2>1, <2>2 DEF ValuesInv, PhaseInv
  <2>4. FirstWinsInv' /\ JoinInv'
    BY <1>0, <1>1, <1>2, <2>1, <2>2 DEF FirstWinsInv, Won, TimedOut, JoinInv
  <2> QED
    BY <2>3, <2>4
<1>4. CASE EndOfRound
  <2>1. phase' = IF kind = "join" THEN "resolve" ELSE "inner"
    BY <1>0, <1>4 DEF EndOfRound
  <2>2. kind = "join" => values = Inner
    <3>1. kind = "join" => values = {k \in Inner : k < End}
      BY <1>0, <1>4 DEF EndOfRound, JoinInv
    <3>2. \A k \in Inner : k < End
      BY <1>1, InnerTasks
    <3> QED
      BY <3>1, <3>2
  <2>3. ValuesInv' /\ PhaseInv'
    BY <1>0, <1>1, <2>1 DEF ValuesInv, PhaseInv
  <2>4. FirstWinsInv' /\ JoinInv'
    BY <1>0, <1>1, <2>1, <2>2 DEF FirstWinsInv, Won, TimedOut, JoinInv
  <2> QED
    BY <2>3, <2>4
<1> QED
  BY <1>3, <1>4

\* A call returns what its first winner, or its deadline, has left.
LEMMA ReturnKeepsCallInv ==
  ASSUME IInv, Return
  PROVE  CallInv'
<1> USE DEF IInv, CallInv, OuterTypeOK, Return, vars, futureVars, call
<1>1. Inner' = Inner /\ Inner # {}
  BY InnerTasks DEF Inner
<1>2. outcome \in {"pending", "dropped"} /\ phase' = "idle"
  BY DEF PhaseInv
<1>3. ValuesInv'
  BY <1>1 DEF ValuesInv
<1>4. PhaseInv'
  BY <1>2 DEF PhaseInv
<1>5. FirstWinsInv'
  BY <1>1, <1>2 DEF FirstWinsInv, Won, TimedOut
<1>6. JoinInv'
  BY <1>1, <1>2 DEF JoinInv
<1> QED
  BY <1>3, <1>4, <1>5, <1>6

\* A call that is dropped, or unwinds, returns nothing.
LEMMA UnwindKeepsCallInv ==
  ASSUME IInv, DeadlineSpawnFails \/ DropOuter \/ (\E k \in Inner : InnerSpawnFails(k))
  PROVE  CallInv'
<1> USE DEF IInv, CallInv, OuterTypeOK, TypeOK, vars, futureVars, call
<1>0. /\ Unwind /\ UNCHANGED <<task, kind, blocking, passed>>
      /\ outcome = "pending" /\ phase # "resolve"
      /\ \A k \in Inner : fut'[k] = fut[k] \/ (fut[k] = "live" /\ fut'[k] = "dropped")
  <2>1. CASE DeadlineSpawnFails \/ DropOuter
    BY <2>1 DEF DeadlineSpawnFails, DropOuter
  <2>2. ASSUME NEW k \in Inner, InnerSpawnFails(k)
        PROVE  /\ Unwind /\ UNCHANGED <<task, kind, blocking, passed>>
               /\ outcome = "pending" /\ phase # "resolve"
               /\ \A j \in Inner : fut'[j] = fut[j] \/ (fut[j] = "live" /\ fut'[j] = "dropped")
    <3>1. Inner \subseteq Tasks
      BY InnerTasks
    <3> QED
      BY <2>2, <3>1 DEF InnerSpawnFails, SpawnFails, Set, PhaseInv, ReferencesInv, PollInv
  <2> QED
    BY <2>1, <2>2
<1>1. Inner' = Inner
  BY <1>0 DEF Inner
<1>2. ValuesInv'
  BY <1>0, <1>1 DEF ValuesInv, Unwind
<1>3. PhaseInv'
  BY <1>0 DEF PhaseInv, Unwind
<1>4. FirstWinsInv' /\ JoinInv'
  BY <1>0, <1>1 DEF FirstWinsInv, JoinInv, Unwind
<1> QED
  BY <1>2, <1>3, <1>4

\* A result that is taken is that of a finished task; the first one ends the call,
\* with the others asked to cancel, except in a join.
LEMMA ResultsKeepCallInv ==
  ASSUME IInv, NEW k \in Inner, InnerReady(k) \/ JoinTakes(k) \/ FinishedWins(k)
  PROVE  CallInv'
<1> USE DEF IInv, CallInv, OuterTypeOK, TypeOK, call
<1>0. Inner \subseteq Tasks /\ Inner = 1..(End - 1) /\ End \in Nat /\ Inner' = Inner
  BY InnerTasks DEF Inner, InnerReady, JoinTakes, FinishedWins
<1>1. /\ UNCHANGED <<task, outcome, kind, blocking, passed>>
      /\ phase = "inner" /\ turn = k /\ outcome = "pending"
      /\ task[k] = "finished" /\ fut' = [fut EXCEPT ![k] = "done"]
      /\ values' = values \cup {k}
  BY DEF InnerReady, PollReady, BeginPoll, JoinTakes, FinishedWins, GetOwned, Set, PhaseInv
<1>2. IF kind = "join"
      THEN UNCHANGED <<phase, canceled, handles>>
      ELSE phase' = "resolve" /\ canceled' = canceled \cup (Inner \ {k})
  BY DEF InnerReady, JoinTakes, FinishedWins, CancelAllExcept
<1>3. ValuesInv'
  BY <1>0, <1>1, <1>2 DEF ValuesInv
<1>4. PhaseInv'
  BY <1>1, <1>2 DEF PhaseInv
<1>5. FirstWinsInv'
  <2>1. CASE kind # "join"
    <3>1. values' = {k} /\ canceled' = Inner \ {k} /\ phase' = "resolve"
      BY <1>1, <1>2, <2>1 DEF FirstWinsInv
    <3> QED
      BY <1>0, <1>1, <3>1 DEF FirstWinsInv, Won
  <2>2. CASE kind = "join"
    BY <1>1, <2>2 DEF FirstWinsInv
  <2> QED
    BY <2>1, <2>2
<1>6. JoinInv'
  <2>1. CASE kind # "join"
    BY <1>1, <2>1 DEF JoinInv
  <2>2. CASE kind = "join" /\ ~blocking
    BY <1>1, <1>2, <2>2 DEF JoinInv
  <2>3. CASE kind = "join" /\ blocking
    <3>1. turn' = turn + 1
      BY <2>3 DEF InnerReady, JoinTakes, FinishedWins
    <3>2. values = {j \in Inner : j < turn}
      BY <1>1, <2>3 DEF JoinInv
    <3>3. values' = {j \in Inner : j < turn'}
      BY <1>0, <1>1, <3>1, <3>2
    <3> QED
      BY <1>0, <1>1, <1>2, <2>3, <3>3 DEF JoinInv
  <2> QED
    BY <2>1, <2>2, <2>3
<1> QED
  BY <1>3, <1>4, <1>5, <1>6

\* A task that has not finished is left, and the round goes on.
LEMMA PendingKeepsCallInv ==
  ASSUME IInv, NEW k \in Inner, InnerPending(k) \/ NotFinished(k)
  PROVE  CallInv'
<1> USE DEF IInv, CallInv, OuterTypeOK, TypeOK, vars, futureVars, call
<1>0. /\ UNCHANGED <<task, fut, outcome, values, handles, canceled, kind, blocking, passed>>
      /\ phase = "inner" /\ outcome = "pending"
      /\ phase' = "inner" \/ (phase' = "deadline" /\ kind = "timeout")
  BY DEF InnerPending, SpawnWatcher, NotFinished, PhaseInv
<1>1. Inner' = Inner
  BY <1>0 DEF Inner
<1>2. kind = "join" => ~blocking
  <2>1. CASE NotFinished(k)
    BY <2>1 DEF NotFinished
  <2>2. CASE InnerPending(k)
    <3>1. k \in Tasks
      BY InnerTasks
    <3> QED
      BY <2>2, <3>1 DEF InnerPending, SpawnWatcher, ReferencesInv, PollInv
  <2> QED
    BY <2>1, <2>2
<1>3. ValuesInv'
  BY <1>0, <1>1 DEF ValuesInv
<1>4. PhaseInv'
  BY <1>0 DEF PhaseInv
<1>5. FirstWinsInv' /\ JoinInv'
  BY <1>0, <1>1, <1>2 DEF FirstWinsInv, Won, TimedOut, JoinInv
<1> QED
  BY <1>3, <1>4, <1>5

-----------------------------------------------------------------------------
\* Before the first poll the invariant holds.
LEMMA InitEstablishesIInv == OuterInit => IInv
<1> SUFFICES ASSUME OuterInit PROVE IInv
  OBVIOUS
<1> USE DEF OuterInit, Unpolled
<1>1. Inner \subseteq Tasks /\ Inner = 1..(End - 1) /\ End \in Nat /\ 1 \in Inner
  BY InnerTasks
<1>2. TypeOK
  BY TaskFutureAssumption DEF TypeOK, ReferencesTaken
<1>3. OuterTypeOK
  <2>1. 1 \in 1..End
    BY <1>1
  <2>2. 0 \in 0..MaxSpurious
    BY CombinatorsAssumption
  <2>3. handles \subseteq Inner
    OBVIOUS
  <2> QED
    BY <1>2, <2>1, <2>2, <2>3 DEF OuterTypeOK
<1>4. ReferencesInv
  BY DEF ReferencesInv, ReferencesExact, PollInv, FutureHolds, WatcherHolds, ReferencesTaken
<1>5. ValuesInv /\ PhaseInv /\ FirstWinsInv
  BY <1>1 DEF ValuesInv, PhaseInv, FirstWinsInv
<1>6. JoinInv
  <2>1. {k \in Inner : k < 1} = {}
    BY <1>1
  <2> QED
    BY <2>1 DEF JoinInv
<1> QED
  BY <1>3, <1>4, <1>5, <1>6 DEF IInv, CallInv

\* Every step keeps it.
LEMMA StepKeepsIInv == IInv /\ [OuterNext]_allVars => IInv'
<1> SUFFICES ASSUME IInv, [OuterNext]_allVars PROVE IInv'
  OBVIOUS
<1>1. CallInv'
  BY OtherStepsKeepCallInv, PollsKeepCallInv, CheckDeadlineKeepsCallInv, EndsKeepCallInv,
     ReturnKeepsCallInv, UnwindKeepsCallInv, ResultsKeepCallInv, PendingKeepsCallInv
     DEF OuterNext, OuterPollStep, BlockingStep
<1> QED
  BY <1>1, StepKeepsOuterTypes, StepKeepsReferences DEF IInv

\* The invariant of a call of a combinator.
LEMMA CallsAreInvariant == OuterSpec => []IInv
<1> QED
  BY InitEstablishesIInv, StepKeepsIInv, PTL DEF OuterSpec

\* The outer future and its parts keep their types; its clones, its results and the
\* tasks it asked to cancel are tasks it was given.
THEOREM CombinatorTypes == OuterSpec => []OuterTypeOK
<1>1. IInv => OuterTypeOK
  BY DEF IInv
<1> QED
  BY <1>1, CallsAreInvariant, PTL

\* What a combinator returns is what it promises, whether it is polled or blocks, for
\* every size of a race: the right results, of tasks that had finished, and a request
\* to cancel to exactly the tasks whose results are not wanted.
THEOREM CombinatorsResolveRightly == OuterSpec => []ResolvesRightly
<1>1. IInv => ResolvesRightly
  <2> SUFFICES ASSUME IInv PROVE ResolvesRightly
    OBVIOUS
  <2> USE DEF IInv, CallInv
  <2>1. \A k \in values : task[k] = "finished"
    BY DEF ValuesInv, OuterTypeOK
  <2>2. CASE kind = "join"
    BY <2>1, <2>2 DEF JoinInv, ResolvesRightly
  <2>3. CASE kind # "join"
    <3>1. ASSUME outcome = "ready"
          PROVE  IF kind \in {"select", "race"}
                 THEN Cardinality(values) = 1 /\ canceled = Inner \ values
                 ELSE values = Inner /\ canceled = {}
      <4>1. PICK k \in Inner : values = {k} /\ canceled = Inner \ {k}
        BY <2>3, <3>1 DEF FirstWinsInv, Won
      <4>2. Cardinality(values) = 1
        BY <4>1, FS_Singleton
      <4>3. kind = "timeout" => Inner = {1}
        BY DEF Inner
      <4> QED
        BY <2>3, <4>1, <4>2, <4>3 DEF OuterTypeOK
    <3>2. outcome = "timed_out" => passed /\ canceled = Inner /\ values = {}
      BY <2>3 DEF FirstWinsInv, TimedOut
    <3> QED
      BY <2>1, <3>1, <3>2 DEF ResolvesRightly
  <2> QED
    BY <2>2, <2>3
<1> QED
  BY <1>1, CallsAreInvariant, PTL

\* While an inner future is live, or a watcher reads its task, the task object has a
\* reference left: also when a combinator drops the futures that lost.
THEOREM CombinedTasksOutliveTheirUsers == OuterSpec => []TaskOutlivesItsUsers
<1>1. IInv => TaskOutlivesItsUsers
  <2> SUFFICES ASSUME IInv, NEW k \in Tasks,
                      fut[k] = "live" \/ watcher[k] \in {"polling", "release"}
               PROVE  rc[k] > 0
    BY DEF TaskOutlivesItsUsers
  <2>1. rc[k] = FutureHolds(k) + WatcherHolds(k)
    BY DEF IInv, ReferencesInv, ReferencesExact
  <2>2. watcher[k] # "none" => ~blocking
    BY DEF IInv, ReferencesInv, PollInv
  <2> QED
    BY <2>1, <2>2 DEF FutureHolds, WatcherHolds
<1> QED
  BY <1>1, CallsAreInvariant, PTL

\* A watcher of a combinator gives its reference back exactly once, whatever became of
\* its future.
THEOREM CombinedWatchersGiveBack == OuterSpec => []WatcherGivesBackItsReference
<1>1. IInv => WatcherGivesBackItsReference
  BY DEF IInv, ReferencesInv, ReferencesExact, FutureHolds, WatcherHolds,
         WatcherGivesBackItsReference
<1> QED
  BY <1>1, CallsAreInvariant, PTL
=============================================================================
