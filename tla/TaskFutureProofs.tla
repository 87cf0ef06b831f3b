--------------------------- MODULE TaskFutureProofs -------------------------
(***************************************************************************)
(* Theorems about TaskFuture for every set of tasks and wakers and every   *)
(* number of polls: the references to a task are exactly those of its live *)
(* future and of the watcher that has not given its own back.              *)
(***************************************************************************)
EXTENDS TaskFuture, TLAPS

WatcherHolds(k) == watcher[k] \in {"none", "polling", "release"}

References(k) ==
  IF fut[k] = "live" THEN (IF WatcherHolds(k) THEN 2 ELSE 1)
  ELSE IF WatcherHolds(k) THEN 1 ELSE 0

\* The strengthening: an exact account of the references, and what ties the
\* watcher to the future that spawns it.
ReferencesExact == \A k \in Tasks : rc[k] = References(k)

SpawnInv ==
  \A k \in Tasks :
    /\ pc[k] # "out" => fut[k] = "live"
    /\ ~spawned[k] => watcher[k] = "none"

IInv == TypeOK /\ ReferencesExact /\ SpawnInv

-----------------------------------------------------------------------------
\* Before a task is spawned the invariant holds.
LEMMA InitEstablishesIInv == Init => IInv
<1> SUFFICES ASSUME Init PROVE IInv
  OBVIOUS
<1>1. TypeOK
  BY TaskFutureAssumption DEF Init, Unpolled, TypeOK, ReferencesTaken
<1>2. ReferencesExact
  BY DEF Init, Unpolled, ReferencesExact, References, WatcherHolds, ReferencesTaken
<1>3. SpawnInv
  BY DEF Init, Unpolled, SpawnInv
<1> QED
  BY <1>1, <1>2, <1>3 DEF IInv

\* Each step keeps the types.  A reference is given up only by a user that holds
\* one, so the count stays a natural number.
LEMMA StepKeepsTypes ==
  ASSUME IInv, [Next]_vars
  PROVE  TypeOK'
<1> USE TaskFutureAssumption
    DEF IInv, TypeOK, Set, futureVars, watcherVars
<1>1. ASSUME NEW k \in Tasks, Finish(k) PROVE TypeOK'
  BY <1>1 DEF Finish
<1>2. ASSUME NEW k \in Tasks, DropFuture(k) PROVE TypeOK'
  <2>1. rc[k] - 1 \in Nat
    BY <1>2 DEF DropFuture, ReferencesExact, References, WatcherHolds
  <2> QED
    BY <1>2, <2>1 DEF DropFuture
<1>3. ASSUME NEW k \in Tasks, NEW w \in Wakers, ExecutorPolls(k, w) PROVE TypeOK'
  <2>1. CASE PollReady(k, w)
    <3>1. rc[k] - 1 \in Nat
      BY <2>1 DEF PollReady, BeginPoll, ReferencesExact, References, WatcherHolds
    <3> QED
      BY <1>3, <2>1, <3>1 DEF ExecutorPolls, PollReady, BeginPoll
  <2>2. CASE PollNotReady(k, w)
    BY <1>3, <2>2 DEF ExecutorPolls, PollNotReady, BeginPoll
  <2> QED
    BY <1>3, <2>1, <2>2 DEF ExecutorPolls
<1>4. ASSUME NEW k \in Tasks, PollStep(k) PROVE TypeOK'
  <2>1. CASE StoreWaker(k)
    BY <2>1 DEF StoreWaker
  <2>2. CASE SpawnWatcher(k)
    BY <2>2 DEF SpawnWatcher
  <2>3. CASE SpawnFails(k)
    <3>1. rc[k] - 1 \in Nat
      BY <2>3 DEF SpawnFails, ReferencesExact, SpawnInv, References, WatcherHolds
    <3> QED
      BY <2>3, <3>1 DEF SpawnFails
  <2> QED
    BY <1>4, <2>1, <2>2, <2>3 DEF PollStep
<1>5. ASSUME NEW k \in Tasks, WatcherStep(k) PROVE TypeOK'
  <2>1. CASE WatcherSees(k)
    BY <2>1 DEF WatcherSees
  <2>2. CASE WatcherReleases(k)
    <3>1. rc[k] - 1 \in Nat
      BY <2>2 DEF WatcherReleases, ReferencesExact, References, WatcherHolds
    <3> QED
      BY <2>2, <3>1 DEF WatcherReleases
  <2>3. CASE WatcherWakes(k)
    BY <2>3 DEF WatcherWakes
  <2> QED
    BY <1>5, <2>1, <2>2, <2>3 DEF WatcherStep
<1>6. CASE UNCHANGED vars
  BY <1>6 DEF vars
<1> QED
  BY <1>1, <1>2, <1>3, <1>4, <1>5, <1>6 DEF Next

\* Each step keeps the account of the references: one action per user that takes
\* or gives one.
LEMMA StepKeepsReferences ==
  ASSUME IInv, [Next]_vars
  PROVE  ReferencesExact'
<1> USE DEF IInv, TypeOK, ReferencesExact, References, WatcherHolds, Set, futureVars, watcherVars
<1>1. ASSUME NEW k \in Tasks, Finish(k) PROVE ReferencesExact'
  BY <1>1 DEF Finish
<1>2. ASSUME NEW k \in Tasks, DropFuture(k) PROVE ReferencesExact'
  BY <1>2 DEF DropFuture
<1>3. ASSUME NEW k \in Tasks, NEW w \in Wakers, ExecutorPolls(k, w) PROVE ReferencesExact'
  <2>1. CASE PollReady(k, w)
    BY <2>1 DEF PollReady, BeginPoll
  <2>2. CASE PollNotReady(k, w)
    BY <2>2 DEF PollNotReady, BeginPoll
  <2> QED
    BY <1>3, <2>1, <2>2 DEF ExecutorPolls
<1>4. ASSUME NEW k \in Tasks, PollStep(k) PROVE ReferencesExact'
  <2>1. CASE StoreWaker(k)
    BY <2>1 DEF StoreWaker
  <2>2. CASE SpawnWatcher(k)
    BY <2>2 DEF SpawnWatcher, SpawnInv
  <2>3. CASE SpawnFails(k)
    BY <2>3 DEF SpawnFails, SpawnInv
  <2> QED
    BY <1>4, <2>1, <2>2, <2>3 DEF PollStep
<1>5. ASSUME NEW k \in Tasks, WatcherStep(k) PROVE ReferencesExact'
  <2>1. CASE WatcherSees(k)
    BY <2>1 DEF WatcherSees
  <2>2. CASE WatcherReleases(k)
    BY <2>2 DEF WatcherReleases
  <2>3. CASE WatcherWakes(k)
    BY <2>3 DEF WatcherWakes
  <2> QED
    BY <1>5, <2>1, <2>2, <2>3 DEF WatcherStep
<1>6. CASE UNCHANGED vars
  BY <1>6 DEF vars
<1> QED
  BY <1>1, <1>2, <1>3, <1>4, <1>5, <1>6 DEF Next

\* A poll is in progress only of a live future, and there is no watcher before it
\* was spawned.
LEMMA StepKeepsSpawnInv ==
  ASSUME IInv, [Next]_vars
  PROVE  SpawnInv'
<1> USE DEF IInv, TypeOK, SpawnInv, Set, futureVars, watcherVars
<1>1. ASSUME NEW k \in Tasks, Finish(k) \/ DropFuture(k) PROVE SpawnInv'
  BY <1>1 DEF Finish, DropFuture
<1>2. ASSUME NEW k \in Tasks, NEW w \in Wakers, ExecutorPolls(k, w) PROVE SpawnInv'
  BY <1>2 DEF ExecutorPolls, PollReady, PollNotReady, BeginPoll
<1>3. ASSUME NEW k \in Tasks, PollStep(k) PROVE SpawnInv'
  BY <1>3 DEF PollStep, StoreWaker, SpawnWatcher, SpawnFails
<1>4. ASSUME NEW k \in Tasks, WatcherStep(k) PROVE SpawnInv'
  BY <1>4 DEF WatcherStep, WatcherSees, WatcherReleases, WatcherWakes
<1>5. CASE UNCHANGED vars
  BY <1>5 DEF vars
<1> QED
  BY <1>1, <1>2, <1>3, <1>4, <1>5 DEF Next

\* The invariant holds of every state.
LEMMA IInvHolds == Spec => []IInv
<1>1. IInv /\ [Next]_vars => IInv'
  BY StepKeepsTypes, StepKeepsReferences, StepKeepsSpawnInv DEF IInv
<1> QED
  BY InitEstablishesIInv, <1>1, PTL DEF Spec

-----------------------------------------------------------------------------
\* The variables keep their types; in particular no reference count drops below
\* zero (leo3/src/task.rs:547-555, 677-683).
THEOREM TypeCorrect == Spec => []TypeOK
<1>1. IInv => TypeOK
  BY DEF IInv
<1> QED
  BY IInvHolds, <1>1, PTL

\* The task object outlives the future and the watcher, whatever the order in
\* which they finish with it (leo3/src/task.rs:551-554, 675-683).
THEOREM NoUserDangles == Spec => []TaskOutlivesItsUsers
<1>1. IInv => TaskOutlivesItsUsers
  BY DEF IInv, ReferencesExact, References, WatcherHolds, TaskOutlivesItsUsers
<1> QED
  BY IInvHolds, <1>1, PTL

\* A watcher that has run gave its reference back once, neither kept nor given
\* back twice (leo3/src/task.rs:677-683).
THEOREM WatcherSettles == Spec => []WatcherGivesBackItsReference
<1>1. IInv => WatcherGivesBackItsReference
  BY DEF IInv, ReferencesExact, References, WatcherHolds, WatcherGivesBackItsReference
<1> QED
  BY IInvHolds, <1>1, PTL

-----------------------------------------------------------------------------
(* Which async task is woken, whatever number of them polls the future.    *)

\* The watcher passes its wait only when the task has finished, and carries the
\* waker of the latest poll that is through with storing it; once it has emptied
\* the slot no further poll begins that is not ready.
WakeInv ==
  \A k \in Tasks :
    /\ watcher[k] \in {"release", "wake", "exited"} => task[k] = "finished"
    /\ pc[k] # "out" \/ watcher[k] # "none" => cur[k] \in Wakers
    /\ watcher[k] \in {"polling", "release", "wake"} => slot[k] \in Wakers
    /\ pc[k] = "spawn" /\ watcher[k] # "exited" => slot[k] = cur[k]
    /\ fut[k] = "live" /\ pc[k] = "out" /\ watcher[k] \notin {"none", "exited"} => slot[k] = cur[k]
    /\ fut[k] = "live" /\ watcher[k] = "exited" =>
         /\ SomebodyIsWoken(k)
         /\ pc[k] = "store" \/ slot[k] = cur[k] \/ <<k, cur[k]>> \in woken

\* Nobody waits for a wake-up at first.
LEMMA InitEstablishesWakeInv == Init => WakeInv
BY TaskFutureAssumption DEF Init, Unpolled, WakeInv

\* Every step leaves the waiting futures a watcher that will wake somebody.
LEMMA StepKeepsWakeInv ==
  ASSUME IInv, WakeInv, [Next]_vars
  PROVE  WakeInv'
<1> USE TaskFutureAssumption
    DEF IInv, TypeOK, WakeInv, SomebodyIsWoken, Set, futureVars, watcherVars
<1>1. ASSUME NEW k \in Tasks, Finish(k) \/ DropFuture(k) PROVE WakeInv'
  BY <1>1 DEF Finish, DropFuture
<1>2. ASSUME NEW k \in Tasks, NEW w \in Wakers, ExecutorPolls(k, w) PROVE WakeInv'
  <2>1. CASE PollReady(k, w)
    BY <1>2, <2>1 DEF ExecutorPolls, PollReady, BeginPoll, SpawnInv
  <2>2. CASE PollNotReady(k, w)
    BY <1>2, <2>2 DEF ExecutorPolls, PollNotReady, BeginPoll
  <2> QED
    BY <1>2, <2>1, <2>2 DEF ExecutorPolls
<1>3. ASSUME NEW k \in Tasks, PollStep(k) PROVE WakeInv'
  <2>1. CASE StoreWaker(k)
    BY <2>1 DEF StoreWaker
  <2>2. CASE SpawnWatcher(k)
    BY <2>2 DEF SpawnWatcher, SpawnInv
  <2>3. CASE SpawnFails(k)
    BY <2>3 DEF SpawnFails, SpawnInv
  <2> QED
    BY <1>3, <2>1, <2>2, <2>3 DEF PollStep
<1>4. ASSUME NEW k \in Tasks, WatcherStep(k) PROVE WakeInv'
  <2>1. CASE WatcherSees(k)
    BY <2>1 DEF WatcherSees
  <2>2. CASE WatcherReleases(k)
    BY <2>2 DEF WatcherReleases
  <2>3. CASE WatcherWakes(k)
    <3>1. slot[k] \in Wakers /\ watcher[k] = "wake" /\ cur[k] \in Wakers
      BY <2>3 DEF WatcherWakes
    <3>2. /\ watcher' = [watcher EXCEPT ![k] = "exited"] /\ slot' = [slot EXCEPT ![k] = NoWaker]
          /\ woken' = woken \cup {<<k, slot[k]>>} /\ UNCHANGED <<task, fut, pc, cur>>
      BY <2>3, <3>1 DEF WatcherWakes
    <3>3. SomebodyIsWoken(k)'
      BY <3>1, <3>2
    <3>4. fut[k] = "live" /\ pc[k] # "store" => slot[k] = cur[k]
      BY <3>1
    <3>5. ASSUME NEW j \in Tasks, j # k, SomebodyIsWoken(j) PROVE SomebodyIsWoken(j)'
      BY <3>2, <3>5
    <3> HIDE DEF SomebodyIsWoken
    <3> QED
      BY <3>1, <3>2, <3>3, <3>4, <3>5
  <2> QED
    BY <1>4, <2>1, <2>2, <2>3 DEF WatcherStep
<1>5. CASE UNCHANGED vars
  BY <1>5 DEF vars
<1> QED
  BY <1>1, <1>2, <1>3, <1>4, <1>5 DEF Next

\* The watcher never finishes without waking somebody, however many async tasks poll
\* the future; and the one that polled last goes without its wake-up only if its poll
\* read the task as unfinished and stored its waker after the watcher had emptied the
\* slot (leo3/src/task.rs:651-692).  With a single async task it is always woken.
THEOREM WakeupLostOnlyToLateWaker == Spec => []WatcherLeavesWakeup
<1>1. IInv /\ IInv' /\ WakeInv /\ [Next]_vars => WakeInv'
  BY StepKeepsWakeInv
<1>2. WakeInv /\ IInv => WatcherLeavesWakeup
  BY DEF WakeInv, WatcherLeavesWakeup, StoredTooLate, SomebodyIsWoken, IInv, TypeOK
<1> QED
  BY IInvHolds, InitEstablishesWakeInv, <1>1, <1>2, PTL DEF Spec
=============================================================================
