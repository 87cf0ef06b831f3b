--------------------------- MODULE PromisesProofs ---------------------------
(***************************************************************************)
(* Theorems about Promises for any number of threads, values and handles:  *)
(* the promise, its task and every value have as many references as there  *)
(* are owners, and everybody gets the same value.                          *)
(*                                                                         *)
(* An owner is a handle of a thread, a call in progress, a job of tokio's  *)
(* pool, or the task itself.  The strengthening says what a call in        *)
(* progress owns: who resolves has the promise until the call returns, who *)
(* waits has the task, a value is resolved with once, and before the       *)
(* worker has made the promise there is nothing to own.                    *)
(***************************************************************************)
EXTENDS Promises, FiniteSetTheorems, TLAPS

Counted == {"promise", "task"} \cup Values

PromisesTypeOK ==
  /\ status \in [Threads -> {"idle", "waiting", "running", "finished"}]
  /\ alive \in BOOLEAN
  /\ job \in [Threads -> {"none", "new", "failed", "rejected", "wait"} \cup Values]
  /\ made \in BOOLEAN
  /\ promises \in [Threads -> Nat]
  /\ tasks \in [Threads -> Nat]
  /\ at \in [Threads -> {"idle", "get", "get_owned"}]
  /\ result \in Values \cup {Unresolved, Nothing}
  /\ results \in [Threads -> Values \cup {Nothing}]
  /\ pool \in [Threads -> {"none", "waiting", "empty"} \cup Values]
  /\ unused \in SUBSET Values
  /\ counts \in [Counted -> Nat]
  /\ leaked \in SUBSET Values
  /\ errors \in Nat

\* Who is in a call of resolve has a handle to the promise, who is in get one to the task.
CallInv ==
  \A t \in Threads :
    /\ job[t] = "none" <=> status[t] = "idle"
    /\ job[t] \in {"failed", "rejected"} => status[t] = "finished"
    /\ job[t] \in Values \cup {"rejected"} => promises[t] > 0
    /\ at[t] # "idle" => status[t] = "idle" /\ tasks[t] > 0 /\ results[t] = Nothing

\* One call of new creates the promise; before it has, there is nothing.
Pending(t) == job[t] = "new" /\ status[t] \in {"waiting", "running"}
CreationInv ==
  /\ \A t \in Threads : job[t] = "new" => made
  /\ \A t, u \in Threads : job[t] = "new" /\ job[u] = "new" => t = u
  /\ (~made \/ \E t \in Threads : Pending(t)) =>
       counts["promise"] = 0 /\ counts["task"] = 0 /\ result = Unresolved

\* A value is with one call, or nobody has used it, or its call unwound.
UseInv ==
  /\ \A t \in Threads : job[t] \in Values => job[t] \notin unused /\ job[t] \notin leaked
  /\ \A t, u \in Threads : job[t] \in Values /\ job[t] = job[u] => t = u
  /\ unused \cap leaked = {}

(* The conjuncts of PromiseIsShared. *)
OnPool(x) == {t \in Threads : pool[t] = x}
GotBy(v) == {t \in Threads : results[t] = v}
CarriedBy(v) == {t \in Threads : job[t] = v /\ status[t] \in {"waiting", "running"}}
InTask(v) == IF result = v /\ counts["task"] > 0 THEN 1 ELSE 0
Left(v) == IF v \in leaked THEN 1 ELSE 0

PromiseCounted == counts["promise"] = Sum(promises) + Cardinality(MadeBy)
TaskCounted ==
  counts["task"] = Sum(tasks) + Cardinality(OnPool("waiting")) + (IF counts["promise"] > 0 THEN 1 ELSE 0)
ValuesCounted ==
  \A v \in Values :
    counts[v] = Cardinality(GotBy(v)) + Cardinality(OnPool(v)) + Cardinality(CarriedBy(v)) + InTask(v) + Left(v)
OneValue ==
  \A t \in Threads : results[t] \in {result, Nothing} /\ pool[t] \in {"none", "waiting", "empty", result}

IInv ==
  /\ PromisesTypeOK /\ CallInv /\ CreationInv /\ UseInv
  /\ PromiseCounted /\ TaskCounted /\ ValuesCounted /\ OneValue

-----------------------------------------------------------------------------
(* Counting.                                                               *)

\* Sets of threads are counted by numbers, one more and one less.
LEMMA ThreadsCount ==
  ASSUME NEW S \in SUBSET Threads
  PROVE  /\ Cardinality(S) \in Nat
         /\ Cardinality(S) = 0 <=> S = {}
         /\ \A t \in Threads \ S : Cardinality(S \cup {t}) = Cardinality(S) + 1
         /\ \A t \in S : Cardinality(S \ {t}) = Cardinality(S) - 1 /\ Cardinality(S) > 0
<1>1. IsFiniteSet(S)
  BY FS_Subset, PromisesAssumption
<1>2. Cardinality(S) \in Nat /\ (Cardinality(S) = 0 <=> S = {})
  BY <1>1, FS_CardinalityType, FS_EmptySet
<1>3. \A t \in Threads \ S : Cardinality(S \cup {t}) = Cardinality(S) + 1
  BY <1>1, FS_AddElement
<1>4. \A t \in S : Cardinality(S \ {t}) = Cardinality(S) - 1
  BY <1>1, FS_RemoveElement
<1> QED
  BY <1>2, <1>3, <1>4

\* The handles of f, each with a number.
All(f) == UNION {{t} \X (1..f[t]) : t \in DOMAIN f}

\* There are finitely many.
LEMMA AllIsFinite ==
  ASSUME NEW f \in [Threads -> Nat]
  PROVE  IsFiniteSet(All(f))
<1> DEFINE S == {{t} \X (1..f[t]) : t \in DOMAIN f}
           g == [t \in Threads |-> {t} \X (1..f[t])]
<1>1. g \in Surjection(Threads, S)
  BY DEF Surjection
<1>2. IsFiniteSet(S)
  <2> HIDE DEF g, S
  <2> QED
    BY <1>1, FS_Surjection, PromisesAssumption
<1>3. \A t \in Threads : IsFiniteSet({t} \X (1..f[t]))
  <2> TAKE t \in Threads
  <2>1. IsFiniteSet({t}) /\ IsFiniteSet(1..f[t])
    <3>1. f[t] \in Int /\ 1 \in Int
      OBVIOUS
    <3>2. IsFiniteSet(1..f[t])
      BY <3>1, FS_Interval
    <3> QED
      BY <3>2, FS_Singleton
  <2> QED
    BY <2>1, FS_Product
<1>4. \A T \in S : IsFiniteSet(T)
  BY <1>3
<1> QED
  <2> HIDE DEF S
  <2>1. IsFiniteSet(UNION S)
    BY <1>2, <1>4, FS_UNION
  <2> QED
    BY <2>1 DEF All, S

\* The sum is a number, and not 0 if a thread has a handle.
LEMMA SumType ==
  ASSUME NEW f \in [Threads -> Nat]
  PROVE  /\ Sum(f) \in Nat
         /\ \A t \in Threads : f[t] > 0 => Sum(f) > 0
<1>1. Sum(f) = Cardinality(All(f))
  BY DEF Sum, All
<1>2. Sum(f) \in Nat /\ (Sum(f) = 0 <=> All(f) = {})
  BY <1>1, AllIsFinite, FS_CardinalityType, FS_EmptySet
<1>3. ASSUME NEW t \in Threads, f[t] > 0
      PROVE  Sum(f) > 0
  <2>1. 1 \in 1..f[t] /\ t \in DOMAIN f
    BY <1>3
  <2>2. <<t, 1>> \in All(f)
    BY <2>1 DEF All
  <2> QED
    BY <1>2, <2>2
<1> QED
  BY <1>2, <1>3

\* A handle more.
LEMMA SumUp ==
  ASSUME NEW f \in [Threads -> Nat], NEW t \in Threads
  PROVE  Sum([f EXCEPT ![t] = f[t] + 1]) = Sum(f) + 1
<1> DEFINE g == [f EXCEPT ![t] = f[t] + 1]
           h == <<t, f[t] + 1>>
<1>1. h \notin All(f)
  BY DEF All
<1>2. \A u \in Threads : 1..g[u] = IF u = t THEN (1..f[u]) \cup {f[t] + 1} ELSE 1..f[u]
  <2>1. \A n \in Nat : 1..(n + 1) = (1..n) \cup {n + 1}
    OBVIOUS
  <2>2. f[t] \in Nat /\ g[t] = f[t] + 1 /\ \A u \in Threads \ {t} : g[u] = f[u]
    OBVIOUS
  <2> HIDE DEF g
  <2> QED
    BY <2>1, <2>2
<1>3. \A x : x \in All(g) <=> \E u \in Threads : \E n \in 1..g[u] : x = <<u, n>>
  BY DEF All
<1>4. \A x : x \in All(f) <=> \E u \in Threads : \E n \in 1..f[u] : x = <<u, n>>
  BY DEF All
<1>5. All(g) = All(f) \cup {h}
  <2> HIDE DEF g
  <2>1. \A x : x \in All(g) => x \in All(f) \cup {h}
    BY <1>2, <1>3, <1>4
  <2>2. \A x : x \in All(f) \cup {h} => x \in All(g)
    BY <1>2, <1>3, <1>4
  <2> QED
    BY <2>1, <2>2
<1>6. Cardinality(All(f) \cup {h}) = Cardinality(All(f)) + 1
  BY <1>1, AllIsFinite, FS_AddElement
<1>7. Sum(f) = Cardinality(All(f)) /\ Sum(g) = Cardinality(All(g))
  BY DEF Sum, All
<1> QED
  BY <1>5, <1>6, <1>7

\* A handle less.
LEMMA SumDown ==
  ASSUME NEW f \in [Threads -> Nat], NEW t \in Threads, f[t] > 0
  PROVE  Sum([f EXCEPT ![t] = f[t] - 1]) = Sum(f) - 1
<1> DEFINE g == [f EXCEPT ![t] = f[t] - 1]
<1>1. g \in [Threads -> Nat] /\ f = [g EXCEPT ![t] = g[t] + 1]
  <2>1. f[t] - 1 \in Nat /\ (f[t] - 1) + 1 = f[t]
    OBVIOUS
  <2>2. g \in [Threads -> Nat] /\ g[t] = f[t] - 1 /\ \A u \in Threads \ {t} : g[u] = f[u]
    BY <2>1
  <2> HIDE DEF g
  <2> QED
    BY <2>1, <2>2
<1>2. Sum(f) = Sum(g) + 1
  <2> HIDE DEF g
  <2> QED
    BY <1>1, SumUp
<1>3. Sum(g) \in Nat
  BY <1>1, SumType
<1> QED
  BY <1>2, <1>3

-----------------------------------------------------------------------------
(* What is dropped: the task gives up its value with its last reference,   *)
(* the promise its task.                                                   *)

\* What one of the references to the task takes with it.
Falls(c, v) == IF c["task"] = 1 /\ v = result THEN 1 ELSE 0

\* A reference to the task is given up.
LEMMA TaskGivenUp ==
  ASSUME NEW c \in [Counted -> Nat], c["task"] > 0,
         c["task"] = 1 /\ result \in Values => c[result] > 0
  PROVE  /\ DecTask(c) \in [Counted -> Nat]
         /\ DecTask(c)["promise"] = c["promise"]
         /\ DecTask(c)["task"] = c["task"] - 1
         /\ \A v \in Values : DecTask(c)[v] = c[v] - Falls(c, v)
<1>1. "promise" \notin Values /\ "task" \notin Values
  BY PromisesAssumption
<1>2. CASE c["task"] = 1 /\ result \in Values
  <2> DEFINE d == [c EXCEPT !["task"] = 0]
  <2>1. DecTask(c) = [d EXCEPT ![result] = @ - 1]
    BY <1>2 DEF DecTask, DecValue
  <2>2. d \in [Counted -> Nat] /\ d[result] > 0 /\ result \in Counted
    BY <1>1, <1>2 DEF Counted
  <2> QED
    BY <1>1, <1>2, <2>1, <2>2 DEF Counted, Falls
<1>3. CASE c["task"] = 1 /\ result \notin Values
  BY <1>1, <1>3 DEF DecTask, DecValue, Counted, Falls
<1>4. CASE c["task"] # 1
  BY <1>1, <1>4 DEF DecTask, Counted, Falls
<1> QED
  BY <1>2, <1>3, <1>4

\* A handle to the promise is dropped.
LEMMA PromiseGivenUp ==
  ASSUME NEW c \in [Counted -> Nat], c["promise"] > 0, c["task"] > 0,
         c["task"] = 1 /\ result \in Values => c[result] > 0
  PROVE  /\ DecPromise(c) \in [Counted -> Nat]
         /\ DecPromise(c)["promise"] = c["promise"] - 1
         /\ DecPromise(c)["task"] = c["task"] - (IF c["promise"] = 1 THEN 1 ELSE 0)
         /\ \A v \in Values : DecPromise(c)[v] = c[v] - (IF c["promise"] = 1 THEN Falls(c, v) ELSE 0)
<1>1. "promise" \notin Values /\ "task" \notin Values
  BY PromisesAssumption
<1>2. CASE c["promise"] = 1
  <2> DEFINE d == [c EXCEPT !["promise"] = 0]
  <2>1. d \in [Counted -> Nat] /\ d["promise"] = 0 /\ d["task"] = c["task"] /\ \A v \in Values : d[v] = c[v]
    BY <1>1 DEF Counted
  <2>2. DecPromise(c) = DecTask(d)
    BY <1>2 DEF DecPromise
  <2>3. \A v : Falls(d, v) = Falls(c, v)
    BY <2>1 DEF Falls
  <2> HIDE DEF d
  <2> QED
    BY <1>2, <2>1, <2>2, <2>3, TaskGivenUp
<1>3. CASE c["promise"] # 1
  <2>1. DecPromise(c) = [c EXCEPT !["promise"] = @ - 1]
    BY <1>3 DEF DecPromise
  <2> QED
    BY <1>1, <1>3, <2>1 DEF Counted
<1> QED
  BY <1>2, <1>3

-----------------------------------------------------------------------------
(* What the invariant says to a thread that owns something.                *)

\* What is owned is counted, and what it refers to with it.
LEMMA OwnedIsCounted ==
  ASSUME IInv
  PROVE  /\ \A t \in Threads : promises[t] > 0 => counts["promise"] > 0
         /\ counts["promise"] > 0 => counts["task"] > 0
         /\ \A t \in Threads : tasks[t] > 0 \/ pool[t] = "waiting" => counts["task"] > 0
         /\ result \in Values /\ counts["task"] > 0 => counts[result] > 0
         /\ \A t \in Threads, v \in Values :
              results[t] = v \/ pool[t] = v \/ t \in CarriedBy(v) => counts[v] > 0
<1>1. Sum(promises) \in Nat /\ \A t \in Threads : promises[t] > 0 => Sum(promises) > 0
  BY SumType DEF IInv, PromisesTypeOK
<1>2. Sum(tasks) \in Nat /\ \A t \in Threads : tasks[t] > 0 => Sum(tasks) > 0
  BY SumType DEF IInv, PromisesTypeOK
<1>3. Cardinality(MadeBy) \in Nat
  BY ThreadsCount DEF MadeBy
<1>4. /\ Cardinality(OnPool("waiting")) \in Nat
      /\ \A t \in Threads : pool[t] = "waiting" => Cardinality(OnPool("waiting")) > 0
  BY ThreadsCount DEF OnPool
<1>5. ASSUME NEW v \in Values
      PROVE  /\ Cardinality(GotBy(v)) \in Nat /\ Cardinality(OnPool(v)) \in Nat /\ Cardinality(CarriedBy(v)) \in Nat
             /\ \A t \in GotBy(v) : Cardinality(GotBy(v)) > 0
             /\ \A t \in OnPool(v) : Cardinality(OnPool(v)) > 0
             /\ \A t \in CarriedBy(v) : Cardinality(CarriedBy(v)) > 0
  <2>1. GotBy(v) \in SUBSET Threads /\ OnPool(v) \in SUBSET Threads /\ CarriedBy(v) \in SUBSET Threads
    BY DEF GotBy, OnPool, CarriedBy
  <2> QED
    BY <2>1, ThreadsCount
<1>6. \A v : InTask(v) \in {0, 1} /\ Left(v) \in {0, 1} /\ (result = v /\ counts["task"] > 0 => InTask(v) = 1)
  BY DEF InTask, Left
<1>7. counts["promise"] > 0 => counts["task"] > 0
  BY <1>2, <1>4 DEF IInv, TaskCounted
<1>8. \A t \in Threads : promises[t] > 0 => counts["promise"] > 0
  BY <1>1, <1>3 DEF IInv, PromiseCounted
<1>9. \A t \in Threads : tasks[t] > 0 \/ pool[t] = "waiting" => counts["task"] > 0
  BY <1>2, <1>4 DEF IInv, TaskCounted
<1>10. result \in Values /\ counts["task"] > 0 => counts[result] > 0
  BY <1>5, <1>6 DEF IInv, ValuesCounted
<1>11. ASSUME NEW t \in Threads, NEW v \in Values, results[t] = v \/ pool[t] = v \/ t \in CarriedBy(v)
       PROVE  counts[v] > 0
  <2>1. t \in GotBy(v) \/ t \in OnPool(v) \/ t \in CarriedBy(v)
    BY <1>11 DEF GotBy, OnPool
  <2> QED
    BY <1>5, <1>6, <2>1 DEF IInv, ValuesCounted
<1> QED
  BY <1>7, <1>8, <1>9, <1>10, <1>11

\* Before there is a promise, nobody has a handle to it or to its task.
LEMMA NothingBeforeTheWorker ==
  ASSUME IInv, ~made \/ \E t \in Threads : Pending(t)
  PROVE  /\ \A t \in Threads : promises[t] = 0 /\ tasks[t] = 0 /\ pool[t] # "waiting"
         /\ counts["promise"] = 0 /\ counts["task"] = 0 /\ result = Unresolved
<1>1. counts["promise"] = 0 /\ counts["task"] = 0 /\ result = Unresolved
  BY DEF IInv, CreationInv
<1> QED
  BY <1>1, OwnedIsCounted DEF IInv, PromisesTypeOK

\* The effect of giving up a reference to the task, and to the promise.
TaskLost(d) ==
  /\ d \in [Counted -> Nat]
  /\ d["promise"] = counts["promise"]
  /\ counts["task"] > 0 /\ d["task"] = counts["task"] - 1
  /\ \A v \in Values : d[v] = counts[v] - Falls(counts, v)

PromiseLost(d) ==
  /\ d \in [Counted -> Nat]
  /\ counts["promise"] > 0 /\ d["promise"] = counts["promise"] - 1
  /\ counts["task"] > 0 /\ d["task"] = counts["task"] - (IF counts["promise"] = 1 THEN 1 ELSE 0)
  /\ \A v \in Values : d[v] = counts[v] - (IF counts["promise"] = 1 THEN Falls(counts, v) ELSE 0)

\* A thread that has a handle to the task can give it up.
LEMMA TaskIsLost ==
  ASSUME IInv, NEW t \in Threads, tasks[t] > 0
  PROVE  TaskLost(DecTask(counts))
<1>1. counts \in [Counted -> Nat]
  BY DEF IInv, PromisesTypeOK
<1>2. counts["task"] > 0 /\ (counts["task"] = 1 /\ result \in Values => counts[result] > 0)
  BY OwnedIsCounted
<1> QED
  BY <1>1, <1>2, TaskGivenUp DEF TaskLost

\* A thread that has a handle to the promise can drop it.
LEMMA PromiseIsLost ==
  ASSUME IInv, NEW t \in Threads, promises[t] > 0, DropPromise(counts)
  PROVE  /\ PromiseLost(counts')
         /\ result' = result \/ (result = Unresolved /\ result' = Nothing)
<1>1. counts \in [Counted -> Nat]
  BY DEF IInv, PromisesTypeOK
<1>2. /\ counts["promise"] > 0 /\ counts["task"] > 0
      /\ counts["task"] = 1 /\ result \in Values => counts[result] > 0
  BY OwnedIsCounted
<1>3. PromiseLost(DecPromise(counts))
  BY <1>1, <1>2, PromiseGivenUp DEF PromiseLost
<1> QED
  BY <1>3 DEF DropPromise

\* What one more reader of the task holds of v.
TakenBy(v) == IF v = result THEN 1 ELSE 0

\* Who has waited takes a reference to the value, and gives up the handle it waited with, if
\* it owned that.
LEMMA TaskIsRead ==
  ASSUME IInv
  PROVE  /\ Taken(counts) \in [Counted -> Nat]
         /\ Taken(counts)["promise"] = counts["promise"] /\ Taken(counts)["task"] = counts["task"]
         /\ \A v \in Values : Taken(counts)[v] = counts[v] + TakenBy(v)
         /\ counts["task"] > 0 =>
              /\ DecTask(Taken(counts)) \in [Counted -> Nat]
              /\ DecTask(Taken(counts))["promise"] = counts["promise"]
              /\ DecTask(Taken(counts))["task"] = counts["task"] - 1
              /\ \A v \in Values : DecTask(Taken(counts))[v] = counts[v] + TakenBy(v) - Falls(counts, v)
<1>1. counts \in [Counted -> Nat] /\ "promise" \notin Values /\ "task" \notin Values
  BY PromisesAssumption DEF IInv, PromisesTypeOK
<1>2. /\ Taken(counts) \in [Counted -> Nat]
      /\ Taken(counts)["promise"] = counts["promise"] /\ Taken(counts)["task"] = counts["task"]
      /\ \A v \in Values : Taken(counts)[v] = counts[v] + TakenBy(v)
  <2>1. CASE result \in Values
    BY <1>1, <2>1 DEF Taken, IncRef, TakenBy, Counted
  <2>2. CASE result \notin Values
    BY <1>1, <2>2 DEF Taken, TakenBy, Counted
  <2> QED
    BY <2>1, <2>2
<1>3. result \in Values => Taken(counts)[result] > 0
  BY <1>1, <1>2 DEF TakenBy, Counted
<1>4. \A v : Falls(Taken(counts), v) = Falls(counts, v)
  BY <1>2 DEF Falls
<1>5. ASSUME counts["task"] > 0
      PROVE  /\ DecTask(Taken(counts)) \in [Counted -> Nat]
             /\ DecTask(Taken(counts))["promise"] = counts["promise"]
             /\ DecTask(Taken(counts))["task"] = counts["task"] - 1
             /\ \A v \in Values : DecTask(Taken(counts))[v] = counts[v] + TakenBy(v) - Falls(counts, v)
  <2> DEFINE c == Taken(counts)
  <2>1. c \in [Counted -> Nat] /\ c["task"] > 0 /\ (c["task"] = 1 /\ result \in Values => c[result] > 0)
    BY <1>2, <1>3, <1>5
  <2> HIDE DEF c
  <2>2. /\ DecTask(c) \in [Counted -> Nat]
        /\ DecTask(c)["promise"] = c["promise"]
        /\ DecTask(c)["task"] = c["task"] - 1
        /\ \A v \in Values : DecTask(c)[v] = c[v] - Falls(c, v)
    BY <2>1, TaskGivenUp
  <2>3. c = Taken(counts)
    BY DEF c
  <2>4. c["promise"] = counts["promise"] /\ c["task"] = counts["task"]
    BY <1>2, <2>3
  <2>5. \A v \in Values : c[v] = counts[v] + TakenBy(v) /\ Falls(c, v) = Falls(counts, v)
    BY <1>2, <1>4, <2>3
  <2>6. /\ DecTask(c)["promise"] = counts["promise"]
        /\ DecTask(c)["task"] = counts["task"] - 1
    BY <2>2, <2>4
  <2>7. \A v \in Values : DecTask(c)[v] = counts[v] + TakenBy(v) - Falls(counts, v)
    <3> TAKE v \in Values
    <3>1. DecTask(c)[v] = c[v] - Falls(c, v)
      BY <2>2
    <3>2. c[v] = counts[v] + TakenBy(v) /\ Falls(c, v) = Falls(counts, v)
      BY <2>5
    <3>3. counts[v] \in Nat /\ TakenBy(v) \in Nat /\ Falls(counts, v) \in Nat
      BY <1>1 DEF TakenBy, Falls, Counted
    <3> QED
      BY <3>1, <3>2, <3>3
  <2> QED
    BY <2>2, <2>3, <2>6, <2>7
<1> QED
  BY <1>2, <1>5

-----------------------------------------------------------------------------
(* Each conjunct is kept.                                                  *)

\* At first nothing is owned.
LEMMA InitEstablishesIInv == PromisesInit => IInv
<1> SUFFICES ASSUME PromisesInit PROVE IInv
  OBVIOUS
<1> USE PromisesAssumption DEF PromisesInit, Exec!Init
<1>1. PromisesTypeOK
  BY DEF PromisesTypeOK, Counted
<1>2. CallInv /\ CreationInv /\ UseInv /\ OneValue
  BY DEF CallInv, CreationInv, UseInv, OneValue, Pending, Counted
<1>3. \A f \in [Threads -> {0}] : Sum(f) = 0
  <2> TAKE f \in [Threads -> {0}]
  <2>1. 1..0 = {}
    OBVIOUS
  <2>2. UNION {{t} \X (1..f[t]) : t \in DOMAIN f} = {}
    BY <2>1
  <2> QED
    BY <2>2, FS_EmptySet DEF Sum
<1>4. promises \in [Threads -> {0}] /\ tasks \in [Threads -> {0}]
  OBVIOUS
<1>5. Sum(promises) = 0 /\ Sum(tasks) = 0
  BY <1>3, <1>4
<1>6. /\ MadeBy = {} /\ OnPool("waiting") = {}
      /\ \A v \in Values : GotBy(v) = {} /\ OnPool(v) = {} /\ CarriedBy(v) = {}
  BY DEF MadeBy, OnPool, GotBy, CarriedBy
<1>7. \A v \in Values : InTask(v) = 0 /\ Left(v) = 0
  BY DEF InTask, Left
<1>8. counts["promise"] = 0 /\ counts["task"] = 0 /\ \A v \in Values : counts[v] = 0
  OBVIOUS
<1>9. PromiseCounted /\ TaskCounted /\ ValuesCounted
  BY <1>5, <1>6, <1>7, <1>8, FS_EmptySet DEF PromiseCounted, TaskCounted, ValuesCounted
<1> QED
  BY <1>1, <1>2, <1>9 DEF IInv

\* Types are kept: no count drops below zero.
LEMMA NextKeepsTypes ==
  ASSUME IInv, [PromisesNext]_promiseVars
  PROVE  PromisesTypeOK'
<1> USE PromisesAssumption DEF IInv, PromisesTypeOK, Change, Free, IncRef, Counted, Exec!Become, workerVars
<1>1. ASSUME WorkerDies PROVE PromisesTypeOK'
  BY <1>1 DEF WorkerDies, Exec!Retire
<1>2. ASSUME NEW t \in Threads, WorkerStarts(t) PROVE PromisesTypeOK'
  BY <1>2 DEF WorkerStarts, Exec!Start
<1>3. ASSUME NEW t \in Threads, RunNew(t) PROVE PromisesTypeOK'
  <2>1. \A c \in [Counted -> Nat], o \in Counted, n \in Nat : [c EXCEPT ![o] = n] \in [Counted -> Nat]
    OBVIOUS
  <2>2. "promise" \in Counted /\ "task" \in Counted
    OBVIOUS
  <2>3. [[counts EXCEPT !["promise"] = 1] EXCEPT !["task"] = 1] \in [Counted -> Nat]
    BY <2>1, <2>2
  <2>4. CASE counts' = [counts EXCEPT !["promise"] = 1, !["task"] = 1] /\ UNCHANGED job
    BY <1>3, <2>3, <2>4 DEF RunNew, Exec!Finish
  <2>5. CASE UNCHANGED counts /\ Change(job, t, "failed")
    BY <1>3, <2>5 DEF RunNew, Exec!Finish
  <2> QED
    BY <1>3, <2>4, <2>5 DEF RunNew
<1>4. ASSUME NEW t \in Threads, RunResolve(t) PROVE PromisesTypeOK'
  <2>1. job[t] \in Values /\ t \in CarriedBy(job[t])
    BY <1>4 DEF RunResolve, CarriedBy, Exec!Finish
  <2>2. counts[job[t]] > 0
    BY <2>1, OwnedIsCounted
  <2>3. counts' \in [Counted -> Nat] /\ result' \in Values \cup {Unresolved, Nothing}
    <3>1. [counts EXCEPT ![job[t]] = @ - 1] \in [Counted -> Nat]
      BY <2>1, <2>2
    <3> QED
      BY <1>4, <2>1, <3>1 DEF RunResolve, DecValue
  <2> QED
    BY <1>4, <2>3 DEF RunResolve, Exec!Finish
<1>5. ASSUME NEW t \in Threads, RunWait(t) PROVE PromisesTypeOK'
  BY <1>5 DEF RunWait, Exec!Finish
<1>6. ASSUME NEW t \in Threads, ReturnNew(t) PROVE PromisesTypeOK'
  BY <1>6 DEF ReturnNew, Exec!Deliver
<1>7. ASSUME NEW t \in Threads, ReturnError(t) PROVE PromisesTypeOK'
  BY <1>7 DEF ReturnError, Exec!Deliver
<1>8. ASSUME NEW t \in Threads, ReturnResolve(t) PROVE PromisesTypeOK'
  <2>1. promises[t] > 0
    BY <1>8 DEF ReturnResolve, CallInv
  <2>2. PromiseLost(counts') /\ result' \in Values \cup {Unresolved, Nothing}
    BY <1>8, <2>1, PromiseIsLost DEF ReturnResolve
  <2> QED
    BY <1>8, <2>1, <2>2 DEF ReturnResolve, PromiseLost, Exec!Deliver
<1>8a. ASSUME NEW t \in Threads, ReturnRejected(t) PROVE PromisesTypeOK'
  <2>1. promises[t] > 0
    BY <1>8a DEF ReturnRejected, CallInv
  <2>2. PromiseLost(counts') /\ result' \in Values \cup {Unresolved, Nothing}
    BY <1>8a, <2>1, PromiseIsLost DEF ReturnRejected
  <2> QED
    BY <1>8a, <2>1, <2>2 DEF ReturnRejected, PromiseLost, Exec!Deliver
<1>9. ASSUME NEW t \in Threads, ReturnWait(t) PROVE PromisesTypeOK'
  BY <1>9 DEF ReturnWait, Exec!Deliver
<1>10. ASSUME NEW t \in Threads, CallUnwinds(t) PROVE PromisesTypeOK'
  <2>1. CASE job[t] \in Values
    <3>1. PromiseLost(counts') /\ result' \in Values \cup {Unresolved, Nothing}
      BY <1>10, <2>1, PromiseIsLost DEF CallUnwinds, CallInv
    <3>2. promises[t] > 0
      BY <2>1 DEF CallInv
    <3>3. promises' \in [Threads -> Nat] /\ leaked' \in SUBSET Values
      BY <1>10, <2>1, <3>2 DEF CallUnwinds
    <3> QED
      BY <1>10, <2>1, <3>1, <3>3 DEF CallUnwinds, PromiseLost, Exec!Refuse
  <2>2. CASE job[t] \notin Values
    BY <1>10, <2>2 DEF CallUnwinds, Exec!Refuse
  <2> QED
    BY <2>1, <2>2
<1>11. ASSUME NEW t \in Threads, GetReturns(t) PROVE PromisesTypeOK'
  <2>1. tasks[t] > 0
    BY <1>11 DEF GetReturns, CallInv
  <2>2. counts["task"] > 0
    BY <2>1, OwnedIsCounted
  <2> QED
    BY <1>11, <2>1, <2>2, TaskIsRead DEF GetReturns
<1>12. ASSUME NEW t \in Threads, PoolReturns(t) PROVE PromisesTypeOK'
  <2>1. counts["task"] > 0
    BY <1>12, OwnedIsCounted DEF PoolReturns
  <2> QED
    BY <1>12, <2>1, TaskIsRead DEF PoolReturns
<1>13. ASSUME NEW t \in Threads, CallNew(t) PROVE PromisesTypeOK'
  BY <1>13 DEF CallNew, Exec!Submit
<1>14. ASSUME NEW t \in Threads, CallWait(t) PROVE PromisesTypeOK'
  BY <1>14 DEF CallWait, Exec!Submit
<1>15. ASSUME NEW t \in Threads, Task(t) PROVE PromisesTypeOK'
  BY <1>15 DEF Task
<1>16. ASSUME NEW t \in Threads, LetGoOfPromise(t) PROVE PromisesTypeOK'
  <2>1. PromiseLost(counts') /\ result' \in Values \cup {Unresolved, Nothing}
    BY <1>16, PromiseIsLost DEF LetGoOfPromise
  <2> QED
    BY <1>16, <2>1 DEF LetGoOfPromise, PromiseLost
<1>17. ASSUME NEW t \in Threads, LetGoOfTask(t) PROVE PromisesTypeOK'
  <2>1. TaskLost(counts')
    BY <1>17, TaskIsLost DEF LetGoOfTask
  <2> QED
    BY <1>17, <2>1 DEF LetGoOfTask, TaskLost
<1>18. ASSUME NEW t \in Threads, LetGoOfResult(t) PROVE PromisesTypeOK'
  <2>1. results[t] \in Values
    BY <1>18 DEF LetGoOfResult
  <2>2. counts[results[t]] > 0
    BY <2>1, OwnedIsCounted
  <2> QED
    BY <1>18, <2>1, <2>2 DEF LetGoOfResult, DecValue
<1>19. ASSUME NEW t \in Threads, IntoTokio(t) PROVE PromisesTypeOK'
  BY <1>19 DEF IntoTokio
<1>20. ASSUME NEW t \in Threads, Await(t) PROVE PromisesTypeOK'
  BY <1>20 DEF Await
<1>21. ASSUME NEW t \in Threads, NEW v \in Values, CallResolve(t, v) PROVE PromisesTypeOK'
  BY <1>21 DEF CallResolve, Exec!Submit
<1>22. ASSUME NEW t \in Threads, NEW how \in {"get", "get_owned"}, Get(t, how) PROVE PromisesTypeOK'
  BY <1>22 DEF Get
<1>23. ASSUME NEW t \in Threads, NEW u \in Threads, ClonePromise(t, u) PROVE PromisesTypeOK'
  BY <1>23 DEF ClonePromise
<1>24. ASSUME NEW t \in Threads, NEW u \in Threads, CloneTask(t, u) PROVE PromisesTypeOK'
  BY <1>24 DEF CloneTask
<1>25. CASE UNCHANGED promiseVars
  BY <1>25 DEF promiseVars
<1> QED
  BY <1>1, <1>2, <1>3, <1>4, <1>5, <1>6, <1>7, <1>8, <1>8a, <1>9, <1>10, <1>11, <1>12, <1>13, <1>14, <1>15, <1>16, <1>17, <1>18, <1>19, <1>20, <1>21, <1>22, <1>23, <1>24, <1>25 DEF PromisesNext, WorkerStep, ThreadStep

\* A call keeps the handle that it works on.
LEMMA NextKeepsCallInv ==
  ASSUME IInv, [PromisesNext]_promiseVars
  PROVE  CallInv'
<1> USE PromisesAssumption DEF IInv, CallInv, PromisesTypeOK, Change, Free, Exec!Become, workerVars
<1>1. ASSUME WorkerDies PROVE CallInv'
  BY <1>1 DEF WorkerDies, Exec!Retire
<1>2. ASSUME NEW t \in Threads, WorkerStarts(t) PROVE CallInv'
  BY <1>2 DEF WorkerStarts, Exec!Start
<1>3. ASSUME NEW t \in Threads, RunNew(t) PROVE CallInv'
  BY <1>3 DEF RunNew, Exec!Finish
<1>4. ASSUME NEW t \in Threads, RunResolve(t) PROVE CallInv'
  BY <1>4 DEF RunResolve, Exec!Finish
<1>5. ASSUME NEW t \in Threads, RunWait(t) PROVE CallInv'
  BY <1>5 DEF RunWait, Exec!Finish
<1>6. ASSUME NEW t \in Threads, ReturnNew(t) PROVE CallInv'
  BY <1>6 DEF ReturnNew, Exec!Deliver
<1>7. ASSUME NEW t \in Threads, ReturnError(t) PROVE CallInv'
  BY <1>7 DEF ReturnError, Exec!Deliver
<1>8. ASSUME NEW t \in Threads, ReturnResolve(t) PROVE CallInv'
  BY <1>8 DEF ReturnResolve, Exec!Deliver
<1>8a. ASSUME NEW t \in Threads, ReturnRejected(t) PROVE CallInv'
  BY <1>8a DEF ReturnRejected, Exec!Deliver
<1>9. ASSUME NEW t \in Threads, ReturnWait(t) PROVE CallInv'
  BY <1>9 DEF ReturnWait, Exec!Deliver
<1>10. ASSUME NEW t \in Threads, CallUnwinds(t) PROVE CallInv'
  BY <1>10 DEF CallUnwinds, Exec!Refuse
<1>11. ASSUME NEW t \in Threads, GetReturns(t) PROVE CallInv'
  BY <1>11 DEF GetReturns
<1>12. ASSUME NEW t \in Threads, PoolReturns(t) PROVE CallInv'
  BY <1>12 DEF PoolReturns
<1>13. ASSUME NEW t \in Threads, CallNew(t) PROVE CallInv'
  BY <1>13 DEF CallNew, Exec!Submit
<1>14. ASSUME NEW t \in Threads, CallWait(t) PROVE CallInv'
  BY <1>14 DEF CallWait, Exec!Submit
<1>15. ASSUME NEW t \in Threads, Task(t) PROVE CallInv'
  BY <1>15 DEF Task
<1>16. ASSUME NEW t \in Threads, LetGoOfPromise(t) PROVE CallInv'
  BY <1>16 DEF LetGoOfPromise
<1>17. ASSUME NEW t \in Threads, LetGoOfTask(t) PROVE CallInv'
  BY <1>17 DEF LetGoOfTask
<1>18. ASSUME NEW t \in Threads, LetGoOfResult(t) PROVE CallInv'
  BY <1>18 DEF LetGoOfResult
<1>19. ASSUME NEW t \in Threads, IntoTokio(t) PROVE CallInv'
  BY <1>19 DEF IntoTokio
<1>20. ASSUME NEW t \in Threads, Await(t) PROVE CallInv'
  BY <1>20 DEF Await
<1>21. ASSUME NEW t \in Threads, NEW v \in Values, CallResolve(t, v) PROVE CallInv'
  BY <1>21 DEF CallResolve, Exec!Submit
<1>22. ASSUME NEW t \in Threads, NEW how \in {"get", "get_owned"}, Get(t, how) PROVE CallInv'
  BY <1>22 DEF Get
<1>23. ASSUME NEW t \in Threads, NEW u \in Threads, ClonePromise(t, u) PROVE CallInv'
  BY <1>23 DEF ClonePromise
<1>24. ASSUME NEW t \in Threads, NEW u \in Threads, CloneTask(t, u) PROVE CallInv'
  BY <1>24 DEF CloneTask
<1>25. CASE UNCHANGED promiseVars
  BY <1>25 DEF promiseVars
<1> QED
  BY <1>1, <1>2, <1>3, <1>4, <1>5, <1>6, <1>7, <1>8, <1>8a, <1>9, <1>10, <1>11, <1>12, <1>13, <1>14, <1>15, <1>16, <1>17, <1>18, <1>19, <1>20, <1>21, <1>22, <1>23, <1>24, <1>25 DEF PromisesNext, WorkerStep, ThreadStep

\* No value is given to two calls.
LEMMA NextKeepsUseInv ==
  ASSUME IInv, [PromisesNext]_promiseVars
  PROVE  UseInv'
<1> USE PromisesAssumption DEF IInv, UseInv, PromisesTypeOK, Change, Free, Exec!Become, workerVars
<1>1. ASSUME WorkerDies PROVE UseInv'
  BY <1>1 DEF WorkerDies, Exec!Retire
<1>2. ASSUME NEW t \in Threads, WorkerStarts(t) PROVE UseInv'
  BY <1>2 DEF WorkerStarts, Exec!Start
<1>3. ASSUME NEW t \in Threads, RunNew(t) PROVE UseInv'
  BY <1>3 DEF RunNew, Exec!Finish
<1>4. ASSUME NEW t \in Threads, RunResolve(t) PROVE UseInv'
  BY <1>4 DEF RunResolve, Exec!Finish
<1>5. ASSUME NEW t \in Threads, RunWait(t) PROVE UseInv'
  BY <1>5 DEF RunWait, Exec!Finish
<1>6. ASSUME NEW t \in Threads, ReturnNew(t) PROVE UseInv'
  BY <1>6 DEF ReturnNew, Exec!Deliver
<1>7. ASSUME NEW t \in Threads, ReturnError(t) PROVE UseInv'
  BY <1>7 DEF ReturnError, Exec!Deliver
<1>8. ASSUME NEW t \in Threads, ReturnResolve(t) PROVE UseInv'
  BY <1>8 DEF ReturnResolve, Exec!Deliver
<1>8a. ASSUME NEW t \in Threads, ReturnRejected(t) PROVE UseInv'
  BY <1>8a DEF ReturnRejected, Exec!Deliver
<1>9. ASSUME NEW t \in Threads, ReturnWait(t) PROVE UseInv'
  BY <1>9 DEF ReturnWait, Exec!Deliver
<1>10. ASSUME NEW t \in Threads, CallUnwinds(t) PROVE UseInv'
  BY <1>10 DEF CallUnwinds, Exec!Refuse
<1>11. ASSUME NEW t \in Threads, GetReturns(t) PROVE UseInv'
  BY <1>11 DEF GetReturns
<1>12. ASSUME NEW t \in Threads, PoolReturns(t) PROVE UseInv'
  BY <1>12 DEF PoolReturns
<1>13. ASSUME NEW t \in Threads, CallNew(t) PROVE UseInv'
  BY <1>13 DEF CallNew, Exec!Submit
<1>14. ASSUME NEW t \in Threads, CallWait(t) PROVE UseInv'
  BY <1>14 DEF CallWait, Exec!Submit
<1>15. ASSUME NEW t \in Threads, Task(t) PROVE UseInv'
  BY <1>15 DEF Task
<1>16. ASSUME NEW t \in Threads, LetGoOfPromise(t) PROVE UseInv'
  BY <1>16 DEF LetGoOfPromise
<1>17. ASSUME NEW t \in Threads, LetGoOfTask(t) PROVE UseInv'
  BY <1>17 DEF LetGoOfTask
<1>18. ASSUME NEW t \in Threads, LetGoOfResult(t) PROVE UseInv'
  BY <1>18 DEF LetGoOfResult
<1>19. ASSUME NEW t \in Threads, IntoTokio(t) PROVE UseInv'
  BY <1>19 DEF IntoTokio
<1>20. ASSUME NEW t \in Threads, Await(t) PROVE UseInv'
  BY <1>20 DEF Await
<1>21. ASSUME NEW t \in Threads, NEW v \in Values, CallResolve(t, v) PROVE UseInv'
  BY <1>21 DEF CallResolve, Exec!Submit
<1>22. ASSUME NEW t \in Threads, NEW how \in {"get", "get_owned"}, Get(t, how) PROVE UseInv'
  BY <1>22 DEF Get
<1>23. ASSUME NEW t \in Threads, NEW u \in Threads, ClonePromise(t, u) PROVE UseInv'
  BY <1>23 DEF ClonePromise
<1>24. ASSUME NEW t \in Threads, NEW u \in Threads, CloneTask(t, u) PROVE UseInv'
  BY <1>24 DEF CloneTask
<1>25. CASE UNCHANGED promiseVars
  BY <1>25 DEF promiseVars
<1> QED
  BY <1>1, <1>2, <1>3, <1>4, <1>5, <1>6, <1>7, <1>8, <1>8a, <1>9, <1>10, <1>11, <1>12, <1>13, <1>14, <1>15, <1>16, <1>17, <1>18, <1>19, <1>20, <1>21, <1>22, <1>23, <1>24, <1>25 DEF PromisesNext, WorkerStep, ThreadStep

\* The result of the task is set once, and is all that threads get.
LEMMA NextKeepsOneValue ==
  ASSUME IInv, [PromisesNext]_promiseVars
  PROVE  OneValue'
<1> USE PromisesAssumption DEF IInv, OneValue, DropPromise, PromisesTypeOK, Change, Free, Exec!Become, workerVars
<1>1. ASSUME WorkerDies PROVE OneValue'
  BY <1>1 DEF WorkerDies, Exec!Retire
<1>2. ASSUME NEW t \in Threads, WorkerStarts(t) PROVE OneValue'
  BY <1>2 DEF WorkerStarts, Exec!Start
<1>3. ASSUME NEW t \in Threads, RunNew(t) PROVE OneValue'
  BY <1>3 DEF RunNew, Exec!Finish
<1>4. ASSUME NEW t \in Threads, RunResolve(t) PROVE OneValue'
  BY <1>4 DEF RunResolve, Exec!Finish
<1>5. ASSUME NEW t \in Threads, RunWait(t) PROVE OneValue'
  BY <1>5 DEF RunWait, Exec!Finish
<1>6. ASSUME NEW t \in Threads, ReturnNew(t) PROVE OneValue'
  BY <1>6 DEF ReturnNew, Exec!Deliver
<1>7. ASSUME NEW t \in Threads, ReturnError(t) PROVE OneValue'
  BY <1>7 DEF ReturnError, Exec!Deliver
<1>8. ASSUME NEW t \in Threads, ReturnResolve(t) PROVE OneValue'
  BY <1>8 DEF ReturnResolve, Exec!Deliver
<1>8a. ASSUME NEW t \in Threads, ReturnRejected(t) PROVE OneValue'
  BY <1>8a DEF ReturnRejected, Exec!Deliver
<1>9. ASSUME NEW t \in Threads, ReturnWait(t) PROVE OneValue'
  BY <1>9 DEF ReturnWait, Exec!Deliver
<1>10. ASSUME NEW t \in Threads, CallUnwinds(t) PROVE OneValue'
  BY <1>10 DEF CallUnwinds, Exec!Refuse
<1>11. ASSUME NEW t \in Threads, GetReturns(t) PROVE OneValue'
  BY <1>11 DEF GetReturns
<1>12. ASSUME NEW t \in Threads, PoolReturns(t) PROVE OneValue'
  BY <1>12 DEF PoolReturns
<1>13. ASSUME NEW t \in Threads, CallNew(t) PROVE OneValue'
  BY <1>13 DEF CallNew, Exec!Submit
<1>14. ASSUME NEW t \in Threads, CallWait(t) PROVE OneValue'
  BY <1>14 DEF CallWait, Exec!Submit
<1>15. ASSUME NEW t \in Threads, Task(t) PROVE OneValue'
  BY <1>15 DEF Task
<1>16. ASSUME NEW t \in Threads, LetGoOfPromise(t) PROVE OneValue'
  BY <1>16 DEF LetGoOfPromise
<1>17. ASSUME NEW t \in Threads, LetGoOfTask(t) PROVE OneValue'
  BY <1>17 DEF LetGoOfTask
<1>18. ASSUME NEW t \in Threads, LetGoOfResult(t) PROVE OneValue'
  BY <1>18 DEF LetGoOfResult
<1>19. ASSUME NEW t \in Threads, IntoTokio(t) PROVE OneValue'
  BY <1>19 DEF IntoTokio
<1>20. ASSUME NEW t \in Threads, Await(t) PROVE OneValue'
  BY <1>20 DEF Await
<1>21. ASSUME NEW t \in Threads, NEW v \in Values, CallResolve(t, v) PROVE OneValue'
  BY <1>21 DEF CallResolve, Exec!Submit
<1>22. ASSUME NEW t \in Threads, NEW how \in {"get", "get_owned"}, Get(t, how) PROVE OneValue'
  BY <1>22 DEF Get
<1>23. ASSUME NEW t \in Threads, NEW u \in Threads, ClonePromise(t, u) PROVE OneValue'
  BY <1>23 DEF ClonePromise
<1>24. ASSUME NEW t \in Threads, NEW u \in Threads, CloneTask(t, u) PROVE OneValue'
  BY <1>24 DEF CloneTask
<1>25. CASE UNCHANGED promiseVars
  BY <1>25 DEF promiseVars
<1> QED
  BY <1>1, <1>2, <1>3, <1>4, <1>5, <1>6, <1>7, <1>8, <1>8a, <1>9, <1>10, <1>11, <1>12, <1>13, <1>14, <1>15, <1>16, <1>17, <1>18, <1>19, <1>20, <1>21, <1>22, <1>23, <1>24, <1>25 DEF PromisesNext, WorkerStep, ThreadStep

\* The promise is made once.
LEMMA NextKeepsCreationInv ==
  ASSUME IInv, [PromisesNext]_promiseVars
  PROVE  CreationInv'
<1> USE PromisesAssumption DEF IInv, CreationInv, Pending, PromisesTypeOK, Change, Free, Exec!Become, workerVars
<1> DEFINE Empty == ~made \/ \E t \in Threads : Pending(t)
<1>0. Empty =>
       /\ \A t \in Threads : promises[t] = 0 /\ tasks[t] = 0 /\ pool[t] # "waiting" /\ job[t] \notin Values \cup {"rejected"} /\ at[t] = "idle"
       /\ counts["promise"] = 0 /\ counts["task"] = 0 /\ result = Unresolved
  BY NothingBeforeTheWorker DEF CallInv
<1>1. ASSUME WorkerDies PROVE CreationInv'
  BY <1>1, <1>0 DEF WorkerDies, Exec!Retire
<1>2. ASSUME NEW t \in Threads, WorkerStarts(t) PROVE CreationInv'
  BY <1>2, <1>0 DEF WorkerStarts, Exec!Start
<1>3. ASSUME NEW t \in Threads, RunNew(t) PROVE CreationInv'
  BY <1>3, <1>0 DEF RunNew, Exec!Finish
<1>4. ASSUME NEW t \in Threads, RunResolve(t) PROVE CreationInv'
  BY <1>4, <1>0 DEF RunResolve, Exec!Finish
<1>5. ASSUME NEW t \in Threads, RunWait(t) PROVE CreationInv'
  BY <1>5, <1>0 DEF RunWait, Exec!Finish
<1>6. ASSUME NEW t \in Threads, ReturnNew(t) PROVE CreationInv'
  BY <1>6, <1>0 DEF ReturnNew, Exec!Deliver
<1>7. ASSUME NEW t \in Threads, ReturnError(t) PROVE CreationInv'
  BY <1>7, <1>0 DEF ReturnError, Exec!Deliver
<1>8. ASSUME NEW t \in Threads, ReturnResolve(t) PROVE CreationInv'
  BY <1>8, <1>0 DEF ReturnResolve, Exec!Deliver
<1>8a. ASSUME NEW t \in Threads, ReturnRejected(t) PROVE CreationInv'
  BY <1>8a, <1>0 DEF ReturnRejected, Exec!Deliver
<1>9. ASSUME NEW t \in Threads, ReturnWait(t) PROVE CreationInv'
  BY <1>9, <1>0 DEF ReturnWait, Exec!Deliver
<1>10. ASSUME NEW t \in Threads, CallUnwinds(t) PROVE CreationInv'
  BY <1>10, <1>0 DEF CallUnwinds, Exec!Refuse
<1>11. ASSUME NEW t \in Threads, GetReturns(t) PROVE CreationInv'
  BY <1>11, <1>0 DEF GetReturns
<1>12. ASSUME NEW t \in Threads, PoolReturns(t) PROVE CreationInv'
  BY <1>12, <1>0 DEF PoolReturns
<1>13. ASSUME NEW t \in Threads, CallNew(t) PROVE CreationInv'
  BY <1>13, <1>0 DEF CallNew, Exec!Submit
<1>14. ASSUME NEW t \in Threads, CallWait(t) PROVE CreationInv'
  BY <1>14, <1>0 DEF CallWait, Exec!Submit
<1>15. ASSUME NEW t \in Threads, Task(t) PROVE CreationInv'
  BY <1>15, <1>0 DEF Task
<1>16. ASSUME NEW t \in Threads, LetGoOfPromise(t) PROVE CreationInv'
  BY <1>16, <1>0 DEF LetGoOfPromise
<1>17. ASSUME NEW t \in Threads, LetGoOfTask(t) PROVE CreationInv'
  BY <1>17, <1>0 DEF LetGoOfTask
<1>18. ASSUME NEW t \in Threads, LetGoOfResult(t) PROVE CreationInv'
  <2>1. counts'["promise"] = counts["promise"] /\ counts'["task"] = counts["task"]
    BY <1>18 DEF LetGoOfResult, DecValue, Counted
  <2> QED
    BY <1>18, <2>1 DEF LetGoOfResult
<1>19. ASSUME NEW t \in Threads, IntoTokio(t) PROVE CreationInv'
  BY <1>19, <1>0 DEF IntoTokio
<1>20. ASSUME NEW t \in Threads, Await(t) PROVE CreationInv'
  BY <1>20, <1>0 DEF Await
<1>21. ASSUME NEW t \in Threads, NEW v \in Values, CallResolve(t, v) PROVE CreationInv'
  BY <1>21, <1>0 DEF CallResolve, Exec!Submit
<1>22. ASSUME NEW t \in Threads, NEW how \in {"get", "get_owned"}, Get(t, how) PROVE CreationInv'
  BY <1>22, <1>0 DEF Get
<1>23. ASSUME NEW t \in Threads, NEW u \in Threads, ClonePromise(t, u) PROVE CreationInv'
  BY <1>23, <1>0 DEF ClonePromise
<1>24. ASSUME NEW t \in Threads, NEW u \in Threads, CloneTask(t, u) PROVE CreationInv'
  BY <1>24, <1>0 DEF CloneTask
<1>25. CASE UNCHANGED promiseVars
  BY <1>25 DEF promiseVars
<1> QED
  BY <1>1, <1>2, <1>3, <1>4, <1>5, <1>6, <1>7, <1>8, <1>8a, <1>9, <1>10, <1>11, <1>12, <1>13, <1>14, <1>15, <1>16, <1>17, <1>18, <1>19, <1>20, <1>21, <1>22, <1>23, <1>24, <1>25 DEF PromisesNext, WorkerStep, ThreadStep

\* The references to the promise are the handles, and what new is about to return.
LEMMA NextKeepsPromiseCounted ==
  ASSUME IInv, [PromisesNext]_promiseVars
  PROVE  PromiseCounted'
<1> USE PromisesAssumption DEF IInv, PromisesTypeOK, PromiseCounted, Change, Free, Exec!Become, workerVars
<1>0. /\ Sum(promises) \in Nat /\ Cardinality(MadeBy) \in Nat /\ MadeBy \in SUBSET Threads
      /\ counts["promise"] \in Nat
  BY SumType, ThreadsCount DEF MadeBy, Counted
<1>1. ASSUME WorkerDies PROVE PromiseCounted'
  <2>1. MadeBy' = MadeBy
    BY <1>1 DEF WorkerDies, Exec!Retire, MadeBy
  <2> QED
    BY <1>1, <2>1 DEF WorkerDies, Exec!Retire
<1>2. ASSUME NEW t \in Threads, WorkerStarts(t) PROVE PromiseCounted'
  <2>1. MadeBy' = MadeBy
    BY <1>2 DEF WorkerStarts, Exec!Start, MadeBy
  <2> QED
    BY <1>2, <2>1 DEF WorkerStarts, Exec!Start
<1>3. ASSUME NEW t \in Threads, RunNew(t) PROVE PromiseCounted'
  <2>1. CASE counts' = [counts EXCEPT !["promise"] = 1, !["task"] = 1] /\ UNCHANGED job
    <3>1. counts["promise"] = 0
      BY <1>3, NothingBeforeTheWorker DEF RunNew, Pending, Exec!Finish
    <3>2. MadeBy' = MadeBy \cup {t} /\ t \notin MadeBy
      BY <1>3, <2>1 DEF RunNew, MadeBy, Exec!Finish
    <3>3. Cardinality(MadeBy') = Cardinality(MadeBy) + 1 /\ counts'["promise"] = 1
      BY <1>0, <2>1, <3>2, ThreadsCount DEF Counted
    <3> QED
      BY <1>3, <1>0, <3>1, <3>3 DEF RunNew
  <2>2. CASE UNCHANGED counts /\ Change(job, t, "failed")
    <3>1. MadeBy' = MadeBy
      BY <1>3, <2>2 DEF RunNew, MadeBy, Exec!Finish
    <3> QED
      BY <1>3, <2>2, <3>1 DEF RunNew
  <2> QED
    BY <1>3, <2>1, <2>2 DEF RunNew
<1>4. ASSUME NEW t \in Threads, RunResolve(t) PROVE PromiseCounted'
  <2>1. MadeBy' = MadeBy
    BY <1>4 DEF RunResolve, Exec!Finish, MadeBy
  <2>2. counts'["promise"] = counts["promise"]
    BY <1>4 DEF RunResolve, DecValue, Counted
  <2> QED
    BY <1>4, <2>1, <2>2 DEF RunResolve
<1>5. ASSUME NEW t \in Threads, RunWait(t) PROVE PromiseCounted'
  <2>1. MadeBy' = MadeBy
    BY <1>5 DEF RunWait, Exec!Finish, MadeBy
  <2> QED
    BY <1>5, <2>1 DEF RunWait, Exec!Finish
<1>6. ASSUME NEW t \in Threads, ReturnNew(t) PROVE PromiseCounted'
  <2>1. MadeBy' = MadeBy \ {t} /\ t \in MadeBy
    BY <1>6 DEF ReturnNew, MadeBy, Exec!Deliver
  <2>2. Cardinality(MadeBy') = Cardinality(MadeBy) - 1
    BY <1>0, <2>1, ThreadsCount
  <2>3. Sum(promises') = Sum(promises) + 1
    BY <1>6, SumUp DEF ReturnNew
  <2> QED
    BY <1>6, <1>0, <2>2, <2>3 DEF ReturnNew
<1>7. ASSUME NEW t \in Threads, ReturnError(t) PROVE PromiseCounted'
  <2>1. MadeBy' = MadeBy
    BY <1>7 DEF ReturnError, Exec!Deliver, MadeBy
  <2> QED
    BY <1>7, <2>1 DEF ReturnError, Exec!Deliver
<1>8. ASSUME NEW t \in Threads, ReturnResolve(t) PROVE PromiseCounted'
  <2>1. promises[t] > 0
    BY <1>8 DEF ReturnResolve, Exec!Deliver, CallInv
  <2>2. MadeBy' = MadeBy
    BY <1>8 DEF ReturnResolve, Exec!Deliver, MadeBy
  <2>3. Sum(promises') = Sum(promises) - 1
    BY <1>8, <2>1, SumDown DEF ReturnResolve
  <2>4. counts["promise"] > 0 /\ counts'["promise"] = counts["promise"] - 1
    BY <1>8, <2>1, PromiseIsLost DEF ReturnResolve, PromiseLost
  <2> QED
    BY <1>0, <2>2, <2>3, <2>4
<1>8a. ASSUME NEW t \in Threads, ReturnRejected(t) PROVE PromiseCounted'
  <2>1. promises[t] > 0
    BY <1>8a DEF ReturnRejected, Exec!Deliver, CallInv
  <2>2. MadeBy' = MadeBy
    BY <1>8a DEF ReturnRejected, Exec!Deliver, MadeBy
  <2>3. Sum(promises') = Sum(promises) - 1
    BY <1>8a, <2>1, SumDown DEF ReturnRejected
  <2>4. counts["promise"] > 0 /\ counts'["promise"] = counts["promise"] - 1
    BY <1>8a, <2>1, PromiseIsLost DEF ReturnRejected, PromiseLost
  <2> QED
    BY <1>0, <2>2, <2>3, <2>4
<1>9. ASSUME NEW t \in Threads, ReturnWait(t) PROVE PromiseCounted'
  <2>1. MadeBy' = MadeBy
    BY <1>9 DEF ReturnWait, Exec!Deliver, MadeBy
  <2> QED
    BY <1>9, <2>1 DEF ReturnWait, Exec!Deliver
<1>10. ASSUME NEW t \in Threads, CallUnwinds(t) PROVE PromiseCounted'
  <2>0. MadeBy' = MadeBy
    BY <1>10 DEF CallUnwinds, Exec!Refuse, MadeBy
  <2>1. CASE job[t] \in Values
    <3>1. promises[t] > 0 /\ DropPromise(counts) /\ promises' = [promises EXCEPT ![t] = promises[t] - 1]
      BY <1>10, <2>1 DEF CallUnwinds, CallInv
    <3>2. Sum(promises') = Sum(promises) - 1
      BY <3>1, SumDown
    <3>3. counts["promise"] > 0 /\ counts'["promise"] = counts["promise"] - 1
      BY <3>1, PromiseIsLost DEF PromiseLost
    <3> QED
      BY <1>0, <2>0, <3>2, <3>3
  <2>2. CASE job[t] \notin Values
    BY <1>10, <2>0, <2>2 DEF CallUnwinds
  <2> QED
    BY <2>1, <2>2
<1>11. ASSUME NEW t \in Threads, GetReturns(t) PROVE PromiseCounted'
  <2>1. MadeBy' = MadeBy
    BY <1>11 DEF GetReturns, MadeBy
  <2>2. counts'["promise"] = counts["promise"]
    BY <1>11, OwnedIsCounted, TaskIsRead DEF GetReturns, CallInv
  <2> QED
    BY <1>11, <2>1, <2>2 DEF GetReturns
<1>12. ASSUME NEW t \in Threads, PoolReturns(t) PROVE PromiseCounted'
  <2>1. MadeBy' = MadeBy
    BY <1>12 DEF PoolReturns, MadeBy
  <2>2. counts'["promise"] = counts["promise"]
    BY <1>12, OwnedIsCounted, TaskIsRead DEF PoolReturns
  <2> QED
    BY <1>12, <2>1, <2>2 DEF PoolReturns
<1>13. ASSUME NEW t \in Threads, CallNew(t) PROVE PromiseCounted'
  <2>1. MadeBy' = MadeBy
    BY <1>13 DEF CallNew, Exec!Submit, MadeBy
  <2> QED
    BY <1>13, <2>1 DEF CallNew, Exec!Submit
<1>14. ASSUME NEW t \in Threads, CallWait(t) PROVE PromiseCounted'
  <2>1. MadeBy' = MadeBy
    BY <1>14 DEF CallWait, Exec!Submit, MadeBy
  <2> QED
    BY <1>14, <2>1 DEF CallWait, Exec!Submit
<1>15. ASSUME NEW t \in Threads, Task(t) PROVE PromiseCounted'
  <2>1. MadeBy' = MadeBy
    BY <1>15 DEF Task, MadeBy
  <2>2. counts'["promise"] = counts["promise"]
    BY <1>15 DEF Task, IncRef, Counted
  <2> QED
    BY <1>15, <2>1, <2>2 DEF Task
<1>16. ASSUME NEW t \in Threads, LetGoOfPromise(t) PROVE PromiseCounted'
  <2>1. promises[t] > 0
    BY <1>16 DEF LetGoOfPromise, CallInv
  <2>2. MadeBy' = MadeBy
    BY <1>16 DEF LetGoOfPromise, MadeBy
  <2>3. Sum(promises') = Sum(promises) - 1
    BY <1>16, <2>1, SumDown DEF LetGoOfPromise
  <2>4. counts["promise"] > 0 /\ counts'["promise"] = counts["promise"] - 1
    BY <1>16, <2>1, PromiseIsLost DEF LetGoOfPromise, PromiseLost
  <2> QED
    BY <1>0, <2>2, <2>3, <2>4
<1>17. ASSUME NEW t \in Threads, LetGoOfTask(t) PROVE PromiseCounted'
  <2>1. MadeBy' = MadeBy
    BY <1>17 DEF LetGoOfTask, MadeBy
  <2>2. counts'["promise"] = counts["promise"]
    BY <1>17, TaskIsLost DEF LetGoOfTask, TaskLost
  <2> QED
    BY <1>17, <2>1, <2>2 DEF LetGoOfTask
<1>18. ASSUME NEW t \in Threads, LetGoOfResult(t) PROVE PromiseCounted'
  <2>1. MadeBy' = MadeBy
    BY <1>18 DEF LetGoOfResult, MadeBy
  <2>2. counts'["promise"] = counts["promise"]
    BY <1>18 DEF LetGoOfResult, DecValue, Counted
  <2> QED
    BY <1>18, <2>1, <2>2 DEF LetGoOfResult
<1>19. ASSUME NEW t \in Threads, IntoTokio(t) PROVE PromiseCounted'
  <2>1. MadeBy' = MadeBy
    BY <1>19 DEF IntoTokio, MadeBy
  <2> QED
    BY <1>19, <2>1 DEF IntoTokio
<1>20. ASSUME NEW t \in Threads, Await(t) PROVE PromiseCounted'
  <2>1. MadeBy' = MadeBy
    BY <1>20 DEF Await, MadeBy
  <2> QED
    BY <1>20, <2>1 DEF Await
<1>21. ASSUME NEW t \in Threads, NEW v \in Values, CallResolve(t, v) PROVE PromiseCounted'
  <2>1. MadeBy' = MadeBy
    BY <1>21 DEF CallResolve, Exec!Submit, MadeBy
  <2>2. counts'["promise"] = counts["promise"]
    BY <1>21 DEF CallResolve, IncRef, Counted
  <2> QED
    BY <1>21, <2>1, <2>2 DEF CallResolve
<1>22. ASSUME NEW t \in Threads, NEW how \in {"get", "get_owned"}, Get(t, how) PROVE PromiseCounted'
  <2>1. MadeBy' = MadeBy
    BY <1>22 DEF Get, MadeBy
  <2> QED
    BY <1>22, <2>1 DEF Get
<1>23. ASSUME NEW t \in Threads, NEW u \in Threads, ClonePromise(t, u) PROVE PromiseCounted'
  <2>1. MadeBy' = MadeBy
    BY <1>23 DEF ClonePromise, MadeBy
  <2>2. Sum(promises') = Sum(promises) + 1
    BY <1>23, SumUp DEF ClonePromise
  <2>3. counts'["promise"] = counts["promise"] + 1
    BY <1>23 DEF ClonePromise, IncRef, Counted
  <2> QED
    BY <1>0, <2>1, <2>2, <2>3
<1>24. ASSUME NEW t \in Threads, NEW u \in Threads, CloneTask(t, u) PROVE PromiseCounted'
  <2>1. MadeBy' = MadeBy
    BY <1>24 DEF CloneTask, MadeBy
  <2>2. counts'["promise"] = counts["promise"]
    BY <1>24 DEF CloneTask, IncRef, Counted
  <2> QED
    BY <1>24, <2>1, <2>2 DEF CloneTask
<1>25. CASE UNCHANGED promiseVars
  <2>1. MadeBy' = MadeBy
    BY <1>25 DEF promiseVars, MadeBy
  <2> QED
    BY <1>25, <2>1 DEF promiseVars
<1> QED
  BY <1>1, <1>2, <1>3, <1>4, <1>5, <1>6, <1>7, <1>8, <1>8a, <1>9, <1>10, <1>11, <1>12, <1>13, <1>14, <1>15, <1>16, <1>17, <1>18, <1>19, <1>20, <1>21, <1>22, <1>23, <1>24, <1>25 DEF PromisesNext, WorkerStep, ThreadStep

\* The references to the task are its handles, those of tokio's pool, and the promise's.
LEMMA NextKeepsTaskCounted ==
  ASSUME IInv, [PromisesNext]_promiseVars
  PROVE  TaskCounted'
<1> USE PromisesAssumption DEF IInv, PromisesTypeOK, TaskCounted, Change, Free, Exec!Become, workerVars
<1>0. /\ Sum(tasks) \in Nat /\ Cardinality(OnPool("waiting")) \in Nat /\ OnPool("waiting") \in SUBSET Threads
      /\ counts["promise"] \in Nat /\ counts["task"] \in Nat
  BY SumType, ThreadsCount DEF OnPool, Counted
<1>1. ASSUME WorkerDies PROVE TaskCounted'
  <2>1. OnPool("waiting")' = OnPool("waiting")
    BY <1>1 DEF WorkerDies, OnPool
  <2> QED
    BY <1>1, <2>1 DEF WorkerDies, Exec!Retire
<1>2. ASSUME NEW t \in Threads, WorkerStarts(t) PROVE TaskCounted'
  <2>1. OnPool("waiting")' = OnPool("waiting")
    BY <1>2 DEF WorkerStarts, OnPool
  <2> QED
    BY <1>2, <2>1 DEF WorkerStarts, Exec!Start
<1>3. ASSUME NEW t \in Threads, RunNew(t) PROVE TaskCounted'
  <2>0. OnPool("waiting")' = OnPool("waiting")
    BY <1>3 DEF RunNew, OnPool
  <2>1. CASE counts' = [counts EXCEPT !["promise"] = 1, !["task"] = 1] /\ UNCHANGED job
    <3>1. counts["promise"] = 0 /\ counts["task"] = 0
      BY <1>3, NothingBeforeTheWorker DEF RunNew, Pending, Exec!Finish
    <3>2. counts'["promise"] = 1 /\ counts'["task"] = 1
      BY <2>1 DEF Counted
    <3>3. UNCHANGED tasks
      BY <1>3 DEF RunNew
    <3> QED
      BY <1>0, <2>0, <3>1, <3>2, <3>3
  <2>2. CASE UNCHANGED counts /\ Change(job, t, "failed")
    BY <1>3, <2>0, <2>2 DEF RunNew
  <2> QED
    BY <1>3, <2>1, <2>2 DEF RunNew
<1>4. ASSUME NEW t \in Threads, RunResolve(t) PROVE TaskCounted'
  <2>1. OnPool("waiting")' = OnPool("waiting")
    BY <1>4 DEF RunResolve, OnPool
  <2>2. counts'["task"] = counts["task"] /\ counts'["promise"] = counts["promise"] /\ UNCHANGED tasks
    BY <1>4 DEF RunResolve, IncRef, DecValue, Counted
  <2> QED
    BY <2>1, <2>2
<1>5. ASSUME NEW t \in Threads, RunWait(t) PROVE TaskCounted'
  <2>1. OnPool("waiting")' = OnPool("waiting")
    BY <1>5 DEF RunWait, OnPool
  <2> QED
    BY <1>5, <2>1 DEF RunWait, Exec!Finish
<1>6. ASSUME NEW t \in Threads, ReturnNew(t) PROVE TaskCounted'
  <2>1. OnPool("waiting")' = OnPool("waiting")
    BY <1>6 DEF ReturnNew, OnPool
  <2> QED
    BY <1>6, <2>1 DEF ReturnNew, Exec!Deliver
<1>7. ASSUME NEW t \in Threads, ReturnError(t) PROVE TaskCounted'
  <2>1. OnPool("waiting")' = OnPool("waiting")
    BY <1>7 DEF ReturnError, OnPool
  <2> QED
    BY <1>7, <2>1 DEF ReturnError, Exec!Deliver
<1>8. ASSUME NEW t \in Threads, ReturnResolve(t) PROVE TaskCounted'
  <2>1. OnPool("waiting")' = OnPool("waiting")
    BY <1>8 DEF ReturnResolve, OnPool
  <2>2. promises[t] > 0 /\ UNCHANGED tasks
    BY <1>8 DEF ReturnResolve, Exec!Deliver, CallInv
  <2>3. PromiseLost(counts')
    BY <1>8, <2>2, PromiseIsLost DEF ReturnResolve
  <2> QED
    BY <1>0, <2>1, <2>2, <2>3 DEF PromiseLost
<1>8a. ASSUME NEW t \in Threads, ReturnRejected(t) PROVE TaskCounted'
  <2>1. OnPool("waiting")' = OnPool("waiting")
    BY <1>8a DEF ReturnRejected, OnPool
  <2>2. promises[t] > 0 /\ UNCHANGED tasks
    BY <1>8a DEF ReturnRejected, Exec!Deliver, CallInv
  <2>3. PromiseLost(counts')
    BY <1>8a, <2>2, PromiseIsLost DEF ReturnRejected
  <2> QED
    BY <1>0, <2>1, <2>2, <2>3 DEF PromiseLost
<1>9. ASSUME NEW t \in Threads, ReturnWait(t) PROVE TaskCounted'
  <2>1. OnPool("waiting")' = OnPool("waiting")
    BY <1>9 DEF ReturnWait, OnPool
  <2> QED
    BY <1>9, <2>1 DEF ReturnWait, Exec!Deliver
<1>10. ASSUME NEW t \in Threads, CallUnwinds(t) PROVE TaskCounted'
  <2>0. OnPool("waiting")' = OnPool("waiting") /\ UNCHANGED tasks
    BY <1>10 DEF CallUnwinds, OnPool
  <2>1. CASE job[t] \in Values
    <3>1. promises[t] > 0 /\ DropPromise(counts)
      BY <1>10, <2>1 DEF CallUnwinds, CallInv
    <3>2. PromiseLost(counts')
      BY <3>1, PromiseIsLost
    <3> QED
      BY <1>0, <2>0, <3>2 DEF PromiseLost
  <2>2. CASE job[t] \notin Values
    BY <1>10, <2>0, <2>2 DEF CallUnwinds
  <2> QED
    BY <2>1, <2>2
<1>11. ASSUME NEW t \in Threads, GetReturns(t) PROVE TaskCounted'
  <2>1. OnPool("waiting")' = OnPool("waiting")
    BY <1>11 DEF GetReturns, OnPool
  <2>2. tasks[t] > 0
    BY <1>11 DEF GetReturns, CallInv
  <2>3. counts["task"] > 0
    BY <2>2, OwnedIsCounted
  <2>4. CASE at[t] = "get_owned"
    <3>1. counts'["promise"] = counts["promise"] /\ counts'["task"] = counts["task"] - 1
      BY <1>11, <2>3, <2>4, TaskIsRead DEF GetReturns
    <3>2. Sum(tasks') = Sum(tasks) - 1
      BY <1>11, <2>2, <2>4, SumDown DEF GetReturns
    <3> QED
      BY <1>0, <2>1, <3>1, <3>2
  <2>5. CASE at[t] # "get_owned"
    <3>1. counts'["promise"] = counts["promise"] /\ counts'["task"] = counts["task"] /\ UNCHANGED tasks
      BY <1>11, <2>5, TaskIsRead DEF GetReturns
    <3> QED
      BY <2>1, <3>1
  <2> QED
    BY <2>4, <2>5
<1>12. ASSUME NEW t \in Threads, PoolReturns(t) PROVE TaskCounted'
  <2>1. OnPool("waiting")' = OnPool("waiting") \ {t} /\ t \in OnPool("waiting")
    BY <1>12 DEF PoolReturns, OnPool
  <2>2. Cardinality(OnPool("waiting")') = Cardinality(OnPool("waiting")) - 1
    BY <1>0, <2>1, ThreadsCount
  <2>3. counts["task"] > 0
    BY <1>12, OwnedIsCounted DEF PoolReturns
  <2>4. counts'["promise"] = counts["promise"] /\ counts'["task"] = counts["task"] - 1 /\ UNCHANGED tasks
    BY <1>12, <2>3, TaskIsRead DEF PoolReturns
  <2> QED
    BY <1>0, <2>2, <2>4
<1>13. ASSUME NEW t \in Threads, CallNew(t) PROVE TaskCounted'
  <2>1. OnPool("waiting")' = OnPool("waiting")
    BY <1>13 DEF CallNew, OnPool
  <2> QED
    BY <1>13, <2>1 DEF CallNew, Exec!Submit
<1>14. ASSUME NEW t \in Threads, CallWait(t) PROVE TaskCounted'
  <2>1. OnPool("waiting")' = OnPool("waiting")
    BY <1>14 DEF CallWait, OnPool
  <2> QED
    BY <1>14, <2>1 DEF CallWait, Exec!Submit
<1>15. ASSUME NEW t \in Threads, Task(t) PROVE TaskCounted'
  <2>1. OnPool("waiting")' = OnPool("waiting")
    BY <1>15 DEF Task, OnPool
  <2>2. counts'["task"] = counts["task"] + 1 /\ counts'["promise"] = counts["promise"]
    BY <1>15 DEF Task, IncRef, Counted
  <2>3. Sum(tasks') = Sum(tasks) + 1
    BY <1>15, SumUp DEF Task
  <2> QED
    BY <1>0, <2>1, <2>2, <2>3
<1>16. ASSUME NEW t \in Threads, LetGoOfPromise(t) PROVE TaskCounted'
  <2>1. OnPool("waiting")' = OnPool("waiting")
    BY <1>16 DEF LetGoOfPromise, OnPool
  <2>2. promises[t] > 0 /\ UNCHANGED tasks
    BY <1>16 DEF LetGoOfPromise, CallInv
  <2>3. PromiseLost(counts')
    BY <1>16, <2>2, PromiseIsLost DEF LetGoOfPromise
  <2> QED
    BY <1>0, <2>1, <2>2, <2>3 DEF PromiseLost
<1>17. ASSUME NEW t \in Threads, LetGoOfTask(t) PROVE TaskCounted'
  <2>1. OnPool("waiting")' = OnPool("waiting")
    BY <1>17 DEF LetGoOfTask, OnPool
  <2>2. TaskLost(counts')
    BY <1>17, TaskIsLost DEF LetGoOfTask
  <2>3. Sum(tasks') = Sum(tasks) - 1
    BY <1>17, SumDown DEF LetGoOfTask
  <2> QED
    BY <1>0, <2>1, <2>2, <2>3 DEF TaskLost
<1>18. ASSUME NEW t \in Threads, LetGoOfResult(t) PROVE TaskCounted'
  <2>1. OnPool("waiting")' = OnPool("waiting")
    BY <1>18 DEF LetGoOfResult, OnPool
  <2>2. counts'["task"] = counts["task"] /\ counts'["promise"] = counts["promise"] /\ UNCHANGED tasks
    BY <1>18 DEF LetGoOfResult, IncRef, DecValue, Counted
  <2> QED
    BY <2>1, <2>2
<1>19. ASSUME NEW t \in Threads, IntoTokio(t) PROVE TaskCounted'
  <2>1. OnPool("waiting")' = OnPool("waiting") \cup {t} /\ t \notin OnPool("waiting")
    BY <1>19 DEF IntoTokio, OnPool
  <2>2. Cardinality(OnPool("waiting")') = Cardinality(OnPool("waiting")) + 1
    BY <1>0, <2>1, ThreadsCount
  <2>3. Sum(tasks') = Sum(tasks) - 1 /\ UNCHANGED counts
    BY <1>19, SumDown DEF IntoTokio
  <2> QED
    BY <1>0, <2>2, <2>3
<1>20. ASSUME NEW t \in Threads, Await(t) PROVE TaskCounted'
  <2>1. OnPool("waiting")' = OnPool("waiting")
    BY <1>20 DEF Await, OnPool
  <2> QED
    BY <1>20, <2>1 DEF Await
<1>21. ASSUME NEW t \in Threads, NEW v \in Values, CallResolve(t, v) PROVE TaskCounted'
  <2>1. OnPool("waiting")' = OnPool("waiting")
    BY <1>21 DEF CallResolve, OnPool
  <2>2. counts'["task"] = counts["task"] /\ counts'["promise"] = counts["promise"] /\ UNCHANGED tasks
    BY <1>21 DEF CallResolve, IncRef, DecValue, Counted
  <2> QED
    BY <2>1, <2>2
<1>22. ASSUME NEW t \in Threads, NEW how \in {"get", "get_owned"}, Get(t, how) PROVE TaskCounted'
  <2>1. OnPool("waiting")' = OnPool("waiting")
    BY <1>22 DEF Get, OnPool
  <2> QED
    BY <1>22, <2>1 DEF Get
<1>23. ASSUME NEW t \in Threads, NEW u \in Threads, ClonePromise(t, u) PROVE TaskCounted'
  <2>1. OnPool("waiting")' = OnPool("waiting")
    BY <1>23 DEF ClonePromise, OnPool
  <2>2. counts'["promise"] = counts["promise"] + 1 /\ counts'["task"] = counts["task"] /\ UNCHANGED tasks
    BY <1>23 DEF ClonePromise, IncRef, Counted
  <2>3. counts["promise"] > 0
    BY <1>23, OwnedIsCounted DEF ClonePromise
  <2> QED
    BY <1>0, <2>1, <2>2, <2>3
<1>24. ASSUME NEW t \in Threads, NEW u \in Threads, CloneTask(t, u) PROVE TaskCounted'
  <2>1. OnPool("waiting")' = OnPool("waiting")
    BY <1>24 DEF CloneTask, OnPool
  <2>2. counts'["task"] = counts["task"] + 1 /\ counts'["promise"] = counts["promise"]
    BY <1>24 DEF CloneTask, IncRef, Counted
  <2>3. Sum(tasks') = Sum(tasks) + 1
    BY <1>24, SumUp DEF CloneTask
  <2> QED
    BY <1>0, <2>1, <2>2, <2>3
<1>25. CASE UNCHANGED promiseVars
  <2>1. OnPool("waiting")' = OnPool("waiting")
    BY <1>25 DEF promiseVars, OnPool
  <2> QED
    BY <1>25, <2>1 DEF promiseVars
<1> QED
  BY <1>1, <1>2, <1>3, <1>4, <1>5, <1>6, <1>7, <1>8, <1>8a, <1>9, <1>10, <1>11, <1>12, <1>13, <1>14, <1>15, <1>16, <1>17, <1>18, <1>19, <1>20, <1>21, <1>22, <1>23, <1>24, <1>25 DEF PromisesNext, WorkerStep, ThreadStep

(* The owners of a value.                                                  *)

\* What the task holds after a handle to the promise is dropped ...
LEMMA InTaskWithoutPromise ==
  ASSUME IInv, PromiseLost(counts'), NEW v \in Values,
         result' = result \/ (result = Unresolved /\ result' = Nothing)
  PROVE  InTask(v)' = InTask(v) - (IF counts["promise"] = 1 THEN Falls(counts, v) ELSE 0)
<1>1. counts["task"] \in Nat /\ counts["task"] > 0
  BY DEF IInv, PromisesTypeOK, PromiseLost, Counted
<1>2. result' = v <=> result = v
  BY PromisesAssumption
<1>3. InTask(v) = (IF result = v THEN 1 ELSE 0)
  BY <1>1 DEF InTask
<1>4. CASE counts["promise"] = 1
  <2>1. counts'["task"] = counts["task"] - 1
    BY <1>4 DEF PromiseLost
  <2> QED
    BY <1>1, <1>2, <1>3, <1>4, <2>1 DEF InTask, Falls
<1>5. CASE counts["promise"] # 1
  <2>1. counts'["task"] = counts["task"]
    BY <1>1, <1>5 DEF PromiseLost
  <2> QED
    BY <1>1, <1>2, <1>3, <1>5, <2>1 DEF InTask
<1> QED
  BY <1>4, <1>5

\* ... and a reference to the task given up.
LEMMA InTaskWithoutHandle ==
  ASSUME IInv, NEW v \in Values, UNCHANGED result,
         counts["task"] > 0, counts'["task"] = counts["task"] - 1
  PROVE  InTask(v)' = InTask(v) - Falls(counts, v)
<1>1. counts["task"] \in Nat
  BY DEF IInv, PromisesTypeOK, Counted
<1> QED
  BY <1>1 DEF InTask, Falls

\* The owners of a value, of all kinds.
Owners(v) ==
  Cardinality(GotBy(v)) + Cardinality(OnPool(v)) + Cardinality(CarriedBy(v)) + InTask(v) + Left(v)

\* Owners are numbers, and so are those of each kind.
LEMMA OwnersType ==
  ASSUME IInv, NEW v \in Values
  PROVE  /\ Cardinality(GotBy(v)) \in Nat /\ Cardinality(OnPool(v)) \in Nat /\ Cardinality(CarriedBy(v)) \in Nat
         /\ InTask(v) \in {0, 1} /\ Left(v) \in {0, 1}
         /\ counts[v] \in Nat /\ counts[v] = Owners(v)
<1>1. GotBy(v) \in SUBSET Threads /\ OnPool(v) \in SUBSET Threads /\ CarriedBy(v) \in SUBSET Threads
  BY DEF GotBy, OnPool, CarriedBy
<1>2. InTask(v) \in {0, 1} /\ Left(v) \in {0, 1}
  BY DEF InTask, Left
<1>3. counts[v] \in Nat /\ counts[v] = Owners(v)
  BY DEF IInv, PromisesTypeOK, Counted, ValuesCounted, Owners
<1> QED
  BY <1>1, <1>2, <1>3, ThreadsCount

\* A thread that comes to own a value, or ceases to.
Joins(S, T, t) == S \in SUBSET Threads /\ t \in Threads \ S /\ T = S \cup {t}
Leaves(S, T, t) == S \in SUBSET Threads /\ t \in S /\ T = S \ {t}

\* That is one owner more, or one less.
LEMMA OneOwner ==
  ASSUME NEW S, NEW T, NEW t
  PROVE  /\ Joins(S, T, t) => Cardinality(T) = Cardinality(S) + 1 /\ Cardinality(S) \in Nat
         /\ Leaves(S, T, t) => Cardinality(T) = Cardinality(S) - 1 /\ Cardinality(S) \in Nat
BY ThreadsCount DEF Joins, Leaves

\* The references to a value are those of its owners: it moves from its call into the task,
\* is copied from there, and goes down with the task.
LEMMA NextKeepsValuesCounted ==
  ASSUME IInv, [PromisesNext]_promiseVars
  PROVE  ValuesCounted'
<1> USE PromisesAssumption DEF IInv, PromisesTypeOK, Change, Free, Exec!Become, workerVars
<1>1. ASSUME WorkerDies PROVE ValuesCounted'
  <2> SUFFICES ASSUME NEW w \in Values PROVE counts'[w] = Owners(w)'
    BY DEF ValuesCounted, Owners
  <2>0. /\ Cardinality(GotBy(w)) \in Nat /\ Cardinality(OnPool(w)) \in Nat /\ Cardinality(CarriedBy(w)) \in Nat
        /\ InTask(w) \in {0, 1} /\ Left(w) \in {0, 1}
        /\ counts[w] \in Nat /\ counts[w] = Owners(w)
    BY OwnersType
  <2>1. GotBy(w)' = GotBy(w) /\ OnPool(w)' = OnPool(w) /\ CarriedBy(w)' = CarriedBy(w) /\ Left(w)' = Left(w)
    BY <1>1 DEF WorkerDies, Exec!Retire, GotBy, OnPool, CarriedBy, Left
  <2>2. InTask(w)' = InTask(w) /\ counts'[w] = counts[w]
    BY <1>1 DEF WorkerDies, InTask, IncRef, Counted
  <2> QED
    BY <2>1, <2>2, <2>0 DEF Owners
<1>2. ASSUME NEW t \in Threads, WorkerStarts(t) PROVE ValuesCounted'
  <2> SUFFICES ASSUME NEW w \in Values PROVE counts'[w] = Owners(w)'
    BY DEF ValuesCounted, Owners
  <2>0. /\ Cardinality(GotBy(w)) \in Nat /\ Cardinality(OnPool(w)) \in Nat /\ Cardinality(CarriedBy(w)) \in Nat
        /\ InTask(w) \in {0, 1} /\ Left(w) \in {0, 1}
        /\ counts[w] \in Nat /\ counts[w] = Owners(w)
    BY OwnersType
  <2>1. GotBy(w)' = GotBy(w) /\ OnPool(w)' = OnPool(w) /\ CarriedBy(w)' = CarriedBy(w) /\ Left(w)' = Left(w)
    BY <1>2 DEF WorkerStarts, Exec!Start, GotBy, OnPool, CarriedBy, Left
  <2>2. InTask(w)' = InTask(w) /\ counts'[w] = counts[w]
    BY <1>2 DEF WorkerStarts, InTask, IncRef, Counted
  <2> QED
    BY <2>1, <2>2, <2>0 DEF Owners
<1>3. ASSUME NEW t \in Threads, RunNew(t) PROVE ValuesCounted'
  <2> SUFFICES ASSUME NEW w \in Values PROVE counts'[w] = Owners(w)'
    BY DEF ValuesCounted, Owners
  <2>0. /\ Cardinality(GotBy(w)) \in Nat /\ Cardinality(OnPool(w)) \in Nat /\ Cardinality(CarriedBy(w)) \in Nat
        /\ InTask(w) \in {0, 1} /\ Left(w) \in {0, 1}
        /\ counts[w] \in Nat /\ counts[w] = Owners(w)
    BY OwnersType
  <2>1. GotBy(w)' = GotBy(w) /\ OnPool(w)' = OnPool(w) /\ CarriedBy(w)' = CarriedBy(w) /\ Left(w)' = Left(w)
    BY <1>3 DEF RunNew, Exec!Finish, GotBy, OnPool, CarriedBy, Left
  <2>2. result = Unresolved /\ UNCHANGED result
    BY <1>3, NothingBeforeTheWorker DEF RunNew, Pending, Exec!Finish
  <2>3. InTask(w)' = InTask(w)
    BY <2>2 DEF InTask
  <2>4. counts'[w] = counts[w]
    <3>1. CASE counts' = [counts EXCEPT !["promise"] = 1, !["task"] = 1] /\ UNCHANGED job
      BY <3>1 DEF Counted
    <3>2. CASE UNCHANGED counts
      BY <3>2
    <3> QED
      BY <1>3, <3>1, <3>2 DEF RunNew
  <2> QED
    BY <2>1, <2>3, <2>4, <2>0 DEF Owners
<1>4. ASSUME NEW t \in Threads, RunResolve(t) PROVE ValuesCounted'
  <2> SUFFICES ASSUME NEW w \in Values PROVE counts'[w] = Owners(w)'
    BY DEF ValuesCounted, Owners
  <2>0. /\ Cardinality(GotBy(w)) \in Nat /\ Cardinality(OnPool(w)) \in Nat /\ Cardinality(CarriedBy(w)) \in Nat
        /\ InTask(w) \in {0, 1} /\ Left(w) \in {0, 1}
        /\ counts[w] \in Nat /\ counts[w] = Owners(w)
    BY OwnersType
  <2>1. GotBy(w)' = GotBy(w) /\ OnPool(w)' = OnPool(w) /\ Left(w)' = Left(w)
    BY <1>4 DEF RunResolve, GotBy, OnPool, Left
  <2>2. job[t] \in Values /\ promises[t] > 0
    BY <1>4 DEF RunResolve, CallInv
  <2>3. counts["task"] > 0
    BY <2>2, OwnedIsCounted
  <2>4. counts'["task"] = counts["task"]
    BY <1>4 DEF RunResolve, DecValue, Counted
  <2>5. CASE w = job[t]
    <3>1. Leaves(CarriedBy(w), CarriedBy(w)', t)
      BY <1>4, <2>5 DEF RunResolve, Exec!Finish, CarriedBy, Leaves
    <3>2. CASE result = Unresolved /\ result' = job[t] /\ UNCHANGED counts
      <4>1. InTask(w) = 0 /\ InTask(w)' = 1 /\ counts'[w] = counts[w]
        BY <2>2, <2>3, <2>4, <2>5, <3>2 DEF InTask
      <4>9. Cardinality(CarriedBy(w))' = Cardinality(CarriedBy(w)) - 1
        BY <3>1, OneOwner
      <4> QED
        BY <2>1, <4>1, <4>9, <2>0 DEF Owners
    <3>3. CASE UNCHANGED result /\ counts' = DecValue(counts, job[t])
      <4>1. InTask(w)' = InTask(w)
        BY <2>4, <3>3 DEF InTask
      <4>2. counts'[w] = counts[w] - 1
        BY <2>2, <2>5, <3>3 DEF DecValue, Counted
      <4>9. Cardinality(CarriedBy(w))' = Cardinality(CarriedBy(w)) - 1
        BY <3>1, OneOwner
      <4> QED
        BY <2>1, <4>1, <4>2, <4>9, <2>0 DEF Owners
    <3> QED
      BY <1>4, <3>2, <3>3 DEF RunResolve
  <2>6. CASE w # job[t]
    <3>1. CarriedBy(w)' = CarriedBy(w)
      BY <1>4, <2>6 DEF RunResolve, Exec!Finish, CarriedBy
    <3>2. InTask(w)' = InTask(w)
      BY <1>4, <2>4, <2>6 DEF RunResolve, InTask
    <3>3. counts'[w] = counts[w]
      BY <1>4, <2>6 DEF RunResolve, DecValue, Counted
    <3> QED
      BY <2>1, <3>1, <3>2, <3>3, <2>0 DEF Owners
  <2> QED
    BY <2>5, <2>6
<1>5. ASSUME NEW t \in Threads, RunWait(t) PROVE ValuesCounted'
  <2> SUFFICES ASSUME NEW w \in Values PROVE counts'[w] = Owners(w)'
    BY DEF ValuesCounted, Owners
  <2>0. /\ Cardinality(GotBy(w)) \in Nat /\ Cardinality(OnPool(w)) \in Nat /\ Cardinality(CarriedBy(w)) \in Nat
        /\ InTask(w) \in {0, 1} /\ Left(w) \in {0, 1}
        /\ counts[w] \in Nat /\ counts[w] = Owners(w)
    BY OwnersType
  <2>1. GotBy(w)' = GotBy(w) /\ OnPool(w)' = OnPool(w) /\ CarriedBy(w)' = CarriedBy(w) /\ Left(w)' = Left(w)
    BY <1>5 DEF RunWait, Exec!Finish, GotBy, OnPool, CarriedBy, Left
  <2>2. InTask(w)' = InTask(w) /\ counts'[w] = counts[w]
    BY <1>5 DEF RunWait, InTask, IncRef, Counted
  <2> QED
    BY <2>1, <2>2, <2>0 DEF Owners
<1>6. ASSUME NEW t \in Threads, ReturnNew(t) PROVE ValuesCounted'
  <2> SUFFICES ASSUME NEW w \in Values PROVE counts'[w] = Owners(w)'
    BY DEF ValuesCounted, Owners
  <2>0. /\ Cardinality(GotBy(w)) \in Nat /\ Cardinality(OnPool(w)) \in Nat /\ Cardinality(CarriedBy(w)) \in Nat
        /\ InTask(w) \in {0, 1} /\ Left(w) \in {0, 1}
        /\ counts[w] \in Nat /\ counts[w] = Owners(w)
    BY OwnersType
  <2>1. GotBy(w)' = GotBy(w) /\ OnPool(w)' = OnPool(w) /\ CarriedBy(w)' = CarriedBy(w) /\ Left(w)' = Left(w)
    BY <1>6 DEF ReturnNew, Exec!Deliver, GotBy, OnPool, CarriedBy, Left
  <2>2. InTask(w)' = InTask(w) /\ counts'[w] = counts[w]
    BY <1>6 DEF ReturnNew, InTask, IncRef, Counted
  <2> QED
    BY <2>1, <2>2, <2>0 DEF Owners
<1>7. ASSUME NEW t \in Threads, ReturnError(t) PROVE ValuesCounted'
  <2> SUFFICES ASSUME NEW w \in Values PROVE counts'[w] = Owners(w)'
    BY DEF ValuesCounted, Owners
  <2>0. /\ Cardinality(GotBy(w)) \in Nat /\ Cardinality(OnPool(w)) \in Nat /\ Cardinality(CarriedBy(w)) \in Nat
        /\ InTask(w) \in {0, 1} /\ Left(w) \in {0, 1}
        /\ counts[w] \in Nat /\ counts[w] = Owners(w)
    BY OwnersType
  <2>1. GotBy(w)' = GotBy(w) /\ OnPool(w)' = OnPool(w) /\ CarriedBy(w)' = CarriedBy(w) /\ Left(w)' = Left(w)
    BY <1>7 DEF ReturnError, Exec!Deliver, GotBy, OnPool, CarriedBy, Left
  <2>2. InTask(w)' = InTask(w) /\ counts'[w] = counts[w]
    BY <1>7 DEF ReturnError, InTask, IncRef, Counted
  <2> QED
    BY <2>1, <2>2, <2>0 DEF Owners
<1>8. ASSUME NEW t \in Threads, ReturnResolve(t) PROVE ValuesCounted'
  <2> SUFFICES ASSUME NEW w \in Values PROVE counts'[w] = Owners(w)'
    BY DEF ValuesCounted, Owners
  <2>0. /\ Cardinality(GotBy(w)) \in Nat /\ Cardinality(OnPool(w)) \in Nat /\ Cardinality(CarriedBy(w)) \in Nat
        /\ InTask(w) \in {0, 1} /\ Left(w) \in {0, 1}
        /\ counts[w] \in Nat /\ counts[w] = Owners(w)
    BY OwnersType
  <2>1. GotBy(w)' = GotBy(w) /\ OnPool(w)' = OnPool(w) /\ CarriedBy(w)' = CarriedBy(w) /\ Left(w)' = Left(w)
    BY <1>8 DEF ReturnResolve, Exec!Deliver, GotBy, OnPool, CarriedBy, Left
  <2>2. promises[t] > 0 /\ DropPromise(counts)
    BY <1>8 DEF ReturnResolve, CallInv
  <2>3. PromiseLost(counts') /\ (result' = result \/ (result = Unresolved /\ result' = Nothing))
    BY <2>2, PromiseIsLost
  <2>4. InTask(w)' = InTask(w) - (IF counts["promise"] = 1 THEN Falls(counts, w) ELSE 0)
    BY <2>3, InTaskWithoutPromise
  <2>5. counts'[w] = counts[w] - (IF counts["promise"] = 1 THEN Falls(counts, w) ELSE 0)
    BY <2>3 DEF PromiseLost
  <2>6. Falls(counts, w) \in {0, 1}
    BY DEF Falls
  <2> QED
    BY <2>1, <2>4, <2>5, <2>6, <2>0 DEF Owners
<1>8a. ASSUME NEW t \in Threads, ReturnRejected(t) PROVE ValuesCounted'
  <2> SUFFICES ASSUME NEW w \in Values PROVE counts'[w] = Owners(w)'
    BY DEF ValuesCounted, Owners
  <2>0. /\ Cardinality(GotBy(w)) \in Nat /\ Cardinality(OnPool(w)) \in Nat /\ Cardinality(CarriedBy(w)) \in Nat
        /\ InTask(w) \in {0, 1} /\ Left(w) \in {0, 1}
        /\ counts[w] \in Nat /\ counts[w] = Owners(w)
    BY OwnersType
  <2>1. GotBy(w)' = GotBy(w) /\ OnPool(w)' = OnPool(w) /\ CarriedBy(w)' = CarriedBy(w) /\ Left(w)' = Left(w)
    BY <1>8a DEF ReturnRejected, Exec!Deliver, GotBy, OnPool, CarriedBy, Left
  <2>2. promises[t] > 0 /\ DropPromise(counts)
    BY <1>8a DEF ReturnRejected, CallInv
  <2>3. PromiseLost(counts') /\ (result' = result \/ (result = Unresolved /\ result' = Nothing))
    BY <2>2, PromiseIsLost
  <2>4. InTask(w)' = InTask(w) - (IF counts["promise"] = 1 THEN Falls(counts, w) ELSE 0)
    BY <2>3, InTaskWithoutPromise
  <2>5. counts'[w] = counts[w] - (IF counts["promise"] = 1 THEN Falls(counts, w) ELSE 0)
    BY <2>3 DEF PromiseLost
  <2>6. Falls(counts, w) \in {0, 1}
    BY DEF Falls
  <2> QED
    BY <2>1, <2>4, <2>5, <2>6, <2>0 DEF Owners
<1>9. ASSUME NEW t \in Threads, ReturnWait(t) PROVE ValuesCounted'
  <2> SUFFICES ASSUME NEW w \in Values PROVE counts'[w] = Owners(w)'
    BY DEF ValuesCounted, Owners
  <2>0. /\ Cardinality(GotBy(w)) \in Nat /\ Cardinality(OnPool(w)) \in Nat /\ Cardinality(CarriedBy(w)) \in Nat
        /\ InTask(w) \in {0, 1} /\ Left(w) \in {0, 1}
        /\ counts[w] \in Nat /\ counts[w] = Owners(w)
    BY OwnersType
  <2>1. GotBy(w)' = GotBy(w) /\ OnPool(w)' = OnPool(w) /\ CarriedBy(w)' = CarriedBy(w) /\ Left(w)' = Left(w)
    BY <1>9 DEF ReturnWait, Exec!Deliver, GotBy, OnPool, CarriedBy, Left
  <2>2. InTask(w)' = InTask(w) /\ counts'[w] = counts[w]
    BY <1>9 DEF ReturnWait, InTask, IncRef, Counted
  <2> QED
    BY <2>1, <2>2, <2>0 DEF Owners
<1>10. ASSUME NEW t \in Threads, CallUnwinds(t) PROVE ValuesCounted'
  <2> SUFFICES ASSUME NEW w \in Values PROVE counts'[w] = Owners(w)'
    BY DEF ValuesCounted, Owners
  <2>0. /\ Cardinality(GotBy(w)) \in Nat /\ Cardinality(OnPool(w)) \in Nat /\ Cardinality(CarriedBy(w)) \in Nat
        /\ InTask(w) \in {0, 1} /\ Left(w) \in {0, 1}
        /\ counts[w] \in Nat /\ counts[w] = Owners(w)
    BY OwnersType
  <2>1. GotBy(w)' = GotBy(w) /\ OnPool(w)' = OnPool(w)
    BY <1>10 DEF CallUnwinds, GotBy, OnPool
  <2>2. CASE job[t] \in Values
    <3>1. promises[t] > 0 /\ DropPromise(counts)
      BY <1>10, <2>2 DEF CallUnwinds, CallInv
    <3>2. PromiseLost(counts') /\ (result' = result \/ (result = Unresolved /\ result' = Nothing))
      BY <3>1, PromiseIsLost
    <3>3. InTask(w)' = InTask(w) - (IF counts["promise"] = 1 THEN Falls(counts, w) ELSE 0)
      BY <3>2, InTaskWithoutPromise
    <3>4. counts'[w] = counts[w] - (IF counts["promise"] = 1 THEN Falls(counts, w) ELSE 0)
      BY <3>2 DEF PromiseLost
    <3>5. Falls(counts, w) \in {0, 1}
      BY DEF Falls
    <3>6. CASE w = job[t]
      <4>1. Leaves(CarriedBy(w), CarriedBy(w)', t)
        BY <1>10, <2>2, <3>6 DEF CallUnwinds, Exec!Refuse, CarriedBy, Leaves
      <4>2. Left(w) = 0 /\ Left(w)' = 1
        BY <1>10, <2>2, <3>6 DEF CallUnwinds, UseInv, Left
      <4>9. Cardinality(CarriedBy(w))' = Cardinality(CarriedBy(w)) - 1
        BY <4>1, OneOwner
      <4> QED
        BY <2>1, <3>3, <3>4, <3>5, <4>2, <4>9, <2>0 DEF Owners
    <3>7. CASE w # job[t]
      <4>1. CarriedBy(w)' = CarriedBy(w) /\ Left(w)' = Left(w)
        BY <1>10, <2>2, <3>7 DEF CallUnwinds, Exec!Refuse, CarriedBy, Left
      <4> QED
        BY <2>1, <3>3, <3>4, <3>5, <4>1, <2>0 DEF Owners
    <3> QED
      BY <3>6, <3>7
  <2>3. CASE job[t] \notin Values
    <3>1. CarriedBy(w)' = CarriedBy(w) /\ Left(w)' = Left(w) /\ InTask(w)' = InTask(w) /\ counts'[w] = counts[w]
      BY <1>10, <2>3 DEF CallUnwinds, Exec!Refuse, CarriedBy, Left, InTask
    <3> QED
      BY <2>1, <3>1, <2>0 DEF Owners
  <2> QED
    BY <2>2, <2>3
<1>11. ASSUME NEW t \in Threads, GetReturns(t) PROVE ValuesCounted'
  <2> SUFFICES ASSUME NEW w \in Values PROVE counts'[w] = Owners(w)'
    BY DEF ValuesCounted, Owners
  <2>0. /\ Cardinality(GotBy(w)) \in Nat /\ Cardinality(OnPool(w)) \in Nat /\ Cardinality(CarriedBy(w)) \in Nat
        /\ InTask(w) \in {0, 1} /\ Left(w) \in {0, 1}
        /\ counts[w] \in Nat /\ counts[w] = Owners(w)
    BY OwnersType
  <2>1. OnPool(w)' = OnPool(w) /\ CarriedBy(w)' = CarriedBy(w) /\ Left(w)' = Left(w) /\ UNCHANGED result
    BY <1>11 DEF GetReturns, OnPool, CarriedBy, Left
  <2>2. tasks[t] > 0 /\ results[t] = Nothing
    BY <1>11 DEF GetReturns, CallInv
  <2>3. counts["task"] > 0
    BY <2>2, OwnedIsCounted
  <2>4. Falls(counts, w) \in {0, 1}
    BY DEF Falls
  <2> DEFINE lost == IF at[t] = "get_owned" THEN Falls(counts, w) ELSE 0
  <2>5. counts'[w] = counts[w] + TakenBy(w) - lost /\ InTask(w)' = InTask(w) - lost
    <3>1. CASE at[t] = "get_owned"
      <4>1. counts'["task"] = counts["task"] - 1 /\ counts'[w] = counts[w] + TakenBy(w) - Falls(counts, w)
        BY <1>11, <2>3, <3>1, TaskIsRead DEF GetReturns
      <4> QED
        BY <2>1, <2>3, <3>1, <4>1, InTaskWithoutHandle
    <3>2. CASE at[t] # "get_owned"
      <4>1. counts'["task"] = counts["task"] /\ counts'[w] = counts[w] + TakenBy(w)
        BY <1>11, <3>2, TaskIsRead DEF GetReturns
      <4>2. InTask(w)' = InTask(w) /\ InTask(w) \in {0, 1}
        BY <2>1, <4>1 DEF InTask
      <4>3. counts[w] \in Nat /\ TakenBy(w) \in {0, 1}
        BY OwnersType DEF TakenBy
      <4> QED
        BY <3>2, <4>1, <4>2, <4>3
    <3> QED
      BY <3>1, <3>2
  <2>6. lost \in {0, 1}
    BY <2>4
  <2> HIDE DEF lost
  <2>7. CASE w = result
    <3>1. Joins(GotBy(w), GotBy(w)', t) /\ TakenBy(w) = 1
      BY <1>11, <2>2, <2>7 DEF GetReturns, GotBy, Joins, TakenBy
    <3>9. Cardinality(GotBy(w))' = Cardinality(GotBy(w)) + 1 /\ TakenBy(w) = 1
      BY <3>1, OneOwner
    <3> QED
      BY <2>1, <2>5, <2>6, <3>9, <2>0 DEF Owners
  <2>8. CASE w # result
    <3>1. GotBy(w)' = GotBy(w) /\ TakenBy(w) = 0
      BY <1>11, <2>2, <2>8 DEF GetReturns, GotBy, TakenBy
    <3> QED
      BY <2>1, <2>5, <2>6, <3>1, <2>0 DEF Owners
  <2> QED
    BY <2>7, <2>8
<1>12. ASSUME NEW t \in Threads, PoolReturns(t) PROVE ValuesCounted'
  <2> SUFFICES ASSUME NEW w \in Values PROVE counts'[w] = Owners(w)'
    BY DEF ValuesCounted, Owners
  <2>0. /\ Cardinality(GotBy(w)) \in Nat /\ Cardinality(OnPool(w)) \in Nat /\ Cardinality(CarriedBy(w)) \in Nat
        /\ InTask(w) \in {0, 1} /\ Left(w) \in {0, 1}
        /\ counts[w] \in Nat /\ counts[w] = Owners(w)
    BY OwnersType
  <2>1. GotBy(w)' = GotBy(w) /\ CarriedBy(w)' = CarriedBy(w) /\ Left(w)' = Left(w) /\ UNCHANGED result
    BY <1>12 DEF PoolReturns, GotBy, CarriedBy, Left
  <2>2. counts["task"] > 0
    BY <1>12, OwnedIsCounted DEF PoolReturns
  <2>3. counts'["task"] = counts["task"] - 1 /\ counts'[w] = counts[w] + TakenBy(w) - Falls(counts, w)
    BY <1>12, <2>2, TaskIsRead DEF PoolReturns
  <2>4. InTask(w)' = InTask(w) - Falls(counts, w) /\ Falls(counts, w) \in {0, 1}
    BY <2>1, <2>2, <2>3, InTaskWithoutHandle DEF Falls
  <2>5. CASE w = result
    <3>1. Joins(OnPool(w), OnPool(w)', t) /\ TakenBy(w) = 1
      BY <1>12, <2>5 DEF PoolReturns, OnPool, Joins, TakenBy
    <3>9. Cardinality(OnPool(w))' = Cardinality(OnPool(w)) + 1 /\ TakenBy(w) = 1
      BY <3>1, OneOwner
    <3> QED
      BY <2>1, <2>3, <2>4, <3>9, <2>0 DEF Owners
  <2>6. CASE w # result
    <3>1. OnPool(w)' = OnPool(w) /\ TakenBy(w) = 0
      BY <1>12, <2>6 DEF PoolReturns, OnPool, TakenBy
    <3> QED
      BY <2>1, <2>3, <2>4, <3>1, <2>0 DEF Owners
  <2> QED
    BY <2>5, <2>6
<1>13. ASSUME NEW t \in Threads, CallNew(t) PROVE ValuesCounted'
  <2> SUFFICES ASSUME NEW w \in Values PROVE counts'[w] = Owners(w)'
    BY DEF ValuesCounted, Owners
  <2>0. /\ Cardinality(GotBy(w)) \in Nat /\ Cardinality(OnPool(w)) \in Nat /\ Cardinality(CarriedBy(w)) \in Nat
        /\ InTask(w) \in {0, 1} /\ Left(w) \in {0, 1}
        /\ counts[w] \in Nat /\ counts[w] = Owners(w)
    BY OwnersType
  <2>1. GotBy(w)' = GotBy(w) /\ OnPool(w)' = OnPool(w) /\ CarriedBy(w)' = CarriedBy(w) /\ Left(w)' = Left(w)
    BY <1>13 DEF CallNew, Exec!Submit, GotBy, OnPool, CarriedBy, Left
  <2>2. InTask(w)' = InTask(w) /\ counts'[w] = counts[w]
    BY <1>13 DEF CallNew, InTask, IncRef, Counted
  <2> QED
    BY <2>1, <2>2, <2>0 DEF Owners
<1>14. ASSUME NEW t \in Threads, CallWait(t) PROVE ValuesCounted'
  <2> SUFFICES ASSUME NEW w \in Values PROVE counts'[w] = Owners(w)'
    BY DEF ValuesCounted, Owners
  <2>0. /\ Cardinality(GotBy(w)) \in Nat /\ Cardinality(OnPool(w)) \in Nat /\ Cardinality(CarriedBy(w)) \in Nat
        /\ InTask(w) \in {0, 1} /\ Left(w) \in {0, 1}
        /\ counts[w] \in Nat /\ counts[w] = Owners(w)
    BY OwnersType
  <2>1. GotBy(w)' = GotBy(w) /\ OnPool(w)' = OnPool(w) /\ CarriedBy(w)' = CarriedBy(w) /\ Left(w)' = Left(w)
    BY <1>14 DEF CallWait, Exec!Submit, GotBy, OnPool, CarriedBy, Left
  <2>2. InTask(w)' = InTask(w) /\ counts'[w] = counts[w]
    BY <1>14 DEF CallWait, InTask, IncRef, Counted
  <2> QED
    BY <2>1, <2>2, <2>0 DEF Owners
<1>15. ASSUME NEW t \in Threads, Task(t) PROVE ValuesCounted'
  <2> SUFFICES ASSUME NEW w \in Values PROVE counts'[w] = Owners(w)'
    BY DEF ValuesCounted, Owners
  <2>0. /\ Cardinality(GotBy(w)) \in Nat /\ Cardinality(OnPool(w)) \in Nat /\ Cardinality(CarriedBy(w)) \in Nat
        /\ InTask(w) \in {0, 1} /\ Left(w) \in {0, 1}
        /\ counts[w] \in Nat /\ counts[w] = Owners(w)
    BY OwnersType
  <2>1. GotBy(w)' = GotBy(w) /\ OnPool(w)' = OnPool(w) /\ CarriedBy(w)' = CarriedBy(w) /\ Left(w)' = Left(w)
    BY <1>15 DEF Task, GotBy, OnPool, CarriedBy, Left
  <2>2. counts["task"] > 0 /\ counts["task"] \in Nat
    BY <1>15, OwnedIsCounted DEF Task, Counted
  <2>3. counts'["task"] = counts["task"] + 1 /\ counts'[w] = counts[w] /\ UNCHANGED result
    BY <1>15 DEF Task, IncRef, Counted
  <2>4. InTask(w)' = InTask(w)
    BY <2>2, <2>3 DEF InTask
  <2> QED
    BY <2>1, <2>3, <2>4, <2>0 DEF Owners
<1>16. ASSUME NEW t \in Threads, LetGoOfPromise(t) PROVE ValuesCounted'
  <2> SUFFICES ASSUME NEW w \in Values PROVE counts'[w] = Owners(w)'
    BY DEF ValuesCounted, Owners
  <2>0. /\ Cardinality(GotBy(w)) \in Nat /\ Cardinality(OnPool(w)) \in Nat /\ Cardinality(CarriedBy(w)) \in Nat
        /\ InTask(w) \in {0, 1} /\ Left(w) \in {0, 1}
        /\ counts[w] \in Nat /\ counts[w] = Owners(w)
    BY OwnersType
  <2>1. GotBy(w)' = GotBy(w) /\ OnPool(w)' = OnPool(w) /\ CarriedBy(w)' = CarriedBy(w) /\ Left(w)' = Left(w)
    BY <1>16 DEF LetGoOfPromise, GotBy, OnPool, CarriedBy, Left
  <2>2. promises[t] > 0 /\ DropPromise(counts)
    BY <1>16 DEF LetGoOfPromise, CallInv
  <2>3. PromiseLost(counts') /\ (result' = result \/ (result = Unresolved /\ result' = Nothing))
    BY <2>2, PromiseIsLost
  <2>4. InTask(w)' = InTask(w) - (IF counts["promise"] = 1 THEN Falls(counts, w) ELSE 0)
    BY <2>3, InTaskWithoutPromise
  <2>5. counts'[w] = counts[w] - (IF counts["promise"] = 1 THEN Falls(counts, w) ELSE 0)
    BY <2>3 DEF PromiseLost
  <2>6. Falls(counts, w) \in {0, 1}
    BY DEF Falls
  <2> QED
    BY <2>1, <2>4, <2>5, <2>6, <2>0 DEF Owners
<1>17. ASSUME NEW t \in Threads, LetGoOfTask(t) PROVE ValuesCounted'
  <2> SUFFICES ASSUME NEW w \in Values PROVE counts'[w] = Owners(w)'
    BY DEF ValuesCounted, Owners
  <2>0. /\ Cardinality(GotBy(w)) \in Nat /\ Cardinality(OnPool(w)) \in Nat /\ Cardinality(CarriedBy(w)) \in Nat
        /\ InTask(w) \in {0, 1} /\ Left(w) \in {0, 1}
        /\ counts[w] \in Nat /\ counts[w] = Owners(w)
    BY OwnersType
  <2>1. GotBy(w)' = GotBy(w) /\ OnPool(w)' = OnPool(w) /\ CarriedBy(w)' = CarriedBy(w) /\ Left(w)' = Left(w) /\ UNCHANGED result
    BY <1>17 DEF LetGoOfTask, GotBy, OnPool, CarriedBy, Left
  <2>2. TaskLost(counts')
    BY <1>17, TaskIsLost DEF LetGoOfTask
  <2>3. counts["task"] > 0 /\ counts'["task"] = counts["task"] - 1 /\ counts'[w] = counts[w] - Falls(counts, w)
    BY <2>2 DEF TaskLost
  <2>4. InTask(w)' = InTask(w) - Falls(counts, w)
    BY <2>1, <2>3, InTaskWithoutHandle
  <2>5. Falls(counts, w) \in {0, 1}
    BY DEF Falls
  <2> QED
    BY <2>1, <2>3, <2>4, <2>5, <2>0 DEF Owners
<1>18. ASSUME NEW t \in Threads, LetGoOfResult(t) PROVE ValuesCounted'
  <2> SUFFICES ASSUME NEW w \in Values PROVE counts'[w] = Owners(w)'
    BY DEF ValuesCounted, Owners
  <2>0. /\ Cardinality(GotBy(w)) \in Nat /\ Cardinality(OnPool(w)) \in Nat /\ Cardinality(CarriedBy(w)) \in Nat
        /\ InTask(w) \in {0, 1} /\ Left(w) \in {0, 1}
        /\ counts[w] \in Nat /\ counts[w] = Owners(w)
    BY OwnersType
  <2>1. results[t] \in Values
    BY <1>18 DEF LetGoOfResult
  <2>2. OnPool(w)' = OnPool(w) /\ CarriedBy(w)' = CarriedBy(w) /\ Left(w)' = Left(w) /\ InTask(w)' = InTask(w)
    BY <1>18 DEF LetGoOfResult, OnPool, CarriedBy, Left, InTask, DecValue, Counted
  <2>3. CASE w = results[t]
    <3>1. Leaves(GotBy(w), GotBy(w)', t)
      BY <1>18, <2>3 DEF LetGoOfResult, GotBy, Leaves
    <3>2. counts'[w] = counts[w] - 1
      BY <1>18, <2>3 DEF LetGoOfResult, DecValue, Counted
    <3>9. Cardinality(GotBy(w))' = Cardinality(GotBy(w)) - 1
      BY <3>1, OneOwner
    <3> QED
      BY <2>2, <3>2, <3>9, <2>0 DEF Owners
  <2>4. CASE w # results[t]
    <3>1. GotBy(w)' = GotBy(w) /\ counts'[w] = counts[w]
      BY <1>18, <2>1, <2>4 DEF LetGoOfResult, GotBy, DecValue, Counted
    <3> QED
      BY <2>2, <3>1, <2>0 DEF Owners
  <2> QED
    BY <2>3, <2>4
<1>19. ASSUME NEW t \in Threads, IntoTokio(t) PROVE ValuesCounted'
  <2> SUFFICES ASSUME NEW w \in Values PROVE counts'[w] = Owners(w)'
    BY DEF ValuesCounted, Owners
  <2>0. /\ Cardinality(GotBy(w)) \in Nat /\ Cardinality(OnPool(w)) \in Nat /\ Cardinality(CarriedBy(w)) \in Nat
        /\ InTask(w) \in {0, 1} /\ Left(w) \in {0, 1}
        /\ counts[w] \in Nat /\ counts[w] = Owners(w)
    BY OwnersType
  <2>1. GotBy(w)' = GotBy(w) /\ OnPool(w)' = OnPool(w) /\ CarriedBy(w)' = CarriedBy(w) /\ Left(w)' = Left(w)
    BY <1>19 DEF IntoTokio, GotBy, OnPool, CarriedBy, Left
  <2>2. InTask(w)' = InTask(w) /\ counts'[w] = counts[w]
    BY <1>19 DEF IntoTokio, InTask, IncRef, Counted
  <2> QED
    BY <2>1, <2>2, <2>0 DEF Owners
<1>20. ASSUME NEW t \in Threads, Await(t) PROVE ValuesCounted'
  <2> SUFFICES ASSUME NEW w \in Values PROVE counts'[w] = Owners(w)'
    BY DEF ValuesCounted, Owners
  <2>0. /\ Cardinality(GotBy(w)) \in Nat /\ Cardinality(OnPool(w)) \in Nat /\ Cardinality(CarriedBy(w)) \in Nat
        /\ InTask(w) \in {0, 1} /\ Left(w) \in {0, 1}
        /\ counts[w] \in Nat /\ counts[w] = Owners(w)
    BY OwnersType
  <2>1. CarriedBy(w)' = CarriedBy(w) /\ Left(w)' = Left(w) /\ InTask(w)' = InTask(w) /\ counts'[w] = counts[w]
    BY <1>20 DEF Await, CarriedBy, Left, InTask
  <2>2. CASE w = pool[t]
    <3>1. Joins(GotBy(w), GotBy(w)', t) /\ Leaves(OnPool(w), OnPool(w)', t)
      BY <1>20, <2>2 DEF Await, GotBy, OnPool, Joins, Leaves
    <3>9. Cardinality(GotBy(w))' = Cardinality(GotBy(w)) + 1 /\ Cardinality(OnPool(w))' = Cardinality(OnPool(w)) - 1
      BY <3>1, OneOwner
    <3> QED
      BY <2>1, <3>9, <2>0 DEF Owners
  <2>3. CASE w # pool[t]
    <3>1. GotBy(w)' = GotBy(w) /\ OnPool(w)' = OnPool(w)
      BY <1>20, <2>3 DEF Await, GotBy, OnPool
    <3> QED
      BY <2>1, <3>1, <2>0 DEF Owners
  <2> QED
    BY <2>2, <2>3
<1>21. ASSUME NEW t \in Threads, NEW v \in Values, CallResolve(t, v) PROVE ValuesCounted'
  <2> SUFFICES ASSUME NEW w \in Values PROVE counts'[w] = Owners(w)'
    BY DEF ValuesCounted, Owners
  <2>0. /\ Cardinality(GotBy(w)) \in Nat /\ Cardinality(OnPool(w)) \in Nat /\ Cardinality(CarriedBy(w)) \in Nat
        /\ InTask(w) \in {0, 1} /\ Left(w) \in {0, 1}
        /\ counts[w] \in Nat /\ counts[w] = Owners(w)
    BY OwnersType
  <2>1. GotBy(w)' = GotBy(w) /\ OnPool(w)' = OnPool(w) /\ Left(w)' = Left(w) /\ InTask(w)' = InTask(w)
    BY <1>21 DEF CallResolve, GotBy, OnPool, Left, InTask, IncRef, Counted
  <2>2. CASE w = v
    <3>1. Joins(CarriedBy(w), CarriedBy(w)', t)
      BY <1>21, <2>2 DEF CallResolve, Exec!Submit, CarriedBy, CallInv, Joins
    <3>2. counts'[w] = counts[w] + 1
      BY <1>21, <2>2 DEF CallResolve, IncRef, Counted
    <3>9. Cardinality(CarriedBy(w))' = Cardinality(CarriedBy(w)) + 1
      BY <3>1, OneOwner
    <3> QED
      BY <2>1, <3>2, <3>9, <2>0 DEF Owners
  <2>3. CASE w # v
    <3>1. CarriedBy(w)' = CarriedBy(w) /\ counts'[w] = counts[w]
      BY <1>21, <2>3 DEF CallResolve, Exec!Submit, CarriedBy, IncRef, Counted
    <3> QED
      BY <2>1, <3>1, <2>0 DEF Owners
  <2> QED
    BY <2>2, <2>3
<1>22. ASSUME NEW t \in Threads, NEW how \in {"get", "get_owned"}, Get(t, how) PROVE ValuesCounted'
  <2> SUFFICES ASSUME NEW w \in Values PROVE counts'[w] = Owners(w)'
    BY DEF ValuesCounted, Owners
  <2>0. /\ Cardinality(GotBy(w)) \in Nat /\ Cardinality(OnPool(w)) \in Nat /\ Cardinality(CarriedBy(w)) \in Nat
        /\ InTask(w) \in {0, 1} /\ Left(w) \in {0, 1}
        /\ counts[w] \in Nat /\ counts[w] = Owners(w)
    BY OwnersType
  <2>1. GotBy(w)' = GotBy(w) /\ OnPool(w)' = OnPool(w) /\ CarriedBy(w)' = CarriedBy(w) /\ Left(w)' = Left(w)
    BY <1>22 DEF Get, GotBy, OnPool, CarriedBy, Left
  <2>2. InTask(w)' = InTask(w) /\ counts'[w] = counts[w]
    BY <1>22 DEF Get, InTask, IncRef, Counted
  <2> QED
    BY <2>1, <2>2, <2>0 DEF Owners
<1>23. ASSUME NEW t \in Threads, NEW u \in Threads, ClonePromise(t, u) PROVE ValuesCounted'
  <2> SUFFICES ASSUME NEW w \in Values PROVE counts'[w] = Owners(w)'
    BY DEF ValuesCounted, Owners
  <2>0. /\ Cardinality(GotBy(w)) \in Nat /\ Cardinality(OnPool(w)) \in Nat /\ Cardinality(CarriedBy(w)) \in Nat
        /\ InTask(w) \in {0, 1} /\ Left(w) \in {0, 1}
        /\ counts[w] \in Nat /\ counts[w] = Owners(w)
    BY OwnersType
  <2>1. GotBy(w)' = GotBy(w) /\ OnPool(w)' = OnPool(w) /\ CarriedBy(w)' = CarriedBy(w) /\ Left(w)' = Left(w)
    BY <1>23 DEF ClonePromise, GotBy, OnPool, CarriedBy, Left
  <2>2. InTask(w)' = InTask(w) /\ counts'[w] = counts[w]
    BY <1>23 DEF ClonePromise, InTask, IncRef, Counted
  <2> QED
    BY <2>1, <2>2, <2>0 DEF Owners
<1>24. ASSUME NEW t \in Threads, NEW u \in Threads, CloneTask(t, u) PROVE ValuesCounted'
  <2> SUFFICES ASSUME NEW w \in Values PROVE counts'[w] = Owners(w)'
    BY DEF ValuesCounted, Owners
  <2>0. /\ Cardinality(GotBy(w)) \in Nat /\ Cardinality(OnPool(w)) \in Nat /\ Cardinality(CarriedBy(w)) \in Nat
        /\ InTask(w) \in {0, 1} /\ Left(w) \in {0, 1}
        /\ counts[w] \in Nat /\ counts[w] = Owners(w)
    BY OwnersType
  <2>1. GotBy(w)' = GotBy(w) /\ OnPool(w)' = OnPool(w) /\ CarriedBy(w)' = CarriedBy(w) /\ Left(w)' = Left(w)
    BY <1>24 DEF CloneTask, GotBy, OnPool, CarriedBy, Left
  <2>2. counts["task"] > 0 /\ counts["task"] \in Nat
    BY <1>24, OwnedIsCounted DEF CloneTask, Counted
  <2>3. counts'["task"] = counts["task"] + 1 /\ counts'[w] = counts[w] /\ UNCHANGED result
    BY <1>24 DEF CloneTask, IncRef, Counted
  <2>4. InTask(w)' = InTask(w)
    BY <2>2, <2>3 DEF InTask
  <2> QED
    BY <2>1, <2>3, <2>4, <2>0 DEF Owners
<1>25. CASE UNCHANGED promiseVars
  <2> SUFFICES ASSUME NEW w \in Values PROVE counts'[w] = Owners(w)'
    BY DEF ValuesCounted, Owners
  <2>0. /\ Cardinality(GotBy(w)) \in Nat /\ Cardinality(OnPool(w)) \in Nat /\ Cardinality(CarriedBy(w)) \in Nat
        /\ InTask(w) \in {0, 1} /\ Left(w) \in {0, 1}
        /\ counts[w] \in Nat /\ counts[w] = Owners(w)
    BY OwnersType
  <2>1. GotBy(w)' = GotBy(w) /\ OnPool(w)' = OnPool(w) /\ CarriedBy(w)' = CarriedBy(w) /\ Left(w)' = Left(w) /\ InTask(w)' = InTask(w) /\ counts'[w] = counts[w]
    BY <1>25 DEF promiseVars, GotBy, OnPool, CarriedBy, Left, InTask
  <2> QED
    BY <2>1, <2>0 DEF Owners
<1> QED
  BY <1>1, <1>2, <1>3, <1>4, <1>5, <1>6, <1>7, <1>8, <1>8a, <1>9, <1>10, <1>11, <1>12, <1>13, <1>14, <1>15, <1>16, <1>17, <1>18, <1>19, <1>20, <1>21, <1>22, <1>23, <1>24, <1>25 DEF PromisesNext, WorkerStep, ThreadStep

-----------------------------------------------------------------------------
\* All of that holds in every behaviour.
LEMMA AlwaysIInv == PromisesSpec => []IInv
<1>1. IInv /\ [PromisesNext]_promiseVars => IInv'
  BY NextKeepsTypes, NextKeepsCallInv, NextKeepsCreationInv, NextKeepsUseInv, NextKeepsPromiseCounted,
     NextKeepsTaskCounted, NextKeepsValuesCounted, NextKeepsOneValue DEF IInv
<1> QED
  BY <1>1, InitEstablishesIInv, PTL DEF PromisesSpec

\* No count drops below zero, and everything else has its type.
THEOREM PromiseTypes == PromisesSpec => []PromisesTypeOK
<1>1. IInv => PromisesTypeOK
  BY DEF IInv
<1> QED
  BY <1>1, AlwaysIInv, PTL

\* The promise, its task and every value have as many references as there are owners, whoever
\* clones, drops, resolves and waits on however many threads, also when the worker dies under
\* them; and all that threads ever get is one value, that of the first resolve the worker ran
\* (leo3/src/promise.rs, leo3/src/task.rs, leo3/src/tokio_bridge.rs).
THEOREM PromisesAreShared == PromisesSpec => []PromiseIsShared
<1>1. IInv => PromiseIsShared
  BY DEF IInv, PromiseCounted, TaskCounted, ValuesCounted, OneValue, PromiseIsShared,
         Holders, GotBy, OnPool, CarriedBy, InTask, Left
<1> QED
  BY <1>1, AlwaysIInv, PTL

\* Each step asks of the worker what SerialExecutor allows, or nothing.
LEMMA StepsUseTheExecutor ==
  ASSUME IInv, [PromisesNext]_promiseVars
  PROVE  [Exec!Next]_(Exec!vars)
<1>1. ASSUME WorkerDies PROVE [Exec!Next]_(Exec!vars)
  BY <1>1 DEF WorkerDies, Exec!Next
<1>2. ASSUME NEW t \in Threads, WorkerStarts(t) PROVE [Exec!Next]_(Exec!vars)
  BY <1>2 DEF WorkerStarts, Exec!Next
<1>3. ASSUME NEW t \in Threads, RunNew(t) PROVE [Exec!Next]_(Exec!vars)
  BY <1>3 DEF RunNew, Exec!Next
<1>4. ASSUME NEW t \in Threads, RunResolve(t) PROVE [Exec!Next]_(Exec!vars)
  BY <1>4 DEF RunResolve, Exec!Next
<1>5. ASSUME NEW t \in Threads, RunWait(t) PROVE [Exec!Next]_(Exec!vars)
  BY <1>5 DEF RunWait, Exec!Next
<1>6. ASSUME NEW t \in Threads, ReturnNew(t) PROVE [Exec!Next]_(Exec!vars)
  BY <1>6 DEF ReturnNew, Exec!Next
<1>7. ASSUME NEW t \in Threads, ReturnError(t) PROVE [Exec!Next]_(Exec!vars)
  BY <1>7 DEF ReturnError, Exec!Next
<1>8. ASSUME NEW t \in Threads, ReturnResolve(t) PROVE [Exec!Next]_(Exec!vars)
  BY <1>8 DEF ReturnResolve, Exec!Next
<1>8a. ASSUME NEW t \in Threads, ReturnRejected(t) PROVE [Exec!Next]_(Exec!vars)
  BY <1>8a DEF ReturnRejected, Exec!Next
<1>9. ASSUME NEW t \in Threads, ReturnWait(t) PROVE [Exec!Next]_(Exec!vars)
  BY <1>9 DEF ReturnWait, Exec!Next
<1>10. ASSUME NEW t \in Threads, CallUnwinds(t) PROVE [Exec!Next]_(Exec!vars)
  BY <1>10 DEF CallUnwinds, Exec!Next
<1>11. ASSUME NEW t \in Threads, GetReturns(t) PROVE [Exec!Next]_(Exec!vars)
  BY <1>11 DEF GetReturns, workerVars, Exec!vars
<1>12. ASSUME NEW t \in Threads, PoolReturns(t) PROVE [Exec!Next]_(Exec!vars)
  BY <1>12 DEF PoolReturns, workerVars, Exec!vars
<1>13. ASSUME NEW t \in Threads, CallNew(t) PROVE [Exec!Next]_(Exec!vars)
  BY <1>13 DEF CallNew, Exec!Next
<1>14. ASSUME NEW t \in Threads, CallWait(t) PROVE [Exec!Next]_(Exec!vars)
  BY <1>14 DEF CallWait, Exec!Next
<1>15. ASSUME NEW t \in Threads, Task(t) PROVE [Exec!Next]_(Exec!vars)
  BY <1>15 DEF Task, workerVars, Exec!vars
<1>16. ASSUME NEW t \in Threads, LetGoOfPromise(t) PROVE [Exec!Next]_(Exec!vars)
  BY <1>16 DEF LetGoOfPromise, workerVars, Exec!vars
<1>17. ASSUME NEW t \in Threads, LetGoOfTask(t) PROVE [Exec!Next]_(Exec!vars)
  BY <1>17 DEF LetGoOfTask, workerVars, Exec!vars
<1>18. ASSUME NEW t \in Threads, LetGoOfResult(t) PROVE [Exec!Next]_(Exec!vars)
  BY <1>18 DEF LetGoOfResult, workerVars, Exec!vars
<1>19. ASSUME NEW t \in Threads, IntoTokio(t) PROVE [Exec!Next]_(Exec!vars)
  BY <1>19 DEF IntoTokio, workerVars, Exec!vars
<1>20. ASSUME NEW t \in Threads, Await(t) PROVE [Exec!Next]_(Exec!vars)
  BY <1>20 DEF Await, workerVars, Exec!vars
<1>21. ASSUME NEW t \in Threads, NEW v \in Values, CallResolve(t, v) PROVE [Exec!Next]_(Exec!vars)
  BY <1>21 DEF CallResolve, Exec!Next
<1>22. ASSUME NEW t \in Threads, NEW how \in {"get", "get_owned"}, Get(t, how) PROVE [Exec!Next]_(Exec!vars)
  BY <1>22 DEF Get, workerVars, Exec!vars
<1>23. ASSUME NEW t \in Threads, NEW u \in Threads, ClonePromise(t, u) PROVE [Exec!Next]_(Exec!vars)
  BY <1>23 DEF ClonePromise, workerVars, Exec!vars
<1>24. ASSUME NEW t \in Threads, NEW u \in Threads, CloneTask(t, u) PROVE [Exec!Next]_(Exec!vars)
  BY <1>24 DEF CloneTask, workerVars, Exec!vars
<1>25. CASE UNCHANGED promiseVars
  BY <1>25 DEF promiseVars, workerVars, Exec!vars
<1> QED
  BY <1>1, <1>2, <1>3, <1>4, <1>5, <1>6, <1>7, <1>8, <1>8a, <1>9, <1>10, <1>11, <1>12, <1>13, <1>14, <1>15, <1>16, <1>17, <1>18, <1>19, <1>20, <1>21, <1>22, <1>23, <1>24, <1>25 DEF PromisesNext, WorkerStep, ThreadStep

\* Promises and the closures that wait for them rely on nothing of the worker but what
\* SerialExecutor promises, and that is what Runtime implements (leo3/src/runtime.rs).
THEOREM PromisesUseTheExecutor == PromisesSpec => Exec!Spec
<1>1. PromisesInit => Exec!Init
  BY DEF PromisesInit
<1>2. IInv /\ [PromisesNext]_promiseVars => [Exec!Next]_(Exec!vars)
  BY StepsUseTheExecutor
<1> QED
  BY <1>1, <1>2, AlwaysIInv, PTL DEF PromisesSpec, Exec!Spec
=============================================================================
