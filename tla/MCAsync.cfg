SPECIFICATION AsyncSpec
CONSTANTS
  RaceSize = 3
  Tasks <- RaceTasks
  Executor = executor
  Wakers = {executor, another}
  NoWaker = nobody
  MaxPolls = 6
  MaxPlainPolls = 3
  MaxSpurious = 1
  SpawnMayFail = TRUE
  Threads = {t1, t2}
  Values = {v1, v2}
  Unresolved = Unresolved
  Nothing = Nothing
  MaxHandles = 2
  WorkerMayWait = TRUE
  WorkerMayDie = TRUE
INVARIANTS
  TaskOutlivesItsUsers
  WatcherGivesBackItsReference
  ResolvesRightly
  PromiseIsShared
PROPERTIES
  PendingIsWoken
  Resolves
  WaitersReturn
CHECK_DEADLOCK FALSE
