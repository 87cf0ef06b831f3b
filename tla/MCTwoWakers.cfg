SPECIFICATION FairSpec
CONSTANTS
  Tasks = {k}
  Wakers = {w1, w2}
  NoWaker = nobody
  MaxPolls = 3
  SpawnMayFail = TRUE
PROPERTY LatestWakerIsWoken
CHECK_DEADLOCK FALSE
