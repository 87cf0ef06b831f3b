SPECIFICATION SessionSpec
CONSTANTS
  MaxNames = 3
  MaxArgs = 1
  MaxScope = 1
  MaxSaved = 0
  Missing = Missing
INVARIANT FailureLeavesGoalOpenToNext
CHECK_DEADLOCK FALSE
