SPECIFICATION CallsAndLibraries
CONSTANTS
  Signatures <- SomeSignatures
  NotCalled = "not called"
  Items <- SomeItems
  NoName = NoName
  MaxItems = 2
  MaxPadding = 1
  MaxLibraries = 2
INVARIANTS
  EntriesMatchDeclarations
CHECK_DEADLOCK FALSE
