SPECIFICATION ToolsSpec
CONSTANTS
  P = 8
  Widths = {4, 8}
  Bounds = {1, 3, 10}
  Operands <- BorderOperands
  Radix = 2
  ChunkWidth = 4
  Surrogates = {7, 8}
  MaxChar = 13
  MaxShift = 3
  Further <- BorderResults
  h1 = h1
  h2 = h2
  Homes = {h1, h2}
  Installations <- SomeInstallations
  Versions <- SomeVersions
  ConfigTexts <- SomeTexts
  Nothing = Nothing
  Invalid = Invalid
  NeverBuilt = NeverBuilt
  MaxChanges = 2
  Signatures <- SomeSignatures
  NotCalled = "not called"
  Items <- SomeItems
  NoName = NoName
  MaxItems = 2
  MaxPadding = 1
  MaxLibraries = 2
  Declarations <- SomeDeclarations
  Payloads = {0, 1, 9}
  Default = 0
  Unfit = {9}
  Wrong <- WrongContent
  NoTag = NoTag
  TagSize = 4
  MaxArity = 2
  p1 = p1
  p2 = p2
  Paths = {p1, p2}
  Files = {f1, f2}
  LeanIOs = {s1, s2}
  HandleOps = {"read", "write", "flush"}
  MaxParts = 2
  MaxIoSteps = 5
  Threads = {t1, t2, t3}
  None = none
  NTactics = 2
  RegisterMayFail = TRUE
  MaxNames = 3
  MaxArgs = 2
  MaxScope = 1
  MaxSaved = 2
  Missing = Missing
VIEW ToolsView
INVARIANTS
  ArithmeticIsExact
  ConversionsKeepValues
  CfgsAgree
  ExplicitSourceDecides
  DeclarationsMatchWrappers
  ArgumentsAreReleasedOnce
  ExportsAreDeclaredOnce
  DeriveRoundTrips
  ActionsRunAsComposed
  WindowCloses
  PhaseEndsOnce
  TacticsRegisteredOnce
  ImportsAreEnabled
  LibraryOpenWhileUsed
  OpenGoalsListed
  NamesAreFresh
  GoalsSeeHypotheses
  FailureLeavesGoalOpen
PROPERTIES
  NothingForgotten
CHECK_DEADLOCK FALSE
