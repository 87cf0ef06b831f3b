SPECIFICATION ObjectsSpec
CONSTANTS
  Objects = {o1, o2, o3}
  Handles = {h1, h2, h3}
  Threads = {t1, t2}
  Payloads = {p1, p2}
  Null = null
  MaxLen = 2
  RefsCross = FALSE
  Memory = {1, 2, 3, 4, 5, 6}
  Slots = {s1, s2}
  Leaves = {1, 2}
  Chosen = {1}
  Refused = {2}
  RustTypes <- SomeTypes
  MaxElements = 2
  MaxInside = 2
  Versions = {20, 25, 27, 28, 29, 31, 34}
  EnvReplacedOn = {25, 27, 28, 29, 31, 34}
  Exports <- SomeExports
  Word = 8
  Header = 8
VIEW ObjectsView
INVARIANTS
  CountsAreExact
  STIsConfined
  PayloadEndsOnce
  ReferencesMatch
  ContainersAreValues
  ConversionsRoundTrip
  ObjectsAreLaidOut
PROPERTIES
  ImplementsPureValues
CHECK_DEADLOCK FALSE
