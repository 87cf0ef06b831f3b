SPECIFICATION Spec
CONSTANTS
  Objects = {o1, o2, o3}
  Handles = {h1, h2, h3}
  Threads = {t1, t2}
  Payloads = {p1, p2}
  Null = null
  MaxLen = 2
  RefsCross = TRUE
SYMMETRY Symmetry
INVARIANTS
  STIsConfined
CHECK_DEADLOCK FALSE
