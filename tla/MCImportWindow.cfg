SPECIFICATION ProcessSpec
CONSTANTS
  Threads = {t1, t2}
  None = none
  NTactics = 2
  RegisterMayFail = FALSE
INVARIANTS
  InitializersMayRegister
