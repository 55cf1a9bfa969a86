CONSTANTS
  Callers = {c1, c2}
  Default = Default
  Names = {Default}
  Cbs = {b1}
  Apnds = {a1}
  WrTypes = {"THRD"}
  MaxLvl = 1
  QMax = 3
  MaxCalls = 5
  NULL = NULL
SPECIFICATION FairSpec
INVARIANTS Accounting MemoryHeld
PROPERTIES QueueDrains CallsReturn
CHECK_DEADLOCK FALSE
