CONSTANTS
  Callers = {c1, c2}
  Default = Default
  Names = {Default, n1}
  Cbs = {b1, b2}
  Apnds = {}
  WrTypes = {"DIR"}
  MaxLvl = 2
  QMax = 2
  MaxCalls = 5
  NULL = NULL
  Hours = 1
  Keep = 1
  MaxLogSize = 4
  Lens = {2, 5}
  MaxMsgs = 5
  MaxStarts = 1
SPECIFICATION MCSpec
SYMMETRY Symmetry
INVARIANTS MaxCovers OnlyOldestLost FilesBounded
CHECK_DEADLOCK FALSE
