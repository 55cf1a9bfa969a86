CONSTANTS
  Regs = {r1, r2}
  Wkrs = {w1, w2}
  MinWkr = 1
  MaxWkr = 2
  StrmCnt = 2
  JobMax = 2
  Sleepless = 1
  MaxJob = 3
SPECIFICATION PoolSpec
INVARIANTS PoolExact
PROPERTIES JobsEnd
CHECK_DEADLOCK FALSE
