SPECIFICATION HostSpec
CONSTANTS
  h1 = h1
  h2 = h2
  k1 = k1
  t1 = t1
  t2 = t2
  a1 = a1
  a2 = a2
  acpt = acpt
  Names = {h1, h2}
  Keys = {k1}
  Threads = {t1, t2}
  Apps = {a1, a2}
  Acpt = acpt
  MaxHostCnt = 2
  FreeTmOut = 1
  TqSize = 1
  MaxCb = 3
  Programs <- MCPrograms
INVARIANT LockOrder
CHECK_DEADLOCK FALSE
