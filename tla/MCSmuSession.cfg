CONSTANTS
  Thrds = {t1}
  RegTm = 1
  HbTm = 1
  FreezeTm = 1
  AppTm = 1
  ThrdTm = 1
  MaxJump = 1
  MaxMsgs = 3
  MaxFaults = 2
SPECIFICATION FairSpec
INVARIANTS Supervised
PROPERTIES ClosedByFault TermEnds Reregisters
CHECK_DEADLOCK FALSE
