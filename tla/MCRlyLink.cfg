SPECIFICATION LinkSpec
CONSTANTS
  Socks = {1, 2}
  ConnCnt = 1
  Stdin = {TRUE, FALSE}
  ConnTm = 1
  InitTm = 1
  HBeatSndTm = 1
  HBeatTm = 5
  MaxConn = 4
  MaxMsg = 1
  MaxFault = 1
INVARIANTS CountExact NoLoss NoFalseAlarm
PROPERTIES Reconnects
CHECK_DEADLOCK FALSE
