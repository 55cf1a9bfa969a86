SPECIFICATION Spec
CONSTANTS
  Producers = {p1, p2}
  Consumers = {c1, c2}
  MaxCnt = 3
  LockType = "LOCKED"
  NoThread = NoThread
  MaxPush = 6
INVARIANTS FifoExact NoSlotRace
PROPERTIES ImplementsChannel
