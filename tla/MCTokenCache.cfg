SPECIFICATION FairSpec
CONSTANTS
  Requests = {r1, r2}
  Tokens = {"t1", "t2"}
  Addrs = {a1, a2, a3}
  NULL = NULL
  Main = Main
  Slots = 5
  ExpTm = 2
  UsedBytes = {FALSE, TRUE}
  MaxTick = 3
  MaxJump = 2
  MaxStall = 1
INVARIANTS CacheExact NoSlotRace
PROPERTIES HitIsFresh DueIsRemoved
CHECK_DEADLOCK FALSE
