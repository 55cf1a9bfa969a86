CONSTANTS
  Nodes = {n1, n2, n3, n4}
  Keys = {"a", "b", "c", "x"}
  Hash <- MCHash
  NULL = NULL
  MaxCnt = 5
  LnkNodes = {k1, k2, k3, k4}
  Lists = {l1, l2}
  MaxNodes = {0, 3}
  NoNode = NoNode
  Msgs = {m1, m2}
  Bytes = {0, 1}
  ChkLen = 3
  MaxLen = 5
  MaxBytes = 4
  Garbage = 2
  Hosts = {h1, h2, h3}
  RlmNames = {"m1"}
  RlmRules = {"RR", "PS", "HASH"}
  RlmKeys = {0, 1, 2}
  MaxRlmCnt = 1
  MaxRegHostCnt = 3
  TqSize = 1
  MaxAdd = 3
  Programs = {{"send"}, {"receive"}}
SPECIFICATION MCSpec
SYMMETRY Symmetry
INVARIANTS LookupsExact ListsExact MessagesExact RlmSends RlmReceives
CHECK_DEADLOCK FALSE
