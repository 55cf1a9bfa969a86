CONSTANTS
  Callers = {c1, c2}
  Reqs = {r1, r2}
  MaxCalls = 6
  NULL = NULL
  Names = {"a", "A", "b", "id", "ID", "idx"}
  Upper <- MCUpper
  Begins <- MCBegins
  Rules <- MCRules
  Requests <- MCRequests
  Empty = "empty"
  MaxRule = 3
SPECIFICATION MCSpec
INVARIANTS SessionsSafe RulesRouted
PROPERTIES RulesStable StopReturns
CHECK_DEADLOCK FALSE
