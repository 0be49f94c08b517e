CONSTANTS
  None = None
  Cpu = {1, 2, 3}
  Kind = {"performance", "efficiency"}
  Rank <- MCRank
  Conf <- MCConf
  Boundaries <- MCBoundaries
  Launches = {{1}, {1, 2, 3}}
  Core <- MCCore
  Published = {1, 2, 3}
  Proc <- MCProc
  Self = "self"
  Visitor = "rival"
  Parent <- MCParent
  Harness = {"self", "launcher", "queued", "rival"}
  Bench = {b1}
  MaxPolls = 1
  MaxChanges = 2
SPECIFICATION Spec
CHECK_DEADLOCK FALSE
INVARIANTS
  ReliableIsQuiet
  RoundsInsideBoundary
  ObserverKeepsOut
  NothingLeaks
  AttemptIsKept
PROPERTIES
  RunEnds
