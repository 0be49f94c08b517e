CONSTANTS
  None = None
  Request <- MCRequest
  Latency <- MCLatency
  Condition <- MCCondition
  Verified = {"fast"}
  Margin = 95
  Gain = 105
  Floor = 2
  Saved <- MCSaved
  MaxRebuilds = 1
  CommandLine <- MCCommandLine
  Environment <- MCEnvironment
  Declared <- MCDeclared
  Absent = Absent

SPECIFICATION MCSpec
CHECK_DEADLOCK FALSE
INVARIANTS
  CompleteIsEvidence
  ExitIsJustified
  ChildrenRunThePlan
PROPERTIES
  BaselineIsEarned
  EveryExperimentEnds
