CONSTANTS
  None = None
  Unknown = Unknown
  Main = main
  Worker = {w1, w2}
  Form = {"iter", "deferred", "input", "contended"}
  Profiler = {"heap", "thread"}
  Iterations = 2
  Wrap = 5
  MaxBytes = 4
  Cost = {1, 40, 400, 30000, 3000000}
  Disturbance = {0, 2000, 1000000}
  Settings <- MCSettings
  TimerTick = 25
  Observation <- MCObservation
  MaxRounds = 4
  Unit = 60
  Resolution = 60
  Noise = 12
  FewRanks = 3
  MaxArms = 5

SPECIFICATION MCSpec
CHECK_DEADLOCK FALSE

INVARIANTS
  SampleIsOwn
  PhaseIsExact
  SignificanceIsEarned
  ReportAgrees

PROPERTIES
  EverySampleEnds
