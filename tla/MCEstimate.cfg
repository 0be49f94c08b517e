CONSTANTS
  Unknown = Unknown
  Cost = {1, 40, 400}
  Disturbance = {0, 2000}
  Settings <- MCSettings
  TimerTick = 25
  Observation <- MCObservation
  MaxRounds = 1
  Unit = 60
  Resolution = 60
  Noise = 12
  FewRanks = 3
  MaxArms = 2
SPECIFICATION AnalysisSpec
CHECK_DEADLOCK FALSE
INVARIANT SampleWithinTwiceTarget
