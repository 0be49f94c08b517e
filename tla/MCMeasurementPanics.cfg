CONSTANTS
  None = None
  Main = main
  Worker = {w1, w2}
  Form = {"contended"}
  Profiler = {"thread"}
  Iterations = 1
  Wrap = 3
  MaxBytes = 4
SPECIFICATION SpecPanics
CHECK_DEADLOCK FALSE
PROPERTY FailureIsJoined
