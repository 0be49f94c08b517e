CONSTANTS
  Client = {cli, server}
  Cli = {cli}
  Child = {k1}
  MaxSecond = 0
  MaxCommit = 1
  NoChild = NoChild
  Command = {s1, s2}
  Ref = {v1, v2}
  Working = Working
  Worker = {w1, w2}
  Scoped = TRUE
  Budget = 2
  MaxTime = 3
SPECIFICATION MCSpec
CHECK_DEADLOCK FALSE
INVARIANTS
  FinishedIsDead
  NeverRevived
  AnswerIsTrue
  ComparesAsAsked
  LifecycleBounds
  NiceIsReserved
PROPERTIES
  ImplementsContract
  EveryNiceEnds
