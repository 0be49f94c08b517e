CONSTANTS
  base = base
  new = new
  Attempt = {a1, a2}
  NCases = 2
  NBlocks = 2
  Arm = {base, new}
  Base = base
  Schedule <- MCSchedule
  Identity = {old, now}
  MaxFailures = 1
  Draws = 8
  PlanArms = 3
  Candidate = {x, y}
  Margin = 1
  ControlMargin = 1
  Interval <- MCInterval
  MaxWindows = 3
  Plans <- MCPlans
  Inherited <- MCInherited
  Files = {"/bin/old", "/usr/new", "/opt/new", "/in"}
  Searched <- MCSearched
  MaxLaunches = 48
  MaxValues = 60
  NoText = NoText
SPECIFICATION MCSpec
CHECK_DEADLOCK FALSE
SYMMETRY Symmetry
INVARIANTS
  InterruptedIsChecked
  CasesNotMixed
  LoadIsNoticed
  AcceptedIsEarned
  AdmittedPlanRuns
PROPERTY NeverUnlearned
