CONSTANTS
  CommandLine <- MCCommandLine
  Environment <- MCEnvironment
  Declared <- MCDeclared
  Absent = Absent
SPECIFICATION MainSpec
CHECK_DEADLOCK FALSE
INVARIANT ConfirmStays
