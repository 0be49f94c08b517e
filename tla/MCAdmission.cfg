CONSTANTS
  Proc = {p1, p2, p3}
  MaxTicket = 2
  Free = Free
  Observer = Observer
SPECIFICATION FairSpec
INVARIANTS
  NoOverlap
  WorkIsRecorded
PROPERTIES
  ImplementsQueue
  RequestAnswered
