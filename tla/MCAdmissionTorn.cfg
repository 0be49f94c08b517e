CONSTANTS
  Proc = {p1, p2}
  MaxTicket = 2
  Free = Free
  Observer = Observer
SPECIFICATION Spec
SYMMETRY Symmetry
PROPERTY DeadWaiterPrunable
