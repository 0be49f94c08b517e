CONSTANTS
  c1 = c1
  c2 = c2
  p1 = p1
  p2 = p2
  p3 = p3
  p4 = p4
  Client = {c1, c2}
  Packet = {p1, p2, p3, p4}
  Aggregate = {p2, p3}
  Foreign = {p4}
  NonInferior <- MCNonInferior
  None = None
SPECIFICATION Spec
SYMMETRY Symmetry
CHECK_DEADLOCK FALSE
INVARIANTS
  EvidenceKept
