CONSTANTS
  Counts = {1, 2, 3}
  Puts = {p1, p2, p3}
  Concurrent = TRUE
  MaxRetries = 1
SYMMETRY PutSymmetry
SPECIFICATION Spec
INVARIANT MonitorAbstraction
