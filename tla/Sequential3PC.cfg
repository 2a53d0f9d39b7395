CONSTANTS
  p1 = p1
  p2 = p2
  p3 = p3
  k1 = k1
  k2 = k2
  None = None
  N = 2
  Puts <- ThreePuts
  Keys <- TwoKeys
  KeyOf <- ThreePutsKeyOf
  FollowerCommitType = "three-phase"
  ProposeVerdicts = {TRUE}
  CommitVerdicts = {TRUE}
  Crash = TRUE
  Concurrent = FALSE
  Faults = {}
  MaxRestarts = 0
  MaxLate = 0
SPECIFICATION Spec
INVARIANT HappyPath
INVARIANT AckCancelsTimers
