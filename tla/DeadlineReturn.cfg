CONSTANTS
  p1 = p1
  p2 = p2
  p3 = p3
  k1 = k1
  k2 = k2
  None = None
  N = 2
  Puts <- TwoPuts
  Keys <- TwoKeys
  KeyOf <- TwoPutsKeyOf
  FollowerCommitType = "three-phase"
  ProposeVerdicts = {TRUE}
  CommitVerdicts = {TRUE}
  Crash = TRUE
  Concurrent = FALSE
  Faults = {"ctx"}
  MaxRestarts = 0
  MaxLate = 1
SPECIFICATION FairSpec
PROPERTY EveryPutReturns
