CONSTANTS
  p1 = p1
  p2 = p2
  p3 = p3
  k1 = k1
  k2 = k2
  None = None
  N = 2
  Puts <- ThreePuts
  Keys <- TwoKeys
  KeyOf <- ThreePutsKeyOf
  FollowerCommitType = "two-phase"
  ProposeVerdicts = {TRUE, FALSE}
  CommitVerdicts = {TRUE, FALSE}
  Crash = TRUE
  Concurrent = FALSE
  Faults = {"lose", "db", "stop"}
  MaxRestarts = 0
  MaxLate = 0
SPECIFICATION Spec
INVARIANT SequentialInv
INVARIANT AckStored
INVARIANT CacheBound
PROPERTY FollowersFollow
PROPERTY ImplementsStore
