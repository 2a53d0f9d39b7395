CONSTANTS
  p1 = p1
  p2 = p2
  p3 = p3
  k1 = k1
  k2 = k2
  None = None
  N = 2
  Puts <- TwoPuts
  Keys <- TwoKeys
  KeyOf <- TwoPutsKeyOf
  FollowerCommitType = "two-phase"
  ProposeVerdicts = {TRUE}
  CommitVerdicts = {TRUE}
  Crash = TRUE
  Concurrent = FALSE
  Faults = {"late", "ctx"}
  MaxRestarts = 1
  MaxLate = 1
SPECIFICATION DeadlineSpec
INVARIANT CoordinatorHasEntry
INVARIANT MonitorSilent
PROPERTY VotedPutsReturn
