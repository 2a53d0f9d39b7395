CONSTANTS
  Target = target
  Others = {a, b}
  Nowhere = nowhere
  Requests = 3
  MaxList = 3
SPECIFICATION Spec
INVARIANT AckEverywhere
INVARIANT OnlyServiceableAcks
PROPERTY ServiceableServes
