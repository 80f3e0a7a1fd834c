SPECIFICATION Spec
CONSTANTS
  X = X
  Y = Y
  T = T
  Nodes = {X, Y, T}
  Target = T
  Distances = {1, 2, 3}
  Replies <- SomeReplies
  MaxReplies = 3
  Attempts = 3
  Readings <- SomeReadings
INVARIANTS
  PathsOrdered
  SamplesKept
  MajorityPathStands
  PremiumUndisputed
