SPECIFICATION Spec
CONSTANTS
  as1 = as1
  as2 = as2
  large = large
  least = least
  other = other
  small = small
  Absent = Absent
  Torn = Torn
  KnownASNs <- TwoASNs
  Snapshots = {large, least, other, small}
  Size <- Sizes
  full = full
  reduced = reduced
  tiny = tiny
  Lists = {full, reduced, tiny}
  Count <- Names
  Minimum = 9
  NumSources = 2
INVARIANTS
  CompletedRun
  NeverTorn
  CommitAcceptable
  LoadedWhole
PROPERTIES
  ShrinkProtected
  GeneratedAtKept
