SPECIFICATION LookupSpec
CONSTANTS
  as1 = as1
  as2 = as2
  v1 = v1
  v2 = v2
  KnownASNs = {as1, as2}
  NumSources = 2
  Versions = {v1, v2}
  FirstVersion = v1
  Embedded = Embedded
  Invalid = Invalid
  Damaged = Damaged
  Match <- Bits
  Rank <- Names
INVARIANTS
  OnlyPublished
  NeverMixed
PROPERTIES
  EmbeddedUntilLoaded
  RefreshEnds
  JudgedAlike
