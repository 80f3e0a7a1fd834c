SPECIFICATION Spec
CONSTANTS
  r1 = r1
  r2 = r2
  Runs = {r1, r2}
  Lists <- TwoLists
  Mirrors = 2
  Hour = 2
  Timeout = 1
PROPERTIES
  ReadsFresh
  CacheKept
  NotRefetched
  NobodyWaitsForEver
