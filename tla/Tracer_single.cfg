SPECIFICATION Spec
CONSTANTS
  s1 = s1
  s2 = s2
  ip = ip
  ip6 = ip6
  Sessions <- OneSession
  Dests = {ip, ip6}
  V6Dests = {ip6}
  DestOf <- OneV4
  MaxHops = 3
  Count = 1
  Timeout = 1
  ChanCap = 2
  IdSpace = 8
  Answers <- Path
INVARIANTS
  NeverOverflows
  MaxIsNearestTarget
  DoneMeansAnswered
PROPERTIES
  TraceReturns
