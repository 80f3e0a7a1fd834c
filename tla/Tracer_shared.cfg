SPECIFICATION Spec
CONSTANTS
  s1 = s1
  s2 = s2
  ip = ip
  ip6 = ip6
  Sessions <- TwoSessions
  Dests = {ip, ip6}
  V6Dests = {ip6}
  DestOf <- OneV4
  MaxHops = 2
  Count = 1
  Timeout = 1
  ChanCap = 2
  IdSpace = 8
  Answers <- Either
CONSTRAINT FewRequests
SYMMETRY SessionSymmetry
INVARIANTS
  TypeOK
  AnsweredOnce
  AttributedToCause
  SessionsInProgress
