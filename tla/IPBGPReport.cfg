SPECIFICATION Spec
CONSTANTS
  feed = feed
  Feeds = {feed}
  Configs <- Varied
INVARIANTS
  SuccessIsComplete
  EvidencePrecedence
  EverySourceAccounted
PROPERTIES
  ReportReturns
