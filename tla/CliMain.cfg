SPECIFICATION CliSpec
CONSTANTS
  t = t
  a = a
  b = b
  c = c
  d = d
  ASNs = {t, a, b, c, d}
  NoAS = NoAS
  Graphs <- SomeGraphs
  Options <- SomeOptions
INVARIANTS
  UpstreamsOfChains
  PrintedIsFinal
  ResolverStopped
PROPERTIES
  MainReturns
