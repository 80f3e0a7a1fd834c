SPECIFICATION Spec
CONSTANTS
  t1 = t1
  t2 = t2
  a1 = a1
  a2 = a2
  Configs <- WideOrDeep
  InvalidTargets = {t2}
  AltLists <- TwoCandidates
INVARIANTS
  ReportJustified
  StopsPromptly
PROPERTIES
  ImplementsPromise
  ReportReturned
  GoroutinesEnd
