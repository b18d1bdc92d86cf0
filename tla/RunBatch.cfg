SPECIFICATION FairSpec
CONSTANTS
  c1 = c1
  c2 = c2
  Callers = {c1, c2}
  Size = 2
  Unknown <- SecondUnknown
  FailFast = {c2}
  Workers = 1
  MaxPools = 2
  MaxShutdowns = 1
INVARIANT TypeOK
INVARIANT EveryShareIsReported
PROPERTY NothingStartsAfterReturn
PROPERTY BatchReturns
CHECK_DEADLOCK FALSE
