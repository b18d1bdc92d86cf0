SPECIFICATION Spec
CONSTANTS
  w1 = w1
  w2 = w2
  server = server
  cli = cli
  NoWriter = NoWriter
  Writers = {w1, w2}
  Procs = {server}
  ProcOf <- OneProcess
  MaxLines = 3
  MaxBytes = 4
  ReplayLines = 1
  MaxEntries = 12
  MaxCrashes = 2
  MaxFaults = 1
INVARIANT TypeOK
INVARIANT ChainVerifies
INVARIANT ChainInv
INVARIANT LossIsBounded
INVARIANT SizeIsBounded
PROPERTY ImplementsHistory
