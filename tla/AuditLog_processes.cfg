SPECIFICATION FairSpec
CONSTANTS
  w1 = w1
  w2 = w2
  server = server
  cli = cli
  NoWriter = NoWriter
  Writers = {w1, w2}
  Procs = {server, cli}
  ProcOf <- TwoProcesses
  MaxLines = 3
  MaxBytes = 2
  ReplayLines = 2
  MaxEntries = 6
  MaxCrashes = 1
  MaxFaults = 1
INVARIANT LossIsBounded
PROPERTY LockIsReleased
