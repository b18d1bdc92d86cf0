SPECIFICATION FairSpec
CONSTANTS
  t1 = t1
  t2 = t2
  t3 = t3
  server = server
  cli = cli
  k1 = k1
  k2 = k2
  Kinds <- AllKinds
  Procs = {server, cli}
  Home = server
  Threads = {t1, t2, t3}
  ProcOf <- TwoProcesses
  NoThread = NoThread
  NoProc = NoProc
  Keys = {k1, k2}
  MaxOps = 4
  MaxFaults = 1
  MaxCrashes = 1
INVARIANT TypeOK
INVARIANT DiskIsReadable
INVARIANT AckedAreOnDisk
INVARIANT MemoryIsSaved
PROPERTY DiskNeverGoesBack
PROPERTY LockIsReleased
