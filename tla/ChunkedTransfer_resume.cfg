SPECIFICATION Spec
CONSTANTS
  r1 = r1
  r2 = r2
  s1 = s1
  s2 = s2
  none = none
  Runs = {r1}
  Shares = {s1}
  ShareOf <- OneRun
  Others = {}
  Resumable = {s1}
  NoShare = none
  DstKind = "sftp"
  NumChunks = 2
  PoolSize = 2
  MaxAttempts = 1
  MaxVersion = 2
  MaxCrashes = 1
PROPERTY ResumeSkips
