SPECIFICATION FairSpec
CONSTANTS
  r1 = r1
  r2 = r2
  a = a
  b = b
  c = c
  p1 = p1
  p2 = p2
  Runs = {r1}
  Users = {"alice", "bob", "carol"}
  RoleOf <- AnyRole
  Objects = {a, b}
  Places = {p1}
  Excluded = {}
  Denied = {}
  SrcKinds = {"local", "sftp"}
  DstKinds = {"s3", "azure_blob"}
  Tick <- Coarse
  Tls = {"s3"}
  RequireHttps = TRUE
  Incremental = "etag"
  Transforms = FALSE
  NameIsKind = TRUE
  PutMayFail = FALSE
  MaxAttempts = 2
  MaxActive = 1
  MaxVersion = 2
  MaxFaults = 1
  MaxCrashes = 1
  MaxEdits = 1
PROPERTY SkipsOnlyCurrent
PROPERTY EventuallySynced
