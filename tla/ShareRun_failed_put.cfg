SPECIFICATION Spec
CONSTANTS
  r1 = r1
  r2 = r2
  a = a
  b = b
  c = c
  p1 = p1
  p2 = p2
  Runs = {r1}
  Users = {"alice"}
  RoleOf <- Operator
  Objects = {a}
  Places = {p1}
  Excluded = {}
  Denied = {}
  SrcKinds = {"local"}
  DstKinds = {"local"}
  Tick <- Exact
  Tls = {}
  RequireHttps = FALSE
  Incremental = "etag"
  Transforms = TRUE
  NameIsKind = TRUE
  PutMayFail = TRUE
  MaxAttempts = 1
  MaxActive = 1
  MaxVersion = 2
  MaxFaults = 1
  MaxCrashes = 0
  MaxEdits = 0
PROPERTY SkipsOnlyCurrent
