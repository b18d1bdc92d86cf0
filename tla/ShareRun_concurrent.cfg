SPECIFICATION Spec
CONSTANTS
  r1 = r1
  r2 = r2
  a = a
  b = b
  c = c
  p1 = p1
  p2 = p2
  Runs = {r1, r2}
  Users = {"alice"}
  RoleOf <- Operator
  Objects = {a, b, c}
  Places = {p1}
  Excluded = {b}
  Denied = {c}
  SrcKinds = {"local"}
  DstKinds = {"sftp", "mysql"}
  Tick <- Exact
  Tls = {}
  RequireHttps = FALSE
  Incremental = "etag"
  Transforms = FALSE
  NameIsKind = TRUE
  PutMayFail = TRUE
  MaxAttempts = 2
  MaxActive = 2
  MaxVersion = 1
  MaxFaults = 3
  MaxCrashes = 0
  MaxEdits = 0
SYMMETRY Threads
INVARIANT TypeOK
INVARIANT Accounted
INVARIANT WritesAreAudited
