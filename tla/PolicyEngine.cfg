SPECIFICATION Spec
CONSTANTS
  t1 = t1
  t2 = t2
  u1 = u1
  u2 = u2
  Threads = {t1, t2}
  Users = {u1, u2}
  Contexts <- TwoContexts
  Names <- AllNames
  Custom <- Team
  Within <- Occurs
  Rate <- Rates
  Window = 2
  MaxTime = 2
  MaxGrants = 2
INVARIANT TypeOK
INVARIANT RateRespected
PROPERTY RefusedOnlyWhenFull
SYMMETRY Alike
