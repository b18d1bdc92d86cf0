CONSTANTS
  a1 = a1
  b1 = b1
  u1 = u1
  s1 = s1
  Adapters = {a1, b1}
  Users = {u1}
  Assets = {s1}
  Remote <- MCRemote
  Local <- MCLocal
  MaxRequests = 2
  MaxCommands = 1
  MaxFaults = 1
SPECIFICATION FairSpec
INVARIANTS TypeOK LostOnlyToOverlap RunsAreGranted
PROPERTIES EveryRequestEnds ServesAtomically
CHECK_DEADLOCK FALSE
