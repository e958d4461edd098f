SPECIFICATION AllSpec
CONSTANTS
  Passwords = {p1, p2, p3}
  Recoveries = {r1, r2, r3, r4}
  None = None
  MaxKeys = 3
  MaxFaults = 3
  Key = {"k1", "k2"}
  Cred = {"c0", "c1", "c2", "c3"}
  Salt = {"s1", "s2"}
  FirstRows <- MCRows
  FirstHeld <- MCHeld
  MaxTries = 2
  MaxPulls = 1
  MaxCalls = 2
  MaxAsked = 2
  MaxQueue = 1
  Pid = {1, 2, 3}
  MaxBirths = 4
  MaxUnreadable = 1
  Imports = {1, 2, 3}
  MaxActive = 2
  MaxMisses = 2
INVARIANT RecoveryRouteStays
INVARIANT WillingOwnerGetsIn
INVARIANT ApprovalIsForThisQuestion
INVARIANT StrangersAreSpared
INVARIANT ExitIsReal
INVARIANT KnownGoodStays
CHECK_DEADLOCK FALSE
