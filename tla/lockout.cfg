SPECIFICATION FairSpec
CONSTANTS
  Requests = {r1, r2}
  Operations = {"GenerateToken"}
  Passwords = {p1, p2}
  p1 = p1
  p2 = p2
  r1 = r1
  r2 = r2
  MaxFailures = 2
  LockoutTicks = 2
  ExpiryTicks = 1
  ParseTime = FALSE
  MaxTime = 2
  FailureBound = 4
  MaxResets = 0
  MaxFaults = 0
INVARIANTS ThresholdLocks LockHonoured GuessBurst
PROPERTY ThresholdEventuallyLocks
