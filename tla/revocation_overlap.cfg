SPECIFICATION Spec
CONSTANTS
  Requests = {r1, r2}
  Operations = {"GenerateToken", "RevokeToken"}
  Passwords = {p1, p2}
  p1 = p1
  p2 = p2
  r1 = r1
  r2 = r2
  MaxFailures = 1
  LockoutTicks = 1
  ExpiryTicks = 1
  ParseTime = FALSE
  MaxTime = 2
  FailureBound = 0
  MaxResets = 0
  MaxFaults = 0
PROPERTY RevokedStaysRevoked
