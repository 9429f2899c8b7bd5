SPECIFICATION Spec
CONSTANTS
  Requests = {r1, r2}
  Operations = {"GenerateToken", "RevokeToken", "ChangePassword", "DeleteCustomer", "ConfirmEmail", "RequestPasswordResetEmail", "ResetPassword"}
  Passwords = {p1, p2}
  p1 = p1
  p2 = p2
  r1 = r1
  r2 = r2
  MaxFailures = 1
  LockoutTicks = 1
  ExpiryTicks = 0
  ParseTime = FALSE
  MaxTime = 1
  FailureBound = 0
  MaxResets = 2
  MaxFaults = 1
SYMMETRY Symmetry
INVARIANTS TypeOK ClosedStaysRevoked AcknowledgedHolds
PROPERTY DeadLinkStaysDead
