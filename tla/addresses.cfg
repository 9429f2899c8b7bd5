SPECIFICATION Spec
CONSTANTS
  Requests = {r1, r2}
  Customers = {c1, c2}
  Operations = {"CreateAddress", "UpdateAddress", "DeleteAddress", "DeleteCustomer"}
  MaxAddresses = 2
  MaxFaults = 1
SYMMETRY Symmetry
INVARIANTS
  TypeOK
  OwnDefaults
  DanglingMeansOverlap
PROPERTIES
  OnlyOwnerChanges
