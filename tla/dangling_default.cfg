SPECIFICATION Spec
CONSTANTS
  Requests = {r1, r2}
  Customers = {c1}
  Operations = {"CreateAddress", "UpdateAddress", "DeleteAddress"}
  MaxAddresses = 1
  MaxFaults = 0
INVARIANT DefaultsAreStored
