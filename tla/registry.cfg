SPECIFICATION Spec
CONSTANTS
  de = de
  at = at
  Requests = {r1, r2}
  Operations = {"CreateCustomer", "UpdateEmail", "IsEmailAvailable"}
  Emails = {e1, e2}
  Stores = {de, at}
  WebsiteOf <- TwoWebsites
  UniqueKeys = {TRUE, FALSE}
  MaxAccounts = 2
  MaxFaults = 1
SYMMETRY Symmetry
INVARIANTS
  WebsitesOK
PROPERTIES
  DuplicateMeansRace
