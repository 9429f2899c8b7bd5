SPECIFICATION Spec
CONSTANTS
  Requests = {r1, r2}
  Emails = {e1, e2}
  Stores = {de, at}
  UniqueKeys = {TRUE, FALSE}
  MaxAccounts = 2
  MaxSubscribers = 2
  MaxFaults = 1
SYMMETRY Symmetry
INVARIANTS
  SubscriptionsOK
  OwnAddress
PROPERTIES
  OwnConsent
