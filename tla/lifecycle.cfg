CHECK_DEADLOCK FALSE
SPECIFICATION ServingSpec
CONSTANTS
  Requests = {q1, graphql}
  Operation = graphql
  Fields = {"customer", "customerGroup", "wishlist", "orders", "items_v2", "changeCustomerPassword", "deleteCustomer"}
INVARIANTS
  ServingTypeOK
  ServedWithDatabase
  OrderlyExit
  LateMeansUnawaited
  AnnouncedComes
PROPERTIES
  SignalEnds
  OperationEnds
