SPECIFICATION FairSpec
CONSTANTS
  OrderIds = {o1, o2}
  PageSizes <- EdgeSizes
  PageNumbers <- EdgePages
  MaxChanges = 2
  MaxFaults = 1
INVARIANTS
  TypeOK
  PageWithinPages
PROPERTIES
  ImplementsOrderAnswer
  Answered
