SPECIFICATION FairMaps
CONSTANTS
  Requests = {r1, r2, r3}
  Keys = {k1}
  Values = {v1, v2}
  NoValue = none
  Callers = {r1, r2, r3}
  Statuses = {s1, s2}
  MaxFaults = 1
INVARIANTS
  TypeOK
  WritesAlone
  LabelsOK
PROPERTIES
  ImplementsMemoizedValues
  Answered
\* A race in the map of labels may abort the process.
CHECK_DEADLOCK FALSE
