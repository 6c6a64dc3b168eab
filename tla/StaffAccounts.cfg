SPECIFICATION Spec

CONSTANTS
  n1 = n1
  n2 = n2
  a1 = a1
  a2 = a2
  v1 = v1
  v2 = v2
  None = None
  Names = {n1}
  Admins = {a1, a2}
  Visits = {v1, v2}
  MaxFailures = 3

INVARIANTS
  TypeOK
  ReportedManagerIsComplete

PROPERTIES
  EveryManagerGetsDirection
  EveryManagerGetsToWork
