SPECIFICATION FairSpec

CONSTANTS
  t1 = t1
  t2 = t2
  e1 = e1
  e2 = e2
  d1 = d1
  d2 = d2
  RF = RF
  CN = CN
  None = None
  Tickets = {t1, t2}
  Employees = {e1}
  Desks = {d1, d2}
  Countries = {RF, CN}
  CountryOf <- AllRF
  Duration <- Minutes
  Slots = {3, 5, 7}
  RescheduleTo = {5, 7}
  Instants = {0, 4, 20}
  OpeningDesks <- RFAndCN
  NewDeskCountries = {}
  DeskSwitches = {}
  Closable = {}
  Rotating = {e1}
  JoinsLockable = TRUE
  Integration = {e1}

INVARIANTS
  AssignedWithinDirection
  NoDoubleBooking
  InProgressIffAssigned
  EmployeeStatusHonest

PROPERTY
  EveryVisitEnds
