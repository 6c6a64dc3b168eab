SPECIFICATION Spec

CONSTANTS
  t1 = t1
  t2 = t2
  e1 = e1
  e2 = e2
  d1 = d1
  d2 = d2
  RF = RF
  CN = CN
  None = None
  Tickets = {t1, t2}
  Employees = {e1, e2}
  Desks = {d1, d2}
  Countries = {RF}
  CountryOf <- AllRF
  Duration <- Minutes
  Slots = {3}
  RescheduleTo = {}
  Instants = {0}
  OpeningDesks <- TwoDesks
  NewDeskCountries = {RF}
  DeskSwitches = {TRUE}
  Closable = {d1, d2}
  Rotating = {}
  JoinsLockable = TRUE
  Integration = {}

SYMMETRY Alike

INVARIANTS
  TypeOK
  IndexesNeverFire
  InProgressIffAssigned
  EmployeeStatusHonest
  ClientAtEmployeesDesk

PROPERTIES
  ClosedStaysClosed
  ImplementsServiceDesk
