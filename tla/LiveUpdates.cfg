SPECIFICATION Spec

CONSTANTS
  own = own
  other = other
  None = None
  Desks = {own, other}
  ReservedDesk = own
  MaxChanges = 2
  MaxLosses = 1
  MaxBreaks = 1
  MaxPolls = 2
  MaxPicks = 2
  today = today
  later = later
  Days = {today, later}
  Today = today

CHECK_DEADLOCK FALSE

INVARIANTS
  TypeOK
  QuietEmployeeIsCurrent

PROPERTIES
  BoardCatchesUp
  ManagerCatchesUp
  EmployeeCatchesUp
  ClientSeesChange
