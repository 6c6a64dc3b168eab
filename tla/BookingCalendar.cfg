SPECIFICATION Spec

CONSTANTS
  t1 = t1
  t2 = t2
  s1 = s1
  e1 = e1
  RF = RF
  CN = CN
  None = None
  Tickets = {t1, t2}
  Sessions = {s1}
  Employees = {e1}
  Desks = {1, 2}
  Countries = {RF, CN}
  Duration <- Units
  Days = {0, 1}
  Weekend = {0}
  DayLength = 8
  WorkdayStart = 1
  WorkdayEnd = 7
  Zone = 0
  Stops = {10}
  BlockHours <- Lunch
  Rotating = {e1}
  Switched = {2}
  Turned = {1}
  OpeningSeat <- OneSits
  OpeningCountry <- AllRF

SYMMETRY Alike

INVARIANTS
  TypeOK
  OfferKept
  OverlapOnlyAcrossDirections

PROPERTY
  NobodyBookedIntoBlockedHours
