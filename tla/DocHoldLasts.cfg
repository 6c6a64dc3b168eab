SPECIFICATION Spec

CONSTANTS
  r1 = r1
  r2 = r2
  r3 = r3
  r4 = r4
  s1 = s1
  s2 = s2
  morning = morning
  noon = noon
  evening = evening
  None = None
  Requests = {r1, r2, r3, r4}
  Sessions = {s1, s2}
  Desks = {1}
  Slots = {morning, noon}
  Phone <- OwnPhone
  KeysExpire = FALSE
  OneAtATime = FALSE
  Moves = {}

CHECK_DEADLOCK FALSE

SYMMETRY AllAlike

PROPERTY
  HoldLastsThreeMinutes
