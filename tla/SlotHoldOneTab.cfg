SPECIFICATION Spec

CONSTANTS
  r1 = r1
  r2 = r2
  r3 = r3
  r4 = r4
  s1 = s1
  s2 = s2
  morning = morning
  noon = noon
  evening = evening
  None = None
  Requests = {r1, r2, r3, r4}
  Sessions = {s1, s2}
  Desks = {1}
  Slots = {morning, noon, evening}
  Phone <- OwnPhone
  KeysExpire = FALSE
  OneAtATime = TRUE
  Moves = {noon}

CHECK_DEADLOCK FALSE

SYMMETRY AllAlike

INVARIANT
  HoldIsKnown

PROPERTY
  HoldIsNotStolen
