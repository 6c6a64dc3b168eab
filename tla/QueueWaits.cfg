SPECIFICATION Spec

CONSTANTS
  t1 = t1
  t2 = t2
  e1 = e1
  e2 = e2
  p1 = p1
  p2 = p2
  None = None
  Tickets = {t1, t2}
  Employees = {e1}
  Processes = {p1, p2}
  PoolSize = 2
  Kinds = {"checkIn", "cancel", "missed", "break", "available", "dispatch", "action", "expireCall", "callFromList"}
  Actions = {"CALL", "COMPLETE"}

CHECK_DEADLOCK FALSE

PROPERTY
  EveryTransactionEnds
