SPECIFICATION Spec

CONSTANTS
  RF = RF
  a1 = a1
  a2 = a2
  a3 = a3
  None = None
  Countries = {RF}
  Slots = {a1, a2, a3}
  Grid <- TwoSlots
  Contested <- OneContested
  Patient = TRUE
  MaxAsked = 1

INVARIANTS
  TypeOK
  StepIsBacked

PROPERTIES
  ConfirmationEnds
  OwnSlotComesBack
