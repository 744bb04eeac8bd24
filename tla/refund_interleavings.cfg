SPECIFICATION Spec
CONSTANTS
  Refunds = {r1}
  Slots = {s1, s2}
  Balance = 1
  MaxAsked = 2
  MaxDeliveries = 2
  IdsEchoed = TRUE
  FinalReportsOnly = FALSE
  Faults = TRUE
SYMMETRY Symmetry
INVARIANTS
  TypeOK
  CompletedIsDone
PROPERTIES
  ImplementsLedger
CHECK_DEADLOCK FALSE
