SPECIFICATION FairSpec
CONSTANTS
  Refunds = {r1, r2}
  Slots = {s1}
  Balance = 2
  MaxAsked = 1
  MaxDeliveries = 2
  IdsEchoed = TRUE
  FinalReportsOnly = TRUE
  Faults = FALSE
INVARIANTS
  BooksAgree
PROPERTIES
  NoRefundAfterCompleted
  ExpiredIsDecided
CHECK_DEADLOCK FALSE
