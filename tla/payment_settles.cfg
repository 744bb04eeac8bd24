SPECIFICATION FairSpec
CONSTANTS
  p1 = p1
  p2 = p2
  Intents = {i1}
  Payments = {p1}
  Slots = {s1, s2}
  ProviderOf <- BankOnly
  MaxDeliveries = 2
  Kinds = {"confirm", "cancel", "view", "intelligence", "process"}
  FreshReports = FALSE
  Faults = FALSE
INVARIANTS
  EverySaveSettles
PROPERTIES
  SuccessIsCredited
CHECK_DEADLOCK FALSE
