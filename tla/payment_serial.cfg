SPECIFICATION Spec
CONSTANTS
  p1 = p1
  p2 = p2
  Intents = {i1}
  Payments = {p1}
  Slots = {s1}
  ProviderOf <- SulifuOnly
  MaxDeliveries = 3
  Kinds = {"confirm", "cancel", "view", "intelligence", "process"}
  FreshReports = TRUE
  Faults = FALSE
INVARIANTS
  CreditedAtMostOnce
  QuiescentAgreement
CHECK_DEADLOCK FALSE
