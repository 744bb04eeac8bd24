SPECIFICATION Spec
CONSTANTS
  p1 = p1
  p2 = p2
  Intents = {i1}
  Payments = {p1}
  Slots = {s1}
  ProviderOf <- BankOnly
  MaxDeliveries = 3
  Kinds = {"confirm"}
  FreshReports = TRUE
  Faults = FALSE
PROPERTIES
  PaidReportMatched
CHECK_DEADLOCK FALSE
