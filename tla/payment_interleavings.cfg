SPECIFICATION Spec
CONSTANTS
  p1 = p1
  p2 = p2
  Intents = {i1}
  Payments = {p1, p2}
  Slots = {s1, s2}
  ProviderOf <- BankAndPayaza
  MaxDeliveries = 1
  Kinds = {"confirm", "cancel", "view", "intelligence", "process"}
  FreshReports = FALSE
  Faults = TRUE
SYMMETRY SlotSymmetry
INVARIANTS
  TypeOK
  SucceededNeedsPayment
  ProcessingHasPayment
  CreditBacked
  CreditNeedsPayment
  SuccessNoticeBacked
CHECK_DEADLOCK FALSE
