SPECIFICATION Spec
CONSTANTS
  o1 = o1
  o2 = o2
  o3 = o3
  Payouts = {o1, o2}
  Slots = {s1, s2}
  ProviderOf <- PayazaAndPaytara
  Balance = 1
  MaxDeliveries = 1
  Kinds = {"create", "poll"}
  WalletNamesBlocks = TRUE
  Faults = TRUE
SYMMETRY SlotSymmetry
INVARIANTS
  TypeOK
  CompletedIsPaid
PROPERTIES
  ImplementsLedger
CHECK_DEADLOCK FALSE
