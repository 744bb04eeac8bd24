SPECIFICATION Spec
CONSTANTS
  o1 = o1
  o2 = o2
  o3 = o3
  Payouts = {o1}
  Slots = {s1}
  ProviderOf <- BankOnly
  Balance = 1
  MaxDeliveries = 1
  Kinds = {"create"}
  WalletNamesBlocks = TRUE
  Faults = FALSE
PROPERTIES
  PaidPayoutMatched
CHECK_DEADLOCK FALSE
