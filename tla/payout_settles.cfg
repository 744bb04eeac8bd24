SPECIFICATION FairSpec
CONSTANTS
  o1 = o1
  o2 = o2
  o3 = o3
  Payouts = {o1}
  Slots = {s1, s2}
  ProviderOf <- PayazaOnly
  Balance = 1
  MaxDeliveries = 3
  Kinds = {"create", "poll"}
  WalletNamesBlocks = FALSE
  Faults = FALSE
PROPERTIES
  LinkedReportSettles
CHECK_DEADLOCK FALSE
