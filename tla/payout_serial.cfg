SPECIFICATION Spec
CONSTANTS
  o1 = o1
  o2 = o2
  o3 = o3
  Payouts = {o1, o2, o3}
  Slots = {s1}
  ProviderOf <- ThreeProviders
  Balance = 2
  MaxDeliveries = 2
  Kinds = {"create", "retry"}
  WalletNamesBlocks = FALSE
  Faults = FALSE
INVARIANTS
  OpenIsReserved
  BooksAgree
  RetriedNotPaidTwice
CHECK_DEADLOCK FALSE
