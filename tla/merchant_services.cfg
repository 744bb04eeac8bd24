SPECIFICATION Spec
CONSTANTS
  Screeners = {a1, a2}
  Customers = {c1}
  Payments <- FlaggedPayments
  HighRisk = 75
  Settlements = {1, 2}
  SettleTsps = {"paytara", "kingdom_bank", "sulifu_pay", "stripe"}
  Chains <- RoutedChains
  ReportWords = {"INITIATED", "TIMEOUT", "SUCCESS", "SETTLED", "FAILED"}
  MaxFunds = 1
  Merchants = {"m1", "m2"}
  MaxRows = 3
  Limit = 1
  ParsedId <- IdsAsRead
  BatchIds = {"b1"}
  Confirmers = {f1, f2}
  FileRows <- RowsOfFiles
  MaxFileRows = 3
  MaxConfirms = 3
  Sweeps = {s1, s2}
  ConfigRows <- TwoEnvironments
  HealthRates = {0, 100}
  Tasks = {t1, t2}
  MaxReconnectAttempts = 1
  Pages = {p1}
  Handlers = {h1, h2}
  PageReports <- ReportsOfProviders
  PageWrites = {"processing", "canceled"}
  MaxWrites = 4
INVARIANTS
  DeclinedForGood
  SettlementsAreSound
  FiguresHold
  BatchesAreCovered
  MetricsAreSingle
  AudiencesHear
PROPERTIES
  PagesFollow
CHECK_DEADLOCK FALSE
