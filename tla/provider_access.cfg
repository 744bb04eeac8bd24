SPECIFICATION Spec
CONSTANTS
  CallSlots = {k1, k2}
  Tsps = {"paytara", "stripe", "kingdom_bank"}
  WithAdapter = {"paytara", "stripe"}
  CandidateLists <- RoutedLists
  MaxParallel = 1
  MaxRequests = 2
  FailureThreshold = 1
  SuccessThreshold = 1
  VolumeThreshold = 1
  ConfigIds = {1, 2}
  ConfiguredTsps = {"paytara"}
  Environments = {"production", "sandbox"}
  Editors = {s1, s2}
  MaxCredentials = 1
  CacheProcesses = {p1, p2}
  CacheTtl = 3
  MemoryTtl = 2
  MaxVersion = 2
  RoutedTsps = {"paytara", "kingdom_bank"}
  RouteKeys = {key1}
  RouteRequests = {r1, r2}
  DecisionTtl = 2
  Resolvers = {c1, c2}
  Emails = {e1}
  MaxRetries = 3
  MaxCustomers = 4
INVARIANTS
  BreakersCountRight
  OpenedOnceByFallback
  AdapterOfItsEnvironment
  NothingReadTooLate
  RoutesAreSound
  AnswersAgree
  InstructionsArrive
  DuplicatesExcused
PROPERTIES
  EveryoneIsAnswered
CHECK_DEADLOCK FALSE
