SPECIFICATION TFairSpec
CONSTANTS
  FQDN = {f1, f2, f3}
  MaxConcurrent <- MCMaxConcurrent
  Errors <- MCErrors
  Timeout = 2
INVARIANTS
  TypeOK
  LookupsBounded
  SendIsSafe
  ExactlyOneResult
  NothingLeftBehind
  AggregateExact
  DurationBounded
PROPERTIES
  Returns
CHECK_DEADLOCK FALSE
