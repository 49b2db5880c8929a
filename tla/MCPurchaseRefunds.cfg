SPECIFICATION FairSpec
CONSTANTS
  a = a  b = b  c = c
  ann = ann  bob = bob
  Calls = {a, b, c}
  Users = {ann, bob}
  Limit = 1
  Scenarios <- MCScenarios
  MaxSessions = 3
  MaxPeriods = 1
  MaxFailures = 1
INVARIANTS TypeOK PlacesAreKept FulfilledOnce
PROPERTIES PaidCompletes ReturnedMoneyEndsEnrollment
CHECK_DEADLOCK FALSE
