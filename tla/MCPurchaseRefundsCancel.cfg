SPECIFICATION Spec
CONSTANTS
  a = a  b = b  c = c
  ann = ann  bob = bob
  Calls = {a, b, c}
  Users = {ann, bob}
  Limit = 1
  Scenarios <- Cancelling
  MaxSessions = 2
  MaxPeriods = 0
  MaxFailures = 0
PROPERTIES CancelsOnlyPending
CHECK_DEADLOCK FALSE
