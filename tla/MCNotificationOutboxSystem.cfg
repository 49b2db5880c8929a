CONSTANTS
  k1 = k1  k2 = k2  p1 = p1  a = a  b = b  w1 = w1  w2 = w2
  t1 = t1  t2 = t2  t3 = t3  t4 = t4
  Keys = {k1}
  Payloads = {p1}
  Kinds = {a,b}
  KindOf <- MCKindOf
  Owners = {w1, w2}
  Tokens = {t1, t2, t3}
  AttemptLimits = {2}
  LeaseDuration = 2
  BaseBackoff = 1
  MaxBackoff = 2
  Grace = 1
  DeliveredRetention = 1
  DeadRetention = 1
  Lag = 1
  Delay = 1
  Overdue = 2
  Horizon = 3
  None = None
  Deployments <- Mixed
  MaxWork = 1
SPECIFICATION Spec
INVARIANTS TypeOK OnlyFailuresAreCharged
PROPERTIES LiveLeaseIsNotTaken ImplementsAtLeastOnce
CHECK_DEADLOCK FALSE
