CONSTANTS
  k1 = k1  k2 = k2  p1 = p1  p2 = p2  a = a  b = b  w1 = w1  x1 = x1
  t1 = t1  t2 = t2  t3 = t3
  Keys = {k1, k2}
  Payloads = {p1, p2}
  Producers = {x1}
  Kinds = {a, b}
  KindOf <- MCKindOf
  Owners = {w1}
  Tokens = {t1, t2}
  AttemptLimits = {2}
  LeaseDuration = 1
  BaseBackoff = 1
  MaxBackoff = 1
  Grace = 2
  DeliveredRetention = 1
  DeadRetention = 1
  Lag = 1
  Delay = 0
  Overdue = 1
  Horizon = 4
  None = None
SPECIFICATION Spec
SYMMETRY Symmetry
INVARIANTS TypeOK StateRules AttemptsWithinLimit LeaseHasItsClaim OnePayloadPerKey GraceHonoured
PROPERTIES TerminalIsFinal RenewalNeverShortens
CHECK_DEADLOCK FALSE
