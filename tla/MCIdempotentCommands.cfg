CONSTANTS
  a = a  b = b  c = c  p1 = p1  p2 = p2
  Calls = {a, b, c}
  Requests = {p1, p2}
  RequestOf <- MCRequestOf
  MaxAttempts = 2
  MaxCommitAttempts = 2
  Ttl = 1
  Horizon = 2
SPECIFICATION Spec
SYMMETRY Copies
INVARIANTS TypeOK OncePerLifetime AnswersAreDurable EffectsHaveReceipts NeverBlocked
CHECK_DEADLOCK FALSE
