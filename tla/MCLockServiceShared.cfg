SPECIFICATION LockSpec
CONSTANTS
  a = a  b = b  c = c  d = d  e = e
  k1 = k1  k2 = k2
  Calls <- MCThreeCalls
  Keys = {k1}
  KeyOf <- MCThree
  None = None
INVARIANT Exclusive
CHECK_DEADLOCK FALSE
