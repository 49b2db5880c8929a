SPECIFICATION FairLockSpec
CONSTANTS
  a = a  b = b  c = c  d = d  e = e
  k1 = k1  k2 = k2
  Calls <- MCCalls
  Keys = {k1, k2}
  KeyOf <- MCKeyOf
  None = None
INVARIANTS LockTypeOK NoLeakedKey ExclusiveUntilHandOver
PROPERTY EveryWaiterIsAnswered
CHECK_DEADLOCK FALSE
