SPECIFICATION Spec
CONSTANTS
  a = a  b = b  c = c  d = d  e = e  f = f  g = g  h = h  i = i  j = j  k = k
  ann = ann  bob = bob  eve = eve
  r1 = r1  r2 = r2
  Calls <- MCCalls
  KindOf <- MCKindOf
  WhoOf <- MCWhoOf
  RoleOf <- MCRoleOf
  FromOf <- MCFromOf
  KeyOf <- MCKeyOf
  Keys <- MCKeys
  Roles = {r1, r2}
  Capacity = 1
  MaxRoles = 1
  Scenarios <- LastPlace
  MayFail = FALSE
  None = None
INVARIANT RoleWithinCapacity
CHECK_DEADLOCK FALSE
