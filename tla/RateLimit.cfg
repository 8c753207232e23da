SPECIFICATION Spec
CONSTANTS
  a = a  b = b  a1 = a1  a2 = a2  a3 = a3  a4 = a4  b1 = b1
  Requests = {a1, a2, a3, a4, b1}
  TenantOf <- MCTenantOf
  Limit = 2
  Minute = 2
  MaxNow = 5
  MaxFaults = 1
INVARIANTS TypeOK LimitPerMinute HeadersHold RefusedOnlyWhenUsedUp
SYMMETRY MCSymmetry
CHECK_DEADLOCK FALSE
