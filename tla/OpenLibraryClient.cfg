SPECIFICATION ClientFairSpec
CONSTANTS
  c1 = c1  c2 = c2
  Clients = {c1, c2}
  MaxAttempts = 3
  Interval = 2
  Second = 1
  MaxRetryAfter = 2
INVARIANT ClientTypeOK
PROPERTIES ClientSpacing CallsEnd
