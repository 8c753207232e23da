SPECIFICATION FairSpec
CONSTANTS
  j1 = j1  j2 = j2
  Jobs = {j1, j2}
  MaxRetries = 2
  MaxFaults = 2
  MaxLosses = 1
  MaxRefreshes = 1
INVARIANTS TypeOK SubmittedRowExists IngestedOncePerDelivery QueuedIsPending
PROPERTY JobsSettle
CHECK_DEADLOCK FALSE
