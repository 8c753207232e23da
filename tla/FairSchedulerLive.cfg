SPECIFICATION FairSpec
CONSTANTS
  a1 = a1  a2 = a2  b1 = b1  w1 = w1  w2 = w2
  Tenants <- MCTenants
  Jobs <- MCJobs
  Owner <- MCOwner
  Workers = {w1}
  MaxDepth = 3
  MaxBacklog = 2
  MaxFaults = 1
  SlowDispatch = TRUE
  Dispatch = Dispatch  OtherTask = OtherTask  NoJob = NoJob
PROPERTY ServedOnceEarlierTenantsDrain
