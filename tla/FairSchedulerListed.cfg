SPECIFICATION Spec
CONSTANTS
  a1 = a1  a2 = a2  b1 = b1  w1 = w1  w2 = w2
  Tenants <- MCTenants
  Jobs <- MCJobs
  Owner <- MCOwner
  Workers = {w1}
  MaxDepth = 2
  MaxBacklog = 1
  MaxFaults = 0
  SlowDispatch = FALSE
  Dispatch = Dispatch  OtherTask = OtherTask  NoJob = NoJob
INVARIANT PendingTenantsListed
