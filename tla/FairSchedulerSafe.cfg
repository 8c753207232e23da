SPECIFICATION Spec
CONSTANTS
  a1 = a1  a2 = a2  b1 = b1  w1 = w1  w2 = w2
  Tenants <- MCTenants
  Jobs <- MCJobs
  Owner <- MCOwner
  Workers = {w1, w2}
  MaxDepth = 2
  MaxBacklog = 1
  MaxFaults = 1
  SlowDispatch = FALSE
  Dispatch = Dispatch  OtherTask = OtherTask  NoJob = NoJob
INVARIANTS TypeOK MutualExclusion SingleCopy
PROPERTY ImplementsTenantQueues
