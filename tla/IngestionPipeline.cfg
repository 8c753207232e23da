SPECIFICATION FairSpec
CONSTANTS
  a = a  b = b  Worker = Worker
  Tenants <- MCTenants
  Jobs = {a, b}
  OwnerOf <- MCOwnerOf
  MaxDepth = 2
  MaxBacklog = 1
  MaxRetries = 1
  MaxFaults = 1
  MaxLosses = 1
  Dispatch = Dispatch  OtherTask = OtherTask  NoJob = NoJob
INVARIANT RequestsAreNew
PROPERTIES ImplementsIngestionJobs EveryJobEnds
