\* One job, an unreliable worker and a reliable one; two attempts, one of them
\* perhaps by a manual retry; leases long enough to be renewed.  Handlers need
\* not end.
CONSTANTS
  j1 = j1
  j2 = j2
  w1 = w1
  w2 = w2
  Jobs = {j1}
  Workers = {w1, w2}
  Unreliable = {w1}
  NoWorker = NoWorker
  NoJob = NoJob
  TenantOf <- OneTenant
  Priority <- Equal
  Concurrency = 1
  MaxAttempts = 2
  PolicyAttempts = 5
  AttemptLimit = 2
  LeaseTicks = 2
  ProgressTotal = 1
  RecoveryBatch = 1
SPECIFICATION FairSpec
INVARIANTS
  TypeOK
  LeaseLedger
  QueuedAfresh
  ClaimSeesCurrentRow
PROPERTIES
  Fencing
  ImplementsContract
  CancellationResolves
  JobsSettle
