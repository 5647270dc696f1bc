\* Two jobs of one tenant and two workers with one slot each.
CONSTANTS
  j1 = j1
  j2 = j2
  w1 = w1
  w2 = w2
  Jobs = {j1, j2}
  Workers = {w1, w2}
  Unreliable = {}
  NoWorker = NoWorker
  NoJob = NoJob
  TenantOf <- OneTenant
  Priority <- Equal
  Concurrency = 1
  MaxAttempts = 1
  PolicyAttempts = 5
  AttemptLimit = 1
  LeaseTicks = 2
  ProgressTotal = 1
  RecoveryBatch = 1
SPECIFICATION Spec
INVARIANT OneLiveJobPerTenant
