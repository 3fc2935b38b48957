SPECIFICATION FairSpec
CONSTANTS
  Updaters = {}
  Reporters = {r1}
  Recoverers = {c1}
  SYNC_FAILURE_THRESHOLD = 2
  MAX_RECOVERY_ATTEMPTS = 2
  MaxPendingJobs = 1
  Scenarios <- RowScenarios
CHECK_DEADLOCK FALSE
INVARIANTS
  TypeOK
  RecoveryScheduled
PROPERTY RecoversWhenRpcReturns
