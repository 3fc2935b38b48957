SPECIFICATION FairSpec
CONSTANTS
  Updaters = {u1}
  Reporters = {r1}
  Recoverers = {}
  SYNC_FAILURE_THRESHOLD = 2
  MAX_RECOVERY_ATTEMPTS = 2
  MaxPendingJobs = 1
  Scenarios <- LifeScenarios
CHECK_DEADLOCK FALSE
PROPERTIES
  SyncingExplorerRuns
  UnentitledExplorerStops
