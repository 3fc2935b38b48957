SPECIFICATION FairSpec
CONSTANTS
  Updaters = {u1, u2}
  Reporters = {}
  Recoverers = {}
  SYNC_FAILURE_THRESHOLD = 2
  MAX_RECOVERY_ATTEMPTS = 2
  MaxPendingJobs = 1
  Scenarios <- ManualScenarios
CHECK_DEADLOCK FALSE
PROPERTY StoppedExplorerStops
