SPECIFICATION Spec
CONSTANTS
  Updaters = {}
  Reporters = {r1}
  Recoverers = {c1}
  SYNC_FAILURE_THRESHOLD = 2
  MAX_RECOVERY_ATTEMPTS = 2
  MaxPendingJobs = 1
  Scenarios <- ManualScenarios
CHECK_DEADLOCK FALSE
INVARIANT DisabledIsRecoverable
