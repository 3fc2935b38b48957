--------------------------- MODULE MCExplorerSync ---------------------------
(***************************************************************************)
(* Instances of ExplorerSync for TLC.  The thresholds are 2 instead of 3   *)
(* and 10: below, at and above the limit are all reached.  Each run lets   *)
(* the outside world do only what its questions need.                      *)
(***************************************************************************)
EXTENDS ExplorerSync

\* Who saves the row, with no process to line up.
RowScenarios == {{"startSync", "stopSync", "rpc", "syncJob", "syncFailure"}}

\* The user against the recovery check, or against an updater.
ManualScenarios == {{"startSync", "stopSync", "rpc", "syncJob"}}

\* What PM2 and the RPC do to a process that should run.
ProcessOperations == {"rpc", "rpcHealthCheck", "processLost", "otherJobs"}

\* Failure reports and a reset of the demo explorer on top of a lost process.
ResetOperations == {"rpc", "syncJob", "processLost", "reset", "otherJobs"}

\* What ends or restores the right to a process, with an RPC that stays up.
EntitlementOperations == {"subscribe", "unsubscribe", "quota", "delete", "settings",
                          "rpcHealthCheck", "otherJobs"}

\* A subscription that ends while its user starts and stops sync.
UnsubscribeOperations == {"startSync", "stopSync", "settings", "unsubscribe", "otherJobs"}

LifeScenarios == {ProcessOperations, ResetOperations, EntitlementOperations,
                  UnsubscribeOperations}
=============================================================================
