---------------------------- MODULE ExplorerSync ----------------------------
(***************************************************************************)
(* Whether one explorer is being synchronised: its row in the explorers    *)
(* table (models/explorer.js), the ethernal-light process that PM2 runs    *)
(* for it, and everything that reads and then writes either of them:       *)
(*                                                                         *)
(*   - the user, through PUT startSync, PUT stopSync and POST settings;    *)
(*   - the hooks of its Stripe subscription;                               *)
(*   - updateExplorerSyncingProcess jobs, which line PM2 up with the row;  *)
(*   - whoever counts RPC failures (block and receipt jobs, the            *)
(*     syncFailure endpoint);                                              *)
(*   - the syncRecoveryCheck job, which switches sync back on;             *)
(*   - the rpcHealthCheck job.                                             *)
(*                                                                         *)
(* Each of them loads the row, awaits something, and saves.  Sequelize     *)
(* sends an UPDATE of the attributes whose new value differs from the one  *)
(* the instance was LOADED with, not from the one now stored: Save keeps   *)
(* that, and with it the lost updates two overlapping savers can cause.    *)
(*                                                                         *)
(* Abstractions: a date is absent, ahead or past; counters stop at the     *)
(* first value beyond which the code no longer tells them apart; jobs      *)
(* waiting in the queue beyond MaxPendingJobs are merged, for they carry   *)
(* no data and read the row when they start.  The job of the periodic      *)
(* check is apart from them: it is added under one name, and BullMQ adds   *)
(* nothing as long as it knows a job of that name, waiting, active or      *)
(* ended (check).                                                          *)
(***************************************************************************)
EXTENDS Naturals, FiniteSets

CONSTANTS
    Updaters,                \* updateExplorerSyncingProcess jobs running at once
    Reporters,               \* jobs and requests that may report an RPC failure
    Recoverers,              \* syncRecoveryCheck jobs running at once
    SYNC_FAILURE_THRESHOLD,  \* models/explorer.js:35, 3 in production
    MAX_RECOVERY_ATTEMPTS,   \* models/explorer.js:36, 10 in production
    Scenarios,               \* sets of what the outside world does; a behaviour has one
    MaxPendingJobs           \* bound on the waiting updateExplorerSyncingProcess jobs

AllOperations == {"startSync", "stopSync", "settings", "delete",
                  "subscribe", "unsubscribe", "quota", "rpc", "syncJob",
                  "syncFailure", "rpcHealthCheck", "processLost", "reset",
                  "otherJobs"}

ASSUME ConstantsAssumption ==
    /\ Scenarios \subseteq SUBSET AllOperations
    /\ SYNC_FAILURE_THRESHOLD \in Nat \ {0}
    /\ MAX_RECOVERY_ATTEMPTS \in Nat \ {0}
    /\ MaxPendingJobs \in Nat \ {0}
    /\ Updaters \cap Reporters = {}

VARIABLES
    operations,  \* what the outside world does in this behaviour
    exists,      \* the explorer has not been deleted
    row,         \* the sync attributes of its row
    subscribed,  \* it has a row in stripe_subscriptions
    overQuota,   \* hasReachedTransactionQuota would say so
    rpcUp,       \* its RPC endpoint answers
    health,      \* isReachable of rpc_health_checks, "none" before the first check
    probed,      \* answer an rpcHealthCheck job has yet to store, or "none"
    proc,        \* its PM2 process
    pending,     \* waiting updateExplorerSyncingProcess jobs of the row's hooks
    check,       \* the one explorerSyncCheck adds: absent, waiting, active or ended
    job,         \* program counter and loaded row of each updater and reporter
    view,        \* what each updater loaded besides the row
    recovery,    \* program counter and loaded row of each recovery check
    user,        \* the same for the user's request
    hook         \* the same for the subscription's hook

vars == <<operations, exists, row, subscribed, overQuota, rpcUp, health, probed, proc,
          pending, check, job, view, recovery, user, hook>>

env == <<operations, overQuota, rpcUp, health, probed>>

-----------------------------------------------------------------------------
(* The row, and how Sequelize saves a change to it.                        *)

Null == "null"
Reasons == {"rpc_unreachable", "rpc_error", "max_recovery_attempts_reached"}
Checks == {"absent", "waiting", "active", "ended"}

\* "changing" stands for launching, stopping and waiting restart; "errored" is
\* a process PM2 has given up.
Procs == {"none", "online", "changing", "stopped", "errored"}
Health == {"none", "reachable", "unreachable"}

FailureCap == SYNC_FAILURE_THRESHOLD + 1   \* bound on syncFailedAttempts

Row == [shouldSync : BOOLEAN,
        syncFailedAttempts : 0..FailureCap,
        syncDisabledAt : {Null, "past"},
        syncDisabledReason : Reasons \cup {Null},
        recoveryAttempts : 0..MAX_RECOVERY_ATTEMPTS,
        nextRecoveryCheckAt : {Null, "ahead", "past"}]

Fresh == [shouldSync |-> FALSE, syncFailedAttempts |-> 0,
          syncDisabledAt |-> Null, syncDisabledReason |-> Null,
          recoveryAttempts |-> 0, nextRecoveryCheckAt |-> Null]

Dates == {"syncDisabledAt", "nextRecoveryCheckAt"}

\* A new Date never equals the one loaded; any other value is compared.
Dirty(loaded, new) ==
    {f \in DOMAIN new : new[f] # loaded[f] \/ (f \in Dates /\ new[f] # Null)}

Saved(loaded, new) ==
    [f \in DOMAIN row |-> IF f \in Dirty(loaded, new) THEN new[f] ELSE row[f]]

AtMost(n, cap) == IF n > cap THEN cap ELSE n

Enqueue == pending' = AtMost(pending + 1, MaxPendingJobs)

\* instance.update(new) of an instance that was loaded as loaded.  The
\* afterUpdate hook enqueues a job when something was saved.
Save(loaded, new) ==
    /\ row' = IF exists THEN Saved(loaded, new) ELSE row
    /\ IF Dirty(loaded, new) # {} THEN Enqueue ELSE UNCHANGED pending

\* What startSync and enableSyncAfterRecovery write.
EnabledFields ==
    [shouldSync |-> TRUE, syncFailedAttempts |-> 0,
     syncDisabledAt |-> Null, syncDisabledReason |-> Null,
     recoveryAttempts |-> 0, nextRecoveryCheckAt |-> Null]

\* Faulty: stores a reason nobody knows.
AutoDisabledFieldsUnknownReason(reason) ==
    [shouldSync |-> FALSE, syncDisabledAt |-> "past",
     syncDisabledReason |-> "sync_failure", recoveryAttempts |-> 0,
     nextRecoveryCheckAt |-> "ahead"]

AutoDisabledFields(reason) ==
    [shouldSync |-> FALSE, syncDisabledAt |-> "past",
     syncDisabledReason |-> reason, recoveryAttempts |-> 0,
     nextRecoveryCheckAt |-> "ahead"]

\* An actor at pc, with the row as it is now as its loaded instance, of which
\* only the attributes it will look at or save again are kept.
At(pc, attributes) ==
    [pc |-> pc,
     loaded |-> [f \in DOMAIN row |-> IF f \in attributes THEN row[f] ELSE Fresh[f]]]

Idle == [pc |-> "idle", loaded |-> Fresh]

Actor(pcs) == [pc : pcs, loaded : Row]
JobPcs == {"idle", "found", "decide", "reset", "rpc", "increment", "reload", "disable"}
RecoveryPcs == {"idle", "probe", "enable", "schedule"}

View == [exists : BOOLEAN, subscribed : BOOLEAN, overQuota : BOOLEAN,
         health : Health, proc : Procs, reset : BOOLEAN, check : BOOLEAN]
NoView == [exists |-> FALSE, subscribed |-> FALSE, overQuota |-> FALSE,
           health |-> "none", proc |-> "none", reset |-> FALSE, check |-> FALSE]

Init ==
    /\ operations \in Scenarios
    /\ exists = TRUE
    /\ subscribed \in BOOLEAN
    /\ row = IF subscribed THEN EnabledFields ELSE Fresh
    /\ overQuota = FALSE
    /\ rpcUp = TRUE
    /\ health = "none"
    /\ probed = "none"
    /\ proc = "none"
    /\ pending = 0
    /\ check = "absent"
    /\ job = [j \in Updaters \cup Reporters |-> Idle]
    /\ view = [u \in Updaters |-> NoView]
    /\ recovery = [c \in Recoverers |-> Idle]
    /\ user = Idle
    /\ hook = Idle

-----------------------------------------------------------------------------
(* The user: PUT startSync, PUT stopSync, POST settings, DELETE explorer.  *)

StartSyncRequest ==
    /\ "startSync" \in operations
    /\ user.pc = "idle"
    /\ exists /\ subscribed /\ ~overQuota /\ rpcUp
    /\ user' = At("start", {"shouldSync"})
    /\ UNCHANGED <<env, check, exists, row, subscribed, proc, pending, job, view, recovery, hook>>

\* db.startExplorerSync: shouldSync and nothing else.
StartExplorerSync ==
    /\ user.pc = "start"
    /\ Save(user.loaded, [shouldSync |-> TRUE])
    /\ user' = Idle
    /\ UNCHANGED <<env, check, exists, subscribed, proc, job, view, recovery, hook>>

StopSyncRequest ==
    /\ "stopSync" \in operations
    /\ user.pc = "idle"
    /\ exists
    /\ user' = At("stop", {"shouldSync"})
    /\ UNCHANGED <<env, check, exists, row, subscribed, proc, pending, job, view, recovery, hook>>

StopExplorerSync ==
    /\ user.pc = "stop"
    /\ Save(user.loaded, [shouldSync |-> FALSE])
    /\ user' = Idle
    /\ UNCHANGED <<env, check, exists, subscribed, proc, job, view, recovery, hook>>

\* A new RPC address that answered: restart or start the process, then store it.
SettingsRequest ==
    /\ "settings" \in operations
    /\ user.pc = "idle"
    /\ exists
    /\ user' = At("settings", {"shouldSync"})
    /\ UNCHANGED <<env, check, exists, row, subscribed, proc, pending, job, view, recovery, hook>>

UpdateSettings ==
    /\ user.pc = "settings"
    /\ proc' = IF user.loaded.shouldSync THEN "online" ELSE proc
    /\ rpcUp' = TRUE
    /\ user' = Idle
    /\ UNCHANGED <<operations, check, exists, row, subscribed, overQuota, health, probed, pending,
                   job, view, recovery, hook>>

\* Explorer.safeDelete, one transaction; afterDestroy enqueues once it commits.
SafeDelete ==
    /\ "delete" \in operations
    /\ exists
    /\ exists' = FALSE
    /\ subscribed' = FALSE
    /\ Enqueue
    /\ UNCHANGED <<env, check, row, proc, job, view, recovery, user, hook>>

-----------------------------------------------------------------------------
(* The subscription's afterCreate and afterDestroy hooks.                  *)

SubscriptionCreated ==
    /\ "subscribe" \in operations
    /\ hook.pc = "idle"
    /\ exists /\ ~subscribed
    /\ subscribed' = TRUE
    /\ hook' = At("start", DOMAIN row)
    /\ UNCHANGED <<env, check, exists, row, proc, pending, job, view, recovery, user>>

StartSync ==
    /\ hook.pc = "start"
    /\ Save(hook.loaded, EnabledFields)
    /\ hook' = Idle
    /\ UNCHANGED <<env, check, exists, subscribed, proc, job, view, recovery, user>>

SubscriptionDestroyed ==
    /\ "unsubscribe" \in operations
    /\ hook.pc = "idle"
    /\ exists /\ subscribed
    /\ subscribed' = FALSE
    /\ hook' = At("stop", {"shouldSync"})
    /\ UNCHANGED <<env, check, exists, row, proc, pending, job, view, recovery, user>>

StopSync ==
    /\ hook.pc = "stop"
    /\ Save(hook.loaded, [shouldSync |-> FALSE])
    /\ hook' = Idle
    /\ UNCHANGED <<env, check, exists, subscribed, proc, job, view, recovery, user>>

-----------------------------------------------------------------------------
(* jobs/updateExplorerSyncingProcess.js                                    *)

\* A demo explorer taken over by its user is reset (lib/stripe.js:110).
ResetFlags == IF "reset" \in operations THEN BOOLEAN ELSE {FALSE}

LoadExplorer(u, reset, named) ==
    /\ job[u].pc = "idle"
    /\ job' = [job EXCEPT ![u] = At("found", {"shouldSync", "syncFailedAttempts"})]
    /\ view' = [view EXCEPT ![u] =
                   [exists |-> exists, subscribed |-> subscribed,
                    overQuota |-> overQuota, health |-> health,
                    proc |-> "none", reset |-> reset, check |-> named]]
    /\ UNCHANGED <<env, exists, row, subscribed, proc, recovery, user, hook>>

Take(u) ==
    /\ pending > 0
    /\ pending' = pending - 1
    /\ \E reset \in ResetFlags : LoadExplorer(u, reset, FALSE)
    /\ UNCHANGED check

TakeCheck(u) ==
    /\ check = "waiting"
    /\ check' = "active"
    /\ LoadExplorer(u, FALSE, TRUE)
    /\ UNCHANGED pending

FindProcess(u) ==
    /\ job[u].pc = "found"
    /\ view' = [view EXCEPT ![u].proc = proc]
    /\ job' = [job EXCEPT ![u].pc = "decide"]
    /\ UNCHANGED <<env, check, exists, row, subscribed, proc, pending, recovery, user, hook>>

\* The branches of the job, in the order it tries them.
Unreachable(v) == v.health = "unreachable" /\ v.proc # "none"

\* Faulty: leaves the process of an explorer without a subscription alone.
MustDeleteIgnoringSubscription(v, r) ==
    \/ (~v.exists /\ v.proc # "none")
    \/ v.exists /\ ~Unreachable(v) /\ ((~r.shouldSync /\ v.proc # "none") \/ v.overQuota)

\* Faulty: leaves the process of an explorer over its quota alone.
MustDeleteIgnoringQuota(v, r) ==
    \/ (~v.exists /\ v.proc # "none")
    \/ (v.exists /\ ~v.subscribed)
    \/ (v.exists /\ v.subscribed /\ ~Unreachable(v) /\ ~r.shouldSync /\ v.proc # "none")

MustDelete(v, r) ==
    \/ (~v.exists /\ v.proc # "none")
    \/ (v.exists /\ ~v.subscribed)
    \/ v.exists /\ v.subscribed /\ ~Unreachable(v)
         /\ ((~r.shouldSync /\ v.proc # "none") \/ v.overQuota)

\* Faulty: does not resume a stopped process.
MustStartMissingOnly(v, r) ==
    /\ v.exists /\ v.subscribed /\ ~Unreachable(v)
    /\ ~v.overQuota /\ r.shouldSync
    /\ v.proc = "none"

MustStart(v, r) ==
    /\ v.exists /\ v.subscribed /\ ~Unreachable(v)
    /\ ~v.overQuota /\ r.shouldSync
    /\ v.proc \in {"none", "stopped"}

Leave(u) == /\ job' = [job EXCEPT ![u] = Idle]
            /\ view' = [view EXCEPT ![u] = NoView]

\* An ended job keeps its name until BullMQ removes it.
Ended(u) == check' = IF view[u].check THEN "ended" ELSE check

Finish(u) == Leave(u) /\ Ended(u)

\* A job that throws is attempted again, under the name it has, or has used up
\* its attempts.
Throw(u) ==
    /\ Leave(u)
    /\ \/ IF view[u].check
            THEN check' = "waiting" /\ UNCHANGED pending
            ELSE Enqueue /\ UNCHANGED check
       \/ Ended(u) /\ UNCHANGED pending

\* Deletes and starts; there is nothing to reset of a deleted explorer, and the
\* job throws.
ResetProcess(u) ==
    /\ job[u].pc = "decide" /\ view[u].reset
    /\ IF view[u].exists
         THEN proc' = "online" /\ Finish(u) /\ UNCHANGED pending
         ELSE Throw(u) /\ UNCHANGED proc
    /\ UNCHANGED <<env, exists, row, subscribed, recovery, user, hook>>

DeleteProcess(u) ==
    /\ job[u].pc = "decide" /\ ~view[u].reset
    /\ MustDelete(view[u], job[u].loaded)
    /\ proc' = "none"
    /\ Finish(u)
    /\ UNCHANGED <<env, exists, row, subscribed, pending, recovery, user, hook>>

DeleteUnreachable(u) ==
    /\ job[u].pc = "decide" /\ ~view[u].reset
    /\ view[u].exists /\ view[u].subscribed /\ Unreachable(view[u])
    /\ proc' = "none"
    /\ job' = [job EXCEPT ![u] = At("increment", {})]
    /\ UNCHANGED <<env, check, exists, row, subscribed, pending, view, recovery, user, hook>>

\* pm2.start resumes or creates; pm2.resume only resumes.
StartProcess(u) ==
    /\ job[u].pc = "decide" /\ ~view[u].reset
    /\ MustStart(view[u], job[u].loaded)
    /\ view[u].proc = "none" \/ proc # "none"
    /\ proc' = "online"
    /\ IF job[u].loaded.syncFailedAttempts > 0
         THEN job' = [job EXCEPT ![u].pc = "reset"] /\ UNCHANGED <<view, check>>
         ELSE Finish(u)
    /\ UNCHANGED <<env, exists, row, subscribed, pending, recovery, user, hook>>

\* The PM2 server refuses to resume a process that has gone meanwhile: the job
\* throws.
ResumeFails(u) ==
    /\ job[u].pc = "decide" /\ ~view[u].reset
    /\ MustStart(view[u], job[u].loaded)
    /\ view[u].proc # "none" /\ proc = "none"
    /\ Throw(u)
    /\ UNCHANGED <<env, exists, row, subscribed, proc, recovery, user, hook>>

ResetFailures(u) ==
    /\ job[u].pc = "reset"
    /\ Save(job[u].loaded, [syncFailedAttempts |-> 0])
    /\ Finish(u)
    /\ UNCHANGED <<env, exists, subscribed, proc, recovery, user, hook>>

NoProcessChange(u) ==
    /\ job[u].pc = "decide" /\ ~view[u].reset
    /\ ~MustDelete(view[u], job[u].loaded) /\ ~MustStart(view[u], job[u].loaded)
    /\ ~(view[u].exists /\ view[u].subscribed /\ Unreachable(view[u]))
    /\ Finish(u)
    /\ UNCHANGED <<env, exists, row, subscribed, proc, pending, recovery, user, hook>>

\* PM2 or the database fails, or the worker dies.
JobThrows(u) ==
    /\ job[u].pc # "idle"
    /\ Throw(u)
    /\ UNCHANGED <<env, exists, row, subscribed, proc, recovery, user, hook>>

-----------------------------------------------------------------------------
(* RPC failures: lib/syncHelpers.js, the syncFailure endpoint and          *)
(* Explorer.incrementSyncFailures, three database calls in a row.          *)

\* A block or receipt job loads the explorer and goes on if it should sync and
\* is not known to be unreachable.
SyncJobStarts(r) ==
    /\ "syncJob" \in operations
    /\ job[r].pc = "idle"
    /\ exists /\ subscribed /\ row.shouldSync /\ health # "unreachable"
    /\ job' = [job EXCEPT ![r] = At("rpc", {})]
    /\ UNCHANGED <<env, check, exists, row, subscribed, proc, pending, view, recovery, user, hook>>

SyncJobSucceeds(r) ==
    /\ job[r].pc = "rpc"
    /\ rpcUp
    /\ job' = [job EXCEPT ![r] = Idle]
    /\ UNCHANGED <<env, check, exists, row, subscribed, proc, pending, view, recovery, user, hook>>

ReportRpcFailure(r) ==
    /\ job[r].pc = "rpc"
    /\ ~rpcUp
    /\ job' = [job EXCEPT ![r].pc = "increment"]
    /\ UNCHANGED <<env, check, exists, row, subscribed, proc, pending, view, recovery, user, hook>>

\* POST /:slug/syncFailure looks neither at shouldSync nor at the subscription.
SyncFailureReported(r) ==
    /\ "syncFailure" \in operations
    /\ job[r].pc = "idle"
    /\ exists /\ ~rpcUp
    /\ job' = [job EXCEPT ![r] = At("increment", {})]
    /\ UNCHANGED <<env, check, exists, row, subscribed, proc, pending, view, recovery, user, hook>>

JobDone(j) ==
    IF j \in Updaters
      THEN Finish(j)
      ELSE job' = [job EXCEPT ![j] = Idle] /\ UNCHANGED <<view, check>>

Increment(j) ==
    /\ job[j].pc = "increment"
    /\ row' = IF exists
                THEN [row EXCEPT !.syncFailedAttempts = AtMost(@ + 1, FailureCap)]
                ELSE row
    /\ job' = [job EXCEPT ![j].pc = "reload"]
    /\ UNCHANGED <<env, check, exists, subscribed, proc, pending, view, recovery, user, hook>>

\* reload() of a deleted explorer throws: JobThrows for an updater, swallowed
\* by reportRpcFailure for a reporter.
Reload(j) ==
    /\ job[j].pc = "reload"
    /\ exists \/ j \in Reporters
    /\ IF exists /\ row.syncFailedAttempts >= SYNC_FAILURE_THRESHOLD
         THEN job' = [job EXCEPT ![j] = At("disable", {"shouldSync", "syncDisabledReason", "recoveryAttempts"})]
              /\ UNCHANGED <<view, check>>
         ELSE JobDone(j)
    /\ UNCHANGED <<env, exists, row, subscribed, proc, pending, recovery, user, hook>>

AutoDisableSync(j) ==
    /\ job[j].pc = "disable"
    /\ Save(job[j].loaded,
            AutoDisabledFields(IF j \in Updaters THEN "rpc_unreachable" ELSE "rpc_error"))
    /\ JobDone(j)
    /\ UNCHANGED <<env, exists, subscribed, proc, recovery, user, hook>>

-----------------------------------------------------------------------------
(* jobs/syncRecoveryCheck.js                                               *)

\* Faulty: leaves out the explorers past their last attempt.
RecoveryLoadsUntilMax(c) ==
    /\ recovery[c].pc = "idle"
    /\ exists
    /\ row.syncDisabledReason \notin {Null, "max_recovery_attempts_reached"}
    /\ row.nextRecoveryCheckAt = "past"
    /\ recovery' = [recovery EXCEPT ![c] = At("probe", DOMAIN row)]
    /\ UNCHANGED <<env, check, exists, row, subscribed, proc, pending, job, view, user, hook>>

RecoveryLoads(c) ==
    /\ recovery[c].pc = "idle"
    /\ exists
    /\ row.syncDisabledReason # Null /\ row.nextRecoveryCheckAt = "past"
    /\ recovery' = [recovery EXCEPT ![c] = At("probe", DOMAIN row)]
    /\ UNCHANGED <<env, check, exists, row, subscribed, proc, pending, job, view, user, hook>>

RecoveryProbes(c) ==
    /\ recovery[c].pc = "probe"
    /\ recovery' = [recovery EXCEPT ![c].pc = IF rpcUp THEN "enable" ELSE "schedule"]
    /\ UNCHANGED <<env, check, exists, row, subscribed, proc, pending, job, view, user, hook>>

EnableSyncAfterRecovery(c) ==
    /\ recovery[c].pc = "enable"
    /\ Save(recovery[c].loaded, EnabledFields)
    /\ recovery' = [recovery EXCEPT ![c] = Idle]
    /\ UNCHANGED <<env, check, exists, subscribed, proc, job, view, user, hook>>

\* Faulty: no further check once the attempts are used up, as before migration
\* 20260427000001.
NextCheckFieldsGivingUp(loaded) ==
    LET attempts == AtMost(loaded.recoveryAttempts + 1, MAX_RECOVERY_ATTEMPTS)
        reached == attempts = MAX_RECOVERY_ATTEMPTS
    IN [recoveryAttempts |-> attempts,
        nextRecoveryCheckAt |-> IF reached THEN Null ELSE "ahead",
        syncDisabledReason |-> IF reached THEN "max_recovery_attempts_reached"
                               ELSE loaded.syncDisabledReason]

NextCheckFields(loaded) ==
    LET attempts == AtMost(loaded.recoveryAttempts + 1, MAX_RECOVERY_ATTEMPTS)
    IN [recoveryAttempts |-> attempts,
        nextRecoveryCheckAt |-> "ahead",
        syncDisabledReason |-> IF attempts = MAX_RECOVERY_ATTEMPTS
                               THEN "max_recovery_attempts_reached"
                               ELSE loaded.syncDisabledReason]

ScheduleNextRecoveryCheck(c) ==
    /\ recovery[c].pc = "schedule"
    /\ IF recovery[c].loaded.syncDisabledAt = Null
         THEN UNCHANGED <<row, pending>>
         ELSE Save(recovery[c].loaded, NextCheckFields(recovery[c].loaded))
    /\ recovery' = [recovery EXCEPT ![c] = Idle]
    /\ UNCHANGED <<env, check, exists, subscribed, proc, job, view, user, hook>>

-----------------------------------------------------------------------------
(* The other jobs, and the world.                                          *)

\* jobs/explorerSyncCheck.js, every five minutes: nothing is added while BullMQ
\* knows a job of the name.
ExplorerSyncCheck ==
    /\ exists /\ row.shouldSync
    /\ check = "absent"
    /\ check' = "waiting"
    /\ UNCHANGED <<env, exists, row, subscribed, proc, pending, job, view, recovery, user,
                   hook>>

\* Another job of the queue ends, and BullMQ removes those that ended minutes ago.
CheckForgotten ==
    /\ check = "ended"
    /\ check' = "absent"
    /\ UNCHANGED <<env, exists, row, subscribed, proc, pending, job, view, recovery, user,
                   hook>>

\* jobs/rpcHealthCheck.js asks the RPC, then stores what it answered.
RpcHealthProbe ==
    /\ "rpcHealthCheck" \in operations
    /\ exists /\ subscribed /\ probed = "none"
    /\ probed' = IF rpcUp THEN "reachable" ELSE "unreachable"
    /\ UNCHANGED <<operations, check, exists, row, subscribed, overQuota, rpcUp, health, proc,
                   pending, job, view, recovery, user, hook>>

RpcHealthStore ==
    /\ probed # "none"
    /\ health' = probed
    /\ probed' = "none"
    /\ UNCHANGED <<operations, check, exists, row, subscribed, overQuota, rpcUp, proc,
                   pending, job, view, recovery, user, hook>>

RecoveryFallsDue ==
    /\ row.nextRecoveryCheckAt = "ahead"
    /\ row' = [row EXCEPT !.nextRecoveryCheckAt = "past"]
    /\ UNCHANGED <<env, check, exists, subscribed, proc, pending, job, view, recovery, user, hook>>

RpcChanges ==
    /\ "rpc" \in operations
    /\ rpcUp' = ~rpcUp
    /\ UNCHANGED <<operations, check, exists, row, subscribed, overQuota, health, probed, proc,
                   pending, job, view, recovery, user, hook>>

QuotaChanges ==
    /\ "quota" \in operations
    /\ overQuota' = ~overQuota
    /\ UNCHANGED <<operations, check, exists, row, subscribed, rpcUp, health, probed, proc,
                   pending, job, view, recovery, user, hook>>

\* The process stops, is being restarted or given up by PM2, or a deploy of PM2
\* loses it.
ProcessLost ==
    /\ "processLost" \in operations
    /\ proc # "none"
    /\ proc' \in IF proc = "online" THEN Procs \ {"online"} ELSE {"none"}
    /\ UNCHANGED <<env, check, exists, row, subscribed, pending, job, view, recovery, user, hook>>

\* What PM2 has begun it finishes.
ProcessSettles ==
    /\ proc = "changing"
    /\ proc' \in {"online", "stopped", "errored"}
    /\ UNCHANGED <<env, check, exists, row, subscribed, pending, job, view, recovery, user, hook>>

\* A worker dies in the middle of a block or receipt job, or of a recovery check.
SyncJobDies(r) ==
    /\ job[r].pc # "idle"
    /\ job' = [job EXCEPT ![r] = Idle]
    /\ UNCHANGED <<env, check, exists, row, subscribed, proc, pending, view, recovery, user, hook>>

RecoveryDies(c) ==
    /\ recovery[c].pc # "idle"
    /\ recovery' = [recovery EXCEPT ![c] = Idle]
    /\ UNCHANGED <<env, check, exists, row, subscribed, proc, pending, job, view, user, hook>>

-----------------------------------------------------------------------------

Decide(u) == \/ ResetProcess(u) \/ DeleteProcess(u) \/ DeleteUnreachable(u)
             \/ StartProcess(u) \/ ResumeFails(u) \/ NoProcessChange(u)

Count(j) == Increment(j) \/ Reload(j) \/ AutoDisableSync(j)

UserStep == \/ StartSyncRequest \/ StartExplorerSync
            \/ StopSyncRequest \/ StopExplorerSync
            \/ SettingsRequest \/ UpdateSettings \/ SafeDelete

HookStep == \/ SubscriptionCreated \/ StartSync
            \/ SubscriptionDestroyed \/ StopSync

UpdaterStep(u) == \/ Take(u) \/ TakeCheck(u) \/ FindProcess(u) \/ Decide(u)
                  \/ ResetFailures(u) \/ Count(u) \/ JobThrows(u)

ReporterStep(r) == \/ SyncJobStarts(r) \/ SyncJobSucceeds(r) \/ ReportRpcFailure(r)
                   \/ SyncFailureReported(r) \/ Count(r) \/ SyncJobDies(r)

RecoveryStep(c) == \/ RecoveryLoads(c) \/ RecoveryProbes(c)
                   \/ EnableSyncAfterRecovery(c) \/ ScheduleNextRecoveryCheck(c)
                   \/ RecoveryDies(c)

WorldStep == \/ ExplorerSyncCheck \/ CheckForgotten \/ RpcHealthProbe \/ RpcHealthStore
             \/ RecoveryFallsDue \/ RpcChanges \/ QuotaChanges
             \/ ProcessLost \/ ProcessSettles

Next == \/ UserStep \/ HookStep \/ WorldStep
        \/ \E u \in Updaters : UpdaterStep(u)
        \/ \E r \in Reporters : ReporterStep(r)
        \/ \E c \in Recoverers : RecoveryStep(c)

Spec == Init /\ [][Next]_vars

\* The schedulers repeat for ever (scheduler.js), a request and a hook run to
\* their end, and a job that is attempted again and again gets through.  PM2
\* finishes what it has begun.  BullMQ forgets an ended job only when a later job
\* of the queue ends, so that is fair only where other explorers keep the queue
\* busy.  Nobody promises a user's request, an RPC or PM2 incident, or a job to
\* report one.
Fairness ==
    /\ WF_vars(ExplorerSyncCheck) /\ WF_vars(RpcHealthProbe) /\ WF_vars(RpcHealthStore)
    /\ WF_vars("otherJobs" \in operations /\ CheckForgotten)
    /\ WF_vars(RecoveryFallsDue) /\ WF_vars(ProcessSettles)
    /\ WF_vars(StartExplorerSync) /\ WF_vars(StopExplorerSync) /\ WF_vars(UpdateSettings)
    /\ WF_vars(StartSync) /\ WF_vars(StopSync)
    /\ \A u \in Updaters :
         /\ WF_vars(Take(u)) /\ SF_vars(TakeCheck(u)) /\ SF_vars(FindProcess(u)) /\ SF_vars(Decide(u))
         /\ SF_vars(ResetFailures(u)) /\ SF_vars(Count(u))
    /\ \A r \in Reporters : WF_vars(SyncJobSucceeds(r) \/ ReportRpcFailure(r) \/ Count(r))
    /\ \A c \in Recoverers :
         /\ WF_vars(RecoveryLoads(c)) /\ SF_vars(RecoveryProbes(c))
         /\ SF_vars(EnableSyncAfterRecovery(c)) /\ SF_vars(ScheduleNextRecoveryCheck(c))

FairSpec == Spec /\ Fairness

-----------------------------------------------------------------------------
(* Properties.                                                             *)

\* Every variable keeps the shape the code gives it; in particular no saver
\* ever stores a reason or a date outside those the recovery check knows.
TypeOK ==
    /\ operations \in Scenarios
    /\ exists \in BOOLEAN
    /\ row \in Row
    /\ subscribed \in BOOLEAN
    /\ overQuota \in BOOLEAN
    /\ rpcUp \in BOOLEAN
    /\ health \in Health
    /\ probed \in Health
    /\ proc \in Procs
    /\ pending \in 0..MaxPendingJobs
    /\ check \in Checks
    /\ job \in [Updaters \cup Reporters -> Actor(JobPcs)]
    /\ view \in [Updaters -> View]
    /\ recovery \in [Recoverers -> Actor(RecoveryPcs)]
    /\ user \in Actor({"idle", "start", "stop", "settings"})
    /\ hook \in Actor({"idle", "start", "stop"})

\* An auto-disabled explorer always has a date for its next recovery check:
\* jobs/syncRecoveryCheck.js:25-27 relies on it, for the query skips a row
\* whose date is NULL and the explorer would stay off for ever, as the rows
\* migration 20260427000001 repairs once did.
RecoveryScheduled ==
    row.syncDisabledReason # Null => row.nextRecoveryCheckAt # Null

\* However many checks have failed, and whatever else saves the row meanwhile,
\* once the RPC stays up a recovery check clears the reason and sync resumes
\* (models/explorer.js:383-389, "never stops retrying").
RecoversWhenRpcReturns ==
    <>[](rpcUp /\ exists)
        => [](row.syncDisabledReason # Null => <>(row.syncDisabledReason = Null))

\* An explorer that is to be synchronised, and can be, has a running process
\* again and again, whatever PM2 loses and whichever jobs fail, unless PM2 has
\* given the process up: jobs/explorerSyncCheck.js brings back what is missing or
\* stopped, as long as other explorers' jobs make BullMQ forget its last job.
SyncingExplorerRuns ==
    /\ "otherJobs" \in operations
    /\ <>[](exists /\ subscribed /\ ~overQuota /\ row.shouldSync /\ rpcUp)
    => []<>(proc \in {"online", "errored"})

\* Under the same condition an explorer that is on but has no subscription, or has
\* used up its quota, keeps losing its process, even if a settings change, or a job
\* that had loaded it before, has started it anew.
UnentitledExplorerStops ==
    /\ "otherJobs" \in operations
    /\ <>[](exists /\ row.shouldSync /\ (~subscribed \/ overQuota))
    => []<>(proc = "none")

\* An explorer the code has switched off is one the recovery check looks at
\* ("keeps retrying forever so it can self-recover", models/explorer.js:385-387).
DisabledIsRecoverable ==
    row.syncDisabledAt # Null /\ ~row.shouldSync => row.syncDisabledReason # Null

\* Once sync stays off the process does not stay online: the stopSync endpoint
\* relies on the afterUpdate hook for it (api/explorers.js:759).
StoppedExplorerStops ==
    <>[](exists /\ subscribed /\ ~overQuota /\ ~row.shouldSync)
        => []<>(proc # "online")

=============================================================================
