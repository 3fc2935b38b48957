------------------------- MODULE ExplorerSyncProofs -------------------------
(***************************************************************************)
(* Proofs about ExplorerSync for any number of updaters, reporters and     *)
(* recovery checks and any thresholds: every variable keeps its type, and  *)
(* an auto-disabled explorer always has a date for its next check.         *)
(***************************************************************************)
EXTENDS ExplorerSync, TLAPS

\* The default values of a new row are values of its columns.
LEMMA FreshType == Fresh \in Row
<1>1. 0 \in 0..FailureCap /\ 0 \in 0..MAX_RECOVERY_ATTEMPTS
  BY ConstantsAssumption DEF FailureCap
<1> QED BY <1>1 DEF Fresh, Row

\* So is what startSync and enableSyncAfterRecovery write.
LEMMA EnabledType == EnabledFields \in Row
<1>1. 0 \in 0..FailureCap /\ 0 \in 0..MAX_RECOVERY_ATTEMPTS
  BY ConstantsAssumption DEF FailureCap
<1> QED BY <1>1 DEF EnabledFields, Row

\* Saving shouldSync alone, as the endpoints and stopSync do, keeps the row a row.
LEMMA SavedShouldSync ==
  ASSUME row \in Row, NEW loaded \in Row, NEW b \in BOOLEAN
  PROVE  Saved(loaded, [shouldSync |-> b]) \in Row
BY DEF Saved, Row, Dirty

\* So does the save of startSync and enableSyncAfterRecovery.
LEMMA SavedEnabled ==
  ASSUME row \in Row, NEW loaded \in Row
  PROVE  Saved(loaded, EnabledFields) \in Row
BY EnabledType DEF Saved, Row

\* So does resetting the failure counter.
LEMMA SavedReset ==
  ASSUME row \in Row, NEW loaded \in Row
  PROVE  Saved(loaded, [syncFailedAttempts |-> 0]) \in Row
<1>1. 0 \in 0..FailureCap /\ 0 \in 0..MAX_RECOVERY_ATTEMPTS
  BY ConstantsAssumption DEF FailureCap
<1> QED BY <1>1 DEF Saved, Row, Dirty

\* So does autoDisableSync, for a reason the code knows.
LEMMA SavedAutoDisabled ==
  ASSUME row \in Row, NEW loaded \in Row, NEW reason \in Reasons
  PROVE  Saved(loaded, AutoDisabledFields(reason)) \in Row
<1>1. 0 \in 0..FailureCap /\ 0 \in 0..MAX_RECOVERY_ATTEMPTS
  BY ConstantsAssumption DEF FailureCap
<1> QED BY <1>1 DEF Saved, Row, Dirty, AutoDisabledFields

\* So does scheduleNextRecoveryCheck, whose counter stays within its bound.
LEMMA SavedNextCheck ==
  ASSUME row \in Row, NEW loaded \in Row
  PROVE  Saved(loaded, NextCheckFields(loaded)) \in Row
<1> DEFINE attempts == AtMost(loaded.recoveryAttempts + 1, MAX_RECOVERY_ATTEMPTS)
<1>1. attempts \in 0..MAX_RECOVERY_ATTEMPTS
  BY ConstantsAssumption DEF AtMost, Row
<1> HIDE DEF attempts
<1>2. NextCheckFields(loaded) =
      [recoveryAttempts |-> attempts,
        nextRecoveryCheckAt |-> "ahead",
        syncDisabledReason |-> IF attempts = MAX_RECOVERY_ATTEMPTS
                               THEN "max_recovery_attempts_reached"
                               ELSE loaded.syncDisabledReason]
  BY DEF NextCheckFields, attempts
<1> QED BY <1>1, <1>2 DEF Saved, Row, Dirty, Reasons

\* An actor that loads the row at a program counter of its own.
LEMMA AtType ==
  ASSUME row \in Row, NEW attributes, NEW pcs, NEW pc \in pcs
  PROVE  At(pc, attributes) \in Actor(pcs)
<1>1. [f \in DOMAIN row |-> IF f \in attributes THEN row[f] ELSE Fresh[f]] \in Row
  BY FreshType DEF Row
<1> QED BY <1>1 DEF At, Actor

\* An actor that has nothing loaded.
LEMMA IdleType ==
  ASSUME NEW pcs, "idle" \in pcs
  PROVE  Idle \in Actor(pcs)
BY FreshType DEF Idle, Actor

\* What an idle updater has loaded besides the row.
LEMMA NoViewType == NoView \in View
BY DEF NoView, View, Health, Procs

\* Enqueueing stays within the bound on waiting jobs.
LEMMA EnqueueType ==
  ASSUME pending \in 0..MaxPendingJobs, Enqueue
  PROVE  pending' \in 0..MaxPendingJobs
BY ConstantsAssumption DEF Enqueue, AtMost

\* A save of well-typed attributes keeps row and queue well-typed.
LEMMA SaveType ==
  ASSUME TypeOK, NEW loaded, NEW new, Saved(loaded, new) \in Row, Save(loaded, new)
  PROVE  row' \in Row /\ pending' \in 0..MaxPendingJobs
<1>1. row' \in Row
  BY DEF Save, TypeOK
<1>2. pending' \in 0..MaxPendingJobs
  BY EnqueueType DEF Save, TypeOK
<1> QED BY <1>1, <1>2

\* An updater that leaves the explorer alone, and the name of an ended job.
LEMMA LeaveType ==
  ASSUME TypeOK, NEW u \in Updaters, Leave(u)
  PROVE  /\ job' \in [Updaters \cup Reporters -> Actor(JobPcs)]
         /\ view' \in [Updaters -> View]
BY IdleType, NoViewType DEF Leave, TypeOK, JobPcs

LEMMA EndedType ==
  ASSUME TypeOK, NEW u \in Updaters, Ended(u)
  PROVE  check' \in Checks
BY DEF Ended, TypeOK, Checks

\* An updater that ends.
LEMMA FinishType ==
  ASSUME TypeOK, NEW u \in Updaters, Finish(u)
  PROVE  /\ job' \in [Updaters \cup Reporters -> Actor(JobPcs)]
         /\ view' \in [Updaters -> View]
         /\ check' \in Checks
BY LeaveType, EndedType DEF Finish

\* An updater that throws.
LEMMA ThrowType ==
  ASSUME TypeOK, NEW u \in Updaters, Throw(u)
  PROVE  /\ job' \in [Updaters \cup Reporters -> Actor(JobPcs)]
         /\ view' \in [Updaters -> View]
         /\ check' \in Checks
         /\ pending' \in 0..MaxPendingJobs
<1>1. CASE Ended(u) /\ UNCHANGED pending
  BY <1>1, LeaveType, EndedType DEF Throw, TypeOK
<1>2. CASE check' = "waiting" /\ UNCHANGED pending
  BY <1>2, LeaveType DEF Throw, TypeOK, Checks
<1>3. CASE Enqueue /\ UNCHANGED check
  BY <1>3, LeaveType, EnqueueType DEF Throw, TypeOK
<1> QED BY <1>1, <1>2, <1>3 DEF Throw

\* A counting job that ends.
LEMMA JobDoneType ==
  ASSUME TypeOK, NEW j \in Updaters \cup Reporters, JobDone(j)
  PROVE  /\ job' \in [Updaters \cup Reporters -> Actor(JobPcs)]
         /\ view' \in [Updaters -> View]
         /\ check' \in Checks
<1>1. CASE j \in Updaters
  BY <1>1, FinishType DEF JobDone
<1>2. CASE j \notin Updaters
  BY <1>2, IdleType DEF JobDone, TypeOK, JobPcs
<1> QED BY <1>1, <1>2

\* A job moved to another program counter with the row it had loaded.
LEMMA JobPcType ==
  ASSUME TypeOK, NEW j \in Updaters \cup Reporters, NEW pc \in JobPcs
  PROVE  [job EXCEPT ![j].pc = pc] \in [Updaters \cup Reporters -> Actor(JobPcs)]
BY DEF TypeOK, Actor

\* A job that loads the row again.
LEMMA JobAtType ==
  ASSUME TypeOK, NEW j \in Updaters \cup Reporters, NEW pc \in JobPcs, NEW attributes
  PROVE  [job EXCEPT ![j] = At(pc, attributes)] \in [Updaters \cup Reporters -> Actor(JobPcs)]
<1>1. At(pc, attributes) \in Actor(JobPcs)
  BY AtType DEF TypeOK
<1> QED BY <1>1 DEF TypeOK

\* Type correctness holds at the start ...
LEMMA InitTypeOK == Init => TypeOK
<1> SUFFICES ASSUME Init PROVE TypeOK
  OBVIOUS
<1>1. job \in [Updaters \cup Reporters -> Actor(JobPcs)]
  BY IdleType DEF Init, JobPcs
<1>2. view \in [Updaters -> View]
  BY NoViewType DEF Init
<1>3. recovery \in [Recoverers -> Actor(RecoveryPcs)]
  BY IdleType DEF Init, RecoveryPcs
<1>4. /\ user \in Actor({"idle", "start", "stop", "settings"})
      /\ hook \in Actor({"idle", "start", "stop"})
  BY IdleType DEF Init
<1>5. row \in Row
  BY FreshType, EnabledType DEF Init
<1>6. pending \in 0..MaxPendingJobs
  BY ConstantsAssumption DEF Init
<1> QED
  BY <1>1, <1>2, <1>3, <1>4, <1>5, <1>6 DEF Init, TypeOK, Health, Procs, Checks

\* ... and is kept by the steps of the user,
LEMMA UserTypeOK ==
  ASSUME TypeOK, UserStep
  PROVE  TypeOK'
<1> DEFINE pcs == {"idle", "start", "stop", "settings"}
<1>0. Idle \in Actor(pcs)
  BY IdleType
<1>1. CASE StartSyncRequest
  <2>1. user' \in Actor(pcs)
    BY <1>1, AtType DEF StartSyncRequest, TypeOK
  <2> QED BY <1>1, <2>1 DEF StartSyncRequest, TypeOK, env
<1>2. CASE StartExplorerSync
  <2>1. Saved(user.loaded, [shouldSync |-> TRUE]) \in Row
    BY SavedShouldSync DEF TypeOK, Actor
  <2>2. row' \in Row /\ pending' \in 0..MaxPendingJobs
    BY <1>2, <2>1, SaveType DEF StartExplorerSync
  <2> QED BY <1>0, <1>2, <2>2 DEF StartExplorerSync, TypeOK, env
<1>3. CASE StopSyncRequest
  <2>1. user' \in Actor(pcs)
    BY <1>3, AtType DEF StopSyncRequest, TypeOK
  <2> QED BY <1>3, <2>1 DEF StopSyncRequest, TypeOK, env
<1>4. CASE StopExplorerSync
  <2>1. Saved(user.loaded, [shouldSync |-> FALSE]) \in Row
    BY SavedShouldSync DEF TypeOK, Actor
  <2>2. row' \in Row /\ pending' \in 0..MaxPendingJobs
    BY <1>4, <2>1, SaveType DEF StopExplorerSync
  <2> QED BY <1>0, <1>4, <2>2 DEF StopExplorerSync, TypeOK, env
<1>5. CASE SettingsRequest
  <2>1. user' \in Actor(pcs)
    BY <1>5, AtType DEF SettingsRequest, TypeOK
  <2> QED BY <1>5, <2>1 DEF SettingsRequest, TypeOK, env
<1>6. CASE UpdateSettings
  BY <1>0, <1>6 DEF UpdateSettings, TypeOK, Procs
<1>7. CASE SafeDelete
  <2>1. pending' \in 0..MaxPendingJobs
    BY <1>7, EnqueueType DEF SafeDelete, TypeOK
  <2> QED BY <1>7, <2>1 DEF SafeDelete, TypeOK, env
<1> QED BY <1>1, <1>2, <1>3, <1>4, <1>5, <1>6, <1>7 DEF UserStep

\* of the subscription's hooks,
LEMMA HookTypeOK ==
  ASSUME TypeOK, HookStep
  PROVE  TypeOK'
<1> DEFINE pcs == {"idle", "start", "stop"}
<1>0. Idle \in Actor(pcs)
  BY IdleType
<1>1. CASE SubscriptionCreated
  <2>1. hook' \in Actor(pcs)
    BY <1>1, AtType DEF SubscriptionCreated, TypeOK
  <2> QED BY <1>1, <2>1 DEF SubscriptionCreated, TypeOK, env
<1>2. CASE StartSync
  <2>1. Saved(hook.loaded, EnabledFields) \in Row
    BY SavedEnabled DEF TypeOK, Actor
  <2>2. row' \in Row /\ pending' \in 0..MaxPendingJobs
    BY <1>2, <2>1, SaveType DEF StartSync
  <2> QED BY <1>0, <1>2, <2>2 DEF StartSync, TypeOK, env
<1>3. CASE SubscriptionDestroyed
  <2>1. hook' \in Actor(pcs)
    BY <1>3, AtType DEF SubscriptionDestroyed, TypeOK
  <2> QED BY <1>3, <2>1 DEF SubscriptionDestroyed, TypeOK, env
<1>4. CASE StopSync
  <2>1. Saved(hook.loaded, [shouldSync |-> FALSE]) \in Row
    BY SavedShouldSync DEF TypeOK, Actor
  <2>2. row' \in Row /\ pending' \in 0..MaxPendingJobs
    BY <1>4, <2>1, SaveType DEF StopSync
  <2> QED BY <1>0, <1>4, <2>2 DEF StopSync, TypeOK, env
<1> QED BY <1>1, <1>2, <1>3, <1>4 DEF HookStep

\* of whoever counts a failure,
LEMMA CountTypeOK ==
  ASSUME TypeOK, NEW j \in Updaters \cup Reporters, Count(j)
  PROVE  TypeOK'
<1>1. CASE Increment(j)
  <2>1. row' \in Row
    BY <1>1, ConstantsAssumption DEF Increment, TypeOK, Row, AtMost, FailureCap
  <2>2. job' \in [Updaters \cup Reporters -> Actor(JobPcs)]
    BY <1>1, JobPcType DEF Increment, JobPcs
  <2> QED BY <1>1, <2>1, <2>2 DEF Increment, TypeOK, env
<1>2. CASE Reload(j)
  <2>1. /\ job' \in [Updaters \cup Reporters -> Actor(JobPcs)]
        /\ view' \in [Updaters -> View]
        /\ check' \in Checks
    BY <1>2, JobAtType, JobDoneType DEF Reload, JobPcs, TypeOK
  <2> QED BY <1>2, <2>1 DEF Reload, TypeOK, env
<1>3. CASE AutoDisableSync(j)
  <2> DEFINE reason == IF j \in Updaters THEN "rpc_unreachable" ELSE "rpc_error"
  <2>1. Saved(job[j].loaded, AutoDisabledFields(reason)) \in Row
    BY SavedAutoDisabled DEF TypeOK, Actor, Reasons
  <2>2. row' \in Row /\ pending' \in 0..MaxPendingJobs
    BY <1>3, <2>1, SaveType DEF AutoDisableSync
  <2>3. /\ job' \in [Updaters \cup Reporters -> Actor(JobPcs)]
        /\ view' \in [Updaters -> View]
        /\ check' \in Checks
    BY <1>3, JobDoneType DEF AutoDisableSync
  <2> QED BY <1>3, <2>2, <2>3 DEF AutoDisableSync, TypeOK, env
<1> QED BY <1>1, <1>2, <1>3 DEF Count

\* of an updater that deals with PM2,
LEMMA DecideTypeOK ==
  ASSUME TypeOK, NEW u \in Updaters, Decide(u)
  PROVE  TypeOK'
<1> USE DEF env
<1>1. CASE ResetProcess(u)
  <2>1. /\ job' \in [Updaters \cup Reporters -> Actor(JobPcs)]
        /\ view' \in [Updaters -> View]
        /\ check' \in Checks
        /\ pending' \in 0..MaxPendingJobs
    BY <1>1, FinishType, ThrowType DEF ResetProcess, TypeOK
  <2> QED BY <1>1, <2>1 DEF ResetProcess, TypeOK, Procs
<1>2. CASE DeleteProcess(u)
  BY <1>2, FinishType DEF DeleteProcess, TypeOK, Procs
<1>3. CASE DeleteUnreachable(u)
  <2>1. job' \in [Updaters \cup Reporters -> Actor(JobPcs)]
    BY <1>3, JobAtType DEF DeleteUnreachable, JobPcs
  <2> QED BY <1>3, <2>1 DEF DeleteUnreachable, TypeOK, Procs
<1>4. CASE StartProcess(u)
  <2>1. [job EXCEPT ![u].pc = "reset"] \in [Updaters \cup Reporters -> Actor(JobPcs)]
    BY JobPcType DEF JobPcs
  <2>2. \/ job' = [job EXCEPT ![u].pc = "reset"] /\ UNCHANGED <<view, check>>
        \/ Finish(u)
    BY <1>4 DEF StartProcess
  <2>3. /\ job' \in [Updaters \cup Reporters -> Actor(JobPcs)]
        /\ view' \in [Updaters -> View]
        /\ check' \in Checks
    BY <2>1, <2>2, FinishType DEF TypeOK
  <2> QED BY <1>4, <2>3 DEF StartProcess, TypeOK, Procs
<1>5. CASE ResumeFails(u)
  BY <1>5, ThrowType DEF ResumeFails, TypeOK
<1>6. CASE NoProcessChange(u)
  BY <1>6, FinishType DEF NoProcessChange, TypeOK
<1> QED BY <1>1, <1>2, <1>3, <1>4, <1>5, <1>6 DEF Decide

\* of an updater altogether,
LEMMA UpdaterTypeOK ==
  ASSUME TypeOK, NEW u \in Updaters, UpdaterStep(u)
  PROVE  TypeOK'
<1> USE DEF env
<1>0. ASSUME NEW reset \in BOOLEAN, NEW named \in BOOLEAN, LoadExplorer(u, reset, named),
             pending' \in 0..MaxPendingJobs, check' \in Checks
      PROVE  TypeOK'
  <2>1. job' \in [Updaters \cup Reporters -> Actor(JobPcs)]
    BY <1>0, JobAtType DEF LoadExplorer, JobPcs
  <2>2. view' \in [Updaters -> View]
    BY <1>0 DEF LoadExplorer, TypeOK, View, Procs
  <2> QED BY <1>0, <2>1, <2>2 DEF LoadExplorer, TypeOK
<1>1. CASE Take(u)
  <2>1. pending' \in 0..MaxPendingJobs /\ check' \in Checks
    BY <1>1, ConstantsAssumption DEF Take, TypeOK
  <2>2. \E reset \in BOOLEAN : LoadExplorer(u, reset, FALSE)
    BY <1>1 DEF Take, ResetFlags
  <2> QED BY <1>0, <2>1, <2>2
<1>7. CASE TakeCheck(u)
  <2>1. pending' \in 0..MaxPendingJobs /\ check' \in Checks
    BY <1>7 DEF TakeCheck, TypeOK, Checks
  <2>2. LoadExplorer(u, FALSE, TRUE)
    BY <1>7 DEF TakeCheck
  <2> QED BY <1>0, <2>1, <2>2
<1>2. CASE FindProcess(u)
  <2>1. job' \in [Updaters \cup Reporters -> Actor(JobPcs)]
    BY <1>2, JobPcType DEF FindProcess, JobPcs
  <2>2. view' \in [Updaters -> View]
    BY <1>2 DEF FindProcess, TypeOK, View
  <2> QED BY <1>2, <2>1, <2>2 DEF FindProcess, TypeOK
<1>3. CASE Decide(u)
  BY <1>3, DecideTypeOK
<1>4. CASE ResetFailures(u)
  <2>1. Saved(job[u].loaded, [syncFailedAttempts |-> 0]) \in Row
    BY SavedReset DEF TypeOK, Actor
  <2>2. row' \in Row /\ pending' \in 0..MaxPendingJobs
    BY <1>4, <2>1, SaveType DEF ResetFailures
  <2> QED BY <1>4, <2>2, FinishType DEF ResetFailures, TypeOK
<1>5. CASE Count(u)
  BY <1>5, CountTypeOK
<1>6. CASE JobThrows(u)
  BY <1>6, ThrowType DEF JobThrows, TypeOK
<1> QED BY <1>1, <1>2, <1>3, <1>4, <1>5, <1>6, <1>7 DEF UpdaterStep

\* of block and receipt jobs and the syncFailure endpoint,
LEMMA ReporterTypeOK ==
  ASSUME TypeOK, NEW r \in Reporters, ReporterStep(r)
  PROVE  TypeOK'
<1> USE DEF env
<1>0. Idle \in Actor(JobPcs)
  BY IdleType DEF JobPcs
<1>1. CASE SyncJobStarts(r) \/ SyncFailureReported(r)
  <2>1. job' \in [Updaters \cup Reporters -> Actor(JobPcs)]
    BY <1>1, JobAtType DEF SyncJobStarts, SyncFailureReported, JobPcs
  <2> QED BY <1>1, <2>1 DEF SyncJobStarts, SyncFailureReported, TypeOK
<1>2. CASE SyncJobSucceeds(r) \/ SyncJobDies(r)
  <2>1. job' \in [Updaters \cup Reporters -> Actor(JobPcs)]
    BY <1>0, <1>2 DEF SyncJobSucceeds, SyncJobDies, TypeOK
  <2> QED BY <1>2, <2>1 DEF SyncJobSucceeds, SyncJobDies, TypeOK
<1>3. CASE ReportRpcFailure(r)
  <2>1. job' \in [Updaters \cup Reporters -> Actor(JobPcs)]
    BY <1>3, JobPcType DEF ReportRpcFailure, JobPcs
  <2> QED BY <1>3, <2>1 DEF ReportRpcFailure, TypeOK
<1>4. CASE Count(r)
  BY <1>4, CountTypeOK
<1> QED BY <1>1, <1>2, <1>3, <1>4 DEF ReporterStep

\* of recovery checks
LEMMA RecoveryTypeOK ==
  ASSUME TypeOK, NEW c \in Recoverers, RecoveryStep(c)
  PROVE  TypeOK'
<1> USE DEF env
<1>0. Idle \in Actor(RecoveryPcs)
  BY IdleType DEF RecoveryPcs
<1>1. CASE RecoveryLoads(c)
  <2>1. At("probe", DOMAIN row) \in Actor(RecoveryPcs)
    BY AtType DEF TypeOK, RecoveryPcs
  <2> QED BY <1>1, <2>1 DEF RecoveryLoads, TypeOK
<1>2. CASE RecoveryProbes(c)
  <2>1. recovery' \in [Recoverers -> Actor(RecoveryPcs)]
    BY <1>2 DEF RecoveryProbes, TypeOK, Actor, RecoveryPcs
  <2> QED BY <1>2, <2>1 DEF RecoveryProbes, TypeOK
<1>3. CASE EnableSyncAfterRecovery(c)
  <2>1. Saved(recovery[c].loaded, EnabledFields) \in Row
    BY SavedEnabled DEF TypeOK, Actor
  <2>2. row' \in Row /\ pending' \in 0..MaxPendingJobs
    BY <1>3, <2>1, SaveType DEF EnableSyncAfterRecovery
  <2> QED BY <1>0, <1>3, <2>2 DEF EnableSyncAfterRecovery, TypeOK
<1>4. CASE ScheduleNextRecoveryCheck(c)
  <2>1. Saved(recovery[c].loaded, NextCheckFields(recovery[c].loaded)) \in Row
    BY SavedNextCheck DEF TypeOK, Actor
  <2>2. row' \in Row /\ pending' \in 0..MaxPendingJobs
    BY <1>4, <2>1, SaveType DEF ScheduleNextRecoveryCheck, TypeOK
  <2> QED BY <1>0, <1>4, <2>2 DEF ScheduleNextRecoveryCheck, TypeOK
<1>5. CASE RecoveryDies(c)
  BY <1>0, <1>5 DEF RecoveryDies, TypeOK
<1> QED BY <1>1, <1>2, <1>3, <1>4, <1>5 DEF RecoveryStep

\* and of the other jobs and the world,
LEMMA WorldTypeOK ==
  ASSUME TypeOK, WorldStep
  PROVE  TypeOK'
<1> USE DEF env
<1>1. CASE ExplorerSyncCheck \/ CheckForgotten
  BY <1>1 DEF ExplorerSyncCheck, CheckForgotten, TypeOK, Checks
<1>2. CASE RpcHealthProbe
  BY <1>2 DEF RpcHealthProbe, TypeOK, Health
<1>3. CASE RpcHealthStore
  BY <1>3 DEF RpcHealthStore, TypeOK, Health
<1>4. CASE RecoveryFallsDue
  <2>1. row' \in Row
    BY <1>4 DEF RecoveryFallsDue, TypeOK, Row
  <2> QED BY <1>4, <2>1 DEF RecoveryFallsDue, TypeOK
<1>5. CASE RpcChanges
  BY <1>5 DEF RpcChanges, TypeOK
<1>6. CASE QuotaChanges
  BY <1>6 DEF QuotaChanges, TypeOK
<1>7. CASE ProcessLost \/ ProcessSettles
  BY <1>7 DEF ProcessLost, ProcessSettles, TypeOK, Procs
<1> QED BY <1>1, <1>2, <1>3, <1>4, <1>5, <1>6, <1>7 DEF WorldStep

\* hence by every step.
LEMMA NextTypeOK == TypeOK /\ [Next]_vars => TypeOK'
<1> SUFFICES ASSUME TypeOK, [Next]_vars PROVE TypeOK'
  OBVIOUS
<1>1. CASE Next
  BY <1>1, UserTypeOK, HookTypeOK, WorldTypeOK, UpdaterTypeOK, ReporterTypeOK,
     RecoveryTypeOK DEF Next
<1>2. CASE UNCHANGED vars
  BY <1>2 DEF vars, env, TypeOK
<1> QED BY <1>1, <1>2

\* For any number of jobs of each kind and any thresholds, every saver leaves the
\* row with attributes the recovery check knows how to read.
THEOREM TypeCorrect == Spec => []TypeOK
<1>1. Init => TypeOK
  BY InitTypeOK
<1>2. TypeOK /\ [Next]_vars => TypeOK'
  BY NextTypeOK
<1> QED BY <1>1, <1>2, PTL DEF Spec

-----------------------------------------------------------------------------
(* RecoveryScheduled is not inductive: EnableSyncAfterRecovery and the hook  *)
(* of a subscription write what differs from the row they LOADED, and would  *)
(* clear the date without the reason had they loaded a row without one.      *)

RecoveryInv ==
    /\ TypeOK
    /\ RecoveryScheduled
    /\ \A c \in Recoverers : recovery[c].pc # "idle" =>
         /\ recovery[c].loaded.syncDisabledReason # Null
         /\ recovery[c].loaded.nextRecoveryCheckAt # Null
    /\ hook.pc # "start"

\* A save that leaves reason and date alone.
LEMMA SaveKeepsSchedule ==
  ASSUME TypeOK, RecoveryScheduled, NEW loaded, NEW new, Save(loaded, new),
         {"syncDisabledReason", "nextRecoveryCheckAt"} \cap DOMAIN new = {}
  PROVE  RecoveryScheduled'
<1>1. /\ "syncDisabledReason" \in DOMAIN row
      /\ "nextRecoveryCheckAt" \in DOMAIN row
  BY DEF TypeOK, Row
<1> QED BY <1>1 DEF Save, Saved, Dirty, RecoveryScheduled

\* A save that writes a date: a date is always sent to the database.
LEMMA SaveWritesDate ==
  ASSUME TypeOK, RecoveryScheduled, NEW loaded, NEW new, Save(loaded, new),
         "nextRecoveryCheckAt" \in DOMAIN new, new.nextRecoveryCheckAt # Null
  PROVE  RecoveryScheduled'
<1>1. /\ "syncDisabledReason" \in DOMAIN row
      /\ "nextRecoveryCheckAt" \in DOMAIN row
  BY DEF TypeOK, Row
<1>2. "nextRecoveryCheckAt" \in Dirty(loaded, new)
  BY DEF Dirty, Dates
<1> QED BY <1>1, <1>2 DEF Save, Saved, RecoveryScheduled

\* Clearing both attributes of a row loaded with both clears both.
LEMMA EnableClearsBoth ==
  ASSUME TypeOK, RecoveryScheduled, NEW loaded \in Row, Save(loaded, EnabledFields),
         loaded.syncDisabledReason # Null
  PROVE  RecoveryScheduled'
<1>1. "syncDisabledReason" \in Dirty(loaded, EnabledFields)
  BY DEF Dirty, EnabledFields
<1>2. "syncDisabledReason" \in DOMAIN row
  BY DEF TypeOK, Row
<1> QED BY <1>1, <1>2 DEF Save, Saved, EnabledFields, RecoveryScheduled

\* The strengthened invariant holds at the start ...
LEMMA InitRecoveryInv == Init => RecoveryInv
BY InitTypeOK DEF Init, RecoveryInv, RecoveryScheduled, Fresh, EnabledFields, Idle

\* ... and every step keeps it, one case for each kind of actor.
LEMMA NextRecoveryInv ==
  ASSUME \A scenario \in Scenarios : "subscribe" \notin scenario, RecoveryInv, [Next]_vars
  PROVE  RecoveryInv'
<1>0. TypeOK'
  BY NextTypeOK DEF RecoveryInv
<1>a. "subscribe" \notin operations
  BY DEF RecoveryInv, TypeOK
<1> USE DEF RecoveryInv, env
<1> DEFINE Same == UNCHANGED <<recovery, hook>>
<1>1. CASE UserStep
  <2>1. Same
    BY <1>1 DEF UserStep, StartSyncRequest, StartExplorerSync, StopSyncRequest,
                StopExplorerSync, SettingsRequest, UpdateSettings, SafeDelete
  <2>2. CASE StartExplorerSync \/ StopExplorerSync
    <3>1. \E b \in BOOLEAN : Save(user.loaded, [shouldSync |-> b])
      BY <2>2 DEF StartExplorerSync, StopExplorerSync
    <3>2. RecoveryScheduled'
      BY <3>1, SaveKeepsSchedule
    <3> QED BY <1>0, <2>1, <3>2
  <2>3. CASE UNCHANGED row
    BY <1>0, <2>1, <2>3 DEF RecoveryScheduled
  <2> QED BY <1>1, <2>2, <2>3 DEF UserStep, StartSyncRequest, StopSyncRequest,
                                  SettingsRequest, UpdateSettings, SafeDelete
<1>2. CASE HookStep
  <2>1. CASE SubscriptionCreated \/ StartSync
    BY <1>a, <2>1 DEF SubscriptionCreated, StartSync
  <2>2. CASE SubscriptionDestroyed
    BY <1>0, <2>2 DEF SubscriptionDestroyed, At, RecoveryScheduled
  <2>3. CASE StopSync
    <3>1. RecoveryScheduled'
      BY <2>3, SaveKeepsSchedule DEF StopSync
    <3> QED BY <1>0, <2>3, <3>1 DEF StopSync, Idle
  <2> QED BY <1>2, <2>1, <2>2, <2>3 DEF HookStep
<1>3. ASSUME NEW j \in Updaters \cup Reporters, Count(j) PROVE RecoveryInv'
  <2>1. Same
    BY <1>3 DEF Count, Increment, Reload, AutoDisableSync
  <2>2. CASE Increment(j)
    <3>1. RecoveryScheduled'
      BY <2>2 DEF Increment, TypeOK, Row, RecoveryScheduled
    <3> QED BY <1>0, <2>1, <3>1
  <2>3. CASE Reload(j)
    BY <1>0, <2>1, <2>3 DEF Reload, RecoveryScheduled
  <2>4. CASE AutoDisableSync(j)
    <3> DEFINE new == AutoDisabledFields(IF j \in Updaters THEN "rpc_unreachable" ELSE "rpc_error")
    <3>1. "nextRecoveryCheckAt" \in DOMAIN new /\ new.nextRecoveryCheckAt # Null
      BY DEF AutoDisabledFields, Null
    <3>2. Save(job[j].loaded, new)
      BY <2>4 DEF AutoDisableSync
    <3> HIDE DEF new
    <3>3. RecoveryScheduled'
      BY <3>1, <3>2, SaveWritesDate
    <3> QED BY <1>0, <2>1, <3>3
  <2> QED BY <1>3, <2>2, <2>3, <2>4 DEF Count
<1>4. ASSUME NEW u \in Updaters, UpdaterStep(u) PROVE RecoveryInv'
  <2>1. CASE ResetFailures(u)
    <3>1. RecoveryScheduled'
      BY <2>1, SaveKeepsSchedule DEF ResetFailures
    <3> QED BY <1>0, <2>1, <3>1 DEF ResetFailures
  <2>2. CASE Count(u)
    BY <1>3, <2>2
  <2>3. CASE Take(u) \/ TakeCheck(u) \/ FindProcess(u) \/ JobThrows(u)
    BY <1>0, <2>3 DEF Take, TakeCheck, LoadExplorer, FindProcess, JobThrows, RecoveryScheduled
  <2>4. CASE Decide(u)
    BY <1>0, <2>4 DEF Decide, ResetProcess, DeleteProcess, DeleteUnreachable, StartProcess,
                      ResumeFails, NoProcessChange, RecoveryScheduled
  <2> QED BY <1>4, <2>1, <2>2, <2>3, <2>4 DEF UpdaterStep
<1>5. ASSUME NEW r \in Reporters, ReporterStep(r) PROVE RecoveryInv'
  <2>1. CASE Count(r)
    BY <1>3, <2>1
  <2>2. CASE UNCHANGED <<row, recovery, hook>>
    BY <1>0, <2>2 DEF RecoveryScheduled
  <2> QED BY <1>5, <2>1, <2>2 DEF ReporterStep, SyncJobStarts, SyncJobSucceeds,
                                  ReportRpcFailure, SyncFailureReported, SyncJobDies
<1>6. ASSUME NEW c \in Recoverers, RecoveryStep(c) PROVE RecoveryInv'
  <2>0. recovery[c].loaded \in Row
    BY DEF TypeOK, Actor
  <2>1. CASE RecoveryLoads(c)
    <3>1. /\ row.syncDisabledReason # Null /\ row.nextRecoveryCheckAt = "past"
          /\ recovery' = [recovery EXCEPT ![c] = At("probe", DOMAIN row)]
          /\ UNCHANGED <<row, hook>>
      BY <2>1 DEF RecoveryLoads
    <3>2. /\ At("probe", DOMAIN row).loaded.syncDisabledReason # Null
          /\ At("probe", DOMAIN row).loaded.nextRecoveryCheckAt # Null
      BY <3>1 DEF At, TypeOK, Row, Null
    <3> HIDE DEF At
    <3>3. \A d \in Recoverers : recovery'[d].pc # "idle" =>
            /\ recovery'[d].loaded.syncDisabledReason # Null
            /\ recovery'[d].loaded.nextRecoveryCheckAt # Null
      BY <3>1, <3>2 DEF TypeOK
    <3> QED BY <1>0, <3>1, <3>3 DEF RecoveryScheduled
  <2>2. CASE RecoveryProbes(c)
    BY <1>0, <2>2 DEF RecoveryProbes, RecoveryScheduled, TypeOK, Actor
  <2>3. CASE EnableSyncAfterRecovery(c)
    <3>1. RecoveryScheduled'
      BY <2>0, <2>3, EnableClearsBoth DEF EnableSyncAfterRecovery
    <3> QED BY <1>0, <2>3, <3>1 DEF EnableSyncAfterRecovery, Idle, TypeOK
  <2>4. CASE ScheduleNextRecoveryCheck(c)
    <3> DEFINE new == NextCheckFields(recovery[c].loaded)
    <3>1. "nextRecoveryCheckAt" \in DOMAIN new /\ new.nextRecoveryCheckAt # Null
      BY DEF NextCheckFields, Null
    <3>2. Save(recovery[c].loaded, new) \/ UNCHANGED row
      BY <2>4 DEF ScheduleNextRecoveryCheck
    <3> HIDE DEF new
    <3>3. RecoveryScheduled'
      BY <3>1, <3>2, SaveWritesDate DEF RecoveryScheduled
    <3> QED BY <1>0, <2>4, <3>3 DEF ScheduleNextRecoveryCheck, Idle, TypeOK
  <2>5. CASE RecoveryDies(c)
    BY <1>0, <2>5 DEF RecoveryDies, Idle, RecoveryScheduled, TypeOK
  <2> QED BY <1>6, <2>1, <2>2, <2>3, <2>4, <2>5 DEF RecoveryStep
<1>7. CASE WorldStep
  <2>1. UNCHANGED <<recovery, hook>>
    BY <1>7 DEF WorldStep, ExplorerSyncCheck, CheckForgotten, RpcHealthProbe, RpcHealthStore,
                RecoveryFallsDue, RpcChanges, QuotaChanges, ProcessLost, ProcessSettles
  <2>2. CASE RecoveryFallsDue
    <3>1. RecoveryScheduled'
      BY <2>2 DEF RecoveryFallsDue, RecoveryScheduled, TypeOK, Row, Null
    <3> QED BY <1>0, <2>1, <3>1
  <2>3. CASE UNCHANGED row
    BY <1>0, <2>1, <2>3 DEF RecoveryScheduled
  <2> QED BY <1>7, <2>2, <2>3 DEF WorldStep, ExplorerSyncCheck, CheckForgotten, RpcHealthProbe,
                                  RpcHealthStore, RpcChanges, QuotaChanges, ProcessLost,
                                  ProcessSettles
<1>8. CASE UNCHANGED vars
  BY <1>0, <1>8 DEF vars, RecoveryScheduled
<1> QED BY <1>1, <1>2, <1>4, <1>5, <1>6, <1>7, <1>8 DEF Next

\* As long as no subscription is created while an older save is in flight, an
\* auto-disabled explorer always has a date for its next recovery check: the
\* query of jobs/syncRecoveryCheck.js never loses it, however many reporters,
\* updaters and recovery checks overlap.
THEOREM RecoveryAlwaysScheduled ==
  ASSUME \A scenario \in Scenarios : "subscribe" \notin scenario
  PROVE  Spec => []RecoveryScheduled
<1>1. Init => RecoveryInv
  BY InitRecoveryInv
<1>2. RecoveryInv /\ [Next]_vars => RecoveryInv'
  BY NextRecoveryInv
<1>3. RecoveryInv => RecoveryScheduled
  BY DEF RecoveryInv
<1> QED BY <1>1, <1>2, <1>3, PTL DEF Spec

=============================================================================
