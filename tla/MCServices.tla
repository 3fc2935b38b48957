------------------------------ MODULE MCServices ------------------------------
(***************************************************************************)
(* One run for the services beside the two synchronisation engines: the    *)
(* queue caps, the lifecycle of an explorer, the deletion of old rows, and *)
(* the OP and Orbit rollups.                                               *)
(* They share no state, so a behaviour belongs to one part of them from    *)
(* its start and leaves the others as they began, where Fairness asks      *)
(* nothing of them.  Where a service is split into several parts, a part   *)
(* leaves out only steps that Fairness does not ask for.                   *)
(*                                                                         *)
(* Each service is instantiated together with its proofs, so that its      *)
(* theorems can be cited of the instance (MCServicesProofs).               *)
(***************************************************************************)
EXTENDS QueueCaps

CONSTANTS e1, e2                            \* the enqueuers
CONSTANTS s1, s2                            \* subscriptions at Stripe
CONSTANTS r1, r2                            \* resets of the workspace
CONSTANTS g1, g2, g3, b1, b2, b3            \* games and batches

VARIABLES stripe, events, explorer, rows, aged, workspace, large, jobs, handler,
          request, expiry
VARIABLES stored, newest, reset, deletes, restarts
VARIABLES receipts, storeJobs, outputs, creating, opBatches, batching, head
VARIABLES l2, batchOf, handled, orbitBatches, nodes, withdrawals, confirming,
          relaying, finalizer
VARIABLE part

L == INSTANCE LifecycleProofs WITH
        Subs <- {s1, s2}, MaxRows <- 2, MaxEvents <- 2,
        Requests <- {"checkout", "portal", "cancel", "delete", "changePlan",
                     "migrate", "startTrial"}

W == INSTANCE RetentionProofs WITH
        Resets <- {r1, r2}, MaxBlock <- 3, MaxContract <- 1, PageSize <- 2,
        ChunkSize <- 1, MaxRestarts <- 1, rows <- stored, jobs <- deletes

O == INSTANCE OpRollupProofs WITH
        Games <- {g1, g2, g3}, Relayed <- {g3},
        BatchTxs <- {b1, b2, b3}, MaxL2 <- 2, jobs <- storeJobs, batches <- opBatches

R == INSTANCE OrbitRollupProofs WITH
        MaxIndex <- 2, FirstStatus <- "pending", batches <- orbitBatches

\* What may go wrong around the cap.
Everything == {"tierChanges", "redisDown", "databaseDown", "jobFails", "direct"}

lifecycleVars == <<stripe, events, explorer, rows, aged, workspace, large, jobs,
                   handler, request, expiry>>
retentionVars == <<stored, newest, reset, deletes, restarts>>
opVars == <<receipts, storeJobs, outputs, creating, opBatches, batching, head>>
orbitVars == <<l2, batchOf, handled, orbitBatches, nodes, withdrawals, confirming,
               relaying, finalizer>>

-----------------------------------------------------------------------------
Parts == {"race", "faults", "owned", "demo", "resets", "restart", "outputs",
          "batches", "confirmations", "withdrawals"}

ServicesInit ==
    /\ part \in Parts
    /\ Init /\ L!Init /\ W!Init /\ O!Init /\ R!Init
    /\ part \in {"race", "faults"} \/ tier = "low"
    /\ explorer = (IF part = "demo" THEN "demo" ELSE "owned")
    /\ part = "demo" \/ ~large
    /\ part = "restart" \/ newest["contracts"] = 0
    /\ part \in {"resets", "restart"} \/ newest["blocks"] = 0

\* Two enqueuers and the sweep, and nothing goes wrong.
Race == part = "race" /\ Next /\ UNCHANGED <<tier, mishaps>>

\* One enqueuer and the sweep, and everything that may go wrong.
Faults == part = "faults" /\ Next /\ caller'[e2] = Idle

QueueStep ==
    /\ Race \/ Faults
    /\ UNCHANGED <<lifecycleVars, retentionVars, opVars, orbitVars>>

\* The user's explorer with one subscription after another, or a demo that ages
\* and may be taken over with one.
LifecycleStep ==
    /\ \/ part = "owned" /\ L!Next /\ UNCHANGED aged
       \/ part = "demo" /\ L!Next /\ stripe'[s2] = "none"
    /\ UNCHANGED <<vars, retentionVars, opVars, orbitVars>>

\* Two resets of the blocks, or one of both tables that may start again.
RetentionStep ==
    /\ \/ /\ part = "resets" /\ W!Next
          /\ UNCHANGED <<newest["contracts"], restarts>>
          /\ {j \in deletes : j.status = "ended"} \subseteq deletes'
       \/ part = "restart" /\ W!Next /\ reset'[r2].pc = "idle"
    /\ UNCHANGED <<vars, lifecycleVars, opVars, orbitVars>>

OpStep ==
    /\ \/ part = "outputs" /\ O!OutputStep
       \/ part = "batches" /\ O!BatchStep
    /\ UNCHANGED <<vars, lifecycleVars, retentionVars, orbitVars>>

\* Batches and nodes without withdrawals, or nodes and withdrawals without batches.
OrbitStep ==
    /\ \/ part = "confirmations" /\ R!Next /\ UNCHANGED withdrawals
       \/ part = "withdrawals" /\ R!Next /\ UNCHANGED orbitBatches
    /\ UNCHANGED <<vars, lifecycleVars, retentionVars, opVars>>

ServicesNext ==
    /\ QueueStep \/ LifecycleStep \/ RetentionStep \/ OpStep \/ OrbitStep
    /\ UNCHANGED part

ServicesSpec ==
    /\ ServicesInit
    /\ [][ServicesNext]_<<vars, lifecycleVars, retentionVars, opVars, orbitVars, part>>
    /\ Fairness /\ L!Fairness /\ W!Fairness /\ O!Fairness

-----------------------------------------------------------------------------
(* The properties of each service.                                         *)

LifecycleTypeOK == L!TypeOK
RetentionTypeOK == W!TypeOK
OpTypeOK == O!TypeOK
OrbitTypeOK == R!TypeOK

LiveIsActive == L!LiveIsActive
LivingKeepsWorkspace == L!LivingKeepsWorkspace
EndingIsPending == L!EndingIsPending
EndedIsRemovedByWebhook == L!EndedIsRemovedByWebhook
AbandonedDemoGoes == L!AbandonedDemoGoes

OnlyOldGo == W!OnlyOldGo
PassedBlocksAreAsked == W!PassedBlocksAreAsked
BlocksOfWindowGo == W!BlocksOfWindowGo

OutputsFinalize == O!OutputsFinalize
BatchesLeaveNoGap == O!BatchesLeaveNoGap
OutputsNumbered == O!OutputsNumbered

RelayedStays == R!RelayedStays
ExecutedMeansRelayed == R!ExecutedMeansRelayed
=============================================================================
