-------------------------- MODULE MCServicesProofs --------------------------
(***************************************************************************)
(* Proofs about the composition of the services: every step of one of them *)
(* is a step of its own specification and leaves the others unchanged, so  *)
(* that the composition implements each of the five specifications, and    *)
(* what was proved about each, for any constants, holds of its instance    *)
(* here.                                                                   *)
(***************************************************************************)
EXTENDS MCServices, QueueCapsProofs

servicesVars == <<vars, lifecycleVars, retentionVars, opVars, orbitVars, part>>

\* A step of the composition is a step of a service, or nothing happens in it.
LEMMA StepOfEach ==
  ASSUME [ServicesNext]_servicesVars
  PROVE  /\ [Next]_vars
         /\ [L!Next]_(L!vars) /\ [W!Next]_(W!vars)
         /\ [O!Next]_(O!vars) /\ [R!Next]_(R!vars)
<1>1. [Next]_vars
  BY DEF ServicesNext, QueueStep, Race, Faults, LifecycleStep, RetentionStep, OpStep, OrbitStep,
         servicesVars
<1>2. [L!Next]_(L!vars)
  BY DEF ServicesNext, QueueStep, LifecycleStep, RetentionStep, OpStep, OrbitStep,
         servicesVars, lifecycleVars, L!vars, L!subscription, L!deletion
<1>3. [W!Next]_(W!vars)
  BY DEF ServicesNext, QueueStep, LifecycleStep, RetentionStep, OpStep, OrbitStep,
         servicesVars, retentionVars, W!vars
<1>4. [O!Next]_(O!vars)
  BY DEF ServicesNext, QueueStep, LifecycleStep, RetentionStep, OpStep, OrbitStep,
         servicesVars, opVars, O!vars, O!outputVars, O!batchVars, O!Next
<1>5. [R!Next]_(R!vars)
  BY DEF ServicesNext, QueueStep, LifecycleStep, RetentionStep, OpStep, OrbitStep,
         servicesVars, orbitVars, R!vars
<1> QED BY <1>1, <1>2, <1>3, <1>4, <1>5

\* The composition implements the specification of each service, with the
\* fairness it asks for, if any.
THEOREM EachServiceRuns ==
  ServicesSpec => FairSpec /\ L!FairSpec /\ W!FairSpec /\ O!FairSpec /\ R!Spec
<1>1. ServicesInit => Init /\ L!Init /\ W!Init /\ O!Init /\ R!Init
  BY DEF ServicesInit
<1>2. [ServicesNext]_servicesVars =>
        /\ [Next]_vars
        /\ [L!Next]_(L!vars) /\ [W!Next]_(W!vars)
        /\ [O!Next]_(O!vars) /\ [R!Next]_(R!vars)
  BY StepOfEach
<1> QED BY <1>1, <1>2, PTL
        DEF ServicesSpec, servicesVars, FairSpec, Spec, L!FairSpec, L!Spec, W!FairSpec, W!Spec,
            O!FairSpec, O!Spec, R!Spec

-----------------------------------------------------------------------------
(* What each service was proved to keep.                                   *)

\* Rows, webhooks, requests and jobs around an explorer are of their types
\* (models/stripesubscription.js).
THEOREM LifecycleTypeCorrect == ServicesSpec => []LifecycleTypeOK
BY EachServiceRuns, L!TypeCorrect, PTL DEF L!FairSpec, LifecycleTypeOK

\* The workspace of an explorer that is still there is neither emptied nor
\* deleted (api/explorers.js:1072-1086).
THEOREM LivingKept == ServicesSpec => []LivingKeepsWorkspace
BY EachServiceRuns, L!LivingIsKept, PTL DEF L!FairSpec, LivingKeepsWorkspace

\* Rows, resets and deletions are of their types (jobs/workspaceReset.js).
THEOREM RetentionTypeCorrect == ServicesSpec => []RetentionTypeOK
<1>1. W!Spec => []W!TypeOK
  BY W!TypeCorrect
<1> QED BY EachServiceRuns, <1>1, PTL DEF W!FairSpec, RetentionTypeOK

\* Nothing outside the window of a reset is deleted (jobs/batchBlockDelete.js).
THEOREM OnlyOldRowsGo == ServicesSpec => OnlyOldGo
BY EachServiceRuns, W!DeletesOnlyOld, PTL DEF W!FairSpec, OnlyOldGo

\* While no reset starts again, no block of its window is left behind without a
\* job that will delete it (jobs/workspaceReset.js:61-89).
THEOREM PassedBlocksAsked == ServicesSpec => []PassedBlocksAreAsked
<1>1. W!Spec => []W!PassedBlocksAreAsked
  BY W!NoBlockLeftBehind
<1> QED BY EachServiceRuns, <1>1, PTL DEF W!FairSpec, PassedBlocksAreAsked

\* Outputs and batches of an OP chain are of their types
\* (models/opOutput.js, models/opBatch.js).
THEOREM OpTypeCorrect == ServicesSpec => []OpTypeOK
<1>1. O!Spec => []O!TypeOK
  BY O!TypeCorrect
<1> QED BY EachServiceRuns, <1>1, PTL DEF O!FairSpec, OpTypeOK

\* Batches leave no gap (jobs/processOpBatch.js:48-109).
THEOREM BatchesHaveNoGap == ServicesSpec => []BatchesLeaveNoGap
BY EachServiceRuns, O!NoGapBetweenBatches, PTL DEF O!FairSpec, BatchesLeaveNoGap

\* Outputs are numbered from 0, each with an index of its own
\* (models/transaction.js:675-715).
THEOREM OutputsHaveNumbers == ServicesSpec => []OutputsNumbered
BY EachServiceRuns, O!OutputsAreNumbered, PTL DEF O!FairSpec, OutputsNumbered

\* Batches, nodes and withdrawals of an Orbit chain are of their types
\* (models/orbitBatch.js, models/orbitNode.js, models/orbitwithdrawal.js).
THEOREM OrbitTypeCorrect == ServicesSpec => []OrbitTypeOK
<1>1. R!Spec => []R!TypeOK
  BY R!TypeCorrect
<1> QED BY EachServiceRuns, <1>1, PTL DEF OrbitTypeOK

\* A withdrawal is relayed when, and only when, the receipt that executed it is
\* stored (models/transaction.js:457-472).
THEOREM RelayedWhenExecuted == ServicesSpec => []ExecutedMeansRelayed
BY EachServiceRuns, R!RelayedWithReceipt, PTL DEF ExecutedMeansRelayed

\* A relayed withdrawal stays relayed (models/orbitNode.js:51-61).
THEOREM RelayedIsKept == ServicesSpec => RelayedStays
BY EachServiceRuns, R!RelayedIsFinal, PTL DEF RelayedStays
=============================================================================
