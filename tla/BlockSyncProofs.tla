--------------------------- MODULE BlockSyncProofs ---------------------------
(***************************************************************************)
(* Proofs about BlockSync for every chain, every number of jobs and any    *)
(* thresholds: every variable keeps its type, no partial block is left     *)
(* without a job that will look at it, the rows change only as BlockStore, *)
(* the abstract specification, allows, nothing is asked for past the head, *)
(* a scan overlooks no hole the budget has room for, and what a range asks *)
(* for is lost to the cap of a low-tier workspace only.                    *)
(***************************************************************************)
EXTENDS BlockSync, FiniteSetTheorems, WellFoundedInduction, TLAPS

SyncJobs == [SyncKinds -> Job(SyncPcs)]
SaverJobs == [SaverKinds -> Job(SaverPcs)]

-----------------------------------------------------------------------------
(* The operators on jobs return jobs.                                      *)

\* The constant jobs are jobs of either kind.
LEMMA ConstantJobs ==
  /\ Absent \in Job(SyncPcs) /\ Done \in Job(SyncPcs) /\ Waiting \in Job(SyncPcs)
  /\ Absent \in Job(SaverPcs) /\ Done \in Job(SaverPcs) /\ Waiting \in Job(SaverPcs)
BY DEF Absent, Done, Waiting, Job, SyncPcs, SaverPcs

\* Replacing one blockSync job by a job.
LEMMA SyncReplaced ==
  ASSUME sync \in [Blocks -> SyncJobs], NEW n \in Blocks, NEW k \in SyncKinds,
         NEW j \in Job(SyncPcs)
  PROVE  [sync EXCEPT ![n][k] = j] \in [Blocks -> SyncJobs]
BY DEF SyncJobs

\* Moving one blockSync job on, or ending it.
LEMMA SyncPcType ==
  ASSUME sync \in [Blocks -> SyncJobs], NEW n \in Blocks, NEW k \in SyncKinds
  PROVE  /\ \A pc \in SyncPcs : SyncPc(n, k, pc) \in [Blocks -> SyncJobs]
         /\ SyncEnds(n, k) \in [Blocks -> SyncJobs]
<1>1. ASSUME NEW pc \in SyncPcs PROVE SyncPc(n, k, pc) \in [Blocks -> SyncJobs]
  BY DEF SyncPc, SyncJobs, Job
<1>2. EndedSync(k) \in Job(SyncPcs)
  BY ConstantJobs DEF EndedSync
<1>3. SyncEnds(n, k) \in [Blocks -> SyncJobs]
  BY <1>2, SyncReplaced DEF SyncEnds
<1> QED BY <1>1, <1>3

\* A job of a batch is a blockSync job.
LEMMA BatchKind == "batch" \in SyncKinds
BY DEF SyncKinds, Cached

\* The successor of a job is of a kind of its own.
LEMMA SuccessorKinds ==
  ASSUME NEW k \in SyncKinds
  PROVE  Successors(k) \in SUBSET SyncKinds
BY DEF Successors, SyncKinds

\* enqueue adds a job to the jobs of a block.
LEMMA EnqueuedAsType ==
  ASSUME NEW js \in SyncJobs, NEW kinds \in SUBSET SyncKinds
  PROVE  EnqueuedAs(js, kinds) \in SyncJobs
<1> DEFINE free == {k \in kinds : js[k].pc = "absent"}
<1>1. CASE free = {}
  BY <1>1 DEF EnqueuedAs
<1>2. CASE free # {}
  <2>1. (CHOOSE k \in free : TRUE) \in SyncKinds
    BY <1>2
  <2>2. [js EXCEPT ![CHOOSE k \in free : TRUE] = Waiting] \in SyncJobs
    BY <2>1, ConstantJobs DEF SyncJobs
  <2> QED BY <1>2, <2>2 DEF EnqueuedAs
<1> QED BY <1>1, <1>2

LEMMA EnqueuedType ==
  ASSUME NEW js \in SyncJobs
  PROVE  Enqueued(js) \in SyncJobs
BY EnqueuedAsType DEF Enqueued, SyncKinds

\* bulkEnqueue adds a job to a set of jobs.
LEMMA BulkEnqueuedType ==
  ASSUME NEW K, NEW J, NEW js \in [K -> J], NEW k \in K, NEW j \in J
  PROVE  BulkEnqueued(js, k, j) \in [K -> J]
BY DEF BulkEnqueued

\* Moving one receipt saver on, or ending it.
LEMMA SaverPcType ==
  ASSUME saver \in [Txs -> SaverJobs], NEW t \in Txs, NEW k \in SaverKinds
  PROVE  /\ \A pc \in SaverPcs : SaverPc(t, k, pc) \in [Txs -> SaverJobs]
         /\ SaverEnds(t, k) \in [Txs -> SaverJobs]
<1>1. ASSUME NEW pc \in SaverPcs PROVE SaverPc(t, k, pc) \in [Txs -> SaverJobs]
  BY DEF SaverPc, SaverJobs, Job
<1>2. EndedSaver(k) \in Job(SaverPcs)
  BY ConstantJobs DEF EndedSaver
<1>3. SaverEnds(t, k) \in [Txs -> SaverJobs]
  BY <1>2 DEF SaverEnds, SaverJobs
<1> QED BY <1>1, <1>3

\* The receiptSync jobs of a block.
LEMMA WithReceiptJobsType ==
  ASSUME sync \in [Blocks -> SyncJobs], saver \in [Txs -> SaverJobs],
         NEW ts, NEW n \in Blocks, NEW k \in SyncKinds
  PROVE  WithReceiptJobs(ts, n, k) \in [Txs -> SaverJobs]
<1> DEFINE js(t) == [saver[t] EXCEPT ![k] = IF t \in Of(n) THEN Absent ELSE @]
           job == [pc |-> "waiting", live |-> sync[n][k].live]
<1>1. ASSUME NEW t \in Txs PROVE js(t) \in SaverJobs
  BY ConstantJobs DEF SaverJobs, SaverKinds
<1>2. job \in Job(SaverPcs)
  BY DEF SyncJobs, Job, SaverPcs
<1> HIDE DEF js, job
<1>3. ASSUME NEW t \in Txs PROVE BulkEnqueued(js(t), "receiptSync", job) \in SaverJobs
  BY <1>1, <1>2, BulkEnqueuedType DEF SaverJobs, SaverKinds, ReceiptKinds
<1>4. WithReceiptJobs(ts, n, k)
        = [t \in Txs |-> IF t \in ts THEN BulkEnqueued(js(t), "receiptSync", job) ELSE js(t)]
  BY DEF WithReceiptJobs, js, job
<1> QED BY <1>1, <1>3, <1>4

\* A set of blocks that is not empty has a lowest and a highest block.
LEMMA LowestAndHighest ==
  ASSUME NEW S \in SUBSET Blocks, S # {}
  PROVE  /\ \E n \in S : \A m \in S : n <= m
         /\ \E n \in S : \A m \in S : m <= n
<1> DEFINE below == {MaxBlock - n : n \in S}
<1>1. S \subseteq 0..MaxBlock /\ MaxBlock \in Nat
  BY ConstantsAssumption DEF Blocks
<1>2. ASSUME NEW T \in SUBSET Nat, T # {} PROVE \E n \in T : \A m \in T : n <= m
  <2>1. PICK n \in T : \A m \in T : ~ (<<m, n>> \in OpToRel(<, Nat))
    BY <1>2, WFMin, NatLessThanWellFounded
  <2>2. ASSUME NEW m \in T PROVE n <= m
    <3>1. n \in Nat /\ m \in Nat
      BY <1>2
    <3>2. ~ (m < n)
      BY <3>1, <2>1 DEF OpToRel
    <3> QED BY <3>1, <3>2
  <2> QED BY <2>2
<1>3. \E n \in S : \A m \in S : n <= m
  BY <1>1, <1>2
<1>4. below \subseteq Nat /\ below # {}
  <2>1. ASSUME NEW n \in S PROVE MaxBlock - n \in Nat
    <3>1. n \in 0..MaxBlock
      BY <1>1
    <3> QED BY <3>1, <1>1
  <2> QED BY <2>1
<1>5. PICK x \in below : \A y \in below : x <= y
  <2> HIDE DEF below
  <2> QED BY <1>2, <1>4
<1>6. PICK n \in S : x = MaxBlock - n
  OBVIOUS
<1>7. ASSUME NEW m \in S PROVE m <= n
  <2>1. MaxBlock - m \in below
    OBVIOUS
  <2>2. MaxBlock - n <= MaxBlock - m
    BY <2>1, <1>5, <1>6
  <2>3. n \in Nat /\ m \in Nat
    BY <1>1
  <2> QED BY <2>2, <2>3, <1>1
<1> QED BY <1>3, <1>7

\* The latest ready block is one whose transactions are all ready.
LEMMA LatestReadyType == LatestReady \in {n \in Blocks : Complete(n)} \cup {None}
<1> DEFINE done == {n \in Blocks : Complete(n)}
<1>1. CASE done = {}
  BY <1>1 DEF LatestReady
<1>2. CASE done # {}
  <2>1. PICK n \in done : \A m \in done : m <= n
    BY <1>2, LowestAndHighest
  <2>2. (CHOOSE i \in done : \A m \in done : m <= i) \in done
    BY <2>1
  <2> QED BY <1>2, <2>2 DEF LatestReady
<1> QED BY <1>1, <1>2

-----------------------------------------------------------------------------
(* Type correctness, one lemma per process.                                *)

\* A job whose row has gone is a job.
LEMMA DeadJob ==
  ASSUME NEW pcs, NEW j \in Job(pcs)
  PROVE  [j EXCEPT !.live = FALSE] \in Job(pcs)
BY DEF Job

\* Removing a block leaves every row and job with its type.
LEMMA RemoveBlockType ==
  ASSUME TypeOK, NEW n \in Blocks, RemoveBlock(n),
         UNCHANGED <<world, integrity, check, batch>>
  PROVE  TypeOK'
<1> USE DEF TypeOK, world, integrity
<1>1. ASSUME NEW k \in SyncKinds
      PROVE  [sync[n][k] EXCEPT !.live = FALSE] \in Job(SyncPcs)
  BY DeadJob
<1>2. sync' \in [Blocks -> [SyncKinds -> Job(SyncPcs)]]
  BY <1>1 DEF RemoveBlock
<1>3. ASSUME NEW t \in Txs, NEW k \in SaverKinds
      PROVE  [saver[t][k] EXCEPT !.live = FALSE] \in Job(SaverPcs)
  BY DeadJob
<1>4. saver' \in [Txs -> [SaverKinds -> Job(SaverPcs)]]
  BY <1>3 DEF RemoveBlock
<1>5. /\ block' \in [Blocks -> BOOLEAN]
      /\ tx' \in [Txs -> {"none", "syncing", "ready"}]
      /\ receipt' \in [Txs -> BOOLEAN]
      /\ stall' \in [Blocks -> {"none", "waiting", "revert"}]
  BY DEF RemoveBlock
<1> QED BY <1>2, <1>4, <1>5

\* What every action of the world does to the types.
LEMMA WorldType ==
  ASSUME TypeOK, WorldStep
  PROVE  TypeOK'
<1> USE ConstantsAssumption DEF TypeOK, vars, world, rows, integrity, jobs
<1> USE DEF SyncJobs, SaverJobs
<1>1. CASE NewBlock
  <2>1. head + 1 \in Blocks
    BY <1>1 DEF NewBlock, Blocks, None
  <2>2. Enqueued(sync[head + 1]) \in SyncJobs
    BY <2>1, EnqueuedType
  <2> QED BY <1>1, <2>1, <2>2 DEF NewBlock
<1>2. CASE RpcChanges \/ RpcHealthCheck
  BY <1>2 DEF RpcChanges, RpcHealthCheck
<1>3. CASE SyncSwitched
  BY <1>3 DEF SyncSwitched
<1>4. CASE DestroyIntegrityCheck
  BY <1>4 DEF DestroyIntegrityCheck
<1>5. ASSUME NEW n \in Blocks, ForgetSync(n) PROVE TypeOK'
  <2>1. sync' \in [Blocks -> SyncJobs]
    BY <1>5, ConstantJobs, SyncReplaced, BatchKind DEF ForgetSync
  <2> QED BY <1>5, <2>1 DEF ForgetSync
<1>6. ASSUME NEW n \in Blocks, DeleteBlock(n) PROVE TypeOK'
  BY <1>6, RemoveBlockType DEF DeleteBlock
<1>7. ASSUME NEW t \in Txs, ForgetReceipt(t) PROVE TypeOK'
  <2>1. saver' \in [Txs -> SaverJobs]
    BY <1>7, ConstantJobs DEF ForgetReceipt
  <2> QED BY <1>7, <2>1 DEF ForgetReceipt
<1>8. ASSUME NEW r \in Ranges, ForgetBatch(r) PROVE TypeOK'
  BY <1>8 DEF ForgetBatch
<1> QED BY <1>1, <1>2, <1>3, <1>4, <1>5, <1>6, <1>7, <1>8 DEF WorldStep

\* What the integrity check does to the types.
LEMMA CheckType ==
  ASSUME TypeOK, CheckStep
  PROVE  TypeOK'
<1> USE ConstantsAssumption DEF TypeOK, vars, world, rows, integrity, jobs
<1>1. CASE SyncStart
  <2>1. start \in Blocks
    BY <1>1 DEF SyncStart, CheckOn
  <2>2. Enqueued(sync[start]) \in SyncJobs
    BY <2>1, EnqueuedType DEF SyncJobs
  <2> QED BY <1>1, <2>1, <2>2 DEF SyncStart, SyncJobs
<1>2. CASE ReadLatest
  BY <1>2, LatestReadyType DEF ReadLatest
<1>3. CASE AdvanceCursor
  BY <1>3 DEF AdvanceCursor, NoCheck
<1>4. CASE CheckDies
  BY <1>4 DEF CheckDies, NoCheck, Failure
<1>5. ASSUME NEW full \in BOOLEAN, NEW room \in Rooms, ScanGaps(full, room) PROVE TypeOK'
  <2>1. check' \in [pc : {"idle", "scan", "advance"}, ready : Blocks \cup {None},
                    head : Blocks \cup {None}, lower : Blocks \cup {None},
                    from : Blocks \cup {None}]
    BY <1>5 DEF ScanGaps
  <2>2. batch' \in [Ranges -> [{"batch", "own"} -> {"absent", "waiting", "done"}]]
    <3> DEFINE own == {r \in Ranges : Late /\ r = Recovery}
               queued == WithinBudget(Gaps(ScanFrom(full), check.head), room)
               gaps == {r \in Ranges : r \in queued /\ batch[r]["batch"] = "absent"}
    <3>1. batch' = [r \in Ranges |->
            [own |-> IF r \in own THEN "waiting" ELSE batch[r]["own"],
             batch |-> IF r \in gaps THEN "waiting" ELSE batch[r]["batch"]]]
      BY <1>5 DEF ScanGaps
    <3> HIDE DEF own, gaps, queued
    <3> QED BY <3>1
  <2> QED BY <1>5, <2>1, <2>2 DEF ScanGaps
<1> QED BY <1>1, <1>2, <1>3, <1>4, <1>5 DEF CheckStep

\* What removeStalledBlock does to the types.
LEMMA StallType ==
  ASSUME TypeOK, NEW n \in Blocks, StallStep(n)
  PROVE  TypeOK'
<1> USE ConstantsAssumption DEF TypeOK, vars, world, rows, integrity, jobs
<1>1. CASE CountSyncing(n)
  BY <1>1 DEF CountSyncing
<1>2. CASE KeepBlock(n)
  BY <1>2 DEF KeepBlock
<1>3. CASE RevertPartial(n)
  BY <1>3, RemoveBlockType DEF RevertPartial
<1>4. CASE RevertFails(n)
  BY <1>4 DEF RevertFails, Failure
<1> QED BY <1>1, <1>2, <1>3, <1>4 DEF StallStep

\* What a blockSync job does to the types.
LEMMA BlockSyncType ==
  ASSUME TypeOK, NEW n \in Blocks, NEW k \in SyncKinds, BlockSyncStep(n, k)
  PROVE  TypeOK'
<1> USE ConstantsAssumption DEF TypeOK, vars, world, rows, integrity, jobs
<1> USE DEF SyncJobs, SaverJobs
<1>a. SyncEnds(n, k) \in [Blocks -> SyncJobs]
  BY SyncPcType
<1>b. \A pc \in SyncPcs : SyncPc(n, k, pc) \in [Blocks -> SyncJobs]
  BY SyncPcType
<1>c. \A ts : WithReceiptJobs(ts, n, k) \in [Txs -> SaverJobs]
  BY WithReceiptJobsType
<1>1. CASE FetchBlock(n, k)
  BY <1>1, <1>b DEF FetchBlock, SyncPcs
<1>2. CASE SyncDisabled(n, k)
  BY <1>2, <1>a DEF SyncDisabled
<1>3. CASE FetchBlockFails(n, k)
  <2> DEFINE ended == SyncEnds(n, k)
  <2>1. EnqueuedAs(ended[n], Successors(k)) \in SyncJobs
    BY <1>a, EnqueuedAsType, SuccessorKinds
  <2>2. [ended EXCEPT ![n] = EnqueuedAs(@, Successors(k))] \in [Blocks -> SyncJobs]
    BY <1>a, <2>1
  <2>3. sync' \in {ended, [ended EXCEPT ![n] = EnqueuedAs(@, Successors(k))]}
    BY <1>3 DEF FetchBlockFails
  <2> HIDE DEF ended
  <2>4. sync' \in [Blocks -> SyncJobs]
    BY <1>a, <2>2, <2>3 DEF ended
  <2> QED BY <1>3, <2>4 DEF FetchBlockFails
<1>4. CASE StoreBlock(n, k)
  <2>1. ASSUME NEW pc \in {"first", "stored"}
        PROVE  [sync EXCEPT ![n][k] = [pc |-> pc, live |-> TRUE]] \in [Blocks -> SyncJobs]
    BY SyncReplaced DEF Job, SyncPcs
  <2>2. sync' \in [Blocks -> SyncJobs]
    BY <1>4, <1>a, <1>b, <2>1 DEF StoreBlock, SyncPcs
  <2>3. block' \in [Blocks -> BOOLEAN] /\ tx' \in [Txs -> {"none", "syncing", "ready"}]
    BY <1>4 DEF StoreBlock
  <2>4. UNCHANGED <<world, receipt, integrity, saver, stall, check, batch>>
    BY <1>4 DEF StoreBlock
  <2> QED BY <2>2, <2>3, <2>4
<1>5. CASE AfterCommit(n, k)
  <2>1. sync' \in [Blocks -> SyncJobs]
    BY <1>5, <1>b DEF AfterCommit, SyncPcs
  <2>2. StartFrom(n) \in Blocks
    BY DEF Blocks, StartFrom
  <2> QED BY <1>5, <2>1, <2>2 DEF AfterCommit
<1>11. CASE AfterSkipped(n, k)
  <2>1. StartFrom(n) \in Blocks
    BY DEF Blocks, StartFrom
  <2> QED BY <1>11, <1>a, <2>1 DEF AfterSkipped
<1>6. CASE NoTransactions(n, k)
  BY <1>6, <1>a DEF NoTransactions
<1>7. CASE QueueReceipts(n, k)
  BY <1>7, <1>a, <1>c DEF QueueReceipts
<1>8. CASE FetchReceiptsInline(n, k)
  <2>1. sync' \in [Blocks -> SyncJobs]
    BY <1>8, <1>b DEF FetchReceiptsInline, SyncPcs
  <2>2. sync[n][k].live \in BOOLEAN
    BY DEF Job
  <2>3. PICK missing \in SUBSET Of(n) :
          saver' = [t \in Txs |->
              IF t \in Of(n)
                THEN [saver[t] EXCEPT ![k] =
                        [pc |-> IF t \in missing THEN "failed" ELSE "fetched",
                         live |-> sync[n][k].live]]
                ELSE saver[t]]
    BY <1>8 DEF FetchReceiptsInline
  <2>4. [pc |-> "failed", live |-> sync[n][k].live] \in Job(SaverPcs)
        /\ [pc |-> "fetched", live |-> sync[n][k].live] \in Job(SaverPcs)
    BY <2>2 DEF Job, SaverPcs
  <2>5. saver' \in [Txs -> SaverJobs]
    BY <2>3, <2>4
  <2> QED BY <1>8, <2>1, <2>5 DEF FetchReceiptsInline
<1>9. CASE InlineDone(n, k)
  BY <1>9, <1>a, <1>c DEF InlineDone
<1>10. CASE BlockSyncDies(n, k)
  <2>1. [sync EXCEPT ![n][k] = Waiting] \in [Blocks -> SyncJobs]
    BY SyncReplaced, ConstantJobs
  <2>2. ASSUME NEW t \in Txs PROVE [saver[t] EXCEPT ![k] = Absent] \in SaverJobs
    BY ConstantJobs
  <2>3. saver' = [t \in Txs |->
           IF t \in Of(n) THEN [saver[t] EXCEPT ![k] = Absent] ELSE saver[t]]
    BY <1>10 DEF BlockSyncDies
  <2>4. saver' \in [Txs -> SaverJobs]
    BY <2>2, <2>3
  <2>5. sync' \in [Blocks -> SyncJobs]
    BY <1>10, <1>a, <2>1 DEF BlockSyncDies
  <2>6. failures' \in 0..MaxFailures
    BY <1>10 DEF BlockSyncDies, Failure
  <2> QED BY <1>10, <2>4, <2>5, <2>6 DEF BlockSyncDies
<1> QED
  BY <1>1, <1>2, <1>3, <1>4, <1>5, <1>6, <1>7, <1>8, <1>9, <1>10, <1>11 DEF BlockSyncStep

\* What a receipt saver does to the types.
LEMMA SaverType ==
  ASSUME TypeOK, NEW t \in Txs, NEW k \in SaverKinds, SaverStep(t, k)
  PROVE  TypeOK'
<1> USE ConstantsAssumption DEF TypeOK, vars, world, rows, integrity, jobs
<1> USE DEF SyncJobs, SaverJobs
<1>a. SaverEnds(t, k) \in [Txs -> SaverJobs]
  BY SaverPcType
<1>b. \A pc \in SaverPcs : SaverPc(t, k, pc) \in [Txs -> SaverJobs]
  BY SaverPcType
<1>1. CASE StoreReceipt(t, k)
  <2>1. saver' \in [Txs -> SaverJobs]
    BY <1>1, <1>a, <1>b DEF StoreReceipt, SaverPcs
  <2>2. receipt' \in [Txs -> BOOLEAN]
    BY <1>1 DEF StoreReceipt
  <2> QED BY <1>1, <2>1, <2>2 DEF StoreReceipt
<1>2. CASE SetReady(t, k)
  BY <1>2, <1>a DEF SetReady
<1>3. CASE StoreFails(t, k)
  BY <1>3, <1>b DEF StoreFails, SaverPcs, Failure
<1>4. CASE FetchReceipt(t, k)
  BY <1>4, <1>b DEF FetchReceipt, SaverPcs
<1>5. CASE NothingToFetch(t, k)
  BY <1>5, <1>a DEF NothingToFetch
<1>6. CASE ReceiptNotAvailable(t, k)
  BY <1>6, <1>a DEF ReceiptNotAvailable
<1>7. CASE RequeueReceipt(t, k)
  <2> DEFINE retry == [pc |-> "waiting", live |-> TRUE]
  <2>1. retry \in Job(SaverPcs)
    BY DEF Job, SaverPcs
  <2>2. [SaverEnds(t, k) EXCEPT ![t]["retry"] = retry] \in [Txs -> SaverJobs]
    BY <1>a, <2>1
  <2> QED BY <1>7, <1>a, <2>2 DEF RequeueReceipt
<1> QED BY <1>1, <1>2, <1>3, <1>4, <1>5, <1>6, <1>7 DEF SaverStep

\* What a batchBlockSync job does to the types.
LEMMA BatchType ==
  ASSUME TypeOK, NEW r \in Ranges, NEW k \in {"batch", "own"}, NEW room \in Rooms,
         BatchBlockSync(r, k, room)
  PROVE  TypeOK'
<1> USE ConstantsAssumption DEF TypeOK, vars, world, rows, integrity, jobs
<1> DEFINE ended == [batch EXCEPT ![r][k] = IF k = "batch" THEN "done" ELSE "absent"]
           synced == [n \in Blocks |->
                        IF n \in Accepted(r, room)
                          THEN BulkEnqueued(sync[n], "batch", Waiting) ELSE sync[n]]
           batches == [Ranges -> [{"batch", "own"} -> {"absent", "waiting", "done"}]]
<1>1. synced \in [Blocks -> SyncJobs]
  <2>1. ASSUME NEW n \in Blocks PROVE BulkEnqueued(sync[n], "batch", Waiting) \in SyncJobs
    <3>1. sync[n] \in [SyncKinds -> Job(SyncPcs)] /\ "batch" \in SyncKinds
      BY BatchKind
    <3> QED BY <3>1, BulkEnqueuedType, ConstantJobs DEF SyncJobs
  <2> QED BY <2>1 DEF SyncJobs
<1>2. ended \in batches /\ [ended EXCEPT ![Rest(r)]["own"] = "waiting"] \in batches
  <2>1. ended \in batches
    OBVIOUS
  <2> HIDE DEF ended
  <2> QED BY <2>1
<1>3. /\ sync' \in {synced, sync}
      /\ batch' \in {ended, [ended EXCEPT ![Rest(r)]["own"] = "waiting"]}
      /\ UNCHANGED <<world, rows, integrity, saver, stall, check>>
  BY DEF BatchBlockSync
<1> HIDE DEF synced, ended
<1>4. batch' \in batches
  BY <1>2, <1>3
<1>5. sync' \in [Blocks -> SyncJobs]
  BY <1>1, <1>3 DEF SyncJobs
<1> QED BY <1>3, <1>4, <1>5 DEF SyncJobs

\* Rows, jobs and the integrity check keep their shape on every chain, whatever
\* overlaps, fails or is deleted.
THEOREM TypeCorrect == Spec => []TypeOK
<1>1. Init => TypeOK
  BY ConstantsAssumption, ConstantJobs DEF Init, TypeOK, NoCheck
<1>2. TypeOK /\ [Next]_vars => TypeOK'
  <2>1. CASE UNCHANGED vars
    BY <2>1 DEF TypeOK, vars, world, rows, integrity, jobs
  <2> QED
    BY <2>1, WorldType, CheckType, StallType, BlockSyncType, SaverType, BatchType DEF Next
<1> QED BY <1>1, <1>2, PTL DEF Spec

-----------------------------------------------------------------------------
(* What queues and ended jobs leave alone.                                 *)

\* enqueue changes no job there is, and adds none that knows a row.
LEMMA EnqueuedAsKeeps ==
  ASSUME NEW js \in SyncJobs, NEW kinds \in SUBSET SyncKinds, NEW k \in SyncKinds
  PROVE  \/ EnqueuedAs(js, kinds)[k] = js[k]
         \/ js[k].pc = "absent" /\ EnqueuedAs(js, kinds)[k] = Waiting
<1> DEFINE free == {i \in kinds : js[i].pc = "absent"}
           slot == CHOOSE i \in free : TRUE
<1>1. CASE free = {}
  BY <1>1 DEF EnqueuedAs
<1>2. CASE free # {}
  <2>1. slot \in free
    BY <1>2
  <2>2. EnqueuedAs(js, kinds) = [js EXCEPT ![slot] = Waiting]
    BY <1>2 DEF EnqueuedAs
  <2>3. slot \in SyncKinds /\ js[slot].pc = "absent"
    BY <2>1
  <2> HIDE DEF slot
  <2> QED BY <2>2, <2>3 DEF SyncJobs
<1> QED BY <1>1, <1>2

LEMMA EnqueuedKeeps ==
  ASSUME NEW js \in SyncJobs, NEW k \in SyncKinds
  PROVE  \/ Enqueued(js)[k] = js[k]
         \/ js[k].pc = "absent" /\ Enqueued(js)[k] = Waiting
BY EnqueuedAsKeeps DEF Enqueued, SyncKinds

-----------------------------------------------------------------------------
(* No partial block is left to itself.                                     *)

\* A blockSync job that has committed the block now in the table and has not run
\* its hook.
Hooking(n, k) == Committed(n, k) /\ sync[n][k].live

\* The block is not partial, or some job will look at it.
Watched(n) ==
  block[n] /\ Syncing(n) => stall[n] # "none" \/ \E k \in SyncKinds : Hooking(n, k)

\* A step leaves every block watched if it watches those it makes partial and
\* takes no job or hook away from those that stay.
LEMMA StillWatched ==
  ASSUME BlockWatched,
         \A n \in Blocks : block'[n] /\ Syncing(n)' => (block[n] /\ Syncing(n)) \/ Watched(n)',
         \A n \in Blocks : stall[n] # "none" => stall'[n] # "none" \/ Watched(n)',
         \A n \in Blocks, k \in SyncKinds : Hooking(n, k) => Hooking(n, k)' \/ Watched(n)'
  PROVE  BlockWatched'
BY DEF BlockWatched, Watched, Hooking

\* The steps that leave the tables and removeStalledBlock alone.
LEMMA QueuesWatch ==
  ASSUME BlockWatched, UNCHANGED <<block, tx, stall>>,
         \A n \in Blocks, k \in SyncKinds : Hooking(n, k) => Hooking(n, k)'
  PROVE  BlockWatched'
<1>1. \A n \in Blocks : block'[n] /\ Syncing(n)' => block[n] /\ Syncing(n)
  BY DEF Syncing
<1> QED BY <1>1, StillWatched

\* Blocks that go take their watchers with them.
LEMMA RemoveBlockWatch ==
  ASSUME TypeOK, BlockWatched, NEW n \in Blocks, RemoveBlock(n)
  PROVE  BlockWatched'
<1> USE DEF TypeOK
<1>1. Watched(n)'
  BY DEF RemoveBlock, Watched
<1>2. ASSUME NEW m \in Blocks, m # n
      PROVE  /\ block'[m] /\ Syncing(m)' => block[m] /\ Syncing(m)
             /\ stall'[m] = stall[m]
             /\ \A k \in SyncKinds : Hooking(m, k) => Hooking(m, k)'
  <2>1. \A t \in Of(m) : tx'[t] = tx[t]
    BY <1>2 DEF RemoveBlock, Of
  <2> QED BY <1>2, <2>1 DEF RemoveBlock, Syncing, Hooking, Committed, Of
<1> QED BY <1>1, <1>2, StillWatched

\* The world enqueues and forgets jobs, and deletes blocks.
LEMMA WorldWatch ==
  ASSUME TypeOK, BlockWatched, WorldStep
  PROVE  BlockWatched'
<1> USE DEF TypeOK, vars, world, rows, integrity, jobs
<1>1. CASE NewBlock
  <2>1. ASSUME NEW n \in Blocks, NEW k \in SyncKinds, Hooking(n, k) PROVE Hooking(n, k)'
    <3>1. Enqueued(sync[n])[k] = sync[n][k]
      BY <2>1, EnqueuedKeeps DEF Hooking, Committed, SyncJobs
    <3>2. sync'[n][k] = sync[n][k]
      BY <1>1, <3>1 DEF NewBlock
    <3> QED BY <2>1, <3>2 DEF Hooking, Committed
  <2> QED BY <1>1, <2>1, QueuesWatch DEF NewBlock
<1>2. CASE RpcChanges \/ RpcHealthCheck
  BY <1>2, QueuesWatch DEF RpcChanges, RpcHealthCheck, Hooking, Committed
<1>3. CASE SyncSwitched
  BY <1>3, QueuesWatch DEF SyncSwitched, Hooking, Committed
<1>4. CASE DestroyIntegrityCheck
  BY <1>4, QueuesWatch DEF DestroyIntegrityCheck, Hooking, Committed
<1>5. ASSUME NEW n \in Blocks, ForgetSync(n) PROVE BlockWatched'
  <2>1. \A m \in Blocks, k \in SyncKinds : Hooking(m, k) => Hooking(m, k)'
    BY <1>5 DEF ForgetSync, Hooking, Committed
  <2> QED BY <1>5, <2>1, QueuesWatch DEF ForgetSync
<1>6. ASSUME NEW n \in Blocks, DeleteBlock(n) PROVE BlockWatched'
  BY <1>6, RemoveBlockWatch DEF DeleteBlock
<1>7. ASSUME NEW t \in Txs, ForgetReceipt(t) PROVE BlockWatched'
  BY <1>7, QueuesWatch DEF ForgetReceipt, Hooking, Committed
<1>8. ASSUME NEW r \in Ranges, ForgetBatch(r) PROVE BlockWatched'
  BY <1>8, QueuesWatch DEF ForgetBatch, Hooking, Committed
<1> QED BY <1>1, <1>2, <1>3, <1>4, <1>5, <1>6, <1>7, <1>8 DEF WorldStep

\* The integrity check enqueues jobs, which disturbs none there is.
LEMMA CheckWatch ==
  ASSUME TypeOK, BlockWatched, CheckStep
  PROVE  BlockWatched'
<1> USE DEF TypeOK, vars, world, rows, integrity, jobs
<1>1. CASE SyncStart
  <2>1. ASSUME NEW n \in Blocks, NEW k \in SyncKinds, Hooking(n, k) PROVE Hooking(n, k)'
    <3>1. Enqueued(sync[n])[k] = sync[n][k]
      BY <2>1, EnqueuedKeeps DEF Hooking, Committed, SyncJobs
    <3>2. sync'[n][k] = sync[n][k]
      BY <1>1, <3>1 DEF SyncStart
    <3> QED BY <2>1, <3>2 DEF Hooking, Committed
  <2> QED BY <1>1, <2>1, QueuesWatch DEF SyncStart
<1>2. CASE ReadLatest
  BY <1>2, QueuesWatch DEF ReadLatest, Hooking, Committed
<1>3. CASE AdvanceCursor
  BY <1>3, QueuesWatch DEF AdvanceCursor, Hooking, Committed
<1>4. CASE CheckDies
  BY <1>4, QueuesWatch DEF CheckDies, Hooking, Committed
<1>5. ASSUME NEW full \in BOOLEAN, NEW room \in Rooms, ScanGaps(full, room)
      PROVE  BlockWatched'
  BY <1>5, QueuesWatch DEF ScanGaps, Hooking, Committed
<1> QED BY <1>1, <1>2, <1>3, <1>4, <1>5 DEF CheckStep

\* So does a batch.
LEMMA BatchWatch ==
  ASSUME TypeOK, BlockWatched, NEW r \in Ranges, NEW i \in {"batch", "own"},
         NEW room \in Rooms, BatchBlockSync(r, i, room)
  PROVE  BlockWatched'
<1> USE DEF TypeOK, world, rows
<1>1. ASSUME NEW n \in Blocks, NEW k \in SyncKinds, Hooking(n, k) PROVE Hooking(n, k)'
  <2>1. sync[n] \in [SyncKinds -> Job(SyncPcs)] /\ "batch" \in SyncKinds
    BY BatchKind
  <2>2. BulkEnqueued(sync[n], "batch", Waiting)[k] = sync[n][k]
    BY <1>1, <2>1 DEF BulkEnqueued, Hooking, Committed
  <2>3. sync'[n][k] \in {sync[n][k], BulkEnqueued(sync[n], "batch", Waiting)[k]}
    BY DEF BatchBlockSync
  <2> QED BY <1>1, <2>2, <2>3 DEF Hooking, Committed
<1> QED BY <1>1, QueuesWatch DEF BatchBlockSync

\* removeStalledBlock lets go of complete blocks only.
LEMMA StallWatch ==
  ASSUME TypeOK, BlockWatched, NEW n \in Blocks, StallStep(n)
  PROVE  BlockWatched'
<1> USE DEF TypeOK, vars, world, rows, integrity, jobs
<1> USE DEF Watched, Hooking, Committed, Syncing
<1>1. CASE CountSyncing(n)
  BY <1>1, StillWatched DEF CountSyncing
<1>2. CASE KeepBlock(n)
  BY <1>2, StillWatched DEF KeepBlock
<1>3. CASE RevertPartial(n)
  BY <1>3, RemoveBlockWatch DEF RevertPartial
<1>4. CASE RevertFails(n)
  BY <1>4, StillWatched DEF RevertFails
<1> QED BY <1>1, <1>2, <1>3, <1>4 DEF StallStep

\* Savers only make transactions ready.
LEMMA SaverWatch ==
  ASSUME TypeOK, BlockWatched, NEW t \in Txs, NEW k \in SaverKinds, SaverStep(t, k)
  PROVE  BlockWatched'
<1> USE DEF TypeOK, world, rows, integrity
<1>1. UNCHANGED <<block, stall, sync>>
  BY DEF SaverStep, StoreReceipt, SetReady, StoreFails, FetchReceipt, NothingToFetch,
         ReceiptNotAvailable, RequeueReceipt
<1>2. tx' = tx \/ tx' = [tx EXCEPT ![t] = "ready"]
  BY DEF SaverStep, StoreReceipt, SetReady, StoreFails, FetchReceipt, NothingToFetch,
         ReceiptNotAvailable, RequeueReceipt
<1>3. \A n \in Blocks : block'[n] /\ Syncing(n)' => block[n] /\ Syncing(n)
  BY <1>1, <1>2 DEF Syncing, Of
<1> QED BY <1>1, <1>3, StillWatched DEF Hooking, Committed

\* A blockSync job watches the block it stores until its hook hands it on, as
\* long as no worker dies in between.
LEMMA BlockSyncWatch ==
  ASSUME TypeOK, BlockWatched, "crashBeforeHook" \notin Operations,
         NEW n \in Blocks, NEW k \in SyncKinds, BlockSyncStep(n, k)
  PROVE  BlockWatched'
<1> USE DEF TypeOK, vars, world, rows, integrity, jobs, SyncJobs
<1>a. ASSUME NEW m \in Blocks, NEW i \in SyncKinds, <<m, i>> # <<n, k>>
      PROVE  SyncEnds(n, k)[m][i] = sync[m][i]
  BY <1>a DEF SyncEnds
<1>b. \A m \in Blocks, i \in SyncKinds, pc \in SyncPcs :
        <<m, i>> # <<n, k>> => SyncPc(n, k, pc)[m][i] = sync[m][i]
  BY DEF SyncPc
<1>c. ASSUME UNCHANGED <<block, tx, stall>>, ~Committed(n, k),
             \A m \in Blocks, i \in SyncKinds :
                <<m, i>> # <<n, k>> /\ Hooking(m, i) => sync'[m][i] = sync[m][i]
      PROVE  BlockWatched'
  <2>1. \A m \in Blocks, i \in SyncKinds : Hooking(m, i) => Hooking(m, i)'
    <3>1. ~Hooking(n, k)
      BY <1>c DEF Hooking
    <3>2. ASSUME NEW m \in Blocks, NEW i \in SyncKinds, Hooking(m, i) PROVE Hooking(m, i)'
      <4>1. <<m, i>> # <<n, k>>
        BY <3>1, <3>2
      <4>2. sync'[m][i] = sync[m][i]
        BY <1>c, <3>2, <4>1
      <4> QED BY <3>2, <4>2 DEF Hooking, Committed
    <3> QED BY <3>2
  <2> QED BY <1>c, <2>1, QueuesWatch
<1>1. CASE FetchBlock(n, k)
  BY <1>1, <1>b, <1>c DEF FetchBlock, Committed, SyncPcs
<1>2. CASE SyncDisabled(n, k)
  BY <1>2, <1>a, <1>c DEF SyncDisabled, Committed
<1>3. CASE FetchBlockFails(n, k)
  <2> DEFINE ended == SyncEnds(n, k)
  <2>1. ended \in [Blocks -> SyncJobs]
    BY SyncPcType
  <2>2. ASSUME NEW m \in Blocks, NEW i \in SyncKinds, <<m, i>> # <<n, k>>, Hooking(m, i)
        PROVE  sync'[m][i] = sync[m][i]
    <3>1. ended[m][i] = sync[m][i]
      BY <1>a, <2>2
    <3>2. ended[m] \in SyncJobs
      BY <2>1
    <3>3. EnqueuedAs(ended[m], Successors(k))[i] = ended[m][i]
      <4>1. Successors(k) \in SUBSET SyncKinds
        BY SuccessorKinds
      <4>2. sync[m][i].pc # "absent"
        BY <2>2 DEF Hooking, Committed
      <4> HIDE DEF ended, TypeOK, SyncJobs
      <4> QED BY <3>1, <3>2, <4>1, <4>2, EnqueuedAsKeeps
    <3>4. sync' \in {ended, [ended EXCEPT ![n] = EnqueuedAs(@, Successors(k))]}
      BY <1>3 DEF FetchBlockFails
    <3> HIDE DEF ended
    <3>5. sync'[m][i] \in {ended[m][i], EnqueuedAs(ended[m], Successors(k))[i]}
      BY <2>1, <3>4
    <3> QED BY <3>1, <3>3, <3>5
  <2> QED BY <1>3, <1>c, <2>2 DEF FetchBlockFails, Committed
<1>4. CASE StoreBlock(n, k)
  <2>1. CASE block[n]
    BY <1>4, <1>a, <1>b, <1>c, <2>1 DEF StoreBlock, Committed, SyncPcs
  <2>2. CASE ~block[n]
    <3>1. Hooking(n, k)'
      BY <1>4, <2>2 DEF StoreBlock, Hooking, Committed
    <3>2. Watched(n)'
      BY <3>1 DEF Watched
    <3>3. ASSUME NEW m \in Blocks, m # n
          PROVE  /\ block'[m] /\ Syncing(m)' => block[m] /\ Syncing(m)
                 /\ stall'[m] = stall[m]
                 /\ \A i \in SyncKinds : Hooking(m, i) => Hooking(m, i)'
      BY <1>4, <2>2, <3>3 DEF StoreBlock, Syncing, Of, Hooking, Committed
    <3> QED BY <3>2, <3>3, StillWatched
  <2> QED BY <2>1, <2>2
<1>5. CASE AfterCommit(n, k)
  <2>1. \A m \in Blocks : stall[m] # "none" => stall'[m] # "none"
    BY <1>5 DEF AfterCommit
  <2>2. ASSUME NEW m \in Blocks, NEW i \in SyncKinds, Hooking(m, i)
        PROVE  Hooking(m, i)' \/ Watched(m)'
    <3>1. CASE <<m, i>> = <<n, k>>
      BY <1>5, <2>2, <3>1 DEF AfterCommit, Hooking, Watched
    <3>2. CASE <<m, i>> # <<n, k>>
      BY <1>5, <1>b, <2>2, <3>2 DEF AfterCommit, Hooking, Committed, SyncPcs
    <3> QED BY <3>1, <3>2
  <2> QED BY <1>5, <2>1, <2>2, StillWatched DEF AfterCommit, Syncing
<1>11. CASE AfterSkipped(n, k)
  BY <1>11, <1>a, <1>c DEF AfterSkipped, Committed
<1>6. CASE NoTransactions(n, k)
  BY <1>6, <1>a, <1>c DEF NoTransactions, Committed
<1>7. CASE QueueReceipts(n, k)
  BY <1>7, <1>a, <1>c DEF QueueReceipts, Committed
<1>8. CASE FetchReceiptsInline(n, k)
  BY <1>8, <1>b, <1>c DEF FetchReceiptsInline, Committed, SyncPcs
<1>9. CASE InlineDone(n, k)
  BY <1>9, <1>a, <1>c DEF InlineDone, Committed
<1>10. CASE BlockSyncDies(n, k)
  <2>1. ~Committed(n, k)
    BY <1>10 DEF BlockSyncDies
  <2>2. sync' = SyncEnds(n, k) \/ sync' = [sync EXCEPT ![n][k] = Waiting]
    BY <1>10 DEF BlockSyncDies
  <2>3. \A m \in Blocks, i \in SyncKinds :
           <<m, i>> # <<n, k>> /\ Hooking(m, i) => sync'[m][i] = sync[m][i]
    BY <1>a, <2>2
  <2> QED BY <1>10, <1>c, <2>1, <2>3 DEF BlockSyncDies
<1> QED
  BY <1>1, <1>2, <1>3, <1>4, <1>5, <1>6, <1>7, <1>8, <1>9, <1>10, <1>11 DEF BlockSyncStep

\* If no worker dies between the commit of a block and its hook, every block
\* with a syncing transaction has a removeStalledBlock job, or a job about to
\* enqueue one.
THEOREM PartialBlocksWatched ==
  ASSUME "crashBeforeHook" \notin Operations
  PROVE  Spec => []BlockWatched
<1>1. Init => BlockWatched
  BY DEF Init, BlockWatched
<1>2. TypeOK /\ BlockWatched /\ [Next]_vars => BlockWatched'
  <2> SUFFICES ASSUME TypeOK, BlockWatched, [Next]_vars PROVE BlockWatched'
    OBVIOUS
  <2>1. CASE UNCHANGED vars
    BY <2>1 DEF vars, rows, jobs, BlockWatched, Syncing, Committed
  <2> QED
    BY <2>1, WorldWatch, CheckWatch, StallWatch, BlockSyncWatch, SaverWatch, BatchWatch DEF Next
<1> QED BY <1>1, <1>2, TypeCorrect, PTL DEF Spec

-----------------------------------------------------------------------------
(* The rows change only as BlockStore lets them.  The abstract steps have  *)
(* conditions on the rows that the code does not check at the time: they   *)
(* follow from what a live job or call knows.                              *)

\* What is known of the rows of blocks and receipts.
RowsAgree ==
  /\ \A t \in Txs : receipt[t] => block[BlockOf[t]]
  /\ \A t \in Txs : tx[t] = "ready" => receipt[t]
  /\ \A n \in Blocks : stall[n] # "none" => block[n]

\* A live job or saver refers to a block that is there, a live saver that is
\* about to set the state of a transaction to its receipt.
LiveJobs ==
  /\ \A n \in Blocks, k \in SyncKinds : sync[n][k].live => block[n]
  /\ \A t \in Txs, k \in SaverKinds :
       saver[t][k].live =>
         /\ block[BlockOf[t]]
         /\ saver[t][k].pc = "saved" => receipt[t]

RowInv == RowsAgree /\ LiveJobs

\* The steps that leave the rows alone and make no job live that was not.
LEMMA JobsAgree ==
  ASSUME TypeOK, RowInv, UNCHANGED rows,
         \A n \in Blocks : stall'[n] # "none" => block[n],
         \A n \in Blocks, k \in SyncKinds : sync'[n][k].live => block[n],
         \A t \in Txs, k \in SaverKinds :
           \/ saver'[t][k] = saver[t][k]
           \/ saver'[t][k].live => block[BlockOf[t]] /\ saver'[t][k].pc # "saved"
  PROVE  RowInv'
BY DEF RowInv, RowsAgree, LiveJobs, rows

\* The step of the rows that a step of the system is.
RowsStep ==
  [Store!Next]_<<{n \in Blocks : block[n]}, {t \in Txs : receipt[t]},
                 {t \in Txs : tx[t] = "ready"}>>

\* A block goes with its transactions and receipts, and with all that knows
\* them.
LEMMA RemoveBlockAgrees ==
  ASSUME TypeOK, RowInv, NEW n \in Blocks, RemoveBlock(n)
  PROVE  RowInv'
<1> USE DEF TypeOK, RowInv
<1>1. RowsAgree'
  BY ConstantsAssumption DEF RowsAgree, RemoveBlock, Of
<1>2. \A m \in Blocks, k \in SyncKinds : sync'[m][k].live => block'[m]
  <2>1. ASSUME NEW m \in Blocks, NEW k \in SyncKinds, sync'[m][k].live PROVE block'[m]
    <3>1. [sync[n][k] EXCEPT !.live = FALSE].live = FALSE
      BY DEF Job
    <3>2. m # n
      BY <2>1, <3>1 DEF RemoveBlock
    <3> QED BY <2>1, <3>2 DEF RemoveBlock, LiveJobs
  <2> QED BY <2>1
<1>3. ASSUME NEW t \in Txs, NEW k \in SaverKinds, saver'[t][k].live
      PROVE  block'[BlockOf[t]] /\ (saver'[t][k].pc = "saved" => receipt'[t])
  <2>1. [saver[t][k] EXCEPT !.live = FALSE].live = FALSE
    BY DEF Job
  <2>2. t \notin Of(n)
    BY <1>3, <2>1 DEF RemoveBlock
  <2>3. saver'[t][k] = saver[t][k] /\ receipt'[t] = receipt[t]
    BY <2>2 DEF RemoveBlock
  <2>4. BlockOf[t] \in Blocks /\ BlockOf[t] # n
    BY <2>2, ConstantsAssumption DEF Of
  <2>5. block'[BlockOf[t]] = block[BlockOf[t]]
    BY <2>4 DEF RemoveBlock
  <2> QED BY <1>3, <2>3, <2>5 DEF LiveJobs
<1> QED BY <1>1, <1>2, <1>3 DEF LiveJobs

\* It is the removal of BlockStore.
LEMMA RemoveBlockImplements ==
  ASSUME TypeOK, RowInv, NEW n \in Blocks, block[n], RemoveBlock(n)
  PROVE  Store!RemoveBlock(n)
BY DEF TypeOK, RowInv, RowsAgree, RemoveBlock, Store!RemoveBlock, Store!Of, Of

\* A step that leaves the rows alone is a stuttering step of theirs.
LEMMA RowsStutter ==
  ASSUME UNCHANGED rows
  PROVE  RowsStep
BY DEF rows, RowsStep

\* Moving a saver on keeps what it knows, ending it forgets that.
LEMMA SaverKeeps ==
  ASSUME TypeOK, NEW t \in Txs, NEW k \in SaverKinds, NEW pc
  PROVE  /\ SaverPc(t, k, pc)[t][k] = [pc |-> pc, live |-> saver[t][k].live]
         /\ ~SaverEnds(t, k)[t][k].live
<1>1. saver[t][k] \in Job(SaverPcs)
  BY DEF TypeOK
<1>2. [saver[t][k] EXCEPT !.pc = pc] = [pc |-> pc, live |-> saver[t][k].live]
  BY <1>1 DEF Job
<1>3. SaverPc(t, k, pc)[t][k] = [saver[t][k] EXCEPT !.pc = pc]
  BY DEF TypeOK, SaverPc
<1>4. ~EndedSaver(k).live
  BY DEF EndedSaver, Absent, Done
<1>5. ~SaverEnds(t, k)[t][k].live
  BY <1>4 DEF TypeOK, SaverEnds
<1> QED BY <1>2, <1>3, <1>5

\* A saver that stores a receipt, makes its transaction ready, or gives up.
LEMMA SaverImplements ==
  ASSUME TypeOK, RowInv, NEW t \in Txs, NEW k \in SaverKinds, SaverStep(t, k)
  PROVE  RowInv' /\ RowsStep
<1> USE ConstantsAssumption DEF TypeOK, RowInv, world, integrity
<1>a. \A u \in Txs, i \in SaverKinds :
         <<u, i>> # <<t, k>> => SaverEnds(t, k)[u][i] = saver[u][i]
  BY DEF SaverEnds
<1>b. \A u \in Txs, i \in SaverKinds, pc \in SaverPcs :
         <<u, i>> # <<t, k>> => SaverPc(t, k, pc)[u][i] = saver[u][i]
  BY DEF SaverPc
<1>c. ~SaverEnds(t, k)[t][k].live
  BY SaverKeeps
<1>d. \A pc : SaverPc(t, k, pc)[t][k] = [pc |-> pc, live |-> saver[t][k].live]
  BY SaverKeeps
<1>e. \A n \in Blocks, i \in SyncKinds : sync[n][i].live => block[n]
  BY DEF LiveJobs
<1>f. \A n \in Blocks : stall[n] # "none" => block[n]
  BY DEF RowsAgree
<1>g. saver[t][k].live => block[BlockOf[t]]
  BY DEF LiveJobs
\* Ending or moving the saver without touching the rows.
<1>h. ASSUME UNCHANGED <<rows, sync, stall>>,
             \/ saver' = SaverEnds(t, k)
             \/ \E pc \in SaverPcs \ {"saved"} : saver' = SaverPc(t, k, pc)
      PROVE  RowInv' /\ RowsStep
  <2>1. ASSUME NEW u \in Txs, NEW i \in SaverKinds
        PROVE  \/ saver'[u][i] = saver[u][i]
               \/ saver'[u][i].live => block[BlockOf[u]] /\ saver'[u][i].pc # "saved"
    <3>1. CASE <<u, i>> # <<t, k>>
      BY <1>h, <1>a, <1>b, <3>1
    <3>2. CASE <<u, i>> = <<t, k>>
      <4>1. CASE saver' = SaverEnds(t, k)
        BY <1>c, <3>2, <4>1
      <4>2. ASSUME NEW pc \in SaverPcs \ {"saved"}, saver' = SaverPc(t, k, pc)
            PROVE  saver'[u][i].live => block[BlockOf[u]] /\ saver'[u][i].pc # "saved"
        <5>1. saver'[t][k] = [pc |-> pc, live |-> saver[t][k].live]
          BY <1>d, <4>2
        <5> QED BY <1>g, <3>2, <5>1
      <4> QED BY <1>h, <4>1, <4>2
    <3> QED BY <3>1, <3>2
  <2> QED BY <1>e, <1>f, <1>h, <2>1, JobsAgree, RowsStutter
<1>1. CASE StoreReceipt(t, k)
  <2>1. CASE saver[t][k].live /\ ~receipt[t]
    <3>1. receipt' = [receipt EXCEPT ![t] = TRUE] /\ saver' = SaverPc(t, k, "saved")
      BY <1>1, <2>1 DEF StoreReceipt
    <3>2. RowsAgree'
      BY <1>1, <1>g, <2>1, <3>1 DEF StoreReceipt, RowsAgree
    <3>3. LiveJobs'
      <4>1. saver'[t][k] = [pc |-> "saved", live |-> saver[t][k].live]
        BY <1>d, <3>1
      <4>2. ASSUME NEW u \in Txs, NEW i \in SaverKinds, <<u, i>> # <<t, k>>
            PROVE  saver'[u][i] = saver[u][i]
        BY <1>b, <3>1, <4>2 DEF SaverPcs
      <4> QED BY <1>1, <1>g, <3>1, <4>1, <4>2 DEF StoreReceipt, LiveJobs
    <3>4. Store!StoreReceipt(t)
      BY <1>1, <1>g, <2>1, <3>1 DEF StoreReceipt, Store!StoreReceipt
    <3> QED BY <3>2, <3>3, <3>4 DEF RowsStep, Store!Next
  <2>2. CASE ~(saver[t][k].live /\ ~receipt[t])
    BY <1>1, <1>h, <2>2 DEF StoreReceipt, rows
  <2> QED BY <2>1, <2>2
<1>2. CASE SetReady(t, k)
  <2>1. CASE saver[t][k].live /\ tx[t] # "ready"
    <3>1. receipt[t] /\ tx' = [tx EXCEPT ![t] = "ready"] /\ saver' = SaverEnds(t, k)
      BY <1>2, <2>1 DEF SetReady, LiveJobs
    <3>2. RowsAgree'
      BY <1>2, <3>1 DEF SetReady, RowsAgree
    <3>3. LiveJobs'
      <4>1. ASSUME NEW u \in Txs, NEW i \in SaverKinds, saver'[u][i].live
            PROVE  saver'[u][i] = saver[u][i]
        <5>1. <<u, i>> # <<t, k>>
          BY <1>c, <3>1, <4>1
        <5> QED BY <1>a, <3>1, <5>1
      <4>2. UNCHANGED <<block, receipt, sync>>
        BY <1>2 DEF SetReady
      <4> QED BY <4>1, <4>2 DEF LiveJobs
    <3>4. Store!SetReady(t)
      BY <1>2, <2>1, <3>1 DEF SetReady, Store!SetReady
    <3> QED BY <3>2, <3>3, <3>4 DEF RowsStep, Store!Next
  <2>2. CASE ~(saver[t][k].live /\ tx[t] # "ready")
    <3>1. tx' = tx
      BY <1>2, <2>2 DEF SetReady
    <3> QED BY <1>2, <1>h, <3>1 DEF SetReady, rows
  <2> QED BY <2>1, <2>2
<1>3. CASE StoreFails(t, k)
  BY <1>3, <1>h DEF StoreFails, SaverPcs
<1>4. CASE FetchReceipt(t, k)
  BY <1>4, <1>h DEF FetchReceipt, SaverPcs
<1>5. CASE NothingToFetch(t, k)
  BY <1>5, <1>h DEF NothingToFetch
<1>6. CASE ReceiptNotAvailable(t, k)
  BY <1>6, <1>h DEF ReceiptNotAvailable
<1>7. CASE RequeueReceipt(t, k)
  <2> DEFINE retry == [pc |-> "waiting", live |-> TRUE]
             requeued == [SaverEnds(t, k) EXCEPT ![t]["retry"] = retry]
  <2>1. CASE saver' = SaverEnds(t, k)
    BY <1>7, <1>h, <2>1 DEF RequeueReceipt
  <2>2. CASE saver' = requeued
    <3>1. block[BlockOf[t]]
      BY <1>7, <1>g DEF RequeueReceipt, ToFetch
    <3>2. ASSUME NEW u \in Txs, NEW i \in SaverKinds
          PROVE  \/ saver'[u][i] = saver[u][i]
                 \/ saver'[u][i].live => block[BlockOf[u]] /\ saver'[u][i].pc # "saved"
      <4>1. SaverEnds(t, k) \in [Txs -> [SaverKinds -> Job(SaverPcs)]]
        BY SaverPcType DEF SaverJobs
      <4>2. requeued[u][i] = IF u = t /\ i = "retry" THEN retry ELSE SaverEnds(t, k)[u][i]
        BY <4>1
      <4> HIDE DEF requeued
      <4> QED BY <1>a, <1>c, <2>2, <3>1, <4>2
    <3> QED BY <1>7, <1>e, <1>f, <3>2, JobsAgree, RowsStutter DEF RequeueReceipt
  <2> QED BY <1>7, <2>1, <2>2 DEF RequeueReceipt
<1> QED BY <1>1, <1>2, <1>3, <1>4, <1>5, <1>6, <1>7 DEF SaverStep

\* The world makes no job that knows a row.
LEMMA WorldImplements ==
  ASSUME TypeOK, RowInv, WorldStep
  PROVE  RowInv' /\ RowsStep
<1> USE DEF TypeOK, world, integrity, jobs
<1>a. ASSUME UNCHANGED <<rows, stall>>,
             \A n \in Blocks, k \in SyncKinds : sync'[n][k].live => sync[n][k].live,
             \A t \in Txs, k \in SaverKinds :
               saver'[t][k] = saver[t][k] \/ ~saver'[t][k].live
      PROVE  RowInv' /\ RowsStep
  BY <1>a, JobsAgree, RowsStutter DEF RowInv, RowsAgree, LiveJobs
<1>1. CASE NewBlock
  <2>1. ASSUME NEW n \in Blocks, NEW k \in SyncKinds, sync'[n][k].live PROVE sync[n][k].live
    <3>1. sync'[n] \in {sync[n], Enqueued(sync[n])}
      BY <1>1 DEF NewBlock
    <3>2. sync[n] \in SyncJobs
      BY DEF SyncJobs
    <3>3. Enqueued(sync[n])[k] \in {sync[n][k], Waiting}
      BY <3>2, EnqueuedKeeps
    <3> QED BY <2>1, <3>1, <3>3 DEF Waiting
  <2> QED BY <1>1, <1>a, <2>1 DEF NewBlock
<1>2. CASE RpcChanges \/ RpcHealthCheck
  BY <1>2, <1>a DEF RpcChanges, RpcHealthCheck
<1>3. CASE SyncSwitched
  BY <1>3, <1>a DEF SyncSwitched
<1>4. CASE DestroyIntegrityCheck
  BY <1>4, <1>a DEF DestroyIntegrityCheck
<1>5. ASSUME NEW n \in Blocks, ForgetSync(n) PROVE RowInv' /\ RowsStep
  <2>1. \A m \in Blocks, k \in SyncKinds : sync'[m][k].live => sync[m][k].live
    BY <1>5 DEF ForgetSync, Absent
  <2> QED BY <1>5, <1>a, <2>1 DEF ForgetSync
<1>6. ASSUME NEW n \in Blocks, DeleteBlock(n) PROVE RowInv' /\ RowsStep
  <2>1. block[n] /\ RemoveBlock(n)
    BY <1>6 DEF DeleteBlock
  <2>2. Store!RemoveBlock(n)
    BY <2>1, RemoveBlockImplements
  <2> QED BY <2>1, <2>2, RemoveBlockAgrees DEF RowsStep, Store!Next
<1>7. ASSUME NEW t \in Txs, ForgetReceipt(t) PROVE RowInv' /\ RowsStep
  <2>1. \A u \in Txs, k \in SaverKinds : saver'[u][k] = saver[u][k] \/ ~saver'[u][k].live
    BY <1>7 DEF ForgetReceipt, Absent
  <2> QED BY <1>7, <1>a, <2>1 DEF ForgetReceipt
<1>8. ASSUME NEW r \in Ranges, ForgetBatch(r) PROVE RowInv' /\ RowsStep
  BY <1>8, <1>a DEF ForgetBatch
<1> QED BY <1>1, <1>2, <1>3, <1>4, <1>5, <1>6, <1>7, <1>8 DEF WorldStep

\* The integrity check makes no job that knows a row.
LEMMA CheckImplements ==
  ASSUME TypeOK, RowInv, CheckStep
  PROVE  RowInv' /\ RowsStep
<1> USE DEF TypeOK, world
<1>1. UNCHANGED <<rows, stall, saver>>
  BY DEF CheckStep, SyncStart, ReadLatest, AdvanceCursor, CheckDies, ScanGaps
<1>2. \A n \in Blocks : sync'[n] \in {sync[n], Enqueued(sync[n])}
  BY DEF CheckStep, SyncStart, ReadLatest, AdvanceCursor, CheckDies, ScanGaps
<1>3. ASSUME NEW n \in Blocks, NEW k \in SyncKinds, sync'[n][k].live PROVE sync[n][k].live
  <2>1. sync[n] \in SyncJobs
    BY DEF SyncJobs
  <2>2. Enqueued(sync[n])[k] \in {sync[n][k], Waiting}
    BY <2>1, EnqueuedKeeps
  <2> QED BY <1>2, <1>3, <2>2 DEF Waiting
<1>4. \A n \in Blocks : stall'[n] # "none" => block[n]
  BY <1>1 DEF RowInv, RowsAgree
<1>5. \A n \in Blocks, k \in SyncKinds : sync'[n][k].live => block[n]
  BY <1>3 DEF RowInv, LiveJobs
<1>6. UNCHANGED rows /\ UNCHANGED saver
  BY <1>1
<1> HIDE DEF TypeOK
<1> QED BY <1>4, <1>5, <1>6, JobsAgree, RowsStutter

\* Nor does a batch.
LEMMA BatchImplements ==
  ASSUME TypeOK, RowInv, NEW r \in Ranges, NEW i \in {"batch", "own"},
         NEW room \in Rooms, BatchBlockSync(r, i, room)
  PROVE  RowInv' /\ RowsStep
<1> USE DEF TypeOK, world
<1>1. UNCHANGED <<rows, stall, saver>>
  BY DEF BatchBlockSync
<1>2. \A n \in Blocks : sync'[n] \in {sync[n], BulkEnqueued(sync[n], "batch", Waiting)}
  BY DEF BatchBlockSync
<1>3. ASSUME NEW n \in Blocks, NEW k \in SyncKinds, sync'[n][k].live PROVE sync[n][k].live
  <2>1. sync[n] \in SyncJobs
    BY DEF SyncJobs
  <2> HIDE DEF TypeOK
  <2>2. BulkEnqueued(sync[n], "batch", Waiting)[k] \in {sync[n][k], Waiting}
    BY <2>1, BatchKind DEF BulkEnqueued, SyncJobs
  <2> QED BY <1>2, <1>3, <2>2 DEF Waiting
<1>4. \A n \in Blocks : stall'[n] # "none" => block[n]
  BY <1>1 DEF RowInv, RowsAgree
<1>5. \A n \in Blocks, k \in SyncKinds : sync'[n][k].live => block[n]
  BY <1>3 DEF RowInv, LiveJobs
<1>6. UNCHANGED rows /\ UNCHANGED saver
  BY <1>1
<1> HIDE DEF TypeOK
<1> QED BY <1>4, <1>5, <1>6, JobsAgree, RowsStutter

\* removeStalledBlock reverts a block only while its job is there, and the job
\* goes with the block.
LEMMA StallImplements ==
  ASSUME TypeOK, RowInv, NEW n \in Blocks, StallStep(n)
  PROVE  RowInv' /\ RowsStep
<1> USE DEF TypeOK, world, integrity
<1>1. CASE RevertPartial(n)
  <2>1. block[n] /\ RemoveBlock(n)
    BY <1>1 DEF RevertPartial, RowInv, RowsAgree
  <2>2. Store!RemoveBlock(n)
    BY <2>1, RemoveBlockImplements
  <2> QED BY <2>1, <2>2, RemoveBlockAgrees DEF RowsStep, Store!Next
<1>2. CASE CountSyncing(n) \/ KeepBlock(n) \/ RevertFails(n)
  <2>1. UNCHANGED <<rows, sync, saver>>
    BY <1>2 DEF CountSyncing, KeepBlock, RevertFails
  <2>2. \A m \in Blocks : stall'[m] # "none" => stall[m] # "none"
    BY <1>2 DEF CountSyncing, KeepBlock, RevertFails
  <2> QED BY <2>1, <2>2, JobsAgree, RowsStutter DEF RowInv, RowsAgree, LiveJobs
<1> QED BY <1>1, <1>2 DEF StallStep

\* The receiptSync jobs of a block know the rows its blockSync job knows.
LEMMA WithReceiptJobsKnow ==
  ASSUME TypeOK, NEW n \in Blocks, NEW k \in SyncKinds, NEW ts \in SUBSET Of(n),
         NEW t \in Txs, NEW i \in SaverKinds
  PROVE  LET job == WithReceiptJobs(ts, n, k)[t][i]
         IN \/ job = saver[t][i]
            \/ ~job.live
            \/ t \in Of(n) /\ sync[n][k].live /\ job.pc = "waiting"
<1> DEFINE js == [saver[t] EXCEPT ![k] = IF t \in Of(n) THEN Absent ELSE @]
           new == [pc |-> "waiting", live |-> sync[n][k].live]
<1>1. js \in [SaverKinds -> Job(SaverPcs)]
  BY ConstantJobs DEF TypeOK, SaverKinds
<1>2. js[i] = saver[t][i] \/ ~js[i].live
  BY DEF TypeOK, Absent
<1>3. WithReceiptJobs(ts, n, k)[t] = IF t \in ts THEN BulkEnqueued(js, "receiptSync", new) ELSE js
  BY DEF WithReceiptJobs
<1> HIDE DEF js
<1>4. BulkEnqueued(js, "receiptSync", new)[i] \in {js[i], new}
  BY <1>1 DEF BulkEnqueued
<1> QED BY <1>2, <1>3, <1>4

\* A blockSync job knows the block it stored as long as it is there, and so do
\* the savers and jobs it makes.
LEMMA BlockSyncImplements ==
  ASSUME TypeOK, RowInv, NEW n \in Blocks, NEW k \in SyncKinds, BlockSyncStep(n, k)
  PROVE  RowInv' /\ RowsStep
<1> USE DEF TypeOK, world, integrity
<1>a. ASSUME NEW m \in Blocks, NEW i \in SyncKinds
      PROVE  SyncEnds(n, k)[m][i] = sync[m][i] \/ ~SyncEnds(n, k)[m][i].live
  BY DEF SyncEnds, EndedSync, Absent, Done
<1>b. ASSUME NEW m \in Blocks, NEW i \in SyncKinds, NEW pc
      PROVE  SyncPc(n, k, pc)[m][i].live = sync[m][i].live
  <2>1. sync[m][i] \in Job(SyncPcs)
    OBVIOUS
  <2>2. [sync[m][i] EXCEPT !.pc = pc].live = sync[m][i].live
    BY <2>1 DEF Job
  <2>3. SyncPc(n, k, pc)[m][i] \in {sync[m][i], [sync[m][i] EXCEPT !.pc = pc]}
    BY DEF SyncPc
  <2> QED BY <2>2, <2>3
<1>c. sync[n][k].live => block[n]
  BY DEF RowInv, LiveJobs
\* Moving or ending the job without touching the rows.
<1>d. ASSUME UNCHANGED rows,
             \A m \in Blocks : stall'[m] # "none" => block[m],
             \/ sync' = SyncEnds(n, k)
             \/ \E pc : sync' = SyncPc(n, k, pc),
             \A t \in Txs, i \in SaverKinds :
               \/ saver'[t][i] = saver[t][i]
               \/ ~saver'[t][i].live
               \/ t \in Of(n) /\ sync[n][k].live /\ saver'[t][i].pc # "saved"
      PROVE  RowInv' /\ RowsStep
  <2>1. ASSUME NEW m \in Blocks, NEW i \in SyncKinds, sync'[m][i].live PROVE block[m]
    <3>1. sync[m][i].live
      BY <1>a, <1>b, <1>d, <2>1
    <3> QED BY <3>1 DEF RowInv, LiveJobs
  <2>2. \A t \in Of(n) : BlockOf[t] = n
    BY DEF Of
  <2>3. \A t \in Txs, i \in SaverKinds :
           \/ saver'[t][i] = saver[t][i]
           \/ saver'[t][i].live => block[BlockOf[t]] /\ saver'[t][i].pc # "saved"
    BY <1>c, <1>d, <2>2
  <2> QED BY <1>d, <2>1, <2>3, JobsAgree, RowsStutter
<1>e. \A m \in Blocks : stall[m] # "none" => block[m]
  BY DEF RowInv, RowsAgree
<1>1. CASE FetchBlock(n, k)
  BY <1>1, <1>d, <1>e DEF FetchBlock
<1>2. CASE SyncDisabled(n, k)
  BY <1>2, <1>d, <1>e DEF SyncDisabled
<1>3. CASE FetchBlockFails(n, k)
  <2> DEFINE ended == SyncEnds(n, k)
  <2>1. ended \in [Blocks -> SyncJobs]
    BY SyncPcType DEF SyncJobs
  <2>2. ASSUME NEW m \in Blocks, NEW i \in SyncKinds, sync'[m][i].live PROVE block[m]
    <3>1. sync' \in {ended, [ended EXCEPT ![n] = EnqueuedAs(@, Successors(k))]}
      BY <1>3 DEF FetchBlockFails
    <3>2. EnqueuedAs(ended[m], Successors(k))[i] \in {ended[m][i], Waiting}
      <4>1. ended[m] \in SyncJobs
        BY <2>1
      <4> QED BY <4>1, EnqueuedAsKeeps, SuccessorKinds
    <3>3. ended[m][i] = sync[m][i] \/ ~ended[m][i].live
      BY <1>a
    <3> HIDE DEF ended
    <3>4. sync'[m][i] \in {ended[m][i], Waiting}
      BY <2>1, <3>1, <3>2
    <3>5. sync[m][i].live
      BY <2>2, <3>3, <3>4 DEF Waiting
    <3> QED BY <3>5 DEF RowInv, LiveJobs
  <2> QED BY <1>3, <1>e, <2>2, JobsAgree, RowsStutter DEF FetchBlockFails
<1>4. CASE StoreBlock(n, k)
  <2>1. CASE block[n]
    BY <1>4, <1>d, <1>e, <2>1 DEF StoreBlock, rows
  <2>2. CASE ~block[n]
    <3>1. block' = [block EXCEPT ![n] = TRUE]
          /\ tx' = [t \in Txs |-> IF t \in Of(n) THEN "syncing" ELSE tx[t]]
          /\ UNCHANGED <<receipt, stall, saver>>
      BY <1>4, <2>2 DEF StoreBlock
    <3>2. ASSUME NEW t \in Of(n) PROVE tx[t] # "ready"
      BY <2>2, <3>2 DEF RowInv, RowsAgree, Of
    <3>3. RowsAgree'
      BY <3>1, ConstantsAssumption DEF RowInv, RowsAgree
    <3>4. \A m \in Blocks, i \in SyncKinds : sync'[m][i].live => block'[m]
      BY <1>4, <2>2, <3>1 DEF StoreBlock, RowInv, LiveJobs
    <3>5. LiveJobs'
      BY <3>1, <3>4, ConstantsAssumption DEF RowInv, LiveJobs
    <3>6. {t \in Txs : tx'[t] = "ready"} = {t \in Txs : tx[t] = "ready"}
      BY <3>1, <3>2
    <3>7. {m \in Blocks : block'[m]} = {m \in Blocks : block[m]} \cup {n}
      BY <3>1
    <3>8. Store!StoreBlock(n)
      BY <2>2, <3>1, <3>6, <3>7 DEF Store!StoreBlock
    <3> QED BY <3>3, <3>5, <3>8 DEF RowInv, RowsStep, Store!Next
  <2> QED BY <2>1, <2>2
<1>5. CASE AfterCommit(n, k)
  <2>1. \A m \in Blocks : stall'[m] # "none" => block[m]
    BY <1>5, <1>c, <1>e DEF AfterCommit
  <2> QED BY <1>5, <1>d, <2>1 DEF AfterCommit
<1>11. CASE AfterSkipped(n, k)
  BY <1>11, <1>d, <1>e DEF AfterSkipped
<1>6. CASE NoTransactions(n, k)
  BY <1>6, <1>d, <1>e DEF NoTransactions
<1>7. CASE QueueReceipts(n, k)
  <2>1. ASSUME NEW t \in Txs, NEW i \in SaverKinds
        PROVE  \/ saver'[t][i] = saver[t][i]
               \/ ~saver'[t][i].live
               \/ t \in Of(n) /\ sync[n][k].live /\ saver'[t][i].pc # "saved"
    BY <1>7, WithReceiptJobsKnow DEF QueueReceipts
  <2> QED BY <1>7, <1>d, <1>e, <2>1 DEF QueueReceipts
<1>8. CASE FetchReceiptsInline(n, k)
  <2>1. PICK missing \in SUBSET Of(n) :
          saver' = [t \in Txs |->
              IF t \in Of(n)
                THEN [saver[t] EXCEPT ![k] =
                        [pc |-> IF t \in missing THEN "failed" ELSE "fetched",
                         live |-> sync[n][k].live]]
                ELSE saver[t]]
    BY <1>8 DEF FetchReceiptsInline
  <2>2. ASSUME NEW t \in Txs, NEW i \in SaverKinds
        PROVE  \/ saver'[t][i] = saver[t][i]
               \/ ~saver'[t][i].live
               \/ t \in Of(n) /\ sync[n][k].live /\ saver'[t][i].pc # "saved"
    BY <2>1
  <2> QED BY <1>8, <1>d, <1>e, <2>2 DEF FetchReceiptsInline
<1>9. CASE InlineDone(n, k)
  <2> DEFINE failed == {t \in Of(n) : saver[t][k].pc = "failed"}
  <2>1. saver' = WithReceiptJobs(failed, n, k)
    BY <1>9 DEF InlineDone
  <2>2. failed \in SUBSET Of(n)
    OBVIOUS
  <2> HIDE DEF failed
  <2>3. ASSUME NEW t \in Txs, NEW i \in SaverKinds
        PROVE  \/ saver'[t][i] = saver[t][i]
               \/ ~saver'[t][i].live
               \/ t \in Of(n) /\ sync[n][k].live /\ saver'[t][i].pc # "saved"
    BY <2>1, <2>2, WithReceiptJobsKnow
  <2> QED BY <1>9, <1>d, <1>e, <2>3 DEF InlineDone
<1>10. CASE BlockSyncDies(n, k)
  <2>1. \A m \in Blocks, i \in SyncKinds : sync'[m][i] = sync[m][i] \/ ~sync'[m][i].live
    <3>1. CASE sync' = SyncEnds(n, k)
      BY <1>a, <3>1
    <3>2. CASE sync' = [sync EXCEPT ![n][k] = Waiting]
      BY <3>2 DEF Waiting
    <3> QED BY <1>10, <3>1, <3>2 DEF BlockSyncDies
  <2>2. \A t \in Txs, i \in SaverKinds : saver'[t][i] = saver[t][i] \/ ~saver'[t][i].live
    BY <1>10 DEF BlockSyncDies, Absent
  <2>3. UNCHANGED <<rows, stall>>
    BY <1>10 DEF BlockSyncDies
  <2> QED BY <2>1, <2>2, <2>3, JobsAgree, RowsStutter DEF RowInv, RowsAgree, LiveJobs
<1> QED
  BY <1>1, <1>2, <1>3, <1>4, <1>5, <1>6, <1>7, <1>8, <1>9, <1>10, <1>11 DEF BlockSyncStep

\* The rows implement BlockStore: whatever overlaps, fails, is deleted or is
\* synchronised again, blocks come and go with their receipts, and nothing is
\* ready without its receipt or taken back while its block is there.
THEOREM RowsImplementStore == Spec => StoreSpec
<1>1. Init => RowInv /\ Store!Init
  BY DEF Init, RowInv, RowsAgree, LiveJobs, Store!Init, Absent
<1>2. TypeOK /\ RowInv /\ [Next]_vars => RowInv' /\ RowsStep
  <2> SUFFICES ASSUME TypeOK, RowInv, [Next]_vars PROVE RowInv' /\ RowsStep
    OBVIOUS
  <2>1. CASE UNCHANGED vars
    BY <2>1, JobsAgree, RowsStutter DEF vars, rows, jobs, RowInv, RowsAgree, LiveJobs
  <2> QED
    BY <2>1, WorldImplements, CheckImplements, StallImplements, BlockSyncImplements,
       SaverImplements, BatchImplements DEF Next
<1> QED BY <1>1, <1>2, TypeCorrect, PTL DEF Spec, StoreSpec, Store!Spec, RowsStep

-----------------------------------------------------------------------------
(* Nothing is asked for that the chain does not have.                      *)

\* What an integrity check has read is not past the head either, and a scan
\* starts from a block that was ready.
CheckBehindHead ==
  /\ check.ready <= head /\ check.head <= head
  /\ check.pc # "idle" => check.ready \in Blocks

HeadInv == NothingPastHead /\ CheckBehindHead

\* Steps that let the chain, the check and the ranges be, and add no block or job
\* but for numbers up to the head.
LEMMA UpToHead ==
  ASSUME TypeOK, HeadInv, UNCHANGED <<head, check, batch>>,
         start' \in Int, start' <= head, cursor' \in Int, cursor' <= head,
         \A n \in Blocks : n > head =>
            /\ block'[n] => block[n]
            /\ \A k \in SyncKinds : sync[n][k].pc = "absent" => sync'[n][k].pc = "absent"
  PROVE  HeadInv'
BY DEF HeadInv, NothingPastHead, CheckBehindHead, TypeOK

\* Types that arithmetic needs to know.
LEMMA Numbers ==
  ASSUME TypeOK
  PROVE  /\ head \in Int /\ start \in Int /\ cursor \in Int
         /\ check.ready \in Int /\ check.head \in Int /\ check.lower \in Int /\ check.from \in Int
         /\ Blocks \subseteq Nat
BY ConstantsAssumption DEF TypeOK, Blocks, None

\* Removing a block adds nothing.
LEMMA RemoveBlockUpToHead ==
  ASSUME TypeOK, HeadInv, NEW n \in Blocks, RemoveBlock(n),
         UNCHANGED <<world, integrity, check, batch>>
  PROVE  HeadInv'
<1> USE DEF TypeOK, world, integrity
<1>1. \A m \in Blocks : block'[m] => block[m]
  BY DEF RemoveBlock
<1>2. \A m \in Blocks, k \in SyncKinds : sync'[m][k].pc = sync[m][k].pc
  BY DEF RemoveBlock, Job
<1>3. start \in Int /\ cursor \in Int /\ start <= head /\ cursor <= head
  BY Numbers DEF HeadInv, NothingPastHead
<1> QED BY <1>1, <1>2, <1>3, UpToHead

\* The world announces a block once the chain has it.
LEMMA WorldUpToHead ==
  ASSUME TypeOK, HeadInv, WorldStep
  PROVE  HeadInv'
<1> USE DEF TypeOK, world, rows, integrity, jobs
<1>a. start \in Int /\ cursor \in Int /\ head \in Int /\ Blocks \subseteq Nat
      /\ start <= head /\ cursor <= head
  BY Numbers DEF HeadInv, NothingPastHead
<1>1. CASE NewBlock
  <2>1. head' = head + 1 /\ UNCHANGED <<block, start, cursor, check, batch>>
    BY <1>1 DEF NewBlock
  <2>2. \A n \in Blocks : n > head + 1 => sync'[n] = sync[n]
    BY <1>1, <1>a DEF NewBlock
  <2>3. /\ \A r \in Ranges : r[2] \in Int
        /\ check.ready \in Int /\ check.head \in Int
    BY Numbers DEF Ranges
  <2>4. NothingPastHead'
    BY <2>1, <2>2, <2>3, <1>a DEF HeadInv, NothingPastHead
  <2>5. CheckBehindHead'
    BY <2>1, <2>3, <1>a DEF HeadInv, CheckBehindHead
  <2> QED BY <2>4, <2>5 DEF HeadInv
<1>2. CASE RpcChanges \/ RpcHealthCheck
  BY <1>2, <1>a, UpToHead DEF RpcChanges, RpcHealthCheck
<1>3. CASE SyncSwitched
  BY <1>3, <1>a, UpToHead DEF SyncSwitched
<1>4. CASE DestroyIntegrityCheck
  <2>1. None \in Int /\ None <= head
    BY DEF None, Blocks
  <2> QED BY <1>4, <2>1, UpToHead DEF DestroyIntegrityCheck
<1>5. ASSUME NEW n \in Blocks, ForgetSync(n) PROVE HeadInv'
  <2>1. \A m \in Blocks, k \in SyncKinds : sync'[m][k] \in {sync[m][k], Absent}
    BY <1>5 DEF ForgetSync
  <2> QED BY <1>5, <2>1, <1>a, UpToHead DEF ForgetSync, Absent
<1>6. ASSUME NEW n \in Blocks, DeleteBlock(n) PROVE HeadInv'
  BY <1>6, RemoveBlockUpToHead DEF DeleteBlock
<1>7. ASSUME NEW t \in Txs, ForgetReceipt(t) PROVE HeadInv'
  BY <1>7, <1>a, UpToHead DEF ForgetReceipt
<1>8. ASSUME NEW r \in Ranges, ForgetBatch(r) PROVE HeadInv'
  <2>1. \A s \in Ranges, k \in {"batch", "own"} : batch'[s][k] \in {batch[s][k], "absent"}
    BY <1>8 DEF ForgetBatch
  <2> QED BY <1>8, <2>1 DEF ForgetBatch, HeadInv, NothingPastHead, CheckBehindHead
<1> QED BY <1>1, <1>2, <1>3, <1>4, <1>5, <1>6, <1>7, <1>8 DEF WorldStep

\* A range is a pair of numbers.
LEMMA RangeNumbers ==
  ASSUME NEW r \in Ranges
  PROVE  /\ r[1] \in Nat /\ r[2] \in Nat /\ r[1] <= r[2] /\ r[2] <= MaxBlock
         /\ r[1] >= 1 /\ r = <<r[1], r[2]>>
BY ConstantsAssumption DEF Ranges

\* The integrity check asks for what lies between the blocks it knows.
LEMMA CheckUpToHead ==
  ASSUME TypeOK, HeadInv, CheckStep
  PROVE  HeadInv'
<1> USE DEF TypeOK, world, rows, integrity, jobs
<1>a. /\ start \in Int /\ cursor \in Int /\ head \in Int /\ Blocks \subseteq Nat
      /\ start <= head /\ cursor <= head
  BY Numbers DEF HeadInv, NothingPastHead
<1>1. CASE SyncStart
  <2>1. \A n \in Blocks : n > head => sync'[n] = sync[n]
    BY <1>1, <1>a DEF SyncStart
  <2> QED BY <1>1, <2>1, <1>a, UpToHead DEF SyncStart
<1>2. CASE ReadLatest
  <2>1. LatestReady \in Blocks /\ block[LatestReady]
    BY <1>2, LatestReadyType DEF ReadLatest, Complete
  <2>2. LatestReady <= head
    BY <2>1, <1>a DEF HeadInv, NothingPastHead
  <2>3. CheckBehindHead'
    BY <1>2, <2>1, <2>2, <1>a DEF ReadLatest, CheckBehindHead
  <2> QED BY <1>2, <2>3 DEF ReadLatest, HeadInv, NothingPastHead
<1>3. CASE AdvanceCursor
  <2>1. cursor' \in {cursor, check.ready} /\ check' = NoCheck
        /\ UNCHANGED <<head, start, block, sync, batch>>
    BY <1>3 DEF AdvanceCursor
  <2>2. cursor' <= head
    BY <2>1, <1>a DEF HeadInv, CheckBehindHead
  <2>3. None <= head
    BY DEF None, Blocks
  <2> QED BY <2>1, <2>2, <2>3 DEF HeadInv, NothingPastHead, CheckBehindHead, NoCheck
<1>4. CASE CheckDies
  <2>1. None <= head
    BY DEF None, Blocks
  <2> QED BY <1>4, <2>1 DEF CheckDies, HeadInv, NothingPastHead, CheckBehindHead, NoCheck
<1>5. ASSUME NEW full \in BOOLEAN, NEW room \in Rooms, ScanGaps(full, room) PROVE HeadInv'
  <2> DEFINE from == ScanFrom(full)
  <2>1. /\ check' = [check EXCEPT !.pc = "advance"]
        /\ UNCHANGED <<head, start, cursor, block, sync>>
        /\ check.pc = "scan"
    BY <1>5 DEF ScanGaps
  <2>2. CheckBehindHead'
    BY <2>1 DEF HeadInv, CheckBehindHead
  <2>3. ASSUME NEW r \in Ranges PROVE
          /\ batch'[r]["own"] # batch[r]["own"] => r = Recovery
          /\ batch'[r]["batch"] # batch[r]["batch"] => r \in Gaps(from, check.head)
    BY <1>5 DEF ScanGaps, WithinBudget
  <2>4. ASSUME NEW r \in Ranges, NEW k \in {"batch", "own"}, batch'[r][k] # "absent"
        PROVE  r[2] <= head
    <3>1. CASE batch[r][k] # "absent"
      BY <3>1 DEF HeadInv, NothingPastHead
    <3>2. CASE r = Recovery
      BY <3>2 DEF Recovery, HeadInv, CheckBehindHead
    <3>3. CASE r \in Gaps(from, check.head)
      <4>1. r[2] < check.head
        BY <3>3 DEF Gaps
      <4>2. r[2] \in Int /\ check.head \in Int
        BY Numbers, RangeNumbers
      <4> QED BY <4>1, <4>2, <1>a DEF HeadInv, CheckBehindHead
    <3> QED BY <2>3, <2>4, <3>1, <3>2, <3>3
  <2>5. NothingPastHead'
    BY <2>1, <2>4 DEF HeadInv, NothingPastHead
  <2> QED BY <2>2, <2>5 DEF HeadInv
<1> QED BY <1>1, <1>2, <1>3, <1>4, <1>5 DEF CheckStep

\* The removal of a partial block adds nothing.
LEMMA StallUpToHead ==
  ASSUME TypeOK, HeadInv, NEW n \in Blocks, StallStep(n)
  PROVE  HeadInv'
<1> USE DEF TypeOK, world, rows, integrity, jobs
<1>a. start \in Int /\ cursor \in Int /\ start <= head /\ cursor <= head
  BY Numbers DEF HeadInv, NothingPastHead
<1>1. CASE CountSyncing(n)
  BY <1>1, <1>a, UpToHead DEF CountSyncing
<1>2. CASE KeepBlock(n)
  BY <1>2, <1>a, UpToHead DEF KeepBlock
<1>3. CASE RevertPartial(n)
  BY <1>3, RemoveBlockUpToHead DEF RevertPartial
<1>4. CASE RevertFails(n)
  BY <1>4, <1>a, UpToHead DEF RevertFails
<1> QED BY <1>1, <1>2, <1>3, <1>4 DEF StallStep

\* A receipt adds no block and no job for one.
LEMMA SaverUpToHead ==
  ASSUME TypeOK, HeadInv, NEW t \in Txs, NEW k \in SaverKinds, SaverStep(t, k)
  PROVE  HeadInv'
<1> USE DEF world, rows, integrity, jobs
<1>a. start \in Int /\ cursor \in Int /\ start <= head /\ cursor <= head
  BY Numbers DEF HeadInv, NothingPastHead
<1>1. UNCHANGED <<head, block, integrity, sync, check, batch>>
  BY DEF SaverStep, StoreReceipt, SetReady, StoreFails, FetchReceipt, NothingToFetch,
         ReceiptNotAvailable, RequeueReceipt
<1> QED BY <1>1, <1>a, UpToHead

\* A job can only make a block of the number it was enqueued for, and start the
\* integrity checks there or below.
LEMMA BlockSyncUpToHead ==
  ASSUME TypeOK, HeadInv, NEW n \in Blocks, NEW k \in SyncKinds, BlockSyncStep(n, k)
  PROVE  HeadInv'
<1> USE DEF world, rows, integrity, jobs
<1>a. start \in Int /\ cursor \in Int /\ start <= head /\ cursor <= head
  BY Numbers DEF HeadInv, NothingPastHead
<1>1. sync[n][k].pc # "absent"
  BY DEF BlockSyncStep, FetchBlock, SyncDisabled, FetchBlockFails, StoreBlock, AfterCommit,
         AfterSkipped, Committed, NoTransactions, QueueReceipts, FetchReceiptsInline, InlineDone, BlockSyncDies
<1>2. 0 <= n /\ n <= head
  <2>1. n \in Nat /\ head \in Int
    BY Numbers
  <2> QED BY <1>1, <2>1 DEF HeadInv, NothingPastHead
<1>3. UNCHANGED <<head, cursor, check, batch>>
  BY DEF BlockSyncStep, FetchBlock, SyncDisabled, FetchBlockFails, StoreBlock, AfterCommit,
         AfterSkipped, NoTransactions, QueueReceipts, FetchReceiptsInline, InlineDone, BlockSyncDies
<1>4. start' \in {start, 0, n}
  BY DEF StartFrom, BlockSyncStep, FetchBlock, SyncDisabled, FetchBlockFails, StoreBlock, AfterCommit,
         AfterSkipped, NoTransactions, QueueReceipts, FetchReceiptsInline, InlineDone, BlockSyncDies
<1>5. \A m \in Blocks : m # n => block'[m] = block[m]
  BY DEF TypeOK, BlockSyncStep, FetchBlock, SyncDisabled, FetchBlockFails, StoreBlock,
         AfterCommit, AfterSkipped, NoTransactions, QueueReceipts, FetchReceiptsInline, InlineDone,
         BlockSyncDies
<1>6. \A m \in Blocks : m # n => sync'[m] = sync[m]
  BY DEF TypeOK, BlockSyncStep, FetchBlock, SyncDisabled, FetchBlockFails, StoreBlock,
         AfterCommit, AfterSkipped, NoTransactions, QueueReceipts, FetchReceiptsInline, InlineDone,
         BlockSyncDies, SyncPc, SyncEnds
<1>7. start' \in Int /\ start' <= head
  BY <1>2, <1>4, <1>a, Numbers
<1>8. cursor' \in Int /\ cursor' <= head
  BY <1>3, <1>a
<1>9. \A m \in Blocks : m > head => m # n
  BY <1>2, Numbers
<1>10. UNCHANGED <<head, check, batch>>
  BY <1>3
<1> QED BY <1>5, <1>6, <1>7, <1>8, <1>9, <1>10, UpToHead

\* Neither a chunk nor what is left of its range goes past the range.
LEMMA ChunkInRange ==
  ASSUME NEW r \in Ranges
  PROVE  /\ ChunkEnd(r) \in Nat /\ r[1] <= ChunkEnd(r) /\ ChunkEnd(r) <= r[2]
         /\ Rest(r)[1] = ChunkEnd(r) + 1 /\ Rest(r)[2] = r[2]
         /\ Rest(r)[1] <= r[2] => Rest(r) \in Ranges
<1>1. /\ r[1] \in Nat /\ r[2] \in Nat /\ r[1] <= r[2] /\ r[2] <= MaxBlock /\ r[1] >= 1
      /\ ChunkSize \in Nat /\ ChunkSize >= 1 /\ MaxBlock \in Nat
  BY RangeNumbers, ConstantsAssumption
<1>2. ChunkEnd(r) \in Nat /\ r[1] <= ChunkEnd(r) /\ ChunkEnd(r) <= r[2]
  BY <1>1 DEF ChunkEnd
<1>3. Rest(r) = <<ChunkEnd(r) + 1, r[2]>>
  BY DEF Rest
<1> HIDE DEF ChunkEnd
<1>4. ASSUME ChunkEnd(r) + 1 <= r[2] PROVE <<ChunkEnd(r) + 1, r[2]>> \in Ranges
  BY <1>1, <1>2, <1>4 DEF Ranges
<1> QED BY <1>1, <1>2, <1>3, <1>4

\* What a batch does to the ranges: the job ends and what is left gets one.
LEMMA BatchRanges ==
  ASSUME TypeOK, NEW r \in Ranges, NEW k \in {"batch", "own"}, NEW room \in Rooms,
         BatchBlockSync(r, k, room)
  PROVE  /\ \A s \in Ranges, i \in {"batch", "own"} :
              \/ s = r /\ i = k
              \/ batch'[s][i] = batch[s][i]
              \/ batch'[s][i] = "waiting" /\ s = Rest(r) /\ Rest(r)[1] <= r[2]
         /\ Allowed /\ Rest(r)[1] <= r[2] => batch'[Rest(r)]["own"] = "waiting"
<1> DEFINE ended == [batch EXCEPT ![r][k] = IF k = "batch" THEN "done" ELSE "absent"]
<1>1. ended \in [Ranges -> [{"batch", "own"} -> {"absent", "waiting", "done"}]]
  BY DEF TypeOK
<1>2. \A s \in Ranges, i \in {"batch", "own"} :
        (s = r /\ i = k) \/ ended[s][i] = batch[s][i]
  BY DEF TypeOK
<1>3. /\ batch' = IF Allowed /\ Rest(r)[1] <= r[2]
                    THEN [ended EXCEPT ![Rest(r)]["own"] = "waiting"] ELSE ended
  BY DEF BatchBlockSync
<1> HIDE DEF ended
<1>4. Rest(r)[1] <= r[2] => Rest(r) \in Ranges
  BY ChunkInRange
<1> QED BY <1>1, <1>2, <1>3, <1>4

\* What it does to the blockSync jobs: only numbers of its chunk get one.
LEMMA BatchJobs ==
  ASSUME TypeOK, NEW r \in Ranges, NEW k \in {"batch", "own"}, NEW room \in Rooms,
         BatchBlockSync(r, k, room)
  PROVE  \A n \in Blocks :
           /\ n \in r[1]..ChunkEnd(r) \/ sync'[n] = sync[n]
           /\ Allowed /\ n \in Accepted(r, room) => sync'[n]["batch"].pc # "absent"
<1> TAKE n \in Blocks
<1>1. sync[n] \in [SyncKinds -> Job(SyncPcs)] /\ "batch" \in SyncKinds
  BY BatchKind DEF TypeOK
<1>2. BulkEnqueued(sync[n], "batch", Waiting)["batch"].pc # "absent"
  BY <1>1 DEF BulkEnqueued, Waiting
<1>3. sync'[n] = IF Allowed /\ n \in Accepted(r, room)
                   THEN BulkEnqueued(sync[n], "batch", Waiting) ELSE sync[n]
  BY DEF BatchBlockSync, TypeOK
<1>4. n \in Accepted(r, room) => n \in r[1]..ChunkEnd(r)
  BY DEF Accepted, Missing
<1> QED BY <1>2, <1>3, <1>4

\* So a batch asks for nothing past its range.
LEMMA BatchUpToHead ==
  ASSUME TypeOK, HeadInv, NEW r \in Ranges, NEW k \in {"batch", "own"}, NEW room \in Rooms,
         BatchBlockSync(r, k, room)
  PROVE  HeadInv'
<1>1. UNCHANGED <<head, start, cursor, block, check>> /\ batch[r][k] # "absent"
  BY DEF BatchBlockSync, world, rows, integrity
<1>2. r[2] <= head /\ r[2] \in Nat /\ head \in Int /\ Blocks \subseteq Nat
  BY <1>1, RangeNumbers, Numbers DEF HeadInv, NothingPastHead
<1>3. ASSUME NEW s \in Ranges, NEW i \in {"batch", "own"}, batch'[s][i] # "absent"
      PROVE  s[2] <= head
  BY <1>2, <1>3, BatchRanges, ChunkInRange DEF HeadInv, NothingPastHead
<1>4. ASSUME NEW n \in Blocks, n > head PROVE sync'[n] = sync[n]
  <2>1. ~ (n \in r[1]..ChunkEnd(r))
    BY <1>2, <1>4, ChunkInRange
  <2> QED BY <2>1, BatchJobs
<1> QED BY <1>1, <1>3, <1>4 DEF HeadInv, NothingPastHead, CheckBehindHead

\* The invariant holds of every behaviour.
LEMMA HeadInvHolds == Spec => []HeadInv
<1>1. Init => HeadInv
  BY ConstantsAssumption
     DEF Init, HeadInv, NothingPastHead, CheckBehindHead, NoCheck, Absent, None
<1>2. TypeOK /\ HeadInv /\ [Next]_vars => HeadInv'
  <2> SUFFICES ASSUME TypeOK, HeadInv, [Next]_vars PROVE HeadInv'
    OBVIOUS
  <2>1. CASE UNCHANGED vars
    BY <2>1 DEF vars, world, rows, integrity, jobs, HeadInv, NothingPastHead, CheckBehindHead
  <2> QED
    BY <2>1, WorldUpToHead, CheckUpToHead, StallUpToHead, BlockSyncUpToHead, SaverUpToHead,
       BatchUpToHead DEF Next
<1> QED BY <1>1, <1>2, TypeCorrect, PTL DEF Spec

\* Whatever announces, scans, cuts into chunks or starts again, nothing is asked
\* for or remembered that the chain does not have, on a chain of any length.
THEOREM NothingIsPastHead == Spec => []NothingPastHead
<1>1. HeadInv => NothingPastHead
  BY DEF HeadInv
<1> QED BY <1>1, HeadInvHolds, PTL

-----------------------------------------------------------------------------
(* Nothing that is missing is overlooked, and nothing that is asked for lost.*)

\* The query finds every hole: the stored blocks nearest to it bound a gap.
LEMMA GapsCoverHoles ==
  ASSUME NEW from \in Int, NEW to \in Int, NEW n \in Blocks, Hole(n, from, to)
  PROVE  \E r \in Gaps(from, to) : n \in r[1]..r[2]
<1> DEFINE under == {m \in Blocks : from <= m /\ m < n /\ block[m]}
           over == {m \in Blocks : n < m /\ m <= to /\ block[m]}
<1>1. under \in SUBSET Blocks /\ under # {} /\ over \in SUBSET Blocks /\ over # {}
  BY DEF Hole
<1>2. PICK lo \in under : \A m \in under : m <= lo
  <2> HIDE DEF under, over
  <2> QED BY <1>1, LowestAndHighest
<1>3. PICK hi \in over : \A m \in over : hi <= m
  <2> HIDE DEF under, over
  <2> QED BY <1>1, LowestAndHighest
<1> DEFINE r == <<lo + 1, hi - 1>>
<1>4. /\ n \in Nat /\ lo \in Nat /\ hi \in Nat /\ hi <= MaxBlock /\ MaxBlock \in Nat
      /\ from <= lo /\ lo < n /\ n < hi /\ hi <= to /\ block[lo] /\ block[hi]
  BY ConstantsAssumption DEF Blocks
<1>5. r \in Ranges /\ r[1] = lo + 1 /\ r[2] = hi - 1
  BY <1>4 DEF Ranges
<1>6. ASSUME NEW m \in r[1]..r[2] PROVE ~block[m]
  <2>1. m \in Int /\ lo < m /\ m < hi
    BY <1>4, <1>5
  <2>2. m \in Blocks
    BY <2>1, <1>4 DEF Blocks
  <2>3. CASE m < n
    BY <2>1, <2>2, <2>3, <1>2, <1>4
  <2>4. CASE m = n
    BY <2>4 DEF Hole
  <2>5. CASE n < m
    BY <2>1, <2>2, <2>5, <1>3, <1>4
  <2> QED BY <2>1, <2>3, <2>4, <2>5, <1>4
<1>7. r[1] - 1 = lo /\ r[2] + 1 = hi
  BY <1>4, <1>5
<1> HIDE DEF r
<1>8. r \in Gaps(from, to)
  BY <1>4, <1>5, <1>6, <1>7 DEF Gaps
<1>9. n \in r[1]..r[2]
  BY <1>4, <1>5
<1> QED BY <1>8, <1>9

\* The blocks of the gaps below the one with n are holes below n.
LEMMA BelowIsHoles ==
  ASSUME NEW from \in Int, NEW to \in Int, NEW n \in Blocks,
         NEW r \in Gaps(from, to), n \in r[1]..r[2]
  PROVE  Below(r, Gaps(from, to)) \subseteq HolesBelow(n, from, to)
<1> SUFFICES ASSUME NEW m \in Below(r, Gaps(from, to))
             PROVE  m \in HolesBelow(n, from, to)
  OBVIOUS
<1>1. PICK g \in Gaps(from, to) : g[2] < r[1] /\ m \in g[1]..g[2]
  BY DEF Below
<1>2. /\ m \in Blocks /\ g \in Ranges /\ r \in Ranges /\ from < g[1] /\ g[2] < to
      /\ block[g[1] - 1] /\ block[g[2] + 1] /\ ~block[m]
  BY <1>1 DEF Below, Gaps
<1>3. /\ g[1] \in Nat /\ g[2] \in Nat /\ r[1] \in Nat /\ r[2] \in Nat /\ m \in Nat /\ n \in Nat
      /\ 1 <= g[1] /\ r[1] <= r[2] /\ r[2] <= MaxBlock /\ MaxBlock \in Nat
  BY <1>2, RangeNumbers, ConstantsAssumption DEF Blocks
<1>4. g[1] <= m /\ m <= g[2] /\ g[2] + 1 <= r[1] /\ r[1] <= n /\ n <= r[2]
  BY <1>1, <1>3
<1>5. m < n /\ g[2] + 1 \in m..n
  BY <1>3, <1>4
<1>6. /\ g[1] - 1 \in Blocks /\ from <= g[1] - 1 /\ g[1] - 1 < m
      /\ g[2] + 1 \in Blocks /\ m < g[2] + 1 /\ g[2] + 1 <= to
  BY <1>2, <1>3, <1>4 DEF Blocks
<1>7. Hole(m, from, to)
  BY <1>2, <1>6 DEF Hole
<1> QED BY <1>2, <1>5, <1>7 DEF HolesBelow

\* What a scan does to the ranges.
LEMMA ScanRanges ==
  ASSUME TypeOK, NEW full \in BOOLEAN, NEW room \in Rooms, ScanGaps(full, room),
         NEW r \in Ranges
  PROVE  /\ r \in WithinBudget(Gaps(ScanFrom(full), check.head), room)
              => batch'[r]["batch"] # "absent"
         /\ Late /\ r = Recovery => batch'[r]["own"] = "waiting"
         /\ \A k \in {"batch", "own"} : batch[r][k] = "waiting" => batch'[r][k] = "waiting"
<1>1. /\ batch'[r]["own"] = IF Late /\ r = Recovery THEN "waiting" ELSE batch[r]["own"]
      /\ batch'[r]["batch"] =
            IF /\ r \in WithinBudget(Gaps(ScanFrom(full), check.head), room)
               /\ batch[r]["batch"] = "absent"
              THEN "waiting" ELSE batch[r]["batch"]
  BY DEF ScanGaps
<1> QED BY <1>1

\* A step that scans asks for all the holes that those below leave room for.
LEMMA ScanAsks ==
  ASSUME TypeOK, HeadInv, NEW full \in BOOLEAN, NEW room \in Rooms, ScanGaps(full, room),
         NEW n \in Blocks
  PROVE  /\ Hole(n, ScanFrom(full), check.head) =>
              HasBatch(n)' \/ Cardinality(HolesBelow(n, ScanFrom(full), check.head)) >= room
         /\ Late /\ n > check.ready /\ n <= check.head => HasOwn(n)'
<1> DEFINE from == ScanFrom(full)
           gaps == Gaps(from, check.head)
           holes == HolesBelow(n, from, check.head)
<1>1. ASSUME Hole(n, from, check.head), ~(Cardinality(holes) >= room) PROVE HasBatch(n)'
  <2>1. from \in Int /\ check.head \in Int /\ room \in Nat
    BY Numbers, ConstantsAssumption DEF ScanFrom, Rooms
  <2>2. PICK r \in gaps : n \in r[1]..r[2]
    BY <1>1, <2>1, GapsCoverHoles
  <2>3. r \in Ranges
    BY DEF Gaps
  <2>4. IsFiniteSet(holes)
    <3>1. IsFiniteSet(Blocks) /\ holes \subseteq Blocks
      BY FS_Interval, ConstantsAssumption DEF Blocks, HolesBelow
    <3> QED BY <3>1, FS_Subset
  <2>5. Below(r, gaps) \subseteq holes
    BY <2>1, <2>2, BelowIsHoles
  <2>6. Cardinality(Below(r, gaps)) <= Cardinality(holes)
        /\ Cardinality(Below(r, gaps)) \in Nat /\ Cardinality(holes) \in Nat
    BY <2>4, <2>5, FS_Subset, FS_CardinalityType
  <2>7. Cardinality(Below(r, gaps)) < room
    BY <1>1, <2>1, <2>6
  <2>8. r \in WithinBudget(gaps, room)
    BY <2>2, <2>7 DEF WithinBudget
  <2>9. batch'[r]["batch"] # "absent"
    BY <2>3, <2>8, ScanRanges
  <2> QED BY <2>2, <2>3, <2>9 DEF HasBatch
<1>2. ASSUME Late, n > check.ready, n <= check.head PROVE HasOwn(n)'
  <2>1. /\ check.ready \in Nat /\ check.head \in Int /\ check.head <= MaxBlock
        /\ n \in Nat /\ MaxBlock \in Nat
    <3>1. check.pc = "scan" /\ check.head \in Blocks \cup {None}
      BY DEF ScanGaps, TypeOK
    <3> QED BY <3>1, Numbers, ConstantsAssumption DEF HeadInv, CheckBehindHead, Blocks, None
  <2>2. /\ <<check.ready + 1, check.head>> \in Ranges
        /\ Recovery = <<check.ready + 1, check.head>>
    BY <1>2, <2>1 DEF Ranges, Recovery
  <2>3. Recovery[1] = check.ready + 1 /\ Recovery[2] = check.head
    BY DEF Recovery
  <2>4. n \in Recovery[1]..Recovery[2]
    BY <1>2, <2>1, <2>3
  <2>5. batch'[Recovery]["own"] = "waiting"
    BY <1>2, <2>2, ScanRanges
  <2> QED BY <2>2, <2>4, <2>5 DEF HasOwn
<1> QED BY <1>1, <1>2

\* A scan leaves no hole without a job, however many there are and however wide,
\* unless those below it use up the room of the queue, and a late one nothing behind
\* the latest ready block.
THEOREM NoHoleOverlooked == Spec => ScanAsksForHoles
<1> DEFINE Asks == \A full \in BOOLEAN, room \in Rooms : ScanGaps(full, room) =>
             \A n \in Blocks :
               /\ Hole(n, ScanFrom(full), check.head) =>
                    HasBatch(n)' \/ Cardinality(HolesBelow(n, ScanFrom(full), check.head)) >= room
               /\ Late /\ n > check.ready /\ n <= check.head => HasOwn(n)'
<1>1. TypeOK /\ HeadInv => Asks
  BY ScanAsks
<1>2. TypeOK /\ HeadInv => [Asks]_vars
  BY <1>1
<1> HIDE DEF Asks
<1>3. Spec => [][Asks]_vars
  BY <1>2, TypeCorrect, HeadInvHolds, PTL
<1> QED BY <1>3 DEF ScanAsksForHoles, Asks

\* Steps of anyone but batchBlockSync leave a waiting range waiting.
LEMMA RangesWait ==
  ASSUME TypeOK, [Next]_vars, NEW s \in Ranges, NEW i \in {"batch", "own"},
         batch[s][i] = "waiting"
  PROVE  \/ batch'[s][i] = "waiting"
         \/ \E r \in Ranges, k \in {"batch", "own"}, room \in Rooms : BatchBlockSync(r, k, room)
<1> USE DEF rows, integrity, world, jobs
<1>1. CASE UNCHANGED vars
  BY <1>1 DEF vars
<1>2. CASE WorldStep
  <2>1. ASSUME NEW r \in Ranges, ForgetBatch(r) PROVE batch'[s][i] = "waiting"
    BY <2>1 DEF ForgetBatch, TypeOK
  <2> QED
    BY <1>2, <2>1 DEF WorldStep, NewBlock, RpcChanges, RpcHealthCheck, SyncSwitched, DestroyIntegrityCheck,
                      ForgetSync, ForgetReceipt, DeleteBlock
<1>3. CASE CheckStep
  <2>1. ASSUME NEW full \in BOOLEAN, NEW room \in Rooms, ScanGaps(full, room)
        PROVE  batch'[s][i] = "waiting"
    BY <2>1, ScanRanges
  <2> QED BY <1>3, <2>1 DEF CheckStep, SyncStart, ReadLatest, AdvanceCursor, CheckDies
<1>4. CASE \E n \in Blocks : StallStep(n)
  BY <1>4 DEF StallStep, CountSyncing, KeepBlock, RevertPartial, RevertFails
<1>5. CASE \E n \in Blocks, k \in SyncKinds : BlockSyncStep(n, k)
  BY <1>5 DEF BlockSyncStep, FetchBlock, SyncDisabled, FetchBlockFails, StoreBlock,
              AfterCommit, AfterSkipped, NoTransactions, QueueReceipts, FetchReceiptsInline, InlineDone,
              BlockSyncDies
<1>6. CASE \E t \in Txs, k \in SaverKinds : SaverStep(t, k)
  BY <1>6 DEF SaverStep, StoreReceipt, SetReady, StoreFails, FetchReceipt, NothingToFetch,
              ReceiptNotAvailable, RequeueReceipt
<1> QED BY <1>1, <1>2, <1>3, <1>4, <1>5, <1>6 DEF Next

\* What a range asks for is asked for by its chunk, dropped with it, or asked for by
\* what is left of the range.
LEMMA BatchKeepsWanted ==
  ASSUME TypeOK, Allowed, NEW r \in Ranges, NEW k \in {"batch", "own"}, NEW room \in Rooms,
         BatchBlockSync(r, k, room), NEW n \in Blocks, n \in r[1]..r[2]
  PROVE  block'[n] \/ Wanted(n)' \/ sync'[n]["batch"].pc # "absent" \/ Dropped(n)
<1>1. UNCHANGED block
  BY DEF BatchBlockSync, rows
<1>2. CASE n \in r[1]..ChunkEnd(r)
  <2>1. CASE block[n]
    BY <1>1, <2>1
  <2>2. CASE n \in Accepted(r, room)
    BY <2>2, BatchJobs
  <2>3. CASE ~block[n] /\ n \notin Accepted(r, room)
    <3>1. n \in Missing(r)
      BY <1>2, <2>3 DEF Missing
    <3> QED BY <2>3, <3>1 DEF Dropped
  <2> QED BY <2>1, <2>2, <2>3
<1>3. CASE ~ (n \in r[1]..ChunkEnd(r))
  <2>1. n \in Rest(r)[1]..Rest(r)[2] /\ Rest(r)[1] <= r[2]
    BY <1>3, ChunkInRange, RangeNumbers
  <2>2. Rest(r) \in Ranges /\ batch'[Rest(r)]["own"] = "waiting"
    BY <2>1, ChunkInRange, BatchRanges
  <2> QED BY <2>1, <2>2 DEF Wanted
<1> QED BY <1>2, <1>3

\* While sync is on and the RPC not known to be unreachable, what a waiting range asks
\* for is asked for until it is there, a blockSync job of a batch bears its number or
\* the cap of a low-tier workspace drops that job, whatever ChunkSize is.
THEOREM WantedIsNotLost == Spec => WantedIsKept
<1> DEFINE Kept == \A n \in Blocks : Allowed /\ Wanted(n) =>
                      block'[n] \/ Wanted(n)' \/ sync'[n]["batch"].pc # "absent" \/ Dropped(n)
<1>1. TypeOK /\ [Next]_vars => Kept
  <2> SUFFICES ASSUME TypeOK, [Next]_vars, NEW n \in Blocks, Allowed, Wanted(n)
               PROVE  block'[n] \/ Wanted(n)' \/ sync'[n]["batch"].pc # "absent" \/ Dropped(n)
    OBVIOUS
  <2>1. PICK s \in Ranges, i \in {"batch", "own"} : n \in s[1]..s[2] /\ batch[s][i] = "waiting"
    BY DEF Wanted
  <2>2. CASE batch'[s][i] = "waiting"
    BY <2>1, <2>2 DEF Wanted
  <2>3. CASE batch'[s][i] # "waiting"
    <3>1. PICK r \in Ranges, k \in {"batch", "own"}, room \in Rooms : BatchBlockSync(r, k, room)
      BY <2>1, <2>3, RangesWait
    <3>2. s = r /\ i = k
      BY <2>1, <2>3, <3>1, BatchRanges
    <3> QED BY <2>1, <3>1, <3>2, BatchKeepsWanted
  <2> QED BY <2>2, <2>3
<1> HIDE DEF Kept
<1>2. Spec => [][Kept]_vars
  BY <1>1, TypeCorrect, PTL DEF Spec
<1> QED BY <1>2 DEF WantedIsKept, Kept

=============================================================================
