------------------------------ MODULE BlockSync ------------------------------
(***************************************************************************)
(* How the blocks of one public workspace get into its tables: the jobs    *)
(* blockSync, receiptSync, removeStalledBlock, integrityCheck and          *)
(* batchBlockSync, the BullMQ queues they share, and the rows of blocks,   *)
(* transactions, transaction_receipts and integrity_checks.                *)
(*                                                                         *)
(* BullMQ: a job enqueued by bulkEnqueue has its name as its id, and a job *)
(* with that id that waits, runs or has ENDED AND IS STILL RETAINED makes  *)
(* the new one disappear.  A job enqueued by enqueue gets an id of its own.*)
(*                                                                         *)
(* Abstractions: row ids.  A block that was removed and is synchronised    *)
(* again gets new ids, so a job or a running call holds the id of a row    *)
(* that is there (live) or not.  Jobs with ids of their own and the same   *)
(* data beyond the number of Slots are merged.  Delays are not counted: a  *)
(* delayed job may run at any time.  The queue caps of a low-tier          *)
(* workspace limit what a scan and a range ask for; the single job they    *)
(* drop elsewhere is one the listener missed, or one that ended without    *)
(* effect, which both happen anyway.  What receipts say (logs, transfers,  *)
(* rollup events) is left out.                                             *)
(***************************************************************************)
EXTENDS Integers, FiniteSets

CONSTANTS
    MaxBlock,          \* bound on the height of the chain
    Txs,               \* transactions of the chain
    BlockOf,           \* the block each of them is in
    Listened,          \* blocks ethernal-light hears about
    InlineThreshold,   \* INLINE_RECEIPT_THRESHOLD, 25 in production
    ChunkSize,         \* CHUNK_SIZE of batchBlockSync, 5000 in production
    LowBlock,          \* first number not taken for the start of a chain, 1000
    Slots,             \* jobs with ids of their own for one block
    MaxFailures,       \* bound on failures
    Time,              \* timestamp of each block of the chain
    RecoveryDelay,     \* DELAY_BEFORE_RECOVERY, 120 seconds in production
    Operations         \* what else goes wrong in this instance

Blocks == 0..MaxBlock
None == -1
AllOperations == {"rpc", "stop", "crashBeforeHook", "delete", "lowTier", "otherJobs"}

ASSUME ConstantsAssumption ==
    /\ MaxBlock \in Nat
    /\ BlockOf \in [Txs -> Blocks]
    /\ Listened \subseteq Blocks
    /\ InlineThreshold \in Nat /\ ChunkSize \in Nat \ {0} /\ LowBlock \in Nat
    /\ MaxFailures \in Nat
    /\ Time \in [Blocks -> Nat] /\ RecoveryDelay \in Nat
    /\ Operations \subseteq AllOperations
    /\ Slots \cap {"batch", "requeued", "receiptSync", "retry"} = {}

VARIABLES
    head,      \* highest block of the chain, None before the first
    rpcUp,     \* the RPC answers
    reachable, \* what the last rpcHealthCheck stored of it
    enabled,   \* the explorer exists, is subscribed and should sync
    failures,  \* workers that died and statements the database refused
    block,     \* whether the block is in the table
    tx,        \* state of the transaction's row, "none" without a row
    receipt,   \* whether its receipt is in the table
    start,     \* integrityCheckStartBlockNumber
    cursor,    \* number of the block the integrity check has reached
    sync,      \* blockSync jobs of each block
    saver,     \* receiptSync jobs and inline savers of each transaction
    stall,     \* removeStalledBlock job of the block now in the table
    check,     \* the integrityCheck job
    batch      \* batchBlockSync jobs of each range

world == <<head, rpcUp, reachable, enabled, failures>>
rows == <<block, tx, receipt>>
integrity == <<start, cursor>>
jobs == <<sync, saver, stall, check, batch>>
vars == <<world, rows, integrity, jobs>>

-----------------------------------------------------------------------------
(* Jobs.                                                                   *)

\* Jobs with the workspace batchBlockSync had loaded: of a batch, and those that
\* follow them after a timeout.
Cached == {"batch"} \cup (IF "rpc" \in Operations THEN {"requeued"} ELSE {})
SyncKinds == Cached \cup Slots
ReceiptKinds == {"receiptSync", "retry"}
SaverKinds == SyncKinds \cup ReceiptKinds    \* inline savers have their job's kind
Ranges == {r \in (1..MaxBlock) \X (1..MaxBlock) : r[1] <= r[2]}

SyncPcs == {"absent", "waiting", "fetched", "first", "stored", "skipped", "hooked", "inline",
            "done"}
SaverPcs == {"absent", "waiting", "fetched", "saved", "failed", "done"}
Job(pcs) == [pc : pcs, live : BOOLEAN]

Absent == [pc |-> "absent", live |-> FALSE]
Done == [pc |-> "done", live |-> FALSE]
Waiting == [pc |-> "waiting", live |-> FALSE]
NoCheck == [pc |-> "idle", ready |-> None, head |-> None, lower |-> None, from |-> None]

\* A job with an id of its own leaves nothing behind.
EndedSync(kind) == IF kind = "batch" THEN Done ELSE Absent
EndedSaver(kind) == IF kind = "receiptSync" THEN Done ELSE Absent

SyncPc(n, k, pc) == [sync EXCEPT ![n][k].pc = pc]
SyncEnds(n, k) == [sync EXCEPT ![n][k] = EndedSync(k)]
SaverPc(t, k, pc) == [saver EXCEPT ![t][k].pc = pc]
SaverEnds(t, k) == [saver EXCEPT ![t][k] = EndedSaver(k)]

\* enqueue: a job of its own, if one of the kinds is free.
EnqueuedAs(js, kinds) ==
    LET free == {k \in kinds : js[k].pc = "absent"}
    IN IF free = {} THEN js ELSE [js EXCEPT ![CHOOSE k \in free : TRUE] = Waiting]

Enqueued(js) == EnqueuedAs(js, Slots)

\* bulkEnqueue: nothing if there is a job with this id.
BulkEnqueued(js, kind, job) ==
    IF js[kind].pc = "absent" THEN [js EXCEPT ![kind] = job] ELSE js

Of(n) == {t \in Txs : BlockOf[t] = n}
Inline(n) == Cardinality(Of(n)) <= InlineThreshold
Syncing(n) == \E t \in Of(n) : tx[t] = "syncing"
Complete(n) == block[n] /\ ~Syncing(n)

\* What the jobs ask of the explorer and its RPC before they go on.
Allowed == enabled /\ reachable

\* Places the cap of the blockSync queue leaves; no range needs more than MaxBlock.
Rooms == IF "lowTier" \in Operations THEN 0..MaxBlock ELSE {MaxBlock}

\* getLatestReadyBlock
LatestReady ==
    LET done == {n \in Blocks : Complete(n)}
    IN IF done = {} THEN None ELSE CHOOSE n \in done : \A m \in done : m <= n

Init ==
    /\ head = None
    /\ rpcUp = TRUE
    /\ reachable = TRUE
    /\ enabled = TRUE
    /\ failures = 0
    /\ block = [n \in Blocks |-> FALSE]
    /\ tx = [t \in Txs |-> "none"]
    /\ receipt = [t \in Txs |-> FALSE]
    /\ start = None
    /\ cursor = None
    /\ sync = [n \in Blocks |-> [k \in SyncKinds |-> Absent]]
    /\ saver = [t \in Txs |-> [k \in SaverKinds |-> Absent]]
    /\ stall = [n \in Blocks |-> "none"]
    /\ check = NoCheck
    /\ batch = [r \in Ranges |-> [k \in {"batch", "own"} |-> "absent"]]

\* A worker dies, or the database refuses a statement.
Failure == failures < MaxFailures /\ failures' = failures + 1

-----------------------------------------------------------------------------
(* The chain, its listener and the world.                                  *)

\* ethernal-light sends the number of a new block to POST /blocks, or misses it.
NewBlock ==
    /\ head < MaxBlock
    /\ head' = head + 1
    /\ sync' = IF head + 1 \in Listened
                 THEN [sync EXCEPT ![head + 1] = Enqueued(@)] ELSE sync
    /\ UNCHANGED <<rpcUp, reachable, enabled, failures, rows, integrity, saver, stall, check, batch>>

RpcChanges ==
    /\ "rpc" \in Operations
    /\ rpcUp' = ~rpcUp
    /\ UNCHANGED <<head, reachable, enabled, failures, rows, integrity, jobs>>

\* jobs/rpcHealthCheck.js, whose question and answer ExplorerSync keeps apart.
RpcHealthCheck ==
    /\ "rpc" \in Operations
    /\ reachable' = rpcUp
    /\ UNCHANGED <<head, rpcUp, enabled, failures, rows, integrity, jobs>>

SyncSwitched ==
    /\ "stop" \in Operations
    /\ enabled' = ~enabled
    /\ UNCHANGED <<head, rpcUp, reachable, failures, rows, integrity, jobs>>

\* removeOnComplete and removeOnFail forget an ended job, when a later job of the
\* queue ends.
ForgetSync(n) ==
    /\ sync[n]["batch"].pc = "done"
    /\ sync' = [sync EXCEPT ![n]["batch"] = Absent]
    /\ UNCHANGED <<world, rows, integrity, saver, stall, check, batch>>

ForgetReceipt(t) ==
    /\ saver[t]["receiptSync"].pc = "done"
    /\ saver' = [saver EXCEPT ![t]["receiptSync"] = Absent]
    /\ UNCHANGED <<world, rows, integrity, sync, stall, check, batch>>

ForgetBatch(r) ==
    /\ batch[r]["batch"] = "done"
    /\ batch' = [batch EXCEPT ![r]["batch"] = "absent"]
    /\ UNCHANGED <<world, rows, integrity, sync, saver, stall, check>>

-----------------------------------------------------------------------------
(* jobs/blockSync.js                                                       *)

\* A job of a batch trusts the workspace cached in it, and so does its successor.
FetchBlock(n, k) ==
    /\ sync[n][k].pc = "waiting"
    /\ rpcUp /\ (Allowed \/ k \in Cached)
    /\ sync' = SyncPc(n, k, "fetched")
    /\ UNCHANGED <<world, rows, integrity, saver, stall, check, batch>>

SyncDisabled(n, k) ==
    /\ sync[n][k].pc = "waiting"
    /\ ~Allowed /\ k \notin Cached
    /\ sync' = SyncEnds(n, k)
    /\ UNCHANGED <<world, rows, integrity, saver, stall, check, batch>>

\* The jobs that may follow one whose request has timed out.
Successors(k) == IF k \in Cached THEN Cached \ {"batch"} ELSE Slots

\* No block, too many failures or no attempt left; or, after a timeout, a new job.
FetchBlockFails(n, k) ==
    /\ sync[n][k].pc = "waiting"
    /\ ~rpcUp /\ (Allowed \/ k \in Cached)
    /\ LET ended == SyncEnds(n, k)
       IN sync' \in {ended, [ended EXCEPT ![n] = EnqueuedAs(@, Successors(k))]}
    /\ UNCHANGED <<world, rows, integrity, saver, stall, check, batch>>

\* safeCreatePartialBlock, one transaction, in which the workspace is read too.
\* Someone else may have stored the block: bulkCreate skips it, and only a start
\* that is still missing is left to the hook.
StoreBlock(n, k) ==
    /\ sync[n][k].pc = "fetched"
    /\ IF block[n]
         THEN /\ sync' = IF start = None THEN SyncPc(n, k, "skipped") ELSE SyncEnds(n, k)
              /\ UNCHANGED <<block, tx>>
         ELSE /\ sync' = [sync EXCEPT ![n][k] =
                             [pc |-> IF start = None THEN "first" ELSE "stored", live |-> TRUE]]
              /\ block' = [block EXCEPT ![n] = TRUE]
              /\ tx' = [t \in Txs |-> IF t \in Of(n) THEN "syncing" ELSE tx[t]]
    /\ UNCHANGED <<world, receipt, integrity, saver, stall, check, batch>>

Committed(n, k) == sync[n][k].pc \in {"first", "stored"}

\* The number the integrity checks will start from.
StartFrom(n) == IF n < LowBlock THEN 0 ELSE n

\* Faulty: checks again only the block the integrity checks will start from.
AfterCommitStartOnly(n, k) ==
    /\ Committed(n, k)
    /\ stall' = IF sync[n][k].live /\ sync[n][k].pc = "first" THEN [stall EXCEPT ![n] = "waiting"] ELSE stall
    /\ start' = IF sync[n][k].pc = "first" THEN StartFrom(n) ELSE start
    /\ sync' = SyncPc(n, k, "hooked")
    /\ UNCHANGED <<world, rows, cursor, saver, check, batch>>

\* Faulty: starts the integrity checks from the next block.
AfterCommitStartNext(n, k) ==
    /\ Committed(n, k)
    /\ stall' = IF sync[n][k].live THEN [stall EXCEPT ![n] = "waiting"] ELSE stall
    /\ start' = IF sync[n][k].pc = "first" THEN (IF n < LowBlock THEN 0 ELSE n + 1) ELSE start
    /\ sync' = SyncPc(n, k, "hooked")
    /\ UNCHANGED <<world, rows, cursor, saver, check, batch>>

\* The block's afterCreate hook, once the transaction has committed.
AfterCommit(n, k) ==
    /\ Committed(n, k)
    /\ stall' = IF sync[n][k].live THEN [stall EXCEPT ![n] = "waiting"] ELSE stall
    /\ start' = IF sync[n][k].pc = "first" THEN StartFrom(n) ELSE start
    /\ sync' = SyncPc(n, k, "hooked")
    /\ UNCHANGED <<world, rows, cursor, saver, check, batch>>

\* bulkCreate runs the hook of a block it skipped, too.
AfterSkipped(n, k) ==
    /\ sync[n][k].pc = "skipped"
    /\ start' = StartFrom(n)
    /\ sync' = SyncEnds(n, k)
    /\ UNCHANGED <<world, rows, cursor, saver, stall, check, batch>>

NoTransactions(n, k) ==
    /\ sync[n][k].pc = "hooked"
    /\ Of(n) = {}
    /\ sync' = SyncEnds(n, k)
    /\ UNCHANGED <<world, rows, integrity, saver, stall, check, batch>>

\* Receipt jobs for the transactions ts, whose inline savers are gone.
WithReceiptJobs(ts, n, k) ==
    [t \in Txs |->
        LET js == [saver[t] EXCEPT ![k] = IF t \in Of(n) THEN Absent ELSE @]
        IN IF t \in ts
             THEN BulkEnqueued(js, "receiptSync", [pc |-> "waiting", live |-> sync[n][k].live])
             ELSE js]

QueueReceipts(n, k) ==
    /\ sync[n][k].pc = "hooked"
    /\ Of(n) # {}
    /\ Inline(n) => ~rpcUp
    /\ saver' = WithReceiptJobs(Of(n), n, k)
    /\ sync' = SyncEnds(n, k)
    /\ UNCHANGED <<world, rows, integrity, stall, check, batch>>

\* One batch request; the RPC may not have every receipt yet.
FetchReceiptsInline(n, k) ==
    /\ sync[n][k].pc = "hooked"
    /\ Of(n) # {} /\ Inline(n) /\ rpcUp
    /\ \E missing \in SUBSET Of(n) :
         saver' = [t \in Txs |->
             IF t \in Of(n)
               THEN [saver[t] EXCEPT ![k] =
                       [pc |-> IF t \in missing THEN "failed" ELSE "fetched",
                        live |-> sync[n][k].live]]
               ELSE saver[t]]
    /\ sync' = SyncPc(n, k, "inline")
    /\ UNCHANGED <<world, rows, integrity, stall, check, batch>>

InlineDone(n, k) ==
    /\ sync[n][k].pc = "inline"
    /\ \A t \in Of(n) : saver[t][k].pc \in {"absent", "failed"}
    /\ saver' = WithReceiptJobs({t \in Of(n) : saver[t][k].pc = "failed"}, n, k)
    /\ sync' = SyncEnds(n, k)
    /\ UNCHANGED <<world, rows, integrity, stall, check, batch>>

-----------------------------------------------------------------------------
(* Transaction.safeCreateReceipt and jobs/receiptSync.js                   *)

\* One transaction.  It does nothing for a row that has gone or a receipt
\* that is there.
StoreReceipt(t, k) ==
    /\ saver[t][k].pc = "fetched"
    /\ IF saver[t][k].live /\ ~receipt[t]
         THEN /\ receipt' = [receipt EXCEPT ![t] = TRUE]
              /\ saver' = SaverPc(t, k, "saved")
         ELSE /\ saver' = SaverEnds(t, k)
              /\ UNCHANGED receipt
    /\ UNCHANGED <<world, block, tx, integrity, sync, stall, check, batch>>

\* Faulty: the row is updated by its hash, whichever block it came with.
SetReadyByHash(t, k) ==
    /\ saver[t][k].pc = "saved"
    /\ tx' = IF tx[t] # "none" THEN [tx EXCEPT ![t] = "ready"] ELSE tx
    /\ saver' = SaverEnds(t, k)
    /\ UNCHANGED <<world, block, receipt, integrity, sync, stall, check, batch>>

\* An UPDATE of its own, after the commit, of the row with this id.
SetReady(t, k) ==
    /\ saver[t][k].pc = "saved"
    /\ tx' = IF saver[t][k].live THEN [tx EXCEPT ![t] = "ready"] ELSE tx
    /\ saver' = SaverEnds(t, k)
    /\ UNCHANGED <<world, block, receipt, integrity, sync, stall, check, batch>>

\* The database refuses one or the other, or the worker dies: an inline saver
\* leaves it to a job, a job is attempted again.
StoreFails(t, k) ==
    /\ Failure
    /\ saver[t][k].pc \in {"fetched", "saved"}
    /\ saver' = SaverPc(t, k, IF k \in SyncKinds THEN "failed" ELSE "waiting")
    /\ UNCHANGED <<head, rpcUp, reachable, enabled, rows, integrity, sync, stall, check, batch>>

\* The row is there without a receipt and sync is on.  A job made for a block too
\* large to be handled inline has the workspace cached and does not ask.
ToFetch(t, k) ==
    /\ k \in ReceiptKinds /\ saver[t][k].pc = "waiting"
    /\ saver[t][k].live /\ ~receipt[t] /\ (Allowed \/ ~Inline(BlockOf[t]))

FetchReceipt(t, k) ==
    /\ ToFetch(t, k)
    /\ rpcUp
    /\ saver' = SaverPc(t, k, "fetched")
    /\ UNCHANGED <<world, rows, integrity, sync, stall, check, batch>>

\* Missing transaction, receipt already synced, sync disabled.
NothingToFetch(t, k) ==
    /\ k \in ReceiptKinds /\ saver[t][k].pc = "waiting"
    /\ ~ToFetch(t, k)
    /\ saver' = SaverEnds(t, k)
    /\ UNCHANGED <<world, rows, integrity, sync, stall, check, batch>>

\* The RPC has no receipt yet, which ends the job, as does one failure too many.
ReceiptNotAvailable(t, k) ==
    /\ ToFetch(t, k)
    /\ saver' = SaverEnds(t, k)
    /\ UNCHANGED <<world, rows, integrity, sync, stall, check, batch>>

\* After a timeout a new job, with an id of its own, takes over.
RequeueReceipt(t, k) ==
    /\ ToFetch(t, k)
    /\ ~rpcUp
    /\ saver' = IF k = "receiptSync" /\ saver[t]["retry"].live
                   THEN SaverEnds(t, k)
                   ELSE [SaverEnds(t, k) EXCEPT ![t]["retry"] = [pc |-> "waiting", live |-> TRUE]]
    /\ UNCHANGED <<world, rows, integrity, sync, stall, check, batch>>

-----------------------------------------------------------------------------
(* jobs/removeStalledBlock.js, Block.revertIfPartial, Block.safeDestroy    *)

\* Block, transactions and receipts go in one transaction; whatever was loaded
\* or enqueued for them now refers to nothing.  integrity_checks has a foreign
\* key on the block it has reached.
RemoveBlock(n) ==
    /\ cursor # n
    /\ block' = [block EXCEPT ![n] = FALSE]
    /\ tx' = [t \in Txs |-> IF t \in Of(n) THEN "none" ELSE tx[t]]
    /\ receipt' = [t \in Txs |-> receipt[t] /\ t \notin Of(n)]
    /\ stall' = [stall EXCEPT ![n] = "none"]
    /\ sync' = [sync EXCEPT ![n] = [k \in SyncKinds |-> [@[k] EXCEPT !.live = FALSE]]]
    /\ saver' = [t \in Txs |->
                   IF t \in Of(n) THEN [k \in SaverKinds |-> [saver[t][k] EXCEPT !.live = FALSE]]
                   ELSE saver[t]]

\* Counts the syncing transactions before the transaction that removes them.
CountSyncing(n) ==
    /\ stall[n] = "waiting"
    /\ Syncing(n)
    /\ stall' = [stall EXCEPT ![n] = "revert"]
    /\ UNCHANGED <<world, rows, integrity, sync, saver, check, batch>>

\* Faulty: keeps the block whatever its transactions are.
KeepBlockUnchecked(n) ==
    /\ stall[n] = "waiting"
    /\ stall' = [stall EXCEPT ![n] = "none"]
    /\ UNCHANGED <<world, rows, integrity, sync, saver, check, batch>>

KeepBlock(n) ==
    /\ stall[n] = "waiting"
    /\ ~Syncing(n)
    /\ stall' = [stall EXCEPT ![n] = "none"]
    /\ UNCHANGED <<world, rows, integrity, sync, saver, check, batch>>

RevertPartial(n) ==
    /\ stall[n] = "revert"
    /\ RemoveBlock(n)
    /\ UNCHANGED <<world, integrity, check, batch>>

\* The foreign key refuses, or the worker dies: the job is attempted again.
RevertFails(n) ==
    /\ stall[n] = "revert"
    /\ (cursor = n /\ UNCHANGED failures) \/ Failure
    /\ stall' = [stall EXCEPT ![n] = "waiting"]
    /\ UNCHANGED <<head, rpcUp, reachable, enabled, rows, integrity, sync, saver, check, batch>>

\* jobs/batchBlockDelete.js, for a reset or the retention of a plan, and
\* safeDestroyIntegrityCheck.
DeleteBlock(n) ==
    /\ "delete" \in Operations
    /\ block[n]
    /\ RemoveBlock(n)
    /\ UNCHANGED <<world, integrity, check, batch>>

DestroyIntegrityCheck ==
    /\ "delete" \in Operations
    /\ start' = None /\ cursor' = None
    /\ UNCHANGED <<world, rows, jobs>>

-----------------------------------------------------------------------------
(* jobs/integrityCheck.js and jobs/batchBlockSync.js                       *)

\* The check is on, and some block was synchronised.
CheckOn == enabled /\ start # None /\ \E n \in Blocks : block[n]

SyncStart ==
    /\ check.pc = "idle"
    /\ CheckOn /\ ~block[start]
    /\ sync' = [sync EXCEPT ![start] = Enqueued(@)]
    /\ UNCHANGED <<world, rows, integrity, saver, stall, check, batch>>

\* getLatestReadyBlock and fetchLatestBlock; block 0 counts as no block.
ReadLatest ==
    /\ check.pc = "idle"
    /\ CheckOn /\ block[start] /\ rpcUp
    /\ LatestReady \notin {None, 0}
    /\ check' = [pc |-> "scan", ready |-> LatestReady, head |-> head, lower |-> start,
                  from |-> IF cursor < start THEN start ELSE cursor]
    /\ UNCHANGED <<world, rows, integrity, sync, saver, stall, batch>>

\* Faulty: one block too few.
GapsTooShort(from, to) ==
    {r \in Ranges :
        /\ from < r[1] /\ r[1] <= r[2] /\ r[2] < to
        /\ block[r[1] - 1] /\ r[2] + 2 \in Blocks /\ block[r[2] + 2]
        /\ \A n \in r[1]..(r[2] + 1) : ~block[n]}

\* findBlockGapsV2: the gaps BETWEEN blocks stored in from..to.
Gaps(from, to) ==
    {r \in Ranges :
        /\ from < r[1] /\ r[1] <= r[2] /\ r[2] < to
        /\ block[r[1] - 1] /\ block[r[2] + 1]
        /\ \A n \in r[1]..r[2] : ~block[n]}

\* Faulty: goes one past the head.
RecoveryTooLong == <<check.ready + 1, check.head + 1>>

\* What lies between the latest ready block and the head.
Recovery == <<check.ready + 1, check.head>>

\* The latest ready block is too far behind the chain.
Late == Time[check.head] - Time[check.ready] > RecoveryDelay

\* The missing blocks of the gaps below r.
Below(r, gaps) == {n \in Blocks : \E g \in gaps : g[2] < r[1] /\ n \in g[1]..g[2]}

\* The lowest gap is asked for if there is any room, the next ones until those
\* before them use it up (PostgreSQL returns them in the order of the window).
WithinBudget(gaps, room) == {r \in gaps : Cardinality(Below(r, gaps)) < room}

ScanFrom(full) == IF full THEN check.lower ELSE check.from

\* Full: in the first minutes of an hour the scan does not begin at the cursor.
ScanGaps(full, room) ==
    /\ check.pc = "scan"
    /\ LET queued == WithinBudget(Gaps(ScanFrom(full), check.head), room)
       IN batch' = [r \in Ranges |->
              [own |-> IF Late /\ r = Recovery THEN "waiting" ELSE batch[r]["own"],
               batch |-> IF r \in queued /\ batch[r]["batch"] = "absent"
                           THEN "waiting" ELSE batch[r]["batch"]]]
    /\ check' = [check EXCEPT !.pc = "advance"]
    /\ UNCHANGED <<world, rows, integrity, sync, saver, stall>>

AdvanceCursor ==
    /\ check.pc = "advance"
    /\ cursor' = IF block[check.ready] THEN check.ready ELSE cursor
    /\ check' = NoCheck
    /\ UNCHANGED <<world, rows, start, sync, saver, stall, batch>>

\* The last block of the range's first chunk.
ChunkEnd(r) == IF r[1] + ChunkSize - 1 < r[2] THEN r[1] + ChunkSize - 1 ELSE r[2]

\* Faulty: the block at the seam is in neither.
RestPastSeam(r) == <<ChunkEnd(r) + 2, r[2]>>

\* What is left of the range behind its first chunk.
Rest(r) == <<ChunkEnd(r) + 1, r[2]>>

\* What the first chunk lacks, and what of it the cap lets pass.
Missing(r) == {n \in r[1]..ChunkEnd(r) : ~block[n]}
Accepted(r, room) == {n \in Missing(r) : Cardinality({m \in Missing(r) : m < n}) < room}

\* A chunk of the range, without the blocks that are there, and a job for the
\* rest; nothing at all if sync is off or the RPC known to be unreachable.
BatchBlockSync(r, k, room) ==
    /\ batch[r][k] = "waiting"
    /\ LET ended == [batch EXCEPT ![r][k] = IF k = "batch" THEN "done" ELSE "absent"]
       IN IF Allowed
            THEN /\ sync' = [n \in Blocks |->
                       IF n \in Accepted(r, room)
                         THEN BulkEnqueued(sync[n], "batch", Waiting) ELSE sync[n]]
                 /\ batch' = IF Rest(r)[1] <= r[2]
                               THEN [ended EXCEPT ![Rest(r)]["own"] = "waiting"] ELSE ended
            ELSE batch' = ended /\ UNCHANGED sync
    /\ UNCHANGED <<world, rows, integrity, saver, stall, check>>

-----------------------------------------------------------------------------
(* Workers that die.  BullMQ finds the stalled job and starts it again.    *)

\* Up to maxStalledCount times.  The savers of a blockSync job die with it.
BlockSyncDies(n, k) ==
    /\ sync[n][k].pc \in {"fetched", "first", "stored", "skipped", "hooked", "inline"}
    /\ Committed(n, k) => "crashBeforeHook" \in Operations
    /\ Failure
    /\ sync' \in {[sync EXCEPT ![n][k] = Waiting], SyncEnds(n, k)}
    /\ saver' = [t \in Txs |->
                   IF t \in Of(n) THEN [saver[t] EXCEPT ![k] = Absent] ELSE saver[t]]
    /\ UNCHANGED <<head, rpcUp, reachable, enabled, rows, integrity, stall, check, batch>>

CheckDies ==
    /\ Failure
    /\ check.pc # "idle"
    /\ check' = NoCheck
    /\ UNCHANGED <<head, rpcUp, reachable, enabled, rows, integrity, sync, saver, stall, batch>>

-----------------------------------------------------------------------------

BlockSyncStep(n, k) ==
    \/ FetchBlock(n, k) \/ SyncDisabled(n, k) \/ FetchBlockFails(n, k)
    \/ StoreBlock(n, k) \/ AfterCommit(n, k) \/ AfterSkipped(n, k) \/ NoTransactions(n, k)
    \/ QueueReceipts(n, k) \/ FetchReceiptsInline(n, k) \/ InlineDone(n, k)
    \/ BlockSyncDies(n, k)

SaverStep(t, k) ==
    \/ StoreReceipt(t, k) \/ SetReady(t, k) \/ StoreFails(t, k)
    \/ FetchReceipt(t, k) \/ NothingToFetch(t, k)
    \/ ReceiptNotAvailable(t, k) \/ RequeueReceipt(t, k)

StallStep(n) ==
    \/ CountSyncing(n) \/ KeepBlock(n) \/ RevertPartial(n) \/ RevertFails(n)

CheckStep ==
    \/ SyncStart \/ ReadLatest \/ AdvanceCursor \/ CheckDies
    \/ \E full \in BOOLEAN, room \in Rooms : ScanGaps(full, room)

WorldStep ==
    \/ NewBlock \/ RpcChanges \/ RpcHealthCheck \/ SyncSwitched \/ DestroyIntegrityCheck
    \/ \E n \in Blocks : ForgetSync(n) \/ DeleteBlock(n)
    \/ \E t \in Txs : ForgetReceipt(t)
    \/ \E r \in Ranges : ForgetBatch(r)

Next ==
    \/ WorldStep \/ CheckStep
    \/ \E n \in Blocks : StallStep(n)
    \/ \E n \in Blocks, k \in SyncKinds : BlockSyncStep(n, k)
    \/ \E t \in Txs, k \in SaverKinds : SaverStep(t, k)
    \/ \E r \in Ranges, k \in {"batch", "own"}, room \in Rooms : BatchBlockSync(r, k, room)

Spec == Init /\ [][Next]_vars

\* The removal of a partial block, five minutes after it was stored, is not
\* under way.
InTime(t, k) == saver[t][k].live /\ stall[BlockOf[t]] # "revert"

ReceiptFetched(t, k) ==
    /\ FetchReceipt(t, k) \/ (k \in SyncKinds /\ FetchReceiptsInline(BlockOf[t], k))
    /\ saver'[t][k] = [pc |-> "fetched", live |-> TRUE]
    /\ stall[BlockOf[t]] # "revert"

GoOn(n, k) ==
    \/ FetchBlock(n, k) \/ StoreBlock(n, k) \/ AfterCommit(n, k) \/ AfterSkipped(n, k)
    \/ NoTransactions(n, k) \/ QueueReceipts(n, k) \/ FetchReceiptsInline(n, k)
    \/ InlineDone(n, k)

\* Jobs of other workspaces end in the queues all the time.
OtherJobs == "otherJobs" \in Operations

\* The chain goes on.  The integrity checks are repeated every five minutes and scan
\* everything every hour (scheduler.js), the health checks every minute.  A job is
\* worked on until it ends.  BullMQ forgets ended jobs only while others end.  Of all
\* the attempts to have a receipt before its block is reverted some succeed.
Fairness ==
    /\ WF_vars(NewBlock) /\ WF_vars(RpcHealthCheck)
    /\ WF_vars(SyncStart) /\ WF_vars(ReadLatest) /\ WF_vars(AdvanceCursor)
    /\ SF_vars(\E room \in Rooms : ScanGaps(TRUE, room))
    /\ \A r \in Ranges : WF_vars(OtherJobs /\ ForgetBatch(r))
    /\ \A r \in Ranges, k \in {"batch", "own"} :
         WF_vars(\E room \in Rooms : BatchBlockSync(r, k, room))
    /\ \A n \in Blocks : /\ WF_vars(OtherJobs /\ ForgetSync(n))
                         /\ WF_vars(StallStep(n))
    /\ \A n \in Blocks, k \in SyncKinds : WF_vars(GoOn(n, k))
    /\ \A t \in Txs, k \in SaverKinds :
         WF_vars(FetchReceipt(t, k) \/ NothingToFetch(t, k) \/ StoreReceipt(t, k) \/ SetReady(t, k))
    /\ \A t \in Txs :
         /\ WF_vars(OtherJobs /\ ForgetReceipt(t))
         /\ SF_vars(\E k \in SaverKinds : ReceiptFetched(t, k))
         /\ SF_vars(\E k \in SaverKinds : InTime(t, k) /\ StoreReceipt(t, k))
         /\ SF_vars(\E k \in SaverKinds : InTime(t, k) /\ SetReady(t, k))

FairSpec == Spec /\ Fairness

-----------------------------------------------------------------------------
(* Properties.                                                             *)

\* Rows, jobs and the integrity check keep the shape the code gives them: no
\* job, check or cursor ever points outside the chain.
TypeOK ==
    /\ head \in Blocks \cup {None}
    /\ rpcUp \in BOOLEAN /\ reachable \in BOOLEAN /\ enabled \in BOOLEAN
    /\ failures \in 0..MaxFailures
    /\ block \in [Blocks -> BOOLEAN]
    /\ tx \in [Txs -> {"none", "syncing", "ready"}]
    /\ receipt \in [Txs -> BOOLEAN]
    /\ start \in Blocks \cup {None}
    /\ cursor \in Blocks \cup {None}
    /\ sync \in [Blocks -> [SyncKinds -> Job(SyncPcs)]]
    /\ saver \in [Txs -> [SaverKinds -> Job(SaverPcs)]]
    /\ stall \in [Blocks -> {"none", "waiting", "revert"}]
    /\ check \in [pc : {"idle", "scan", "advance"}, ready : Blocks \cup {None},
                  head : Blocks \cup {None}, lower : Blocks \cup {None},
                  from : Blocks \cup {None}]
    /\ batch \in [Ranges -> [{"batch", "own"} -> {"absent", "waiting", "done"}]]

\* A block with a transaction that is still syncing has a removeStalledBlock job
\* to come, or is about to get one: as long as no worker dies between the
\* commit and the afterCreate hook, no partial block is left to itself.
BlockWatched ==
    \A n \in Blocks :
        block[n] /\ Syncing(n) =>
            \/ stall[n] # "none"
            \/ \E k \in SyncKinds : Committed(n, k) /\ sync[n][k].live

\* The rows as their readers see them: whatever overlaps, dies, is deleted or is
\* synchronised again, they change only as BlockStore lets them.
Store == INSTANCE BlockStore WITH
    stored <- {n \in Blocks : block[n]},
    receipts <- {t \in Txs : receipt[t]},
    ready <- {t \in Txs : tx[t] = "ready"}

StoreSpec == Store!Spec

\* Whatever announces, scans, cuts into chunks or starts again: no block is asked
\* for or remembered that the chain does not have yet.
NothingPastHead ==
    /\ start <= head /\ cursor <= head
    /\ \A n \in Blocks : n > head =>
           ~block[n] /\ \A k \in SyncKinds : sync[n][k].pc = "absent"
    /\ \A r \in Ranges, k \in {"batch", "own"} : batch[r][k] # "absent" => r[2] <= head

\* A block of from..to that is not there, between two that are.
Hole(n, from, to) ==
    /\ ~block[n]
    /\ \E m \in Blocks : from <= m /\ m < n /\ block[m]
    /\ \E m \in Blocks : n < m /\ m <= to /\ block[m]

\* A job for a range with this block is there, or its name still is.
HasBatch(n) == \E r \in Ranges : n \in r[1]..r[2] /\ batch[r]["batch"] # "absent"
HasOwn(n) == \E r \in Ranges : n \in r[1]..r[2] /\ batch[r]["own"] = "waiting"

\* The missing blocks of the gaps below the one with n.
HolesBelow(n, from, to) ==
    {m \in Blocks : m < n /\ Hole(m, from, to) /\ \E s \in m..n : block[s]}

\* A scan leaves no hole without a job, however many there are and however wide,
\* unless those below it use up the queue's room, and a late one nothing behind the
\* latest ready block ("a gap wider than the cap could never be repaired at all",
\* jobs/integrityCheck.js:174-175).
ScanAsksForHoles ==
    [][\A full \in BOOLEAN, room \in Rooms : ScanGaps(full, room) =>
         \A n \in Blocks :
            /\ Hole(n, ScanFrom(full), check.head) =>
                 HasBatch(n)' \/ Cardinality(HolesBelow(n, ScanFrom(full), check.head)) >= room
            /\ Late /\ n > check.ready /\ n <= check.head => HasOwn(n)']_vars

Wanted(n) == \E r \in Ranges : n \in r[1]..r[2] /\ "waiting" \in {batch[r]["batch"], batch[r]["own"]}

\* The cap of a low-tier workspace drops the job of the block.
Dropped(n) ==
    \E r \in Ranges, k \in {"batch", "own"}, room \in Rooms :
        BatchBlockSync(r, k, room) /\ n \in Missing(r) \ Accepted(r, room)

\* While sync is on and the RPC not known to be unreachable, a block that a waiting
\* range asks for is asked for until it is there, a blockSync job of a batch bears
\* its number or the cap drops that job: no seam between chunks, no job that ends
\* and no other step of anyone loses it.
WantedIsKept ==
    [][\A n \in Blocks : Allowed /\ Wanted(n) =>
         block'[n] \/ Wanted(n)' \/ sync'[n]["batch"].pc # "absent" \/ Dropped(n)]_vars

\* A partial block becomes complete or goes ("Reverts blocks stuck in syncing
\* state", jobs/removeStalledBlock.js:3), but for the one the integrity check
\* stands on, which its foreign key keeps as long as the check stays there.
PartialBlocksResolve ==
    \A n \in Blocks :
        [](block[n] /\ Syncing(n) => <>(~block[n] \/ ~Syncing(n) \/ cursor = n))

\* Some block past the start, and past block 0, will not be reverted any more.
Anchored ==
    /\ start # None
    /\ \E n \in Blocks : n >= start /\ n > 0 /\ Complete(n) /\ stall[n] # "revert"

\* Whatever the listener missed and whichever receipts were lost: once the RPC and
\* sync stay up, the integrity check fills the chain between its start and the last
\* stored block and keeps it filled, as long as no cap drops jobs and the jobs of
\* other workspaces make BullMQ forget those that have ended.
ChainFilled ==
    /\ OtherJobs /\ "lowTier" \notin Operations
    /\ <>[](rpcUp /\ enabled)
    => [](Anchored => <>[](\A n \in Blocks :
                             n >= start /\ (\E m \in Blocks : m > n /\ block[m]) => Complete(n)))

\* revertIfPartial "reverts the block if it's only partially synced"
\* (models/block.js:102).  It counts the syncing transactions before the
\* transaction that destroys the block.
CompleteBlockStays ==
    [][\A n \in Blocks : RevertPartial(n) => ~Complete(n)]_vars

=============================================================================
