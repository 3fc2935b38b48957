# Ethernal, verified

Ethernal is a block explorer for EVM chains. For each customer's chain it keeps blocks,
transactions and receipts in PostgreSQL, fills them from the customer's RPC endpoint with
background jobs, and serves them through a REST API. This directory holds TLA+ models of the
parts that decide whether the explorer's data is *there* and *right*: the switch that says
whether an explorer is being synchronised, the pipeline of jobs that synchronises it, the caps on
that pipeline, the subscription that pays for it, the deletion of what is old or expired, and the
two kinds of rollup whose data comes from two chains at once.

All paths below are relative to `src/run/` unless they say otherwise.

## 1. Inventory

### 1.1 How the parts interact

    ethernal-light ──POST /blocks──▶ api/blocks.js ──enqueue──▶ blockSync ──▶ blocks, transactions
      ▲ (one process                                              │ afterCreate hook
      │  per explorer)                                            ├─▶ removeStalledBlock (5 min)
    PM2 server ◀── updateExplorerSyncingProcess                   ├─▶ integrityCheck, processBlock
      (src/pm2-server)    ▲                                       └─▶ receiptSync ──▶ receipts
                          │ afterUpdate hook
    explorers row ◀── user, Stripe hooks, RPC failure counting, syncRecoveryCheck

    scheduler.js ──every 5 min──▶ explorerSyncCheck, integrityCheckStarter, rpcHealthCheck, ...
    integrityCheck ──▶ batchBlockSync ──▶ blockSync (what the listener missed)

    enqueue, bulkEnqueue ── queueCaps ──▶ Redis ◀── queueCapSweep
    Stripe ──▶ webhooks ──▶ stripe_subscriptions ◀── requests       removeExpiredExplorers
                                 └── hooks ──▶ explorers row         └─▶ workspaceReset, deleteWorkspace
    receipts of L1 and L2 ──▶ outputs, batches, nodes, withdrawals ◀── finalizing, confirming jobs

Everything shared is a row in PostgreSQL, a job in Redis (BullMQ), or a process of PM2. There
are no locks across jobs: a worker runs ten jobs at once (`workers/highPriority.js`), there are
several workers, and almost every operation loads a row, awaits something and saves.

### 1.2 Components

| Component | State it keeps | Operations | What makes it correct | Module |
|---|---|---|---|---|
| Explorer sync switch (`models/explorer.js`, `jobs/updateExplorerSyncingProcess.js`, `jobs/syncRecoveryCheck.js`, `lib/syncHelpers.js`) | `shouldSync`, failure counter, disabled reason and date, recovery counter and date | start, stop, count a failure, auto-disable, probe, re-enable, reschedule | an explorer the code has switched off comes back when its RPC does; one that should run does; one that should not does not | `ExplorerSync` |
| PM2 server (`src/pm2-server`) | one process per explorer: none, online, stopped, errored or changing | create, resume, restart, delete | it follows the row | `ExplorerSync` |
| RPC health (`jobs/rpcHealthCheck.js`) | `isReachable` | probe, then store | never blocks a healthy explorer for good | `ExplorerSync` |
| Block synchronisation (`jobs/blockSync.js`, `jobs/receiptSync.js`, `models/block.js`, `models/transaction.js`, `models/workspace.js`) | rows of blocks, transactions, receipts; the `state` of a transaction | fetch, store, hook, inline receipts, queued receipts, revert, delete | rows change consistently; a partial block is completed or reverted | `BlockSync`, `BlockStore` |
| Integrity check (`jobs/integrityCheck.js`, `jobs/batchBlockSync.js`) | start block, cursor (with a foreign key on the block) | sync the start, latest ready block, recovery range, gap scan, cursor, chunks | whatever was missed is filled in | `BlockSync` |
| Job queues (`lib/queue.js`, `queues.js`, `scheduler.js`, `workers/`) | jobs, their ids, attempts, retained ended jobs | enqueue, bulkEnqueue, retry, stall, forget | no needed job disappears | in both |
| Queue caps (`lib/queueCaps.js`, `lib/queue.js`, `jobs/queueCapSweep.js`) | tier cache, counts | look the tier up, count, slice, add; sweep and trim | a low-tier workspace stays near its cap, a paying one is not capped | `QueueCaps` |
| Quota and billing (`lib/stripe.js`, `webhooks/stripe.js`, `models/stripesubscription.js`, `api/explorers.js`, `jobs/increaseStripeBillingQuota.js`) | rows of subscriptions, quota | webhooks, requests that change a plan, usage records | rows agree with Stripe in the end | `Lifecycle`, without quota and usage records |
| Demos and expiry (`api/demo.js`, `jobs/removeExpiredExplorers.js`, `jobs/deleteWorkspace.js`) | age, grace period, deletion flags | take over, mark, delete | an abandoned demo goes, whole | `Lifecycle` |
| Reset and retention (`jobs/workspaceReset.js`, `jobs/enforceDataRetentionForWorkspace.js`, `jobs/batchBlockDelete.js`, `jobs/batchContractDelete.js`) | rows to delete, in pages | walk, enqueue, delete | what is in the window goes, nothing else does | `Retention`; the deletion of a block and of the check are in `BlockSync` |
| OP stack rollups (`models/transaction.js`, `jobs/storeOp*.js`, `jobs/linkOpDepositsToL2Txs.js`, `jobs/processOpBatch.js`, `jobs/finalizePendingOp*.js`) | deposits, outputs, batches, withdrawals | store, link, finalize, confirm | outputs are numbered and finalized; no L2 block is in no batch | `OpRollup`, without deposits and withdrawals |
| Orbit rollups (`models/transaction.js`, `models/orbitNode.js`, `models/orbitBatch.js`, `jobs/finalizePendingOrbitBatches.js`) | batches, nodes, withdrawals | store, confirm, relay | two chains' events agree whatever their order; a withdrawal is offered for relay once | `OrbitRollup`, without deposits |
| Block and transaction processing (`jobs/processBlock.js`, `jobs/processContract.js`, ...) | columns derived from a block | fill in | idempotent | no: one reader and writer per row |
| REST API, database facade (`api/`, `lib/firebase.js`) | none of their own | queries and single writes | | the writes above; queries no |
| RPC access, statistics, contract verification, dexes, faucets, drip mails, prospecting, monitoring, front ends, blog, landing page | | | | no: I/O, computation on data, or content |

`PROJECT.json` lists all of them with their sources, and under `hazards` the places where this
code is hard to test, each with the properties that would notice.

### 1.3 What is hard here

* **Stale instances.** Sequelize's `update` sends only what differs from the values the
  instance was *loaded* with. Two overlapping savers lose updates per attribute, not per row.
* **Hooks after the commit.** `afterCreate` enqueues the job that watches a block after the
  transaction that made it; a worker may die in between.
* **Job ids.** `bulkEnqueue` names jobs; a job with the same name that waits, runs, *or has
  ended and is still retained* silently swallows the new one. BullMQ removes ended jobs only when
  another job of the queue ends, so that in a quiet queue a name may be taken for ever. `enqueue`
  gives each job an id of its own, so the same work runs twice at once.
* **Rows that come back.** A reverted block is synchronised again under new ids while jobs of
  the old copy are still running.
* **Two ways out.** An RPC timeout re-enqueues, other errors retry, and a missing receipt ends
  the job as completed.
* **Only what is between is a gap.** The gap scan looks between stored blocks, the recovery
  range past the latest ready one if that one is two minutes older than the head, and the cursor
  skips what is behind it except once an hour.
* **Room.** A scan, a chunk and an announcement of a low-tier workspace are cut off where its room
  in the queue ends, and whatever is cut off is asked for by another scan or never.
* **Read, then await, then write.** A cap is counted before jobs are added, a subscription is
  loaded before Stripe is asked, an index is read before a batch is computed, ids are paged before
  they are deleted. Most of these have no lock, and the one lock there is (`jobs/processOpBatch.js`)
  is on a row found before it was taken.
* **Two sources for one row.** A webhook and the request that caused it, the receipt and the job
  it enqueues, the receipts of both chains: both write, in any order.

## 2. Modules

| Module | What it is |
|---|---|
| `ExplorerSync` | one explorer: its row, its process, its RPC, and everyone who loads and saves them |
| `ExplorerSyncProofs` | its type invariant and the invariant behind recovery, proved |
| `MCExplorerSync` | instances for TLC |
| `BlockStore` | abstract: what the tables promise their readers |
| `BlockSync` | the jobs, the queues and the rows of one public workspace |
| `BlockSyncProofs` | its type invariant, that partial blocks are watched, that it implements `BlockStore`, that nothing is asked for past the head, that scans overlook no hole but for want of room and chunks lose nothing but to the cap: proved |
| `MCBlockSync` | instances for TLC |
| `QueueCaps` | enqueuers and the sweep around the cap of one low-tier workspace in one queue |
| `QueueCapsProofs` | its type invariant, the bound on overshooting and what the bounds add up to, proved |
| `Lifecycle` | one explorer, its subscriptions and its workspace, between Stripe, the user and expiry |
| `LifecycleProofs` | its type invariant and that a living explorer keeps its workspace, proved |
| `Retention` | resets that walk the tables of a workspace in pages, and the jobs that delete |
| `RetentionProofs` | its type invariant, that only what is old goes and that no block the walk has passed is left behind, proved |
| `OpRollup` | outputs and batches of an OP Stack chain |
| `OpRollupProofs` | its type invariant, that batches leave no gap and that outputs are numbered, proved |
| `OrbitRollup` | batches, nodes and withdrawals of an Orbit chain |
| `OrbitRollupProofs` | its type invariant, that withdrawals are relayed exactly when executed and stay relayed, proved |
| `MCServices` | one instance for TLC of the last five systems |
| `MCServicesProofs` | the composition implements each of them and inherits what was proved, proved |

Some definitions are followed by *faulty* variants (their comment says "Faulty"): the code with
a plausible bug. No specification uses them. `PROJECT.json` pairs each with the property that
it breaks, which shows that the property would notice.

### 2.1 ExplorerSync

`row` holds the sync attributes of the explorer's row. An actor is a program counter and the
instance it `loaded`; between two of its steps anybody else may act. `Save(loaded, new)` is
Sequelize's `update`: the attributes in `Dirty(loaded, new)` are written over whatever the row
holds *now*. It also enqueues the `updateExplorerSyncingProcess` job of the `afterUpdate` hook;
`increment` has no hook, which is why `Increment` does not enqueue.

| Actor | Actions | Code |
|---|---|---|
| the user | `StartSyncRequest`, `StartExplorerSync`, `StopSyncRequest`, `StopExplorerSync`, `SettingsRequest`, `UpdateSettings`, `SafeDelete` | `api/explorers.js`, `api/workspaces.js`, `lib/firebase.js` |
| the subscription's hooks | `SubscriptionCreated`, `StartSync`, `SubscriptionDestroyed`, `StopSync` | `models/stripesubscription.js`, `Explorer.startSync`, `Explorer.stopSync` |
| an updater | `Take` or `TakeCheck`, `FindProcess`, then one of `ResetProcess`, `DeleteProcess`, `DeleteUnreachable`, `StartProcess`, `ResumeFails`, `NoProcessChange`; `ResetFailures`; `JobThrows` | `jobs/updateExplorerSyncingProcess.js` |
| a reporter | `SyncJobStarts`, `SyncJobSucceeds`, `ReportRpcFailure`, `SyncFailureReported` | `lib/syncHelpers.js`, `POST /:slug/syncFailure` |
| updater or reporter | `Increment`, `Reload`, `AutoDisableSync` | `Explorer.incrementSyncFailures`, `autoDisableSync` |
| a recovery check | `RecoveryLoads`, `RecoveryProbes`, `EnableSyncAfterRecovery`, `ScheduleNextRecoveryCheck` | `jobs/syncRecoveryCheck.js` |
| the rest | `ExplorerSyncCheck`, `CheckForgotten`, `RpcHealthProbe`, `RpcHealthStore`, `RecoveryFallsDue`, `RpcChanges`, `QuotaChanges`, `ProcessLost`, `ProcessSettles` | the jobs named, BullMQ, PM2, the world |

`pending` are the updater jobs of hooks, which have ids of their own. `check` is the one of the
periodic `explorerSyncCheck`, whose id is the same every time: as long as BullMQ knows it, be it an
ended job, nothing is added (`jobs/explorerSyncCheck.js:13-18`). An ended one is forgotten
(`CheckForgotten`) when another job of the queue ends.

`proc` is what the updater sees of PM2: no process, `online`, `stopped`, `errored` (given up by PM2)
or `changing` (launching, stopping, waiting for a restart). The updater resumes a stopped process and
starts a missing one, and leaves the others as they are (`MustStart`).

`operations`, one of the sets in `Scenarios`, says what the world does in a behaviour: which
requests, subscription events, outages and lost processes occur, and whether other jobs keep the
queue busy (`otherJobs`). It never changes. It keeps the
instances apart that ask different questions, without restricting what the code does.

Abstracted: dates are absent, ahead or past; counters stop where the code no longer tells values
apart; waiting updater jobs, which carry no data, are merged beyond `MaxPendingJobs`; an
instance keeps only the attributes its actor will look at or save.

### 2.2 BlockSync

The state is the chain and its explorer (`head`, `rpcUp`, `reachable`, which is what the last health
check stored of `rpcUp`, `enabled`), the rows (`block`, `tx`, `receipt`), the
integrity check's row (`start`, `cursor`), and the jobs. A job's `pc` says how far it has come;
its `live` whether the row id it holds is that of a row which is still there. `RemoveBlock`
clears `live` of every job and saver of the block, so a block that is stored again is a new copy
of which the old jobs know nothing.

| Job | Actions | Code |
|---|---|---|
| the listener | `NewBlock` | `api/blocks.js` |
| `blockSync` | `FetchBlock`, `SyncDisabled`, `FetchBlockFails`, `StoreBlock`, `AfterCommit`, `AfterSkipped`, `NoTransactions`, `FetchReceiptsInline`, `InlineDone`, `QueueReceipts` | `jobs/blockSync.js`, `Workspace.safeCreatePartialBlock`, `Block.afterCreate` |
| `receiptSync`, inline savers | `FetchReceipt`, `NothingToFetch`, `ReceiptNotAvailable`, `RequeueReceipt`, `StoreReceipt`, `SetReady`, `StoreFails` | `jobs/receiptSync.js`, `Transaction.safeCreateReceipt` |
| `removeStalledBlock` | `CountSyncing`, `KeepBlock`, `RevertPartial`, `RevertFails` | `jobs/removeStalledBlock.js`, `Block.revertIfPartial`, `safeDestroy` |
| `integrityCheck` | `SyncStart`, `ReadLatest`, `ScanGaps`, `AdvanceCursor` | `jobs/integrityCheck.js` |
| `batchBlockSync` | `BatchBlockSync` | `jobs/batchBlockSync.js` |
| `rpcHealthCheck` | `RpcHealthCheck` | `jobs/rpcHealthCheck.js` |
| reset, retention | `DeleteBlock`, `DestroyIntegrityCheck` | `jobs/batchBlockDelete.js`, `Workspace.safeDestroyIntegrityCheck` |
| BullMQ | `Enqueued`, `BulkEnqueued`, `ForgetSync`, `ForgetReceipt`, `ForgetBatch`, `BlockSyncDies`, `CheckDies` | `lib/queue.js`, `queues.js` |

Steps are cut where another job can see or change something: at each await of the RPC, at each
commit, at each enqueue after a commit. What one database transaction does is one step.

* A job has a kind. A job `"batch"` carries the workspace `batchBlockSync` had loaded and asks of it
  no more whether sync is on; the one that follows it after a timeout (`"requeued"`) carries it on.
* `Time` gives each block a timestamp: a recovery range is asked for if the head is more than
  `RecoveryDelay` younger than the latest ready block (`Late`).
* With `lowTier`, the queue leaves any room between none and enough (`Rooms`): a scan asks for gaps
  until it is used up (`WithinBudget`), and of a chunk as many jobs are accepted (`Accepted`).
* A block that another job stored in between is skipped by `bulkCreate`, whose hook runs for it all
  the same and may set the start (`"skipped"`, `AfterSkipped`).

Abstracted:

* Delays. A delayed job may run at any time, so "five minutes later" includes "at once"; the
  fairness (section 4) says where the delay matters.
* Priorities, and what receipts contain. Of the caps, what they do to single jobs outside of scans
  and chunks: a dropped announcement is one the listener missed (`Listened`).
* Jobs with ids of their own and the same data: at most one for each of `Slots`.
* The attempts of `removeStalledBlock`: 15 of them, 30 seconds apart, in the code; unlimited in
  the model. Section 3.3 says what the limit could cause.
* A receipt job of a block above the inline threshold carries its workspace and does not ask
  whether sync is on (`ToFetch`), as a job of a batch does not (`FetchBlock`).

### 2.3 BlockStore

Three sets: blocks stored, receipts stored, transactions ready. A block goes together with its
transactions and receipts, a transaction is ready only after its receipt, and neither is taken
back while the block is there. `BlockSync!StoreSpec` instantiates it with the rows.

### 2.4 QueueCaps

A job is its BullMQ id; `queue` says whether it waits. A caller is an enqueuer or the sweep, with a
program counter and the jobs in hand. `tier` is what the database says, `cache` what Redis does.

| Actor | Actions | Code |
|---|---|---|
| an enqueuer | `Enqueue`, `CountWaiting`, `Add` | `lib/queue.js`, `lib/queueCaps.js` |
| an enqueuer or the sweep | `Lookup`, `EvaluateTier`, `StoreTier` | `isLowTierWorkspace` |
| the sweep | `Scan`, `Trim` | `jobs/queueCapSweep.js` |
| the rest | `TierExpires`, `TierChanges`, `WorkerTakes`, `JobForgotten`, `JobFails`, `DirectWrite` | Redis, subscriptions, workers, retries, writes around the cap |

`Named` are the jobs whose id begins the way the count expects. Which jobs a slice keeps and a trim
removes is left open, and active, delayed and retained jobs are one state: none of them is counted
and none can be added again. A job that is added with a delay goes there at once (`Add`) and comes to
wait like one that failed, uncounted (`JobFails`).

### 2.5 Lifecycle

`stripe` is the truth at Stripe, `events` the webhooks it has not had an answer for, `rows` what
the database says of this explorer's subscriptions. The webhook handler, the user's request and
the expiry job each load (`Loaded`: `hasOne` shows any of the rows), await and write to whatever
is there by then. An error in a handler leaves the event where it is.

| Actor | Actions | Code |
|---|---|---|
| Stripe | `Checkout`, `Portal`, `SubscriptionEnds` | external; `api/stripe.js` starts a checkout |
| the webhook | `Receive`, then one of `CancelWebhook`, `DeleteWebhook`, `CreateWebhook`, `MigrateWebhook`, `WriteWebhook` | `lib/stripe.js`, `lib/firebase.js`, `models/explorer.js` |
| the user | `StartTrial`, `CancelSubscription`, `DeleteExplorer`, `ChangePlan`, `MigrateExplorer`, and what follows each: `StartTrialCreates`, `RequestCancels`, `RequestDeletes`, `RequestMarks`, `RequestEnqueues`, `RequestWrites`, `ClearFlags` | `api/explorers.js`, `api/demo.js` |
| expiry | `Ages`, `LoadExpired`, `StartGracePeriod`, `GracePeriodEnds`, `DeleteExpired`, `EnqueueDeletion` | `jobs/removeExpiredExplorers.js` |
| the workspace's jobs | `WorkspaceReset`, `DeleteWorkspace` | the jobs of these names |

Plans are reduced to whether they expire; trial, trial with a card and active are one status. The
hooks of a subscription's row are in `ExplorerSync`, where `subscribe` and `unsubscribe` stand for
everything this module does.

### 2.6 Retention

A reset walks the blocks, then the contracts, of its window in pages (`ResetBegins`, `ReadPage`) and
enqueues one named job per chunk; `ResetRestarts` is a job that stalls or throws. The deletion jobs
(`DeleteBatch`) run meanwhile, rows are added (`RowStored`), and an ended job's name is known until
ten others have ended (`NameForgotten`). Ids grow with time, so that a window is the last id it
contains. The name of a job that deletes blocks holds the window and the offset, that of one that
deletes contracts the offset alone: `Owner`. A deletion job is attempted until it deletes: its ten
attempts, and the foreign key `orbit_withdrawals.l1TransactionId`
(`migrations/20250825085707-*.js:47-54`), which refuses to let the transaction of an executed withdrawal
go and with it its block, are left out.

### 2.7 OpRollup and OrbitRollup

Receipts are stored by many workers in any order. In `OpRollup`, a receipt with a new dispute game
ends in one of three ways. `GameReads` and `GameCommits` (or `GameRollsBack`) are the receipt that
knows the configuration of the chain and finds its transaction sent to the factory: it reads the
highest index without a lock and writes the next one, or nothing if another has taken it, and a
`storeOpOutput` job follows unless it is lost (`EnqueueOrNot`). `GameRelayed` is a game created through
another contract: the row is told by the address the transaction was sent to, the job by the one that
emitted the event, so there is a job and no row. `GameUnnoticed` is a receipt handled inline or with the
workspace of a batch, which carries no configuration: neither. `StoreOpOutput`, `PeriodEnds` and
`FinalizeOutputs` follow. `BatchReads` and `BatchCommits` cut `processOpBatch` between the row it
finds and the one it writes, `ConfirmBatches` is the repeated job.

In `OrbitRollup`, block *i* of the L2 chain is all of batch *i*, node *i* confirms it and withdrawal
*i* is sent in it. `BatchDelivered`, `NodeCreated`, `ConfirmUnknown`, `ConfirmLoads`, `ConfirmCommits` and
`ConfirmRollsBack` are receipts of the parent chain. A confirmation loads its block and the batches,
and later updates withdrawals; `OrbitNode.confirm` passes the transaction in a place where `update` does
not look for it (`models/orbitNode.js:51`), but Sequelize finds it through CLS (`models/index.js:13-15`),
so that all of it commits or rolls back together. `ExecutedLoads` and
`ExecutedCommits` are the execution of a withdrawal, `FinalizerLoads` and `FinalizerConfirms` the job.

### 2.8 MCServices

The services share no state with one another. `MCServices` composes them without interleaving
them: a behaviour belongs to one `part` from its start, and only the steps of that part are taken.
The states are then added, not multiplied. This is sound for what is checked: the other services
stay as `Init` leaves them, where none of the actions their `Fairness` names is enabled; and where a
service has several parts, a part leaves out only steps nothing asks for (a tier that does not
change, a user who does not act), so that a fair behaviour of the part is one of the service.
`MCServicesProofs` proves that last sentence: `ServicesSpec` implies the `FairSpec` of
each service, and the `Spec` of `OrbitRollup`, which promises nothing that takes fairness.

The services are instantiated together with their proofs (`L == INSTANCE LifecycleProofs WITH ...`),
so that each theorem can be cited of its instance.

## 3. Runs

### 3.1 That pass

| Run | Checks | What it shows | Bounds, and why they are enough |
|---|---|---|---|
| `MCExplorerSync_row` | `TypeOK`, `RecoveryScheduled`, `RecoversWhenRpcReturns` | failure reports, a user's start and stop, and recovery checks overlap: a disabled explorer always has a next date, and comes back when its RPC does | one reporter, one recovery check, thresholds of 2: below, at and above each threshold occur, and three savers overlap |
| `MCExplorerSync_life` | `SyncingExplorerRuns`, `UnentitledExplorerStops` | *process, reset*: processes lost, stopped, restarted or given up, health answers stored late, jobs that throw, a periodic check whose last job's name is still known: a process that should run does again and again, unless PM2 has given it up. *entitlement, unsubscribe*: settings changes, subscriptions, quota, deletion, a user's start and stop come and go, and an explorer without the right to it keeps losing its process | one updater, one reporter, thresholds of 2; four sets of operations, two with an end of the subscription and two without |
| `MCBlockSync_rows` | `TypeOK`, `BlockWatched`, `StoreSpec` | one block synchronised by two jobs at once, deleted, synchronised again, with a failure and an outage: no partial block is unwatched, rows change only as `BlockStore` lets them | two blocks, one transaction, two sync jobs per block, one failure: a copy, its successor, and savers of both |
| `MCBlockSync_partial` | `PartialBlocksResolve` | sync switched on and off, a failure: a partial block becomes complete or goes, unless the cursor stands on it | two transactions above an inline threshold of 1, so that one receipt arrives without the other, through `receiptSync` jobs |
| `MCBlockSync_recovery` | `NothingPastHead`, `ScanAsksForHoles`, `WantedIsKept` | one block of four is heard of, sync goes off and on, and the queue leaves any room or none: the check synchronises its start and what is behind the latest ready block in chunks of one, up to the head and never past it; a scan leaves a hole without a job only for want of room, and a chunk loses a number its range had only to the cap or while sync is off | four blocks: a start, one that is heard of, two beyond it, so that a hole of one, a range of several chunks and a seam between them occur; rooms of 0 to 3; the blocks' times make the head late for some latest ready blocks and not for others |
| `MCBlockSync_fills` | `ChainFilled` | a missed block between two others, whose receipt may be lost: found, stored, reverted and stored again until it is complete, with names of ended jobs in the way until other jobs make BullMQ forget them | three blocks, one transaction, inline receipts |
| `MCServices` | see below | the services of 2.4 to 2.7 | see below |

The parts of `MCServices`:

| Part | Properties | What it shows | Bounds, and why they are enough |
|---|---|---|---|
| `race` | `TypeOK`, `OvershootBounded`, `SweepRestoresCap` | two enqueuers count before either adds: together they overshoot the cap, but neither alone does, and the sweep brings the workspace back | two enqueuers, two jobs, a cap of one: the overshoot occurs |
| `faults` | the same, `PayingIsNotCapped` | errors of Redis and the database, retries and direct writes come in around the cap and the tier changes; once a workspace pays it is not capped for longer than a tier is cached | one mishap of any kind: every branch of an error is taken |
| `owned` | `LifecycleTypeOK`, `LivingKeepsWorkspace`, `LiveIsActive`, `EndingIsPending`, `EndedIsRemovedByWebhook` | whatever requests and webhooks wrote meanwhile, the rows end up agreeing with Stripe; only an explorer that is gone loses its workspace | two subscriptions one after the other, two rows, two unanswered events: events of both overlap with a request |
| `demo` | the same, `AbandonedDemoGoes` | a demo is taken over, or goes after its grace period with its workspace, however large | one subscription, as a demo is taken over once |
| `resets` | `RetentionTypeOK`, `OnlyOldGo`, `PassedBlocksAreAsked`, `BlocksOfWindowGo` | two resets with windows of their own walk and delete at once: what is old goes, what is new stays, and what a walk has passed has a job | three blocks, pages of two, chunks of one: a full page and a last one, two jobs of a page |
| `restart` | `OnlyOldGo` | a reset starts again under names that are taken, and goes on to the contracts | the same, one contract, one restart |
| `outputs` | `OpTypeOK`, `OutputsNumbered`, `OutputsFinalize` | two games read the same index: one is ignored, its job finds index 0 taken. A game created through another contract is stored by its job alone, with index 0 if that is free, between, before or after them. The indices have no gap and no repetition, and what a call to the factory stores is finalized | three games, one of them through another contract: a first output, whosever it is, and two that race for the next index |
| `batches` | `BatchesLeaveNoGap` | several jobs compute a batch at once from what each has found: ranges may overlap but leave no gap | three batches, two blocks |
| `confirmations` | `OrbitTypeOK` | nodes, batches and the finalizer, with confirmations rolled back and attempted again | two indices: an earlier batch is finalized by a later node |
| `withdrawals` | `ExecutedMeansRelayed`, `RelayedStays` | an execution's receipt is stored exactly when its withdrawal is relayed; a relayed withdrawal is not offered again by a stale or repeated confirmation | two withdrawals: `UpTo` reaches one too many |

### 3.2 That find a violation

Each checks one property that states what a comment of the code says.

| Run | Property | What happens |
|---|---|---|
| `MCExplorerSync_lost` | `DisabledIsRecoverable` | `autoDisableSync` sends `shouldSync = false` but not the reason, because the reason it stores is the one it had loaded; a recovery check has cleared it in between. The explorer is off, without a reason, and `syncRecoveryCheck` never looks at it |
| `MCExplorerSync_orphan` | `StoppedExplorerStops` | two updater jobs: the one that loaded `shouldSync = true` starts the process after the one of the stop found none. `explorerSyncCheck` looks only at explorers that should sync, so the process stays |
| `MCBlockSync_crash` | `PartialBlocksResolve` | a worker dies between the commit of a block and its `afterCreate` hook. The retried job finds the block and ends; no receipt is asked for and nothing will remove the block |
| `MCBlockSync_complete` | `CompleteBlockStays` | the last receipt is stored between the count of syncing transactions and the removal: a complete block is removed |

| `Lifecycle_trial` | `EndedIsRemoved` | `startTrial` creates the subscription at Stripe and then a row of its own, without looking for the one the webhook has created meanwhile. The explorer has two rows; the end of the subscription removes the one `hasOne` shows, and the other stays, active. In `owned` the same property holds as long as only webhooks create rows |

### 3.3 Seen while modelling, without a run

The first three are definitions of the modules that fail when they are checked by hand:

* `QueueCaps!WaitingWithinCap`: jobs the count does not see are waiting beyond any cap: those of
  `batchBlockSync`, named after the user first, and those whose ids BullMQ makes up.
* `OpRollup!BatchIndexIdentifies`: two overlapping `processOpBatch` jobs go on with the same row, and
  two batches get one index. `BatchesLeaveNoGap` holds nevertheless.
* `Retention!ContractsOfWindowGo`: with two contracts and two resets, the second reset's job for
  the second contract has the name of the first reset's job, which has ended but whose name is still
  known. Names are forgotten only when ten other jobs of that queue have ended, which on a quiet
  installation may take long. The same holds for the blocks of a reset that starts again, which is
  why `BlocksOfWindowGo` is stated for behaviours without a restart.

And, plain from the code:

* The `if` of `api/explorers.js:1078` has no braces: a workspace the user keeps is reset all the same.
* `removeExpiredExplorers` loads all explorers before its loop, so that one which is taken over while
  others are deleted is deleted on the strength of its old plan; and the jobs for the workspace
  are enqueued after the explorer, by which they would be found again, is gone.
* A demo bought by a checkout keeps `pendingDeletion` and `deleteAfter`, which only
  `POST /demo/migrateExplorer` clears. Until the webhook arrives its row has no id at Stripe, and a
  request acts on that row.
* No OP deposit is ever linked to its L2 transaction. The row a receipt writes, the only one with the
  hash (`models/transaction.js:563-576`), has no `timestamp`, which `op_deposits` must have
  (`migrations/20251229000004-create-op-deposit.js`); the refused statement also aborts the transaction
  of the receipt. The rows of `storeOpDeposit`, the log listener and the backfill have no hash.
  Besides, `linkOpDepositsToL2Txs` takes any 100 pending deposits, which may be 100 it can
  never link, and looks L2 transactions up by the hash alone, whichever workspace they are in.
* An output whose game was created through another contract has no end of its challenge period and is
  never finalized, and every one but the first finds index 0 taken (`StoreOpOutput`). A receipt handled
  inline, or with the workspace of a batch, leaves no row and no job of its game (`GameUnnoticed`).
* A withdrawal that is executed before its L2 block is synchronised is waited for in 15 attempts; then
  the receipt is given up, and with it the execution, unless its block is reverted and synchronised
  again. A parent workspace without an active explorer stores no receipts by `receiptSync` at all
  (`jobs/receiptSync.js:133-148`).
* The proof of an OP withdrawal that is handled before the withdrawal is stored is skipped for
  good, and one handled after its finalization takes it back to `proven`
  (`models/transaction.js:589-605`).
* `finalizePendingOrbitBatches` confirms batches that it found pending, although a node may have
  finalized them since (`FinalizerConfirms`); the confirmation of a node that is not stored yet is
  logged and never asked for again (`ConfirmUnknown`); blocks stored after their batch are not
  linked to it; withdrawals count from 0 and `sendCount` from 1, so that `<=` offers one too many (`UpTo`).

* `bulkEnqueue` of the receipt jobs of a block that was reverted and stored again: jobs of the
  first copy that have ended are retained under the same names and swallow the new ones. The
  block is then reverted once more, five minutes later, and `ChainFilled` holds as long as other
  jobs make BullMQ remove the ended ones, which it does after four minutes or a hundred of them,
  but only when another job of the queue ends. In a quiet installation a name may stay for ever, and
  with it what it swallows: receipts, blocks of a batch, whole gaps, and the periodic
  `updateExplorerSyncingProcess`. Hence `otherJobs` in the properties.
* The last blocks the listener missed on a chain that rests are asked for by nobody: there is no gap
  before them, and the recovery range needs a head two minutes younger than the latest ready block.
  `ChainFilled` says nothing of the blocks behind the last one stored.
* The cap drops jobs of chunks and announcements of a low-tier workspace; `batchBlockSync` logs it and
  ends. So does a range that is asked for while sync is off or the RPC known to be unreachable
  (`jobs/batchBlockSync.js:65-76`). What is between stored blocks is found by a later scan, if its name
  is free; `ChainFilled` leaves low-tier workspaces out, because any one scan may find no room.
* A process that PM2 has given up (`errored`) is neither resumed nor deleted as long as the explorer
  should sync: `updateExplorerSyncingProcess` knows only missing and stopped ones
  (`jobs/updateExplorerSyncingProcess.js:109-124`), although the PM2 server would restart whatever is
  not online (`src/pm2-server/app.js:105`).
* `jobs/integrityCheck.js:116` takes block number 0 for a missing one: as long as only block 0
  is ready the check ends early. `ChainFilled` asks for an anchor past block 0.
* If the foreign key of the integrity check refuses all 15 attempts of `removeStalledBlock`, nothing
  watches the partial block any more.
* With the RPC stored as unreachable, updater jobs alternate between deleting the process and
  counting a failure, and starting it and resetting the counter. The threshold may never be reached.
* `PUT startSync` saves `shouldSync` alone, not what `Explorer.startSync` resets.
* A new subscription on an auto-disabled explorer, a failure report and a recovery check, all
  three overlapping, can leave a reason without a date. The theorem of section 5.1 therefore
  assumes that no subscription is created meanwhile, and `MCExplorerSync_row` leaves it out.
* `Account.findAll()` in `safeDestroyAccounts` (`models/workspace.js:3842`) has no condition on
  the workspace.

### 3.4 Deadlock

`CHECK_DEADLOCK FALSE` stands in every configuration because each system may be at rest: a chain
that has reached `MaxBlock` and is complete has no job left, and a deleted explorer none either.

## 4. Fairness

Liveness is checked under `FairSpec` of each module.

*ExplorerSync.* The schedulers repeat for ever (`scheduler.js`), so `ExplorerSyncCheck` and the
health check are weakly fair. That an ended job is forgotten is fair only under `otherJobs`, for BullMQ
removes it when another job of the queue ends; the two properties of the process ask for that.
PM2 finishes what it has begun (`ProcessSettles`). A request and a hook run to their end. An updater or recovery check
may die or throw at any step and is then enqueued or selected again; strong fairness of its steps
says that a job attempted again and again gets through. Nothing is assumed of users, incidents, or
jobs that might report a failure.

*BlockSync.* The chain goes on; the integrity check is repeated every five minutes, and in the
first minutes of each hour it scans everything (`SF` of `ScanGaps(TRUE, room)`, with whatever room the
queue leaves); whether it is late depends on the times of the blocks alone. Health checks are repeated
every minute. Workers take jobs and bring them to an end, each by whichever step the state allows
(`GoOn`). That ended jobs are forgotten is fair only under `otherJobs`, and `ChainFilled` asks for it;
`PartialBlocksResolve` is checked without. A receipt may be missing
for as long as the RPC likes, but of all the attempts to fetch and store it *before the block is
reverted*, which the five minutes' delay of `removeStalledBlock` leaves room for, some succeed
(`ReceiptFetched`, `InTime`). Without it a block could be stored and reverted for ever, and
`ChainFilled` would be false for a reason the delay rules out. `PartialBlocksResolve` does not
depend on it. Failures are bounded by `MaxFailures`: a worker that dies for ever is not a system.

*QueueCaps.* A call that was begun goes on, the sweep runs every ten seconds, a key set with `EX`
expires. Nobody promises that a worker takes a job, nor that anything more is enqueued.

*Lifecycle.* Stripe delivers an event until it is answered, requests and handlers run on, the expiry
job is repeated every hour, workers take jobs, and a date that is set passes. Nothing is asked of
the user, nor does a subscription have to end.

*Retention.* Resets and deletion jobs are worked off. That a name is ever forgotten is not assumed,
for nothing in the code sees to it.

*OpRollup.* The repeated jobs run and challenge periods end. Nobody promises that a receipt is stored
or that a job is not lost.

*OrbitRollup* has no fairness: a receipt is attempted a limited number of times, and nothing is claimed
to happen in the end.

## 5. Proofs

TLAPS checks every theorem and lemma to the last leaf. Each holds for every value of the
constants that `ConstantsAssumption` admits: any number of jobs, any thresholds, any chain
length, any distribution of transactions over blocks, any set of operations. `Retention`,
`Lifecycle`, `OpRollup` and `OrbitRollup` state no assumption; a theorem that needs something of their
constants says so itself:

* a bound, or the size of a page, is a natural number, and the size of a chunk a positive one;
* `EnqueuersShareCaps` that there are finitely many enqueuers;
* `RecoveryAlwaysScheduled` and `PartialBlocksWatched` exclude one operation each, because TLC or the
  code shows that they fail with it (sections 3.2 and 3.3).

Each of these hypotheses is the case in a passing run.

### 5.1 ExplorerSyncProofs

* `TypeCorrect`: `Spec => []TypeOK`. The work is in `Save`: an attribute of the new row is either
  the stored one or one an actor writes, and `NextCheckFields` must stay within the attempts.
* `RecoveryAlwaysScheduled`: `Spec => []RecoveryScheduled`, if no subscription is created.
  `RecoveryScheduled` is not inductive: a saver writes on the strength of what it loaded. The
  invariant `RecoveryInv` says in addition what a recovery check that has not saved yet knows
  about its own instance (it holds a reason and a date), and that the hook never stands at
  `"start"`. Then whichever saver comes last, either it clears the reason, or the date is one
  that it always sends, because a new `Date` never equals the loaded one.

### 5.2 BlockSyncProofs

* `TypeCorrect`: `Spec => []TypeOK`.
* `PartialBlocksWatched`: `Spec => []BlockWatched`, if no worker dies between a commit and its
  hook (`MCBlockSync_crash` shows that this is needed). It is inductive together with `TypeOK`:
  the hook turns a live committed job into a watched block; a job is only ever overwritten when
  it is absent (the lemmas on `Enqueued` and `BulkEnqueued`), so no committed job is lost; and `stall`
  becomes `"none"` only with the block complete or gone.
* `RowsImplementStore`: `Spec => StoreSpec`. The guards of the abstract actions follow from what
  a live job knows: `RowInv == RowsAgree /\ LiveJobs` says that a receipt has its block, a ready
  transaction its receipt, a watched block is there, a live job or saver refers to a stored
  block, and a live saver about to set a state has stored the receipt. Each step is then shown
  to be one abstract step or a stutter.
* `NothingIsPastHead`: `Spec => []NothingPastHead`. Numbers travel far before they become a job: the
  check reads the head and the latest ready block, scans later, names ranges, and `batchBlockSync`
  cuts chunks off these. `HeadInv` adds that what a check has read is behind the head and, once it
  is past its start, is the number of a block (`CheckBehindHead`); the head never goes down. The arithmetic of
  chunks is in `ChunkInRange`: what is left of a range starts after the chunk, ends with the range
  and is a range itself unless the chunk was the last.
* `NoHoleOverlooked`: `Spec => ScanAsksForHoles`. `GapsCoverHoles` says that a number missing between
  two stored blocks lies in one of the `Gaps` the query returns: with the highest block stored below
  it and the lowest above it (`LowestAndHighest`, by well-founded minima) the query finds the pair.
  A gap below it counts at least one hole each against the queue's room (`BelowIsHoles`): so a hole
  that is passed over has at least as many holes below it as there is room. The gaps are disjoint, so
  that counting those below (`Below`) is counting the rounds of the code's loop. That the range of a
  late scan is one needs `HeadInv`.
* `WantedIsNotLost`: `Spec => WantedIsKept`. It rests on `TypeOK` alone, but on every step of every
  actor: only `BatchBlockSync` ends a waiting range (`RangesWait`), and a number of it is then in the chunk,
  whose missing blocks have jobs or are those the cap of a low tier drops, or in what is left, which
  has a job (`BatchKeepsWanted`). It speaks of steps taken while sync is on and the RPC is not known
  to be unreachable: otherwise the job ends and the range with it (`jobs/batchBlockSync.js:65-76`),
  which leaves the repair to the integrity check.

### 5.3 QueueCapsProofs

* `TypeCorrect`: `Spec => []TypeOK`. What is trimmed is an amount that is there, and what is in hand
  is a set of jobs; both rest on facts about the cardinality of finite sets.
* `OvershootIsBounded`: `Spec => []OvershootBounded`, for any number of enqueuers and any cap. For
  each enqueuer, `capped` are the jobs it added below the cap that have been waiting ever since.
  The invariant adds that they are counted (`CappedAreCounted`): so when the enqueuer counts again,
  what it takes in hand fits beside them, whoever else has added something in between.
* `EnqueuersShareCaps`: the counted jobs that *any* enqueuer added below the cap and that still wait,
  together with all that is in hand, are at most *n* caps for *n* enqueuers. `CapsAddUp` proves that a union of *n*
  sets of jobs of at most a cap each has at most *n* caps, by a smallest counterexample instead of an induction.

### 5.4 LifecycleProofs

* `TypeCorrect`: `Spec => []TypeOK`. The type invariant needs to know what the handler and the
  request hold: a handler that is under way has an event that is not answered yet (`HandlerOK`;
  only it takes one away), a row it loaded was a row of the table, and the step a request goes on to
  is one it has (`RequestOK`). An id at Stripe that a row holds is one of a subscription.
* `LivingIsKept`: `Spec => []LivingKeepsWorkspace`. The jobs for the workspace are enqueued by whoever
  deleted the explorer, in a later step. `LivingInv` says that nobody is about to enqueue them while
  the explorer lives (`EnqueuesAfterDeletion`); a deletion that is refused leads elsewhere, and a
  deleted explorer stays deleted (`DeletedStays`).

### 5.5 RetentionProofs

* `TypeCorrect`: `Spec => []TypeOK`, for any sizes of pages and chunks.
* `DeletesOnlyOld`: `Spec => OnlyOldGo`. What a job deletes is decided when its page is read, and
  done much later. The invariant `JobsOld` says that it lies in the window of a reset that was begun,
  and `WindowsStay` that no step, a restart included, moves a window: so what was old then is old
  when it is deleted.
* `NoBlockLeftBehind`: `Spec => []PassedBlocksAreAsked`, for any positive size of chunks; the property
  itself speaks of behaviours without a restart. `AskedInv` adds that the walk is ahead of the names it has given, so that the names
  of a page are free and its jobs are not swallowed (`NamesBehind`), and that a row stored now is in
  no window (`WindowsBehind`). `ChunksCover` says that cutting a page by offsets leaves no id out: the
  rank of an id, rounded down to a multiple of the size, is the start of its chunk.

### 5.6 OpRollupProofs, OrbitRollupProofs

* `TypeCorrect` of both.
* `NoGapBetweenBatches`: `Spec => []BatchesLeaveNoGap`. The index and the first block a job goes on
  with may be stale. The invariant says that below them every index is a batch's and every block is
  in one, for the batches that are stored (`NoGapBeforeBatches`) *and* for the jobs that have read
  (`NoGapBeforeJobs`); rows are never taken back and their ranges never change, so that this stays true while a job
  is under way, and the batch it stores inherits it.
* `OutputsAreNumbered`: `Spec => []OutputsNumbered`. Receipts in progress hold an index that may be stale. The
  invariant `OutputInv` says that below it every index is taken (`NoGapBeforeReceipts`) and that an
  output and its job come with the receipt or after it (`OutputsFromReceipts`): so a receipt whose
  index was taken meanwhile leaves no output (`ReceiptOnlyKeeps`, `RollBackKeeps`), and index 0, which
  the job takes for a game created through another contract, is one that nobody can leave a gap below.
* `RelayedIsFinal`: `Spec => RelayedStays`. Only the readying of withdrawals could take one back,
  and it looks at the status in its own statement; the receipt of the L2 chain could, but it comes
  before the row (`KnownFromReceipt`). The invariant adds that whoever is about to relay a
  withdrawal has found it.

* `RelayedWithReceipt`: `Spec => []ExecutedMeansRelayed`, from the same invariant, of which it is a part.
  A step that relays a withdrawal stores the receipt of its execution and no other (`HandleStores`),
  and no other step stores one.

### 5.7 MCServicesProofs

`StepOfEach` shows that a step of the composition is, for each of the five services, one of its own
steps or none; with the same initial states and the fairness that `ServicesSpec` states for each,
`EachServiceRuns` follows: `ServicesSpec => FairSpec /\ L!FairSpec /\ W!FairSpec /\ O!FairSpec /\ R!Spec`. The other
theorems cite those of the services, of their instances, for the very formulas that the run
`MCServices` checks.

### 5.8 Only model-checked

Liveness (`RecoversWhenRpcReturns`, `SyncingExplorerRuns`, `UnentitledExplorerStops`,
`PartialBlocksResolve`, `ChainFilled`, `SweepRestoresCap`, `PayingIsNotCapped`, `LiveIsActive`,
`EndingIsPending`, `EndedIsRemovedByWebhook`, `AbandonedDemoGoes`, `BlocksOfWindowGo`,
`OutputsFinalize`): fairness and `ENABLED` are beyond the
prover. The violations of section 3.2 are counterexamples, and TLC's to find.

Every invariant and every action property that a passing run checks is also proved,
`RecoveryScheduled` and `BlockWatched` under the conditions named in 5.1 and 5.2, and so is the
refinement `StoreSpec`.

## 6. Not modelled, and what could follow

* *Quotas and usage records* (`jobs/increaseStripeBillingQuota.js`, `processStripeSubscription.js`):
  an increment and a call to Stripe in one job that is attempted again; a hazard without a property.
* *OP withdrawals*, *outputs of the older oracle* and *Orbit deposits*: rows written by one receipt
  each. What can go wrong with them is in section 3.3.
* *OP deposits*: as section 3.3 says, none that has a hash is ever stored, so there is nothing to link.
* *The receipt of an execution that never loads* (`queues.js:9,20-23`: 15 attempts): whether a withdrawal
  that was executed is relayed in the end depends on the parent's receipts and on the integrity check
  of a workspace that may have none; `OrbitRollup` promises only that what is relayed agrees with
  the receipts.
* *Backfills* of the rollups, and the deletion of rollup data and accounts by a reset: single scans.
* *Everything that reads* (search, statistics, exports), *that formats* (decoding of logs, calldata
  and blobs), *that talks to third parties* (mails, prospecting, analytics, contract verification,
  DNS) and *the user interfaces*: no state of these is shared between actors in a way the source
  itself relies on.
* What a synchronised block sets off in `jobs/processBlock.js` and its like: each row has one writer.

Next would come quotas, whose increments a retry repeats; the attempts of `removeStalledBlock`, which
the code limits to 15 and `BlockSync` does not; a manual `startSync` that leaves the disabled
reason in place; and the alternation of an unreachable RPC's updater jobs between delete and start.

## 7. Running it

    tlc -config MCBlockSync_rows.cfg MCBlockSync
    tlapm BlockSyncProofs.tla

Each passing run ends within four minutes on two cores; the proofs take about five minutes,
half of them `BlockSyncProofs`.
