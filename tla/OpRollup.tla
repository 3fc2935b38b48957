------------------------------ MODULE OpRollup ------------------------------
(***************************************************************************)
(* What the workspace of an OP Stack chain learns from the receipts and    *)
(* blocks of its L1: outputs proposed by dispute games and batches         *)
(* (models/transaction.js, jobs/receiptSync.js and the jobs it and         *)
(* blockSync enqueue), and the repeated jobs that finalize outputs and     *)
(* confirm batches.                                                        *)
(*                                                                         *)
(* Twenty workers handle the L1 transactions in any order, each in a       *)
(* database transaction that reads what the others have committed.         *)
(*                                                                         *)
(* Abstractions: each L1 transaction creates one game or posts one batch;  *)
(* outputs are those of dispute games, not of the older oracle; batches    *)
(* are blobs, whose L2 range is not known and computed here; no block of   *)
(* L1 is reverted; deposits and withdrawals are left out.  Ranges of L2    *)
(* blocks are half-open.                                                   *)
(***************************************************************************)
EXTENDS Naturals

CONSTANTS
    Games,         \* L1 transactions that create a dispute game
    Relayed,       \* those of them that call another contract than the factory
    BatchTxs,      \* L1 transactions that post a batch
    MaxL2          \* bound on stored blocks of the L2 chain

VARIABLES
    receipts,      \* games with a stored receipt
    jobs,          \* storeOpOutput jobs, by game
    outputs,       \* rows of op_outputs
    creating,      \* index each receipt in progress read for its output
    batches,       \* rows of op_batches
    batching,      \* index and start each processOpBatch in progress read
    head           \* number of L2 blocks stored: 0 to head - 1

outputVars == <<receipts, jobs, outputs, creating>>
batchVars == <<batches, batching, head>>
vars == <<outputVars, batchVars>>

NoOutput == [status |-> "none", index |-> 0, period |-> "none"]
NoBatch == [status |-> "none", index |-> 0, first |-> 0, end |-> 0]
NotBegun == [pc |-> "idle", index |-> 0, first |-> 0]

Init ==
    /\ receipts = {} /\ jobs = {}
    /\ outputs = [g \in Games |-> NoOutput]
    /\ creating = [g \in Games |-> NotBegun]
    /\ batches = [b \in BatchTxs |-> NoBatch]
    /\ batching = [b \in BatchTxs |-> NotBegun]
    /\ head = 0

-----------------------------------------------------------------------------
(* Outputs.                                                                *)

Proposed == {g \in Games : outputs[g].status # "none"}
IndexTaken(n) == \E g \in Proposed : outputs[g].index = n

Highest == {g \in Proposed : \A h \in Proposed : outputs[h].index <= outputs[g].index}

\* Faulty: the first output gets index 1.
NextOutputIndexFromOne ==
    IF Proposed = {} THEN {1} ELSE {outputs[g].index + 1 : g \in Highest}

NextOutputIndex ==
    IF Proposed = {} THEN {0} ELSE {outputs[g].index + 1 : g \in Highest}

Unhandled(g) == g \notin receipts /\ creating[g].pc = "idle"

\* A receipt stored by blockSync, or with the workspace it passes on, does not
\* know the addresses of the OP contracts: neither row nor job.
GameUnnoticed(g) ==
    /\ Unhandled(g)
    /\ receipts' = receipts \cup {g}
    /\ UNCHANGED <<jobs, outputs, creating, batchVars>>

\* The job is lost if Redis fails, or the worker dies before it is enqueued.
EnqueueOrNot(g) == jobs' = jobs \/ jobs' = jobs \cup {g}

\* The row is told by the contract that was called, the job by the one that
\* emitted the event.
GameRelayed(g) ==
    /\ g \in Relayed /\ Unhandled(g)
    /\ receipts' = receipts \cup {g}
    /\ EnqueueOrNot(g)
    /\ UNCHANGED <<outputs, creating, batchVars>>

GameReads(g) ==
    /\ g \notin Relayed /\ Unhandled(g)
    /\ \E next \in NextOutputIndex :
          creating' = [creating EXCEPT ![g] = [NotBegun EXCEPT !.pc = "read", !.index = next]]
    /\ UNCHANGED <<receipts, jobs, outputs, batchVars>>

\* An index that another output has taken since is ignored as a duplicate.
GameCommits(g) ==
    /\ creating[g].pc = "read"
    /\ outputs' = IF IndexTaken(creating[g].index)
                    THEN outputs
                    ELSE [outputs EXCEPT ![g] = [status |-> "proposed", period |-> "running",
                                                 index |-> creating[g].index]]
    /\ creating' = [creating EXCEPT ![g] = NotBegun]
    /\ receipts' = receipts \cup {g}
    /\ EnqueueOrNot(g)
    /\ UNCHANGED batchVars

GameRollsBack(g) ==
    /\ creating[g].pc = "read"
    /\ creating' = [creating EXCEPT ![g] = NotBegun]
    /\ UNCHANGED <<receipts, jobs, outputs, batchVars>>

\* Index 0 and no challenge period, or, if 0 is taken, an error on each attempt.
StoreOpOutput(g) ==
    /\ g \in jobs
    /\ jobs' = jobs \ {g}
    /\ outputs' = IF outputs[g] # NoOutput \/ IndexTaken(0)
                    THEN outputs
                    ELSE [outputs EXCEPT ![g].status = "proposed"]
    /\ UNCHANGED <<receipts, creating, batchVars>>

PeriodEnds(g) ==
    /\ outputs[g].period = "running"
    /\ outputs' = [outputs EXCEPT ![g].period = "over"]
    /\ UNCHANGED <<receipts, jobs, creating, batchVars>>

\* Faulty: an output is given the status of a batch, which it cannot have.
FinalStatusOfBatch == "confirmed"

FinalStatus == "finalized"

\* finalizePendingOpOutputs
FinalizeOutputs ==
    LET due == {g \in Proposed : outputs[g].status = "proposed" /\ outputs[g].period = "over"}
    IN /\ due # {}
       /\ outputs' = [g \in Games |-> IF g \in due
                                        THEN [outputs[g] EXCEPT !.status = FinalStatus]
                                        ELSE outputs[g]]
       /\ UNCHANGED <<receipts, jobs, creating, batchVars>>

-----------------------------------------------------------------------------
(* Batches.                                                                *)

Posted == {b \in BatchTxs : batches[b].status # "none"}

L2BlockStored ==
    /\ head < MaxL2
    /\ head' = head + 1
    /\ UNCHANGED <<outputVars, batches, batching>>

\* Faulty: the block after the last batch is left out.
AfterBatchSkipping(last) == [pc |-> "read", index |-> last.index + 1, first |-> last.end + 1]

AfterBatch(last) == [pc |-> "read", index |-> last.index + 1, first |-> last.end]

\* The lock on the last batch makes a second job wait for the first one, but
\* then it goes on with the row it had found, which is not the last any more.
BatchReads(b) ==
    /\ batches[b] = NoBatch /\ batching[b].pc = "idle"
    /\ \/ /\ Posted = {}
          /\ batching' = [batching EXCEPT ![b].pc = "read"]
       \/ \E last \in Posted :
             /\ \A c \in Posted : batches[c].index <= batches[last].index
             /\ batching' = [batching EXCEPT ![b] = AfterBatch(batches[last])]
    /\ UNCHANGED <<outputVars, batches, head>>

BatchCommits(b) ==
    /\ batching[b].pc = "read"
    /\ batches' = [batches EXCEPT ![b] = [status |-> "pending", index |-> batching[b].index,
                                          first |-> batching[b].first, end |-> head]]
    /\ batching' = [batching EXCEPT ![b] = NotBegun]
    /\ UNCHANGED <<outputVars, head>>

\* finalizePendingOpBatches: those up to the safe block of L1.
ConfirmBatches ==
    /\ \E safe \in SUBSET {b \in Posted : batches[b].status = "pending"} :
          /\ safe # {}
          /\ batches' = [b \in BatchTxs |-> IF b \in safe
                                              THEN [batches[b] EXCEPT !.status = "confirmed"]
                                              ELSE batches[b]]
    /\ UNCHANGED <<outputVars, batching, head>>

-----------------------------------------------------------------------------
OutputStep == \/ \E g \in Games : \/ GameUnnoticed(g) \/ GameRelayed(g) \/ GameReads(g)
                                  \/ GameCommits(g) \/ GameRollsBack(g)
                                  \/ StoreOpOutput(g) \/ PeriodEnds(g)
              \/ FinalizeOutputs

BatchStep == \/ \E b \in BatchTxs : BatchReads(b) \/ BatchCommits(b)
             \/ L2BlockStored \/ ConfirmBatches

Next == OutputStep \/ BatchStep

Spec == Init /\ [][Next]_vars

\* The repeated job runs, and time passes.
Fairness ==
    /\ WF_vars(FinalizeOutputs)
    /\ \A g \in Games : WF_vars(PeriodEnds(g))

FairSpec == Spec /\ Fairness

-----------------------------------------------------------------------------
(* Properties.                                                             *)

TypeOK ==
    /\ receipts \subseteq Games /\ jobs \subseteq Games
    /\ outputs \in [Games -> [status : {"none", "proposed", "finalized"}, index : Nat,
                              period : {"none", "running", "over"}]]
    /\ creating \in [Games -> [pc : {"idle", "read"}, index : Nat, first : {0}]]
    /\ batches \in [BatchTxs -> [status : {"none", "pending", "confirmed"},
                                 index : Nat, first : Nat, end : Nat]]
    /\ batching \in [BatchTxs -> [pc : {"idle", "read"}, index : Nat, first : Nat]]
    /\ head \in 0..MaxL2

\* The output of a game that was created by a call to the factory is finalized
\* once it is stored, although two receipts may read the same index, so that one
\* of the games is left to storeOpOutput, which would store it without a challenge
\* period; nothing ever finalizes such an output, as it happens to the games
\* created through another contract (models/transaction.js:675-715,
\* jobs/storeOpOutput.js:30-56, jobs/finalizePendingOpOutputs.js:15-25).
OutputsFinalize ==
    \A g \in Games \ Relayed :
       [](outputs[g].status = "proposed" => <>(outputs[g].status = "finalized"))

\* Outputs are numbered from 0 without a gap and no two of them alike, although
\* receipts in progress read the same last output, storeOpOutput may take index 0
\* in between, and a receipt that comes too late is handled without an output
\* (models/transaction.js:681-705, jobs/storeOpOutput.js:43-56).
OutputsNumbered ==
    \A g \in Proposed :
       /\ \A h \in Proposed : outputs[g].index = outputs[h].index => g = h
       /\ \A n \in 0..outputs[g].index : IndexTaken(n)

\* Batches that several jobs compute at once may overlap, but they leave no gap:
\* every L2 block before the end of one of them belongs to a batch, and every
\* index below one of theirs is some batch's (jobs/processOpBatch.js:49-87).
BatchesLeaveNoGap ==
    \A b \in Posted :
       /\ \A n \in 0..batches[b].index : \E c \in Posted : batches[c].index = n
       /\ \A n \in 0..(batches[b].end - 1) :
             \E c \in Posted : n \in batches[c].first..(batches[c].end - 1)

\* A batch can be asked for by its index ("Retrieves an OP batch by its index
\* for a workspace", lib/firebase.js:534).
BatchIndexIdentifies ==
    \A b, c \in Posted : batches[b].index = batches[c].index => b = c
=============================================================================
