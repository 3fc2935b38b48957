----------------------------- MODULE OrbitRollup -----------------------------
(***************************************************************************)
(* What the workspace of an Arbitrum Orbit chain learns from the receipts  *)
(* of its parent chain (models/transaction.js, models/orbitNode.js,        *)
(* models/orbitBatch.js, models/orbitwithdrawal.js) and the repeated job   *)
(* that confirms its batches (jobs/finalizePendingOrbitBatches.js).        *)
(*                                                                         *)
(* The receipts of both chains are stored by many workers, in any order,   *)
(* each in a database transaction that reads what the others have          *)
(* committed; when what a receipt needs is missing, nothing of it is       *)
(* stored and it is attempted again, up to 15 times.                       *)
(*                                                                         *)
(* Abstractions: block i of the L2 chain is all of batch i, node i         *)
(* confirms it, and withdrawal i is sent in it; whatever happens on the    *)
(* parent chain has happened when the behaviour starts; deposits and       *)
(* chains below the L2 chain are left out.                                 *)
(***************************************************************************)
EXTENDS Naturals, FiniteSets

CONSTANTS
    MaxIndex,      \* bound on L2 blocks, batches, nodes and withdrawals
    FirstStatus    \* "finalized" if the config validates by LATEST, or "pending"

VARIABLES
    l2,            \* what is stored of each L2 block: nothing, it, its receipt too
    batchOf,       \* L2 blocks with an orbitBatchId
    handled,       \* receipts of the parent chain that are stored
    batches,       \* confirmationStatus of each row of orbit_batches
    nodes,         \* status of each row of orbit_nodes
    withdrawals,   \* status of each row of orbit_withdrawals
    confirming,    \* receipts in OrbitNode.confirm, and the batches it found
    relaying,      \* receipts that found the withdrawal they execute
    finalizer      \* pending batches the job has found and not confirmed yet

vars == <<l2, batchOf, handled, batches, nodes, withdrawals, confirming, relaying,
          finalizer>>

Indices == 1..MaxIndex
Receipt(event, i) == [event |-> event, index |-> i]
Receipts == [event : {"delivered", "created", "confirmed", "executed"}, index : Indices]

NotConfirming == [pc |-> "idle", batches |-> {}]

Init ==
    /\ l2 = [i \in Indices |-> "none"]
    /\ batchOf = {} /\ handled = {}
    /\ batches = [i \in Indices |-> "none"]
    /\ nodes = [i \in Indices |-> "none"]
    /\ withdrawals = [i \in Indices |-> "none"]
    /\ confirming = [i \in Indices |-> NotConfirming]
    /\ relaying = {} /\ finalizer = {}

Handle(event, i) ==
    /\ Receipt(event, i) \notin handled
    /\ handled' = handled \cup {Receipt(event, i)}

-----------------------------------------------------------------------------
(* The L2 chain.                                                           *)

StoreL2Block(i) ==
    /\ l2[i] = "none"
    /\ l2' = [l2 EXCEPT ![i] = "block"]
    /\ UNCHANGED <<batchOf, handled, batches, nodes, withdrawals, confirming, relaying, finalizer>>

\* With an L2ToL1Tx log.
StoreL2Receipt(i) ==
    /\ l2[i] = "block"
    /\ l2' = [l2 EXCEPT ![i] = "receipt"]
    /\ withdrawals' = [withdrawals EXCEPT ![i] = "waiting"]
    /\ UNCHANGED <<batchOf, handled, batches, nodes, confirming, relaying, finalizer>>

-----------------------------------------------------------------------------
(* Batches and nodes on the parent chain.                                  *)

\* safeUpdateBlocks sees the blocks that are stored by now.
BatchDelivered(i) ==
    /\ Handle("delivered", i)
    /\ batches' = [batches EXCEPT ![i] = FirstStatus]
    /\ batchOf' = IF l2[i] = "none" THEN batchOf ELSE batchOf \cup {i}
    /\ UNCHANGED <<l2, nodes, withdrawals, confirming, relaying, finalizer>>

NodeCreated(i) ==
    /\ Handle("created", i)
    /\ nodes' = [nodes EXCEPT ![i] = "pending"]
    /\ UNCHANGED <<l2, batchOf, batches, withdrawals, confirming, relaying, finalizer>>

\* The node is not there: logged, and the receipt is stored all the same.
ConfirmUnknown(i) ==
    /\ nodes[i] = "none"
    /\ Handle("confirmed", i)
    /\ UNCHANGED <<l2, batchOf, batches, nodes, withdrawals, confirming, relaying, finalizer>>

\* OrbitNode.confirm; without the block it throws.  A batch that is loaded as
\* finalized is not written again.
ConfirmLoads(i) ==
    /\ Receipt("confirmed", i) \notin handled /\ confirming[i].pc = "idle"
    /\ nodes[i] # "none" /\ l2[i] # "none"
    /\ confirming' = [confirming EXCEPT ![i] =
          [pc |-> "loaded",
           batches |-> IF i \in batchOf
                         THEN {b \in 1..i : batches[b] \in {"pending", "confirmed"}}
                         ELSE {}]]
    /\ UNCHANGED <<l2, batchOf, handled, batches, nodes, withdrawals, relaying, finalizer>>

\* Positions count from 0 and sendCount from 1: one withdrawal too many.
UpTo(i) == {w \in Indices : w - 1 <= i}

\* Faulty: whatever the status.
ReadiedAny(i) == {w \in UpTo(i) : withdrawals[w] # "none"}

Readied(i) == {w \in UpTo(i) : withdrawals[w] = "waiting"}

\* The rows it has updated are locked until it commits.
ConfirmCommits(i) ==
    /\ confirming[i].pc = "loaded"
    /\ Handle("confirmed", i)
    /\ withdrawals' = [w \in Indices |-> IF w \in Readied(i) THEN "ready" ELSE withdrawals[w]]
    /\ batches' = [b \in Indices |-> IF b \in confirming[i].batches THEN "finalized"
                                                                    ELSE batches[b]]
    /\ nodes' = [nodes EXCEPT ![i] = "confirmed"]
    /\ confirming' = [confirming EXCEPT ![i] = NotConfirming]
    /\ UNCHANGED <<l2, batchOf, relaying, finalizer>>

\* What follows in the receipt fails, or the worker dies: it is attempted again.
ConfirmRollsBack(i) ==
    /\ confirming[i].pc = "loaded"
    /\ confirming' = [confirming EXCEPT ![i] = NotConfirming]
    /\ UNCHANGED <<l2, batchOf, handled, batches, nodes, withdrawals, relaying, finalizer>>

-----------------------------------------------------------------------------
(* Withdrawals executed on the parent chain.                               *)

\* Faulty: logged, as for a node, and the receipt is stored all the same.
UnknownWithdrawalLogged(receipt) == handled \cup {receipt}

\* "Could not find pending withdrawal": the receipt is not stored.
UnknownWithdrawal(receipt) == handled

ExecutedLoads(w) ==
    LET receipt == Receipt("executed", w)
    IN /\ receipt \notin handled /\ w \notin relaying
       /\ \/ withdrawals[w] # "none" /\ relaying' = relaying \cup {w} /\ UNCHANGED handled
          \/ withdrawals[w] = "none" /\ handled' = UnknownWithdrawal(receipt)
                                     /\ UNCHANGED relaying
       /\ UNCHANGED <<l2, batchOf, batches, nodes, withdrawals, confirming, finalizer>>

\* Faulty: a status that a withdrawal cannot have.
ExecutedStatusOfNode == "confirmed"

ExecutedStatus == "relayed"

ExecutedCommits(w) ==
    /\ w \in relaying
    /\ relaying' = relaying \ {w}
    /\ Handle("executed", w)
    /\ withdrawals' = [withdrawals EXCEPT ![w] = ExecutedStatus]
    /\ UNCHANGED <<l2, batchOf, batches, nodes, confirming, finalizer>>

-----------------------------------------------------------------------------
(* finalizePendingOrbitBatches.                                            *)

\* Pending batches posted before the safe block of the parent chain.
FinalizerLoads ==
    /\ finalizer = {}
    /\ \E safe \in Indices :
          /\ finalizer' = {b \in 1..safe : batches[b] = "pending"}
          /\ finalizer' # {}
    /\ UNCHANGED <<l2, batchOf, handled, batches, nodes, withdrawals, confirming, relaying>>

\* OrbitBatch.confirm, whatever has become of the batch.
FinalizerConfirms ==
    /\ \E b \in finalizer :
          /\ batches' = [batches EXCEPT ![b] = "confirmed"]
          /\ finalizer' = finalizer \ {b}
    /\ UNCHANGED <<l2, batchOf, handled, nodes, withdrawals, confirming, relaying>>

-----------------------------------------------------------------------------
L2Step(i) == StoreL2Block(i) \/ StoreL2Receipt(i)
NodeStep(i) == \/ NodeCreated(i) \/ ConfirmUnknown(i) \/ ConfirmLoads(i)
               \/ ConfirmCommits(i) \/ ConfirmRollsBack(i)

Next == \/ \E i \in Indices : L2Step(i) \/ BatchDelivered(i) \/ NodeStep(i)
        \/ \E w \in Indices : ExecutedLoads(w) \/ ExecutedCommits(w)
        \/ FinalizerLoads \/ FinalizerConfirms

Spec == Init /\ [][Next]_vars

-----------------------------------------------------------------------------
(* Properties.                                                             *)

TypeOK ==
    /\ l2 \in [Indices -> {"none", "block", "receipt"}]
    /\ batchOf \subseteq Indices
    /\ handled \subseteq Receipts
    /\ batches \in [Indices -> {"none", "pending", "confirmed", "finalized"}]
    /\ nodes \in [Indices -> {"none", "pending", "confirmed"}]
    /\ withdrawals \in [Indices -> {"none", "waiting", "ready", "relayed"}]
    /\ confirming \in [Indices -> [pc : {"idle", "loaded"}, batches : SUBSET Indices]]
    /\ relaying \subseteq Indices
    /\ finalizer \subseteq Indices

\* A withdrawal that was relayed is never offered for relay again, although
\* confirmations that loaded their block earlier, are attempted again or belong
\* to later nodes still update withdrawals (models/orbitNode.js:51-61).
RelayedStays == [][\A w \in Indices : withdrawals[w] = "relayed" => withdrawals'[w] = "relayed"]_vars

\* A stored receipt of the parent chain and the withdrawal it executed agree: one
\* is stored without the other neither when the parent chain is ahead of the L2
\* chain nor when a confirmation of its node comes late, is rolled back or comes
\* again (models/transaction.js:457-472, models/orbitNode.js:51-61).
ExecutedMeansRelayed ==
    \A w \in Indices : Receipt("executed", w) \in handled <=> withdrawals[w] = "relayed"
=============================================================================
