------------------------- MODULE OrbitRollupProofs -------------------------
(***************************************************************************)
(* Proofs about OrbitRollup, for any number of blocks, batches, nodes and  *)
(* withdrawals: the statuses keep their types, a withdrawal is relayed     *)
(* when, and only when, the receipt that executed it is stored, and it     *)
(* stays relayed.                                                          *)
(*                                                                         *)
(* That a step keeps a relayed withdrawal depends on what was read before  *)
(* it: the L2 receipt that creates the withdrawal must not come after the  *)
(* receipt of the parent chain that relayed it.  Inv says so.              *)
(***************************************************************************)
EXTENDS OrbitRollup, TLAPS

WithdrawalTypes ==
    /\ l2 \in [Indices -> {"none", "block", "receipt"}]
    /\ withdrawals \in [Indices -> {"none", "waiting", "ready", "relayed"}]
    /\ relaying \subseteq Indices

\* A withdrawal is known from the receipt of the L2 chain on, and never before.
KnownFromReceipt == \A w \in Indices : withdrawals[w] # "none" => l2[w] = "receipt"

\* Who is about to relay a withdrawal has found it.
RelayingIsKnown == \A w \in relaying : withdrawals[w] # "none"

Inv == WithdrawalTypes /\ KnownFromReceipt /\ RelayingIsKnown /\ ExecutedMeansRelayed

-----------------------------------------------------------------------------
(* Type correctness.                                                       *)

\* Statuses, as the models of the tables declare them, and everything in hand
\* keep their types, whatever the status of new batches
\* (models/orbitBatch.js, models/orbitNode.js, models/orbitwithdrawal.js).
THEOREM TypeCorrect ==
  ASSUME MaxIndex \in Nat, FirstStatus \in {"pending", "finalized"}
  PROVE  Spec => []TypeOK
<1>1. Init => TypeOK
  BY DEF Init, TypeOK, NotConfirming, Receipts
<1>2. TypeOK /\ [Next]_vars => TypeOK'
  <2> SUFFICES ASSUME TypeOK, [Next]_vars PROVE TypeOK'
    OBVIOUS
  <2> USE DEF TypeOK, Receipts
  <2>1. ASSUME NEW i \in Indices, L2Step(i) PROVE TypeOK'
    <3>1. CASE StoreL2Block(i)
      BY <3>1 DEF StoreL2Block
    <3>2. CASE StoreL2Receipt(i)
      BY <3>2 DEF StoreL2Receipt
    <3> QED BY <2>1, <3>1, <3>2 DEF L2Step
  <2>2. ASSUME NEW i \in Indices, BatchDelivered(i) PROVE TypeOK'
    BY <2>2 DEF BatchDelivered, Handle, Receipt
  <2>3. ASSUME NEW i \in Indices, NodeStep(i) PROVE TypeOK'
    <3>1. CASE NodeCreated(i)
      BY <3>1 DEF NodeCreated, Handle, Receipt
    <3>5. CASE ConfirmUnknown(i)
      BY <3>5 DEF ConfirmUnknown, Handle, Receipt
    <3>2. CASE ConfirmLoads(i)
      <4>1. PICK found \in SUBSET Indices :
              confirming' = [confirming EXCEPT ![i] = [pc |-> "loaded", batches |-> found]]
        <5>1. 1..i \subseteq Indices
          BY DEF Indices
        <5> QED BY <3>2, <5>1 DEF ConfirmLoads
      <4> QED BY <3>2, <4>1 DEF ConfirmLoads
    <3>3. CASE ConfirmCommits(i)
      BY <3>3 DEF ConfirmCommits, Handle, Receipt, NotConfirming
    <3>4. CASE ConfirmRollsBack(i)
      BY <3>4 DEF ConfirmRollsBack, NotConfirming
    <3> QED BY <2>3, <3>1, <3>2, <3>3, <3>4, <3>5 DEF NodeStep
  <2>4. ASSUME NEW w \in Indices, ExecutedLoads(w) \/ ExecutedCommits(w) PROVE TypeOK'
    BY <2>4 DEF ExecutedLoads, ExecutedCommits, ExecutedStatus, UnknownWithdrawal, Handle,
                Receipt
  <2>5. CASE FinalizerLoads
    <3>1. \A safe \in Indices : 1..safe \subseteq Indices
      BY DEF Indices
    <3> QED BY <2>5, <3>1 DEF FinalizerLoads
  <2>6. CASE FinalizerConfirms
    BY <2>6 DEF FinalizerConfirms
  <2>7. CASE UNCHANGED vars
    BY <2>7 DEF vars
  <2> QED BY <2>1, <2>2, <2>3, <2>4, <2>5, <2>6, <2>7 DEF Next
<1> QED BY <1>1, <1>2, PTL DEF Spec

-----------------------------------------------------------------------------
(* Relayed withdrawals.                                                    *)

LEMMA InvInit == Init => Inv
BY DEF Init, Inv, WithdrawalTypes, KnownFromReceipt, RelayingIsKnown, ExecutedMeansRelayed

\* Storing one receipt stores no other.
LEMMA HandleStores ==
  ASSUME NEW event, NEW i, Handle(event, i), NEW w
  PROVE  Receipt("executed", w) \in handled'
            <=> Receipt("executed", w) \in handled \/ (event = "executed" /\ i = w)
BY DEF Handle, Receipt

\* The steps that do not write what Inv is about.
LEMMA ElsewhereKeepsInv ==
  ASSUME Inv, UNCHANGED <<l2, withdrawals, relaying>>,
         \A w \in Indices : Receipt("executed", w) \in handled' <=> Receipt("executed", w) \in handled
  PROVE  Inv'
BY DEF Inv, WithdrawalTypes, KnownFromReceipt, RelayingIsKnown, ExecutedMeansRelayed

\* A step keeps Inv and whatever is relayed.
LEMMA StepKeeps ==
  ASSUME Inv, [Next]_vars
  PROVE  /\ Inv'
         /\ \A w \in Indices : withdrawals[w] = "relayed" => withdrawals'[w] = "relayed"
<1> DEFINE Kept == \A w \in Indices : withdrawals[w] = "relayed" => withdrawals'[w] = "relayed"
<1> DEFINE Same == \A w \in Indices :
                      Receipt("executed", w) \in handled' <=> Receipt("executed", w) \in handled
<1> USE DEF Inv, WithdrawalTypes, KnownFromReceipt, RelayingIsKnown, ExecutedMeansRelayed
<1>1. CASE UNCHANGED <<l2, withdrawals, relaying>> /\ Same
  BY <1>1, ElsewhereKeepsInv
<1>2. ASSUME NEW i \in Indices, L2Step(i) PROVE Inv' /\ Kept
  <2>1. CASE StoreL2Block(i)
    BY <2>1 DEF StoreL2Block
  <2>2. CASE StoreL2Receipt(i)
    <3>1. withdrawals[i] = "none"
      BY <2>2 DEF StoreL2Receipt
    <3> QED BY <2>2, <3>1 DEF StoreL2Receipt
  <2> QED BY <1>2, <2>1, <2>2 DEF L2Step
<1>3. ASSUME NEW i \in Indices, ConfirmCommits(i) PROVE Inv' /\ Kept
  <2>1. \A w \in Indices : withdrawals'[w] = "relayed" <=> withdrawals[w] = "relayed"
    BY <1>3 DEF ConfirmCommits, Readied
  <2>2. Same
    BY <1>3, HandleStores DEF ConfirmCommits
  <2>3. (WithdrawalTypes /\ KnownFromReceipt /\ RelayingIsKnown)'
    BY <1>3 DEF ConfirmCommits, Readied
  <2> QED BY <2>1, <2>2, <2>3
<1>4. ASSUME NEW w \in Indices, ExecutedLoads(w) PROVE Inv' /\ Kept
  BY <1>4 DEF ExecutedLoads, UnknownWithdrawal
<1>5. ASSUME NEW w \in Indices, ExecutedCommits(w) PROVE Inv' /\ Kept
  <2>1. \A v \in Indices : withdrawals'[v] = IF v = w THEN "relayed" ELSE withdrawals[v]
    BY <1>5 DEF ExecutedCommits, ExecutedStatus
  <2>2. \A v \in Indices : Receipt("executed", v) \in handled'
                             <=> Receipt("executed", v) \in handled \/ v = w
    BY <1>5, HandleStores DEF ExecutedCommits
  <2>3. ExecutedMeansRelayed'
    BY <2>1, <2>2
  <2>4. (WithdrawalTypes /\ KnownFromReceipt /\ RelayingIsKnown)' /\ Kept
    BY <1>5, <2>1 DEF ExecutedCommits, ExecutedStatus
  <2> QED BY <2>3, <2>4
<1>6. ASSUME NEW i \in Indices, NodeStep(i), ~ConfirmCommits(i)
      PROVE  UNCHANGED <<l2, withdrawals, relaying>> /\ Same
  <2>1. UNCHANGED <<l2, withdrawals, relaying>>
    BY <1>6 DEF NodeStep, NodeCreated, ConfirmUnknown, ConfirmLoads, ConfirmRollsBack
  <2>2. Handle("created", i) \/ Handle("confirmed", i) \/ UNCHANGED handled
    BY <1>6 DEF NodeStep, NodeCreated, ConfirmUnknown, ConfirmLoads, ConfirmRollsBack
  <2>3. Same
    BY <2>2, HandleStores
  <2> QED BY <2>1, <2>3
<1>7. ASSUME \/ \E i \in Indices : BatchDelivered(i)
             \/ FinalizerLoads \/ FinalizerConfirms \/ UNCHANGED vars
      PROVE  UNCHANGED <<l2, withdrawals, relaying>> /\ Same
  <2>1. ASSUME NEW i \in Indices, BatchDelivered(i) PROVE Same
    BY <2>1, HandleStores DEF BatchDelivered
  <2>2. CASE FinalizerLoads \/ FinalizerConfirms \/ UNCHANGED vars
    BY <2>2 DEF FinalizerLoads, FinalizerConfirms, vars
  <2> QED BY <1>7, <2>1, <2>2 DEF BatchDelivered, FinalizerLoads, FinalizerConfirms, vars
<1> QED BY <1>1, <1>2, <1>3, <1>4, <1>5, <1>6, <1>7 DEF Next

LEMMA InvHolds == Spec => []Inv
<1>1. Inv /\ [Next]_vars => Inv'
  BY StepKeeps
<1> QED BY <1>1, InvInit, PTL DEF Spec

\* A withdrawal is relayed when, and only when, the receipt that executed it is
\* stored, in whatever order the two chains and the confirmations come
\* (models/transaction.js:457-472).
THEOREM RelayedWithReceipt == Spec => []ExecutedMeansRelayed
<1>1. Inv => ExecutedMeansRelayed
  BY DEF Inv
<1> QED BY <1>1, InvHolds, PTL

\* A relayed withdrawal stays relayed, however many confirmations that loaded
\* their block earlier are committed, rolled back or attempted again.
THEOREM RelayedIsFinal == Spec => RelayedStays
<1>1. Inv /\ [Next]_vars =>
        [\A w \in Indices : withdrawals[w] = "relayed" => withdrawals'[w] = "relayed"]_vars
  BY StepKeeps
<1> QED BY <1>1, InvHolds, PTL DEF Spec, RelayedStays
=============================================================================
