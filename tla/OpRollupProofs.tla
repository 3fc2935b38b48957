--------------------------- MODULE OpRollupProofs ---------------------------
(***************************************************************************)
(* Proofs about OpRollup, for any number of games and batches: every row   *)
(* keeps its type; whatever jobs compute batches at once, they leave no    *)
(* gap, neither in the blocks of the L2 chain nor in their indices; and    *)
(* outputs are numbered without a gap or a repetition.                     *)
(*                                                                         *)
(* Neither of the last two is inductive alone: it has to be known that     *)
(* what a job has read, and will continue, had no gap before it either,    *)
(* and that the job posts a batch, or a receipt an output, that is not     *)
(* there yet.                                                              *)
(***************************************************************************)
EXTENDS OpRollup, TLAPS

BatchTypes ==
    /\ batches \in [BatchTxs -> [status : {"none", "pending", "confirmed"},
                                 index : Nat, first : Nat, end : Nat]]
    /\ batching \in [BatchTxs -> [pc : {"idle", "read"}, index : Nat, first : Nat]]
    /\ head \in Nat

\* Every index below n is some batch's.
IndicesBelow(n) == \A k \in Nat : k < n => \E c \in Posted : batches[c].index = k

\* Every L2 block below n belongs to a batch.
BlocksBelow(n) ==
    \A k \in Nat : k < n =>
       \E c \in Posted : batches[c].first <= k /\ k < batches[c].end

\* A job continues where there is no gap, and posts a new batch.
NoGapBeforeJobs ==
    \A b \in BatchTxs :
       /\ batching[b].pc = "idle" => batching[b] = NotBegun
       /\ batching[b].pc = "read" =>
             /\ batches[b].status = "none"
             /\ IndicesBelow(batching[b].index) /\ BlocksBelow(batching[b].first)

NoGapBeforeBatches ==
    \A b \in Posted : IndicesBelow(batches[b].index + 1) /\ BlocksBelow(batches[b].end)

Inv == BatchTypes /\ NoGapBeforeJobs /\ NoGapBeforeBatches

-----------------------------------------------------------------------------
(* Type correctness.                                                       *)

\* The next index is one, whatever the outputs are.
LEMMA NextOutputIndexType ==
  ASSUME TypeOK
  PROVE  NextOutputIndex \subseteq Nat
BY DEF TypeOK, NextOutputIndex, Highest, Proposed

LEMMA OutputStepType ==
  ASSUME TypeOK, OutputStep
  PROVE  TypeOK'
<1> USE DEF TypeOK, batchVars
<1>1. ASSUME NEW g \in Games, GameReads(g) PROVE TypeOK'
  <2>1. PICK next \in Nat :
          creating' = [creating EXCEPT ![g] = [NotBegun EXCEPT !.pc = "read", !.index = next]]
    BY <1>1, NextOutputIndexType DEF GameReads
  <2>2. [NotBegun EXCEPT !.pc = "read", !.index = next]
           \in [pc : {"idle", "read"}, index : Nat, first : {0}]
    BY DEF NotBegun
  <2>3. creating' \in [Games -> [pc : {"idle", "read"}, index : Nat, first : {0}]]
    BY <2>1, <2>2
  <2> QED BY <1>1, <2>3 DEF GameReads
<1>2. ASSUME NEW g \in Games, GameCommits(g) PROVE TypeOK'
  <2>1. jobs' \subseteq Games
    BY <1>2 DEF GameCommits, EnqueueOrNot
  <2>2. creating' \in [Games -> [pc : {"idle", "read"}, index : Nat, first : {0}]]
    BY <1>2 DEF GameCommits, NotBegun
  <2> QED BY <1>2, <2>1, <2>2 DEF GameCommits
<1>3. ASSUME NEW g \in Games, StoreOpOutput(g) PROVE TypeOK'
  BY <1>3 DEF StoreOpOutput
<1>4. ASSUME NEW g \in Games, PeriodEnds(g) PROVE TypeOK'
  BY <1>4 DEF PeriodEnds
<1>5. CASE FinalizeOutputs
  BY <1>5 DEF FinalizeOutputs, FinalStatus
<1>6. ASSUME NEW g \in Games, GameUnnoticed(g) PROVE TypeOK'
  BY <1>6 DEF GameUnnoticed
<1>7. ASSUME NEW g \in Games, GameRelayed(g) PROVE TypeOK'
  BY <1>7 DEF GameRelayed, EnqueueOrNot
<1>8. ASSUME NEW g \in Games, GameRollsBack(g) PROVE TypeOK'
  <2>1. creating' \in [Games -> [pc : {"idle", "read"}, index : Nat, first : {0}]]
    BY <1>8 DEF GameRollsBack, NotBegun
  <2> QED BY <1>8, <2>1 DEF GameRollsBack
<1> QED BY <1>1, <1>2, <1>3, <1>4, <1>5, <1>6, <1>7, <1>8 DEF OutputStep

LEMMA BatchStepType ==
  ASSUME TypeOK, MaxL2 \in Nat, BatchStep
  PROVE  TypeOK'
<1> USE DEF TypeOK, outputVars
<1>1. ASSUME NEW b \in BatchTxs, BatchReads(b) PROVE TypeOK'
  <2>1. batching' \in [BatchTxs -> [pc : {"idle", "read"}, index : Nat, first : Nat]]
    <3>1. CASE batching' = [batching EXCEPT ![b].pc = "read"]
      BY <3>1
    <3>2. ASSUME NEW last \in Posted, batching' = [batching EXCEPT ![b] = AfterBatch(batches[last])]
          PROVE  batching' \in [BatchTxs -> [pc : {"idle", "read"}, index : Nat, first : Nat]]
      <4>1. AfterBatch(batches[last]) \in [pc : {"idle", "read"}, index : Nat, first : Nat]
        BY DEF AfterBatch, Posted
      <4> QED BY <3>2, <4>1
    <3> QED BY <1>1, <3>1, <3>2 DEF BatchReads
  <2> QED BY <1>1, <2>1 DEF BatchReads
<1>2. ASSUME NEW b \in BatchTxs, BatchCommits(b) PROVE TypeOK'
  <2>1. batching' \in [BatchTxs -> [pc : {"idle", "read"}, index : Nat, first : Nat]]
    BY <1>2 DEF BatchCommits, NotBegun
  <2> QED BY <1>2, <2>1 DEF BatchCommits
<1>3. CASE L2BlockStored
  BY <1>3 DEF L2BlockStored
<1>4. CASE ConfirmBatches
  <2>1. batches' \in [BatchTxs -> [status : {"none", "pending", "confirmed"},
                                   index : Nat, first : Nat, end : Nat]]
    BY <1>4 DEF ConfirmBatches
  <2> QED BY <1>4, <2>1 DEF ConfirmBatches
<1> QED BY <1>1, <1>2, <1>3, <1>4 DEF BatchStep

\* Statuses, as the models of the tables declare them, indices and ranges keep
\* their types, whatever order events are stored in
\* (models/opOutput.js, models/opBatch.js).
THEOREM TypeCorrect ==
  ASSUME MaxL2 \in Nat
  PROVE  Spec => []TypeOK
<1>1. Init => TypeOK
  BY DEF Init, TypeOK, NoOutput, NoBatch, NotBegun
<1>2. TypeOK /\ [Next]_vars => TypeOK'
  <2>1. TypeOK /\ UNCHANGED vars => TypeOK'
    BY DEF TypeOK, vars, outputVars, batchVars
  <2> QED BY <2>1, OutputStepType, BatchStepType DEF Next
<1> QED BY <1>1, <1>2, PTL DEF Spec

-----------------------------------------------------------------------------
(* Batches.                                                                *)

LEMMA InvInit == Init => Inv
BY DEF Init, Inv, BatchTypes, NoGapBeforeJobs, NoGapBeforeBatches, NoBatch, NotBegun, Posted

\* What was covered stays covered while batches are only added, or change their status.
LEMMA CoverStays ==
  ASSUME \A c \in Posted : /\ c \in Posted'
                           /\ batches'[c].index = batches[c].index
                           /\ batches'[c].first = batches[c].first
                           /\ batches'[c].end = batches[c].end
  PROVE  \A n \in Nat : /\ IndicesBelow(n) => IndicesBelow(n)'
                        /\ BlocksBelow(n) => BlocksBelow(n)'
BY DEF IndicesBelow, BlocksBelow

LEMMA ElsewhereKeepsInv ==
  ASSUME Inv, UNCHANGED batchVars
  PROVE  Inv'
BY DEF Inv, BatchTypes, NoGapBeforeJobs, NoGapBeforeBatches, IndicesBelow, BlocksBelow, Posted,
       batchVars

\* A job reads where to continue.
LEMMA ReadKeepsInv ==
  ASSUME Inv, NEW b \in BatchTxs, BatchReads(b)
  PROVE  Inv'
<1> USE DEF Inv, BatchTypes
<1>1. batches' = batches /\ head' = head /\ Posted' = Posted
  BY DEF BatchReads, Posted
<1>2. \A n \in Nat : (IndicesBelow(n) => IndicesBelow(n)') /\ (BlocksBelow(n) => BlocksBelow(n)')
  BY <1>1 DEF IndicesBelow, BlocksBelow
<1>3. PICK next \in [pc : {"read"}, index : Nat, first : Nat] :
         /\ batching' = [batching EXCEPT ![b] = next]
         /\ IndicesBelow(next.index) /\ BlocksBelow(next.first)
  <2>1. CASE Posted = {} /\ batching' = [batching EXCEPT ![b].pc = "read"]
    <3>1. batching[b] = NotBegun
      BY DEF BatchReads, NoGapBeforeJobs
    <3> DEFINE next == [pc |-> "read", index |-> 0, first |-> 0]
    <3>2. [batching[b] EXCEPT !.pc = "read"] = next
      BY <3>1 DEF NotBegun
    <3>3. batching' = [batching EXCEPT ![b] = next]
      BY <2>1, <3>2
    <3>4. IndicesBelow(0) /\ BlocksBelow(0)
      BY DEF IndicesBelow, BlocksBelow
    <3>5. /\ next \in [pc : {"read"}, index : Nat, first : Nat]
          /\ next.index = 0 /\ next.first = 0
      OBVIOUS
    <3> HIDE DEF next
    <3> QED BY <3>3, <3>4, <3>5
  <2>2. CASE \E last \in Posted : batching' = [batching EXCEPT ![b] = AfterBatch(batches[last])]
    <3>1. PICK last \in Posted : batching' = [batching EXCEPT ![b] = AfterBatch(batches[last])]
      BY <2>2
    <3>2. batches[last].index \in Nat /\ batches[last].end \in Nat
      BY DEF Posted
    <3>3. IndicesBelow(batches[last].index + 1) /\ BlocksBelow(batches[last].end)
      BY DEF NoGapBeforeBatches
    <3>4. /\ AfterBatch(batches[last]) \in [pc : {"read"}, index : Nat, first : Nat]
          /\ AfterBatch(batches[last]).index = batches[last].index + 1
          /\ AfterBatch(batches[last]).first = batches[last].end
      BY <3>2 DEF AfterBatch
    <3> QED BY <3>1, <3>3, <3>4
  <2> QED BY <2>1, <2>2 DEF BatchReads
<1>4. batches[b].status = "none"
  BY DEF BatchReads, NoBatch
<1>5. BatchTypes'
  BY <1>1, <1>3
<1>6. NoGapBeforeJobs'
  BY <1>1, <1>2, <1>3, <1>4 DEF NoGapBeforeJobs
<1>7. NoGapBeforeBatches'
  BY <1>1, <1>2 DEF NoGapBeforeBatches, Posted
<1> QED BY <1>5, <1>6, <1>7

\* The batch that is posted continues what was covered, up to the head.
LEMMA CommitKeepsInv ==
  ASSUME Inv, NEW b \in BatchTxs, BatchCommits(b)
  PROVE  Inv'
<1> USE DEF Inv, BatchTypes
<1> DEFINE new == [status |-> "pending", index |-> batching[b].index,
                   first |-> batching[b].first, end |-> head]
<1>1. /\ batching[b].pc = "read" /\ head' = head
      /\ batches' = [batches EXCEPT ![b] = new]
      /\ batching' = [batching EXCEPT ![b] = NotBegun]
  BY DEF BatchCommits
<1>2. b \notin Posted
  BY <1>1 DEF NoGapBeforeJobs, Posted
<1>3. Posted' = Posted \cup {b} /\ batches'[b] = new
  BY <1>1 DEF Posted
<1>4. \A c \in Posted : batches'[c] = batches[c]
  BY <1>1, <1>2
<1>5. \A n \in Nat : (IndicesBelow(n) => IndicesBelow(n)') /\ (BlocksBelow(n) => BlocksBelow(n)')
  BY <1>3, <1>4, CoverStays
<1>6. /\ batching[b].index \in Nat /\ batching[b].first \in Nat
      /\ IndicesBelow(batching[b].index) /\ BlocksBelow(batching[b].first)
  BY <1>1 DEF NoGapBeforeJobs
<1>7. ASSUME NEW k \in Nat, k < batching[b].index + 1
      PROVE  \E c \in Posted' : batches'[c].index = k
  <2>1. CASE k = batching[b].index
    BY <1>3, <2>1
  <2>2. CASE k < batching[b].index
    BY <1>3, <1>4, <1>6, <2>2 DEF IndicesBelow
  <2>3. \A m, n \in Nat : m < n + 1 => m = n \/ m < n
    OBVIOUS
  <2>4. k = batching[b].index \/ k < batching[b].index
    BY <1>6, <1>7, <2>3
  <2> QED BY <2>1, <2>2, <2>4
<1>8. ASSUME NEW k \in Nat, k < head
      PROVE  \E c \in Posted' : batches'[c].first <= k /\ k < batches'[c].end
  <2>1. CASE batching[b].first <= k
    BY <1>3, <1>8, <2>1
  <2>2. CASE k < batching[b].first
    BY <1>3, <1>4, <1>6, <2>2 DEF BlocksBelow
  <2> QED BY <1>6, <2>1, <2>2
<1>9. BatchTypes'
  BY <1>1, <1>6 DEF NotBegun
<1>10. NoGapBeforeJobs'
  BY <1>1, <1>3, <1>4, <1>5 DEF NoGapBeforeJobs, NotBegun
<1>11. NoGapBeforeBatches'
  <2> SUFFICES ASSUME NEW c \in Posted'
               PROVE  IndicesBelow(batches[c].index + 1)' /\ BlocksBelow(batches[c].end)'
    BY DEF NoGapBeforeBatches
  <2>1. CASE c = b
    BY <1>3, <1>7, <1>8, <2>1 DEF IndicesBelow, BlocksBelow
  <2>2. CASE c \in Posted
    BY <1>4, <1>5, <2>2 DEF NoGapBeforeBatches, Posted
  <2> QED BY <1>3, <2>1, <2>2
<1> QED BY <1>9, <1>10, <1>11

LEMMA ConfirmKeepsInv ==
  ASSUME Inv, ConfirmBatches
  PROVE  Inv'
<1> USE DEF Inv, BatchTypes
<1>1. PICK safe \in SUBSET {b \in Posted : batches[b].status = "pending"} :
         batches' = [b \in BatchTxs |-> IF b \in safe
                                          THEN [batches[b] EXCEPT !.status = "confirmed"]
                                          ELSE batches[b]]
  BY DEF ConfirmBatches
<1>2. batching' = batching /\ head' = head
  BY DEF ConfirmBatches
<1>3. /\ Posted' = Posted
      /\ \A b \in BatchTxs : /\ batches[b].status = "none" <=> batches'[b].status = "none"
                             /\ batches'[b].index = batches[b].index
                             /\ batches'[b].first = batches[b].first
                             /\ batches'[b].end = batches[b].end
  BY <1>1 DEF Posted
<1>4. \A n \in Nat : (IndicesBelow(n) => IndicesBelow(n)') /\ (BlocksBelow(n) => BlocksBelow(n)')
  BY <1>3, CoverStays DEF Posted
<1>5. BatchTypes'
  BY <1>1, <1>2
<1>6. NoGapBeforeJobs' /\ NoGapBeforeBatches'
  BY <1>2, <1>3, <1>4 DEF NoGapBeforeJobs, NoGapBeforeBatches, Posted
<1> QED BY <1>5, <1>6

LEMMA StepKeepsInv ==
  ASSUME Inv, [Next]_vars
  PROVE  Inv'
<1>1. CASE OutputStep \/ UNCHANGED vars
  <2>1. UNCHANGED batchVars
    BY <1>1 DEF OutputStep, GameUnnoticed, GameRelayed, GameReads, GameCommits, GameRollsBack,
                StoreOpOutput, PeriodEnds, FinalizeOutputs, vars
  <2> QED BY <2>1, ElsewhereKeepsInv
<1>2. CASE L2BlockStored
  <2>1. head' = head + 1 /\ batches' = batches /\ batching' = batching
    BY <1>2 DEF L2BlockStored
  <2> QED BY <2>1 DEF Inv, BatchTypes, NoGapBeforeJobs, NoGapBeforeBatches, IndicesBelow,
                      BlocksBelow, Posted
<1>3. CASE \E b \in BatchTxs : BatchReads(b) \/ BatchCommits(b)
  BY <1>3, ReadKeepsInv, CommitKeepsInv
<1>4. CASE ConfirmBatches
  BY <1>4, ConfirmKeepsInv
<1> QED BY <1>1, <1>2, <1>3, <1>4 DEF Next, BatchStep

\* However many jobs compute a batch at once from the last one each has found,
\* every index and every L2 block below the end of a batch belongs to one
\* (jobs/processOpBatch.js:48-109).
THEOREM NoGapBetweenBatches == Spec => []BatchesLeaveNoGap
<1>1. Inv => BatchesLeaveNoGap
  <2> SUFFICES ASSUME Inv, NEW b \in Posted
               PROVE  /\ \A n \in 0..batches[b].index : \E c \in Posted : batches[c].index = n
                      /\ \A n \in 0..(batches[b].end - 1) :
                            \E c \in Posted : n \in batches[c].first..(batches[c].end - 1)
    BY DEF BatchesLeaveNoGap
  <2>1. IndicesBelow(batches[b].index + 1) /\ BlocksBelow(batches[b].end)
    BY DEF Inv, NoGapBeforeBatches
  <2>2. \A c \in Posted : batches[c].index \in Nat /\ batches[c].first \in Nat
                          /\ batches[c].end \in Nat
    BY DEF Inv, BatchTypes, Posted
  <2>3. batches[b].index \in Nat /\ batches[b].end \in Nat
    BY <2>2
  <2>4. ASSUME NEW n \in 0..batches[b].index
        PROVE  \E c \in Posted : batches[c].index = n
    <3>1. n \in Nat /\ n < batches[b].index + 1
      BY <2>3
    <3> QED BY <2>1, <3>1 DEF IndicesBelow
  <2>5. ASSUME NEW n \in 0..(batches[b].end - 1)
        PROVE  \E c \in Posted : n \in batches[c].first..(batches[c].end - 1)
    <3>1. n \in Nat /\ n < batches[b].end
      BY <2>3
    <3>2. PICK c \in Posted : batches[c].first <= n /\ n < batches[c].end
      BY <2>1, <3>1 DEF BlocksBelow
    <3> QED BY <2>2, <3>1, <3>2
  <2> QED BY <2>4, <2>5
<1> QED BY <1>1, InvInit, StepKeepsInv, PTL DEF Spec

-----------------------------------------------------------------------------
(* Outputs.                                                                *)

OutputTypes ==
    /\ outputs \in [Games -> [status : {"none", "proposed", "finalized"}, index : Nat,
                              period : {"none", "running", "over"}]]
    /\ creating \in [Games -> [pc : {"idle", "read"}, index : Nat, first : {0}]]

\* An output comes with its receipt or after it.
OutputsFromReceipts ==
    \A g \in Games : g \notin receipts => g \notin jobs /\ outputs[g].status = "none"

\* A receipt in progress goes on where there is no gap.
NoGapBeforeReceipts ==
    \A g \in Games : creating[g].pc = "read" =>
       /\ g \notin receipts
       /\ \A n \in Nat : n < creating[g].index => IndexTaken(n)

OutputInv ==
    OutputTypes /\ OutputsFromReceipts /\ NoGapBeforeReceipts /\ OutputsNumbered

\* Each output keeps its index once it has one.
LEMMA TakenStays ==
  ASSUME \A h \in Proposed : h \in Proposed' /\ outputs'[h].index = outputs[h].index
  PROVE  \A n \in Nat : IndexTaken(n) => IndexTaken(n)'
BY DEF IndexTaken

\* Without a new output, what is numbered stays numbered.
LEMMA SameOutputs ==
  ASSUME OutputInv, OutputTypes',
         \A g \in Games : /\ outputs[g].status = "none" <=> outputs'[g].status = "none"
                          /\ outputs'[g].index = outputs[g].index
  PROVE  OutputsNumbered' /\ \A n \in Nat : IndexTaken(n)' <=> IndexTaken(n)
<1>1. Proposed' = Proposed
  BY DEF Proposed
<1>2. \A h \in Proposed : outputs'[h].index = outputs[h].index /\ outputs[h].index \in Nat
  BY DEF Proposed, OutputInv, OutputTypes
<1>3. \A n \in Nat : IndexTaken(n)' <=> IndexTaken(n)
  BY <1>1, <1>2 DEF IndexTaken
<1>4. OutputsNumbered'
  <2> SUFFICES ASSUME NEW g \in Proposed
               PROVE  /\ \A h \in Proposed : outputs'[g].index = outputs'[h].index => g = h
                      /\ \A n \in 0..outputs'[g].index : IndexTaken(n)'
    BY <1>1 DEF OutputsNumbered
  <2>1. \A n \in 0..outputs[g].index : n \in Nat /\ IndexTaken(n)
    BY DEF OutputInv, OutputsNumbered
  <2>2. \A h \in Proposed : outputs[g].index = outputs[h].index => g = h
    BY DEF OutputInv, OutputsNumbered
  <2>3. \A n \in 0..outputs'[g].index : IndexTaken(n)'
    BY <2>1, <1>2, <1>3
  <2> QED BY <2>2, <2>3, <1>2
<1> QED BY <1>3, <1>4

\* The index a receipt reads has no gap before it.
LEMMA NextIsNumbered ==
  ASSUME OutputInv, NEW next \in NextOutputIndex
  PROVE  next \in Nat /\ \A n \in Nat : n < next => IndexTaken(n)
<1>1. CASE Proposed = {}
  BY <1>1 DEF NextOutputIndex
<1>2. CASE Proposed # {}
  <2>1. PICK g \in Proposed : next = outputs[g].index + 1
    BY <1>2 DEF NextOutputIndex, Highest
  <2>2. outputs[g].index \in Nat
    BY DEF Proposed, OutputInv, OutputTypes
  <2>3. \A n \in 0..outputs[g].index : IndexTaken(n)
    BY DEF OutputInv, OutputsNumbered
  <2>4. \A n \in Nat : n < outputs[g].index + 1 => n \in 0..outputs[g].index
    BY <2>2
  <2> QED BY <2>1, <2>2, <2>3, <2>4
<1> QED BY <1>1, <1>2

\* A new output at an index that nothing has, and that has no gap before it.
LEMMA NewOutput ==
  ASSUME OutputInv, OutputTypes', NEW g \in Games \ Proposed, NEW k \in Nat,
         ~IndexTaken(k), \A n \in Nat : n < k => IndexTaken(n),
         Proposed' = Proposed \cup {g}, outputs'[g].index = k,
         \A h \in Proposed : outputs'[h] = outputs[h]
  PROVE  OutputsNumbered' /\ \A n \in Nat : IndexTaken(n) => IndexTaken(n)'
<1>1. \A n \in Nat : IndexTaken(n) => IndexTaken(n)'
  BY TakenStays
<1>2. \A h \in Proposed : outputs[h].index # k /\ outputs[h].index \in Nat
  BY DEF IndexTaken, OutputInv, OutputTypes, Proposed
<1>3. ASSUME NEW c \in Proposed', NEW h \in Proposed', outputs'[c].index = outputs'[h].index
      PROVE  c = h
  <2>1. c \in Proposed /\ h \in Proposed => outputs[c].index = outputs[h].index
    BY <1>3
  <2> QED BY <1>2, <1>3, <2>1 DEF OutputInv, OutputsNumbered
<1>4. ASSUME NEW c \in Proposed', NEW n \in 0..outputs'[c].index PROVE IndexTaken(n)'
  <2>1. CASE c = g
    <3>1. n \in Nat /\ (n < k \/ n = k)
      BY <1>4, <2>1
    <3>2. IndexTaken(k)'
      BY DEF IndexTaken
    <3> QED BY <1>1, <3>1, <3>2
  <2>2. CASE c \in Proposed
    <3>1. n \in Nat /\ n \in 0..outputs[c].index
      BY <1>4, <2>2
    <3>2. IndexTaken(n)
      BY <2>2, <3>1 DEF OutputInv, OutputsNumbered
    <3> QED BY <1>1, <3>1, <3>2
  <2> QED BY <2>1, <2>2
<1> QED BY <1>1, <1>3, <1>4 DEF OutputsNumbered

LEMMA GameReadsKeeps ==
  ASSUME OutputInv, NEW g \in Games, GameReads(g)
  PROVE  OutputInv'
<1>1. PICK next \in NextOutputIndex :
        creating' = [creating EXCEPT ![g] = [NotBegun EXCEPT !.pc = "read", !.index = next]]
  BY DEF GameReads
<1>2. next \in Nat /\ \A n \in Nat : n < next => IndexTaken(n)
  BY NextIsNumbered
<1> DEFINE begun == [NotBegun EXCEPT !.pc = "read", !.index = next]
<1>3. creating' = [creating EXCEPT ![g] = begun]
  BY <1>1
<1>4. begun \in [pc : {"idle", "read"}, index : Nat, first : {0}] /\ begun.index = next
  BY <1>2 DEF NotBegun
<1> HIDE DEF begun
<1>5. g \notin receipts /\ receipts' = receipts /\ jobs' = jobs /\ outputs' = outputs
  BY DEF GameReads, Unhandled
<1>6. OutputTypes'
  BY <1>3, <1>4, <1>5 DEF OutputInv, OutputTypes
<1>7. Proposed' = Proposed /\ (\A n \in Nat : IndexTaken(n)' <=> IndexTaken(n)) /\ OutputsNumbered'
  BY <1>5, <1>6, SameOutputs DEF Proposed
<1>8. NoGapBeforeReceipts'
  <2> SUFFICES ASSUME NEW h \in Games, creating'[h].pc = "read"
               PROVE  h \notin receipts /\ \A n \in Nat : n < creating'[h].index => IndexTaken(n)
    BY <1>5, <1>7 DEF NoGapBeforeReceipts
  <2>1. CASE h = g
    BY <1>2, <1>3, <1>4, <1>5, <2>1 DEF OutputInv, OutputTypes
  <2>2. CASE h # g
    BY <1>3, <2>2 DEF OutputInv, OutputTypes, NoGapBeforeReceipts
  <2> QED BY <2>1, <2>2
<1>9. OutputsFromReceipts'
  BY <1>5 DEF OutputInv, OutputsFromReceipts
<1> QED BY <1>6, <1>7, <1>8, <1>9 DEF OutputInv

LEMMA GameCommitsKeeps ==
  ASSUME OutputInv, NEW g \in Games, GameCommits(g)
  PROVE  OutputInv'
<1>1. /\ creating[g].pc = "read" /\ creating' = [creating EXCEPT ![g] = NotBegun]
      /\ receipts' = receipts \cup {g} /\ jobs' \subseteq jobs \cup {g}
  BY DEF GameCommits, EnqueueOrNot
<1>2. /\ g \notin receipts /\ g \notin Proposed /\ creating[g].index \in Nat
      /\ \A n \in Nat : n < creating[g].index => IndexTaken(n)
  BY <1>1 DEF OutputInv, OutputTypes, NoGapBeforeReceipts, OutputsFromReceipts, Proposed
<1>3. creating' \in [Games -> [pc : {"idle", "read"}, index : Nat, first : {0}]]
  BY <1>1 DEF OutputInv, OutputTypes, NotBegun
<1>4. /\ OutputTypes' /\ OutputsNumbered'
      /\ \A n \in Nat : IndexTaken(n) => IndexTaken(n)'
      /\ \A h \in Games : h # g => outputs'[h] = outputs[h]
  <2>1. CASE IndexTaken(creating[g].index)
    <3>1. outputs' = outputs
      BY <2>1 DEF GameCommits
    <3>2. OutputTypes'
      BY <1>3, <3>1 DEF OutputInv, OutputTypes
    <3> QED BY <3>1, <3>2, SameOutputs
  <2>2. CASE ~IndexTaken(creating[g].index)
    <3> DEFINE new == [status |-> "proposed", period |-> "running", index |-> creating[g].index]
    <3>1. outputs' = [outputs EXCEPT ![g] = new]
      BY <2>2 DEF GameCommits
    <3>2. /\ new \in [status : {"none", "proposed", "finalized"}, index : Nat,
                      period : {"none", "running", "over"}]
          /\ new.status = "proposed" /\ new.index = creating[g].index
      BY <1>2
    <3> HIDE DEF new
    <3>3. OutputTypes'
      BY <1>3, <3>1, <3>2 DEF OutputInv, OutputTypes
    <3>4. /\ \A h \in Games : outputs'[h] = IF h = g THEN new ELSE outputs[h]
          /\ Proposed' = Proposed \cup {g}
      BY <3>1, <3>2 DEF OutputInv, OutputTypes, Proposed
    <3>5. \A h \in Proposed : outputs'[h] = outputs[h]
      BY <1>2, <3>4 DEF Proposed
    <3>6. outputs'[g].index = creating[g].index /\ g \in Games \ Proposed
      BY <1>2, <3>2, <3>4
    <3>7. OutputsNumbered' /\ \A n \in Nat : IndexTaken(n) => IndexTaken(n)'
      BY <1>2, <2>2, <3>3, <3>4, <3>5, <3>6, NewOutput
    <3> QED BY <3>3, <3>4, <3>7
  <2> QED BY <2>1, <2>2
<1>5. OutputsFromReceipts'
  BY <1>1, <1>4 DEF OutputInv, OutputsFromReceipts
<1>6. NoGapBeforeReceipts'
  <2> SUFFICES ASSUME NEW h \in Games, creating'[h].pc = "read"
               PROVE  h \notin receipts' /\ \A n \in Nat : n < creating'[h].index => IndexTaken(n)'
    BY DEF NoGapBeforeReceipts
  <2>1. h # g /\ creating'[h] = creating[h]
    BY <1>1 DEF OutputInv, OutputTypes, NotBegun
  <2> QED BY <1>1, <1>4, <2>1 DEF OutputInv, NoGapBeforeReceipts
<1> QED BY <1>4, <1>5, <1>6 DEF OutputInv

\* A receipt without an output, whether or not it leaves a job.
LEMMA ReceiptOnlyKeeps ==
  ASSUME OutputInv, NEW g \in Games, GameUnnoticed(g) \/ GameRelayed(g)
  PROVE  OutputInv'
<1>1. /\ g \notin receipts /\ creating[g].pc = "idle"
      /\ receipts' = receipts \cup {g} /\ jobs' \subseteq jobs \cup {g}
      /\ outputs' = outputs /\ creating' = creating
  BY DEF GameUnnoticed, GameRelayed, Unhandled, EnqueueOrNot
<1>2. OutputTypes'
  BY <1>1 DEF OutputInv, OutputTypes
<1>3. OutputsNumbered' /\ \A n \in Nat : IndexTaken(n)' <=> IndexTaken(n)
  BY <1>1, <1>2, SameOutputs
<1>4. OutputsFromReceipts'
  BY <1>1 DEF OutputInv, OutputsFromReceipts
<1>5. NoGapBeforeReceipts'
  BY <1>1, <1>3 DEF OutputInv, OutputTypes, NoGapBeforeReceipts
<1> QED BY <1>2, <1>3, <1>4, <1>5 DEF OutputInv

LEMMA RollBackKeeps ==
  ASSUME OutputInv, NEW g \in Games, GameRollsBack(g)
  PROVE  OutputInv'
<1>1. /\ creating' = [creating EXCEPT ![g] = NotBegun]
      /\ receipts' = receipts /\ jobs' = jobs /\ outputs' = outputs
  BY DEF GameRollsBack
<1>2. OutputTypes'
  BY <1>1 DEF OutputInv, OutputTypes, NotBegun
<1>3. OutputsNumbered' /\ \A n \in Nat : IndexTaken(n)' <=> IndexTaken(n)
  BY <1>1, <1>2, SameOutputs
<1>4. OutputsFromReceipts'
  BY <1>1 DEF OutputInv, OutputsFromReceipts
<1>5. NoGapBeforeReceipts'
  <2> SUFFICES ASSUME NEW h \in Games, creating'[h].pc = "read"
               PROVE  h \notin receipts /\ \A n \in Nat : n < creating'[h].index => IndexTaken(n)
    BY <1>1, <1>3, <1>2 DEF NoGapBeforeReceipts, OutputTypes
  <2>1. h # g /\ creating'[h] = creating[h]
    BY <1>1 DEF OutputInv, OutputTypes, NotBegun
  <2> QED BY <2>1 DEF OutputInv, NoGapBeforeReceipts
<1> QED BY <1>2, <1>3, <1>4, <1>5 DEF OutputInv

\* Index 0 is taken only when it is free, and only by a game without an output.
LEMMA StoreOpOutputKeeps ==
  ASSUME OutputInv, NEW g \in Games, StoreOpOutput(g)
  PROVE  OutputInv'
<1>1. /\ g \in jobs /\ jobs' = jobs \ {g} /\ receipts' = receipts /\ creating' = creating
  BY DEF StoreOpOutput
<1>2. g \in receipts
  BY <1>1 DEF OutputInv, OutputsFromReceipts
<1>3. /\ OutputTypes' /\ OutputsNumbered'
      /\ \A n \in Nat : IndexTaken(n) => IndexTaken(n)'
      /\ \A h \in Games : h # g => outputs'[h] = outputs[h]
  <2>1. CASE outputs[g] # NoOutput \/ IndexTaken(0)
    <3>1. outputs' = outputs
      BY <2>1 DEF StoreOpOutput
    <3>2. OutputTypes'
      BY <1>1, <3>1 DEF OutputInv, OutputTypes
    <3> QED BY <3>1, <3>2, SameOutputs
  <2>2. CASE ~(outputs[g] # NoOutput \/ IndexTaken(0))
    <3> DEFINE new == [status |-> "proposed", index |-> 0, period |-> "none"]
    <3>1. outputs' = [outputs EXCEPT ![g] = new]
      <4>1. outputs' = [outputs EXCEPT ![g] = [outputs[g] EXCEPT !.status = "proposed"]]
        BY <2>2 DEF StoreOpOutput
      <4>2. [outputs[g] EXCEPT !.status = "proposed"] = new
        BY <2>2 DEF NoOutput
      <4> QED BY <4>1, <4>2
    <3>2. /\ new \in [status : {"none", "proposed", "finalized"}, index : Nat,
                      period : {"none", "running", "over"}]
          /\ new.status = "proposed" /\ new.index = 0
      OBVIOUS
    <3> HIDE DEF new
    <3>3. OutputTypes'
      BY <1>1, <3>1, <3>2 DEF OutputInv, OutputTypes
    <3>4. /\ \A h \in Games : outputs'[h] = IF h = g THEN new ELSE outputs[h]
          /\ Proposed' = Proposed \cup {g}
      BY <3>1, <3>2 DEF OutputInv, OutputTypes, Proposed
    <3>5. g \notin Proposed
      BY <2>2 DEF Proposed, NoOutput
    <3>6. \A h \in Proposed : outputs'[h] = outputs[h]
      BY <3>4, <3>5 DEF Proposed
    <3>7. outputs'[g].index = 0 /\ g \in Games \ Proposed /\ ~IndexTaken(0)
      BY <2>2, <3>2, <3>4, <3>5
    <3>8. 0 \in Nat /\ \A n \in Nat : n < 0 => IndexTaken(n)
      OBVIOUS
    <3>9. OutputsNumbered' /\ \A n \in Nat : IndexTaken(n) => IndexTaken(n)'
      BY <3>3, <3>4, <3>6, <3>7, <3>8, NewOutput
    <3> QED BY <3>3, <3>4, <3>9
  <2> QED BY <2>1, <2>2
<1>4. OutputsFromReceipts'
  BY <1>1, <1>2, <1>3 DEF OutputInv, OutputsFromReceipts
<1>5. NoGapBeforeReceipts'
  BY <1>1, <1>3 DEF OutputInv, OutputTypes, NoGapBeforeReceipts
<1> QED BY <1>3, <1>4, <1>5 DEF OutputInv

LEMMA OutputStepKeeps ==
  ASSUME OutputInv, OutputStep
  PROVE  OutputInv'
<1>1. ASSUME receipts' = receipts, jobs' = jobs, creating' = creating, OutputTypes',
             \A g \in Games : /\ outputs[g].status = "none" <=> outputs'[g].status = "none"
                              /\ outputs'[g].index = outputs[g].index
      PROVE  OutputInv'
  <2>1. OutputsNumbered' /\ \A n \in Nat : IndexTaken(n)' <=> IndexTaken(n)
    BY <1>1, SameOutputs
  <2>2. NoGapBeforeReceipts'
    BY <1>1, <2>1 DEF OutputInv, OutputTypes, NoGapBeforeReceipts
  <2> QED BY <1>1, <2>1, <2>2 DEF OutputInv, OutputsFromReceipts
<1>2. ASSUME NEW g \in Games, PeriodEnds(g) PROVE OutputInv'
  BY <1>1, <1>2 DEF PeriodEnds, OutputInv, OutputTypes
<1>3. CASE FinalizeOutputs
  BY <1>1, <1>3 DEF FinalizeOutputs, FinalStatus, OutputInv, OutputTypes, Proposed
<1> QED BY <1>2, <1>3, ReceiptOnlyKeeps, GameReadsKeeps, GameCommitsKeeps, RollBackKeeps,
           StoreOpOutputKeeps DEF OutputStep

\* Batches are of other transactions.
LEMMA ElsewhereKeepsOutputs ==
  ASSUME OutputInv, BatchStep \/ UNCHANGED vars
  PROVE  OutputInv'
<1>1. UNCHANGED outputVars
  BY DEF BatchStep, BatchReads, BatchCommits, L2BlockStored, ConfirmBatches, vars
<1>2. \A n : IndexTaken(n)' <=> IndexTaken(n)
  BY <1>1 DEF IndexTaken, Proposed, outputVars
<1>3. NoGapBeforeReceipts'
  BY <1>1, <1>2 DEF OutputInv, NoGapBeforeReceipts, outputVars
<1>4. OutputsNumbered'
  BY <1>1, <1>2 DEF OutputInv, OutputsNumbered, Proposed, outputVars
<1> QED BY <1>1, <1>3, <1>4 DEF OutputInv, OutputTypes, OutputsFromReceipts, outputVars

\* However many receipts and jobs store outputs at once, those of relayed games
\* at index 0 among them, the outputs are numbered from 0, each with an index of
\* its own (models/transaction.js:675-715, jobs/storeOpOutput.js:30-56).
THEOREM OutputsAreNumbered == Spec => []OutputsNumbered
<1>1. Init => OutputInv
  BY DEF Init, OutputInv, OutputTypes, OutputsFromReceipts, NoGapBeforeReceipts, OutputsNumbered,
         Proposed, NoOutput, NotBegun
<1>2. OutputInv /\ [Next]_vars => OutputInv'
  BY OutputStepKeeps, ElsewhereKeepsOutputs DEF Next
<1>3. OutputInv => OutputsNumbered
  BY DEF OutputInv
<1> QED BY <1>1, <1>2, <1>3, PTL DEF Spec
=============================================================================
