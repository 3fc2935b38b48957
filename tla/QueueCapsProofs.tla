-------------------------- MODULE QueueCapsProofs --------------------------
(***************************************************************************)
(* Proofs about QueueCaps for any number of enqueuers, any jobs and any    *)
(* cap: every variable keeps its type, no enqueuer ever has more than the  *)
(* cap of counted jobs waiting or in hand, and n of them together never    *)
(* more than n caps.                                                       *)
(*                                                                         *)
(* The bound alone is not inductive: the count an enqueuer reads must be   *)
(* known to include the jobs it added before, which is what Inv adds.      *)
(***************************************************************************)
EXTENDS QueueCaps, FiniteSetTheorems, WellFoundedInduction, TLAPS

\* The jobs an enqueuer added below the cap are among those the count sees.
CappedAreCounted == \A e \in Enqueuers : capped[e] \subseteq Counted

Inv == TypeOK /\ CappedAreCounted /\ OvershootBounded

-----------------------------------------------------------------------------
(* Sets of jobs.                                                           *)

\* Every set of jobs is finite, and smaller than any that contains it.
LEMMA Smaller ==
  ASSUME NEW S \in SUBSET Jobs, NEW T \in SUBSET S
  PROVE  /\ IsFiniteSet(S) /\ IsFiniteSet(T)
         /\ Cardinality(S) \in Nat /\ Cardinality(T) \in Nat
         /\ Cardinality(T) <= Cardinality(S)
<1>1. IsFiniteSet(S)
  BY ConstantsAssumption, FS_Subset
<1>2. IsFiniteSet(T) /\ Cardinality(T) <= Cardinality(S)
  BY <1>1, FS_Subset
<1> QED BY <1>1, <1>2, FS_CardinalityType

\* Two sets of jobs together have at most as many as both.
LEMMA Together ==
  ASSUME NEW S \in SUBSET Jobs, NEW T \in SUBSET Jobs
  PROVE  Cardinality(S \cup T) <= Cardinality(S) + Cardinality(T)
<1>1. /\ IsFiniteSet(S) /\ IsFiniteSet(T)
      /\ S \cap T \in SUBSET S
  BY Smaller
<1>2. Cardinality(S \cap T) \in Nat /\ Cardinality(S) \in Nat /\ Cardinality(T) \in Nat
  BY <1>1, Smaller
<1>3. Cardinality(S \cup T) = Cardinality(S) + Cardinality(T) - Cardinality(S \cap T)
  BY <1>1, FS_Union
<1> QED BY <1>2, <1>3

\* The count is a number of jobs.
LEMMA CountType == Count \in Nat
<1>1. Counted \in SUBSET Jobs
  BY DEF Counted, Waiting
<1> QED BY <1>1, Smaller DEF Count

-----------------------------------------------------------------------------
(* Type correctness.                                                       *)

\* What a lookup makes of its caller.
LEMMA LookupType ==
  ASSUME TypeOK, NEW c \in Callers, NEW batch \in SUBSET Jobs, Lookup(c, batch)
  PROVE  /\ caller' \in [Callers -> [pc : Pcs, batch : SUBSET Jobs]]
         /\ mishaps' \in Nat
BY DEF TypeOK, Lookup, AfterCache, IfLow, IfNormal, Pcs, Mishap

\* What a slice makes of its caller: part of the batch it had.
LEMMA SliceType ==
  ASSUME TypeOK, NEW e \in Enqueuers, NEW room, NEW next \in Pcs, Slice(e, room, next)
  PROVE  caller' \in [Callers -> [pc : Pcs, batch : SUBSET Jobs]]
<1>1. PICK accepted \in SUBSET caller[e].batch :
        caller' = [caller EXCEPT ![e] = IF accepted = {} THEN Idle
                                        ELSE [pc |-> next, batch |-> accepted]]
  BY DEF Slice
<1>2. Idle \in [pc : Pcs, batch : SUBSET Jobs]
  BY DEF Idle, Pcs
<1>3. e \in Callers /\ accepted \in SUBSET Jobs
  BY DEF TypeOK, Callers
<1> QED BY <1>1, <1>2, <1>3 DEF TypeOK

\* Every variable has its type in every reachable state.
THEOREM TypeCorrect == Spec => []TypeOK
<1>1. Init => TypeOK
  BY ConstantsAssumption DEF Init, TypeOK, Idle, Pcs
<1>2. TypeOK /\ [Next]_vars => TypeOK'
  <2> SUFFICES ASSUME TypeOK, [Next]_vars PROVE TypeOK'
    OBVIOUS
  <2>1. CASE \E e \in Enqueuers : EnqueuerStep(e)
    <3>1. PICK e \in Enqueuers : EnqueuerStep(e)
      BY <2>1
    <3>2. e \in Callers
      BY DEF Callers
    <3>3. CASE Enqueue(e)
      BY <3>2, <3>3, LookupType DEF TypeOK, Enqueue
    <3>4. CASE CountWaiting(e)
      <4>1. caller' \in [Callers -> [pc : Pcs, batch : SUBSET Jobs]]
        BY <3>4, SliceType DEF CountWaiting, Pcs
      <4>2. mishaps' \in Nat
        BY <3>4 DEF CountWaiting, Mishap, TypeOK
      <4> QED BY <3>4, <4>1, <4>2 DEF CountWaiting, TypeOK
    <3>5. CASE Add(e)
      <4>1. caller' \in [Callers -> [pc : Pcs, batch : SUBSET Jobs]]
        BY <3>2, <3>5 DEF Add, TypeOK, Idle, Pcs
      <4>2. mishaps' \in Nat
        BY <3>5 DEF Add, Mishap, TypeOK
      <4>3. queue' \in [Jobs -> {"none", "waiting", "held"}]
        BY <3>5 DEF Add, TypeOK
      <4>4. capped' \in [Enqueuers -> SUBSET Named]
        BY <3>5 DEF Add, TypeOK
      <4> QED BY <3>5, <4>1, <4>2, <4>3, <4>4 DEF Add, TypeOK
    <3> QED BY <3>1, <3>3, <3>4, <3>5 DEF EnqueuerStep
  <2>2. CASE \E c \in Callers : TierStep(c)
    BY <2>2 DEF TypeOK, TierStep, EvaluateTier, StoreTier, Goto, Mishap, IfLow,
                IfNormal, Pcs, Tiers
  <2>3. CASE \E j \in Jobs : JobStep(j)
    BY <2>3 DEF TypeOK, JobStep, WorkerTakes, JobForgotten, JobFails, DirectWrite,
                Leave, Mishap
  <2>4. CASE Scan
    <3>1. Sweep \in Callers /\ {} \in SUBSET Jobs
      BY DEF Callers
    <3>2. excess' \in Nat
      BY <2>4, CountType, ConstantsAssumption DEF Scan, Excess
    <3> QED BY <2>4, <3>1, <3>2, LookupType DEF Scan, TypeOK
  <2>5. CASE Trim
    <3>1. Sweep \in Callers
      BY DEF Callers
    <3>2. queue' \in [Jobs -> {"none", "waiting", "held"}]
      BY <2>5 DEF Trim, TypeOK
    <3>3. capped' \in [Enqueuers -> SUBSET Named]
      BY <2>5 DEF Trim, TypeOK
    <3>4. caller' \in [Callers -> [pc : Pcs, batch : SUBSET Jobs]]
      BY <2>5, <3>1 DEF Trim, TypeOK, Idle, Pcs
    <3>5. mishaps' \in Nat
      BY <2>5 DEF Trim, TypeOK, Mishap
    <3> QED BY <2>5, <3>2, <3>3, <3>4, <3>5 DEF Trim, TypeOK
  <2>6. CASE TierExpires \/ TierChanges
    BY <2>6 DEF TypeOK, TierExpires, TierChanges, Tiers
  <2>7. CASE UNCHANGED vars
    BY <2>7 DEF TypeOK, vars
  <2> QED BY <2>1, <2>2, <2>3, <2>4, <2>5, <2>6, <2>7 DEF Next
<1> QED BY <1>1, <1>2, PTL DEF Spec

-----------------------------------------------------------------------------
(* The overshoot.                                                          *)

\* What is in hand is a set of named jobs.
LEMMA InHandType ==
  ASSUME TypeOK, NEW e \in Enqueuers
  PROVE  InHand(e) \in SUBSET Jobs /\ capped[e] \in SUBSET Jobs
BY ConstantsAssumption DEF TypeOK, InHand, Callers

\* A step that moves no job into waiting without the enqueuer's count, and
\* takes nothing in hand for it, keeps its bound.
LEMMA BoundKept ==
  ASSUME TypeOK, NEW e \in Enqueuers,
         Cardinality(capped[e]) + Cardinality(InHand(e)) <= Cap,
         capped'[e] \subseteq capped[e],
         InHand(e)' \subseteq InHand(e)
  PROVE  Cardinality(capped'[e]) + Cardinality(InHand(e)') <= Cap
<1>1. InHand(e) \in SUBSET Jobs /\ capped[e] \in SUBSET Jobs
  BY InHandType
<1>2. /\ Cardinality(capped[e]) \in Nat /\ Cardinality(capped'[e]) \in Nat
      /\ Cardinality(capped'[e]) <= Cardinality(capped[e])
  BY <1>1, Smaller
<1>3. /\ Cardinality(InHand(e)) \in Nat /\ Cardinality(InHand(e)') \in Nat
      /\ Cardinality(InHand(e)') <= Cardinality(InHand(e))
  BY <1>1, Smaller
<1> QED BY <1>2, <1>3, ConstantsAssumption

\* A slice takes in hand no more than the room that is left.
LEMMA SliceFits ==
  ASSUME TypeOK, TypeOK', NEW e \in Enqueuers, NEW room \in Nat, NEW next \in Pcs,
         Slice(e, room, next)
  PROVE  Cardinality(InHand(e)') <= room
<1>1. PICK accepted \in SUBSET caller[e].batch :
        /\ Cardinality(accepted) = AtMost(Cardinality(caller[e].batch), room)
        /\ caller' = [caller EXCEPT ![e] = IF accepted = {} THEN Idle
                                           ELSE [pc |-> next, batch |-> accepted]]
  BY DEF Slice
<1>2. e \in Callers /\ caller[e].batch \in SUBSET Jobs
  BY DEF TypeOK, Callers
<1>3. Cardinality(caller[e].batch) \in Nat /\ accepted \in SUBSET Jobs
  BY <1>2, Smaller
<1>4. Cardinality(accepted) <= room
  BY <1>1, <1>3 DEF AtMost
<1>5. InHand(e)' \subseteq accepted
  BY <1>1, <1>2 DEF InHand, TypeOK, Idle
<1>6. Cardinality(accepted) \in Nat /\ Cardinality(InHand(e)') \in Nat
      /\ Cardinality(InHand(e)') <= Cardinality(accepted)
  BY <1>3, <1>5, Smaller
<1> QED BY <1>4, <1>6

\* Nothing is in hand or waiting at first.
LEMMA InitInv == Init => Inv
<1> SUFFICES ASSUME Init PROVE Inv
  OBVIOUS
<1>1. TypeOK
  BY ConstantsAssumption DEF Init, TypeOK, Idle, Pcs
<1>2. CappedAreCounted
  BY DEF Init, CappedAreCounted
<1>3. OvershootBounded
  BY FS_EmptySet, ConstantsAssumption DEF Init, OvershootBounded, InHand, Idle, Callers
<1> QED BY <1>1, <1>2, <1>3 DEF Inv

\* Counting takes in hand at most what the jobs already waiting leave.
LEMMA CountKeepsInv ==
  ASSUME Inv, TypeOK', NEW d \in Enqueuers, CountWaiting(d)
  PROVE  Inv'
<1> USE DEF Inv
<1>1. CappedAreCounted'
  BY DEF CountWaiting, CappedAreCounted, Counted, Waiting
<1>2. ASSUME NEW e \in Enqueuers
      PROVE  (Cardinality(capped[e]) + Cardinality(InHand(e)) <= Cap)'
  <2>1. Cardinality(capped[e]) + Cardinality(InHand(e)) <= Cap /\ capped' = capped
    BY DEF OvershootBounded, CountWaiting
  <2>2. CASE e # d
    <3>1. caller'[e] = caller[e]
      BY <2>2 DEF CountWaiting, Slice, TypeOK, Callers
    <3>2. InHand(e)' = InHand(e)
      BY <3>1 DEF InHand
    <3> QED BY <2>1, <3>2
  <2>3. CASE e = d /\ Slice(e, Room(Count), "add")
    <3>1. Room(Count) \in Nat
      BY CountType, ConstantsAssumption DEF Room
    <3>2. Cardinality(InHand(e)') <= Room(Count)
      BY <2>3, <3>1, SliceFits DEF Pcs
    <3>3. capped[e] \subseteq Counted /\ Counted \in SUBSET Jobs
      BY DEF CappedAreCounted, Counted, Waiting
    <3>4. Cardinality(capped[e]) <= Count /\ Cardinality(capped[e]) \in Nat
      BY <3>3, Smaller DEF Count
    <3>5. caller[e].pc = "count"
      BY <2>3 DEF CountWaiting
    <3>6. InHand(e) = {}
      BY <3>5 DEF InHand
    <3>7. Cardinality(capped[e]) <= Cap
      BY <2>1, <3>4, <3>6, FS_EmptySet, ConstantsAssumption
    <3>8. InHand(e)' \in SUBSET Jobs
      BY DEF InHand, TypeOK, Callers
    <3>9. Cardinality(InHand(e)') \in Nat
      BY <3>8, Smaller
    <3> QED BY <2>1, <3>2, <3>4, <3>7, <3>9, CountType, ConstantsAssumption DEF Room
  <2>4. CASE e = d /\ Slice(e, Room(0), "addUncapped")
    <3>1. InHand(e)' = {}
      BY <2>4 DEF InHand, Slice, TypeOK, Idle, Callers
    <3> QED BY <2>1, <3>1, BoundKept
  <2> QED BY <2>2, <2>3, <2>4 DEF CountWaiting
<1>3. OvershootBounded'
  BY <1>2 DEF OvershootBounded
<1> QED BY <1>1, <1>3

\* Adding moves what was in hand to what is waiting.
LEMMA AddKeepsInv ==
  ASSUME Inv, TypeOK', NEW d \in Enqueuers, Add(d)
  PROVE  Inv'
<1> USE DEF Inv
<1> DEFINE new == {j \in caller[d].batch : queue[j] = "none"}
<1>1. CappedAreCounted'
  <2> SUFFICES ASSUME NEW e \in Enqueuers, NEW j \in capped'[e]
               PROVE  j \in Counted'
    BY DEF CappedAreCounted
  <2>1. capped[e] \subseteq Counted
    BY DEF CappedAreCounted
  <2>2. j \in capped[e] \/ (queue' # queue /\ j \in new \cap Named)
    BY DEF Add, TypeOK
  <2> QED BY <2>1, <2>2 DEF Add, TypeOK, Counted, Waiting, Callers
<1>2. ASSUME NEW e \in Enqueuers
      PROVE  (Cardinality(capped[e]) + Cardinality(InHand(e)) <= Cap)'
  <2>1. Cardinality(capped[e]) + Cardinality(InHand(e)) <= Cap
    BY DEF OvershootBounded
  <2>2. InHand(d)' = {}
    BY DEF Add, InHand, TypeOK, Idle, Callers
  <2>3. CASE e # d
    <3>1. caller'[e] = caller[e] /\ capped'[e] = capped[e]
      BY <2>3 DEF Add, TypeOK, Callers
    <3>2. InHand(e)' = InHand(e)
      BY <3>1 DEF InHand
    <3> QED BY <2>1, <3>1, <3>2
  <2>4. CASE e = d /\ capped'[e] = capped[e]
    BY <2>1, <2>2, <2>4, BoundKept
  <2>5. CASE e = d /\ caller[d].pc = "add" /\ capped'[e] = capped[e] \cup (new \cap Named)
    <3>1. new \cap Named \subseteq InHand(e)
      BY <2>5 DEF InHand
    <3>2. InHand(e) \in SUBSET Jobs /\ capped[e] \in SUBSET Jobs
      BY InHandType
    <3>3. /\ Cardinality(new \cap Named) <= Cardinality(InHand(e))
          /\ Cardinality(new \cap Named) \in Nat /\ Cardinality(InHand(e)) \in Nat
      BY <3>1, <3>2, Smaller
    <3>4. Cardinality(capped'[e]) <= Cardinality(capped[e]) + Cardinality(new \cap Named)
      BY <2>5, <3>1, <3>2, Together
    <3>5. capped'[e] \in SUBSET Jobs
      BY <2>5, <3>1, <3>2
    <3>6. Cardinality(capped[e]) \in Nat /\ Cardinality(capped'[e]) \in Nat
      BY <3>2, <3>5, Smaller
    <3>7. Cardinality(InHand(e)') = 0
      BY <2>2, <2>5, FS_EmptySet
    <3> QED BY <2>1, <3>3, <3>4, <3>6, <3>7, ConstantsAssumption
  <2> QED BY <2>3, <2>4, <2>5 DEF Add, TypeOK
<1>3. OvershootBounded'
  BY <1>2 DEF OvershootBounded
<1> QED BY <1>1, <1>3

\* A worker that takes a job, and a trim, only take away.
LEMMA RemovalKeepsInv ==
  ASSUME Inv, TypeOK', NEW removed \in SUBSET Jobs, NEW to \in {"none", "held"},
         queue' = [j \in Jobs |-> IF j \in removed THEN to ELSE queue[j]],
         capped' = [e \in Enqueuers |-> capped[e] \ removed],
         \A e \in Enqueuers : caller'[e] = caller[e]
  PROVE  Inv'
<1> USE DEF Inv
<1>1. CappedAreCounted'
  BY DEF CappedAreCounted, Counted, Waiting
<1>2. ASSUME NEW e \in Enqueuers
      PROVE  (Cardinality(capped[e]) + Cardinality(InHand(e)) <= Cap)'
  <2>1. Cardinality(capped[e]) + Cardinality(InHand(e)) <= Cap
    BY DEF OvershootBounded
  <2>2. capped'[e] \subseteq capped[e] /\ InHand(e)' = InHand(e)
    BY DEF InHand
  <2> QED BY <2>1, <2>2, BoundKept
<1>3. OvershootBounded'
  BY <1>2 DEF OvershootBounded
<1> QED BY <1>1, <1>3

\* Any other step leaves what is waiting where it is and takes nothing in hand
\* that was counted.
LEMMA OtherKeepsInv ==
  ASSUME Inv, TypeOK', capped' = capped, Counted \subseteq Counted',
         \A e \in Enqueuers : caller'[e] = caller[e] \/ caller'[e].pc # "add"
  PROVE  Inv'
<1> USE DEF Inv
<1>1. CappedAreCounted'
  BY DEF CappedAreCounted
<1>2. ASSUME NEW e \in Enqueuers
      PROVE  (Cardinality(capped[e]) + Cardinality(InHand(e)) <= Cap)'
  <2>1. Cardinality(capped[e]) + Cardinality(InHand(e)) <= Cap
    BY DEF OvershootBounded
  <2>2. capped'[e] \subseteq capped[e] /\ InHand(e)' \subseteq InHand(e)
    BY DEF InHand
  <2> QED BY <2>1, <2>2, BoundKept
<1>3. OvershootBounded'
  BY <1>2 DEF OvershootBounded
<1> QED BY <1>1, <1>3

\* No enqueuer ever has more than the cap of counted jobs waiting and in hand,
\* however the others, the workers, the sweep, the errors and the changes of
\* tier come between.
THEOREM OvershootIsBounded == Spec => []OvershootBounded
<1>1. Inv /\ TypeOK' /\ [Next]_vars => Inv'
  <2> SUFFICES ASSUME Inv, TypeOK', [Next]_vars PROVE Inv'
    OBVIOUS
  <2>1. ASSUME NEW e \in Enqueuers, EnqueuerStep(e) PROVE Inv'
    <3>1. CASE Enqueue(e)
      <4>1. caller'[e].pc # "add"
        BY <3>1, ConstantsAssumption
           DEF Enqueue, Lookup, AfterCache, IfLow, IfNormal, Inv, TypeOK, Callers
      <4>2. \A d \in Enqueuers : d # e => caller'[d] = caller[d]
        BY <3>1 DEF Enqueue, Lookup, Inv, TypeOK, Callers
      <4>3. capped' = capped /\ Counted \subseteq Counted'
        BY <3>1 DEF Enqueue, Counted, Waiting
      <4> QED BY <4>1, <4>2, <4>3, OtherKeepsInv
    <3> QED BY <2>1, <3>1, CountKeepsInv, AddKeepsInv DEF EnqueuerStep
  <2>2. ASSUME NEW c \in Callers, TierStep(c) PROVE Inv'
    <3>1. capped' = capped /\ Counted \subseteq Counted'
      BY <2>2 DEF TierStep, EvaluateTier, StoreTier, Counted, Waiting
    <3>2. \A e \in Enqueuers : caller'[e] = caller[e] \/ caller'[e].pc # "add"
      BY <2>2 DEF TierStep, EvaluateTier, StoreTier, Goto, IfLow, IfNormal, Inv, TypeOK, Callers
    <3> QED BY <3>1, <3>2, OtherKeepsInv
  <2>3. ASSUME NEW j \in Jobs, JobStep(j) PROVE Inv'
    <3>1. CASE WorkerTakes(j)
      <4>1. queue' = [i \in Jobs |-> IF i \in {j} THEN "held" ELSE queue[i]]
        BY <3>1 DEF WorkerTakes, Inv, TypeOK
      <4>2. /\ capped' = [e \in Enqueuers |-> capped[e] \ {j}]
            /\ caller' = caller
        BY <3>1 DEF WorkerTakes, Leave
      <4> QED BY <4>1, <4>2, RemovalKeepsInv
    <3>2. CASE JobForgotten(j) \/ JobFails(j) \/ DirectWrite(j)
      <4>1. capped' = capped /\ caller' = caller
        BY <3>2 DEF JobForgotten, JobFails, DirectWrite
      <4>2. Counted \subseteq Counted'
        BY <3>2 DEF JobForgotten, JobFails, DirectWrite, Counted, Waiting, Inv, TypeOK
      <4> QED BY <4>1, <4>2, OtherKeepsInv
    <3> QED BY <2>3, <3>1, <3>2 DEF JobStep
  <2>4. CASE Scan
    <3>1. capped' = capped /\ Counted \subseteq Counted'
      BY <2>4 DEF Scan, Counted, Waiting
    <3>2. \A e \in Enqueuers : caller'[e] = caller[e]
      BY <2>4, ConstantsAssumption DEF Scan, Lookup, Inv, TypeOK, Callers
    <3> QED BY <3>1, <3>2, OtherKeepsInv
  <2>5. CASE Trim
    <3>1. \A e \in Enqueuers : caller'[e] = caller[e]
      BY <2>5, ConstantsAssumption DEF Trim, Inv, TypeOK, Callers
    <3>2. CASE UNCHANGED <<queue, capped>>
      BY <3>1, <3>2, OtherKeepsInv DEF Counted, Waiting
    <3>3. CASE \E removed \in SUBSET Counted :
                 /\ queue' = [j \in Jobs |-> IF j \in removed THEN "none" ELSE queue[j]]
                 /\ capped' = [e \in Enqueuers |-> capped[e] \ removed]
      BY <3>1, <3>3, RemovalKeepsInv DEF Counted, Waiting
    <3> QED BY <2>5, <3>2, <3>3 DEF Trim
  <2>6. CASE TierExpires \/ TierChanges \/ UNCHANGED vars
    <3>1. capped' = capped /\ caller' = caller /\ queue' = queue
      BY <2>6 DEF TierExpires, TierChanges, vars
    <3> QED BY <3>1, OtherKeepsInv DEF Counted, Waiting
  <2> QED BY <2>1, <2>2, <2>3, <2>4, <2>5, <2>6 DEF Next
<1>2. Inv => OvershootBounded
  BY DEF Inv
<1> QED BY <1>1, <1>2, InitInv, TypeCorrect, PTL DEF Spec

-----------------------------------------------------------------------------
(* All enqueuers together.                                                 *)

\* The counted jobs an enqueuer has waiting or in hand.
Answers(e) == capped[e] \cup InHand(e)

\* What n sets of at most Cap jobs hold together: were the bound wrong for some
\* number of enqueuers, it would be wrong for one fewer.
LEMMA CapsAddUp ==
  ASSUME NEW S, IsFiniteSet(S), NEW share \in [S -> SUBSET Jobs],
         \A e \in S : Cardinality(share[e]) <= Cap
  PROVE  Cardinality(UNION {share[e] : e \in S}) <= Cardinality(S) * Cap
<1> DEFINE All(T) == UNION {share[e] : e \in T}
           Wrong == {n \in Nat : \E T \in SUBSET S :
                       Cardinality(T) = n /\ ~ (Cardinality(All(T)) <= n * Cap)}
<1>1. ASSUME NEW T \in SUBSET S PROVE All(T) \in SUBSET Jobs
  OBVIOUS
<1>2. \A T \in SUBSET S : IsFiniteSet(T) /\ Cardinality(T) \in Nat
  BY FS_Subset, FS_CardinalityType
<1>3. SUFFICES ASSUME Wrong # {} PROVE FALSE
  <2>1. Cardinality(S) \notin Wrong
    BY <1>3
  <2> QED BY <2>1, <1>2
<1>4. PICK n \in Wrong : \A m \in Wrong : ~ (<<m, n>> \in OpToRel(<, Nat))
  BY <1>3, WFMin, NatLessThanWellFounded
<1>5. PICK T \in SUBSET S : Cardinality(T) = n /\ ~ (Cardinality(All(T)) <= n * Cap)
  OBVIOUS
<1>6. n \in Nat /\ Cap \in Nat
  BY ConstantsAssumption
<1>7. T # {}
  <2> SUFFICES ASSUME T = {} PROVE FALSE
    OBVIOUS
  <2>1. All(T) = {} /\ n = 0
    BY <1>5, FS_EmptySet
  <2> HIDE DEF All, Wrong
  <2>2. Cardinality(All(T)) = 0 /\ n * Cap = 0
    BY <2>1, <1>6, FS_EmptySet
  <2> QED BY <2>2, <1>5
<1>8. PICK e \in T : TRUE
  BY <1>7
<1> DEFINE rest == T \ {e}
<1>9. rest \in SUBSET S /\ Cardinality(rest) = n - 1 /\ n - 1 \in Nat
  <2>1. Cardinality(rest) = n - 1
    BY <1>2, <1>5, <1>8, FS_RemoveElement
  <2>2. rest \in SUBSET S /\ Cardinality(rest) \in Nat
    BY <1>2
  <2> QED BY <2>1, <2>2
<1>10. Cardinality(All(rest)) <= (n - 1) * Cap
  <2>1. n - 1 \notin Wrong
    <3> HIDE DEF All, Wrong, rest
    <3>1. n - 1 < n
      BY <1>6
    <3>2. <<n - 1, n>> \in OpToRel(<, Nat)
      BY <1>6, <1>9, <3>1 DEF OpToRel
    <3> QED BY <1>4, <3>2
  <2> QED BY <2>1, <1>9
<1>11. All(T) = All(rest) \cup share[e]
  BY <1>8
<1> HIDE DEF All, Wrong, rest
<1>12. All(rest) \in SUBSET Jobs /\ share[e] \in SUBSET Jobs /\ Cardinality(share[e]) <= Cap
  BY <1>1, <1>8, <1>9
<1>13. /\ Cardinality(All(T)) <= Cardinality(All(rest)) + Cardinality(share[e])
       /\ Cardinality(All(T)) \in Nat /\ Cardinality(All(rest)) \in Nat
       /\ Cardinality(share[e]) \in Nat
  BY <1>1, <1>11, <1>12, Together, Smaller
<1>14. (n - 1) * Cap + Cap = n * Cap /\ (n - 1) * Cap \in Int /\ n * Cap \in Int
  BY <1>6
<1>15. Cardinality(All(T)) <= n * Cap
  BY <1>6, <1>10, <1>12, <1>13, <1>14
<1> QED BY <1>5, <1>15

\* n enqueuers overshoot to at most n caps: all the counted jobs that any of them
\* added below the cap and that still wait, with all they have in hand.
THEOREM EnqueuersShareCaps ==
  ASSUME IsFiniteSet(Enqueuers)
  PROVE  Spec => [](Cardinality(UNION {Answers(e) : e \in Enqueuers})
                      <= Cardinality(Enqueuers) * Cap)
<1>1. TypeOK /\ OvershootBounded =>
        Cardinality(UNION {Answers(e) : e \in Enqueuers}) <= Cardinality(Enqueuers) * Cap
  <2> SUFFICES ASSUME TypeOK, OvershootBounded
               PROVE  Cardinality(UNION {Answers(e) : e \in Enqueuers})
                        <= Cardinality(Enqueuers) * Cap
    OBVIOUS
  <2>1. ASSUME NEW e \in Enqueuers
        PROVE  Answers(e) \in SUBSET Jobs /\ Cardinality(Answers(e)) <= Cap
    <3>1. InHand(e) \in SUBSET Jobs /\ capped[e] \in SUBSET Jobs
      BY InHandType
    <3>2. /\ Cardinality(Answers(e)) <= Cardinality(capped[e]) + Cardinality(InHand(e))
          /\ Cardinality(Answers(e)) \in Nat /\ Cardinality(capped[e]) \in Nat
          /\ Cardinality(InHand(e)) \in Nat
      BY <3>1, Together, Smaller DEF Answers
    <3> QED BY <3>1, <3>2, ConstantsAssumption DEF OvershootBounded, Answers
  <2> DEFINE share == [e \in Enqueuers |-> Answers(e)]
  <2>2. share \in [Enqueuers -> SUBSET Jobs]
        /\ \A e \in Enqueuers : Cardinality(share[e]) <= Cap
    BY <2>1
  <2>3. {share[e] : e \in Enqueuers} = {Answers(e) : e \in Enqueuers}
    OBVIOUS
  <2> HIDE DEF share
  <2>4. Cardinality(UNION {share[e] : e \in Enqueuers}) <= Cardinality(Enqueuers) * Cap
    BY <2>2, CapsAddUp
  <2> QED BY <2>3, <2>4
<1> QED BY <1>1, TypeCorrect, OvershootIsBounded, PTL

=============================================================================
