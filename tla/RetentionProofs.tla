-------------------------- MODULE RetentionProofs --------------------------
(***************************************************************************)
(* Retention keeps its types and deletes nothing but old rows, whatever    *)
(* the number of resets, the sizes of pages and chunks, and the restarts;  *)
(* and a reset that does not start again leaves no block of its window     *)
(* behind without a job that will delete it.                               *)
(***************************************************************************)
EXTENDS Retention, FiniteSetTheorems, WellFoundedInduction, TLAPS

-----------------------------------------------------------------------------
(* Pages and chunks.                                                       *)

\* A page and what is in the window of it are finite sets of rows.
LEMMA PageFinite ==
    ASSUME NEW ids \in SUBSET Nat, IsFiniteSet(ids), NEW last \in Nat, NEW to \in Nat
    PROVE  LET page == First(PageSize, Behind(ids, last))
           IN /\ page \subseteq ids
              /\ Cardinality(InWindow(page, to)) \in Nat
<1> DEFINE page == First(PageSize, Behind(ids, last))
<1>1. page \subseteq ids
  BY DEF First, Behind
<1>2. InWindow(page, to) \subseteq ids
  BY <1>1 DEF InWindow
<1>3. IsFiniteSet(InWindow(page, to))
  BY <1>2, FS_Subset
<1> QED
  BY <1>1, <1>3, FS_CardinalityType

\* The jobs enqueued for a page delete rows of it.
LEMMA NewJobsType ==
    ASSUME NEW r \in Resets, reset[r].pc \in Tables, reset[r].offset \in Nat,
           NEW ids \in SUBSET Nat, Cardinality(ids) \in Nat
    PROVE  \A j \in NewJobs(r, ids) :
              /\ j \in [table : Tables, reset : Resets \cup {Any}, start : Nat,
                        ids : SUBSET Nat, status : {"waiting", "ended"}]
              /\ j.table = reset[r].pc
              /\ j.ids \subseteq ids
<1>1. SUFFICES ASSUME NEW start \in 0..Cardinality(ids)
               PROVE  LET j == Job(reset[r].pc, r, reset[r].offset + start, Chunk(ids, start))
                      IN /\ j \in [table : Tables, reset : Resets \cup {Any}, start : Nat,
                                   ids : SUBSET Nat, status : {"waiting", "ended"}]
                         /\ j.table = reset[r].pc
                         /\ j.ids \subseteq ids
  BY DEF NewJobs
<1>2. Chunk(ids, start) \subseteq ids
  BY DEF Chunk
<1>3. Owner(reset[r].pc, r) \in Resets \cup {Any}
  BY DEF Owner
<1>4. reset[r].offset + start \in Nat
  OBVIOUS
<1> QED
  BY <1>2, <1>3, <1>4 DEF Job

-----------------------------------------------------------------------------
(* Types.                                                                  *)

LEMMA InitTypeOK == Init => TypeOK
<1> SUFFICES ASSUME Init PROVE TypeOK
  OBVIOUS
<1>1. newest \in [Tables -> Nat]
  BY DEF Init
<1>2. ASSUME NEW t \in Tables PROVE rows[t] \in SUBSET Nat /\ IsFiniteSet(rows[t])
  <2>1. newest[t] \in Nat /\ rows[t] = 1..newest[t]
    BY <1>1 DEF Init
  <2>2. IsFiniteSet(1..newest[t])
    BY <2>1, FS_Interval
  <2> QED
    BY <2>1, <2>2
<1>3. rows \in [Tables -> SUBSET Nat]
  BY <1>2 DEF Init
<1>4. reset \in [Resets -> [pc : {"idle", "blocks", "contracts", "ended"},
                            to : [Tables -> Nat], lastId : Nat, offset : Nat]]
  BY DEF Init
<1> QED
  BY <1>1, <1>2, <1>3, <1>4 DEF Init, TypeOK

\* What a reset is like after it was sent back to the beginning of a table.
LEMMA AtType ==
    ASSUME TypeOK, NEW r \in Resets, NEW pc \in {"blocks", "contracts", "ended"}
    PROVE  /\ At(r, pc) \in [pc : {"idle", "blocks", "contracts", "ended"},
                             to : [Tables -> Nat], lastId : Nat, offset : Nat]
           /\ At(r, pc).pc = pc
           /\ At(r, pc).to = reset[r].to
BY DEF TypeOK, At

LEMMA RowStoredType ==
    ASSUME TypeOK, NEW t \in Tables, RowStored(t)
    PROVE  TypeOK'
<1>1. newest' \in [Tables -> Nat] /\ newest'[t] \in Nat
  BY DEF TypeOK, RowStored
<1>2. rows' \in [Tables -> SUBSET Nat]
  BY <1>1 DEF TypeOK, RowStored
<1>3. ASSUME NEW u \in Tables PROVE IsFiniteSet(rows'[u])
  <2>1. CASE u = t
    BY <2>1, FS_AddElement DEF TypeOK, RowStored
  <2>2. CASE u # t
    BY <2>2 DEF TypeOK, RowStored
  <2> QED
    BY <2>1, <2>2
<1> QED
  BY <1>1, <1>2, <1>3 DEF TypeOK, RowStored

LEMMA ResetBeginsType ==
    ASSUME TypeOK, NEW r \in Resets, ResetBegins(r)
    PROVE  TypeOK'
<1>1. PICK to \in [Tables -> 0..(MaxBlock + MaxContract)] :
           reset' = [reset EXCEPT ![r] = [At(r, "blocks") EXCEPT !.to = to]]
  BY DEF ResetBegins
<1>2. to \in [Tables -> Nat]
  OBVIOUS
<1>3. [At(r, "blocks") EXCEPT !.to = to]
         \in [pc : {"idle", "blocks", "contracts", "ended"},
              to : [Tables -> Nat], lastId : Nat, offset : Nat]
  BY <1>2, AtType
<1> QED
  BY <1>1, <1>3 DEF TypeOK, ResetBegins

\* What a page leaves behind: the reset goes on, its window stays, and the jobs
\* that were added delete rows of the window.
LEMMA ReadPageEffect ==
    ASSUME TypeOK, NEW r \in Resets, ReadPage(r)
    PROVE  /\ TypeOK'
           /\ \A q \in Resets : /\ reset'[q].to = reset[q].to
                                /\ reset[q].pc # "idle" => reset'[q].pc # "idle"
           /\ reset[r].pc \in Tables
           /\ \A j \in jobs' \ jobs :
                 /\ j.table = reset[r].pc
                 /\ j.ids \subseteq InWindow(Nat, reset[r].to[reset[r].pc])
<1> DEFINE s == reset[r]
           page == First(PageSize, Behind(rows[s.pc], s.lastId))
           ids == InWindow(page, s.to[s.pc])
           J == [table : Tables, reset : Resets \cup {Any}, start : Nat,
                 ids : SUBSET Nat, status : {"waiting", "ended"}]
           R == [pc : {"idle", "blocks", "contracts", "ended"},
                 to : [Tables -> Nat], lastId : Nat, offset : Nat]
<1>1. s \in R /\ s.pc \in Tables /\ s.to[s.pc] \in Nat
  BY DEF TypeOK, ReadPage
<1>2. /\ page \subseteq rows[s.pc] /\ rows[s.pc] \subseteq Nat
      /\ Cardinality(ids) \in Nat
  BY <1>1, PageFinite DEF TypeOK
<1>3. ids \in SUBSET Nat /\ ids \subseteq InWindow(Nat, s.to[s.pc])
  BY <1>2 DEF InWindow
<1>4. jobs' \subseteq jobs \cup NewJobs(r, ids)
  BY DEF ReadPage, EnqueueDeletes
<1>5. \A j \in NewJobs(r, ids) : j \in J /\ j.table = s.pc /\ j.ids \subseteq ids
  <2>1. s.offset \in Nat
    BY <1>1
  <2> QED
    BY <1>1, <1>2, <1>3, <2>1, NewJobsType
<1>6. jobs' \subseteq J
  BY <1>4, <1>5 DEF TypeOK
<1>7. /\ reset' \in [Resets -> R]
      /\ \A q \in Resets : reset'[q].to = reset[q].to
                           /\ (reset[q].pc # "idle" => reset'[q].pc # "idle")
  <2>1. CASE reset' = [reset EXCEPT ![r] = At(r, NextTable(s.pc))]
    <3>1. NextTable(s.pc) \in {"contracts", "ended"}
      BY DEF NextTable
    <3>2. /\ At(r, NextTable(s.pc)) \in R
          /\ At(r, NextTable(s.pc)).pc \in {"contracts", "ended"}
          /\ At(r, NextTable(s.pc)).to = reset[r].to
      BY <3>1, AtType
    <3> QED
      BY <2>1, <3>2 DEF TypeOK
  <2>2. CASE \E last \in page :
                reset' = [reset EXCEPT ![r].lastId = last,
                                       ![r].offset = @ + Cardinality(ids)]
    <3>1. PICK last \in page :
             reset' = [reset EXCEPT ![r].lastId = last,
                                    ![r].offset = @ + Cardinality(ids)]
      BY <2>2
    <3>2. last \in Nat
      BY <1>2
    <3>3. s.offset + Cardinality(ids) \in Nat
      BY <1>1, <1>2
    <3> HIDE DEF page, ids
    <3>4. reset' = [reset EXCEPT ![r] = [reset[r] EXCEPT !.lastId = last,
                                            !.offset = @ + Cardinality(ids)]]
      BY <3>1, <1>1 DEF TypeOK
    <3> DEFINE new == [reset[r] EXCEPT !.lastId = last, !.offset = @ + Cardinality(ids)]
    <3>5. new \in R /\ new.to = reset[r].to /\ new.pc = reset[r].pc
      BY <1>1, <3>2, <3>3
    <3> HIDE DEF new
    <3>6. reset' = [reset EXCEPT ![r] = new]
      BY <3>4 DEF new
    <3> QED
      BY <3>5, <3>6 DEF TypeOK
  <2> QED
    BY <2>1, <2>2 DEF ReadPage
<1>8. UNCHANGED <<rows, newest, restarts>>
  BY DEF ReadPage
<1>9. TypeOK'
  BY <1>6, <1>7, <1>8 DEF TypeOK
<1> QED
  BY <1>1, <1>3, <1>4, <1>5, <1>7, <1>9

LEMMA ResetRestartsType ==
    ASSUME TypeOK, NEW r \in Resets, ResetRestarts(r)
    PROVE  TypeOK'
BY AtType DEF TypeOK, ResetRestarts

LEMMA DeleteBatchType ==
    ASSUME TypeOK, NEW j \in jobs, DeleteBatch(j)
    PROVE  TypeOK'
<1>1. rows' \in [Tables -> SUBSET Nat]
  BY DEF TypeOK, DeleteBatch
<1>2. ASSUME NEW t \in Tables PROVE IsFiniteSet(rows'[t])
  <2>1. rows'[t] \subseteq rows[t]
    BY DEF TypeOK, DeleteBatch
  <2> QED
    BY <2>1, FS_Subset DEF TypeOK
<1>3. jobs' \subseteq [table : Tables, reset : Resets \cup {Any}, start : Nat,
                       ids : SUBSET Nat, status : {"waiting", "ended"}]
  BY DEF TypeOK, DeleteBatch
<1> QED
  BY <1>1, <1>2, <1>3 DEF TypeOK, DeleteBatch

LEMMA NextTypeOK == TypeOK /\ [Next]_vars => TypeOK'
<1> SUFFICES ASSUME TypeOK, [Next]_vars PROVE TypeOK'
  OBVIOUS
<1>1. CASE \E t \in Tables : RowStored(t)
  BY <1>1, RowStoredType
<1>2. CASE \E r \in Resets : ResetBegins(r)
  BY <1>2, ResetBeginsType
<1>3. CASE \E r \in Resets : ReadPage(r)
  BY <1>3, ReadPageEffect
<1>4. CASE \E r \in Resets : ResetRestarts(r)
  BY <1>4, ResetRestartsType
<1>5. CASE \E j \in jobs : DeleteBatch(j)
  BY <1>5, DeleteBatchType
<1>6. CASE \E j \in jobs : NameForgotten(j)
  BY <1>6 DEF TypeOK, NameForgotten
<1>7. CASE UNCHANGED vars
  BY <1>7 DEF TypeOK, vars
<1> QED
  BY <1>1, <1>2, <1>3, <1>4, <1>5, <1>6, <1>7 DEF Next

\* Every variable keeps its type (jobs/workspaceReset.js, lib/queue.js).
THEOREM TypeCorrect == Spec => []TypeOK
BY InitTypeOK, NextTypeOK, PTL DEF Spec

-----------------------------------------------------------------------------
(* Only old rows go.  What a job deletes was decided when its page was     *)
(* read; the invariant says that it is old all the time until it is done.  *)

JobsOld == \A j \in jobs : j.ids \subseteq Old(j.table)

Inv == TypeOK /\ JobsOld

\* Windows stay as they are, so what is old remains so.
LEMMA OldStays ==
    ASSUME TypeOK, NEW t \in Tables,
           \A q \in Resets : Begun(q) => Begun(q)' /\ reset'[q].to = reset[q].to
    PROVE  Old(t) \subseteq Old(t)'
BY DEF Old

LEMMA WindowsStay ==
    ASSUME TypeOK, [Next]_vars
    PROVE  \A q \in Resets : Begun(q) => Begun(q)' /\ reset'[q].to = reset[q].to
<1>1. CASE \E t \in Tables : RowStored(t)
  BY <1>1 DEF RowStored, Begun
<1>2. CASE \E r \in Resets : ResetBegins(r)
  BY <1>2 DEF ResetBegins, Begun, TypeOK
<1>3. CASE \E r \in Resets : ReadPage(r)
  BY <1>3, ReadPageEffect DEF Begun
<1>4. ASSUME NEW r \in Resets, ResetRestarts(r)
      PROVE  \A q \in Resets : Begun(q) => Begun(q)' /\ reset'[q].to = reset[q].to
  <2>1. reset' = [reset EXCEPT ![r] = At(r, "blocks")]
    BY <1>4 DEF ResetRestarts
  <2>2. At(r, "blocks").pc # "idle" /\ At(r, "blocks").to = reset[r].to
    BY AtType
  <2> QED
    BY <2>1, <2>2 DEF Begun, TypeOK
<1>5. CASE \E j \in jobs : DeleteBatch(j) \/ NameForgotten(j)
  BY <1>5 DEF DeleteBatch, NameForgotten, Begun
<1>6. CASE UNCHANGED vars
  BY <1>6 DEF vars, Begun
<1> QED
  BY <1>1, <1>2, <1>3, <1>4, <1>5, <1>6 DEF Next

LEMMA NextInv == Inv /\ [Next]_vars => Inv'
<1> SUFFICES ASSUME TypeOK, JobsOld, [Next]_vars PROVE Inv'
  BY DEF Inv
<1>1. TypeOK'
  BY NextTypeOK
<1>2. \A t \in Tables : Old(t) \subseteq Old(t)'
  BY WindowsStay, OldStays
<1>3. \A j \in jobs : j.table \in Tables /\ j.ids \subseteq Old(j.table)'
  BY <1>2 DEF JobsOld, TypeOK
<1>4. CASE \E r \in Resets : ReadPage(r)
  <2>1. PICK r \in Resets : ReadPage(r)
    BY <1>4
  <2>2. InWindow(Nat, reset[r].to[reset[r].pc]) \subseteq Old(reset[r].pc)
    BY <2>1, ReadPageEffect DEF InWindow, Old, Begun, Tables
  <2>3. \A j \in jobs' \ jobs : j.ids \subseteq Old(j.table)'
    BY <2>1, <2>2, <1>2, ReadPageEffect
  <2> QED
    BY <1>1, <1>3, <2>3 DEF Inv, JobsOld
<1>5. CASE \E j \in jobs : DeleteBatch(j)
  <2>1. PICK j \in jobs : DeleteBatch(j)
    BY <1>5
  <2>2. \A k \in jobs' : \E m \in jobs : k.ids = m.ids /\ k.table = m.table
    BY <2>1 DEF DeleteBatch, TypeOK
  <2> QED
    BY <1>1, <1>3, <2>2 DEF Inv, JobsOld
<1>6. CASE \E j \in jobs : NameForgotten(j)
  BY <1>1, <1>3, <1>6 DEF NameForgotten, Inv, JobsOld
<1>7. CASE UNCHANGED jobs
  BY <1>1, <1>3, <1>7 DEF Inv, JobsOld
<1> QED
  BY <1>4, <1>5, <1>6, <1>7 DEF Next, RowStored, ResetBegins, ResetRestarts, vars

LEMMA StepDeletesOld ==
    ASSUME TypeOK, JobsOld, [Next]_vars, NEW t \in Tables
    PROVE  rows[t] \ rows'[t] \subseteq Old(t)
<1>1. CASE \E u \in Tables : RowStored(u)
  BY <1>1 DEF RowStored, TypeOK
<1>2. ASSUME NEW j \in jobs, DeleteBatch(j)
      PROVE  rows[t] \ rows'[t] \subseteq Old(t)
  <2>1. rows[t] \ rows'[t] \subseteq (IF t = j.table THEN j.ids ELSE {})
    BY <1>2 DEF DeleteBatch, TypeOK
  <2> QED
    BY <2>1 DEF JobsOld
<1>3. CASE UNCHANGED rows
  BY <1>3
<1> QED
  BY <1>1, <1>2, <1>3 DEF Next, ResetBegins, ReadPage, ResetRestarts, NameForgotten, vars

\* A row outside the windows of all resets is never deleted by them
\* (jobs/workspaceReset.js:75-80).
THEOREM DeletesOnlyOld == Spec => OnlyOldGo
<1>1. Init => Inv
  BY InitTypeOK DEF Init, Inv, JobsOld
<1>2. Inv /\ [Next]_vars => [\A t \in Tables : rows[t] \ rows'[t] \subseteq Old(t)]_vars
  BY StepDeletesOld DEF Inv
<1> QED
  BY <1>1, <1>2, NextInv, PTL DEF Spec, OnlyOldGo

-----------------------------------------------------------------------------
(* What pages and chunks hold.                                             *)

LEMMA Least ==
    ASSUME NEW S \in SUBSET Nat, S # {}
    PROVE  \E m \in S : \A k \in S : m <= k
<1>1. PICK m \in S : \A k \in S : ~ (<<k, m>> \in OpToRel(<, Nat))
  BY WFMin, NatLessThanWellFounded
<1>2. ASSUME NEW k \in S PROVE m <= k
  <2>1. k \in Nat /\ m \in Nat
    OBVIOUS
  <2>2. ~ (k < m)
    BY <1>1, <2>1 DEF OpToRel
  <2> QED
    BY <2>1, <2>2
<1> QED
  BY <1>2

\* A page that is not full holds all that was left.
LEMMA ShortPageIsAll ==
    ASSUME NEW ids \in SUBSET Nat, IsFiniteSet(ids), NEW n \in Nat,
           Cardinality(First(n, ids)) < n
    PROVE  First(n, ids) = ids
<1>1. First(n, ids) \subseteq ids
  BY DEF First
<1>2. ASSUME NEW S, S = ids \ First(n, ids), S # {} PROVE FALSE
  <2>1. PICK m \in S : \A k \in S : m <= k
    BY <1>2, Least
  <2> DEFINE below == {k \in ids : k <= m}
  <2>2. ASSUME NEW k \in below PROVE k \in First(n, ids) \cup {m}
    <3>1. k \in Nat /\ m \in Nat /\ k <= m
      BY <1>2
    <3>2. k \in S => k = m
      BY <2>1, <3>1
    <3> QED
      BY <1>2, <3>2
  <2>3. /\ IsFiniteSet(First(n, ids))
        /\ Cardinality(First(n, ids)) \in Nat
    BY <1>1, FS_Subset, FS_CardinalityType
  <2>4. /\ IsFiniteSet(First(n, ids) \cup {m})
        /\ Cardinality(First(n, ids) \cup {m}) <= Cardinality(First(n, ids)) + 1
    BY <2>3, FS_AddElement
  <2>5. /\ Cardinality(below) <= Cardinality(First(n, ids) \cup {m})
        /\ Cardinality(below) \in Nat
        /\ Cardinality(First(n, ids) \cup {m}) \in Nat
    BY <2>2, <2>4, FS_Subset, FS_CardinalityType
  <2>6. Cardinality(below) <= n
    BY <2>3, <2>4, <2>5
  <2>7. m \in First(n, ids)
    BY <1>2, <2>6 DEF First
  <2> QED
    BY <1>2, <2>7
<1> QED
  BY <1>1, <1>2

\* With an id, a page holds every id before it.
LEMMA PageIsPrefix ==
    ASSUME NEW ids \in SUBSET Nat, IsFiniteSet(ids), NEW n \in Nat,
           NEW last \in First(n, ids), NEW i \in ids, i <= last
    PROVE  i \in First(n, ids)
<1> DEFINE upTo(k) == {m \in ids : m <= k}
<1>1. upTo(i) \subseteq upTo(last) /\ upTo(last) \subseteq ids
  <2>1. last \in Nat /\ i \in Nat
    BY DEF First
  <2>2. \A m \in ids : m <= i => m <= last
    BY <2>1
  <2> QED
    BY <2>2
<1>2. IsFiniteSet(upTo(last)) /\ IsFiniteSet(upTo(i))
  BY <1>1, FS_Subset
<1>3. Cardinality(upTo(i)) <= Cardinality(upTo(last))
  BY <1>1, <1>2, FS_Subset
<1>4. Cardinality(upTo(i)) \in Nat /\ Cardinality(upTo(last)) \in Nat
  BY <1>2, FS_CardinalityType
<1>5. Cardinality(upTo(last)) <= n
  BY DEF First
<1> QED
  BY <1>3, <1>4, <1>5 DEF First

LEMMA StartOfChunk ==
    ASSUME ChunkSize \in Nat, ChunkSize > 0, NEW rank \in Nat
    PROVE  LET start == rank - (rank % ChunkSize)
           IN /\ start \in 0..rank /\ rank < start + ChunkSize
              /\ start % ChunkSize = 0
<1>1. rank % ChunkSize \in 0..(ChunkSize - 1)
  OBVIOUS
<1>2. rank % ChunkSize <= rank
  OBVIOUS
<1>3. (rank - (rank % ChunkSize)) % ChunkSize = 0
  OBVIOUS
<1>4. ASSUME NEW m \in 0..(ChunkSize - 1), m <= rank
      PROVE  rank - m \in 0..rank /\ rank < (rank - m) + ChunkSize
  BY <1>4
<1> QED
  BY <1>1, <1>2, <1>3, <1>4

\* Every id of a page is in one of its chunks.
LEMMA ChunksCover ==
    ASSUME ChunkSize \in Nat, ChunkSize > 0,
           NEW ids \in SUBSET Nat, IsFiniteSet(ids), NEW i \in ids
    PROVE  \E start \in {k \in 0..Cardinality(ids) : k % ChunkSize = 0 /\ k < Cardinality(ids)} :
              i \in Chunk(ids, start)
<1> DEFINE before == {k \in ids : k < i}
           rank == Cardinality(before)
           start == rank - (rank % ChunkSize)
<1>1. /\ IsFiniteSet(ids \ {i}) /\ Cardinality(ids \ {i}) = Cardinality(ids) - 1
      /\ Cardinality(ids) \in Nat
  BY FS_RemoveElement, FS_CardinalityType
<1>2. before \subseteq ids \ {i}
  OBVIOUS
<1>3. rank \in Nat /\ rank <= Cardinality(ids) - 1
  BY <1>1, <1>2, FS_Subset, FS_CardinalityType
<1> HIDE DEF rank
<1>4. start \in 0..rank /\ rank < start + ChunkSize /\ start % ChunkSize = 0
  BY <1>3, StartOfChunk
<1> HIDE DEF start
<1>5. start \in {k \in 0..Cardinality(ids) : k % ChunkSize = 0 /\ k < Cardinality(ids)}
  <2>1. start \in 0..Cardinality(ids) /\ start < Cardinality(ids)
    BY <1>1, <1>3, <1>4
  <2> QED
    BY <1>4, <2>1
<1>6. i \in Chunk(ids, start)
  BY <1>4 DEF Chunk, rank
<1> QED
  BY <1>5, <1>6

-----------------------------------------------------------------------------
(* No block is left behind.  The invariant says besides that the walk is   *)
(* ahead of the names it has given, so that none of them is taken, and     *)
(* that a row that is stored now is in no window.                          *)

WindowsBehind == \A r \in Resets : reset[r].to["blocks"] <= newest["blocks"]

IdsFromOne == 0 \notin rows["blocks"]

NamesBehind ==
    restarts = 0 =>
       \A r \in Resets :
          /\ reset[r].pc = "idle" => reset[r].offset = 0
          /\ reset[r].pc \in {"idle", "blocks"} =>
                \A j \in jobs : j.table = "blocks" /\ j.reset = r => j.start < reset[r].offset

AskedInv == WindowsBehind /\ IdsFromOne /\ NamesBehind /\ PassedBlocksAreAsked

\* What is asked for stays so while jobs are only added, or end.
LEMMA RowStoredKeepsAsked ==
    ASSUME TypeOK, AskedInv, NEW t \in Tables, RowStored(t)
    PROVE  AskedInv'
<1>1. UNCHANGED <<reset, jobs, restarts>> /\ newest' = [newest EXCEPT ![t] = @ + 1]
  BY DEF RowStored
<1>2. newest["blocks"] \in Nat /\ \A r \in Resets : reset[r].to["blocks"] \in Nat
  BY DEF TypeOK, Tables
<1>3. newest'["blocks"] \in {newest["blocks"], newest["blocks"] + 1}
  BY <1>1 DEF TypeOK, Tables
<1>4. rows'["blocks"] \subseteq rows["blocks"] \cup {newest["blocks"] + 1}
  BY <1>1 DEF RowStored, TypeOK, Tables
<1>5. WindowsBehind'
  BY <1>1, <1>2, <1>3 DEF AskedInv, WindowsBehind
<1>6. IdsFromOne'
  BY <1>2, <1>4 DEF AskedInv, IdsFromOne
<1>7. NamesBehind'
  BY <1>1 DEF AskedInv, NamesBehind
<1>8. PassedBlocksAreAsked'
  <2> SUFFICES ASSUME restarts = 0, NEW r \in Resets, NEW i \in rows'["blocks"] \cap Passed(r)
               PROVE  Asked(i)
    BY <1>1 DEF PassedBlocksAreAsked, Passed, Asked
  <2>1. i # newest["blocks"] + 1
    BY <1>2 DEF AskedInv, WindowsBehind, Passed
  <2> QED
    BY <1>4, <2>1 DEF AskedInv, PassedBlocksAreAsked
<1> QED
  BY <1>5, <1>6, <1>7, <1>8 DEF AskedInv

LEMMA ResetBeginsKeepsAsked ==
    ASSUME TypeOK, AskedInv, NEW r \in Resets, ResetBegins(r)
    PROVE  AskedInv'
<1>1. UNCHANGED <<rows, newest, jobs, restarts>> /\ reset[r].pc = "idle"
  BY DEF ResetBegins
<1>2. PICK to \in [Tables -> 0..(MaxBlock + MaxContract)] :
         /\ \A t \in Tables : to[t] <= newest[t]
         /\ reset' = [reset EXCEPT ![r] = [At(r, "blocks") EXCEPT !.to = to]]
  BY DEF ResetBegins
<1> DEFINE new == [At(r, "blocks") EXCEPT !.to = to]
<1>3. new.pc = "blocks" /\ new.to = to /\ new.lastId = 0 /\ new.offset = 0
  BY DEF At, TypeOK
<1>4. reset'[r] = new /\ \A q \in Resets : q # r => reset'[q] = reset[q]
  BY <1>2 DEF TypeOK
<1> HIDE DEF new
<1>5. WindowsBehind'
  BY <1>1, <1>2, <1>3, <1>4 DEF AskedInv, WindowsBehind, Tables
<1>6. NamesBehind'
  BY <1>1, <1>3, <1>4 DEF AskedInv, NamesBehind
<1>7. PassedBlocksAreAsked'
  <2> SUFFICES ASSUME restarts = 0, NEW q \in Resets, NEW i \in rows["blocks"], i \in Passed(q)'
               PROVE  Asked(i)
    BY <1>1 DEF PassedBlocksAreAsked, Asked
  <2>1. CASE q = r
    <3>1. i \in Nat /\ i <= 0
      BY <1>3, <1>4, <2>1 DEF Passed
    <3> QED
      BY <3>1 DEF AskedInv, IdsFromOne
  <2>2. CASE q # r
    BY <1>4, <2>2 DEF AskedInv, PassedBlocksAreAsked, Passed
  <2> QED
    BY <2>1, <2>2
<1>8. IdsFromOne'
  BY <1>1 DEF AskedInv, IdsFromOne
<1> QED
  BY <1>5, <1>6, <1>7, <1>8 DEF AskedInv

\* The jobs for a page: their names are new, and they ask for all of its window.
LEMMA PageIsAsked ==
    ASSUME ChunkSize \in Nat, ChunkSize > 0, TypeOK, NamesBehind, restarts = 0,
           NEW r \in Resets, reset[r].pc = "blocks",
           NEW ids \in SUBSET Nat, IsFiniteSet(ids), EnqueueDeletes(r, ids)
    PROVE  /\ jobs \subseteq jobs'
           /\ \A i \in ids : Asked(i)'
           /\ \A j \in jobs' \ jobs : /\ j.table = "blocks" /\ j.reset = r
                                      /\ j.start < reset[r].offset + Cardinality(ids)
<1> DEFINE starts == {k \in 0..Cardinality(ids) : k % ChunkSize = 0 /\ k < Cardinality(ids)}
           job(start) == Job("blocks", r, reset[r].offset + start, Chunk(ids, start))
<1>1. NewJobs(r, ids) = {job(start) : start \in starts}
  BY DEF NewJobs
<1>2. reset[r].offset \in Nat /\ Cardinality(ids) \in Nat
  BY FS_CardinalityType DEF TypeOK
<1>3. \A start : /\ job(start).table = "blocks" /\ job(start).reset = r
                 /\ job(start).start = reset[r].offset + start
                 /\ job(start).status = "waiting" /\ job(start).ids = Chunk(ids, start)
  BY DEF Job, Owner
<1> HIDE DEF job
<1>4. \A start \in starts : start \in Nat /\ start < Cardinality(ids)
  BY <1>2
<1>5. \A start \in starts : ~ \E k \in jobs : SameName(job(start), k)
  <2> SUFFICES ASSUME NEW start \in starts, NEW k \in jobs, SameName(job(start), k)
               PROVE  FALSE
    OBVIOUS
  <2>1. k.table = "blocks" /\ k.reset = r /\ k.start = reset[r].offset + start
    BY <1>3 DEF SameName
  <2>2. k.start < reset[r].offset
    BY <2>1 DEF NamesBehind
  <2> QED
    BY <1>2, <1>4, <2>1, <2>2
<1>6. jobs' = jobs \cup {job(start) : start \in starts}
  BY <1>1, <1>5 DEF EnqueueDeletes
<1>7. \A i \in ids : Asked(i)'
  <2> SUFFICES ASSUME NEW i \in ids PROVE Asked(i)'
    OBVIOUS
  <2>1. PICK start \in starts : i \in Chunk(ids, start)
    BY ChunksCover
  <2> QED
    BY <1>3, <1>6, <2>1 DEF Asked
<1>8. ASSUME NEW j \in jobs' \ jobs
      PROVE  /\ j.table = "blocks" /\ j.reset = r
             /\ j.start < reset[r].offset + Cardinality(ids)
  <2>1. PICK start \in starts : j = job(start)
    BY <1>6
  <2> QED
    BY <1>2, <1>3, <1>4, <2>1
<1> QED
  BY <1>6, <1>7, <1>8

\* A page of blocks: what the walk comes past is asked for, or is gone.
LEMMA ReadBlocksKeepsAsked ==
    ASSUME PageSize \in Nat, ChunkSize \in Nat, ChunkSize > 0, TypeOK, AskedInv, restarts = 0,
           NEW r \in Resets, reset[r].pc = "blocks", ReadPage(r)
    PROVE  NamesBehind' /\ PassedBlocksAreAsked'
<1> DEFINE s == reset[r]
           left == Behind(rows["blocks"], s.lastId)
           page == First(PageSize, left)
           ids == InWindow(page, s.to["blocks"])
<1>1. /\ s.lastId \in Nat /\ s.offset \in Nat /\ s.to["blocks"] \in Nat
      /\ rows["blocks"] \in SUBSET Nat /\ IsFiniteSet(rows["blocks"])
  BY DEF TypeOK, Tables
<1>2. left \in SUBSET Nat /\ IsFiniteSet(left) /\ page \subseteq left
  <2>1. left \subseteq rows["blocks"]
    BY DEF Behind
  <2>2. page \subseteq left
    BY DEF First
  <2> QED
    BY <1>1, <2>1, <2>2, FS_Subset
<1>3. ids \in SUBSET Nat /\ IsFiniteSet(ids) /\ Cardinality(ids) \in Nat
  <2>1. ids \subseteq left
    BY <1>2 DEF InWindow
  <2> QED
    BY <1>2, <2>1, FS_Subset, FS_CardinalityType
<1>4. EnqueueDeletes(r, ids) /\ UNCHANGED <<rows, newest, restarts>>
  BY DEF ReadPage
<1>5. /\ \/ /\ Cardinality(page) < PageSize
            /\ reset' = [reset EXCEPT ![r] = At(r, "contracts")]
         \/ \E last \in page :
               /\ \A i \in page : i <= last
               /\ reset' = [reset EXCEPT ![r].lastId = last,
                                         ![r].offset = @ + Cardinality(ids)]
  BY DEF ReadPage, NextTable
<1>6. /\ jobs \subseteq jobs'
      /\ \A i \in ids : Asked(i)'
      /\ \A j \in jobs' \ jobs : /\ j.table = "blocks" /\ j.reset = r
                                 /\ j.start < s.offset + Cardinality(ids)
  BY <1>3, <1>4, PageIsAsked DEF AskedInv
<1>7. \A i : Asked(i) => Asked(i)'
  BY <1>6 DEF Asked
<1>8. \A i \in rows["blocks"] : i <= s.to["blocks"] /\ i <= s.lastId => Asked(i)
  BY <1>1 DEF AskedInv, PassedBlocksAreAsked, Passed
<1>9. \A i \in rows["blocks"] : i \in left \/ i <= s.lastId
  BY <1>1 DEF Behind
<1>10. \A i \in page : i <= s.to["blocks"] => i \in ids
  BY DEF InWindow
<1> HIDE DEF left, page, ids
<1>11. \A j \in jobs : j.table = "blocks" /\ j.reset = r => j.start \in Nat /\ j.start < s.offset
  BY DEF AskedInv, NamesBehind, TypeOK
<1>12. ASSUME \A q \in Resets : q # r => reset'[q] = reset[q],
              \/ reset'[r].pc \notin {"idle", "blocks"}
              \/ reset'[r].pc = "blocks" /\ reset'[r].offset = s.offset + Cardinality(ids)
       PROVE  NamesBehind'
  <2>1. ASSUME NEW q \in Resets, q # r, reset'[q].pc \in {"idle", "blocks"}, NEW j \in jobs',
               j.table = "blocks", j.reset = q
        PROVE  j.start < reset'[q].offset
    <3>1. j \in jobs
      BY <1>6, <2>1
    <3> QED
      BY <1>12, <2>1, <3>1 DEF AskedInv, NamesBehind
  <2>2. ASSUME reset'[r].pc \in {"idle", "blocks"}, NEW j \in jobs', j.table = "blocks", j.reset = r
        PROVE  j.start < reset'[r].offset
    BY <1>1, <1>3, <1>6, <1>11, <1>12, <2>2
  <2>3. \A q \in Resets : reset'[q].pc = "idle" => reset'[q].offset = 0
    BY <1>12 DEF AskedInv, NamesBehind
  <2> QED
    BY <2>1, <2>2, <2>3 DEF NamesBehind
<1>13. ASSUME \A q \in Resets : q # r => reset'[q] = reset[q],
              \A i \in rows["blocks"] : i \in Passed(r)' => Asked(i)'
       PROVE  PassedBlocksAreAsked'
  <2> SUFFICES ASSUME NEW q \in Resets, NEW i \in rows["blocks"], i \in Passed(q)'
               PROVE  Asked(i)'
    BY <1>4 DEF PassedBlocksAreAsked
  <2>1. CASE q = r
    BY <1>13, <2>1
  <2>2. CASE q # r
    BY <1>7, <1>13, <2>2 DEF AskedInv, PassedBlocksAreAsked, Passed
  <2> QED
    BY <2>1, <2>2
<1>14. CASE /\ Cardinality(page) < PageSize
            /\ reset' = [reset EXCEPT ![r] = At(r, "contracts")]
  <2>1. page = left
    BY <1>2, <1>14, ShortPageIsAll DEF page
  <2>2. At(r, "contracts").pc = "contracts" /\ At(r, "contracts").to = s.to
    BY AtType
  <2>3. /\ \A q \in Resets : q # r => reset'[q] = reset[q]
        /\ reset'[r] = At(r, "contracts")
    BY <1>14 DEF TypeOK
  <2>4. ASSUME NEW i \in rows["blocks"], i \in Passed(r)' PROVE Asked(i)'
    <3>1. i <= s.to["blocks"]
      BY <2>2, <2>3, <2>4 DEF Passed
    <3> QED
      BY <1>6, <1>7, <1>8, <1>9, <1>10, <2>1, <3>1
  <2> QED
    BY <1>12, <1>13, <2>2, <2>3, <2>4
<1>15. ASSUME NEW last \in page, \A i \in page : i <= last,
              reset' = [reset EXCEPT ![r].lastId = last, ![r].offset = @ + Cardinality(ids)]
       PROVE  NamesBehind' /\ PassedBlocksAreAsked'
  <2>1. /\ \A q \in Resets : q # r => reset'[q] = reset[q]
        /\ reset'[r].pc = "blocks" /\ reset'[r].to = s.to
        /\ reset'[r].lastId = last /\ reset'[r].offset = s.offset + Cardinality(ids)
    BY <1>15 DEF TypeOK
  <2>2. ASSUME NEW i \in rows["blocks"], i \in Passed(r)' PROVE Asked(i)'
    <3>1. i <= s.to["blocks"] /\ i <= last
      BY <2>1, <2>2 DEF Passed
    <3>2. CASE i \in left
      <4>1. i \in page
        BY <1>2, <1>15, <3>1, <3>2, PageIsPrefix DEF page
      <4> QED
        BY <1>6, <1>10, <3>1, <4>1
    <3> QED
      BY <1>7, <1>8, <1>9, <3>1, <3>2
  <2> QED
    BY <1>12, <1>13, <2>1, <2>2
<1> QED
  BY <1>5, <1>14, <1>15 DEF page

\* A page of contracts has nothing to do with blocks.
LEMMA ReadContractsKeepsAsked ==
    ASSUME TypeOK, AskedInv, NEW r \in Resets, reset[r].pc = "contracts", ReadPage(r)
    PROVE  NamesBehind' /\ PassedBlocksAreAsked'
<1>1. /\ UNCHANGED <<rows, restarts>> /\ jobs \subseteq jobs'
      /\ \A j \in jobs' \ jobs : j.table = "contracts"
  BY ReadPageEffect DEF ReadPage, EnqueueDeletes
<1>2. /\ \A q \in Resets : q # r => reset'[q] = reset[q]
      /\ reset'[r].pc \in {"contracts", "ended"} /\ reset'[r].to = reset[r].to
  <2>1. CASE reset' = [reset EXCEPT ![r] = At(r, "ended")]
    BY <2>1, AtType DEF TypeOK
  <2>2. CASE \E last, offset : reset' = [reset EXCEPT ![r].lastId = last, ![r].offset = offset]
    BY <2>2 DEF TypeOK
  <2> QED
    BY <2>1, <2>2 DEF ReadPage, NextTable
<1>3. NamesBehind'
  BY <1>1, <1>2 DEF AskedInv, NamesBehind
<1>4. \A i : Asked(i) => Asked(i)'
  BY <1>1 DEF Asked
<1>5. \A q \in Resets : Passed(q)' \subseteq Passed(q)
  BY <1>2 DEF Passed
<1> QED
  BY <1>1, <1>3, <1>4, <1>5 DEF AskedInv, PassedBlocksAreAsked

\* A block goes, or the job that will delete it is another one.
LEMMA DeletionKeepsAsked ==
    ASSUME TypeOK, AskedInv, NEW j \in jobs, DeleteBatch(j) \/ NameForgotten(j)
    PROVE  AskedInv'
<1>1. UNCHANGED <<newest, reset, restarts>>
  BY DEF DeleteBatch, NameForgotten
<1>2. rows'["blocks"] \subseteq rows["blocks"]
  BY DEF DeleteBatch, NameForgotten, TypeOK, Tables
<1>3. ASSUME NEW k \in jobs'
      PROVE  \E m \in jobs : k.table = m.table /\ k.reset = m.reset /\ k.start = m.start
  BY <1>3 DEF DeleteBatch, NameForgotten, TypeOK
<1>4. NamesBehind'
  <2> SUFFICES ASSUME restarts = 0, NEW r \in Resets
               PROVE  /\ reset[r].pc = "idle" => reset[r].offset = 0
                      /\ reset[r].pc \in {"idle", "blocks"} =>
                            \A k \in jobs' : k.table = "blocks" /\ k.reset = r
                                                => k.start < reset[r].offset
    BY <1>1 DEF NamesBehind
  <2> QED
    BY <1>3 DEF AskedInv, NamesBehind
<1>5. ASSUME NEW i \in rows'["blocks"], Asked(i) PROVE Asked(i)'
  <2>1. PICK k \in jobs : k.table = "blocks" /\ k.status = "waiting" /\ i \in k.ids
    BY <1>5 DEF Asked
  <2>2. k # j
    BY <1>5, <2>1 DEF DeleteBatch, NameForgotten, TypeOK, Tables
  <2>3. k \in jobs'
    BY <2>2 DEF DeleteBatch, NameForgotten
  <2> QED
    BY <2>1, <2>3 DEF Asked
<1>6. PassedBlocksAreAsked'
  BY <1>1, <1>2, <1>5 DEF AskedInv, PassedBlocksAreAsked, Passed
<1> QED
  BY <1>1, <1>2, <1>4, <1>6 DEF AskedInv, WindowsBehind, IdsFromOne

LEMMA NextAskedInv ==
    ASSUME PageSize \in Nat, ChunkSize \in Nat, ChunkSize > 0, TypeOK, AskedInv, [Next]_vars
    PROVE  AskedInv'
<1>1. ASSUME NEW r \in Resets, ReadPage(r) PROVE AskedInv'
  <2>1. WindowsBehind'
    BY <1>1, ReadPageEffect DEF ReadPage, AskedInv, WindowsBehind
  <2>2. IdsFromOne'
    BY <1>1 DEF ReadPage, AskedInv, IdsFromOne
  <2>3. reset[r].pc \in {"blocks", "contracts"} /\ restarts' = restarts
    BY <1>1 DEF ReadPage, Tables
  <2>4. CASE restarts # 0
    BY <2>1, <2>2, <2>3, <2>4 DEF AskedInv, NamesBehind, PassedBlocksAreAsked
  <2>5. CASE restarts = 0
    BY <1>1, <2>1, <2>2, <2>3, <2>5, ReadBlocksKeepsAsked, ReadContractsKeepsAsked DEF AskedInv
  <2> QED
    BY <2>4, <2>5
<1>2. ASSUME NEW r \in Resets, ResetRestarts(r) PROVE AskedInv'
  <2>1. restarts' # 0
    BY <1>2 DEF ResetRestarts, TypeOK
  <2>2. \A q \in Resets : reset'[q].to = reset[q].to
    BY <1>2, AtType DEF ResetRestarts, TypeOK
  <2> QED
    BY <1>2, <2>1, <2>2 DEF ResetRestarts, AskedInv, WindowsBehind, IdsFromOne, NamesBehind,
                            PassedBlocksAreAsked
<1>3. CASE UNCHANGED vars
  BY <1>3 DEF vars, AskedInv, WindowsBehind, IdsFromOne, NamesBehind, PassedBlocksAreAsked,
              Passed, Asked
<1> QED
  BY <1>1, <1>2, <1>3, RowStoredKeepsAsked, ResetBeginsKeepsAsked, DeletionKeepsAsked DEF Next

\* While no reset starts again, no block of a window that its walk has come past
\* is without a job that will delete it, whatever the sizes of pages and chunks
\* (jobs/workspaceReset.js:24-37, 61-89).
THEOREM NoBlockLeftBehind ==
    ASSUME PageSize \in Nat, ChunkSize \in Nat, ChunkSize > 0
    PROVE  Spec => []PassedBlocksAreAsked
<1>1. Init => AskedInv
  <2> SUFFICES ASSUME Init PROVE AskedInv
    OBVIOUS
  <2>1. newest["blocks"] \in Nat /\ rows["blocks"] = 1..newest["blocks"]
    BY DEF Init, Tables
  <2>2. \A r \in Resets : /\ reset[r].pc = "idle" /\ reset[r].offset = 0
                          /\ reset[r].to["blocks"] = 0
    BY DEF Init, Tables
  <2>3. jobs = {}
    BY DEF Init
  <2> QED
    BY <2>1, <2>2, <2>3 DEF AskedInv, WindowsBehind, IdsFromOne, NamesBehind,
                            PassedBlocksAreAsked, Passed
<1>2. TypeOK /\ AskedInv /\ [Next]_vars => AskedInv'
  BY NextAskedInv
<1>3. AskedInv => PassedBlocksAreAsked
  BY DEF AskedInv
<1> QED
  BY <1>1, <1>2, <1>3, TypeCorrect, PTL DEF Spec
=============================================================================
