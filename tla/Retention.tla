----------------------------- MODULE Retention -----------------------------
(***************************************************************************)
(* How old blocks and contracts of one workspace go: jobs/workspaceReset.js*)
(* walks the rows of a table in pages ordered by id and enqueues jobs that *)
(* delete those of its window, chunk by chunk (jobs/batchBlockDelete.js,   *)
(* jobs/batchContractDelete.js), while such jobs already delete, new rows  *)
(* arrive and another reset of the workspace walks the same tables.        *)
(*                                                                         *)
(* A window reaches from the beginning to a moment that is not later than  *)
(* the request, so that it is given by the last row it contains.  The jobs *)
(* are named; a name that BullMQ still knows, of a job that waits or is    *)
(* one of the ten that ended last, swallows a new job.                     *)
(*                                                                         *)
(* Abstractions: what belongs to a block goes with it in the transaction   *)
(* that deletes it; both tables have chunks of the same size; rows deleted *)
(* by anybody else are left out, and so are the deposits, accounts and the *)
(* integrity check that a reset destroys besides (see BlockSync).  A job  *)
(* is attempted until it deletes: that it gives up after ten attempts, or  *)
(* that orbit_withdrawals.l1TransactionId refuses to let a transaction go, *)
(* is left out.                                                            *)
(***************************************************************************)
EXTENDS Naturals, FiniteSets

CONSTANTS
    Resets,        \* workspaceReset jobs of the workspace
    MaxBlock,      \* bound on ids of blocks
    MaxContract,   \* bound on ids of contracts
    PageSize,      \* WORKSPACE_RESET_PAGE_SIZE, 10000 in production
    ChunkSize,     \* MAX_BLOCK_FOR_SYNC_RESET and MAX_CONTRACT_FOR_RESET
    MaxRestarts    \* bound on resets that stall or throw, and start again

Any == "any"

VARIABLES
    rows,          \* ids of the rows of each table
    newest,        \* last id given in each table
    reset,         \* how far each reset is, and its window
    jobs,          \* deletion jobs that wait or whose name is still known
    restarts

vars == <<rows, newest, reset, jobs, restarts>>

Tables == {"blocks", "contracts"}
MaxId == [t \in Tables |-> IF t = "blocks" THEN MaxBlock ELSE MaxContract]

\* The name of a block job has the window in it, that of a contract job has not.
\* Faulty: it has the name of the table a second time.
OwnerTwiceTable(t, r) == t

Owner(t, r) == IF t = "blocks" THEN r ELSE Any

Init ==
    /\ newest \in {f \in [Tables -> 0..(MaxBlock + MaxContract)] :
                      \A t \in Tables : f[t] <= MaxId[t]}
    /\ rows = [t \in Tables |-> 1..newest[t]]
    /\ reset = [r \in Resets |-> [pc |-> "idle", to |-> [t \in Tables |-> 0],
                                  lastId |-> 0, offset |-> 0]]
    /\ jobs = {}
    /\ restarts = 0

RowStored(t) ==
    /\ newest[t] < MaxId[t]
    /\ newest' = [newest EXCEPT ![t] = @ + 1]
    /\ rows' = [rows EXCEPT ![t] = @ \cup {newest'[t]}]
    /\ UNCHANGED <<reset, jobs, restarts>>

-----------------------------------------------------------------------------
(* workspaceReset                                                          *)

At(r, table) == [reset[r] EXCEPT !.pc = table, !.lastId = 0, !.offset = 0]

\* By retention, up to some days ago, or, to have all of it gone, up to now.
ResetBegins(r) ==
    /\ reset[r].pc = "idle"
    /\ \E to \in {f \in [Tables -> 0..(MaxBlock + MaxContract)] :
                     \A t \in Tables : f[t] <= newest[t]} :
          reset' = [reset EXCEPT ![r] = [At(r, "blocks") EXCEPT !.to = to]]
    /\ UNCHANGED <<rows, newest, jobs, restarts>>

\* Faulty: an OFFSET in place of the last id.
BehindByOffset(ids, last) == {i \in ids : Cardinality({k \in ids : k <= i}) > last}

Behind(ids, last) == {i \in ids : i > last}

First(n, ids) == {i \in ids : Cardinality({k \in ids : k <= i}) <= n}

\* Faulty: whatever createdAt.
InWindowAnyDate(page, to) == page

InWindow(page, to) == {i \in page : i <= to}

\* ids.slice(start, start + ChunkSize)
Chunk(ids, start) ==
    {i \in ids : LET rank == Cardinality({k \in ids : k < i})
                 IN start <= rank /\ rank < start + ChunkSize}

Job(t, r, start, ids) ==
    [table |-> t, reset |-> Owner(t, r), start |-> start, ids |-> ids, status |-> "waiting"]

\* One job for each chunk of the ids of a page.
NewJobs(r, ids) ==
    {Job(reset[r].pc, r, reset[r].offset + start, Chunk(ids, start)) :
        start \in {k \in 0..Cardinality(ids) : k % ChunkSize = 0 /\ k < Cardinality(ids)}}

SameName(j, k) == j.table = k.table /\ j.reset = k.reset /\ j.start = k.start

\* bulkEnqueue
EnqueueDeletes(r, ids) ==
    jobs' = jobs \cup {j \in NewJobs(r, ids) : ~ \E k \in jobs : SameName(j, k)}

NextTable(t) == IF t = "blocks" THEN "contracts" ELSE "ended"

\* A page that is not full is the last one.
ReadPage(r) ==
    LET s == reset[r]
        page == First(PageSize, Behind(rows[s.pc], s.lastId))
        ids == InWindow(page, s.to[s.pc])
    IN /\ s.pc \in Tables
       /\ EnqueueDeletes(r, ids)
       /\ \/ /\ Cardinality(page) < PageSize
             /\ reset' = [reset EXCEPT ![r] = At(r, NextTable(s.pc))]
          \/ /\ Cardinality(page) = PageSize
             /\ \E last \in page :
                   /\ \A i \in page : i <= last
                   /\ reset' = [reset EXCEPT ![r].lastId = last,
                                             ![r].offset = @ + Cardinality(ids)]
       /\ UNCHANGED <<rows, newest, restarts>>

\* The worker dies or a query throws; the same job, with the same window, is
\* attempted from the beginning.
ResetRestarts(r) ==
    /\ reset[r].pc \in Tables
    /\ restarts < MaxRestarts
    /\ restarts' = restarts + 1
    /\ reset' = [reset EXCEPT ![r] = At(r, "blocks")]
    /\ UNCHANGED <<rows, newest, jobs>>

-----------------------------------------------------------------------------
(* The deletion jobs.                                                      *)

\* safeDestroyBlocks or safeDestroyContracts, of those that are still there
DeleteBatch(j) ==
    /\ j.status = "waiting"
    /\ rows' = [rows EXCEPT ![j.table] = @ \ j.ids]
    /\ jobs' = (jobs \ {j}) \cup {[j EXCEPT !.status = "ended"]}
    /\ UNCHANGED <<newest, reset, restarts>>

\* Ten other jobs of the queue, of this workspace or another, have ended since.
NameForgotten(j) ==
    /\ j.status = "ended"
    /\ jobs' = jobs \ {j}
    /\ UNCHANGED <<rows, newest, reset, restarts>>

-----------------------------------------------------------------------------
Next == \/ \E t \in Tables : RowStored(t)
        \/ \E r \in Resets : ResetBegins(r) \/ ReadPage(r) \/ ResetRestarts(r)
        \/ \E j \in jobs : DeleteBatch(j) \/ NameForgotten(j)

Spec == Init /\ [][Next]_vars

\* Workers take jobs.  Nobody promises that another job ends in a queue, so a
\* name may be known for ever.
Fairness ==
    /\ WF_vars(\E r \in Resets : ReadPage(r))
    /\ WF_vars(\E j \in jobs : DeleteBatch(j))

FairSpec == Spec /\ Fairness

-----------------------------------------------------------------------------
(* Properties.                                                             *)

TypeOK ==
    /\ rows \in [Tables -> SUBSET Nat]
    /\ \A t \in Tables : IsFiniteSet(rows[t])
    /\ newest \in [Tables -> Nat]
    /\ reset \in [Resets -> [pc : {"idle", "blocks", "contracts", "ended"},
                             to : [Tables -> Nat], lastId : Nat, offset : Nat]]
    /\ jobs \subseteq [table : Tables, reset : Resets \cup {Any}, start : Nat,
                      ids : SUBSET Nat, status : {"waiting", "ended"}]
    /\ restarts \in Nat

Begun(r) == reset[r].pc # "idle"
Old(t) == {i \in Nat : \E r \in Resets : Begun(r) /\ i <= reset[r].to[t]}

\* A row that is stored after the window of every reset is never deleted,
\* however pages, deletions, restarts and names that come again overlap
\* (jobs/workspaceReset.js:75-80).
OnlyOldGo == [][\A t \in Tables : rows[t] \ rows'[t] \subseteq Old(t)]_vars

\* Ids in the window of a reset that its walk through the blocks has come past.
Passed(r) ==
    {i \in Nat : /\ i <= reset[r].to["blocks"]
                 /\ \/ reset[r].pc \in {"contracts", "ended"}
                    \/ reset[r].pc = "blocks" /\ i <= reset[r].lastId}

Asked(i) == \E j \in jobs : j.table = "blocks" /\ j.status = "waiting" /\ i \in j.ids

\* A reset that did not start again leaves no block of its window behind without a
\* job that will delete it, however full its pages and its chunks are, whatever
\* is deleted or stored between two of them, and although names are taken
\* (jobs/workspaceReset.js:24-37, 61-89).
PassedBlocksAreAsked ==
    restarts = 0 => \A r \in Resets : \A i \in rows["blocks"] \cap Passed(r) : Asked(i)

OldLeft(t) == \E i \in rows[t] : \E r \in Resets : Begun(r) /\ i <= reset[r].to[t]

\* The blocks in the window of a reset go, although jobs of earlier pages and of
\* another reset delete while it walks the table, unless the reset has to start
\* again under names that are taken (jobs/workspaceReset.js:61-89).
BlocksOfWindowGo == [](restarts = 0) => (OldLeft("blocks") ~> ~OldLeft("blocks"))

\* The same of contracts ("Resets a workspace by scheduling deletion of its
\* blocks and contracts within a date range", jobs/workspaceReset.js:93-94).
ContractsOfWindowGo == [](restarts = 0) => (OldLeft("contracts") ~> ~OldLeft("contracts"))
=============================================================================
