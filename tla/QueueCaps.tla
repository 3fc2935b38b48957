----------------------------- MODULE QueueCaps -----------------------------
(***************************************************************************)
(* The cap on the waiting jobs of one low-tier workspace in one capped     *)
(* queue (lib/queue.js, lib/queueCaps.js, jobs/queueCapSweep.js).          *)
(*                                                                         *)
(* An enqueuer, which is a block job, a request or a hook, asks for the    *)
(* tier of the workspace, counts its waiting jobs and adds what still      *)
(* fits; the sweep counts, asks for the tier and trims what is too much.   *)
(* Each of these is a call to Redis or to the database, and the tier is    *)
(* cached in Redis for a minute: everything is acted upon later than it    *)
(* was read.                                                               *)
(*                                                                         *)
(* A job is its BullMQ id.  The count sees the ids that start with the     *)
(* name of the queue and the id of the workspace: Named.  It does not see  *)
(* the jobs of batchBlockSync, named after the user and the workspace, nor *)
(* those added without unique, whose id BullMQ makes up.                   *)
(*                                                                         *)
(* Abstractions: active, delayed and retained jobs are all "held", for     *)
(* none is counted and none can be added again; which jobs a slice keeps   *)
(* and a trim removes is left open; enqueue is bulkEnqueue of one job.     *)
(***************************************************************************)
EXTENDS Naturals, FiniteSets

CONSTANTS
    Enqueuers,     \* callers of enqueue and bulkEnqueue at work at once
    Jobs,          \* job ids of the workspace in this queue
    Named,         \* those that start with <queue>-<workspace id>-
    Cap,           \* lib/env.js queueCap*: 200 or 5000 in production
    Operations,    \* what may go wrong or around the cap in this instance
    MaxMishaps     \* bound on errors, failed jobs and direct writes

Sweep == "sweep"

ASSUME ConstantsAssumption ==
    /\ IsFiniteSet(Jobs)
    /\ Named \subseteq Jobs
    /\ Cap \in Nat
    /\ MaxMishaps \in Nat
    /\ Operations \subseteq {"tierChanges", "redisDown", "databaseDown", "jobFails", "direct"}
    /\ Sweep \notin Enqueuers

VARIABLES
    tier,      \* what evaluateTier would find in the database
    cache,     \* the tier kept in Redis, or "none"
    queue,     \* state of each job
    caller,    \* where each enqueuer and the sweep are, and the jobs in hand
    excess,    \* how many jobs the sweep is about to trim
    capped,    \* named jobs each enqueuer added below the cap, waiting ever since
    mishaps    \* how often something has gone wrong so far

vars == <<tier, cache, queue, caller, excess, capped, mishaps>>

Tiers == {"low", "normal"}
Callers == Enqueuers \cup {Sweep}
Pcs == {"idle", "miss", "storeLow", "storeNormal", "count", "add", "addUncapped", "trim"}

Waiting == {j \in Jobs : queue[j] = "waiting"}
Counted == Waiting \cap Named

\* countWaitingForWorkspace, and the entry of scanQueueByWorkspace.
Count == Cardinality(Counted)

Idle == [pc |-> "idle", batch |-> {}]
Goto(c, pc) == caller' = [caller EXCEPT ![c].pc = pc]

Mishap(kind) ==
    /\ kind \in Operations
    /\ mishaps < MaxMishaps
    /\ mishaps' = mishaps + 1

Init ==
    /\ tier \in Tiers
    /\ cache = "none"
    /\ queue = [j \in Jobs |-> "none"]
    /\ caller = [c \in Callers |-> Idle]
    /\ excess = 0
    /\ capped = [e \in Enqueuers |-> {}]
    /\ mishaps = 0

-----------------------------------------------------------------------------
(* isLowTierWorkspace, on behalf of an enqueuer or of the sweep.           *)

IfLow(c) == IF c = Sweep THEN "trim" ELSE "count"
IfNormal(c) == IF c = Sweep THEN "idle" ELSE "addUncapped"

\* What the caller does next when the cache says found.
AfterCache(c, found) ==
    CASE found = "low" -> IfLow(c)
      [] found = "normal" -> IfNormal(c)
      [] OTHER -> "miss"

\* An error of Redis answers FALSE: the workspace is taken for a normal one.
Lookup(c, batch) ==
    \/ /\ caller' = [caller EXCEPT ![c] = [pc |-> AfterCache(c, cache), batch |-> batch]]
       /\ UNCHANGED mishaps
    \/ /\ Mishap("redisDown")
       /\ caller' = [caller EXCEPT ![c] = [pc |-> IfNormal(c), batch |-> batch]]

\* A failed lookup is a normal tier, which is then cached like any other.
EvaluateTier(c) ==
    /\ caller[c].pc = "miss"
    /\ \/ /\ Goto(c, IF tier = "low" THEN "storeLow" ELSE "storeNormal")
          /\ UNCHANGED mishaps
       \/ /\ Mishap("databaseDown")
          /\ Goto(c, "storeNormal")
    /\ UNCHANGED <<tier, cache, queue, excess, capped>>

StoreTier(c) ==
    /\ caller[c].pc \in {"storeLow", "storeNormal"}
    /\ \/ /\ cache' = IF caller[c].pc = "storeLow" THEN "low" ELSE "normal"
          /\ UNCHANGED mishaps
       \/ Mishap("redisDown") /\ UNCHANGED cache
    /\ Goto(c, IF caller[c].pc = "storeLow" THEN IfLow(c) ELSE IfNormal(c))
    /\ UNCHANGED <<tier, queue, excess, capped>>

\* Faulty: the tier is stored without EX.
TierExpiresNever == FALSE /\ UNCHANGED vars

TierExpires ==
    /\ cache # "none"
    /\ cache' = "none"
    /\ UNCHANGED <<tier, queue, caller, excess, capped, mishaps>>

\* A subscription is made, ends, or changes its status.
TierChanges ==
    /\ "tierChanges" \in Operations
    /\ \E t \in Tiers \ {tier} : tier' = t
    /\ UNCHANGED <<cache, queue, caller, excess, capped, mishaps>>

-----------------------------------------------------------------------------
(* enqueue and bulkEnqueue.                                                *)

Enqueue(e) ==
    /\ caller[e].pc = "idle"
    /\ \E batch \in SUBSET Jobs : batch # {} /\ Lookup(e, batch)
    /\ UNCHANGED <<tier, cache, queue, excess, capped>>

\* Faulty: the count is left out of what remains.
RoomWhateverWaits(count) == Cap

Room(count) == IF count < Cap THEN Cap - count ELSE 0

AtMost(n, m) == IF n < m THEN n ELSE m

\* jobs.slice(0, remaining); nothing left means nothing to add.
Slice(e, room, next) ==
    \E accepted \in SUBSET caller[e].batch :
       /\ Cardinality(accepted) = AtMost(Cardinality(caller[e].batch), room)
       /\ caller' = [caller EXCEPT ![e] = IF accepted = {} THEN Idle
                                          ELSE [pc |-> next, batch |-> accepted]]

\* An error of Redis counts as 0 waiting jobs.
CountWaiting(e) ==
    /\ caller[e].pc = "count"
    /\ \/ Slice(e, Room(Count), "add") /\ UNCHANGED mishaps
       \/ Mishap("redisDown") /\ Slice(e, Room(0), "addUncapped")
    /\ UNCHANGED <<tier, cache, queue, excess, capped>>

\* BullMQ ignores a job whose id it still knows, and holds those with a delay.  An
\* error loses the batch.
Add(e) ==
    LET new == {j \in caller[e].batch : queue[j] = "none"}
    IN /\ caller[e].pc \in {"add", "addUncapped"}
       /\ \/ /\ queue' = [j \in Jobs |-> IF j \in new THEN "waiting" ELSE queue[j]]
             /\ capped' = IF caller[e].pc = "add"
                            THEN [capped EXCEPT ![e] = @ \cup (new \cap Named)]
                            ELSE capped
             /\ UNCHANGED mishaps
          \/ /\ queue' = [j \in Jobs |-> IF j \in new THEN "held" ELSE queue[j]]
             /\ UNCHANGED <<capped, mishaps>>
          \/ Mishap("redisDown") /\ UNCHANGED <<queue, capped>>
       /\ caller' = [caller EXCEPT ![e] = Idle]
       /\ UNCHANGED <<tier, cache, excess>>

-----------------------------------------------------------------------------
(* The workers of the queue, and ethernal-light, which writes to Redis.    *)

Leave(j) == capped' = [e \in Enqueuers |-> capped[e] \ {j}]

WorkerTakes(j) ==
    /\ queue[j] = "waiting"
    /\ queue' = [queue EXCEPT ![j] = "held"]
    /\ Leave(j)
    /\ UNCHANGED <<tier, cache, caller, excess, mishaps>>

\* The job has ended and its id is no longer retained.
JobForgotten(j) ==
    /\ queue[j] = "held"
    /\ queue' = [queue EXCEPT ![j] = "none"]
    /\ UNCHANGED <<tier, cache, caller, excess, capped, mishaps>>

\* A failed job comes back after its backoff, and a delayed one when it is due,
\* without being counted first.
JobFails(j) ==
    /\ queue[j] = "held"
    /\ Mishap("jobFails")
    /\ queue' = [queue EXCEPT ![j] = "waiting"]
    /\ UNCHANGED <<tier, cache, caller, excess, capped>>

DirectWrite(j) ==
    /\ queue[j] = "none"
    /\ Mishap("direct")
    /\ queue' = [queue EXCEPT ![j] = "waiting"]
    /\ UNCHANGED <<tier, cache, caller, excess, capped>>

-----------------------------------------------------------------------------
(* jobs/queueCapSweep.js                                                   *)

\* Faulty: one job too few is trimmed.
ExcessByOneLess(count) == count - Cap - 1

\* Faulty: the difference the wrong way round.
ExcessTurnedRound(count) == Cap - count

Excess(count) == count - Cap

Scan ==
    /\ caller[Sweep].pc = "idle"
    /\ Count > Cap
    /\ excess' = Excess(Count)
    /\ Lookup(Sweep, {})
    /\ UNCHANGED <<tier, cache, queue, capped>>

\* trimOldest; an error removes nothing and is logged.
Trim ==
    /\ caller[Sweep].pc = "trim"
    /\ \/ /\ \E removed \in SUBSET Counted :
               /\ Cardinality(removed) = AtMost(excess, Count)
               /\ queue' = [j \in Jobs |-> IF j \in removed THEN "none" ELSE queue[j]]
               /\ capped' = [e \in Enqueuers |-> capped[e] \ removed]
          /\ UNCHANGED mishaps
       \/ Mishap("redisDown") /\ UNCHANGED <<queue, capped>>
    /\ caller' = [caller EXCEPT ![Sweep] = Idle]
    /\ excess' = 0
    /\ UNCHANGED <<tier, cache>>

-----------------------------------------------------------------------------
EnqueuerStep(e) == Enqueue(e) \/ CountWaiting(e) \/ Add(e)
TierStep(c) == EvaluateTier(c) \/ StoreTier(c)
JobStep(j) == WorkerTakes(j) \/ JobForgotten(j) \/ JobFails(j) \/ DirectWrite(j)

Next == \/ \E e \in Enqueuers : EnqueuerStep(e)
        \/ \E c \in Callers : TierStep(c)
        \/ \E j \in Jobs : JobStep(j)
        \/ Scan \/ Trim \/ TierExpires \/ TierChanges

Spec == Init /\ [][Next]_vars

\* A call that was begun goes on, the sweep runs every ten seconds and a key
\* set with EX expires.  Nobody promises that a worker takes a job, or that
\* anything more is enqueued.
Fairness ==
    /\ \A c \in Callers : WF_vars(TierStep(c))
    /\ \A e \in Enqueuers : WF_vars(CountWaiting(e) \/ Add(e))
    /\ WF_vars(Scan) /\ WF_vars(Trim) /\ WF_vars(TierExpires)

FairSpec == Spec /\ Fairness

-----------------------------------------------------------------------------
(* Properties.                                                             *)

TypeOK ==
    /\ tier \in Tiers
    /\ cache \in Tiers \cup {"none"}
    /\ queue \in [Jobs -> {"none", "waiting", "held"}]
    /\ caller \in [Callers -> [pc : Pcs, batch : SUBSET Jobs]]
    /\ excess \in Nat
    /\ capped \in [Enqueuers -> SUBSET Named]
    /\ mishaps \in Nat

\* The named jobs in hand of an enqueuer that has counted.
InHand(e) == IF caller[e].pc = "add" THEN caller[e].batch \cap Named ELSE {}

\* The count is read before the jobs are added, so several enqueuers overshoot
\* the cap; but each of them alone never has more than the cap waiting and on
\* its way (lib/queue.js:115-117), so n of them leave at most n caps, whatever
\* the tier, errors, retries and the sweep do meanwhile.
OvershootBounded ==
    \A e \in Enqueuers : Cardinality(capped[e]) + Cardinality(InHand(e)) <= Cap

\* Whatever came in around the cap, by direct writes, retries or overlapping
\* counts, the sweep brings a low-tier workspace back to it
\* (jobs/queueCapSweep.js:4-5), although each trim works from an older count.
SweepRestoresCap ==
    <>[](tier = "low") => [](Count > Cap => <>(Count <= Cap))

\* Once a workspace pays, its jobs are neither dropped nor trimmed for longer
\* than the tier is cached, although a reader may store what it read before
\* the change (lib/queueCaps.js:112-118).
PayingIsNotCapped ==
    <>[](tier = "normal") => <>[](\A c \in Callers : caller[c].pc \notin {"count", "trim"})

\* A low-tier workspace never has more waiting jobs than its cap
\* ("the per-queue waiting-job cap for a low-tier workspace",
\* lib/queueCaps.js:16).
WaitingWithinCap == Cardinality(Waiting) <= Cap
=============================================================================
