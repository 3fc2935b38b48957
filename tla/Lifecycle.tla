----------------------------- MODULE Lifecycle -----------------------------
(***************************************************************************)
(* One explorer, its subscription and its workspace, from a demo to the    *)
(* end: lib/stripe.js and webhooks/stripe.js, which follow Stripe, the     *)
(* requests of api/explorers.js and api/demo.js, which tell Stripe and     *)
(* then write on their own, and jobs/removeExpiredExplorers.js and         *)
(* jobs/deleteWorkspace.js, which take away what nobody pays for.          *)
(*                                                                         *)
(* Everyone loads the explorer with one of its rows of                     *)
(* stripe_subscriptions, awaits Stripe or the database, and then acts on   *)
(* whatever row is there by then.                                          *)
(*                                                                         *)
(* Abstractions: a plan either expires (the demo's) or is paid for; trial, *)
(* trial_with_card and active are all "active"; free plans, quotas and     *)
(* volume subscriptions are left out; the workspace is not given another   *)
(* explorer.  Stripe sends its events in order, one at a time, and sends   *)
(* one again until it is answered with 200.  The user does one thing at a  *)
(* time and has at most one subscription that has not ended.               *)
(***************************************************************************)
EXTENDS Naturals, Sequences

CONSTANTS
    Subs,         \* Stripe subscriptions that may come to be
    MaxRows,      \* bound on rows in stripe_subscriptions for this explorer
    MaxEvents,    \* bound on events Stripe has yet to deliver
    Requests      \* what the user does in this instance

VARIABLES
    stripe,       \* state of each subscription at Stripe
    events,       \* webhooks not answered yet, oldest first
    explorer,     \* "demo", "owned" by the user, or "deleted"
    rows,         \* its rows in stripe_subscriptions
    aged,         \* its age exceeds expiresAfter of the demo's plan
    workspace,    \* existence, pendingDeletion and deleteAfter
    large,        \* it holds more blocks than deleteWorkspace deletes at once
    jobs,         \* enqueued workspaceReset and deleteWorkspace jobs
    handler,      \* the webhook handler: where it is and what it loaded
    request,      \* the user's request: the same
    expiry        \* removeExpiredExplorers: where it is

subscription == <<stripe, events, rows>>
deletion == <<aged, workspace, large, jobs, expiry>>
vars == <<subscription, explorer, deletion, handler, request>>

Null == "null"
NoRow == [stripeId |-> Null, status |-> "none", expires |-> FALSE]
Row == [stripeId : Subs \cup {Null},
        status : {"active", "pending_cancelation"},
        expires : BOOLEAN]
RowIds == 1..MaxRows

DemoRow == [stripeId |-> Null, status |-> "active", expires |-> TRUE]

\* Faulty: Stripe's state is stored as the status of the row.
PaidRowAsAtStripe(s) == [stripeId |-> s, status |-> "live", expires |-> FALSE]

PaidRow(s) == [stripeId |-> s, status |-> "active", expires |-> FALSE]

Event == [sub : Subs, state : {"live", "ending", "ended"}]
Idle == [pc |-> "idle", sub |-> Null, row |-> NoRow, demo |-> FALSE, then |-> "idle"]

Init ==
    /\ stripe = [s \in Subs |-> "none"]
    /\ events = <<>>
    /\ explorer \in {"demo", "owned"}
    /\ rows = [i \in RowIds |-> IF i = 1 /\ explorer = "demo" THEN DemoRow ELSE NoRow]
    /\ aged = FALSE
    /\ workspace = [exists |-> TRUE, pendingDeletion |-> FALSE, deleteAfter |-> Null]
    /\ large \in BOOLEAN
    /\ jobs = {}
    /\ handler = Idle
    /\ request = Idle
    /\ expiry = "idle"

-----------------------------------------------------------------------------
(* Rows.  hasOne takes any of them.                                        *)

Present == {i \in RowIds : rows[i] # NoRow}

Loaded == IF Present = {} THEN {NoRow} ELSE {rows[i] : i \in Present}

\* safeCreateSubscription
CreateRow(s) ==
    \E i \in RowIds \ Present :
       /\ \A k \in RowIds \ Present : i <= k
       /\ rows' = [rows EXCEPT ![i] = PaidRow(s)]

\* safeCancelSubscription, safeRevertSubscriptionCancelation
SetStatus(status) ==
    \/ Present = {} /\ UNCHANGED rows
    \/ \E i \in Present : rows' = [rows EXCEPT ![i].status = status]

\* safeDeleteSubscription
DestroyRow ==
    \/ Present = {} /\ UNCHANGED rows
    \/ \E i \in Present : rows' = [rows EXCEPT ![i] = NoRow]

\* safeUpdateSubscription of what is there; undefined leaves stripeId alone.
UpdateRow(s) ==
    \E i \in Present :
       rows' = [rows EXCEPT ![i] = PaidRow(IF s = Null THEN @.stripeId ELSE s)]

\* A pending row, as loaded, is reverted, any other replaced.
WriteRow(loaded, s) ==
    IF loaded.status = "pending_cancelation" THEN SetStatus("active") ELSE UpdateRow(s)

\* deleteExplorer, of the explorer and, by a cascade, of all its rows
DestroyExplorer ==
    /\ explorer' = "deleted"
    /\ rows' = [i \in RowIds |-> NoRow]

-----------------------------------------------------------------------------
(* Stripe.                                                                 *)

Announce(s, state) ==
    /\ Len(events) < MaxEvents
    /\ stripe' = [stripe EXCEPT ![s] = state]
    /\ events' = Append(events, [sub |-> s, state |-> state])

NoneLives == \A s \in Subs : stripe[s] \in {"none", "ended"}

\* A checkout session, or a subscription paid in crypto; demos may be bought.
Checkout(s) ==
    /\ "checkout" \in Requests
    /\ request.pc = "idle" /\ explorer # "deleted"
    /\ stripe[s] = "none" /\ NoneLives
    /\ Announce(s, "live")
    /\ UNCHANGED <<rows, explorer, deletion, handler, request>>

\* The user cancels at the end of the period, or takes that back, in Stripe's portal.
Portal(s) ==
    /\ "portal" \in Requests
    /\ request.pc = "idle"
    /\ \/ stripe[s] = "live" /\ Announce(s, "ending")
       \/ stripe[s] = "ending" /\ Announce(s, "live")
    /\ UNCHANGED <<rows, explorer, deletion, handler, request>>

\* The period ends, or a trial without a card, or a payment fails for good.
SubscriptionEnds(s) ==
    /\ stripe[s] \in {"live", "ending"}
    /\ Announce(s, "ended")
    /\ UNCHANGED <<rows, explorer, deletion, handler, request>>

-----------------------------------------------------------------------------
(* The webhook.                                                            *)

Acknowledge == handler' = Idle /\ events' = Tail(events)

\* An error is answered with 401, and the event comes again.
Fail == handler' = Idle /\ UNCHANGED events

\* Faulty: only the end of a subscription that was cancelled counts.
NotForUsUnlessPending(e, row) ==
    \/ explorer = "deleted"
    \/ e.state = "ended" /\ (\/ explorer # "owned" \/ row = NoRow
                             \/ row.stripeId # e.sub
                             \/ row.status = "active")

NotForUs(e, row) ==
    \/ explorer = "deleted"
    \/ e.state = "ended" /\ (explorer # "owned" \/ row = NoRow \/ row.stripeId # e.sub)

Receive ==
    /\ handler.pc = "idle" /\ events # <<>>
    /\ \E row \in Loaded :
          LET e == Head(events)
          IN IF NotForUs(e, row)
               THEN Acknowledge
               ELSE /\ handler' = [Idle EXCEPT !.pc = e.state, !.sub = e.sub, !.row = row,
                                               !.demo = (explorer = "demo")]
                    /\ UNCHANGED events
    /\ UNCHANGED <<stripe, rows, explorer, deletion, request>>

\* What the database facade does for the user's explorer, or an error.
OfOwned(A) ==
    \/ explorer = "owned" /\ A /\ Acknowledge
    \/ explorer # "owned" /\ Fail /\ UNCHANGED rows

\* Faulty: the subscription goes at once, not with the end of its period.
CancelWebhookAtOnce ==
    /\ handler.pc = "ending"
    /\ OfOwned(DestroyRow)
    /\ UNCHANGED <<stripe, explorer, deletion, request>>

\* cancel_at_period_end
CancelWebhook ==
    /\ handler.pc = "ending"
    /\ OfOwned(SetStatus("pending_cancelation"))
    /\ UNCHANGED <<stripe, explorer, deletion, request>>

DeleteWebhook ==
    /\ handler.pc = "ended"
    /\ OfOwned(DestroyRow)
    /\ UNCHANGED <<stripe, explorer, deletion, request>>

\* After stripe.customers.retrieve.
CreateWebhook ==
    /\ handler.pc = "live" /\ handler.row = NoRow
    /\ OfOwned(CreateRow(handler.sub))
    /\ UNCHANGED <<stripe, explorer, deletion, request>>

\* Faulty: the test of stripeId is the wrong way round.
MigratesKnown ==
    handler.pc = "live" /\ handler.row # NoRow /\ handler.demo /\ handler.row.stripeId # Null

Migrates ==
    handler.pc = "live" /\ handler.row # NoRow /\ handler.demo /\ handler.row.stripeId = Null

\* migrateDemoTo; the subscription is written after its commit.
MigrateWebhook ==
    /\ Migrates
    /\ \/ /\ explorer = "demo"
          /\ explorer' = "owned"
          /\ handler' = [handler EXCEPT !.pc = "migrated"]
          /\ UNCHANGED events
       \/ /\ explorer # "demo"
          /\ Fail
          /\ UNCHANGED explorer
    /\ UNCHANGED <<stripe, rows, deletion, request>>

\* There may be no row left to write to, which throws, and so may enqueue
\* after a migration.
WriteWebhook ==
    /\ handler.pc \in {"live", "migrated"} /\ handler.row # NoRow /\ ~Migrates
    /\ \/ OfOwned(WriteRow(handler.row, handler.sub))
       \/ /\ handler.row.status = "active" /\ Present = {}
          /\ Fail /\ UNCHANGED rows
       \/ handler.pc = "migrated" /\ Fail /\ UNCHANGED rows
    /\ UNCHANGED <<stripe, explorer, deletion, request>>

-----------------------------------------------------------------------------
(* The user's requests: Stripe first, then the row.                        *)

Begin(kind) == kind \in Requests /\ request.pc = "idle"
Done == request' = Idle

\* POST /:id/startTrial; a trial is given once.
StartTrial(s) ==
    /\ Begin("startTrial")
    /\ explorer = "owned"
    /\ \A t \in Subs : stripe[t] = "none"
    /\ Announce(s, "live")
    /\ request' = [Idle EXCEPT !.pc = "createRow", !.sub = s]
    /\ UNCHANGED <<rows, explorer, deletion, handler>>

StartTrialCreates ==
    /\ request.pc = "createRow"
    /\ \/ explorer = "owned" /\ CreateRow(request.sub)
       \/ explorer # "owned" /\ UNCHANGED rows
    /\ Done
    /\ UNCHANGED <<stripe, events, explorer, deletion, handler>>

\* The row in hand, then cancel or, of a row Stripe does not know, destroy it.
CancelAtStripe(row, then) ==
    \/ /\ row.stripeId # Null
       /\ stripe[row.stripeId] \in {"live", "ending"}
       /\ Announce(row.stripeId, "ending")
       /\ request' = [Idle EXCEPT !.pc = "cancelRow", !.then = then]
    \/ /\ row.stripeId = Null
       /\ request' = [Idle EXCEPT !.pc = "destroyRow", !.then = then]
       /\ UNCHANGED <<stripe, events>>

\* DELETE /:id/subscription
CancelSubscription ==
    /\ Begin("cancel")
    /\ explorer = "owned"
    /\ \E row \in Loaded \ {NoRow} : CancelAtStripe(row, "idle")
    /\ UNCHANGED <<rows, explorer, deletion, handler>>

\* DELETE /:id with cancelSubscription
DeleteExplorer ==
    /\ Begin("delete")
    /\ explorer = "owned"
    /\ \E row \in Loaded :
          \/ row # NoRow /\ CancelAtStripe(row, "deleteExplorer")
          \/ /\ row = NoRow
             /\ request' = [Idle EXCEPT !.pc = "deleteExplorer"]
             /\ UNCHANGED <<stripe, events>>
    /\ UNCHANGED <<rows, explorer, deletion, handler>>

RequestCancels ==
    /\ request.pc \in {"cancelRow", "destroyRow"}
    /\ \/ /\ explorer = "owned"
          /\ IF request.pc = "cancelRow" THEN SetStatus("pending_cancelation") ELSE DestroyRow
          /\ request' = [Idle EXCEPT !.pc = request.then]
       \/ /\ explorer # "owned"
          /\ Done /\ UNCHANGED rows
    /\ UNCHANGED <<stripe, events, explorer, deletion, handler>>

\* Faulty: the request goes on when the explorer could not be deleted.
RequestDeletesRegardless ==
    /\ request.pc = "deleteExplorer"
    /\ \E row \in Loaded :
          \/ /\ explorer = "owned" /\ (row = NoRow \/ row.status = "pending_cancelation")
             /\ DestroyExplorer
          \/ /\ explorer # "owned" \/ (row # NoRow /\ row.status = "active")
             /\ UNCHANGED <<explorer, rows>>
    /\ \E then \in {"mark", "enqueue"} : request' = [Idle EXCEPT !.pc = then]
    /\ UNCHANGED <<stripe, events, deletion, handler>>

\* safeDelete refuses an explorer whose subscription is not pending.
RequestDeletes ==
    /\ request.pc = "deleteExplorer"
    /\ \E row \in Loaded :
          \/ /\ explorer = "owned" /\ (row = NoRow \/ row.status = "pending_cancelation")
             /\ DestroyExplorer
             /\ \E then \in {"mark", "enqueue"} : request' = [Idle EXCEPT !.pc = then]
          \/ /\ explorer # "owned" \/ (row # NoRow /\ row.status = "active")
             /\ Done /\ UNCHANGED <<explorer, rows>>
    /\ UNCHANGED <<stripe, events, deletion, handler>>

\* markWorkspaceForDeletion, with deleteWorkspace; the jobs follow either way.
RequestMarks ==
    /\ request.pc = "mark"
    /\ workspace' = [workspace EXCEPT !.pendingDeletion = TRUE]
    /\ request' = [request EXCEPT !.pc = "enqueue"]
    /\ UNCHANGED <<subscription, explorer, aged, large, jobs, expiry, handler>>

RequestEnqueues ==
    /\ request.pc = "enqueue"
    /\ jobs' = {"workspaceReset", "deleteWorkspace"}
    /\ Done
    /\ UNCHANGED <<subscription, explorer, aged, workspace, large, expiry, handler>>

\* PUT /:id/subscription, with a plan that is paid for
ChangePlan ==
    /\ Begin("changePlan")
    /\ explorer = "owned"
    /\ \E row \in Loaded \ {NoRow} :
          /\ request' = [Idle EXCEPT !.pc = "writeRow", !.sub = row.stripeId, !.row = row]
          /\ \/ /\ row.stripeId # Null
                /\ stripe[row.stripeId] \in {"live", "ending"}
                /\ Announce(row.stripeId, "live")
             \/ row.stripeId = Null /\ UNCHANGED <<stripe, events>>
    /\ UNCHANGED <<rows, explorer, deletion, handler>>

RequestWrites ==
    /\ request.pc = "writeRow"
    /\ \/ explorer = "owned" /\ WriteRow(request.row, request.sub)
       \/ (explorer # "owned" \/ Present = {}) /\ UNCHANGED rows
    /\ Done
    /\ UNCHANGED <<stripe, events, explorer, deletion, handler>>

\* POST /demo/migrateExplorer; the webhook migrates, the request clears the flags.
MigrateExplorer(s) ==
    /\ Begin("migrate")
    /\ explorer = "demo"
    /\ \A t \in Subs : stripe[t] = "none"
    /\ Announce(s, "live")
    /\ request' = [Idle EXCEPT !.pc = "clearFlags"]
    /\ UNCHANGED <<rows, explorer, deletion, handler>>

ClearFlags ==
    /\ request.pc = "clearFlags"
    /\ workspace' = [workspace EXCEPT !.pendingDeletion = FALSE, !.deleteAfter = Null]
    /\ Done
    /\ UNCHANGED <<subscription, explorer, aged, large, jobs, expiry, handler>>

-----------------------------------------------------------------------------
(* removeExpiredExplorers and deleteWorkspace.                             *)

Ages ==
    /\ ~aged /\ aged' = TRUE
    /\ UNCHANGED <<subscription, explorer, workspace, large, jobs, expiry, handler, request>>

\* The explorers are loaded before the loop; one still in its grace period is skipped.
LoadExpired ==
    /\ expiry = "idle"
    /\ explorer # "deleted" /\ aged
    /\ \E row \in Loaded \ {NoRow} : row.expires
    /\ workspace.deleteAfter # "ahead"
    /\ expiry' = IF workspace.deleteAfter = Null THEN "mark" ELSE "delete"
    /\ UNCHANGED <<subscription, explorer, aged, workspace, large, jobs, handler, request>>

StartGracePeriod ==
    /\ expiry = "mark"
    /\ workspace' = [workspace EXCEPT !.pendingDeletion = TRUE, !.deleteAfter = "ahead"]
    /\ expiry' = "idle"
    /\ UNCHANGED <<subscription, explorer, aged, large, jobs, handler, request>>

GracePeriodEnds ==
    /\ workspace.deleteAfter = "ahead"
    /\ workspace' = [workspace EXCEPT !.deleteAfter = "past"]
    /\ UNCHANGED <<subscription, explorer, aged, large, jobs, expiry, handler, request>>

\* safeDelete({ deleteSubscription: true }), whoever owns the explorer by now.
DeleteExpired ==
    /\ expiry = "delete"
    /\ DestroyExplorer
    /\ expiry' = "enqueue"
    /\ UNCHANGED <<stripe, events, aged, workspace, large, jobs, handler, request>>

EnqueueDeletion ==
    /\ expiry = "enqueue"
    /\ jobs' = {"workspaceReset", "deleteWorkspace"}
    /\ expiry' = "idle"
    /\ UNCHANGED <<subscription, explorer, aged, workspace, large, handler, request>>

WorkspaceReset ==
    /\ "workspaceReset" \in jobs
    /\ jobs' = jobs \ {"workspaceReset"}
    /\ large' = FALSE
    /\ UNCHANGED <<subscription, explorer, aged, workspace, expiry, handler, request>>

\* Faulty: a job that finds too many blocks is not enqueued again.
NothingToDeleteOrTooMuch == ~workspace.exists \/ ~workspace.pendingDeletion \/ large

NothingToDelete == ~workspace.exists \/ ~workspace.pendingDeletion

\* With too many blocks the job is enqueued again, an hour later: it stays.
DeleteWorkspace ==
    /\ "deleteWorkspace" \in jobs
    /\ \/ NothingToDelete /\ UNCHANGED workspace
       \/ /\ workspace.exists /\ workspace.pendingDeletion /\ ~large
          /\ explorer = "deleted"
          /\ workspace' = [workspace EXCEPT !.exists = FALSE]
    /\ jobs' = jobs \ {"deleteWorkspace"}
    /\ UNCHANGED <<subscription, explorer, aged, large, expiry, handler, request>>

-----------------------------------------------------------------------------
StripeStep == \E s \in Subs : Checkout(s) \/ Portal(s) \/ SubscriptionEnds(s)

WebhookStep == \/ CancelWebhook \/ DeleteWebhook \/ CreateWebhook
               \/ MigrateWebhook \/ WriteWebhook

RequestBegins == \/ \E s \in Subs : StartTrial(s) \/ MigrateExplorer(s)
                 \/ CancelSubscription \/ DeleteExplorer \/ ChangePlan

RequestStep == \/ StartTrialCreates \/ RequestCancels \/ RequestDeletes
               \/ RequestMarks \/ RequestEnqueues \/ RequestWrites \/ ClearFlags

ExpiryStep == StartGracePeriod \/ DeleteExpired \/ EnqueueDeletion

Next == \/ StripeStep \/ Receive \/ WebhookStep
        \/ RequestBegins \/ RequestStep
        \/ Ages \/ LoadExpired \/ ExpiryStep \/ GracePeriodEnds
        \/ WorkspaceReset \/ DeleteWorkspace

Spec == Init /\ [][Next]_vars

\* Stripe delivers until it is answered, a request and a job go on, the expiry
\* job is repeated every hour, and workers take jobs.  Nothing is asked of the
\* user, nor does a subscription have to end.
Fairness ==
    /\ WF_vars(Receive) /\ WF_vars(WebhookStep) /\ WF_vars(RequestStep)
    /\ WF_vars(LoadExpired) /\ WF_vars(ExpiryStep) /\ WF_vars(GracePeriodEnds)
    /\ WF_vars(WorkspaceReset) /\ WF_vars(DeleteWorkspace)

FairSpec == Spec /\ Fairness

-----------------------------------------------------------------------------
(* Properties.                                                             *)

TypeOK ==
    /\ stripe \in [Subs -> {"none", "live", "ending", "ended"}]
    /\ events \in Seq(Event)
    /\ explorer \in {"demo", "owned", "deleted"}
    /\ rows \in [RowIds -> Row \cup {NoRow}]
    /\ aged \in BOOLEAN
    /\ workspace \in [exists : BOOLEAN, pendingDeletion : BOOLEAN,
                      deleteAfter : {Null, "ahead", "past"}]
    /\ large \in BOOLEAN
    /\ jobs \subseteq {"workspaceReset", "deleteWorkspace"}
    /\ handler.pc \in {"idle", "live", "ending", "ended", "migrated"}
    /\ request.pc \in {"idle", "createRow", "cancelRow", "destroyRow", "deleteExplorer",
                       "mark", "enqueue", "writeRow", "clearFlags"}
    /\ expiry \in {"idle", "mark", "delete", "enqueue"}

RowOf(s, status) ==
    \E i \in Present : rows[i].stripeId = s /\ rows[i].status = status

\* No request creates a row itself, as startTrial does, nor acts on a row that
\* was still the demo's because a migration was not through.
WebhookDecides ==
    [](/\ request.pc \notin {"createRow", "destroyRow"}
       /\ request.pc = "writeRow" => request.sub # Null)

\* A subscription that stays live at Stripe ends up as an active row of the
\* user's explorer, demo or not, whatever requests and earlier webhooks were
\* writing meanwhile (lib/stripe.js:98-120).
LiveIsActive ==
    WebhookDecides =>
       \A s \in Subs :
          <>[](stripe[s] = "live" /\ explorer # "deleted")
              => <>[](explorer = "owned" /\ RowOf(s, "active"))

\* One that is to end with its period ends up as a pending row (lib/stripe.js:93-96).
EndingIsPending ==
    WebhookDecides =>
       \A s \in Subs :
          <>[](stripe[s] = "ending" /\ explorer # "deleted")
              => <>[](RowOf(s, "pending_cancelation"))

\* Once a subscription has ended, its row is gone for good
\* ("Removes subscription record from explorer.", lib/stripe.js:46).
EndedIsRemoved ==
    \A s \in Subs :
       [](stripe[s] = "ended"
             => <>[](\A i \in Present : rows[i].stripeId # s))

\* The same, as long as only webhooks create rows.
EndedIsRemovedByWebhook == WebhookDecides => EndedIsRemoved

\* The blocks of an explorer that is still there are never reset, nor is its
\* workspace deleted, although its jobs are enqueued apart from its deletion, which
\* is refused when the subscription was renewed in between, and although a
\* workspace may be marked for deletion long before (api/explorers.js:1072-1086,
\* jobs/removeExpiredExplorers.js:72-78).
LivingKeepsWorkspace ==
    explorer # "deleted" => workspace.exists /\ jobs = {}

\* A demo nobody takes over goes, after its grace period, and so does its
\* workspace, however large (jobs/removeExpiredExplorers.js:1-6).
AbandonedDemoGoes ==
    explorer = "demo" /\ [](\A s \in Subs : stripe[s] = "none")
        => [](aged => <>(~workspace.exists))

=============================================================================
