-------------------------- MODULE LifecycleProofs --------------------------
(***************************************************************************)
(* Proofs about Lifecycle, for any number of Stripe subscriptions, rows    *)
(* and events: everything keeps its type, the webhook that is handled is   *)
(* one Stripe has not been answered yet, and nothing empties or deletes    *)
(* the workspace of an explorer that is still there.                       *)
(*                                                                         *)
(* The type of the variables alone is not inductive: a row is written from *)
(* what the handler or the request has in hand, and answering drops an     *)
(* event, so that there must be one.  Inv adds what is in hand.            *)
(***************************************************************************)
EXTENDS Lifecycle, TLAPS

StripeState == {"none", "live", "ending", "ended"}
Rows == [RowIds -> Row \cup {NoRow}]

HandlerType ==
    [pc : {"idle", "live", "ending", "ended", "migrated"}, sub : Subs \cup {Null},
     row : Row \cup {NoRow}, demo : BOOLEAN, then : {"idle"}]

RequestType ==
    [pc : {"idle", "createRow", "cancelRow", "destroyRow", "deleteExplorer",
           "mark", "enqueue", "writeRow", "clearFlags"},
     sub : Subs \cup {Null}, row : Row \cup {NoRow}, demo : BOOLEAN,
     then : {"idle", "deleteExplorer"}]

SubscriptionOK ==
    /\ stripe \in [Subs -> StripeState]
    /\ events \in Seq(Event)
    /\ rows \in Rows

DeletionOK ==
    /\ aged \in BOOLEAN
    /\ workspace \in [exists : BOOLEAN, pendingDeletion : BOOLEAN,
                      deleteAfter : {Null, "ahead", "past"}]
    /\ large \in BOOLEAN
    /\ jobs \subseteq {"workspaceReset", "deleteWorkspace"}
    /\ expiry \in {"idle", "mark", "delete", "enqueue"}

ExplorerOK == explorer \in {"demo", "owned", "deleted"}

\* What is handled has not been answered.
HandlerOK ==
    /\ handler \in HandlerType
    /\ handler.pc # "idle" => events # <<>>

RequestOK == request \in RequestType

Inv == SubscriptionOK /\ DeletionOK /\ ExplorerOK /\ HandlerOK /\ RequestOK

-----------------------------------------------------------------------------
(* The helpers.                                                            *)

LEMMA IdleType == Idle \in HandlerType /\ Idle \in RequestType /\ Idle.pc = "idle"
BY DEF Idle, HandlerType, RequestType

LEMMA PaidRowType == \A s \in Subs \cup {Null} : PaidRow(s) \in Row
BY DEF PaidRow, Row

LEMMA PresentType == ASSUME SubscriptionOK PROVE \A i \in Present : i \in RowIds /\ rows[i] \in Row
BY DEF SubscriptionOK, Rows, Present

LEMMA LoadedType == ASSUME SubscriptionOK PROVE Loaded \subseteq Row \cup {NoRow}
BY PresentType DEF Loaded

\* Whatever is done to one row.
LEMMA OneRow ==
  ASSUME SubscriptionOK, NEW i \in RowIds, NEW row \in Row \cup {NoRow},
         rows' = [rows EXCEPT ![i] = row]
  PROVE  rows' \in Rows
BY DEF SubscriptionOK, Rows

LEMMA CreateRowType ==
  ASSUME SubscriptionOK, NEW s \in Subs \cup {Null}, CreateRow(s)
  PROVE  rows' \in Rows
BY OneRow, PaidRowType DEF CreateRow

LEMMA DestroyRowType ==
  ASSUME SubscriptionOK, DestroyRow
  PROVE  rows' \in Rows
<1>1. CASE rows' = rows
  BY <1>1 DEF SubscriptionOK
<1>2. CASE \E i \in Present : rows' = [rows EXCEPT ![i] = NoRow]
  BY <1>2, OneRow, PresentType
<1> QED BY <1>1, <1>2 DEF DestroyRow

LEMMA SetStatusType ==
  ASSUME SubscriptionOK, NEW status \in {"active", "pending_cancelation"}, SetStatus(status)
  PROVE  rows' \in Rows
<1>1. CASE rows' = rows
  BY <1>1 DEF SubscriptionOK
<1>2. CASE \E i \in Present : rows' = [rows EXCEPT ![i].status = status]
  <2>1. PICK i \in Present : rows' = [rows EXCEPT ![i].status = status]
    BY <1>2
  <2>2. i \in RowIds /\ rows[i] \in Row
    BY PresentType
  <2>3. [rows[i] EXCEPT !.status = status] \in Row
    BY <2>2 DEF Row
  <2>4. rows' = [rows EXCEPT ![i] = [rows[i] EXCEPT !.status = status]]
    BY <2>1
  <2> QED BY <2>2, <2>3, <2>4, OneRow
<1> QED BY <1>1, <1>2 DEF SetStatus

LEMMA WriteRowType ==
  ASSUME SubscriptionOK, NEW row, NEW s \in Subs \cup {Null}, WriteRow(row, s)
  PROVE  rows' \in Rows
<1>1. CASE SetStatus("active")
  BY <1>1, SetStatusType
<1>2. CASE UpdateRow(s)
  <2>1. PICK i \in Present :
          rows' = [rows EXCEPT ![i] = PaidRow(IF s = Null THEN rows[i].stripeId ELSE s)]
    BY <1>2 DEF UpdateRow
  <2>2. i \in RowIds /\ rows[i] \in Row
    BY PresentType
  <2>3. PaidRow(IF s = Null THEN rows[i].stripeId ELSE s) \in Row
    BY <2>2, PaidRowType DEF Row
  <2> QED BY <2>1, <2>2, <2>3, OneRow
<1> QED BY <1>1, <1>2 DEF WriteRow

\* An announced change is an event.
LEMMA AnnounceType ==
  ASSUME SubscriptionOK, NEW s \in Subs, NEW state \in {"live", "ending", "ended"},
         Announce(s, state)
  PROVE  /\ stripe' \in [Subs -> StripeState]
         /\ events' \in Seq(Event) /\ events' # <<>>
<1>1. [sub |-> s, state |-> state] \in Event
  BY DEF Event
<1>2. events' = Append(events, [sub |-> s, state |-> state])
  BY DEF Announce
<1>3. events' \in Seq(Event) /\ events' # <<>>
  BY <1>1, <1>2 DEF SubscriptionOK
<1> QED BY <1>3 DEF Announce, SubscriptionOK, StripeState

\* Answering drops the event that is handled, and nothing else is in hand.
LEMMA AcknowledgeType ==
  ASSUME SubscriptionOK, events # <<>>, Acknowledge
  PROVE  events' \in Seq(Event) /\ HandlerOK'
BY IdleType DEF SubscriptionOK, Acknowledge, HandlerOK

LEMMA FailType ==
  ASSUME SubscriptionOK, Fail
  PROVE  events' \in Seq(Event) /\ HandlerOK'
BY IdleType DEF SubscriptionOK, Fail, HandlerOK

\* The handler is left alone, and no event is dropped.
LEMMA HandlerStays ==
  ASSUME HandlerOK, handler' = handler, events' = events \/ events' # <<>>
  PROVE  HandlerOK'
BY DEF HandlerOK

-----------------------------------------------------------------------------
LEMMA InvInit == Init => Inv
<1> SUFFICES ASSUME Init PROVE Inv
  OBVIOUS
<1>1. rows \in Rows
  BY DEF Init, Rows, Row, DemoRow
<1>2. events \in Seq(Event)
  BY DEF Init
<1> QED BY <1>1, <1>2, IdleType DEF Init, Inv, SubscriptionOK, StripeState, DeletionOK, ExplorerOK,
                                    HandlerOK, RequestOK

-----------------------------------------------------------------------------
(* Stripe and its webhooks.                                                *)

LEMMA StripeStepKeeps ==
  ASSUME Inv, StripeStep
  PROVE  Inv'
<1>1. PICK s \in Subs : Checkout(s) \/ Portal(s) \/ SubscriptionEnds(s)
  BY DEF StripeStep
<1>2. \E state \in {"live", "ending", "ended"} : Announce(s, state)
  BY <1>1 DEF Checkout, Portal, SubscriptionEnds
<1>3. UNCHANGED <<rows, explorer, deletion, handler, request>>
  BY <1>1 DEF Checkout, Portal, SubscriptionEnds
<1>4. stripe' \in [Subs -> StripeState] /\ events' \in Seq(Event) /\ events' # <<>>
  BY <1>2, AnnounceType DEF Inv
<1> QED BY <1>3, <1>4, HandlerStays
        DEF Inv, SubscriptionOK, DeletionOK, ExplorerOK, RequestOK, deletion

LEMMA ReceiveKeeps ==
  ASSUME Inv, Receive
  PROVE  Inv'
<1>1. UNCHANGED <<stripe, rows, explorer, deletion, request>> /\ events # <<>>
  BY DEF Receive
<1>2. events' \in Seq(Event) /\ HandlerOK'
  <2>1. CASE Acknowledge
    BY <1>1, <2>1, AcknowledgeType DEF Inv
  <2>2. CASE ~Acknowledge
    <3>1. PICK row \in Loaded :
            /\ handler' = [Idle EXCEPT !.pc = Head(events).state, !.sub = Head(events).sub,
                                       !.row = row, !.demo = (explorer = "demo")]
            /\ events' = events
      BY <2>2 DEF Receive
    <3>2. Head(events) \in Event
      BY <1>1 DEF Inv, SubscriptionOK
    <3>3. row \in Row \cup {NoRow}
      BY LoadedType DEF Inv
    <3>4. handler' \in HandlerType
      BY <3>1, <3>2, <3>3 DEF HandlerType, Event, Idle
    <3> QED BY <1>1, <3>1, <3>4 DEF HandlerOK, Inv, SubscriptionOK
  <2> QED BY <2>1, <2>2
<1> QED BY <1>1, <1>2 DEF Inv, SubscriptionOK, DeletionOK, ExplorerOK, RequestOK, deletion

\* What a webhook does once it has loaded the explorer.
LEMMA WebhookStepKeeps ==
  ASSUME Inv, WebhookStep
  PROVE  Inv'
<1>1. UNCHANGED <<stripe, deletion, request>> /\ events # <<>>
  BY DEF WebhookStep, CancelWebhook, DeleteWebhook, CreateWebhook, MigrateWebhook, Migrates,
         WriteWebhook, Inv, HandlerOK
<1>2. handler.sub \in Subs \cup {Null}
  BY DEF Inv, HandlerOK, HandlerType
<1>3. CASE MigrateWebhook
  <2>1. ExplorerOK' /\ rows' = rows
    BY <1>3 DEF MigrateWebhook, Inv, ExplorerOK
  <2>2. events' \in Seq(Event) /\ HandlerOK'
    <3>1. CASE Fail
      BY <3>1, FailType DEF Inv
    <3>2. CASE handler' = [handler EXCEPT !.pc = "migrated"] /\ events' = events
      <4>1. handler' \in HandlerType
        BY <3>2 DEF Inv, HandlerOK, HandlerType
      <4> QED BY <1>1, <3>2, <4>1 DEF HandlerOK, Inv, SubscriptionOK
    <3> QED BY <1>3, <3>1, <3>2 DEF MigrateWebhook
  <2> QED BY <1>1, <2>1, <2>2 DEF Inv, SubscriptionOK, DeletionOK, RequestOK, deletion
<1>4. CASE CancelWebhook \/ DeleteWebhook \/ CreateWebhook \/ WriteWebhook
  <2>1. /\ explorer' = explorer
        /\ \/ Fail /\ rows' = rows
           \/ /\ Acknowledge
              /\ \/ SetStatus("pending_cancelation") \/ DestroyRow \/ CreateRow(handler.sub)
                 \/ WriteRow(handler.row, handler.sub)
    BY <1>4 DEF CancelWebhook, DeleteWebhook, CreateWebhook, WriteWebhook, OfOwned
  <2>2. rows' \in Rows
    <3>1. CASE rows' = rows
      BY <3>1 DEF Inv, SubscriptionOK
    <3>2. CASE \/ SetStatus("pending_cancelation") \/ DestroyRow \/ CreateRow(handler.sub)
               \/ WriteRow(handler.row, handler.sub)
      BY <1>2, <3>2, SetStatusType, DestroyRowType, CreateRowType, WriteRowType DEF Inv
    <3> QED BY <2>1, <3>1, <3>2
  <2>3. events' \in Seq(Event) /\ HandlerOK'
    BY <1>1, <2>1, AcknowledgeType, FailType DEF Inv
  <2> QED BY <1>1, <2>1, <2>2, <2>3
          DEF Inv, SubscriptionOK, DeletionOK, ExplorerOK, RequestOK, deletion
<1> QED BY <1>3, <1>4 DEF WebhookStep

-----------------------------------------------------------------------------
(* The user's requests.                                                    *)

\* A request starts with Stripe, or with nothing.
LEMMA RequestBeginsKeeps ==
  ASSUME Inv, RequestBegins
  PROVE  Inv'
<1>1. UNCHANGED <<rows, explorer, deletion, handler>>
  BY DEF RequestBegins, StartTrial, MigrateExplorer, CancelSubscription, DeleteExplorer, ChangePlan
<1>2. \A row \in Loaded : row \in Row \cup {NoRow} /\ row.stripeId \in Subs \cup {Null}
  BY LoadedType DEF Inv, Row, NoRow
<1>3. ASSUME NEW s \in Subs, StartTrial(s) \/ MigrateExplorer(s)
      PROVE  RequestOK' /\ \E state \in {"live", "ending"} : Announce(s, state)
  BY <1>3 DEF StartTrial, MigrateExplorer, RequestOK, RequestType, Idle
<1>4. ASSUME NEW row \in Loaded, NEW then \in {"idle", "deleteExplorer"},
             CancelAtStripe(row, then)
      PROVE  /\ RequestOK'
             /\ \/ UNCHANGED <<stripe, events>>
                \/ \E s \in Subs, state \in {"live", "ending"} : Announce(s, state)
  BY <1>2, <1>4 DEF CancelAtStripe, RequestOK, RequestType, Idle
<1>5. ASSUME CancelSubscription \/ DeleteExplorer
      PROVE  /\ RequestOK'
             /\ \/ UNCHANGED <<stripe, events>>
                \/ \E s \in Subs, state \in {"live", "ending"} : Announce(s, state)
  <2>1. CASE \E row \in Loaded : CancelAtStripe(row, "idle") \/ CancelAtStripe(row, "deleteExplorer")
    BY <1>4, <2>1
  <2>2. CASE request' = [Idle EXCEPT !.pc = "deleteExplorer"] /\ UNCHANGED <<stripe, events>>
    BY <2>2 DEF RequestOK, RequestType, Idle
  <2> QED BY <1>5, <2>1, <2>2 DEF CancelSubscription, DeleteExplorer
<1>6. ASSUME ChangePlan
      PROVE  /\ RequestOK'
             /\ \/ UNCHANGED <<stripe, events>>
                \/ \E s \in Subs, state \in {"live", "ending"} : Announce(s, state)
  <2>1. PICK row \in Loaded \ {NoRow} :
          /\ request' = [Idle EXCEPT !.pc = "writeRow", !.sub = row.stripeId, !.row = row]
          /\ \/ row.stripeId # Null /\ Announce(row.stripeId, "live")
             \/ UNCHANGED <<stripe, events>>
    BY <1>6 DEF ChangePlan
  <2>2. RequestOK'
    BY <1>2, <2>1 DEF RequestOK, RequestType, Idle
  <2> QED BY <1>2, <2>1, <2>2
<1>7. /\ RequestOK'
      /\ \/ UNCHANGED <<stripe, events>>
         \/ \E s \in Subs, state \in {"live", "ending"} : Announce(s, state)
  BY <1>3, <1>5, <1>6 DEF RequestBegins
<1>8. /\ stripe' \in [Subs -> StripeState] /\ events' \in Seq(Event)
      /\ events' = events \/ events' # <<>>
  BY <1>7, AnnounceType DEF Inv, SubscriptionOK
<1> QED BY <1>1, <1>7, <1>8, HandlerStays DEF Inv, SubscriptionOK, DeletionOK, ExplorerOK, deletion

\* It goes on with the database.
LEMMA RequestStepKeeps ==
  ASSUME Inv, RequestStep
  PROVE  Inv'
<1>1. UNCHANGED <<stripe, events, handler>>
  BY DEF RequestStep, StartTrialCreates, RequestCancels, RequestDeletes, RequestMarks,
         RequestEnqueues, RequestWrites, ClearFlags, subscription
<1>2. HandlerOK'
  BY <1>1, HandlerStays DEF Inv
<1>3. request.sub \in Subs \cup {Null}
  BY DEF Inv, RequestOK, RequestType
<1>4. CASE StartTrialCreates \/ RequestCancels \/ RequestWrites
  <2>1. UNCHANGED <<explorer, deletion>>
    BY <1>4 DEF StartTrialCreates, RequestCancels, RequestWrites
  <2>2. rows' \in Rows
    <3>1. \/ rows' = rows \/ CreateRow(request.sub) \/ SetStatus("pending_cancelation")
          \/ DestroyRow \/ WriteRow(request.row, request.sub)
      BY <1>4 DEF StartTrialCreates, RequestCancels, RequestWrites
    <3> QED BY <1>3, <3>1, CreateRowType, SetStatusType, DestroyRowType, WriteRowType
            DEF Inv, SubscriptionOK
  <2>3. RequestOK'
    <3>1. request' = Idle \/ request' = [Idle EXCEPT !.pc = request.then]
      BY <1>4 DEF StartTrialCreates, RequestCancels, RequestWrites, Done
    <3> QED BY <3>1, IdleType DEF Inv, RequestOK, RequestType, Idle
  <2> QED BY <1>1, <1>2, <2>1, <2>2, <2>3 DEF Inv, SubscriptionOK, DeletionOK, ExplorerOK, deletion
<1>5. CASE RequestDeletes
  <2>1. UNCHANGED deletion
    BY <1>5 DEF RequestDeletes
  <2>2. ExplorerOK' /\ rows' \in Rows
    BY <1>5 DEF RequestDeletes, DestroyExplorer, Inv, SubscriptionOK, ExplorerOK, Rows
  <2>3. RequestOK'
    <3>1. request' = Idle \/ \E then \in {"mark", "enqueue"} : request' = [Idle EXCEPT !.pc = then]
      BY <1>5 DEF RequestDeletes, Done
    <3> QED BY <3>1, IdleType DEF RequestOK, RequestType, Idle
  <2> QED BY <1>1, <1>2, <2>1, <2>2, <2>3 DEF Inv, SubscriptionOK, DeletionOK, deletion
<1>6. CASE RequestMarks \/ RequestEnqueues \/ ClearFlags
  <2>1. UNCHANGED <<rows, explorer>>
    BY <1>6 DEF RequestMarks, RequestEnqueues, ClearFlags, subscription
  <2>2. DeletionOK'
    BY <1>6 DEF RequestMarks, RequestEnqueues, ClearFlags, Inv, DeletionOK
  <2>3. RequestOK'
    BY <1>6, IdleType DEF RequestMarks, RequestEnqueues, ClearFlags, Done, Inv, RequestOK, RequestType
  <2> QED BY <1>1, <1>2, <2>1, <2>2, <2>3 DEF Inv, SubscriptionOK, ExplorerOK
<1> QED BY <1>4, <1>5, <1>6 DEF RequestStep

-----------------------------------------------------------------------------
(* Expiry and deletion.                                                    *)

LEMMA DeletionKeeps ==
  ASSUME Inv,
         \/ Ages \/ LoadExpired \/ ExpiryStep \/ GracePeriodEnds
         \/ WorkspaceReset \/ DeleteWorkspace
  PROVE  Inv'
<1>1. UNCHANGED <<stripe, events, handler, request>>
  BY DEF Ages, LoadExpired, ExpiryStep, StartGracePeriod, DeleteExpired, EnqueueDeletion,
         GracePeriodEnds, WorkspaceReset, DeleteWorkspace, subscription
<1>2. HandlerOK'
  BY <1>1, HandlerStays DEF Inv
<1>3. ExplorerOK' /\ rows' \in Rows
  BY DEF Ages, LoadExpired, ExpiryStep, StartGracePeriod, DeleteExpired, EnqueueDeletion,
         GracePeriodEnds, WorkspaceReset, DeleteWorkspace, subscription, DestroyExplorer, Inv,
         SubscriptionOK, ExplorerOK, Rows
<1>4. DeletionOK'
  <2> USE DEF Inv, DeletionOK
  <2>1. CASE Ages \/ LoadExpired
    BY <2>1 DEF Ages, LoadExpired
  <2>2. CASE ExpiryStep
    BY <2>2 DEF ExpiryStep, StartGracePeriod, DeleteExpired, EnqueueDeletion
  <2>3. CASE GracePeriodEnds
    BY <2>3 DEF GracePeriodEnds
  <2>4. CASE WorkspaceReset \/ DeleteWorkspace
    BY <2>4 DEF WorkspaceReset, DeleteWorkspace
  <2> QED BY <2>1, <2>2, <2>3, <2>4
<1> QED BY <1>1, <1>2, <1>3, <1>4 DEF Inv, SubscriptionOK, RequestOK

-----------------------------------------------------------------------------
LEMMA StepKeepsInv ==
  ASSUME Inv, [Next]_vars
  PROVE  Inv'
<1>1. CASE UNCHANGED vars
  BY <1>1 DEF vars, subscription, deletion, Inv, SubscriptionOK, DeletionOK, ExplorerOK, HandlerOK,
              RequestOK
<1> QED BY <1>1, StripeStepKeeps, ReceiveKeeps, WebhookStepKeeps, RequestBeginsKeeps,
            RequestStepKeeps, DeletionKeeps DEF Next

-----------------------------------------------------------------------------
(* Deletion.                                                               *)

\* Who is about to enqueue the jobs has deleted the explorer before.
EnqueuesAfterDeletion ==
    explorer # "deleted" => request.pc \notin {"mark", "enqueue"} /\ expiry # "enqueue"

LivingInv == LivingKeepsWorkspace /\ EnqueuesAfterDeletion

\* A deleted explorer does not come back.
LEMMA DeletedStays ==
  ASSUME [Next]_vars, explorer = "deleted"
  PROVE  explorer' = "deleted"
BY DEF Next, StripeStep, Checkout, Portal, SubscriptionEnds, Receive, WebhookStep, CancelWebhook,
       DeleteWebhook, CreateWebhook, MigrateWebhook, WriteWebhook, RequestBegins, StartTrial,
       MigrateExplorer, CancelSubscription, DeleteExplorer, ChangePlan, RequestStep,
       StartTrialCreates, RequestCancels, RequestDeletes, RequestMarks, RequestEnqueues,
       RequestWrites, ClearFlags, Ages, LoadExpired, ExpiryStep, StartGracePeriod, DeleteExpired,
       EnqueueDeletion, GracePeriodEnds, WorkspaceReset, DeleteWorkspace, DestroyExplorer,
       deletion, subscription, vars

\* A request comes to the jobs only through a deletion that was not refused.
LEMMA RequestKeepsLiving ==
  ASSUME Inv, LivingInv, RequestBegins \/ RequestStep, explorer' # "deleted"
  PROVE  LivingInv'
<1>1. explorer # "deleted"
  BY DeletedStays DEF Next
<1>2. UNCHANGED <<workspace.exists, jobs, expiry>> /\ request'.pc \notin {"mark", "enqueue"}
  <2>1. CASE RequestBegins
    BY <2>1 DEF RequestBegins, StartTrial, MigrateExplorer, CancelSubscription, DeleteExplorer,
                ChangePlan, CancelAtStripe, Idle, deletion
  <2>2. CASE StartTrialCreates \/ RequestCancels \/ RequestWrites
    <3>1. request' = Idle \/ request' = [Idle EXCEPT !.pc = request.then]
      BY <2>2 DEF StartTrialCreates, RequestCancels, RequestWrites, Done
    <3>2. request'.pc \notin {"mark", "enqueue"}
      BY <3>1 DEF Inv, RequestOK, RequestType, Idle
    <3> QED BY <2>2, <3>2 DEF StartTrialCreates, RequestCancels, RequestWrites, deletion
  <2>3. CASE RequestDeletes
    BY <2>3 DEF RequestDeletes, DestroyExplorer, Done, Idle, deletion
  <2>4. CASE RequestMarks \/ RequestEnqueues
    BY <1>1, <2>4 DEF RequestMarks, RequestEnqueues, LivingInv, EnqueuesAfterDeletion
  <2>5. CASE ClearFlags
    BY <2>5 DEF ClearFlags, Done, Idle, Inv, DeletionOK
  <2> QED BY <2>1, <2>2, <2>3, <2>4, <2>5 DEF RequestStep
<1> QED BY <1>1, <1>2 DEF LivingInv, LivingKeepsWorkspace, EnqueuesAfterDeletion

LEMMA StepKeepsLiving ==
  ASSUME Inv, LivingInv, [Next]_vars
  PROVE  LivingInv'
<1>1. CASE explorer' = "deleted"
  BY <1>1 DEF LivingInv, LivingKeepsWorkspace, EnqueuesAfterDeletion
<1>2. CASE explorer' # "deleted"
  <2>1. explorer # "deleted"
    BY <1>2, DeletedStays
  <2>2. /\ workspace.exists /\ jobs = {} /\ expiry # "enqueue"
        /\ request.pc \notin {"mark", "enqueue"}
    BY <2>1 DEF LivingInv, LivingKeepsWorkspace, EnqueuesAfterDeletion
  <2>3. ASSUME UNCHANGED <<workspace, jobs, expiry, request>> PROVE LivingInv'
    BY <2>2, <2>3 DEF LivingInv, LivingKeepsWorkspace, EnqueuesAfterDeletion
  <2>4. CASE StripeStep \/ Receive \/ WebhookStep \/ UNCHANGED vars
    BY <2>3, <2>4 DEF StripeStep, Checkout, Portal, SubscriptionEnds, Receive, WebhookStep,
                      CancelWebhook, DeleteWebhook, CreateWebhook, MigrateWebhook, WriteWebhook,
                      deletion, vars
  <2>5. CASE RequestBegins \/ RequestStep
    BY <1>2, <2>5, RequestKeepsLiving
  <2>6. CASE \/ Ages \/ LoadExpired \/ ExpiryStep \/ GracePeriodEnds
             \/ WorkspaceReset \/ DeleteWorkspace
    <3>1. request' = request /\ expiry' # "enqueue" /\ jobs' = {}
      BY <1>2, <2>2, <2>6
         DEF Ages, LoadExpired, ExpiryStep, StartGracePeriod, DeleteExpired, EnqueueDeletion,
             GracePeriodEnds, WorkspaceReset, DeleteWorkspace, DestroyExplorer
    <3>2. workspace'.exists
      BY <2>2, <2>6
         DEF Ages, LoadExpired, ExpiryStep, StartGracePeriod, DeleteExpired, EnqueueDeletion,
             GracePeriodEnds, WorkspaceReset, DeleteWorkspace, Inv, DeletionOK
    <3> QED BY <2>2, <3>1, <3>2 DEF LivingInv, LivingKeepsWorkspace, EnqueuesAfterDeletion
  <2> QED BY <2>4, <2>5, <2>6 DEF Next
<1> QED BY <1>1, <1>2

\* Rows hold only what the table allows, and every webhook, request and job is
\* at a step it has, whatever each of them had loaded before the others wrote
\* (models/stripesubscription.js, lib/stripe.js, api/explorers.js).
THEOREM TypeCorrect == Spec => []TypeOK
<1>1. Inv => TypeOK
  BY DEF Inv, SubscriptionOK, DeletionOK, ExplorerOK, HandlerOK, RequestOK, HandlerType, RequestType,
         StripeState, Rows, TypeOK
<1> QED BY <1>1, InvInit, StepKeepsInv, PTL DEF Spec

\* As long as the explorer is there, nothing empties or deletes its workspace,
\* whatever users, Stripe and the expiry job do at once
\* (api/explorers.js:1072-1086, jobs/removeExpiredExplorers.js:50-78).
THEOREM LivingIsKept == Spec => []LivingKeepsWorkspace
<1>1. Init => LivingInv
  BY DEF Init, LivingInv, LivingKeepsWorkspace, EnqueuesAfterDeletion, Idle
<1>2. Inv /\ LivingInv /\ [Next]_vars => (Inv /\ LivingInv)'
  BY StepKeepsInv, StepKeepsLiving
<1>3. Inv /\ LivingInv => LivingKeepsWorkspace
  BY DEF LivingInv
<1> QED BY <1>1, <1>2, <1>3, InvInit, PTL DEF Spec
=============================================================================
