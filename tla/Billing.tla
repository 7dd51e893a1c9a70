------------------------------- MODULE Billing -------------------------------
(***************************************************************************)
(* The subscription of one tenant and the plan it grants: checkout, sync,  *)
(* cancel and uncancel, the webhook (pkg/service/billing_*.go, pkg/repo/   *)
(* billing.go), and an admin who assigns plans (admin_service.go).  The    *)
(* payment provider is external: it keeps the orders, takes the payments   *)
(* and sends one event per change, with increasing times.                  *)
(*                                                                         *)
(* Events arrive in any order, some more than once.  Each is recorded,     *)
(* applied in a transaction and marked processed, in three steps; SQLite   *)
(* has one connection, so its transactions are Serial, while PostgreSQL    *)
(* runs READ COMMITTED and two of them may read before either writes.      *)
(* Tenants share no row, so one is enough.                                 *)
(***************************************************************************)
EXTENDS Integers

CONSTANTS Keys,        \* checkouts of this site; the order they lead to has their name
          Elsewhere,   \* orders that begin at the provider, by a change of plan
          Plans,       \* the plans for sale
          PlanOf,      \* the plan of the price of each order
          Default,     \* the default plan
          NoOrder, Page, Webhook,
          Serial,      \* transactions are serialised
          Orderings,   \* whether events are processed in the order they were sent: never,
                       \* always, or both, with bounds for each
          MaxTime,     \* bound: the times the provider hands out
          MaxClicks,   \* bound: clicks on cancel or uncancel, and plans assigned by an admin
          MaxFaults    \* bound: crashes and failed calls

Orders == Keys \union Elsewhere

ASSUME ConstantsOK == /\ Keys \intersect Elsewhere = {}
                      /\ NoOrder \notin Orders
                      /\ PlanOf \in [Orders -> Plans]
                      /\ Default \notin Plans
                      /\ Page \notin Orders /\ Webhook \notin Orders \union {Page}
                      /\ Serial \in BOOLEAN /\ Orderings \subseteq BOOLEAN
                      /\ {MaxTime, MaxClicks} \subseteq [Orderings -> Nat]
                      /\ MaxFaults \in Nat

VARIABLES
  remote,    \* provider: the status of each order
  born,      \* provider: when it was created
  session,   \* provider: the payment session of each checkout
  now,       \* provider: the time
  sent,      \* provider: the events
  subOrder, subStatus, subAt,
             \* DB: order_id, status, last_event_at of tenant_subscriptions
  plan, source,
             \* DB: plan_id and plan_source of tenant_quotas
  checkout,  \* DB: the status of each checkout; "checking", "draft" (no session yet) and
             \* "refused" are a request on its way
  processed, \* DB: the webhook events with status processed
  applied,   \* events applied and not yet marked
  tosync,    \* checkouts the sync of a request has still to ask about
  found,     \* orders a sync has found, to be entered
  tx,        \* transactions that have read and not yet written
  ask,       \* a cancel or uncancel the provider accepted, to be stored
  fifo,      \* the events of this behaviour are processed in the order they were sent
  asks, assigns, faults

provider == <<remote, born, session, now, sent>>
sub      == <<subOrder, subStatus, subAt>>
quota    == <<plan, source>>
handlers == <<applied, tosync, found, tx, ask>>
bounds   == <<fifo, asks, assigns, faults>>
vars == <<provider, sub, quota, checkout, processed, handlers, bounds>>

Live     == {"active", "canceling", "past_due"}
Statuses == Live \union {"canceled"}
Kinds    == {"start", "change", "end"}
\* start is activated and plan_changed, end is canceled, change is every other event
\* that carries a status; the events of no status are only recorded.
Event == [kind : Kinds, order : Orders, status : Statuses, at : Nat]
NoAsk == [order |-> NoOrder, status |-> "none"]

Init == /\ remote = [o \in Orders |-> "none"]
        /\ born = [o \in Orders |-> 0]
        /\ session = [o \in Keys |-> "none"]
        /\ now = 0
        /\ sent = {}
        /\ subOrder = NoOrder /\ subStatus = "none" /\ subAt = 0
        /\ plan = Default /\ source = "admin"
        /\ checkout = [o \in Keys |-> "none"]
        /\ processed = {}
        /\ applied = {}
        /\ tosync = [r \in Keys \union {Page} |-> {}]
        /\ found = {} /\ tx = {}
        /\ ask = NoAsk
        /\ fifo \in Orderings /\ asks = 0 /\ assigns = 0 /\ faults = 0

Fails == faults < MaxFaults /\ faults' = faults + 1

\* With one connection nobody writes while a transaction is open.
Unlocked == Serial => tx = {}

-----------------------------------------------------------------------------
(* The provider.                                                           *)

Send(kind, o, status, at) == [kind |-> kind, order |-> o, status |-> status, at |-> at]

\* The buyer pays within the session: an order, and an activated event after it.
Pay(o) ==
  /\ session[o] = "open" /\ remote[o] = "none"
  /\ now + 2 <= MaxTime[fifo]
  /\ now' = now + 2
  /\ remote' = [remote EXCEPT ![o] = "active"]
  /\ born' = [born EXCEPT ![o] = now + 1]
  /\ sent' = sent \union {Send("start", o, "active", now + 2)}
  /\ UNCHANGED <<session, sub, quota, checkout, processed, handlers, bounds>>

\* A session ends after checkoutTTL.
Lapse(o) ==
  /\ session[o] = "open" /\ remote[o] = "none"
  /\ session' = [session EXCEPT ![o] = "lapsed"]
  /\ UNCHANGED <<remote, born, now, sent, sub, quota, checkout, processed, handlers, bounds>>

\* Renewed, recovered, past_due, canceling, uncanceled.
Change(o, status) ==
  /\ remote[o] \in Live
  /\ now < MaxTime[fifo]
  /\ now' = now + 1
  /\ remote' = [remote EXCEPT ![o] = status]
  /\ sent' = sent \union {Send("change", o, status, now + 1)}
  /\ UNCHANGED <<born, session, sub, quota, checkout, processed, handlers, bounds>>

\* Canceled: the period is over, or somebody ends the order at the provider.
End(o) ==
  /\ remote[o] \in Live
  /\ now < MaxTime[fifo]
  /\ now' = now + 1
  /\ remote' = [remote EXCEPT ![o] = "canceled"]
  /\ sent' = sent \union {Send("end", o, "canceled", now + 1)}
  /\ UNCHANGED <<born, session, sub, quota, checkout, processed, handlers, bounds>>

\* A plan change is a new order, and then the end of the old one.
Switch(o, n) ==
  /\ remote[o] \in Live
  /\ remote[n] = "none"
  /\ now + 2 <= MaxTime[fifo]
  /\ now' = now + 2
  /\ remote' = [remote EXCEPT ![o] = "canceled", ![n] = "active"]
  /\ born' = [born EXCEPT ![n] = now + 1]
  /\ sent' = sent \union {Send("start", n, "active", now + 1), Send("end", o, "canceled", now + 2)}
  /\ UNCHANGED <<session, sub, quota, checkout, processed, handlers, bounds>>

Provider == \/ \E k \in Keys : Pay(k) \/ Lapse(k)
            \/ \E o \in Orders : \/ End(o)
                                 \/ \E status \in Live : Change(o, status)
                                 \/ \E n \in Elsewhere \ {o} : Switch(o, n)

-----------------------------------------------------------------------------
(* Transactions.                                                           *)

\* The statements.  A tenant has one subscription and one row of tenant_quotas.
GetSubscriptionByTenant == [order |-> subOrder, status |-> subStatus, at |-> subAt]

UpsertSubscription(e) == subOrder' = e.order /\ subStatus' = e.status /\ subAt' = e.at

UpdateSubscriptionStatus(status, at) == subStatus' = status /\ subAt' = at /\ UNCHANGED subOrder

UpdateTenantSubscriptionQuota(o) == plan' = PlanOf[o] /\ source' = "subscription"

\* The default plan for a tenant whose plan is of the subscription.
RestoreTenantQuotaSource ==
  plan' = (IF source = "subscription" THEN Default ELSE plan) /\ source' = "admin"

UpdateCheckoutSession(k, status) == checkout' = [checkout EXCEPT ![k] = status]

\* applyWebhook reads the subscription in its transaction.
Read(e, by) ==
  LET read == GetSubscriptionByTenant
  IN /\ Unlocked
     /\ tx' = tx \union {[event |-> e, by |-> by,
                          order |-> read.order, status |-> read.status, at |-> read.at]}

\* Seeded fault: the times are not compared.
Dropped_untimed(t) ==
  /\ t.order # NoOrder
  /\ t.order # t.event.order /\ t.event.kind # "start"

\* applyStatus drops an event older than the last one, and one of another order that
\* does not start it.
Dropped(t) ==
  /\ t.order # NoOrder
  /\ \/ t.event.at < t.at
     \/ t.order # t.event.order /\ t.event.kind # "start"

Grants(t) == t.event.kind = "start" \/ t.order # t.event.order

\* MarkCheckoutCompleted: by the activated event of the order, by a sync in any case.
Completes(t) == \/ t.by # Webhook
                \/ t.event.kind = "start" /\ ~Dropped(t)

CompleteCheckout(t) ==
  checkout' = [k \in Keys |->
                 IF k = t.event.order /\ checkout[k] = "pending" /\ Completes(t)
                 THEN "completed" ELSE checkout[k]]

\* applyStatus.  UpsertSubscription keeps the row: the quota of an older order points
\* to it as well.  A grant to a row of its own that turns out to exist violates the
\* foreign key of tenant_quotas and rolls back.
ApplyStatus(t) ==
  /\ t.event.kind # "end"
  /\ ~(t.order = NoOrder /\ subOrder # NoOrder)
  /\ IF Dropped(t) THEN UNCHANGED <<sub, quota>>
     ELSE /\ UpsertSubscription(t.event)
          /\ IF Grants(t) THEN UpdateTenantSubscriptionQuota(t.event.order) ELSE UNCHANGED quota
  /\ CompleteCheckout(t)

\* Seeded fault: the tenant is enough, the order is not compared.
ApplyCanceled_anyOrder(t) ==
  /\ t.event.kind = "end"
  /\ IF t.order = NoOrder \/ t.status = "canceled" THEN UNCHANGED <<sub, quota>>
     ELSE UpdateSubscriptionStatus("canceled", t.event.at) /\ RestoreTenantQuotaSource
  /\ UNCHANGED checkout

\* Seeded fault: the plan is not taken back.
ApplyCanceled_keepPlan(t) ==
  /\ t.event.kind = "end"
  /\ IF t.order # t.event.order \/ t.status = "canceled" THEN UNCHANGED <<sub, quota>>
     ELSE UpdateSubscriptionStatus("canceled", t.event.at) /\ UNCHANGED quota
  /\ UNCHANGED checkout

\* applyCanceled writes the row of the tenant, whatever order it is of by now.
ApplyCanceled(t) ==
  /\ t.event.kind = "end"
  /\ IF t.order # t.event.order \/ t.status = "canceled" THEN UNCHANGED <<sub, quota>>
     ELSE UpdateSubscriptionStatus("canceled", t.event.at) /\ RestoreTenantQuotaSource
  /\ UNCHANGED checkout

Commit(t) ==
  /\ ApplyStatus(t) \/ ApplyCanceled(t)
  /\ tx' = tx \ {t}
  /\ applied' = IF t.by = Webhook THEN applied \union {t.event} ELSE applied
  /\ UNCHANGED <<provider, processed, tosync, found, ask, bounds>>

\* The database refuses the write, or an error of the connection: the event is marked
\* failed, which leaves it to be processed again.
Rollback(t) ==
  /\ \/ t.event.kind # "end" /\ t.order = NoOrder /\ subOrder # NoOrder /\ UNCHANGED faults
     \/ Fails
  /\ tx' = tx \ {t}
  /\ UNCHANGED <<provider, sub, quota, checkout, processed, applied, tosync, found, ask,
                 fifo, asks, assigns>>

-----------------------------------------------------------------------------
(* ProcessWebhook.                                                         *)

\* An event that is new (InsertWebhookEvent), or whose status is not processed
\* (GetWebhookEventStatus), is to be processed.
InsertWebhookEvent == sent \ processed

\* UpdateWebhookEvent, a call of its own; when it fails the event will come again.
UpdateWebhookEvent(e) ==
  \/ processed' = processed \union {e} /\ UNCHANGED faults
  \/ Fails /\ UNCHANGED processed

\* A first or a repeated delivery, whose transaction begins.
Receive(e) ==
  /\ e \in InsertWebhookEvent
  /\ fifo => \A d \in sent : d.at < e.at => d \in processed
  /\ Read(e, Webhook)
  /\ UNCHANGED <<provider, sub, quota, checkout, processed, applied, tosync, found, ask, bounds>>

MarkProcessed(e) ==
  /\ e \in applied /\ Unlocked
  /\ applied' = applied \ {e} /\ UpdateWebhookEvent(e)
  /\ UNCHANGED <<provider, sub, quota, checkout, tosync, found, tx, ask, fifo, asks, assigns>>

-----------------------------------------------------------------------------
(* CreateCheckout and SyncCheckouts.                                       *)

\* ListPendingCheckouts: pending, with a session.
Pending == {k \in Keys : checkout[k] = "pending"}

\* A request that is at its sync: CreateCheckout of a new key, or the usage page.
StartSync(r) ==
  /\ Unlocked
  /\ tosync[r] = {}
  /\ \/ r = Page /\ UNCHANGED checkout /\ Pending # {}
     \/ r # Page /\ checkout[r] = "none"
        /\ checkout' = [checkout EXCEPT ![r] = "checking"]
  /\ tosync' = [tosync EXCEPT ![r] = Pending]
  /\ UNCHANGED <<provider, sub, quota, processed, applied, found, tx, ask, bounds>>

\* Seeded fault: any order that has not ended, paid or not.
InService_any(o) == remote[o] # "canceled"

\* liveOrderStatus.
InService(o) == remote[o] \in Live

\* FindSubscriptionOrder: an order in service is entered as its activated event with the
\* time of its creation; without an order a session past its end is given up.  An error
\* is only logged.
FindOrder(r, o) ==
  /\ o \in tosync[r]
  /\ tosync' = [tosync EXCEPT ![r] = @ \ {o}]
  /\ \/ /\ InService(o)
        /\ found' = found \union {[event |-> Send("start", o, remote[o], born[o]), by |-> r]}
        /\ UNCHANGED <<checkout, faults>>
     \/ /\ remote[o] = "none" /\ session[o] = "lapsed"
        /\ Unlocked
        /\ UpdateCheckoutSession(o, "expired")
        /\ UNCHANGED <<found, faults>>
     \/ /\ remote[o] = "canceled" \/ (remote[o] = "none" /\ session[o] # "lapsed")
        /\ UNCHANGED <<checkout, found, faults>>
     \/ /\ Fails
        /\ UNCHANGED <<checkout, found>>
  /\ UNCHANGED <<provider, sub, quota, processed, applied, tx, ask, fifo, asks, assigns>>

BeginSync(f) ==
  /\ f \in found
  /\ Read(f.event, f.by)
  /\ found' = found \ {f}
  /\ UNCHANGED <<provider, sub, quota, checkout, processed, applied, tosync, ask, bounds>>

Synced(r) == /\ tosync[r] = {}
             /\ \A f \in found : f.by # r
             /\ \A t \in tx : t.by # r

\* The row of a checkout, without a session yet, unless a subscription is in the way
\* (blockingSubscriptionStatus).
CreateCheckoutSession(o) ==
  checkout' = [checkout EXCEPT ![o] = IF subStatus \in Live THEN "refused" ELSE "draft"]

Decide(o) ==
  /\ checkout[o] = "checking"
  /\ Synced(o) /\ Unlocked /\ CreateCheckoutSession(o)
  /\ UNCHANGED <<provider, sub, quota, processed, handlers, bounds>>

\* The provider opens a session and the row gets its address, or the checkout failed.
OpenSession(o) ==
  /\ checkout[o] = "draft" /\ Unlocked
  /\ \/ /\ session' = [session EXCEPT ![o] = "open"]
        /\ UpdateCheckoutSession(o, "pending")
        /\ UNCHANGED faults
     \/ /\ Fails
        /\ UpdateCheckoutSession(o, "failed")
        /\ UNCHANGED session
  /\ UNCHANGED <<remote, born, now, sent, sub, quota, processed, handlers, fifo, asks, assigns>>

-----------------------------------------------------------------------------
(* Cancel, AssignPlan, and the end of the process.                         *)

\* Cancel(true) or Cancel(false): the provider accepts it for an order in service.
AskProvider(status) ==
  /\ ask = NoAsk /\ asks + assigns < MaxClicks[fifo] /\ Unlocked
  /\ subStatus = (IF status = "canceling" THEN "active" ELSE "canceling")
  /\ remote[subOrder] \in Live
  /\ now < MaxTime[fifo]
  /\ now' = now + 1
  /\ remote' = [remote EXCEPT ![subOrder] = status]
  /\ sent' = sent \union {Send("change", subOrder, status, now + 1)}
  /\ ask' = [order |-> subOrder, status |-> status]
  /\ asks' = asks + 1
  /\ UNCHANGED <<born, session, sub, quota, checkout, processed, applied, tosync, found,
                 tx, fifo, assigns, faults>>

\* The row of the tenant, with the time of the clock.
StoreAsk ==
  /\ ask # NoAsk /\ Unlocked
  /\ now < MaxTime[fifo]
  /\ \/ UpdateSubscriptionStatus(ask.status, now + 1) /\ now' = now + 1 /\ UNCHANGED faults
     \/ Fails /\ UNCHANGED <<sub, now>>
  /\ ask' = NoAsk
  /\ UNCHANGED <<remote, born, session, sent, quota, checkout, processed, applied, tosync, found,
                 tx, fifo, asks, assigns>>

UpdateTenantPlan(p) == plan' = p /\ source' = "admin"

AssignPlan(p) ==
  /\ asks + assigns < MaxClicks[fifo] /\ Unlocked
  /\ assigns' = assigns + 1 /\ UpdateTenantPlan(p)
  /\ UNCHANGED <<provider, sub, checkout, processed, handlers, fifo, asks, faults>>

\* Requests in flight are lost, and with them the transactions that have not written.
Crash ==
  /\ Fails
  /\ applied' = {} /\ found' = {} /\ tx' = {}
  /\ tosync' = [r \in Keys \union {Page} |-> {}]
  /\ ask' = NoAsk
  /\ checkout' = [o \in Keys |-> IF checkout[o] \in {"checking", "draft"} THEN "refused"
                                ELSE checkout[o]]
  /\ UNCHANGED <<provider, sub, quota, processed, fifo, asks, assigns>>

-----------------------------------------------------------------------------
Service ==
  \/ \E e \in sent : Receive(e) \/ MarkProcessed(e)
  \/ \E t \in tx : Commit(t) \/ Rollback(t)
  \/ \E f \in found : BeginSync(f)
  \/ \E r \in Keys \union {Page} : StartSync(r) \/ \E k \in Keys : FindOrder(r, k)
  \/ \E k \in Keys : Decide(k) \/ OpenSession(k)
  \/ \E status \in {"canceling", "active"} : AskProvider(status)
  \/ StoreAsk
  \/ \E p \in Plans : AssignPlan(p)
  \/ Crash

Next == Provider \/ Service

Spec == Init /\ [][Next]_vars

-----------------------------------------------------------------------------
(* Properties.                                                             *)

Tx == [event : Event, by : Keys \union {Page, Webhook}, order : Orders \union {NoOrder},
       status : Statuses \union {"none"}, at : Nat]

TypeOK ==
  /\ remote \in [Orders -> Statuses \union {"none"}]
  /\ born \in [Orders -> 0..MaxTime[fifo]]
  /\ session \in [Keys -> {"none", "open", "lapsed"}]
  /\ now \in 0..MaxTime[fifo]
  /\ sent \subseteq Event
  /\ subOrder \in Orders \union {NoOrder}
  /\ subStatus \in Statuses \union {"none"}
  /\ subAt \in 0..MaxTime[fifo]
  /\ plan \in Plans \union {Default}
  /\ source \in {"admin", "subscription"}
  /\ checkout \in [Keys -> {"none", "checking", "refused", "draft", "pending", "failed",
                            "completed", "expired"}]
  /\ processed \subseteq Event /\ applied \subseteq Event
  /\ tosync \in [Keys \union {Page} -> SUBSET Keys]
  /\ found \subseteq [event : Event, by : Keys \union {Page}]
  /\ tx \subseteq Tx
  /\ ask \in [order : Orders, status : {"canceling", "active"}] \union {NoAsk}
  /\ fifo \in Orderings /\ {asks, assigns} \subseteq 0..MaxClicks[fifo] /\ faults \in 0..MaxFaults

\* A plan that counts as paid for is the plan of the current order, and that order has
\* not been ended here: no path grants one thing and records another.
GrantBacked ==
  source = "subscription" => /\ subOrder # NoOrder
                             /\ plan = PlanOf[subOrder]
                             /\ subStatus # "canceled"

\* A paid plan is taken back only when the order that is current has ended at the
\* provider, never for the end of another order that arrives late (billing_webhook.go:276-278).
OldCancelHarmless ==
  [][(source = "subscription" /\ plan' = Default) => remote[subOrder] = "canceled"]_vars

\* An order that was ended here does not come back to life (docs/plan/09-billing.md:299),
\* but by a cancel or uncancel that the provider accepted before and is stored late
\* (billing_checkout.go:207).
CanceledIsFinal ==
  [][(subStatus = "canceled" /\ subOrder' = subOrder /\ subStatus' # "canceled")
       => ask # NoAsk /\ ask' = NoAsk /\ subStatus' = ask.status]_vars

\* The events were processed in order, all of them, and no request is in flight.
Settled == /\ fifo /\ sent \subseteq processed
           /\ applied = {} /\ found = {} /\ tx = {}
           /\ ask = NoAsk

LiveOrders == {o \in Orders : remote[o] \in Live}

\* A checkout was paid while an order was in service.
PaidTwice == \E a, b \in sent :
  /\ a.kind = "start" /\ b.kind = "start" /\ b.order \in Keys \ {a.order} /\ a.at < b.at
  /\ \A d \in sent : d.kind = "end" /\ d.order = a.order => b.at < d.at

\* When all is settled, a tenant with an order in service has the plan of it, and a tenant
\* with none has the default plan (billing_webhook.go:259 and 273).  Not so when an admin
\* assigned a plan; when a cancel or uncancel was stored: it carries the time of the clock,
\* and the start of another order that the provider sent before is dropped as older; or when
\* two orders were in service, of which the row holds one.
PlanConverges ==
  (Settled /\ assigns = 0 /\ asks = 0 /\ ~PaidTwice) =>
      IF LiveOrders = {} THEN plan = Default ELSE \E o \in LiveOrders : plan = PlanOf[o]
=============================================================================
