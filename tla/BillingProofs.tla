---------------------------- MODULE BillingProofs ----------------------------
(***************************************************************************)
(* Theorems about Billing, for any checkouts, orders, plans and bounds.    *)
(* Type correctness needs nothing more; the rest holds where transactions  *)
(* are serialised, as SQLite's one connection does.                        *)
(***************************************************************************)
EXTENDS Billing, TLAPS

-----------------------------------------------------------------------------
(* The inductive invariants.                                               *)

\* The events somebody may still apply: sent ones, and the orders a sync has found.
Deliverable == sent \union {f.event : f \in found} \union {t.event : t \in tx}

\* An event's status goes with its kind, and it was created before now.
EventFits(e, t) == /\ e \in Event /\ e.at <= t
                   /\ e.kind = "end" => e.status = "canceled"
                   /\ e.kind # "end" => e.status \in Live

Times == /\ \A o \in Orders : born[o] <= now
         /\ subAt <= now
         /\ \A e \in sent : EventFits(e, now)
         /\ \A f \in found : EventFits(f.event, now)
         /\ \A t \in tx : EventFits(t.event, now) /\ t.at <= now

\* Without a row nothing was read from it, and no click of its owner was accepted.
NoRow == subOrder = NoOrder => /\ subStatus = "none" /\ ask = NoAsk
                               /\ \A t \in tx : t.order = NoOrder

TypeInv == TypeOK /\ Times /\ NoRow

\* The end of an order is the last of its events, and nothing happens after it.
EndsInv ==
  /\ \A d \in sent : d.kind = "end" => remote[d.order] = "canceled"
  /\ \A t \in tx : t.event.kind = "end" => t.event \in sent
  /\ \A f \in found : f.event.kind = "start"
  /\ \A d \in sent, e \in Deliverable :
        d.kind = "end" /\ e.kind # "end" /\ e.order = d.order => e.at < d.at

\* One transaction at a time: what it has read is what is there.
Fresh == \A t \in tx : /\ tx = {t}
                       /\ t.order = subOrder /\ t.status = subStatus /\ t.at = subAt

\* What was canceled here carries the time of the end of its order.
CanceledAt == subStatus = "canceled" =>
                 \E d \in sent : d.kind = "end" /\ d.order = subOrder /\ d.at = subAt

IInv == TypeInv /\ EndsInv /\ Fresh /\ CanceledAt /\ GrantBacked

-----------------------------------------------------------------------------
(* Type correctness.                                                       *)

LEMMA Bounds ==
  ASSUME TypeOK
  PROVE  MaxTime[fifo] \in Nat /\ MaxClicks[fifo] \in Nat /\ now \in Nat
BY ConstantsOK DEF TypeOK

\* Time goes on, and an event still fits.
LEMMA FitsLater ==
  ASSUME NEW e, NEW t \in Nat, NEW u \in Nat, t <= u, EventFits(e, t)
  PROVE  EventFits(e, u)
BY DEF EventFits, Event

LEMMA SendFits ==
  ASSUME NEW o \in Orders, NEW kind \in {"start", "change"}, NEW status \in Live,
         NEW t \in Nat, NEW u \in Nat, t <= u
  PROVE  EventFits(Send(kind, o, status, t), u)
BY DEF EventFits, Event, Send, Kinds, Statuses

LEMMA EndFits ==
  ASSUME NEW o \in Orders, NEW t \in Nat, NEW u \in Nat, t <= u
  PROVE  EventFits(Send("end", o, "canceled", t), u)
BY DEF EventFits, Event, Send, Kinds, Statuses

\* The provider moves on: orders and events, with times that follow the old ones.
LEMMA ProviderStep ==
  ASSUME TypeInv, NEW new,
         remote' \in [Orders -> Statuses \union {"none"}],
         now' \in Nat, now <= now', now' <= MaxTime[fifo],
         born' \in [Orders -> Nat], \A o \in Orders : born'[o] <= now',
         session' \in [Keys -> {"none", "open", "lapsed"}],
         sent' = sent \union new, \A e \in new : EventFits(e, now'),
         UNCHANGED <<sub, quota, checkout, processed, handlers, bounds>>
  PROVE  TypeInv'
<1> USE DEF sub, quota, handlers, bounds
<1>1. now \in Nat /\ MaxTime[fifo] \in Nat
  BY Bounds DEF TypeInv
<1>2. \A e : EventFits(e, now) => EventFits(e, now')
  BY <1>1, FitsLater
<1>3. Times'
  <2>1. \A t \in tx : t.at <= now'
    BY <1>1 DEF TypeInv, Times, TypeOK, Tx
  <2>2. subAt <= now'
    BY <1>1 DEF TypeInv, Times, TypeOK
  <2> QED BY <1>2, <2>1, <2>2 DEF TypeInv, Times
<1>4. TypeOK'
  <2>1. sent' \subseteq Event
    BY DEF TypeInv, TypeOK, EventFits
  <2>2. now' \in 0..MaxTime'[fifo'] /\ born' \in [Orders -> 0..MaxTime'[fifo']]
    <3>1. \A o \in Orders : born'[o] \in 0..MaxTime[fifo]
      BY <1>1
    <3> QED BY <1>1, <3>1
  <2> QED BY <2>1, <2>2 DEF TypeInv, TypeOK
<1>5. NoRow'
  BY DEF TypeInv, NoRow
<1> QED BY <1>3, <1>4, <1>5 DEF TypeInv

LEMMA ProviderType ==
  ASSUME TypeInv, Provider
  PROVE  TypeInv'
<1>1. /\ now \in Nat /\ MaxTime[fifo] \in Nat
      /\ remote \in [Orders -> Statuses \union {"none"}]
      /\ born \in [Orders -> Nat] /\ \A o \in Orders : born[o] <= now
      /\ session \in [Keys -> {"none", "open", "lapsed"}]
      /\ Keys \subseteq Orders /\ Elsewhere \subseteq Orders
      /\ "active" \in Live /\ "canceled" \in Statuses /\ Live \subseteq Statuses
  BY Bounds DEF TypeInv, TypeOK, Times, Orders, Live, Statuses
<1>2. ASSUME NEW k \in Keys, Pay(k) PROVE TypeInv'
  <2>1. EventFits(Send("start", k, "active", now + 2), now + 2)
    BY <1>1, SendFits
  <2>2. /\ now' = now + 2 /\ now + 2 <= MaxTime[fifo]
        /\ remote' \in [Orders -> Statuses \union {"none"}]
        /\ born' \in [Orders -> Nat] /\ \A o \in Orders : born'[o] <= now'
    BY <1>1, <1>2 DEF Pay
  <2> DEFINE new == {Send("start", k, "active", now + 2)}
  <2>3. sent' = sent \union new /\ (\A e \in new : EventFits(e, now')) /\ now <= now'
    BY <1>1, <1>2, <2>1, <2>2 DEF Pay
  <2> HIDE DEF new
  <2>4. UNCHANGED <<session, sub, quota, checkout, processed, handlers, bounds>>
    BY <1>2 DEF Pay
  <2> QED BY <1>1, <2>2, <2>3, <2>4, ProviderStep
<1>3. ASSUME NEW k \in Keys, Lapse(k) PROVE TypeInv'
  <2>1. /\ now' = now /\ now <= MaxTime[fifo]
        /\ remote' \in [Orders -> Statuses \union {"none"}]
        /\ born' \in [Orders -> Nat] /\ \A p \in Orders : born'[p] <= now'
    BY <1>1, <1>3 DEF Lapse, TypeInv, TypeOK
  <2>2. session' \in [Keys -> {"none", "open", "lapsed"}]
    BY <1>1, <1>3 DEF Lapse
  <2> DEFINE new == {}
  <2>3. sent' = sent \union new /\ (\A e \in new : EventFits(e, now')) /\ now <= now'
    BY <1>1, <1>3, <2>1 DEF Lapse
  <2> HIDE DEF new
  <2>4. UNCHANGED <<sub, quota, checkout, processed, handlers, bounds>>
    BY <1>3 DEF Lapse
  <2> QED BY <1>1, <2>1, <2>2, <2>3, <2>4, ProviderStep
<1>4. ASSUME NEW o \in Orders, NEW status \in Live, Change(o, status) PROVE TypeInv'
  <2>1. EventFits(Send("change", o, status, now + 1), now + 1)
    BY <1>1, SendFits
  <2>2. /\ now' = now + 1 /\ now + 1 <= MaxTime[fifo]
        /\ remote' \in [Orders -> Statuses \union {"none"}]
        /\ born' \in [Orders -> Nat] /\ \A p \in Orders : born'[p] <= now'
    BY <1>1, <1>4 DEF Change
  <2> DEFINE new == {Send("change", o, status, now + 1)}
  <2>3. sent' = sent \union new /\ (\A e \in new : EventFits(e, now')) /\ now <= now'
    BY <1>1, <1>4, <2>1, <2>2 DEF Change
  <2> HIDE DEF new
  <2>4. UNCHANGED <<session, sub, quota, checkout, processed, handlers, bounds>>
    BY <1>4 DEF Change
  <2> QED BY <1>1, <2>2, <2>3, <2>4, ProviderStep
<1>5. ASSUME NEW o \in Orders, End(o) PROVE TypeInv'
  <2>1. EventFits(Send("end", o, "canceled", now + 1), now + 1)
    BY <1>1, EndFits
  <2>2. /\ now' = now + 1 /\ now + 1 <= MaxTime[fifo]
        /\ remote' \in [Orders -> Statuses \union {"none"}]
        /\ born' \in [Orders -> Nat] /\ \A p \in Orders : born'[p] <= now'
    BY <1>1, <1>5 DEF End
  <2> DEFINE new == {Send("end", o, "canceled", now + 1)}
  <2>3. sent' = sent \union new /\ (\A e \in new : EventFits(e, now')) /\ now <= now'
    BY <1>1, <1>5, <2>1, <2>2 DEF End
  <2> HIDE DEF new
  <2>4. UNCHANGED <<session, sub, quota, checkout, processed, handlers, bounds>>
    BY <1>5 DEF End
  <2> QED BY <1>1, <2>2, <2>3, <2>4, ProviderStep
<1>6. ASSUME NEW o \in Orders, NEW n \in Elsewhere \ {o}, Switch(o, n) PROVE TypeInv'
  <2>1. EventFits(Send("start", n, "active", now + 1), now + 2)
    BY <1>1, SendFits
  <2>2. EventFits(Send("end", o, "canceled", now + 2), now + 2)
    BY <1>1, EndFits
  <2>3. /\ now' = now + 2 /\ now + 2 <= MaxTime[fifo]
        /\ born' \in [Orders -> Nat] /\ \A p \in Orders : born'[p] <= now'
    BY <1>1, <1>6 DEF Switch
  <2>4. remote' \in [Orders -> Statuses \union {"none"}]
    BY <1>1, <1>6 DEF Switch
  <2> DEFINE new == {Send("start", n, "active", now + 1), Send("end", o, "canceled", now + 2)}
  <2>5. sent' = sent \union new /\ (\A e \in new : EventFits(e, now')) /\ now <= now'
    BY <1>1, <1>6, <2>1, <2>2, <2>3, <2>4 DEF Switch
  <2> HIDE DEF new
  <2>6. UNCHANGED <<session, sub, quota, checkout, processed, handlers, bounds>>
    BY <1>6 DEF Switch
  <2> QED BY <1>1, <2>3, <2>4, <2>5, <2>6, ProviderStep
<1> QED BY <1>2, <1>3, <1>4, <1>5, <1>6 DEF Provider

\* A transaction reads the row as it is, for an event that fits.
LEMMA ReadType ==
  ASSUME TypeInv, NEW e, NEW by \in Keys \union {Page, Webhook}, EventFits(e, now), Read(e, by)
  PROVE  /\ tx' \subseteq Tx
         /\ \A t \in tx' : EventFits(t.event, now) /\ t.at <= now
         /\ subOrder = NoOrder => \A t \in tx' : t.order = NoOrder
<1> DEFINE n == [event |-> e, by |-> by, order |-> subOrder, status |-> subStatus, at |-> subAt]
<1>1. tx' = tx \union {n}
  BY DEF Read, GetSubscriptionByTenant
<1>2. n \in Tx
  BY Bounds DEF TypeInv, TypeOK, EventFits, Tx
<1>3. n.event = e /\ n.at = subAt /\ n.order = subOrder
  OBVIOUS
<1> HIDE DEF n
<1> QED BY <1>1, <1>2, <1>3 DEF TypeInv, TypeOK, Times, NoRow

\* Neither the provider's time nor what is to be applied grows: the rest is the row's.
LEMMA CommitType ==
  ASSUME TypeInv, NEW t \in tx, Commit(t)
  PROVE  TypeInv'
<1>1. /\ t \in Tx /\ t.event \in Event /\ t.event.at <= now /\ EventFits(t.event, now)
      /\ now \in Nat /\ MaxTime[fifo] \in Nat /\ now <= MaxTime[fifo]
      /\ t.event.order \in Orders /\ NoOrder \notin Orders
      /\ t.event.status \in Statuses /\ t.event.at \in Nat
      /\ PlanOf \in [Orders -> Plans]
  BY Bounds, ConstantsOK DEF TypeInv, TypeOK, Times, EventFits, Tx, Event
<1>2. /\ UNCHANGED <<remote, born, session, now, sent, processed, tosync, found, ask, bounds>>
      /\ tx' = tx \ {t}
      /\ applied' = applied \/ applied' = applied \union {t.event}
  BY DEF Commit, provider
<1>3. /\ subOrder' \in Orders \union {NoOrder}
      /\ subStatus' \in Statuses \union {"none"}
      /\ subAt' \in 0..MaxTime[fifo] /\ subAt' <= now
      /\ plan' \in Plans \union {Default}
      /\ source' \in {"admin", "subscription"}
      /\ subOrder' = NoOrder => subOrder = NoOrder /\ subStatus' = subStatus
  <2>1. CASE ApplyStatus(t)
    <3>1. CASE Dropped(t)
      BY <1>1, <2>1, <3>1 DEF ApplyStatus, sub, quota, TypeInv, TypeOK, Times
    <3>2. CASE ~Dropped(t)
      <4>1. subOrder' = t.event.order /\ subStatus' = t.event.status /\ subAt' = t.event.at
        BY <2>1, <3>2 DEF ApplyStatus, UpsertSubscription
      <4>2. \/ UNCHANGED <<plan, source>>
            \/ plan' = PlanOf[t.event.order] /\ source' = "subscription"
        BY <2>1, <3>2 DEF ApplyStatus, quota, UpdateTenantSubscriptionQuota
      <4>3. plan' \in Plans \union {Default} /\ source' \in {"admin", "subscription"}
        BY <1>1, <4>2 DEF TypeInv, TypeOK
      <4> QED BY <1>1, <4>1, <4>3
    <3> QED BY <3>1, <3>2
  <2>2. CASE ApplyCanceled(t)
    <3>1. CASE t.order # t.event.order \/ t.status = "canceled"
      BY <1>1, <2>2, <3>1 DEF ApplyCanceled, sub, quota, TypeInv, TypeOK, Times
    <3>2. CASE ~(t.order # t.event.order \/ t.status = "canceled")
      <4>1. subOrder' = subOrder /\ subStatus' = "canceled" /\ subAt' = t.event.at
        BY <2>2, <3>2 DEF ApplyCanceled, UpdateSubscriptionStatus
      <4>2. plan' = (IF source = "subscription" THEN Default ELSE plan) /\ source' = "admin"
        BY <2>2, <3>2 DEF ApplyCanceled, RestoreTenantQuotaSource
      <4>3. subOrder # NoOrder
        BY <1>1, <3>2 DEF TypeInv, NoRow
      <4>4. plan' \in Plans \union {Default}
        BY <4>2 DEF TypeInv, TypeOK
      <4> QED BY <1>1, <4>1, <4>2, <4>3, <4>4 DEF TypeInv, TypeOK, Statuses
    <3> QED BY <3>1, <3>2
  <2> QED BY <2>1, <2>2 DEF Commit
<1>4. checkout' \in [Keys -> {"none", "checking", "refused", "draft", "pending", "failed",
                              "completed", "expired"}]
  <2>1. checkout' = checkout
        \/ checkout' = [k \in Keys |-> IF k = t.event.order /\ checkout[k] = "pending" /\ Completes(t)
                                       THEN "completed" ELSE checkout[k]]
    BY DEF Commit, ApplyStatus, ApplyCanceled, CompleteCheckout
  <2> QED BY <2>1 DEF TypeInv, TypeOK
<1>5. applied' \subseteq Event
  BY <1>1, <1>2 DEF TypeInv, TypeOK
<1>6. TypeOK'
  BY <1>2, <1>3, <1>4, <1>5 DEF TypeInv, TypeOK, bounds
<1>7. Times'
  BY <1>2, <1>3 DEF TypeInv, Times
<1>8. NoRow'
  BY <1>2, <1>3 DEF TypeInv, NoRow
<1> QED BY <1>6, <1>7, <1>8 DEF TypeInv

LEMMA WebhookType ==
  ASSUME TypeInv
  PROVE  /\ \A e \in sent : Receive(e) \/ MarkProcessed(e) => TypeInv'
         /\ \A t \in tx : Rollback(t) => TypeInv'
<1>0. MaxFaults \in Nat /\ Page \in {Page}
  BY ConstantsOK
<1>1. ASSUME NEW e \in sent, Receive(e) PROVE TypeInv'
  <2>1. EventFits(e, now)
    BY DEF TypeInv, Times
  <2>2. Read(e, Webhook)
    BY <1>1 DEF Receive
  <2>3. /\ tx' \subseteq Tx
        /\ \A t \in tx' : EventFits(t.event, now) /\ t.at <= now
        /\ subOrder = NoOrder => \A t \in tx' : t.order = NoOrder
    BY <2>1, <2>2, ReadType
  <2>4. UNCHANGED <<provider, sub, quota, checkout, processed, applied, tosync, found, ask, bounds>>
    BY <1>1 DEF Receive
  <2> QED BY <2>3, <2>4 DEF TypeInv, TypeOK, Times, NoRow, provider, sub, quota, bounds
<1>2. ASSUME NEW e \in sent, MarkProcessed(e) PROVE TypeInv'
  <2>1. UNCHANGED <<provider, sub, quota, checkout, tosync, found, tx, ask, fifo, asks, assigns>>
    BY <1>2 DEF MarkProcessed
  <2>2. /\ applied' \subseteq Event /\ processed' \subseteq Event /\ faults' \in 0..MaxFaults
    BY <1>0, <1>2 DEF MarkProcessed, UpdateWebhookEvent, Fails, TypeInv, TypeOK
  <2> QED BY <2>1, <2>2 DEF TypeInv, TypeOK, Times, NoRow, provider, sub, quota
<1>3. ASSUME NEW t \in tx, Rollback(t) PROVE TypeInv'
  <2>1. /\ UNCHANGED <<provider, sub, quota, checkout, processed, applied, tosync, found, ask,
                       fifo, asks, assigns>>
        /\ tx' = tx \ {t}
    BY <1>3 DEF Rollback
  <2>2. faults' \in 0..MaxFaults
    BY <1>0, <1>3 DEF Rollback, Fails, TypeInv, TypeOK
  <2> QED BY <2>1, <2>2 DEF TypeInv, TypeOK, Times, NoRow, provider, sub, quota
<1> QED BY <1>1, <1>2, <1>3

LEMMA CheckoutType ==
  ASSUME TypeInv
  PROVE  /\ \A f \in found : BeginSync(f) => TypeInv'
         /\ \A r \in Keys \union {Page} : StartSync(r) => TypeInv'
         /\ \A r \in Keys \union {Page}, k \in Keys : FindOrder(r, k) => TypeInv'
         /\ \A k \in Keys : Decide(k) \/ OpenSession(k) => TypeInv'
<1>0. /\ MaxFaults \in Nat /\ now \in Nat /\ MaxTime[fifo] \in Nat
      /\ Keys \subseteq Orders /\ Live \subseteq Statuses /\ "start" \in Kinds
      /\ \A k \in Keys : k # Page
  BY ConstantsOK, Bounds DEF TypeInv, Orders, Live, Statuses, Kinds
<1>1. ASSUME NEW f \in found, BeginSync(f) PROVE TypeInv'
  <2>1. EventFits(f.event, now) /\ f.by \in Keys \union {Page, Webhook}
    BY DEF TypeInv, TypeOK, Times
  <2>2. Read(f.event, f.by)
    BY <1>1 DEF BeginSync
  <2>3. /\ tx' \subseteq Tx
        /\ \A t \in tx' : EventFits(t.event, now) /\ t.at <= now
        /\ subOrder = NoOrder => \A t \in tx' : t.order = NoOrder
    BY <2>1, <2>2, ReadType
  <2>4. /\ UNCHANGED <<provider, sub, quota, checkout, processed, applied, tosync, ask, bounds>>
        /\ found' = found \ {f}
    BY <1>1 DEF BeginSync
  <2> QED BY <2>3, <2>4 DEF TypeInv, TypeOK, Times, NoRow, provider, sub, quota, bounds
<1>2. ASSUME NEW r \in Keys \union {Page}, StartSync(r) PROVE TypeInv'
  <2>1. UNCHANGED <<provider, sub, quota, processed, applied, found, tx, ask, bounds>>
    BY <1>2 DEF StartSync
  <2>2. tosync' \in [Keys \union {Page} -> SUBSET Keys]
    BY <1>2 DEF StartSync, Pending, TypeInv, TypeOK
  <2>3. checkout' = checkout \/ checkout' = [checkout EXCEPT ![r] = "checking"]
    BY <1>2 DEF StartSync
  <2> QED BY <2>1, <2>2, <2>3 DEF TypeInv, TypeOK, Times, NoRow, provider, sub, quota, bounds
<1>3. ASSUME NEW r \in Keys \union {Page}, NEW k \in Keys, FindOrder(r, k) PROVE TypeInv'
  <2>1. UNCHANGED <<provider, sub, quota, processed, applied, tx, ask, fifo, asks, assigns>>
    BY <1>3 DEF FindOrder
  <2>2. tosync' \in [Keys \union {Page} -> SUBSET Keys]
    BY <1>3 DEF FindOrder, TypeInv, TypeOK
  <2>3. /\ checkout' = checkout \/ checkout' = [checkout EXCEPT ![k] = "expired"]
        /\ faults' \in 0..MaxFaults
    BY <1>0, <1>3 DEF FindOrder, UpdateCheckoutSession, Fails, TypeInv, TypeOK
  <2>4. /\ found' \subseteq [event : Event, by : Keys \union {Page}]
        /\ \A f \in found' : EventFits(f.event, now)
    <3>1. CASE found' = found
      BY <3>1 DEF TypeInv, TypeOK, Times
    <3>2. CASE found' # found
      <4> DEFINE e == Send("start", k, remote[k], born[k])
      <4>1. remote[k] \in Live /\ found' = found \union {[event |-> e, by |-> r]}
        BY <1>3, <3>2 DEF FindOrder, InService
      <4>2. born[k] \in Nat /\ born[k] <= now
        BY <1>0 DEF TypeInv, TypeOK, Times
      <4>3. EventFits(e, now)
        BY <1>0, <4>1, <4>2, SendFits
      <4> HIDE DEF e
      <4> QED BY <4>1, <4>3 DEF TypeInv, TypeOK, Times, EventFits
    <3> QED BY <3>1, <3>2
  <2> QED BY <2>1, <2>2, <2>3, <2>4 DEF TypeInv, TypeOK, Times, NoRow, provider, sub, quota
<1>4. ASSUME NEW k \in Keys, Decide(k) PROVE TypeInv'
  <2>1. UNCHANGED <<provider, sub, quota, processed, handlers, bounds>>
    BY <1>4 DEF Decide
  <2>2. checkout' = [checkout EXCEPT ![k] = "refused"] \/ checkout' = [checkout EXCEPT ![k] = "draft"]
    BY <1>4 DEF Decide, CreateCheckoutSession
  <2> QED BY <2>1, <2>2 DEF TypeInv, TypeOK, Times, NoRow, provider, sub, quota, handlers, bounds
<1>5. ASSUME NEW k \in Keys, OpenSession(k) PROVE TypeInv'
  <2>1. UNCHANGED <<remote, born, now, sent, sub, quota, processed, handlers, fifo, asks, assigns>>
    BY <1>5 DEF OpenSession
  <2>2. /\ checkout' = [checkout EXCEPT ![k] = "pending"] \/ checkout' = [checkout EXCEPT ![k] = "failed"]
        /\ session' = session \/ session' = [session EXCEPT ![k] = "open"]
        /\ faults' \in 0..MaxFaults
    BY <1>0, <1>5 DEF OpenSession, UpdateCheckoutSession, Fails, TypeInv, TypeOK
  <2> QED BY <2>1, <2>2 DEF TypeInv, TypeOK, Times, NoRow, sub, quota, handlers
<1> QED BY <1>1, <1>2, <1>3, <1>4, <1>5

LEMMA OwnerType ==
  ASSUME TypeInv
  PROVE  /\ \A status \in {"canceling", "active"} : AskProvider(status) => TypeInv'
         /\ StoreAsk => TypeInv'
         /\ \A p \in Plans : AssignPlan(p) => TypeInv'
         /\ Crash => TypeInv'
<1>0. /\ MaxFaults \in Nat /\ now \in Nat /\ MaxTime[fifo] \in Nat /\ MaxClicks[fifo] \in Nat
      /\ Live \subseteq Statuses /\ {"canceling", "active"} \subseteq Live /\ NoOrder \notin Orders
      /\ asks \in Nat /\ assigns \in Nat /\ now <= MaxTime[fifo]
  BY ConstantsOK, Bounds DEF TypeInv, TypeOK, Live, Statuses
<1>1. ASSUME NEW status \in {"canceling", "active"}, AskProvider(status) PROVE TypeInv'
  <2>1. /\ UNCHANGED <<born, session, sub, quota, checkout, processed, applied, tosync, found,
                       tx, fifo, assigns, faults>>
        /\ now' = now + 1 /\ now + 1 <= MaxTime[fifo]
    BY <1>0, <1>1 DEF AskProvider
  <2>2. subOrder \in Orders
    BY <1>0, <1>1 DEF AskProvider, TypeInv, TypeOK, NoRow
  <2>3. /\ remote' \in [Orders -> Statuses \union {"none"}]
        /\ ask' \in [order : Orders, status : {"canceling", "active"}] \union {NoAsk}
        /\ asks' \in 0..MaxClicks[fifo]
    BY <1>0, <1>1, <2>2 DEF AskProvider, TypeInv, TypeOK
  <2> DEFINE e == Send("change", subOrder, status, now + 1)
  <2>4. EventFits(e, now') /\ sent' = sent \union {e}
    BY <1>0, <1>1, <2>1, <2>2, SendFits DEF AskProvider
  <2> HIDE DEF e
  <2>5. \A d : EventFits(d, now) => EventFits(d, now')
    BY <1>0, <2>1, FitsLater
  <2>6. Times'
    <3>1. \A t \in tx : t.at <= now'
      BY <1>0, <2>1 DEF TypeInv, Times, TypeOK, Tx
    <3>2. (\A o \in Orders : born[o] <= now') /\ subAt <= now'
      BY <1>0, <2>1 DEF TypeInv, Times, TypeOK
    <3> QED BY <2>1, <2>4, <2>5, <3>1, <3>2 DEF TypeInv, Times, sub
  <2>7. TypeOK'
    <3>1. sent' \subseteq Event /\ now' \in 0..MaxTime[fifo]
      BY <1>0, <2>1, <2>4 DEF EventFits, TypeInv, TypeOK
    <3> QED BY <2>1, <2>3, <3>1 DEF TypeInv, TypeOK, sub, quota
  <2>8. NoRow'
    BY <1>0, <2>1, <2>2 DEF NoRow, sub
  <2> QED BY <2>6, <2>7, <2>8 DEF TypeInv
<1>2. ASSUME StoreAsk PROVE TypeInv'
  <2>1. UNCHANGED <<remote, born, session, sent, quota, checkout, processed, applied, tosync, found,
                    tx, fifo, asks, assigns>> /\ ask' = NoAsk /\ ask # NoAsk
    BY <1>2 DEF StoreAsk
  <2>2. /\ subOrder' = subOrder /\ subOrder # NoOrder
        /\ subStatus' \in Statuses \union {"none"}
        /\ now' = now \/ now' = now + 1
        /\ now' \in 0..MaxTime[fifo] /\ subAt' \in 0..MaxTime[fifo] /\ subAt' <= now'
        /\ faults' \in 0..MaxFaults
    BY <1>0, <1>2 DEF StoreAsk, UpdateSubscriptionStatus, sub, Fails, TypeInv, TypeOK, Times, NoRow
  <2>5. \A d : EventFits(d, now) => EventFits(d, now')
    BY <1>0, <2>2, FitsLater
  <2>6. Times'
    <3>1. \A t \in tx : t.at <= now'
      BY <1>0, <2>2 DEF TypeInv, Times, TypeOK, Tx
    <3>2. \A o \in Orders : born[o] <= now'
      BY <1>0, <2>2 DEF TypeInv, Times, TypeOK
    <3> QED BY <2>1, <2>2, <2>5, <3>1, <3>2 DEF TypeInv, Times
  <2>7. TypeOK'
    BY <2>1, <2>2 DEF TypeInv, TypeOK, quota
  <2>8. NoRow'
    BY <2>2 DEF NoRow
  <2> QED BY <2>6, <2>7, <2>8 DEF TypeInv
<1>3. ASSUME NEW p \in Plans, AssignPlan(p) PROVE TypeInv'
  <2>1. UNCHANGED <<provider, sub, checkout, processed, handlers, fifo, asks, faults>>
    BY <1>3 DEF AssignPlan
  <2>2. /\ plan' \in Plans /\ source' = "admin" /\ assigns' \in 0..MaxClicks[fifo]
    BY <1>0, <1>3 DEF AssignPlan, UpdateTenantPlan
  <2> QED BY <2>1, <2>2 DEF TypeInv, TypeOK, Times, NoRow, provider, sub, handlers
<1>4. ASSUME Crash PROVE TypeInv'
  <2>1. /\ UNCHANGED <<provider, sub, quota, processed, fifo, asks, assigns>>
        /\ applied' = {} /\ found' = {} /\ tx' = {} /\ ask' = NoAsk
        /\ tosync' \in [Keys \union {Page} -> SUBSET Keys]
    BY <1>4 DEF Crash
  <2>2. checkout' \in [Keys -> {"none", "checking", "refused", "draft", "pending", "failed",
                                "completed", "expired"}]
    BY <1>4 DEF Crash, TypeInv, TypeOK
  <2>3. faults' \in 0..MaxFaults
    BY <1>0, <1>4 DEF Crash, Fails, TypeInv, TypeOK
  <2> QED BY <2>1, <2>2, <2>3 DEF TypeInv, TypeOK, Times, NoRow, provider, sub, quota
<1> QED BY <1>1, <1>2, <1>3, <1>4

LEMMA StepType ==
  ASSUME TypeInv, [Next]_vars
  PROVE  TypeInv'
<1>1. CASE Provider
  BY <1>1, ProviderType
<1>2. CASE Service
  BY <1>2, CommitType, WebhookType, CheckoutType, OwnerType DEF Service
<1>3. CASE UNCHANGED vars
  BY <1>3 DEF TypeInv, TypeOK, Times, NoRow, vars, provider, sub, quota, handlers, bounds
<1> QED BY <1>1, <1>2, <1>3 DEF Next

LEMMA InitType == Init => TypeInv
<1> SUFFICES ASSUME Init PROVE TypeInv
  OBVIOUS
<1>1. MaxTime[fifo] \in Nat /\ MaxClicks[fifo] \in Nat /\ MaxFaults \in Nat /\ fifo \in Orderings
  BY ConstantsOK DEF Init
<1>2. TypeOK
  BY <1>1 DEF Init, TypeOK
<1> QED BY <1>2 DEF Init, TypeInv, Times, NoRow

\* Every variable has its type, with transactions that are serialised and with transactions
\* that are not: the times in the database never run ahead of the provider's.
THEOREM TypeCorrect == Spec => []TypeOK
<1>1. Spec => []TypeInv
  BY InitType, StepType, PTL DEF Spec
<1>2. TypeInv => TypeOK
  BY DEF TypeInv
<1> QED BY <1>1, <1>2, PTL

-----------------------------------------------------------------------------
(* The end of an order is the last of its events.                          *)

\* Nothing is sent: what is to be applied was sent, or found for an order that has not ended.
LEMMA EndsKept ==
  ASSUME EndsInv, UNCHANGED <<remote, sent>>,
         \A t \in tx' : t.event \in Deliverable /\ (t.event.kind = "end" => t.event \in sent),
         \A f \in found' : /\ f.event.kind = "start"
                           /\ f.event \in Deliverable \/ remote[f.event.order] # "canceled"
  PROVE  EndsInv'
<1>1. ASSUME NEW d \in sent', NEW e \in Deliverable', d.kind = "end", e.kind # "end",
             e.order = d.order
      PROVE  e.at < d.at
  <2>1. e \in Deliverable \/ remote[e.order] # "canceled"
    BY <1>1 DEF Deliverable
  <2>2. remote[d.order] = "canceled" /\ d \in sent
    BY <1>1 DEF EndsInv
  <2> QED BY <1>1, <2>1, <2>2 DEF EndsInv
<1> QED BY <1>1 DEF EndsInv

\* An order that has not ended gets one more event, which is not its end.
LEMMA EndsChanged ==
  ASSUME TypeInv, EndsInv, NEW o \in Orders, NEW status \in Live, NEW e,
         remote[o] # "canceled", remote' = [remote EXCEPT ![o] = status],
         e.order = o, e.kind # "end", sent' = sent \union {e}, UNCHANGED <<tx, found>>
  PROVE  EndsInv'
<1>1. status # "canceled" /\ remote \in [Orders -> Statuses \union {"none"}]
  BY DEF Live, TypeInv, TypeOK
<1>2. ASSUME NEW d \in sent', d.kind = "end"
      PROVE  d \in sent /\ d.order # o /\ remote'[d.order] = "canceled"
  <2>1. d \in sent /\ remote[d.order] = "canceled"
    BY <1>2 DEF EndsInv
  <2>2. d.order \in Orders
    BY <2>1 DEF TypeInv, Times, EventFits, Event
  <2> QED BY <1>1, <2>1, <2>2
<1>3. \A x \in Deliverable' : x \in Deliverable \/ x = e
  BY DEF Deliverable
<1>4. ASSUME NEW d \in sent', NEW x \in Deliverable', d.kind = "end", x.kind # "end",
             x.order = d.order
      PROVE  x.at < d.at
  BY <1>2, <1>3, <1>4 DEF EndsInv
<1>5. \A t \in tx' : t.event.kind = "end" => t.event \in sent'
  BY DEF EndsInv
<1>6. \A f \in found' : f.event.kind = "start"
  BY DEF EndsInv
<1> QED BY <1>2, <1>4, <1>5, <1>6 DEF EndsInv

\* What is to be applied was created before now.
LEMMA DeliverableFits ==
  ASSUME TypeInv
  PROVE  \A e \in Deliverable : EventFits(e, now) /\ e.at \in Nat /\ e.at <= now
BY DEF TypeInv, Times, Deliverable, EventFits, Event

LEMMA EndsProvider ==
  ASSUME TypeInv, EndsInv, Provider
  PROVE  EndsInv'
<1>1. /\ now \in Nat /\ remote \in [Orders -> Statuses \union {"none"}] /\ Keys \subseteq Orders
      /\ Elsewhere \subseteq Orders /\ "active" \in Live /\ "none" \notin Live
      /\ "canceled" \notin Live
  BY Bounds DEF TypeInv, TypeOK, Orders, Live
<1>2. ASSUME NEW k \in Keys, Pay(k) PROVE EndsInv'
  <2> DEFINE e == Send("start", k, "active", now + 2)
  <2>1. e.order = k /\ e.kind # "end"
    BY DEF Send
  <2>2. /\ remote[k] # "canceled" /\ remote' = [remote EXCEPT ![k] = "active"]
        /\ sent' = sent \union {e} /\ UNCHANGED <<tx, found>>
    BY <1>2 DEF Pay, handlers
  <2> HIDE DEF e
  <2> QED BY <1>1, <2>1, <2>2, EndsChanged
<1>3. ASSUME NEW k \in Keys, Lapse(k) PROVE EndsInv'
  BY <1>3 DEF Lapse, handlers, EndsInv, Deliverable
<1>4. ASSUME NEW o \in Orders, NEW status \in Live, Change(o, status) PROVE EndsInv'
  <2> DEFINE e == Send("change", o, status, now + 1)
  <2>1. e.order = o /\ e.kind # "end"
    BY DEF Send
  <2>2. /\ remote[o] # "canceled" /\ remote' = [remote EXCEPT ![o] = status]
        /\ sent' = sent \union {e} /\ UNCHANGED <<tx, found>>
    BY <1>1, <1>4 DEF Change, handlers
  <2> HIDE DEF e
  <2> QED BY <2>1, <2>2, EndsChanged
<1>5. ASSUME NEW o \in Orders, End(o) PROVE EndsInv'
  <2> DEFINE n == Send("end", o, "canceled", now + 1)
  <2>1. n.order = o /\ n.at = now + 1 /\ n.kind = "end"
    BY DEF Send
  <2>2. /\ remote' = [remote EXCEPT ![o] = "canceled"]
        /\ sent' = sent \union {n} /\ UNCHANGED <<tx, found>>
    BY <1>5 DEF End, handlers
  <2> HIDE DEF n
  <2>3. \A d \in sent : d.kind = "end" => remote'[d.order] = "canceled"
    BY <1>1, <2>2 DEF EndsInv, TypeInv, Times, EventFits, Event
  <2>4. ASSUME NEW d \in sent', NEW x \in Deliverable', d.kind = "end", x.kind # "end",
               x.order = d.order
        PROVE  x.at < d.at
    <3>1. x \in Deliverable /\ (d \in sent \/ d = n)
      BY <2>1, <2>2, <2>4 DEF Deliverable
    <3>2. x.at \in Nat /\ x.at <= now
      BY <3>1, DeliverableFits
    <3>3. CASE d \in sent
      BY <2>4, <3>1, <3>3 DEF EndsInv
    <3>4. CASE d = n
      BY <1>1, <2>1, <3>2, <3>4
    <3> QED BY <3>1, <3>3, <3>4
  <2>5. \A d \in sent' : d.kind = "end" => remote'[d.order] = "canceled"
    BY <1>1, <2>1, <2>2, <2>3
  <2> QED BY <2>2, <2>4, <2>5 DEF EndsInv
<1>6. ASSUME NEW o \in Orders, NEW n \in Elsewhere \ {o}, Switch(o, n) PROVE EndsInv'
  <2> DEFINE s == Send("start", n, "active", now + 1)
             c == Send("end", o, "canceled", now + 2)
  <2>1. /\ s.order = n /\ s.at = now + 1 /\ s.kind = "start"
        /\ c.order = o /\ c.at = now + 2 /\ c.kind = "end"
    BY DEF Send
  <2>2. /\ remote' = [remote EXCEPT ![o] = "canceled", ![n] = "active"]
        /\ remote[n] = "none" /\ n # o /\ n \in Orders
        /\ sent' = sent \union {s, c} /\ UNCHANGED <<tx, found>>
    BY <1>1, <1>6 DEF Switch, handlers
  <2> HIDE DEF s, c
  <2>3. \A d \in sent : d.kind = "end" => d.order # n /\ remote'[d.order] = "canceled"
    BY <1>1, <2>2 DEF EndsInv, TypeInv, Times, EventFits, Event
  <2>4. ASSUME NEW d \in sent', NEW x \in Deliverable', d.kind = "end", x.kind # "end",
               x.order = d.order
        PROVE  x.at < d.at
    <3>1. (x \in Deliverable \/ x = s) /\ (d \in sent \/ d = c)
      BY <2>1, <2>2, <2>4 DEF Deliverable
    <3>2. x.at \in Nat /\ x.at <= now + 1
      BY <1>1, <2>1, <3>1, DeliverableFits
    <3>3. CASE d \in sent
      <4>1. x # s
        BY <2>1, <2>3, <2>4, <3>3
      <4> QED BY <2>4, <3>1, <3>3, <4>1 DEF EndsInv
    <3>4. CASE d = c
      BY <1>1, <2>1, <3>2, <3>4
    <3> QED BY <3>1, <3>3, <3>4
  <2>5. \A d \in sent' : d.kind = "end" => remote'[d.order] = "canceled"
    BY <1>1, <2>1, <2>2, <2>3
  <2> QED BY <2>2, <2>4, <2>5 DEF EndsInv
<1> QED BY <1>2, <1>3, <1>4, <1>5, <1>6 DEF Provider

LEMMA EndsService ==
  ASSUME TypeInv, EndsInv, Service
  PROVE  EndsInv'
<1>1. /\ \A e \in sent : e \in Deliverable
      /\ \A t \in tx : t.event \in Deliverable /\ (t.event.kind = "end" => t.event \in sent)
      /\ \A f \in found : f.event \in Deliverable /\ f.event.kind = "start"
  BY DEF EndsInv, Deliverable
<1>2. ASSUME NEW e \in sent, Receive(e) PROVE EndsInv'
  <2>1. UNCHANGED <<remote, sent, found>> /\ \A t \in tx' : t \in tx \/ t.event = e
    BY <1>2 DEF Receive, Read, provider
  <2> QED BY <1>1, <2>1, EndsKept
<1>3. ASSUME NEW f \in found, BeginSync(f) PROVE EndsInv'
  <2>1. /\ UNCHANGED <<remote, sent>> /\ \A t \in tx' : t \in tx \/ t.event = f.event
        /\ found' \subseteq found
    BY <1>3 DEF BeginSync, Read, provider
  <2> QED BY <1>1, <2>1, EndsKept
<1>4. ASSUME NEW r \in Keys \union {Page}, NEW k \in Keys, FindOrder(r, k) PROVE EndsInv'
  <2>1. /\ UNCHANGED <<remote, sent, tx>>
        /\ \A f \in found' : \/ f \in found
                             \/ f.event.kind = "start" /\ remote[f.event.order] # "canceled"
    BY <1>4 DEF FindOrder, provider, Send, InService, Live
  <2> QED BY <1>1, <2>1, EndsKept
<1>5. ASSUME NEW status \in {"canceling", "active"}, AskProvider(status) PROVE EndsInv'
  <2> DEFINE e == Send("change", subOrder, status, now + 1)
  <2>1. e.order = subOrder /\ e.kind # "end"
    BY DEF Send
  <2>2. /\ remote[subOrder] # "canceled" /\ remote' = [remote EXCEPT ![subOrder] = status]
        /\ sent' = sent \union {e} /\ UNCHANGED <<tx, found>>
    BY <1>5 DEF AskProvider, Live
  <2>3. subOrder \in Orders /\ status \in Live
    BY <1>5 DEF AskProvider, TypeInv, TypeOK, NoRow, Live
  <2> HIDE DEF e
  <2> QED BY <2>1, <2>2, <2>3, EndsChanged
<1>6. ASSUME UNCHANGED <<remote, sent>>, tx' \subseteq tx, found' \subseteq found PROVE EndsInv'
  BY <1>1, <1>6, EndsKept
<1>7. ASSUME NEW e \in sent, MarkProcessed(e) PROVE EndsInv'
  BY <1>6, <1>7 DEF MarkProcessed, provider
<1>8. ASSUME NEW t \in tx, Commit(t) \/ Rollback(t) PROVE EndsInv'
  BY <1>6, <1>8 DEF Commit, Rollback, provider
<1>9. ASSUME NEW r \in Keys \union {Page}, StartSync(r) PROVE EndsInv'
  BY <1>6, <1>9 DEF StartSync, provider
<1>10. ASSUME NEW k \in Keys, Decide(k) \/ OpenSession(k) PROVE EndsInv'
  BY <1>6, <1>10 DEF Decide, OpenSession, provider, handlers
<1>11. ASSUME StoreAsk \/ Crash PROVE EndsInv'
  BY <1>6, <1>11 DEF StoreAsk, Crash, provider
<1>12. ASSUME NEW p \in Plans, AssignPlan(p) PROVE EndsInv'
  BY <1>6, <1>12 DEF AssignPlan, provider, handlers
<1> QED BY <1>2, <1>3, <1>4, <1>5, <1>7, <1>8, <1>9, <1>10, <1>11, <1>12 DEF Service

-----------------------------------------------------------------------------
(* One transaction at a time.                                              *)

\* A step that writes the subscription finds no transaction open or is its commit; a
\* transaction that begins reads what is there.
LEMMA FreshStep ==
  ASSUME Serial, Fresh, [Next]_vars
  PROVE  Fresh'
<1>1. ASSUME tx' = tx, UNCHANGED sub PROVE Fresh'
  BY <1>1 DEF Fresh, sub
<1>2. ASSUME tx' = {} PROVE Fresh'
  BY <1>2 DEF Fresh
<1>3. ASSUME NEW e, NEW by, Read(e, by), UNCHANGED sub PROVE Fresh'
  <2> DEFINE n == [event |-> e, by |-> by, order |-> subOrder, status |-> subStatus, at |-> subAt]
  <2>1. tx' = {n}
    BY <1>3 DEF Read, Unlocked, GetSubscriptionByTenant
  <2>2. n.order = subOrder /\ n.status = subStatus /\ n.at = subAt
    OBVIOUS
  <2> HIDE DEF n
  <2> QED BY <1>3, <2>1, <2>2 DEF Fresh, sub
<1>4. ASSUME Provider PROVE Fresh'
  BY <1>1, <1>4 DEF Provider, Pay, Lapse, Change, End, Switch, handlers
<1>5. ASSUME NEW e \in sent, Receive(e) \/ MarkProcessed(e) PROVE Fresh'
  <2>1. CASE Receive(e)
    BY <1>3, <2>1 DEF Receive
  <2>2. CASE MarkProcessed(e)
    BY <1>1, <2>2 DEF MarkProcessed
  <2> QED BY <1>5, <2>1, <2>2
<1>6. ASSUME NEW t \in tx, Commit(t) \/ Rollback(t) PROVE Fresh'
  <2>1. tx = {t} /\ tx' = tx \ {t}
    BY <1>6 DEF Fresh, Commit, Rollback
  <2> QED BY <1>2, <2>1
<1>7. ASSUME NEW f \in found, BeginSync(f) PROVE Fresh'
  BY <1>3, <1>7 DEF BeginSync
<1>8. ASSUME NEW r \in Keys \union {Page}, StartSync(r) \/ \E k \in Keys : FindOrder(r, k) PROVE Fresh'
  BY <1>1, <1>8 DEF StartSync, FindOrder
<1>9. ASSUME NEW k \in Keys, Decide(k) \/ OpenSession(k) PROVE Fresh'
  BY <1>1, <1>9 DEF Decide, OpenSession, handlers
<1>10. ASSUME NEW status \in {"canceling", "active"}, AskProvider(status) PROVE Fresh'
  BY <1>1, <1>10 DEF AskProvider
<1>11. ASSUME StoreAsk \/ Crash PROVE Fresh'
  BY <1>2, <1>11 DEF StoreAsk, Crash, Unlocked
<1>12. ASSUME NEW p \in Plans, AssignPlan(p) PROVE Fresh'
  BY <1>1, <1>12 DEF AssignPlan, handlers
<1>13. ASSUME UNCHANGED vars PROVE Fresh'
  BY <1>1, <1>13 DEF vars, handlers
<1> QED BY <1>4, <1>5, <1>6, <1>7, <1>8, <1>9, <1>10, <1>11, <1>12, <1>13 DEF Next, Service

-----------------------------------------------------------------------------
(* Who writes the subscription and the plan.                               *)

\* Everything else leaves both.
LEMMA OthersLeave ==
  ASSUME [Next]_vars
  PROVE  \/ UNCHANGED <<sub, quota>>
         \/ \E t \in tx : Commit(t)
         \/ StoreAsk
         \/ \E p \in Plans : AssignPlan(p)
<1>1. Provider => UNCHANGED <<sub, quota>>
  BY DEF Provider, Pay, Lapse, Change, End, Switch
<1>2. Service => \/ UNCHANGED <<sub, quota>>
                 \/ \E t \in tx : Commit(t)
                 \/ StoreAsk
                 \/ \E p \in Plans : AssignPlan(p)
  BY DEF Service, Receive, MarkProcessed, Rollback, BeginSync, StartSync, FindOrder, Decide,
         OpenSession, AskProvider, Crash
<1> QED BY <1>1, <1>2 DEF Next, vars

\* What a commit has read is the row, what it applies has its form, and the end of an
\* order was sent by the provider, which has ended the order.
LEMMA CommitRead ==
  ASSUME TypeInv, EndsInv, Fresh, NEW t \in tx
  PROVE  /\ t.order = subOrder /\ t.status = subStatus /\ t.at = subAt
         /\ t.event \in Deliverable /\ t.event.order \in Orders /\ t.event.at \in Nat
         /\ t.event.kind # "end" => t.event.status \in Live
         /\ t.event.kind = "end" => t.event \in sent /\ remote[t.event.order] = "canceled"
         /\ PlanOf[t.event.order] \in Plans
         /\ subOrder = NoOrder => t.event.order # subOrder
<1>1. t.event.order \in Orders /\ t.event.at \in Nat /\ EventFits(t.event, now)
  BY DEF TypeInv, Times, EventFits, Event
<1> QED BY <1>1, ConstantsOK DEF Fresh, EndsInv, Deliverable, EventFits

\* An event that is neither dropped nor an end is recorded, and grants what it records.
LEMMA Applied ==
  ASSUME NEW t, ApplyStatus(t), ~Dropped(t)
  PROVE  /\ subOrder' = t.event.order /\ subStatus' = t.event.status /\ subAt' = t.event.at
         /\ \/ plan' = PlanOf[t.event.order] /\ source' = "subscription"
            \/ t.event.kind # "start" /\ t.order = t.event.order /\ UNCHANGED quota
BY DEF ApplyStatus, UpsertSubscription, UpdateTenantSubscriptionQuota, Grants

\* The end of the current order is recorded, and its plan taken back.
LEMMA Ended ==
  ASSUME NEW t, ApplyCanceled(t), t.order = t.event.order, t.status # "canceled"
  PROVE  /\ subOrder' = subOrder /\ subStatus' = "canceled" /\ subAt' = t.event.at
         /\ plan' = (IF source = "subscription" THEN Default ELSE plan) /\ source' = "admin"
BY DEF ApplyCanceled, UpdateSubscriptionStatus, RestoreTenantQuotaSource

LEMMA CommitCases ==
  ASSUME NEW t \in tx, Commit(t)
  PROVE  \/ UNCHANGED <<sub, quota>>
         \/ t.event.kind # "end" /\ ApplyStatus(t) /\ ~Dropped(t)
         \/ t.event.kind = "end" /\ ApplyCanceled(t) /\ t.order = t.event.order /\ t.status # "canceled"
BY DEF Commit, ApplyStatus, ApplyCanceled

\* A cancel or uncancel keeps the order, and leaves it in service.
LEMMA StoreAskKeeps ==
  ASSUME TypeInv, StoreAsk
  PROVE  /\ UNCHANGED <<subOrder, quota>> /\ ask # NoAsk /\ ask' = NoAsk
         /\ UNCHANGED sub \/ subStatus' = ask.status
         /\ ask.status # "canceled" /\ sent' = sent
BY DEF StoreAsk, UpdateSubscriptionStatus, sub, TypeInv, TypeOK

-----------------------------------------------------------------------------
(* The inductive invariant.                                                *)

LEMMA SentGrows ==
  ASSUME [Next]_vars
  PROVE  sent \subseteq sent'
<1>1. Provider => sent \subseteq sent'
  BY DEF Provider, Pay, Lapse, Change, End, Switch
<1>2. Service => sent \subseteq sent'
  BY DEF Service, Receive, MarkProcessed, Commit, Rollback, BeginSync, StartSync, FindOrder,
         Decide, OpenSession, AskProvider, StoreAsk, AssignPlan, Crash, provider
<1> QED BY <1>1, <1>2 DEF Next, vars, provider

LEMMA CanceledAtStep ==
  ASSUME IInv, [Next]_vars
  PROVE  CanceledAt'
<1>1. sent \subseteq sent' /\ "canceled" \notin Live
  BY SentGrows DEF Live
<1>2. ASSUME UNCHANGED sub PROVE CanceledAt'
  BY <1>1, <1>2 DEF IInv, CanceledAt, sub
<1>3. ASSUME NEW t \in tx, Commit(t) PROVE CanceledAt'
  <2>1. /\ t.order = subOrder
        /\ t.event.kind # "end" => t.event.status \in Live
        /\ t.event.kind = "end" => t.event \in sent
    BY CommitRead DEF IInv
  <2>2. CASE t.event.kind # "end" /\ ApplyStatus(t) /\ ~Dropped(t)
    BY <1>1, <2>1, <2>2, Applied DEF CanceledAt
  <2>3. CASE t.event.kind = "end" /\ ApplyCanceled(t) /\ t.order = t.event.order /\ t.status # "canceled"
    BY <1>1, <2>1, <2>3, Ended DEF CanceledAt
  <2> QED BY <1>2, <1>3, <2>2, <2>3, CommitCases
<1>4. ASSUME StoreAsk PROVE CanceledAt'
  BY <1>2, <1>4, StoreAskKeeps DEF IInv, CanceledAt
<1>5. ASSUME NEW p \in Plans, AssignPlan(p) PROVE CanceledAt'
  BY <1>2, <1>5 DEF AssignPlan
<1> QED BY <1>2, <1>3, <1>4, <1>5, OthersLeave

LEMMA GrantBackedStep ==
  ASSUME IInv, [Next]_vars
  PROVE  GrantBacked'
<1>1. "canceled" \notin Live /\ NoOrder \notin Orders
  BY ConstantsOK DEF Live
<1>2. ASSUME UNCHANGED <<sub, quota>> PROVE GrantBacked'
  BY <1>2 DEF IInv, GrantBacked, sub, quota
<1>3. ASSUME NEW t \in tx, Commit(t) PROVE GrantBacked'
  <2>1. /\ t.order = subOrder /\ t.event.order \in Orders
        /\ t.event.kind # "end" => t.event.status \in Live
    BY CommitRead DEF IInv
  <2>2. CASE t.event.kind # "end" /\ ApplyStatus(t) /\ ~Dropped(t)
    <3>1. /\ subOrder' = t.event.order /\ subStatus' = t.event.status
          /\ \/ plan' = PlanOf[t.event.order] /\ source' = "subscription"
             \/ t.order = t.event.order /\ UNCHANGED quota
      BY <2>2, Applied
    <3> QED BY <1>1, <2>1, <2>2, <3>1 DEF IInv, GrantBacked, quota
  <2>3. CASE t.event.kind = "end" /\ ApplyCanceled(t) /\ t.order = t.event.order /\ t.status # "canceled"
    BY <2>3, Ended DEF GrantBacked
  <2> QED BY <1>2, <1>3, <2>2, <2>3, CommitCases
<1>4. ASSUME StoreAsk PROVE GrantBacked'
  BY <1>2, <1>4, StoreAskKeeps DEF IInv, GrantBacked, quota
<1>5. ASSUME NEW p \in Plans, AssignPlan(p) PROVE GrantBacked'
  BY <1>5 DEF AssignPlan, UpdateTenantPlan, GrantBacked
<1> QED BY <1>2, <1>3, <1>4, <1>5, OthersLeave

LEMMA StepInv ==
  ASSUME Serial, IInv, [Next]_vars
  PROVE  IInv'
<1>1. TypeInv' /\ Fresh' /\ CanceledAt' /\ GrantBacked'
  BY StepType, FreshStep, CanceledAtStep, GrantBackedStep DEF IInv
<1>2. EndsInv'
  <2>1. CASE UNCHANGED vars
    BY <2>1 DEF IInv, EndsInv, Deliverable, vars, provider, handlers
  <2> QED BY <2>1, EndsProvider, EndsService DEF Next, IInv
<1> QED BY <1>1, <1>2 DEF IInv

LEMMA InitInv == Init => IInv
BY InitType DEF Init, IInv, EndsInv, Deliverable, Fresh, CanceledAt, GrantBacked

\* With transactions serialised the invariant holds throughout.
THEOREM Inductive ==
  ASSUME Serial
  PROVE  Spec => []IInv
<1>1. IInv /\ [Next]_vars => IInv'
  BY StepInv
<1> QED BY <1>1, InitInv, PTL DEF Spec

\* No path grants one thing and records another: with transactions serialised, a plan that
\* counts as paid for is the plan of the current order, which has not been ended here.
THEOREM GrantsBacked ==
  ASSUME Serial
  PROVE  Spec => []GrantBacked
<1>1. IInv => GrantBacked
  BY DEF IInv
<1> QED BY <1>1, Inductive, PTL

\* A paid plan is taken back only when the current order has ended at the provider.
THEOREM LateCancelHarmless ==
  ASSUME Serial
  PROVE  Spec => OldCancelHarmless
<1>1. ASSUME IInv, Next, source = "subscription", plan' = Default
      PROVE  remote[subOrder] = "canceled"
  <2>1. plan \in Plans /\ Default \notin Plans
    BY <1>1, ConstantsOK DEF IInv, GrantBacked, TypeInv, TypeOK
  <2>2. PICK t \in tx : Commit(t)
    <3>1. plan' # plan
      BY <1>1, <2>1
    <3>2. ~StoreAsk
      BY <3>1 DEF StoreAsk, quota
    <3>3. \A p \in Plans : ~AssignPlan(p)
      BY <1>1, <2>1 DEF AssignPlan, UpdateTenantPlan
    <3> QED BY <1>1, <3>1, <3>2, <3>3, OthersLeave DEF quota
  <2>3. /\ t.order = subOrder /\ PlanOf[t.event.order] \in Plans
        /\ t.event.kind = "end" => remote[t.event.order] = "canceled"
    BY <1>1, CommitRead DEF IInv
  <2>4. ~(t.event.kind # "end" /\ ApplyStatus(t) /\ ~Dropped(t))
    BY <1>1, <2>1, <2>3, Applied DEF quota
  <2>5. plan' # plan
    BY <1>1, <2>1
  <2> QED BY <2>2, <2>3, <2>4, <2>5, CommitCases DEF quota
<1>2. IInv /\ [Next]_vars => [(source = "subscription" /\ plan' = Default)
                                => remote[subOrder] = "canceled"]_vars
  BY <1>1
<1> QED BY <1>2, Inductive, PTL DEF Spec, OldCancelHarmless

\* An order that was ended here comes back to life by a stored cancel or uncancel at most:
\* no event of it that is still to be applied is younger than its end.
THEOREM CancelsFinal ==
  ASSUME Serial
  PROVE  Spec => CanceledIsFinal
<1>1. ASSUME IInv, Next, subStatus = "canceled", subOrder' = subOrder, subStatus' # "canceled"
      PROVE  ask # NoAsk /\ ask' = NoAsk /\ subStatus' = ask.status
  <2>1. ASSUME NEW t \in tx, Commit(t) PROVE FALSE
    <3>1. /\ t.order = subOrder /\ t.at = subAt /\ t.event \in Deliverable /\ t.event.at \in Nat
          /\ subOrder = NoOrder => t.event.order # subOrder
      BY <1>1, CommitRead DEF IInv
    <3>2. t.event.kind # "end" /\ ApplyStatus(t) /\ ~Dropped(t)
      BY <1>1, <2>1, CommitCases, Ended DEF sub
    <3>3. t.event.order = subOrder
      BY <1>1, <3>2, Applied
    <3>4. PICK d \in sent : d.kind = "end" /\ d.order = subOrder /\ d.at = subAt
      BY <1>1 DEF IInv, CanceledAt
    <3>5. t.event.at < t.at
      BY <1>1, <3>1, <3>2, <3>3, <3>4 DEF IInv, EndsInv
    <3> QED BY <3>1, <3>2, <3>3, <3>5 DEF Dropped
  <2>2. CASE StoreAsk
    BY <1>1, <2>2, StoreAskKeeps DEF IInv, sub
  <2>3. CASE UNCHANGED sub
    BY <1>1, <2>3 DEF sub
  <2>4. ASSUME NEW p \in Plans, AssignPlan(p) PROVE UNCHANGED sub
    BY <2>4 DEF AssignPlan
  <2> QED BY <1>1, <2>1, <2>2, <2>3, <2>4, OthersLeave
<1>2. IInv /\ [Next]_vars =>
        [(subStatus = "canceled" /\ subOrder' = subOrder /\ subStatus' # "canceled")
           => ask # NoAsk /\ ask' = NoAsk /\ subStatus' = ask.status]_vars
  BY <1>1
<1> QED BY <1>2, Inductive, PTL DEF Spec, CanceledIsFinal
-----------------------------------------------------------------------------
(* In order, and with nobody at the buttons, the plan converges.           *)

Undisturbed == fifo /\ asks = 0 /\ assigns = 0

\* All that was sent before was processed.
Reached(e) == e \in sent /\ \A d \in sent : d.at < e.at => d \in processed
\* What was marked, or will be.
Done(e)    == e \in applied \union processed

\* The provider: an order begins with its start and ends with its end, each of which is sent
\* once, and the starts of two orders come in the order in which these were created.
OrdersInv ==
  /\ \A e \in sent : remote[e.order] # "none"
  /\ \A o \in Orders : remote[o] # "none" => \E s \in sent : s.kind = "start" /\ s.order = o
  /\ \A o \in Orders : remote[o] = "canceled" => \E d \in sent : d.kind = "end" /\ d.order = o
  /\ \A e, s \in sent : s.kind = "start" /\ s.order = e.order /\ e # s => s.at < e.at
  /\ \A d, e \in sent : d.kind = "end" /\ e.kind = "end" /\ d.order = e.order => d = e
  /\ \A e \in sent : born[e.order] <= e.at
  /\ \A s \in sent, o \in Orders : s.kind = "start" /\ remote[o] # "none" /\ born[s.order] < born[o] => s.at < born[o]
  /\ \A n, o \in Orders : remote[n] # "none" /\ remote[o] # "none" /\ born[n] = born[o] => n = o

\* The order in service is the last one.
LastInv == ~PaidTwice => \A o, n \in Orders : remote[o] \in Live /\ remote[n] # "none" => born[n] <= born[o]

\* A transaction is of the next event, or of an order that a sync has found.
FromSync(e) == e.kind = "start" /\ remote[e.order] # "none" /\ e.at = born[e.order]
WorkInv ==
  /\ \A f \in found : FromSync(f.event)
  /\ \A t \in tx : IF t.by = Webhook THEN Reached(t.event) /\ t.event \notin processed ELSE FromSync(t.event)
  /\ applied \subseteq sent /\ processed \subseteq sent
  /\ \A e \in applied : Reached(e)
  /\ \A d, e \in sent : e \in processed /\ d.at < e.at => d \in processed

\* The row is of an order that was created, and its time that of its order's creation, or of
\* an event of which all before it were processed.
RowInv ==
  /\ subOrder # NoOrder => remote[subOrder] # "none" /\ born[subOrder] <= subAt
  /\ subOrder # NoOrder => subAt = born[subOrder] \/ \E e \in sent : Reached(e) /\ e.at = subAt
  /\ subOrder # NoOrder => subStatus # "none"

\* The row is not of an order before one whose start was processed, and not in service once
\* the end of its order was.
StartsDone == \A s \in sent : Done(s) /\ s.kind = "start" => subOrder # NoOrder /\ born[s.order] <= born[subOrder]
EndsDone   == \A d \in sent : Done(d) /\ d.kind = "end" /\ d.order = subOrder => subStatus = "canceled"

\* The plan goes with the row.
PlanInv == /\ ask = NoAsk
           /\ source = IF subOrder # NoOrder /\ subStatus # "canceled" THEN "subscription" ELSE "admin"
           /\ source = "admin" => plan = Default

ConvInv == Undisturbed => OrdersInv /\ LastInv /\ WorkInv /\ RowInv /\ StartsDone /\ EndsDone /\ PlanInv

LEMMA BeginsUndisturbed ==
  ASSUME Init
  PROVE  ConvInv
<1>1. OrdersInv
  BY DEF Init, OrdersInv
<1>2. LastInv
  BY DEF Init, LastInv, Live
<1>3. WorkInv /\ RowInv /\ StartsDone /\ EndsDone /\ PlanInv
  BY DEF Init, WorkInv, RowInv, StartsDone, EndsDone, PlanInv, Done
<1> QED BY <1>1, <1>2, <1>3 DEF ConvInv

-----------------------------------------------------------------------------
\* The provider sends new events, each of an order of its own: an order that begins is
\* created now, and has a start; one that ends has been in service.
LEMMA OrdersGrow ==
  ASSUME TypeInv, EndsInv, OrdersInv, NEW new, sent' = sent \union new, new \subseteq Event,
         \A e \in new : /\ e.at > now /\ remote'[e.order] # "none" /\ born'[e.order] <= e.at
                        /\ e.kind = "start" <=> remote[e.order] = "none"
                        /\ e.kind = "end" => remote[e.order] \in Live,
         \A d, e \in new : d.order = e.order => d = e,
         \A o \in Orders : remote[o] # "none" => remote'[o] # "none" /\ born'[o] = born[o],
         \A o \in Orders : remote'[o] # "none" /\ remote[o] = "none" =>
                            born'[o] = now + 1 /\ \E s \in new : s.kind = "start" /\ s.order = o,
         \A n, o \in Orders : remote'[n] # "none" /\ remote[n] = "none" /\ remote'[o] # "none" /\ remote[o] = "none" => n = o,
         \A o \in Orders : remote'[o] = "canceled" =>
                            remote[o] = "canceled" \/ \E d \in new : d.kind = "end" /\ d.order = o
  PROVE  OrdersInv'
<1>1. now \in Nat /\ born \in [Orders -> Nat] /\ \A o \in Orders : born[o] <= now
  BY Bounds DEF TypeInv, TypeOK, Times
<1>2. \A e \in sent : e \in Event /\ e.at \in Nat /\ e.at <= now /\ e.order \in Orders
  BY DEF TypeInv, Times, EventFits, Event
<1>3. \A e \in new : e.at \in Nat /\ e.order \in Orders
  BY DEF Event
<1>4. \A e \in sent : remote[e.order] # "none" /\ born[e.order] <= e.at
  BY DEF OrdersInv
<1>5. \A e \in sent' : remote'[e.order] # "none" /\ born'[e.order] <= e.at
  BY <1>2, <1>4
<1>6. \A o \in Orders : remote'[o] # "none" => \E s \in sent' : s.kind = "start" /\ s.order = o
  BY DEF OrdersInv
<1>7. \A o \in Orders : remote'[o] = "canceled" => \E d \in sent' : d.kind = "end" /\ d.order = o
  BY DEF OrdersInv
<1>8. \A e, s \in sent' : s.kind = "start" /\ s.order = e.order /\ e # s => s.at < e.at
  <2> SUFFICES ASSUME NEW e \in sent', NEW s \in sent', s.kind = "start", s.order = e.order, e # s
               PROVE  s.at < e.at
    OBVIOUS
  <2>1. CASE s \in new
    <3>1. e \in new
      BY <1>4, <2>1
    <3> QED BY <2>1, <3>1
  <2>2. CASE s \in sent /\ e \in sent
    BY <2>2 DEF OrdersInv
  <2>3. CASE s \in sent /\ e \in new
    BY <1>1, <1>2, <1>3, <2>3
  <2> QED BY <2>1, <2>2, <2>3
<1>9. \A d, e \in sent' : d.kind = "end" /\ e.kind = "end" /\ d.order = e.order => d = e
  <2>1. \A d \in sent : d.kind = "end" => remote[d.order] \notin Live
    BY DEF EndsInv, Live
  <2> QED BY <2>1 DEF OrdersInv
<1>10. \A s \in sent', o \in Orders : s.kind = "start" /\ remote'[o] # "none" /\ born'[s.order] < born'[o] => s.at < born'[o]
  <2> SUFFICES ASSUME NEW s \in sent', NEW o \in Orders, s.kind = "start", remote'[o] # "none", born'[s.order] < born'[o]
               PROVE  s.at < born'[o]
    OBVIOUS
  <2>1. CASE s \in sent /\ remote[o] # "none"
    BY <1>2, <1>4, <2>1 DEF OrdersInv
  <2>2. CASE s \in sent /\ remote[o] = "none"
    BY <1>1, <1>2, <2>2
  <2>3. CASE s \in new /\ remote[o] # "none"
    <3>1. born'[s.order] = now + 1 /\ born'[o] <= now
      BY <1>1, <1>3, <2>3
    <3> QED BY <1>1, <2>3, <3>1
  <2>4. CASE s \in new /\ remote[o] = "none"
    <3>1. s.order = o
      BY <1>3, <2>4
    <3> QED BY <1>1, <2>4, <3>1
  <2> QED BY <2>1, <2>2, <2>3, <2>4
<1>11. \A n, o \in Orders : remote'[n] # "none" /\ remote'[o] # "none" /\ born'[n] = born'[o] => n = o
  <2> SUFFICES ASSUME NEW n \in Orders, NEW o \in Orders, remote'[n] # "none", remote'[o] # "none", born'[n] = born'[o]
               PROVE  n = o
    OBVIOUS
  <2>1. CASE remote[n] # "none" /\ remote[o] # "none"
    BY <2>1 DEF OrdersInv
  <2>2. CASE remote[n] = "none" /\ remote[o] # "none"
    BY <1>1, <2>2
  <2>3. CASE remote[n] # "none" /\ remote[o] = "none"
    BY <1>1, <2>3
  <2> QED BY <2>1, <2>2, <2>3
<1> QED BY <1>5, <1>6, <1>7, <1>8, <1>9, <1>10, <1>11 DEF OrdersInv

\* What was paid twice stays so: the ends to come are later.
LEMMA PaidTwiceKept ==
  ASSUME TypeInv, PaidTwice, sent \subseteq sent',
         \A e \in sent' \ sent : e \in Event /\ e.at > now
  PROVE  PaidTwice'
<1>1. PICK a, b \in sent :
        /\ a.kind = "start" /\ b.kind = "start" /\ b.order \in Keys \ {a.order} /\ a.at < b.at
        /\ \A d \in sent : d.kind = "end" /\ d.order = a.order => b.at < d.at
  BY DEF PaidTwice
<1>2. now \in Nat /\ b.at \in Nat /\ b.at <= now
  BY Bounds DEF TypeInv, Times, EventFits, Event
<1>3. \A d \in sent' : d.kind = "end" /\ d.order = a.order => b.at < d.at
  BY <1>1, <1>2 DEF Event
<1> QED BY <1>1, <1>3 DEF PaidTwice

LEMMA PayOrders ==
  ASSUME IInv, OrdersInv, LastInv, NEW k \in Keys, Pay(k)
  PROVE  OrdersInv' /\ LastInv'
<1>0. PICK s : s = Send("start", k, "active", now + 2)
  OBVIOUS
<1>1. /\ now \in Nat /\ remote \in [Orders -> Statuses \union {"none"}]
      /\ born \in [Orders -> Nat] /\ k \in Orders /\ \A o \in Orders : born[o] <= now
  BY Bounds DEF IInv, TypeInv, TypeOK, Times, Orders
<1>2. /\ s \in Event /\ s.kind = "start" /\ s.order = k /\ s.at = now + 2
  BY <1>0, <1>1 DEF Send, Event, Kinds, Statuses, Live
<1>3. /\ remote[k] = "none" /\ sent' = sent \union {s}
      /\ \A o \in Orders : /\ remote'[o] = IF o = k THEN "active" ELSE remote[o]
                           /\ born'[o] = IF o = k THEN now + 1 ELSE born[o]
  BY <1>0, <1>1 DEF Pay
<1>4. OrdersInv'
  <2> DEFINE new == {s}
  <2>1. \A e \in new : /\ e.at > now /\ remote'[e.order] # "none" /\ born'[e.order] <= e.at
                       /\ e.kind = "start" <=> remote[e.order] = "none"
                       /\ e.kind = "end" => remote[e.order] \in Live
    BY <1>1, <1>2, <1>3
  <2>2. new \subseteq Event /\ sent' = sent \union new /\ \A d, e \in new : d.order = e.order => d = e
    BY <1>2, <1>3
  <2>3. \A o \in Orders : remote[o] # "none" => remote'[o] # "none" /\ born'[o] = born[o]
    BY <1>3
  <2>4. \A o \in Orders : remote'[o] # "none" /\ remote[o] = "none" => o = k
    BY <1>3
  <2>5. born'[k] = now + 1 /\ \E e \in new : e.kind = "start" /\ e.order = k
    BY <1>1, <1>2, <1>3
  <2>6. \A o \in Orders : remote'[o] = "canceled" => remote[o] = "canceled"
    BY <1>3
  <2> HIDE DEF new
  <2> QED BY <2>1, <2>2, <2>3, <2>4, <2>5, <2>6, OrdersGrow DEF IInv
<1>5. ASSUME ~PaidTwice' PROVE \A o, n \in Orders : (remote[o] \in Live /\ remote[n] # "none" => born[n] <= born[o])'
  <2>1. \A o \in Orders : remote[o] \notin Live
    <3> SUFFICES ASSUME NEW o \in Orders, remote[o] \in Live PROVE FALSE
      OBVIOUS
    <3>1. o # k /\ remote[o] # "none"
      BY <1>3 DEF Live
    <3>2. PICK a \in sent : a.kind = "start" /\ a.order = o
      BY <3>1 DEF OrdersInv
    <3>3. \A d \in sent : d.kind = "end" => d.order # o
      BY DEF IInv, EndsInv, Live
    <3>4. a.at < s.at
      BY <1>1, <1>2 DEF IInv, TypeInv, Times, EventFits, Event
    <3>5. \A d \in sent' : d.kind = "end" /\ d.order = a.order => s.at < d.at
      BY <1>2, <1>3, <3>2, <3>3
    <3> QED BY <1>2, <1>3, <1>5, <3>1, <3>2, <3>4, <3>5 DEF PaidTwice
  <2> QED BY <1>1, <1>3, <2>1
<1> QED BY <1>4, <1>5 DEF LastInv

LEMMA ChangeOrders ==
  ASSUME IInv, OrdersInv, LastInv, NEW o \in Orders, NEW status \in Live, Change(o, status)
  PROVE  OrdersInv' /\ LastInv'
<1>0. PICK e : e = Send("change", o, status, now + 1)
  OBVIOUS
<1>1. /\ now \in Nat /\ remote \in [Orders -> Statuses \union {"none"}]
      /\ born \in [Orders -> Nat] /\ \A p \in Orders : born[p] <= now
  BY Bounds DEF IInv, TypeInv, TypeOK, Times
<1>2. e \in Event /\ e.kind = "change" /\ e.order = o /\ e.at = now + 1
  BY <1>0, <1>1 DEF Send, Event, Kinds, Statuses
<1>3. /\ remote[o] \in Live /\ sent' = sent \union {e} /\ born' = born
      /\ \A p \in Orders : remote'[p] = IF p = o THEN status ELSE remote[p]
  BY <1>0, <1>1 DEF Change
<1>4. remote[o] # "none" /\ status # "none" /\ status # "canceled" /\ status \in Live
  BY <1>3 DEF Live
<1>5. OrdersInv'
  <2> DEFINE new == {e}
  <2>1. \A d \in new : /\ d.at > now /\ remote'[d.order] # "none" /\ born'[d.order] <= d.at
                       /\ d.kind = "start" <=> remote[d.order] = "none"
                       /\ d.kind = "end" => remote[d.order] \in Live
    BY <1>1, <1>2, <1>3, <1>4
  <2>2. new \subseteq Event /\ sent' = sent \union new /\ \A d, c \in new : c.order = d.order => c = d
    BY <1>2, <1>3
  <2>3. \A p \in Orders : remote[p] # "none" => remote'[p] # "none" /\ born'[p] = born[p]
    BY <1>3, <1>4
  <2>4. \A p \in Orders : ~(remote'[p] # "none" /\ remote[p] = "none")
    BY <1>3, <1>4
  <2>5. \A p \in Orders : remote'[p] = "canceled" => remote[p] = "canceled"
    BY <1>3, <1>4
  <2> HIDE DEF new
  <2> QED BY <2>1, <2>2, <2>3, <2>4, <2>5, OrdersGrow DEF IInv
<1>6. \A p, n \in Orders : remote'[p] \in Live /\ remote'[n] # "none" => remote[p] \in Live /\ remote[n] # "none"
  BY <1>3, <1>4
<1>7. ~PaidTwice' => ~PaidTwice
  BY <1>1, <1>2, <1>3, PaidTwiceKept DEF IInv
<1> QED BY <1>3, <1>5, <1>6, <1>7 DEF LastInv

LEMMA EndOrders ==
  ASSUME IInv, OrdersInv, LastInv, NEW o \in Orders, End(o)
  PROVE  OrdersInv' /\ LastInv'
<1>0. PICK e : e = Send("end", o, "canceled", now + 1)
  OBVIOUS
<1>1. /\ now \in Nat /\ remote \in [Orders -> Statuses \union {"none"}]
      /\ born \in [Orders -> Nat] /\ \A p \in Orders : born[p] <= now
  BY Bounds DEF IInv, TypeInv, TypeOK, Times
<1>2. e \in Event /\ e.kind = "end" /\ e.order = o /\ e.at = now + 1
  BY <1>0, <1>1 DEF Send, Event, Kinds, Statuses
<1>3. /\ remote[o] \in Live /\ sent' = sent \union {e} /\ born' = born
      /\ \A p \in Orders : remote'[p] = IF p = o THEN "canceled" ELSE remote[p]
  BY <1>0, <1>1 DEF End
<1>4. remote[o] # "none" /\ "canceled" \notin Live
  BY <1>3 DEF Live
<1>5. OrdersInv'
  <2> DEFINE new == {e}
  <2>1. \A d \in new : /\ d.at > now /\ remote'[d.order] # "none" /\ born'[d.order] <= d.at
                       /\ d.kind = "start" <=> remote[d.order] = "none"
                       /\ d.kind = "end" => remote[d.order] \in Live
    BY <1>1, <1>2, <1>3, <1>4
  <2>2. new \subseteq Event /\ sent' = sent \union new /\ \A d, c \in new : c.order = d.order => c = d
    BY <1>2, <1>3
  <2>3. \A p \in Orders : remote[p] # "none" => remote'[p] # "none" /\ born'[p] = born[p]
    BY <1>3, <1>4
  <2>4. \A p \in Orders : ~(remote'[p] # "none" /\ remote[p] = "none")
    BY <1>3, <1>4
  <2>5. \A p \in Orders : remote'[p] = "canceled" =>
                            remote[p] = "canceled" \/ \E d \in new : d.kind = "end" /\ d.order = p
    BY <1>2, <1>3
  <2> HIDE DEF new
  <2> QED BY <2>1, <2>2, <2>3, <2>4, <2>5, OrdersGrow DEF IInv
<1>6. \A p, n \in Orders : remote'[p] \in Live /\ remote'[n] # "none" => remote[p] \in Live /\ remote[n] # "none"
  BY <1>3, <1>4
<1>7. ~PaidTwice' => ~PaidTwice
  BY <1>1, <1>2, <1>3, PaidTwiceKept DEF IInv
<1> QED BY <1>3, <1>5, <1>6, <1>7 DEF LastInv

LEMMA SwitchOrders ==
  ASSUME IInv, OrdersInv, LastInv, NEW o \in Orders, NEW n \in Elsewhere \ {o}, Switch(o, n)
  PROVE  OrdersInv' /\ LastInv'
<1>0. PICK s, e : s = Send("start", n, "active", now + 1) /\ e = Send("end", o, "canceled", now + 2)
  OBVIOUS
<1>1. /\ now \in Nat /\ remote \in [Orders -> Statuses \union {"none"}]
      /\ born \in [Orders -> Nat] /\ n \in Orders /\ n # o /\ \A p \in Orders : born[p] <= now
  BY Bounds DEF IInv, TypeInv, TypeOK, Times, Orders
<1>2. /\ s \in Event /\ s.kind = "start" /\ s.order = n /\ s.at = now + 1
      /\ e \in Event /\ e.kind = "end" /\ e.order = o /\ e.at = now + 2
  BY <1>0, <1>1 DEF Send, Event, Kinds, Statuses, Live
<1>3. /\ remote[o] \in Live /\ remote[n] = "none" /\ sent' = sent \union {s, e}
      /\ \A p \in Orders : remote'[p] = IF p = n THEN "active" ELSE IF p = o THEN "canceled" ELSE remote[p]
      /\ \A p \in Orders : born'[p] = IF p = n THEN now + 1 ELSE born[p]
  BY <1>0, <1>1 DEF Switch
<1>4. remote[o] # "none" /\ "canceled" \notin Live
  BY <1>3 DEF Live
<1>5. OrdersInv'
  <2> DEFINE new == {s, e}
  <2>1. \A d \in new : /\ d.at > now /\ remote'[d.order] # "none" /\ born'[d.order] <= d.at
                       /\ d.kind = "start" <=> remote[d.order] = "none"
                       /\ d.kind = "end" => remote[d.order] \in Live
    BY <1>1, <1>2, <1>3, <1>4
  <2>2. new \subseteq Event /\ sent' = sent \union new /\ \A d, c \in new : c.order = d.order => c = d
    BY <1>1, <1>2, <1>3
  <2>3. \A p \in Orders : remote[p] # "none" => remote'[p] # "none" /\ born'[p] = born[p]
    BY <1>3, <1>4
  <2>4. \A p \in Orders : remote'[p] # "none" /\ remote[p] = "none" => p = n
    BY <1>3, <1>4
  <2>5. born'[n] = now + 1 /\ \E d \in new : d.kind = "start" /\ d.order = n
    BY <1>1, <1>2, <1>3
  <2>6. \A p \in Orders : remote'[p] = "canceled" =>
                            remote[p] = "canceled" \/ \E d \in new : d.kind = "end" /\ d.order = p
    BY <1>2, <1>3
  <2> HIDE DEF new
  <2> QED BY <2>1, <2>2, <2>3, <2>4, <2>5, <2>6, OrdersGrow DEF IInv
<1>6. ~PaidTwice' => ~PaidTwice
  BY <1>1, <1>2, <1>3, PaidTwiceKept DEF IInv
<1>7. ASSUME ~PaidTwice PROVE \A p \in Orders : remote'[p] \in Live => p = n
  <2> SUFFICES ASSUME NEW p \in Orders, remote'[p] \in Live, p # n PROVE FALSE
    OBVIOUS
  <2>1. p # o /\ remote[p] \in Live /\ remote[p] # "none"
    BY <1>3, <1>4 DEF Live
  <2>2. born[p] <= born[o] /\ born[o] <= born[p]
    BY <1>3, <1>4, <1>7, <2>1 DEF LastInv
  <2>3. born[p] = born[o]
    BY <1>1, <2>2
  <2> QED BY <1>4, <2>1, <2>3 DEF OrdersInv
<1>8. \A p \in Orders : born'[p] <= born'[n]
  BY <1>1, <1>3
<1> QED BY <1>5, <1>6, <1>7, <1>8 DEF LastInv

\* When only the provider moves, what was processed and what the row holds stays explained.
LEMMA ProviderGrows ==
  ASSUME TypeInv, OrdersInv, WorkInv, RowInv, StartsDone, EndsDone, PlanInv,
         sent \subseteq sent', \A e \in sent' \ sent : e.at > now /\ e \in Event,
         \A o \in Orders : remote[o] # "none" => remote'[o] # "none" /\ born'[o] = born[o],
         UNCHANGED <<sub, quota, processed, handlers>>
  PROVE  WorkInv' /\ RowInv' /\ StartsDone' /\ EndsDone' /\ PlanInv'
<1> USE DEF sub, quota, handlers
<1>1. now \in Nat /\ \A e \in sent : e \in Event /\ e.at \in Nat /\ e.at <= now
  BY Bounds DEF TypeInv, Times, EventFits, Event
<1>2. \A e \in sent, d \in sent' : d.at < e.at => d \in sent
  BY <1>1 DEF Event
<1>3. \A e : Reached(e) => Reached(e)'
  BY <1>2 DEF Reached
<1>4. \A e \in Event : FromSync(e) => FromSync(e)'
  BY DEF FromSync, Event
<1>5. \A f \in found : f.event \in Event
  BY DEF TypeInv, TypeOK
<1>6. \A t \in tx : t.event \in Event
  BY DEF TypeInv, TypeOK, Tx
<1>7. WorkInv'
  <2>1. \A f \in found' : FromSync(f.event)'
    BY <1>4, <1>5 DEF WorkInv
  <2>2. \A t \in tx' : IF t.by = Webhook THEN Reached(t.event)' /\ t.event \notin processed' ELSE FromSync(t.event)'
    BY <1>3, <1>4, <1>6 DEF WorkInv
  <2>3. \A e \in applied' : Reached(e)'
    BY <1>3 DEF WorkInv
  <2>4. applied' \subseteq sent' /\ processed' \subseteq sent'
    BY DEF WorkInv
  <2>5. \A d, e \in sent' : e \in processed' /\ d.at < e.at => d \in processed'
    BY <1>2 DEF WorkInv
  <2> QED BY <2>1, <2>2, <2>3, <2>4, <2>5 DEF WorkInv
<1>8. subOrder # NoOrder => subOrder \in Orders /\ remote[subOrder] # "none"
  BY DEF TypeInv, TypeOK, RowInv
<1>9. RowInv'
  <2>1. (\E e \in sent : Reached(e) /\ e.at = subAt) => \E e \in sent' : Reached(e)' /\ e.at = subAt
    BY <1>3
  <2> QED BY <1>8, <2>1 DEF RowInv
<1>10. \A e : Done(e)' => Done(e) /\ e \in sent
  BY DEF Done, WorkInv
<1>11. StartsDone'
  <2>1. \A s \in sent : s.order \in Orders /\ remote[s.order] # "none"
    BY <1>1 DEF OrdersInv, Event
  <2> QED BY <1>8, <1>10, <2>1 DEF StartsDone
<1>12. EndsDone'
  BY <1>10 DEF EndsDone
<1>13. PlanInv'
  BY DEF PlanInv
<1> QED BY <1>7, <1>9, <1>11, <1>12, <1>13
\* The provider's part stays with the provider.
LEMMA ProviderKept ==
  ASSUME OrdersInv, LastInv, UNCHANGED <<remote, born, sent>>
  PROVE  OrdersInv' /\ LastInv'
<1>1. OrdersInv'
  BY DEF OrdersInv
<1>2. PaidTwice' <=> PaidTwice
  BY DEF PaidTwice
<1> QED BY <1>1, <1>2 DEF LastInv

\* What a transaction applies is of an order that was created, before any later order if it
\* is a start; an event it applies is the next one, so none after it was processed.
LEMMA NextEvent ==
  ASSUME IInv, OrdersInv, WorkInv, NEW t \in tx, NEW e, e = t.event
  PROVE  /\ e \in Event /\ e \in Deliverable /\ e.at \in Nat
         /\ remote[e.order] # "none" /\ born[e.order] <= e.at
         /\ IF t.by = Webhook THEN Reached(e) /\ e \notin processed ELSE FromSync(e)
         /\ e.kind = "start" => \A o \in Orders : remote[o] # "none" /\ born[e.order] < born[o] => e.at < born[o]
<1>1. /\ e \in Event /\ e \in Deliverable /\ e.at \in Nat /\ e.order \in Orders
      /\ born \in [Orders -> Nat]
  BY Bounds DEF IInv, TypeInv, TypeOK, Tx, Event, Deliverable
<1>2. IF t.by = Webhook THEN Reached(e) /\ e \notin processed ELSE FromSync(e)
  BY DEF WorkInv
<1>3. CASE t.by = Webhook
  <2>1. e \in sent
    BY <1>2, <1>3 DEF Reached
  <2> QED BY <1>1, <1>2, <2>1 DEF OrdersInv
<1>4. CASE t.by # Webhook
  BY <1>1, <1>2, <1>4 DEF FromSync
<1> QED BY <1>3, <1>4

\* Nothing after an event that is not processed was processed or will be marked.
LEMMA NoneAfter ==
  ASSUME WorkInv, NEW e \in sent, e \notin processed, NEW d \in sent, Done(d)
  PROVE  ~(e.at < d.at)
BY DEF WorkInv, Done, Reached

LEMMA CommitWork ==
  ASSUME IInv, WorkInv, NEW t \in tx, Commit(t)
  PROVE  WorkInv'
<1>1. UNCHANGED <<remote, born, sent, processed, found>> /\ tx' \subseteq tx
  BY DEF Commit, provider
<1>2. \A e : Reached(e)' <=> Reached(e)
  BY <1>1 DEF Reached
<1>3. \A e : FromSync(e)' <=> FromSync(e)
  BY <1>1 DEF FromSync
<1>4. \A e \in applied' : Reached(e)
  BY DEF Commit, WorkInv
<1>5. applied' \subseteq sent
  BY <1>4 DEF Reached
<1>6. \A f \in found' : FromSync(f.event)'
  BY <1>1, <1>3 DEF WorkInv
<1>7. \A u \in tx' : IF u.by = Webhook THEN Reached(u.event)' /\ u.event \notin processed' ELSE FromSync(u.event)'
  BY <1>1, <1>2, <1>3 DEF WorkInv
<1>8. processed' \subseteq sent' /\ \A d, e \in sent' : e \in processed' /\ d.at < e.at => d \in processed'
  BY <1>1 DEF WorkInv
<1> QED BY <1>1, <1>2, <1>4, <1>5, <1>6, <1>7, <1>8 DEF WorkInv
\* What is applied to the row is not of an order before the one it holds.
LEMMA AppliedLast ==
  ASSUME IInv, OrdersInv, WorkInv, RowInv, NEW t \in tx, ~Dropped(t), subOrder # NoOrder
  PROVE  born[subOrder] <= born[t.event.order]
<1>0. PICK e : e = t.event
  OBVIOUS
<1>1. /\ e.order \in Orders /\ e.at \in Nat /\ remote[e.order] # "none"
      /\ e.kind = "start" => \A o \in Orders : remote[o] # "none" /\ born[e.order] < born[o] => e.at < born[o]
  BY <1>0, NextEvent DEF Event
<1>2. /\ born \in [Orders -> Nat] /\ subOrder \in Orders /\ subAt \in Nat
      /\ remote[subOrder] # "none" /\ born[subOrder] <= subAt
  BY Bounds DEF IInv, TypeInv, TypeOK, RowInv
<1>3. t.order = subOrder /\ t.at = subAt
  BY DEF IInv, Fresh
<1>4. ~(e.at < subAt) /\ (subOrder = e.order \/ e.kind = "start")
  BY <1>0, <1>3 DEF Dropped
<1> QED BY <1>0, <1>1, <1>2, <1>4

\* An order that was ended here is not applied again.
LEMMA NotAfterEnd ==
  ASSUME IInv, NEW t \in tx, t.event.kind # "end", ~Dropped(t), subOrder = t.event.order
  PROVE  subStatus # "canceled"
<1>0. PICK e : e = t.event
  OBVIOUS
<1> SUFFICES ASSUME subStatus = "canceled" PROVE FALSE
  OBVIOUS
<1>1. PICK d \in sent : d.kind = "end" /\ d.order = subOrder /\ d.at = subAt
  BY DEF IInv, CanceledAt
<1>2. e.at < d.at
  BY <1>0, <1>1 DEF IInv, EndsInv, Deliverable
<1>3. t.order = subOrder /\ t.at = subAt /\ subOrder # NoOrder
  BY CommitRead DEF IInv, Fresh
<1> QED BY <1>0, <1>1, <1>2, <1>3 DEF Dropped

\* The start of an order before the row's is dropped only if the row's order came later.
LEMMA DroppedEarlier ==
  ASSUME IInv, OrdersInv, WorkInv, RowInv, NEW t \in tx, t.by = Webhook, t.event.kind = "start", Dropped(t)
  PROVE  subOrder # NoOrder /\ born[t.event.order] <= born[subOrder]
<1>0. PICK e : e = t.event
  OBVIOUS
<1>1. /\ e.order \in Orders /\ e.at \in Nat /\ born[e.order] <= e.at
      /\ e \in sent /\ e \notin processed
  BY <1>0, NextEvent DEF Event, Reached
<1>2. t.order = subOrder /\ t.at = subAt
  BY DEF IInv, Fresh
<1>3. subOrder # NoOrder /\ e.at < subAt
  BY <1>0, <1>2 DEF Dropped
<1>4. born \in [Orders -> Nat] /\ subOrder \in Orders /\ subAt \in Nat
  BY <1>3, Bounds DEF IInv, TypeInv, TypeOK
<1>5. ~\E d \in sent : Reached(d) /\ d.at = subAt
  BY <1>1, <1>3 DEF Reached
<1>6. subAt = born[subOrder]
  BY <1>3, <1>5 DEF RowInv
<1> QED BY <1>0, <1>1, <1>3, <1>4, <1>6

LEMMA CommitDone ==
  ASSUME NEW t \in tx, Commit(t), NEW e, e = t.event
  PROVE  \A d : Done(d)' => Done(d) \/ (d = e /\ t.by = Webhook)
<1>1. processed' = processed /\ applied' = IF t.by = Webhook THEN applied \union {e} ELSE applied
  BY DEF Commit
<1>2. \A d : d \in applied' => d \in applied \/ (d = e /\ t.by = Webhook)
  BY <1>1
<1> QED BY <1>1, <1>2 DEF Done

\* Nothing after it is done: an end that was marked is of an order that the row holds no more.
LEMMA NotEnded ==
  ASSUME IInv, OrdersInv, WorkInv, RowInv, StartsDone, EndsDone, NEW t \in tx, t.event.kind # "end", ~Dropped(t),
         NEW d \in sent, Done(d), d.kind = "end", d.order = t.event.order
  PROVE  FALSE
<1>0. PICK e : e = t.event
  OBVIOUS
<1>1. /\ e \in Event /\ e \in Deliverable /\ e.at \in Nat /\ e.order \in Orders /\ remote[e.order] # "none"
      /\ IF t.by = Webhook THEN Reached(e) /\ e \notin processed ELSE FromSync(e)
  BY <1>0, NextEvent DEF Event
<1>2. e.at < d.at
  BY <1>0, <1>1 DEF IInv, EndsInv
<1>3. CASE t.by = Webhook
  BY <1>1, <1>2, <1>3, NoneAfter DEF Reached
<1>4. CASE t.by # Webhook
  <2>1. PICK s \in sent : s.kind = "start" /\ s.order = e.order
    BY <1>1 DEF OrdersInv
  <2>2. s.at < d.at
    BY <1>0, <2>1 DEF OrdersInv
  <2>3. s \in processed
    BY <2>1, <2>2, NoneAfter
  <2>4. subOrder # NoOrder /\ born[e.order] <= born[subOrder]
    BY <2>1, <2>3 DEF StartsDone, Done
  <2>5. born[subOrder] <= born[e.order]
    BY <1>0, <2>4, AppliedLast
  <2>6. subOrder \in Orders /\ remote[subOrder] # "none" /\ born \in [Orders -> Nat]
    BY <2>4, Bounds DEF IInv, TypeInv, TypeOK, RowInv
  <2>7. subOrder = e.order
    BY <1>1, <2>4, <2>5, <2>6 DEF OrdersInv
  <2>8. subStatus = "canceled"
    BY <1>0, <2>7 DEF EndsDone
  <2> QED BY <1>0, <2>7, <2>8, NotAfterEnd
<1> QED BY <1>3, <1>4
\* A commit that leaves the row: of an end that is not of the row's order or recorded already,
\* or of an event that is dropped.
LEMMA CommitLeaves ==
  ASSUME IInv, OrdersInv, WorkInv, RowInv, StartsDone, EndsDone, PlanInv,
         NEW t \in tx, Commit(t), UNCHANGED <<sub, quota>>,
         \/ t.event.kind = "end" /\ (t.order # t.event.order \/ t.status = "canceled")
         \/ t.event.kind # "end" /\ Dropped(t)
  PROVE  RowInv' /\ StartsDone' /\ EndsDone' /\ PlanInv'
<1>0. PICK e : e = t.event
  OBVIOUS
<1>1. /\ UNCHANGED <<remote, born, sent, processed, ask, subOrder, subStatus, subAt, plan, source>>
      /\ t.order = subOrder /\ t.status = subStatus
  BY DEF Commit, provider, sub, quota, IInv, Fresh
<1>2. \A d : Done(d)' => Done(d) \/ (d = e /\ t.by = Webhook)
  BY <1>0, CommitDone
<1>3. RowInv'
  <2>1. \A d : Reached(d)' <=> Reached(d)
    BY <1>1 DEF Reached
  <2> QED BY <1>1, <2>1 DEF RowInv
<1>4. StartsDone'
  BY <1>0, <1>1, <1>2, DroppedEarlier DEF StartsDone
<1>5. EndsDone'
  BY <1>0, <1>1, <1>2 DEF EndsDone
<1>6. PlanInv'
  BY <1>1 DEF PlanInv
<1> QED BY <1>3, <1>4, <1>5, <1>6

\* A commit that records an event that is not an end.
LEMMA CommitApplies ==
  ASSUME IInv, OrdersInv, WorkInv, RowInv, StartsDone, EndsDone, PlanInv,
         NEW t \in tx, Commit(t), t.event.kind # "end", ApplyStatus(t), ~Dropped(t)
  PROVE  RowInv' /\ StartsDone' /\ EndsDone' /\ PlanInv'
<1>0. PICK e : e = t.event
  OBVIOUS
<1>1. /\ UNCHANGED <<remote, born, sent, processed, ask>>
      /\ t.order = subOrder /\ t.status = subStatus
  BY DEF Commit, provider, IInv, Fresh
<1>2. \A d : Done(d)' => Done(d) \/ (d = e /\ t.by = Webhook)
  BY <1>0, CommitDone
<1>3. /\ subOrder' = e.order /\ subStatus' = e.status /\ subAt' = e.at
      /\ \/ plan' = PlanOf[e.order] /\ source' = "subscription"
         \/ subOrder = e.order /\ UNCHANGED quota
  BY <1>0, <1>1, Applied
<1>4. /\ e.order \in Orders /\ remote[e.order] # "none" /\ born[e.order] <= e.at
      /\ IF t.by = Webhook THEN Reached(e) /\ e \notin processed ELSE FromSync(e)
  BY <1>0, NextEvent DEF Event
<1>5. e.order # NoOrder /\ e.status \in Live /\ e.status # "none" /\ e.status # "canceled"
  BY <1>0, <1>4, CommitRead, ConstantsOK DEF IInv, Live
<1>6. RowInv'
  <2>1. \A d : Reached(d)' <=> Reached(d)
    BY <1>1 DEF Reached
  <2>2. e.at = born[e.order] \/ (e \in sent /\ Reached(e))
    <3>1. FromSync(e) => e.at = born[e.order]
      BY DEF FromSync
    <3>2. Reached(e) => e \in sent
      BY DEF Reached
    <3> QED BY <1>4, <3>1, <3>2
  <2> QED BY <1>1, <1>3, <1>4, <1>5, <2>1, <2>2 DEF RowInv
<1>7. StartsDone'
  <2>1. \A s \in sent : s.kind = "start" /\ Done(s) => born[s.order] <= born[e.order]
    <3> SUFFICES ASSUME NEW s \in sent, s.kind = "start", Done(s) PROVE born[s.order] <= born[e.order]
      OBVIOUS
    <3>1. subOrder # NoOrder /\ born[s.order] <= born[subOrder]
      BY DEF StartsDone
    <3>2. born[subOrder] <= born[e.order]
      BY <1>0, <3>1, AppliedLast
    <3>3. /\ s.order \in Orders /\ subOrder \in Orders /\ born \in [Orders -> Nat]
      BY <3>1, Bounds DEF IInv, TypeInv, TypeOK, Event
    <3> QED BY <1>4, <3>1, <3>2, <3>3
  <2>2. born[e.order] <= born[e.order]
    BY <1>4, Bounds DEF IInv, TypeInv, TypeOK
  <2> QED BY <1>1, <1>2, <1>3, <1>5, <2>1, <2>2 DEF StartsDone
<1>8. EndsDone'
  <2>1. \A d \in sent : ~(Done(d) /\ d.kind = "end" /\ d.order = e.order)
    BY <1>0, NotEnded
  <2> QED BY <1>0, <1>1, <1>2, <1>3, <2>1 DEF EndsDone
<1>9. PlanInv'
  <2>1. subOrder = e.order => subStatus # "canceled"
    BY <1>0, NotAfterEnd
  <2>2. source' = "subscription"
    BY <1>3, <1>5, <2>1 DEF PlanInv, quota
  <2> QED BY <1>1, <1>3, <1>5, <2>2 DEF PlanInv
<1> QED BY <1>6, <1>7, <1>8, <1>9

\* A commit that ends the row's order.
LEMMA CommitEnds ==
  ASSUME IInv, OrdersInv, WorkInv, RowInv, StartsDone, EndsDone, PlanInv,
         NEW t \in tx, Commit(t), t.event.kind = "end", ApplyCanceled(t), t.order = t.event.order, t.status # "canceled"
  PROVE  RowInv' /\ StartsDone' /\ EndsDone' /\ PlanInv'
<1>0. PICK e : e = t.event
  OBVIOUS
<1>1. /\ UNCHANGED <<remote, born, sent, processed, ask>> /\ t.order = subOrder
  BY DEF Commit, provider, IInv, Fresh
<1>2. \A d : Done(d)' => Done(d) \/ (d = e /\ t.by = Webhook)
  BY <1>0, CommitDone
<1>3. /\ subOrder' = subOrder /\ subStatus' = "canceled" /\ subAt' = e.at
      /\ plan' = (IF source = "subscription" THEN Default ELSE plan) /\ source' = "admin"
  BY <1>0, Ended
<1>4. /\ remote[e.order] # "none" /\ born[e.order] <= e.at
      /\ IF t.by = Webhook THEN Reached(e) /\ e \notin processed ELSE FromSync(e)
  BY <1>0, NextEvent
<1>5. RowInv'
  <2>1. \A d : Reached(d)' <=> Reached(d)
    BY <1>1 DEF Reached
  <2>2. e \in sent /\ Reached(e)
    BY <1>0, <1>4 DEF FromSync, Reached
  <2> QED BY <1>0, <1>1, <1>3, <1>4, <2>1, <2>2 DEF RowInv
<1>6. StartsDone'
  BY <1>0, <1>1, <1>2, <1>3 DEF StartsDone
<1>7. EndsDone'
  BY <1>3 DEF EndsDone
<1>8. PlanInv'
  BY <1>1, <1>3 DEF PlanInv
<1> QED BY <1>5, <1>6, <1>7, <1>8

LEMMA CommitConverges ==
  ASSUME IInv, OrdersInv, WorkInv, RowInv, StartsDone, EndsDone, PlanInv, NEW t \in tx, Commit(t)
  PROVE  RowInv' /\ StartsDone' /\ EndsDone' /\ PlanInv'
<1>1. CASE t.event.kind # "end" /\ ApplyStatus(t) /\ ~Dropped(t)
  BY <1>1, CommitApplies
<1>2. CASE t.event.kind # "end" /\ ApplyStatus(t) /\ Dropped(t)
  BY <1>2, CommitLeaves DEF ApplyStatus
<1>3. CASE t.event.kind = "end" /\ ApplyCanceled(t) /\ t.order = t.event.order /\ t.status # "canceled"
  BY <1>3, CommitEnds
<1>4. CASE t.event.kind = "end" /\ ApplyCanceled(t) /\ (t.order # t.event.order \/ t.status = "canceled")
  BY <1>4, CommitLeaves DEF ApplyCanceled
<1> QED BY <1>1, <1>2, <1>3, <1>4 DEF Commit, ApplyStatus, ApplyCanceled
\* Everybody but the provider and a commit: what is in flight comes from what was sent.
LEMMA WorkKept ==
  ASSUME WorkInv, UNCHANGED <<remote, born, sent, processed>>, applied' \subseteq applied,
         \A f \in found' : f \in found \/ FromSync(f.event),
         \A t \in tx' : t \in tx \/ IF t.by = Webhook THEN Reached(t.event) /\ t.event \notin processed
                                    ELSE FromSync(t.event)
  PROVE  WorkInv'
<1>1. \A e : Reached(e)' <=> Reached(e)
  BY DEF Reached
<1>2. \A e : FromSync(e)' <=> FromSync(e)
  BY DEF FromSync
<1>3. \A f \in found' : FromSync(f.event)'
  BY <1>2 DEF WorkInv
<1>4. \A t \in tx' : IF t.by = Webhook THEN Reached(t.event)' /\ t.event \notin processed' ELSE FromSync(t.event)'
  BY <1>1, <1>2 DEF WorkInv
<1>5. applied' \subseteq sent' /\ processed' \subseteq sent' /\ \A e \in applied' : Reached(e)'
  BY <1>1 DEF WorkInv
<1>6. \A d, e \in sent' : e \in processed' /\ d.at < e.at => d \in processed'
  BY DEF WorkInv
<1> QED BY <1>3, <1>4, <1>5, <1>6 DEF WorkInv

LEMMA RowKept ==
  ASSUME RowInv, StartsDone, EndsDone, PlanInv, UNCHANGED <<remote, born, sent, sub, quota>>, ask' = ask,
         processed \subseteq processed', \A e : Done(e)' => Done(e)
  PROVE  RowInv' /\ StartsDone' /\ EndsDone' /\ PlanInv'
<1> USE DEF sub, quota
<1>1. \A e : Reached(e) => Reached(e)'
  BY DEF Reached
<1>2. RowInv'
  BY <1>1 DEF RowInv
<1>3. StartsDone' /\ EndsDone'
  BY DEF StartsDone, EndsDone
<1>4. PlanInv'
  BY DEF PlanInv
<1> QED BY <1>2, <1>3, <1>4

LEMMA MarkConverges ==
  ASSUME Serial, WorkInv, RowInv, StartsDone, EndsDone, PlanInv, NEW e \in sent, MarkProcessed(e)
  PROVE  WorkInv' /\ RowInv' /\ StartsDone' /\ EndsDone' /\ PlanInv'
<1>1. /\ e \in applied /\ tx' = {} /\ applied' = applied \ {e}
      /\ processed \subseteq processed' /\ processed' \subseteq processed \union {e}
      /\ UNCHANGED <<remote, born, sent, sub, quota, found, ask>>
  BY DEF MarkProcessed, UpdateWebhookEvent, Unlocked, provider
<1>2. \A d : Reached(d) => Reached(d)'
  BY <1>1 DEF Reached
<1>3. \A d : Done(d)' => Done(d)
  BY <1>1 DEF Done
<1>4. \A f \in found' : FromSync(f.event)'
  BY <1>1 DEF WorkInv, FromSync
<1>5. applied' \subseteq sent' /\ processed' \subseteq sent' /\ \A d \in applied' : Reached(d)'
  BY <1>1, <1>2 DEF WorkInv
<1>6. \A c, d \in sent' : d \in processed' /\ c.at < d.at => c \in processed'
  BY <1>1 DEF WorkInv, Reached
<1>7. WorkInv'
  BY <1>1, <1>4, <1>5, <1>6 DEF WorkInv
<1> QED BY <1>1, <1>3, <1>7, RowKept

LEMMA ReceiveConverges ==
  ASSUME fifo, WorkInv, RowInv, StartsDone, EndsDone, PlanInv, NEW e \in sent, Receive(e)
  PROVE  WorkInv' /\ RowInv' /\ StartsDone' /\ EndsDone' /\ PlanInv'
<1>1. UNCHANGED <<remote, born, sent, sub, quota, processed, applied, found, ask>>
  BY DEF Receive, provider
<1>2. e \notin processed /\ Reached(e)
  BY DEF Receive, InsertWebhookEvent, Reached
<1>3. \A t \in tx' : t \in tx \/ (t.event = e /\ t.by = Webhook)
  BY DEF Receive, Read
<1>4. WorkInv'
  BY <1>1, <1>2, <1>3, WorkKept
<1>5. \A d : Done(d)' => Done(d)
  BY <1>1 DEF Done
<1> QED BY <1>1, <1>4, <1>5, RowKept

LEMMA SyncConverges ==
  ASSUME TypeInv, WorkInv, RowInv, StartsDone, EndsDone, PlanInv,
         \/ \E f \in found : BeginSync(f)
         \/ \E r \in Keys \union {Page} : StartSync(r) \/ \E k \in Keys : FindOrder(r, k)
  PROVE  WorkInv' /\ RowInv' /\ StartsDone' /\ EndsDone' /\ PlanInv'
<1>1. UNCHANGED <<remote, born, sent, sub, quota, processed, applied, ask>>
  BY DEF BeginSync, StartSync, FindOrder, provider
<1>2. WorkInv'
  <2>1. ASSUME NEW f \in found, BeginSync(f) PROVE WorkInv'
    <3>1. FromSync(f.event) /\ f.by # Webhook /\ found' \subseteq found
      BY <2>1, ConstantsOK DEF BeginSync, WorkInv, TypeInv, TypeOK, Orders
    <3>2. \A t \in tx' : t \in tx \/ (t.event = f.event /\ t.by = f.by)
      BY <2>1 DEF BeginSync, Read
    <3> QED BY <1>1, <3>1, <3>2, WorkKept
  <2>2. ASSUME NEW r \in Keys \union {Page}, StartSync(r) PROVE WorkInv'
    BY <1>1, <2>2, WorkKept DEF StartSync
  <2>3. ASSUME NEW r \in Keys \union {Page}, NEW k \in Keys, FindOrder(r, k) PROVE WorkInv'
    <3> DEFINE s == Send("start", k, remote[k], born[k])
    <3>1. \A f \in found' : f \in found \/ (remote[k] \in Live /\ f.event = s)
      BY <2>3 DEF FindOrder, InService
    <3>2. remote[k] \in Live => FromSync(s)
      BY DEF FromSync, Send, Live
    <3>3. tx' = tx
      BY <2>3 DEF FindOrder
    <3> HIDE DEF s
    <3> QED BY <1>1, <3>1, <3>2, <3>3, WorkKept
  <2> QED BY <2>1, <2>2, <2>3
<1>3. \A e : Done(e)' => Done(e)
  BY <1>1 DEF Done
<1> QED BY <1>1, <1>2, <1>3, RowKept

\* A request or the process that ends, a decision, a session that is opened.
LEMMA OthersConverge ==
  ASSUME WorkInv, RowInv, StartsDone, EndsDone, PlanInv,
         \/ \E t \in tx : Rollback(t)
         \/ \E k \in Keys : Decide(k) \/ OpenSession(k)
         \/ Crash
         \/ UNCHANGED vars
  PROVE  WorkInv' /\ RowInv' /\ StartsDone' /\ EndsDone' /\ PlanInv'
<1>1. UNCHANGED <<remote, born, sent, sub, quota, processed, ask>>
  BY DEF Rollback, Decide, OpenSession, Crash, vars, provider, handlers, PlanInv
<1>2. applied' \subseteq applied /\ found' \subseteq found /\ tx' \subseteq tx
  BY DEF Rollback, Decide, OpenSession, Crash, vars, handlers
<1>3. WorkInv'
  BY <1>1, <1>2, WorkKept
<1>4. \A e : Done(e)' => Done(e)
  BY <1>1, <1>2 DEF Done
<1> QED BY <1>1, <1>3, <1>4, RowKept
LEMMA ProviderConverges ==
  ASSUME IInv, OrdersInv, LastInv, WorkInv, RowInv, StartsDone, EndsDone, PlanInv, Provider
  PROVE  OrdersInv' /\ LastInv' /\ WorkInv' /\ RowInv' /\ StartsDone' /\ EndsDone' /\ PlanInv'
<1>1. /\ now \in Nat /\ remote \in [Orders -> Statuses \union {"none"}] /\ born \in [Orders -> Nat]
      /\ Keys \subseteq Orders /\ Elsewhere \subseteq Orders /\ "none" \notin Live
  BY Bounds DEF IInv, TypeInv, TypeOK, Orders, Live
<1>2. OrdersInv' /\ LastInv'
  <2>1. ASSUME NEW k \in Keys, Lapse(k) PROVE OrdersInv' /\ LastInv'
    BY <2>1, ProviderKept DEF Lapse
  <2> QED BY <1>1, <2>1, PayOrders, ChangeOrders, EndOrders, SwitchOrders DEF Provider
<1>3. UNCHANGED <<sub, quota, processed, handlers>>
  BY DEF Provider, Pay, Lapse, Change, End, Switch
<1>4. sent \subseteq sent'
  BY DEF Provider, Pay, Lapse, Change, End, Switch
<1>5. \A e \in sent' \ sent : e.at > now
  BY <1>1 DEF Provider, Pay, Lapse, Change, End, Switch, Send
<1>6. sent' \subseteq Event
  <2>1. TypeInv'
    BY StepType DEF IInv, Next
  <2> QED BY <2>1 DEF TypeInv, TypeOK
<1>7. \A o \in Orders : remote[o] # "none" => remote'[o] # "none" /\ born'[o] = born[o]
  BY <1>1 DEF Provider, Pay, Lapse, Change, End, Switch
<1> QED BY <1>2, <1>3, <1>4, <1>5, <1>6, <1>7, ProviderGrows DEF IInv

\* A commit, a delivery, a sync: what the provider holds stays.
LEMMA ServiceConverges ==
  ASSUME Serial, IInv, fifo, OrdersInv, LastInv, WorkInv, RowInv, StartsDone, EndsDone, PlanInv,
         Service \/ UNCHANGED vars, asks' = asks, assigns' = assigns
  PROVE  OrdersInv' /\ LastInv' /\ WorkInv' /\ RowInv' /\ StartsDone' /\ EndsDone' /\ PlanInv'
<1>0. ~StoreAsk
  BY DEF StoreAsk, PlanInv
<1>1. asks \in Nat /\ assigns \in Nat
  BY Bounds DEF IInv, TypeInv, TypeOK
<1>2. ASSUME NEW status, AskProvider(status) PROVE FALSE
  <2>1. asks' = asks + 1
    BY <1>2 DEF AskProvider
  <2> QED BY <1>1, <2>1
<1>3. ASSUME NEW p, AssignPlan(p) PROVE FALSE
  <2>1. assigns' = assigns + 1
    BY <1>3 DEF AssignPlan
  <2> QED BY <1>1, <2>1
<1>4. UNCHANGED <<remote, born, sent>>
  BY <1>0, <1>2, <1>3 DEF Service, Receive, MarkProcessed, Commit, Rollback, BeginSync, StartSync, FindOrder,
     Decide, OpenSession, Crash, vars, provider
<1>5. OrdersInv' /\ LastInv'
  BY <1>4, ProviderKept
<1>6. WorkInv' /\ RowInv' /\ StartsDone' /\ EndsDone' /\ PlanInv'
  <2>1. ASSUME NEW t \in tx, Commit(t) PROVE WorkInv' /\ RowInv' /\ StartsDone' /\ EndsDone' /\ PlanInv'
    BY <2>1, CommitWork, CommitConverges
  <2>2. ASSUME NEW e \in sent, Receive(e) \/ MarkProcessed(e)
        PROVE  WorkInv' /\ RowInv' /\ StartsDone' /\ EndsDone' /\ PlanInv'
    BY <2>2, ReceiveConverges, MarkConverges
  <2>3. CASE \/ \E f \in found : BeginSync(f)
             \/ \E r \in Keys \union {Page} : StartSync(r) \/ \E k \in Keys : FindOrder(r, k)
    BY <2>3, SyncConverges DEF IInv
  <2>4. CASE \/ \E t \in tx : Rollback(t)
             \/ \E k \in Keys : Decide(k) \/ OpenSession(k)
             \/ Crash
             \/ UNCHANGED vars
    BY <2>4, OthersConverge
  <2> QED BY <1>0, <1>2, <1>3, <2>1, <2>2, <2>3, <2>4 DEF Service
<1> QED BY <1>5, <1>6

\* Nobody takes a click back.
LEMMA ClicksGrow ==
  ASSUME TypeInv, [Next]_vars
  PROVE  fifo' = fifo /\ asks <= asks' /\ assigns <= assigns'
<1>1. asks \in Nat /\ assigns \in Nat
  BY Bounds DEF TypeInv, TypeOK
<1>2. CASE Provider
  BY <1>1, <1>2 DEF Provider, Pay, Lapse, Change, End, Switch, bounds
<1>3. CASE Service
  BY <1>1, <1>3 DEF Service, Receive, MarkProcessed, Commit, Rollback, BeginSync, StartSync, FindOrder,
     Decide, OpenSession, AskProvider, StoreAsk, AssignPlan, Crash, bounds
<1>4. CASE UNCHANGED vars
  BY <1>1, <1>4 DEF vars, bounds
<1> QED BY <1>2, <1>3, <1>4 DEF Next

LEMMA ConvStep ==
  ASSUME Serial, IInv, ConvInv, [Next]_vars
  PROVE  ConvInv'
<1> SUFFICES ASSUME Undisturbed'
             PROVE  (OrdersInv /\ LastInv /\ WorkInv /\ RowInv /\ StartsDone /\ EndsDone /\ PlanInv)'
  BY DEF ConvInv
<1>1. asks \in Nat /\ assigns \in Nat
  BY Bounds DEF IInv, TypeInv, TypeOK
<1>2. Undisturbed /\ asks' = asks /\ assigns' = assigns
  <2>1. fifo' = fifo /\ asks <= asks' /\ assigns <= assigns'
    BY ClicksGrow DEF IInv
  <2>2. fifo' /\ asks' = 0 /\ assigns' = 0
    BY DEF Undisturbed
  <2>3. asks = 0 /\ assigns = 0
    BY <1>1, <2>1, <2>2
  <2> QED BY <2>1, <2>2, <2>3, Zenon DEF Undisturbed
<1>3. OrdersInv /\ LastInv /\ WorkInv /\ RowInv /\ StartsDone /\ EndsDone /\ PlanInv
  BY <1>2 DEF ConvInv
<1> QED BY <1>2, <1>3, ProviderConverges, ServiceConverges DEF Undisturbed, Next

LEMMA Converged ==
  ASSUME IInv, ConvInv
  PROVE  PlanConverges
<1> SUFFICES ASSUME Settled, assigns = 0, asks = 0, ~PaidTwice
             PROVE  IF LiveOrders = {} THEN plan = Default ELSE \E o \in LiveOrders : plan = PlanOf[o]
  BY DEF PlanConverges
<1>1. OrdersInv /\ LastInv /\ RowInv /\ StartsDone /\ EndsDone /\ PlanInv
  BY DEF ConvInv, Undisturbed, Settled
<1>2. \A e \in sent : Done(e)
  BY DEF Settled, Done
<1>3. /\ remote \in [Orders -> Statuses \union {"none"}] /\ born \in [Orders -> Nat]
      /\ subOrder \in Orders \union {NoOrder} /\ source \in {"admin", "subscription"}
      /\ "none" \notin Live /\ "canceled" \notin Live
  BY Bounds DEF IInv, TypeInv, TypeOK, Live
<1>4. ASSUME LiveOrders = {} PROVE plan = Default
  <2>1. source # "subscription"
    <3> SUFFICES ASSUME source = "subscription" PROVE FALSE
      OBVIOUS
    <3>1. subOrder \in Orders /\ subOrder # NoOrder /\ subStatus # "canceled"
      BY <1>3 DEF IInv, GrantBacked
    <3>2. remote[subOrder] # "none" /\ remote[subOrder] \notin Live
      BY <1>1, <1>4, <3>1 DEF RowInv, LiveOrders
    <3>3. remote[subOrder] = "canceled"
      BY <1>3, <3>1, <3>2 DEF Statuses
    <3> QED BY <1>1, <1>2, <3>1, <3>3 DEF OrdersInv, EndsDone
  <2> QED BY <1>1, <1>3, <2>1 DEF PlanInv
<1>5. ASSUME NEW o \in LiveOrders PROVE plan = PlanOf[o]
  <2>1. o \in Orders /\ remote[o] \in Live /\ remote[o] # "none" /\ remote[o] # "canceled"
    BY <1>3 DEF LiveOrders
  <2>2. PICK s \in sent : s.kind = "start" /\ s.order = o
    BY <1>1, <2>1 DEF OrdersInv
  <2>3. subOrder # NoOrder /\ born[o] <= born[subOrder]
    BY <1>1, <1>2, <2>2 DEF StartsDone
  <2>4. subOrder \in Orders /\ remote[subOrder] # "none"
    BY <1>1, <1>3, <2>3 DEF RowInv
  <2>5. born[subOrder] <= born[o]
    BY <1>1, <2>1, <2>4 DEF LastInv
  <2>6. subOrder = o
    BY <1>1, <1>3, <2>1, <2>3, <2>4, <2>5 DEF OrdersInv
  <2>7. subStatus # "canceled"
    BY <2>1, <2>6 DEF IInv, CanceledAt, EndsInv
  <2>8. source = "subscription"
    BY <1>1, <2>3, <2>7 DEF PlanInv
  <2> QED BY <2>6, <2>8 DEF IInv, GrantBacked
<1> QED BY <1>4, <1>5

\* With transactions serialised and the events processed in order, a tenant with an order in
\* service ends with the plan of it and one with none with the default plan, whatever crashes,
\* repeated deliveries, failed calls and syncs come between (billing_webhook.go:259 and 273).
THEOREM PlansConverge ==
  ASSUME Serial
  PROVE  Spec => []PlanConverges
<1>1. Init => ConvInv
  BY BeginsUndisturbed
<1>2. IInv /\ ConvInv /\ [Next]_vars => ConvInv'
  BY ConvStep
<1>3. IInv /\ ConvInv => PlanConverges
  BY Converged
<1> QED BY <1>1, <1>2, <1>3, Inductive, PTL DEF Spec
=============================================================================
