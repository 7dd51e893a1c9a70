------------------------------ MODULE Pricing ------------------------------
(***************************************************************************)
(* The prices of the plans and the products the payment provider sells for *)
(* them: CreatePrice, UpdatePrice and SyncPrice of service/                *)
(* billing_service.go over plan_prices, next to what Access does to the    *)
(* plans themselves (the default plan is not for sale, and the prices of a *)
(* plan go with it).  The provider is configured.  A plan has one price at *)
(* a time (the schema allows one for each period and currency), and nobody *)
(* has bought it yet.                                                      *)
(*                                                                         *)
(* A request reads the whole row, asks the provider for as long as that    *)
(* takes, and writes the whole row back.  What a buyer is shown is the     *)
(* row; what a buyer is charged is the product.                            *)
(***************************************************************************)
EXTENDS Access

CONSTANTS
    Tags,             \* what a price may be: an amount and its currency
    CurrencyOf,
    MaxPriceRequests  \* bound on the requests about prices of a behaviour, for each menu

ASSUME PricingAssumption == None \notin Tags \union BOOLEAN /\ MaxPriceRequests \in [Menus -> Nat]

VARIABLES
    prices,    \* the price of each plan: a row of plan_prices
    products,  \* the provider: the products, in the order they were created
    call,      \* what each request has read, and where it is
    asked,
    hidden,    \* history: prices that were last asked to be taken off the shelf
    spoiled,   \* history: prices pushed or written on the strength of an outdated read
    replayed   \* history: prices that got the product of another attempt

priceVars == <<prices, products, call, asked, hidden, spoiled, replayed>>

NoPrice   == [id |-> 0]
NoProduct == 0
Before    == 1
Price(id, tag) == [id |-> id, tag |-> tag, status |-> "pending", product |-> NoProduct, active |-> TRUE]

PricingInit ==
  /\ Init
  \* Who else there is does not matter to prices.
  /\ "price" \in menu => Admins = {Registered[1]} /\ \A u \in Users \ Admins : role[Team][u] = None
  \* A plan may be for sale already.
  /\ \E first \in SUBSET {p \in Plans : "price" \in menu /\ plans[p].there /\ ~plans[p].default}, tag \in Tags :
       /\ \A p, q \in first : p = q
       /\ prices = [p \in Plans |-> IF p \in first THEN [Price(Before, tag) EXCEPT !.status = "active", !.product = 1]
                                   ELSE NoPrice]
       /\ products = IF first = {} THEN <<>> ELSE <<[key |-> Before, tag |-> tag]>>
  /\ call = [i \in Requests |-> Idle] /\ asked = 0
  /\ hidden = {} /\ spoiled = {} /\ replayed = {}

On(i, op, pc)   == call[i].op = op /\ call[i].pc = pc
Syncing(i, pc)  == call[i] # Idle /\ call[i].pc = pc
Resumed(i, pc)  == [call[i] EXCEPT !.pc = pc]
Proceed(i, pc)  == call' = [call EXCEPT ![i] = Resumed(i, pc)]
Return(i)       == call' = [call EXCEPT ![i] = Idle]

\* GetPlanPrice, of the id that the request names.
Present(c) == prices[c.plan].id = c.id

\* The row was written since the request has read it (and may be what it was, again).
Outdated(c) == IF Present(c) /\ c.stale THEN spoiled \union {c.id} ELSE spoiled

HasRead(i) == call[i] # Idle /\ call[i].pc \in {"write", "push", "store"}

\* UpdatePlanPrice writes every column, whatever they are by now; the request goes on
\* as next, and what others have read of the row is outdated.
UpdatePlanPrice(i, row, next) ==
  LET c == call[i] IN
  /\ prices' = IF Present(c) THEN [prices EXCEPT ![c.plan] = row] ELSE prices
  /\ spoiled' = Outdated(c)
  /\ call' = [j \in Requests |->
                IF j = i THEN next
                ELSE IF HasRead(j) /\ call[j].id = c.id /\ prices' # prices
                THEN [call[j] EXCEPT !.stale = TRUE] ELSE call[j]]

-----------------------------------------------------------------------------
(* The requests of an administrator. *)

Request(i, op, pc, p, id, tag, active) ==
  /\ "price" \in menu /\ call[i] = Idle
  /\ asked < MaxPriceRequests[menu] /\ asked' = asked + 1
  /\ \E a \in Users : PlatformAdmin(a)
  /\ call' = [call EXCEPT ![i] = [op |-> op, pc |-> pc, plan |-> p, id |-> id, tag |-> tag, active |-> active,
                                  seen |-> NoPrice, row |-> NoPrice, stale |-> FALSE]]
  /\ UNCHANGED <<prices, products, hidden, spoiled, replayed>>

CreatePrice(i, p, tag) == Request(i, "create", "plan", p, Before + asked + 1, tag, TRUE)

\* A request changes the amount, or takes the price on or off the shelf, or does both.
UpdatePrice(i, p, tag, active) ==
  /\ prices[p] # NoPrice /\ <<tag, active>> # <<None, None>>
  /\ Request(i, "update", "old", p, prices[p].id, tag, active)

SyncPrice(i, p) == prices[p] # NoPrice /\ Request(i, "sync", "read", p, prices[p].id, prices[p].tag, TRUE)

\* There is nothing to sell of a plan everybody has.
CheckPlan(i) ==
  LET p == call[i].plan IN
  /\ On(i, "create", "plan")
  /\ IF plans[p].there /\ ~plans[p].default THEN Proceed(i, "insert") ELSE Return(i)
  /\ UNCHANGED <<prices, products, asked, hidden, spoiled, replayed>>

\* A plan that is gone and a second price of a plan (the same period and currency) are
\* refused by the schema.
CreatePlanPrice(i) ==
  LET c == call[i] IN
  /\ On(i, "create", "insert")
  /\ IF plans[c.plan].there /\ prices[c.plan] = NoPrice
     THEN prices' = [prices EXCEPT ![c.plan] = Price(c.id, c.tag)] /\ Proceed(i, "read")
     ELSE Return(i) /\ UNCHANGED prices
  /\ UNCHANGED <<products, asked, hidden, spoiled, replayed>>

\* What a request leaves out (None) keeps the value that was read.
Amount(old, c) == IF c.tag = None THEN old.tag ELSE c.tag
Active(old, c) == IF c.active = None THEN old.active ELSE c.active

\* The currency of a product does not change.
GetOldPrice(i) ==
  LET c == call[i]  old == prices[c.plan] IN
  /\ On(i, "update", "old")
  /\ IF Present(c) /\ (CurrencyOf[Amount(old, c)] = CurrencyOf[old.tag] \/ old.product = NoProduct)
     THEN call' = [call EXCEPT ![i] = [c EXCEPT !.seen = old, !.stale = FALSE, !.pc = "write"]]
     ELSE Return(i)
  /\ UNCHANGED <<prices, products, asked, hidden, spoiled, replayed>>

\* Mutant: a new amount keeps the status.
Revised_active(old, c) == [old EXCEPT !.tag = Amount(old, c), !.active = Active(old, c)]

\* A new amount is for sale when the provider has it.
Revised(old, c) == [old EXCEPT !.tag = Amount(old, c), !.active = Active(old, c),
                               !.status = IF Amount(old, c) = old.tag THEN @ ELSE "pending"]

WriteRevised(i) ==
  LET c == call[i] IN
  /\ On(i, "update", "write")
  /\ UpdatePlanPrice(i, Revised(c.seen, c),
                     IF Present(c) /\ Amount(c.seen, c) # c.seen.tag THEN Resumed(i, "read") ELSE Idle)
  /\ hidden' = CASE Present(c) /\ c.active = TRUE  -> hidden \ {c.id}
                 [] Present(c) /\ c.active = FALSE -> hidden \union {c.id}
                 [] OTHER                          -> hidden
  /\ UNCHANGED <<products, asked, replayed>>

-----------------------------------------------------------------------------
(* SyncPrice: read, push, write. *)

GetPlanPriceByID(i) ==
  LET c == call[i] IN
  /\ Syncing(i, "read")
  /\ IF Present(c)
     THEN LET old == prices[c.plan]
          IN  call' = [call EXCEPT ![i] = [c EXCEPT !.seen = old, !.row = old, !.stale = FALSE, !.pc = "push"]]
     ELSE Return(i)
  /\ UNCHANGED <<prices, products, asked, hidden, spoiled, replayed>>

\* What is written once the provider has answered.
Answered(i, row) == call' = [call EXCEPT ![i] = [@ EXCEPT !.row = row, !.pc = "store"]]
Pushed(i, n)     == Answered(i, [call[i].row EXCEPT !.status = "active", !.product = n])
Failed(i)        == Answered(i, [call[i].row EXCEPT !.status = "error"])

\* The key is the id of the price: within a day the provider gives the product it
\* created first, after that another one.  The answer may be lost.
CreateSubscriptionProduct(i) ==
  LET c   == call[i]
      new == Append(products, [key |-> c.id, tag |-> c.seen.tag])
      old == {n \in DOMAIN products : products[n].key = c.id} IN
  /\ Syncing(i, "push") /\ c.seen.product = NoProduct
  /\ \/ products' = new /\ (Pushed(i, Len(new)) \/ Failed(i)) /\ UNCHANGED replayed
     \/ \E n \in old : Pushed(i, n) /\ replayed' = replayed \union {c.id} /\ UNCHANGED products
     \/ Failed(i) /\ UNCHANGED <<products, replayed>>
  /\ spoiled' = Outdated(c)
  /\ UNCHANGED <<prices, asked, hidden>>

\* A new version of the product, for the buyers to come.
UpdateSubscriptionProduct(i) ==
  LET c == call[i]  n == c.seen.product IN
  /\ Syncing(i, "push") /\ n # NoProduct
  /\ \/ products' = [products EXCEPT ![n].tag = c.seen.tag] /\ (Pushed(i, n) \/ Failed(i))
     \/ Failed(i) /\ UNCHANGED products
  /\ spoiled' = Outdated(c)
  /\ UNCHANGED <<prices, asked, hidden, replayed>>

StoreSync(i) ==
  /\ Syncing(i, "store")
  /\ UpdatePlanPrice(i, call[i].row, Idle)
  /\ UNCHANGED <<products, asked, hidden, replayed>>

-----------------------------------------------------------------------------
\* A plan takes its price along; a restart, the requests that are under way.
Cascade ==
  /\ prices' = [p \in Plans |-> IF plans'[p].there THEN prices[p] ELSE NoPrice]
  /\ call' = IF restarts' # restarts THEN [i \in Requests |-> Idle] ELSE call
  /\ UNCHANGED <<products, asked, hidden, spoiled, replayed>>

Priced(i) ==
  \/ \E p \in Plans : \/ SyncPrice(i, p)
                      \/ \E t \in Tags : CreatePrice(i, p, t)
                      \/ \E t \in Tags \union {None}, b \in BOOLEAN \union {None} : UpdatePrice(i, p, t, b)
  \/ CheckPlan(i) \/ CreatePlanPrice(i) \/ GetOldPrice(i) \/ WriteRevised(i)
  \/ GetPlanPriceByID(i) \/ CreateSubscriptionProduct(i) \/ UpdateSubscriptionProduct(i) \/ StoreSync(i)

PricingNext == \/ Next /\ Cascade
               \/ (\E i \in Requests : Priced(i)) /\ UNCHANGED vars

PricingSpec == PricingInit /\ [][PricingNext]_<<vars, priceVars>>

-----------------------------------------------------------------------------
(* Properties. *)

\* ListActivePlanPrices, and purchasablePrice when a checkout begins.
ForSale(p) == /\ prices[p] # NoPrice /\ plans[p].there /\ ~plans[p].default
              /\ prices[p].active /\ prices[p].status = "active"

\* The price that is shown is the price that is charged, and a price that was taken off
\* the shelf is not for sale: unless two requests were about the same price, of which one
\* went on with what it had read before the other wrote (billing_service.go:236 and 281
\* write whole rows), or the price got the product that another attempt had created
\* (billing_service.go:258: the key is that of the price, whatever its amount).
PricesExplained ==
  \A p \in Plans :
    ForSale(p) =>
      LET row == prices[p] IN
      /\ row.product \in DOMAIN products
      /\ products[row.product].tag = row.tag \/ row.id \in spoiled \union replayed
      /\ row.id \notin hidden \/ row.id \in spoiled
=============================================================================
