------------------------------ MODULE MCAccess ------------------------------
(* Small instances of Access, and of Pricing over it, for TLC. *)
EXTENDS Pricing, TLC

CONSTANTS u1, u2, u3, basic, pro, spare, low, high, euro

\* Requests that touch the same rows are mixed.
Accounts    == {"login", "register", "logout", "password", "updateUser", "deleteUser"}
Workspaces  == {"login", "logout", "select", "createTenant", "deleteTenant", "deleteUser"}
Members     == {"addMember", "updateRole", "removeMember", "deleteUser", "updateUser"}
PlanChanges == {"register", "createPlan", "updatePlan", "deletePlan", "assignPlan"}
Usage       == {"fetch", "updatePlan", "assignPlan"}
Prices      == {"price"}
PriceEnds   == {"price", "deletePlan"}

SevenMenus == {Accounts, Workspaces, Members, PlanChanges, Usage, Prices, PriceEnds}

\* A day's use takes two fetches next to two changes of a plan or of its limit.  A plan
\* goes next to two requests about its price; the third request about one price can bring
\* back what the first has read.
FewRequests   == [m \in Menus |-> IF m = Usage THEN 4 ELSE IF m \in {Prices, PriceEnds} THEN 1 ELSE 2]
PriceRequests == [m \in Menus |-> IF m = Prices THEN 3 ELSE 2]
Restarts      == [m \in Menus |-> IF m \in {Usage, Prices} THEN 0 ELSE 1]
OneBilled     == [m \in Menus |-> IF m = Usage THEN {u1} ELSE Tenants]

TwoUsers == <<u1, u2>>
\* Limits that fetches exceed, and none.
DailyLimits == {1, 2, -1}

\* Two amounts in dollars and one in euros.
Currencies == (low :> "USD") @@ (high :> "USD") @@ (euro :> "EUR")

Symmetry == Permutations(Requests)
Migrated == (basic :> [there |-> TRUE, default |-> TRUE, limit |-> 1])
         @@ (pro :> [there |-> TRUE, default |-> FALSE, limit |-> 2])
         @@ (spare :> [there |-> FALSE, default |-> FALSE, limit |-> 1])

\* Who else there is does not matter to the use of a workspace.
InstanceInit ==
  /\ PricingInit
  /\ "fetch" \in menu => /\ \A u \in Users : users[u].admin <=> u = u1
                         /\ \A u \in Users \ {u1} : role[Team][u] = None
Instance == InstanceInit /\ [][PricingNext]_<<vars, priceVars>>
=============================================================================
