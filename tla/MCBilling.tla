------------------------------ MODULE MCBilling ------------------------------
(* Small instances of Billing for TLC: each order is for a plan of its own. *)
EXTENDS Billing, TLC

CONSTANTS o1, o2, p1, p2

TwoPlans == {p1, p2}
PlanOfTwo == o1 :> p1 @@ o2 :> p2

\* Events in order and longer behaviours, or any order, with a click.
Both    == BOOLEAN
Time    == [inOrder \in BOOLEAN |-> IF inOrder THEN 6 ELSE 5]
Clicks  == [inOrder \in BOOLEAN |-> IF inOrder THEN 0 ELSE 1]
=============================================================================
