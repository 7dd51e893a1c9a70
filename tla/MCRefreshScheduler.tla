------------------------- MODULE MCRefreshScheduler -------------------------
(* Small instances of RefreshScheduler for TLC: two groups of one tenant, and  *)
(* one of another for the run about progress.                                  *)
EXTENDS RefreshScheduler, TLC

CONSTANTS g1, g2, g3, t1, t2

GroupsOfOne == g1 :> t1 @@ g2 :> t1
GroupsOfTwo == GroupsOfOne @@ g3 :> t2

\* The processes are interchangeable, and so are the groups of the tenant.
ScheduleSymmetry == Permutations(Schedulers) \union Permutations(Groups)
=============================================================================
