-------------------------- MODULE JobManagerProofs --------------------------
(***************************************************************************)
(* Theorems about JobManager, for any jobs, items, workers and bounds.     *)
(***************************************************************************)
EXTENDS JobManager, FiniteSetTheorems, TLAPS

-----------------------------------------------------------------------------
(* Type correctness.                                                       *)

\* Updating one cell of a table leaves it a table.
LEMMA CellType ==
  ASSUME NEW S, NEW T, NEW V, NEW f \in [S -> [T -> V]], NEW s \in S, NEW t \in T,
         NEW v \in V
  PROVE  [f EXCEPT ![s][t] = v] \in [S -> [T -> V]]
OBVIOUS

\* So does counting in a cell.
LEMMA CountType ==
  ASSUME NEW S, NEW T, NEW f \in [S -> [T -> Nat]], NEW s \in S, NEW t \in T
  PROVE  [f EXCEPT ![s][t] = @ + 1] \in [S -> [T -> Nat]]
<1>1. f[s][t] + 1 \in Nat
  OBVIOUS
<1> QED BY <1>1, CellType

\* A worker that moves on is in one of its stages.
LEMMA MovesType ==
  ASSUME TypeOK, NEW j \in Jobs, NEW w \in Workers, NEW from, NEW to \in WorkerStages,
         Moves(j, w, from, to)
  PROVE  at' \in [Jobs -> [Workers -> WorkerStages]]
BY CellType DEF TypeOK, Moves

\* A database call leaves the fault budget within its bound.
LEMMA CallsType ==
  ASSUME TypeOK, NEW j, NEW ok, Calls(j, ok)
  PROVE  faults' \in 0..MaxFaults
BY ConstantsOK DEF TypeOK, Calls

\* So does writing an item: only the item the worker holds can change, to a legal status.
LEMMA FinishItemType ==
  ASSUME TypeOK, NEW j \in Jobs, NEW w \in Workers, NEW ok \in BOOLEAN,
         NEW s \in Results \union {"running"}, FinishItem(j, w, ok, s)
  PROVE  itemStatus' \in [Jobs -> [Items -> Results \union {"absent", "pending", "running"}]]
BY DEF TypeOK, FinishItem

\* jobs.status, job_items.status and every local of the engine keep to their values.
THEOREM TypeCorrect == Spec => []TypeOK
<1> USE ConstantsOK DEF dbVars, poolVars, histVars, Active, Terminal, Results
<1>1. Init => TypeOK
  BY DEF Init, TypeOK, NoTally, WorkerStages, RunStages, NoItem
<1>2. TypeOK /\ [Next]_vars => TypeOK'
  <2> SUFFICES ASSUME TypeOK, [Next]_vars PROVE TypeOK'
    OBVIOUS
  <2>1. ASSUME NEW j \in Jobs, Submit(j) PROVE TypeOK'
    <3>1. CASE CreateJob(j)
      BY <3>1 DEF CreateJob, TypeOK, RunStages
    <3>2. ASSUME NEW S \in SUBSET Items, CreateJobItems(j, S) PROVE TypeOK'
      BY <3>2, CallsType DEF CreateJobItems, TypeOK, RunStages
    <3>3. CASE Spawn(j)
      BY <3>3 DEF Spawn, TypeOK, RunStages
    <3> QED BY <2>1, <3>1, <3>2, <3>3 DEF Submit
  <2>2. ASSUME NEW j \in Jobs, Goroutine(j) PROVE TypeOK'
    <3>1. CASE StartJob(j)
      BY <3>1, CallsType DEF StartJob, TypeOK, RunStages
    <3>2. CASE GiveUp(j)
      BY <3>2, CallsType DEF GiveUp, Return, TypeOK, RunStages, NoTally, NoItem
    <3>3. CASE ListPendingJobItems(j)
      BY <3>3, CallsType DEF ListPendingJobItems, TypeOK, RunStages, WorkerStages
    <3>4. CASE FailJob(j)
      BY <3>4, CallsType DEF FailJob, Writes, Return, TypeOK, RunStages, NoTally, NoItem
    <3>5. CASE CloseQueue(j)
      BY <3>5 DEF CloseQueue, TypeOK, RunStages
    <3>6. CASE FinishJob(j)
      BY <3>6, CallsType DEF FinishJob, Writes, Verdict, Return, TypeOK, RunStages, NoTally,
                             NoItem
    <3> QED BY <2>2, <3>1, <3>2, <3>3, <3>4, <3>5, <3>6 DEF Goroutine
  <2>3. ASSUME NEW j \in Jobs, NEW w \in Workers, Worker(j, w) PROVE TypeOK'
    <3>1. CASE TakeItem(j, w)
      <4>1. PICK i \in todo[j] : /\ todo' = [todo EXCEPT ![j] = @ \ {i}]
                                 /\ held' = [held EXCEPT ![j][w] = i]
        BY <3>1 DEF TakeItem
      <4>2. at' \in [Jobs -> [Workers -> WorkerStages]]
        BY <3>1, MovesType DEF TakeItem, WorkerStages
      <4>3. held' \in [Jobs -> [Workers -> Items \union {NoItem}]]
        BY <4>1, CellType DEF TypeOK
      <4> QED BY <3>1, <4>1, <4>2, <4>3 DEF TakeItem, TypeOK
    <3>2. CASE SeeStop(j, w)
      <4>1. at' \in [Jobs -> [Workers -> WorkerStages]]
        BY <3>2, MovesType DEF SeeStop, WorkerStages
      <4>2. tally' \in [Jobs -> [Results -> Nat]]
        BY <3>2, CountType DEF SeeStop, TypeOK
      <4>3. faults' \in 0..MaxFaults /\ stopSeen' \in [Jobs -> BOOLEAN]
        BY <3>2, CallsType DEF SeeStop, TypeOK
      <4> QED BY <3>2, <4>1, <4>2, <4>3 DEF SeeStop, TypeOK
    <3>3. CASE PassCheck(j, w)
      <4>1. at' \in [Jobs -> [Workers -> WorkerStages]]
        BY <3>3, MovesType DEF PassCheck, WorkerStages
      <4> QED BY <3>3, <4>1, CallsType DEF PassCheck, TypeOK
    <3>4. CASE SkipItem(j, w)
      <4>1. at' \in [Jobs -> [Workers -> WorkerStages]]
        BY <3>4, MovesType DEF SkipItem, WorkerStages
      <4>2. PICK ok \in BOOLEAN : Calls(j, ok) /\ FinishItem(j, w, ok, "skipped")
        BY <3>4 DEF SkipItem
      <4>3. /\ faults' \in 0..MaxFaults
            /\ itemStatus' \in [Jobs -> [Items -> Results \union {"absent", "pending", "running"}]]
        BY <4>2, CallsType, FinishItemType
      <4> QED BY <3>4, <4>1, <4>3 DEF SkipItem, TypeOK
    <3>5. CASE StartJobItem(j, w)
      <4>1. at' \in [Jobs -> [Workers -> WorkerStages]]
        BY <3>5, MovesType DEF StartJobItem, WorkerStages
      <4>2. PICK ok \in BOOLEAN : Calls(j, ok) /\ FinishItem(j, w, ok, "running")
        BY <3>5 DEF StartJobItem
      <4>3. runs' \in [Jobs -> [Items -> Nat]]
        <5>0. PICK h : h = held[j][w] /\ runs' = [runs EXCEPT ![j][h] = @ + 1]
          BY <3>5 DEF StartJobItem
        <5>1. CASE h \in Items
          BY <5>0, <5>1, CountType DEF TypeOK
        <5>2. CASE h \notin Items
          <6>1. [runs[j] EXCEPT ![h] = runs[j][h] + 1] = runs[j]
            BY <5>2 DEF TypeOK
          <6> QED BY <5>0, <6>1 DEF TypeOK
        <5> QED BY <5>1, <5>2
      <4>4. /\ faults' \in 0..MaxFaults
            /\ itemStatus' \in [Jobs -> [Items -> Results \union {"absent", "pending", "running"}]]
        BY <4>2, CallsType, FinishItemType
      <4>5. late' \in [Jobs -> Nat]
        BY <3>5 DEF StartJobItem, TypeOK
      <4> QED BY <3>5, <4>1, <4>3, <4>4, <4>5 DEF StartJobItem, TypeOK
    <3>6. ASSUME NEW r \in Returned, FinishJobItem(j, w, r) PROVE TypeOK'
      <4>1. at' \in [Jobs -> [Workers -> WorkerStages]]
        BY <3>6, MovesType DEF FinishJobItem, WorkerStages
      <4>2. PICK ok \in BOOLEAN : Calls(j, ok) /\ FinishItem(j, w, ok, Settle(r))
        BY <3>6 DEF FinishJobItem
      <4>3. Settle(r) \in Results
        BY DEF Settle, Returned
      <4>4. outcome' \in [Jobs -> [Workers -> Results]]
        BY <3>6, <4>3, CellType DEF FinishJobItem, TypeOK
      <4>5. /\ faults' \in 0..MaxFaults
            /\ itemStatus' \in [Jobs -> [Items -> Results \union {"absent", "pending", "running"}]]
        BY <4>2, <4>3, CallsType, FinishItemType
      <4> QED BY <3>6, <4>1, <4>4, <4>5 DEF FinishJobItem, TypeOK
    <3>7. CASE BumpJobCounts(j, w)
      <4>1. at' \in [Jobs -> [Workers -> WorkerStages]]
        BY <3>7, MovesType DEF BumpJobCounts, WorkerStages
      <4>2. outcome[j][w] \in Results
        BY DEF TypeOK
      <4>3. tally' \in [Jobs -> [Results -> Nat]]
        BY <3>7, <4>2, CountType DEF BumpJobCounts, TypeOK
      <4>4. /\ faults' \in 0..MaxFaults
            /\ successCount' \in [Jobs -> Nat]
            /\ failedCount' \in [Jobs -> Nat]
        <5>1. CASE UNCHANGED <<successCount, failedCount, faults>>
          BY <5>1 DEF TypeOK
        <5>2. ASSUME NEW ok \in BOOLEAN, Calls(j, ok),
                     successCount' = IF ok /\ outcome[j][w] = "success"
                       THEN [successCount EXCEPT ![j] = @ + 1] ELSE successCount,
                     failedCount' = IF ok /\ outcome[j][w] = "failed"
                       THEN [failedCount EXCEPT ![j] = @ + 1] ELSE failedCount
              PROVE  /\ faults' \in 0..MaxFaults
                     /\ successCount' \in [Jobs -> Nat]
                     /\ failedCount' \in [Jobs -> Nat]
          <6>1. faults' \in 0..MaxFaults
            BY <5>2, CallsType
          <6> QED BY <5>2, <6>1 DEF TypeOK
        <5> QED BY <3>7, <5>1, <5>2 DEF BumpJobCounts
      <4> QED BY <3>7, <4>1, <4>3, <4>4 DEF BumpJobCounts, TypeOK
    <3>8. CASE Pause(j, w)
      <4>1. at' \in [Jobs -> [Workers -> WorkerStages]]
        BY <3>8, MovesType DEF Pause, WorkerStages
      <4> QED BY <3>8, <4>1 DEF Pause, TypeOK
    <3>9. CASE LeaveQueue(j, w)
      BY <3>9 DEF LeaveQueue, Moves, TypeOK, WorkerStages
    <3> QED BY <2>3, <3>1, <3>2, <3>3, <3>4, <3>5, <3>6, <3>7, <3>8, <3>9 DEF Worker
  <2>4. ASSUME NEW j \in Jobs, RequestJobStop(j) PROVE TypeOK'
    BY <2>4 DEF RequestJobStop, TypeOK
  <2>5. ASSUME NEW j \in Jobs, TouchJobHeartbeat(j) \/ Lapse(j) PROVE TypeOK'
    BY <2>5 DEF TouchJobHeartbeat, Lapse, TypeOK
  <2>6. ASSUME NEW j \in Jobs, PurgeJob(j) PROVE TypeOK'
    BY <2>6 DEF PurgeJob, TypeOK
  <2>7. CASE Shutdown
    BY <2>7 DEF Shutdown, TypeOK
  <2>8. CASE Exit \/ Crash
    <3>1. ends' \in 0..MaxEnds
      BY <2>8 DEF Exit, Crash, TypeOK
    <3>2. Forget
      BY <2>8 DEF Exit, Crash
    <3> QED BY <3>1, <3>2 DEF Forget, TypeOK, RunStages, WorkerStages, NoTally, NoItem
  <2>9. CASE Restart
    <3>1. PICK R \in SUBSET Jobs :
            /\ jobStatus' = [j \in Jobs |-> IF j \in R THEN "interrupted" ELSE jobStatus[j]]
            /\ faults' = faults \/ (faults < MaxFaults /\ faults' = faults + 1)
      BY <2>9 DEF Restart
    <3>2. faults' \in 0..MaxFaults
      BY <3>1 DEF TypeOK
    <3> QED BY <2>9, <3>1, <3>2 DEF Restart, TypeOK
  <2>10. CASE Rest \/ UNCHANGED vars
    BY <2>10 DEF Rest, vars, TypeOK
  <2> QED
    BY <2>1, <2>2, <2>3, <2>4, <2>5, <2>6, <2>7, <2>8, <2>9, <2>10 DEF Next
<1>3. QED BY <1>1, <1>2, PTL DEF Spec

-----------------------------------------------------------------------------
(* The status of a job is owned by one goroutine at a time.                *)

\* Steps that leave status, goroutine and stop request alone.
LEMMA OwnershipFrame ==
  ASSUME Ownership, UNCHANGED <<jobStatus, proc, run, stopSeen, stopAsked>>
  PROVE  Ownership'
BY DEF Ownership

\* A worker changes none of them but stopSeen, and that only when it saw the stop.
LEMMA WorkerOwnership ==
  ASSUME TypeOK, Ownership, NEW j \in Jobs, NEW w \in Workers, Worker(j, w)
  PROVE  Ownership' /\ jobStatus' = jobStatus /\ stopAsked' = stopAsked
<1>1. CASE SeeStop(j, w)
  BY <1>1 DEF SeeStop, Ownership, TypeOK, dbVars, histVars
<1>2. CASE TakeItem(j, w)
  BY <1>2, OwnershipFrame DEF TakeItem, dbVars, histVars
<1>3. CASE PassCheck(j, w)
  BY <1>3, OwnershipFrame DEF PassCheck, dbVars, histVars
<1>4. CASE SkipItem(j, w)
  BY <1>4, OwnershipFrame DEF SkipItem, histVars
<1>5. CASE StartJobItem(j, w)
  BY <1>5, OwnershipFrame DEF StartJobItem
<1>6. ASSUME NEW r \in Returned, FinishJobItem(j, w, r)
      PROVE  Ownership' /\ jobStatus' = jobStatus /\ stopAsked' = stopAsked
  BY <1>6, OwnershipFrame DEF FinishJobItem, histVars
<1>7. CASE BumpJobCounts(j, w)
  BY <1>7, OwnershipFrame DEF BumpJobCounts, histVars
<1>8. CASE Pause(j, w) \/ LeaveQueue(j, w)
  BY <1>8, OwnershipFrame DEF Pause, LeaveQueue, dbVars, histVars
<1> QED BY <1>1, <1>2, <1>3, <1>4, <1>5, <1>6, <1>7, <1>8 DEF Worker

\* No interleaving of submission, goroutine, stop, shutdown, crash and reaping puts a
\* job's status out of step with the goroutine that owns it.
THEOREM OwnershipHolds == Spec => []Ownership
<1>1. Init => Ownership
  BY DEF Init, Ownership
<1>2. TypeOK /\ Ownership /\ [Next]_vars => Ownership'
  <2> SUFFICES ASSUME TypeOK, Ownership, [Next]_vars PROVE Ownership'
    OBVIOUS
  <2> USE DEF dbVars, histVars
  <2>1. ASSUME NEW j \in Jobs, Submit(j) PROVE Ownership'
    <3>1. CASE CreateJob(j)
      BY <3>1 DEF CreateJob, Ownership, TypeOK, poolVars
    <3>2. ASSUME NEW S \in SUBSET Items, CreateJobItems(j, S) PROVE Ownership'
      BY <3>2 DEF CreateJobItems, Ownership, TypeOK, poolVars
    <3>3. CASE Spawn(j)
      BY <3>3 DEF Spawn, Ownership, TypeOK, poolVars
    <3> QED BY <2>1, <3>1, <3>2, <3>3 DEF Submit
  <2>2. ASSUME NEW j \in Jobs, Goroutine(j) PROVE Ownership'
    <3>1. CASE StartJob(j)
      BY <3>1 DEF StartJob, Ownership, TypeOK, poolVars
    <3>2. CASE GiveUp(j)
      BY <3>2 DEF GiveUp, Return, Ownership, TypeOK
    <3>3. CASE ListPendingJobItems(j)
      BY <3>3 DEF ListPendingJobItems, Ownership, TypeOK
    <3>4. CASE FailJob(j)
      BY <3>4 DEF FailJob, Writes, Return, Ownership, TypeOK
    <3>5. CASE CloseQueue(j)
      BY <3>5 DEF CloseQueue, Ownership, TypeOK, poolVars
    <3>6. CASE FinishJob(j)
      <4>1. Verdict(j) # "stopping"
        BY DEF Verdict
      <4> QED BY <3>6, <4>1 DEF FinishJob, Writes, Return, Ownership, TypeOK
    <3> QED BY <2>2, <3>1, <3>2, <3>3, <3>4, <3>5, <3>6 DEF Goroutine
  <2>3. ASSUME NEW j \in Jobs, NEW w \in Workers, Worker(j, w) PROVE Ownership'
    BY <2>3, WorkerOwnership
  <2>4. ASSUME NEW j \in Jobs, RequestJobStop(j) PROVE Ownership'
    BY <2>4 DEF RequestJobStop, Ownership, TypeOK, poolVars
  <2>5. ASSUME NEW j \in Jobs, TouchJobHeartbeat(j) \/ Lapse(j) PROVE Ownership'
    BY <2>5, OwnershipFrame DEF TouchJobHeartbeat, Lapse, poolVars
  <2>6. ASSUME NEW j \in Jobs, PurgeJob(j) PROVE Ownership'
    BY <2>6 DEF PurgeJob, Ownership, TypeOK, poolVars
  <2>7. CASE Shutdown
    BY <2>7 DEF Shutdown, Ownership, poolVars
  <2>8. CASE Exit \/ Crash
    BY <2>8 DEF Exit, Crash, Forget, Ownership
  <2>9. CASE Restart
    BY <2>9 DEF Restart, Ownership, TypeOK, poolVars
  <2>10. CASE Rest \/ UNCHANGED vars
    BY <2>10, OwnershipFrame DEF Rest, vars, poolVars
  <2> QED
    BY <2>1, <2>2, <2>3, <2>4, <2>5, <2>6, <2>7, <2>8, <2>9, <2>10 DEF Next
<1>3. QED BY <1>1, <1>2, TypeCorrect, PTL DEF Spec

-----------------------------------------------------------------------------
(* JobManager implements JobLifecycle.                                     *)

\* The verdict of finish is terminal, and "stopped" only for a job asked to stop.
LEMMA VerdictType ==
  ASSUME Ownership, NEW j \in Jobs
  PROVE  /\ Verdict(j) \in Terminal \ {"interrupted"}
         /\ Verdict(j) = "stopped" => j \in stopAsked
BY DEF Verdict, Terminal, Ownership

\* Finishing a job that the goroutine owns is an End step, or a failed write.
LEMMA WritesEnds ==
  ASSUME TypeOK, Ownership, NEW j \in Jobs, NEW ok \in BOOLEAN,
         NEW v \in Terminal \ {"interrupted"}, v = "stopped" => j \in stopAsked,
         run[j] \in {"listing", "failing", "dispatching", "closing"},
         Writes(j, ok, v), UNCHANGED stopAsked
  PROVE  Lifecycle!Next \/ UNCHANGED Lifecycle!vars
<1>1. jobStatus[j] \in {"running", "stopping"}
  BY DEF Ownership
<1>2. CASE ok
  <2>1. Lifecycle!End(j, v)
    BY <1>1, <1>2 DEF Lifecycle!End, Writes
  <2> QED BY <2>1 DEF Lifecycle!Next, Lifecycle!Terminal, Terminal
<1>3. CASE ~ok
  BY <1>3 DEF Writes, Lifecycle!vars
<1> QED BY <1>2, <1>3

\* Whatever the interleaving, a job's status moves only along the lifecycle: it starts
\* once, ends once, ends as stopped only on request, and is interrupted only by a reaper.
THEOREM Implements == Spec => LifecycleSpec
<1>1. Init => Lifecycle!Init
  BY DEF Init, Lifecycle!Init
<1>2. TypeOK /\ Ownership /\ [Next]_vars => [Lifecycle!Next]_(Lifecycle!vars)
  <2> SUFFICES ASSUME TypeOK, Ownership, [Next]_vars
               PROVE  Lifecycle!Next \/ UNCHANGED Lifecycle!vars
    OBVIOUS
  <2> USE DEF dbVars, histVars
  <2>1. ASSUME NEW j \in Jobs, Submit(j) PROVE Lifecycle!Next \/ UNCHANGED Lifecycle!vars
    <3>1. CASE CreateJob(j)
      BY <3>1 DEF CreateJob, Lifecycle!Next, Lifecycle!Create
    <3>2. CASE \E S \in SUBSET Items : CreateJobItems(j, S)
      BY <3>2 DEF CreateJobItems, Lifecycle!vars
    <3>3. CASE Spawn(j)
      BY <3>3 DEF Spawn, Lifecycle!vars
    <3> QED BY <2>1, <3>1, <3>2, <3>3 DEF Submit
  <2>2. ASSUME NEW j \in Jobs, Goroutine(j)
        PROVE  Lifecycle!Next \/ UNCHANGED Lifecycle!vars
    <3>1. CASE StartJob(j)
      BY <3>1 DEF StartJob, Lifecycle!Next, Lifecycle!Start
    <3>2. CASE GiveUp(j) \/ ListPendingJobItems(j) \/ CloseQueue(j)
      BY <3>2 DEF GiveUp, ListPendingJobItems, CloseQueue, Lifecycle!vars
    <3>3. CASE FailJob(j)
      <4>1. "failed" \in Terminal \ {"interrupted"}
        BY DEF Terminal
      <4> QED BY <3>3, <4>1, WritesEnds DEF FailJob
    <3>4. CASE FinishJob(j)
      BY <3>4, VerdictType, WritesEnds DEF FinishJob
    <3> QED BY <2>2, <3>1, <3>2, <3>3, <3>4 DEF Goroutine
  <2>3. ASSUME NEW j \in Jobs, NEW w \in Workers, Worker(j, w)
        PROVE  UNCHANGED Lifecycle!vars
    BY <2>3, WorkerOwnership DEF Lifecycle!vars
  <2>4. ASSUME NEW j \in Jobs, RequestJobStop(j) PROVE Lifecycle!Next
    BY <2>4 DEF RequestJobStop, Lifecycle!Next, Lifecycle!RequestStop
  <2>5. ASSUME NEW j \in Jobs, TouchJobHeartbeat(j) \/ Lapse(j)
        PROVE  UNCHANGED Lifecycle!vars
    BY <2>5 DEF TouchJobHeartbeat, Lapse, Lifecycle!vars
  <2>6. ASSUME NEW j \in Jobs, PurgeJob(j) PROVE Lifecycle!Next
    BY <2>6 DEF PurgeJob, Terminal, Lifecycle!Next, Lifecycle!Delete, Lifecycle!Terminal
  <2>7. CASE Shutdown \/ Exit \/ Crash \/ Rest \/ UNCHANGED vars
    BY <2>7 DEF Shutdown, Exit, Crash, Forget, Rest, vars, Lifecycle!vars
  <2>8. CASE Restart
    <3>1. PICK R \in SUBSET {j \in Jobs : Stale(j)} :
            jobStatus' = [j \in Jobs |-> IF j \in R THEN "interrupted" ELSE jobStatus[j]]
      BY <2>8 DEF Restart
    <3>2. CASE R = {}
      BY <2>8, <3>1, <3>2 DEF Restart, TypeOK, Lifecycle!vars
    <3>3. CASE R # {}
      <4>1. Lifecycle!Reap(R)
        BY <2>8, <3>1, <3>3 DEF Restart, Stale, Lifecycle!Reap
      <4> QED BY <4>1 DEF Lifecycle!Next
    <3> QED BY <3>2, <3>3
  <2> QED
    BY <2>1, <2>2, <2>3, <2>4, <2>5, <2>6, <2>7, <2>8 DEF Next
<1>3. QED
  BY <1>1, <1>2, TypeCorrect, OwnershipHolds, PTL DEF Spec, LifecycleSpec, Lifecycle!Spec

\* A terminal status is never overwritten.
THEOREM TerminalStays == Spec => TerminalIsFinal
<1> DEFINE Final == \A j \in Jobs : jobStatus[j] \in Terminal =>
                                      jobStatus'[j] \in {jobStatus[j], "deleted"}
<1>1. TypeOK /\ [Lifecycle!Next]_(Lifecycle!vars) => [Final]_vars
  <2> SUFFICES ASSUME TypeOK, Lifecycle!Next \/ UNCHANGED Lifecycle!vars PROVE Final
    OBVIOUS
  <2>1. CASE UNCHANGED Lifecycle!vars
    BY <2>1 DEF Lifecycle!vars
  <2>2. ASSUME NEW j \in Jobs, Lifecycle!Create(j) \/ Lifecycle!Start(j) \/
                               Lifecycle!RequestStop(j) \/ Lifecycle!Delete(j)
        PROVE  Final
    BY <2>2 DEF Lifecycle!Create, Lifecycle!Start, Lifecycle!RequestStop, Lifecycle!Delete,
                TypeOK, Terminal
  <2>3. ASSUME NEW j \in Jobs, NEW v, Lifecycle!End(j, v) PROVE Final
    BY <2>3 DEF Lifecycle!End, TypeOK, Terminal
  <2>4. ASSUME NEW R \in SUBSET Jobs, Lifecycle!Reap(R) PROVE Final
    BY <2>4 DEF Lifecycle!Reap, Terminal
  <2> QED BY <2>1, <2>2, <2>3, <2>4 DEF Lifecycle!Next
<1>2. Spec => [][Lifecycle!Next]_(Lifecycle!vars)
  BY Implements, PTL DEF LifecycleSpec, Lifecycle!Spec
<1>3. QED BY <1>1, <1>2, TypeCorrect, PTL DEF TerminalIsFinal

-----------------------------------------------------------------------------
(* The runner is called at most once for an item.                          *)

\* RunnerOnce is not inductive: it needs to know where an item can be found before
\* the call, which HandedOutOnce says.
IInv == HandedOutOnce /\ RunnerOnce

\* Steps that leave the list, the workers and the calls alone.
LEMMA HandedOutFrame ==
  ASSUME IInv, UNCHANGED <<jobStatus, run, todo, at, held, runs>>
  PROVE  IInv'
BY DEF IInv, HandedOutOnce, RunnerOnce

\* A step of the run goroutine that leaves workers and list alone, and starts nothing.
LEMMA HandedOutQuiet ==
  ASSUME TypeOK, IInv, NEW j \in Jobs, NEW s \in RunStages,
         run' = [run EXCEPT ![j] = s],
         jobStatus[j] # "absent" => jobStatus'[j] # "absent",
         \A k \in Jobs \ {j} : jobStatus'[k] = jobStatus[k],
         s \in {"created", "filled", "starting", "listing"} =>
           \/ jobStatus[j] = "absent"
           \/ run[j] \in {"created", "filled", "starting", "listing"},
         s \notin {"dispatching", "closing"} => \A w \in Workers : at[j][w] = "exited",
         todo' = todo \/ todo' = [todo EXCEPT ![j] = {}],
         \A w \in Workers : at[j][w] = "exited" \/ held' = held,
         \A k \in Jobs \ {j} : held'[k] = held[k],
         UNCHANGED <<at, runs>>
  PROVE  IInv'
<1> SUFFICES ASSUME NEW k \in Jobs
             PROVE  /\ jobStatus'[k] = "absent" \/ run'[k] \in {"created", "filled", "starting", "listing"} =>
                         \A i \in Items : runs[k][i] = 0
                    /\ \A i \in todo'[k] : runs[k][i] = 0
                    /\ \A w \in Workers :
                         /\ at[k][w] # "exited" => run'[k] \in {"dispatching", "closing"}
                         /\ at[k][w] \in Undecided =>
                              /\ held'[k][w] \in Items \ todo'[k]
                              /\ runs[k][held'[k][w]] = 0
                    /\ \A v, w \in Workers :
                         v # w /\ at[k][v] \in Undecided /\ at[k][w] \in Undecided =>
                           held'[k][v] # held'[k][w]
  BY DEF IInv, HandedOutOnce, RunnerOnce
<1>1. CASE k # j
  BY <1>1 DEF IInv, HandedOutOnce, TypeOK
<1>2. CASE k = j
  <2>1. jobStatus'[j] = "absent" \/ run'[j] \in {"created", "filled", "starting", "listing"} =>
          \A i \in Items : runs[j][i] = 0
    BY DEF IInv, HandedOutOnce, TypeOK
  <2>2. todo'[j] \subseteq todo[j]
    BY DEF TypeOK
  <2>3. \A w \in Workers : at[j][w] # "exited" => run'[j] \in {"dispatching", "closing"}
    BY DEF TypeOK
  <2>4. \A w \in Workers : at[j][w] \in Undecided => held' = held
    BY DEF Undecided
  <2> QED BY <1>2, <2>1, <2>2, <2>3, <2>4 DEF IInv, HandedOutOnce
<1> QED BY <1>1, <1>2

\* The invariant is preserved by everything a worker does.
LEMMA WorkerHandsOutOnce ==
  ASSUME TypeOK, Ownership, IInv, NEW j \in Jobs, NEW w \in Workers, Worker(j, w)
  PROVE  IInv'
<1> USE DEF dbVars, histVars
<1>1. CASE TakeItem(j, w)
  <2>1. PICK i \in todo[j] : /\ todo' = [todo EXCEPT ![j] = @ \ {i}]
                             /\ held' = [held EXCEPT ![j][w] = i]
    BY <1>1 DEF TakeItem
  <2>2. /\ run[j] = "dispatching"
        /\ at' = [at EXCEPT ![j][w] = "check"]
        /\ UNCHANGED <<jobStatus, run, runs>>
    BY <1>1 DEF TakeItem, Moves
  <2>3. i \in Items
    BY DEF TypeOK
  <2> QED BY <2>1, <2>2, <2>3 DEF IInv, HandedOutOnce, RunnerOnce, TypeOK, Undecided
<1>2. ASSUME NEW s \in WorkerStages \ {"check"}, NEW from \in WorkerStages \ {"exited"},
             Moves(j, w, from, s), s = "start" => from = "check",
             UNCHANGED <<jobStatus, run, todo, held, runs>>
      PROVE  IInv'
  BY <1>2 DEF Moves, IInv, HandedOutOnce, RunnerOnce, TypeOK, Undecided
<1>3. CASE StartJobItem(j, w)
  <2> DEFINE i == held[j][w]
  <2>1. /\ at[j][w] = "start"
        /\ at' = [at EXCEPT ![j][w] = "running"]
        /\ runs' = [runs EXCEPT ![j][i] = @ + 1]
        /\ UNCHANGED <<jobStatus, run, todo, held>>
    BY <1>3 DEF StartJobItem, Moves
  <2>2. /\ i \in Items \ todo[j]
        /\ runs[j][i] = 0
        /\ run[j] \in {"dispatching", "closing"}
        /\ jobStatus[j] # "absent"
    BY <2>1 DEF IInv, HandedOutOnce, Undecided, Ownership
  <2>3. \A v \in Workers \ {w} : at[j][v] \in Undecided => held[j][v] # i
    BY <2>1 DEF IInv, HandedOutOnce, Undecided
  <2> QED BY <2>1, <2>2, <2>3 DEF IInv, HandedOutOnce, RunnerOnce, TypeOK, Undecided
<1> QED
  BY <1>1, <1>2, <1>3 DEF Worker, SeeStop, PassCheck, SkipItem, FinishJobItem, BumpJobCounts,
     Pause, LeaveQueue, WorkerStages

\* The invariant holds throughout.
LEMMA HandsOutOnce == Spec => []IInv
<1>1. Init => IInv
  BY DEF Init, IInv, HandedOutOnce, RunnerOnce, Undecided
<1>2. TypeOK /\ Ownership /\ IInv /\ [Next]_vars => IInv'
  <2> SUFFICES ASSUME TypeOK, Ownership, IInv, [Next]_vars PROVE IInv'
    OBVIOUS
  <2> USE DEF dbVars, poolVars, histVars
  <2>1. ASSUME NEW j \in Jobs, Submit(j) PROVE IInv'
    <3>0. run[j] \in {"none", "created", "filled"} => \A w \in Workers : at[j][w] = "exited"
      BY DEF IInv, HandedOutOnce
    <3>1. CASE CreateJob(j)
      <4>1. run[j] = "none"
        BY <3>1 DEF CreateJob, Ownership, TypeOK, RunStages
      <4> QED BY <3>0, <3>1, <4>1, HandedOutQuiet DEF CreateJob, TypeOK, RunStages
    <3>2. CASE \E S \in SUBSET Items : CreateJobItems(j, S)
      BY <3>0, <3>2, HandedOutQuiet DEF CreateJobItems, RunStages
    <3>3. CASE Spawn(j)
      BY <3>0, <3>3, HandedOutQuiet DEF Spawn, RunStages
    <3> QED BY <2>1, <3>1, <3>2, <3>3 DEF Submit
  <2>2. ASSUME NEW j \in Jobs, Goroutine(j) PROVE IInv'
    <3>0. run[j] \notin {"dispatching", "closing"} => \A w \in Workers : at[j][w] = "exited"
      BY DEF IInv, HandedOutOnce
    <3>1. CASE StartJob(j)
      BY <3>0, <3>1, HandedOutQuiet DEF StartJob, TypeOK, RunStages
    <3>2. CASE GiveUp(j)
      BY <3>0, <3>2, HandedOutQuiet DEF GiveUp, Return, TypeOK, RunStages
    <3>3. CASE ListPendingJobItems(j)
      BY <3>3 DEF ListPendingJobItems, IInv, HandedOutOnce, RunnerOnce, TypeOK, Undecided
    <3>4. CASE FailJob(j)
      BY <3>0, <3>4, HandedOutQuiet DEF FailJob, Writes, Return, TypeOK, RunStages
    <3>5. CASE CloseQueue(j)
      BY <3>5, HandedOutQuiet DEF CloseQueue, RunStages
    <3>6. CASE FinishJob(j)
      <4>1. Verdict(j) # "absent"
        BY DEF Verdict
      <4> QED BY <3>6, <4>1, HandedOutQuiet DEF FinishJob, Writes, Return, TypeOK, RunStages
    <3> QED BY <2>2, <3>1, <3>2, <3>3, <3>4, <3>5, <3>6 DEF Goroutine
  <2>3. ASSUME NEW j \in Jobs, NEW w \in Workers, Worker(j, w) PROVE IInv'
    BY <2>3, WorkerHandsOutOnce
  <2>4. ASSUME NEW j \in Jobs, RequestJobStop(j) \/ PurgeJob(j) PROVE IInv'
    <3>1. /\ \A k \in Jobs : jobStatus'[k] = "absent" => jobStatus[k] = "absent"
          /\ UNCHANGED <<run, todo, at, held, runs>>
      BY <2>4 DEF RequestJobStop, PurgeJob, TypeOK
    <3> QED BY <3>1 DEF IInv, HandedOutOnce, RunnerOnce
  <2>5. ASSUME NEW j \in Jobs, TouchJobHeartbeat(j) \/ Lapse(j) PROVE IInv'
    BY <2>5, HandedOutFrame DEF TouchJobHeartbeat, Lapse
  <2>6. CASE Shutdown \/ Rest \/ UNCHANGED vars
    BY <2>6, HandedOutFrame DEF Shutdown, Rest, vars
  <2>7. CASE Exit \/ Crash
    BY <2>7 DEF Exit, Crash, Forget, IInv, HandedOutOnce, RunnerOnce, Undecided
  <2>8. CASE Restart
    BY <2>8 DEF Restart, Stale, IInv, HandedOutOnce, RunnerOnce, TypeOK
  <2> QED BY <2>1, <2>2, <2>3, <2>4, <2>5, <2>6, <2>7, <2>8 DEF Next
<1>3. QED BY <1>1, <1>2, TypeCorrect, OwnershipHolds, PTL DEF Spec

\* The runner is called at most once for an item: a job is started once, and its queue hands
\* each item to one worker.
THEOREM RunnerCalledOnce == Spec => []RunnerOnce
<1>1. IInv => RunnerOnce
  BY DEF IInv
<1> QED BY <1>1, HandsOutOnce, PTL

-----------------------------------------------------------------------------
(* The counters and the verdict.                                           *)

Countable == {"success", "failed"}
Holding   == {"check", "skipping", "start", "running"}

\* The workers that have written the result of their item and not yet counted it.
Uncounted(j, r) == {w \in Workers : at[j][w] = "count" /\ outcome[j][w] = r}

\* The calls of the job take effect.
Working(j) == run[j] \in {"dispatching", "closing"} /\ ~cancelled[j]

\* Before its workers start, a job has no result.
Unstarted(j) ==
  jobStatus[j] = "absent" \/ run[j] \in {"created", "filled", "starting", "listing"} =>
    /\ \A i \in Items : itemStatus[j][i] \in {"absent", "pending"}
    /\ successCount[j] = 0 /\ failedCount[j] = 0

\* The counters of dispatch are there while the workers are.
Local(j) == /\ run[j] \notin {"dispatching", "closing"} => tally[j] = NoTally /\ ~stopSeen[j]
            /\ run[j] = "failing" => cancelled[j]

\* An item that is not done is on the list or held by one worker, ...
Placed(j) ==
  /\ \A i \in todo[j] : itemStatus[j][i] = "pending"
  /\ \A w \in Workers :
       /\ at[j][w] \in Holding => held[j][w] \in Items \ todo[j]
       /\ at[j][w] \in Holding \ {"running"} => itemStatus[j][held[j][w]] = "pending"
       /\ at[j][w] = "running" => itemStatus[j][held[j][w]] = "running"
  /\ \A v, w \in Workers :
       v # w /\ at[j][v] \in Holding /\ at[j][w] \in Holding => held[j][v] # held[j][w]
  /\ \A i \in Items : itemStatus[j][i] \in {"pending", "running"} =>
       i \in todo[j] \/ \E w \in Workers : at[j][w] \in Holding /\ held[j][w] = i
  /\ run[j] = "closing" => todo[j] = {}

\* ... and the results that are not counted are those of the workers that are about to.
Booked(j) ==
  /\ \A r \in Countable : /\ tally[j][r] = Counted(j, r)
                          /\ Cardinality(ItemsIn(j, {r})) = Counted(j, r) + Cardinality(Uncounted(j, r))
  /\ stopSeen[j] => \/ ItemsIn(j, {"skipped"}) # {}
                    \/ \E w \in Workers : at[j][w] = "skipping"

Lagging(j) ==
  jobStatus[j] # "deleted" =>
    \A r \in Countable : Cardinality(ItemsIn(j, {r})) - Counted(j, r) \in 0..Cardinality(Workers)

Truthful(j) ==
  jobStatus[j] \in {"succeeded", "partial", "failed", "stopped"} =>
    /\ ItemsIn(j, {"pending", "running"}) = {}
    /\ \A r \in Countable : Counted(j, r) = Cardinality(ItemsIn(j, {r}))
    /\ jobStatus[j] = "succeeded" => failedCount[j] = 0
    /\ jobStatus[j] = "partial" => failedCount[j] > 0 /\ successCount[j] > 0
    /\ jobStatus[j] = "failed" => failedCount[j] > 0 /\ successCount[j] = 0
    /\ jobStatus[j] = "stopped" => j \in stopAsked /\ ItemsIn(j, {"skipped"}) # {}

JobInv(j) == /\ Unstarted(j) /\ Local(j) /\ Lagging(j) /\ Truthful(j)
             /\ Working(j) => Placed(j) /\ Booked(j)

CountInv == faults = 0 => \A j \in Jobs : JobInv(j)

\* The workers that have passed the check and not started their item.
Starting(j) == {w \in Workers : at[j][w] = "start"}

\* A call of a job takes effect unless the job is cancelled, as long as nothing has failed.
LEMMA CallsWork ==
  ASSUME TypeOK, NEW j \in Jobs, NEW ok \in BOOLEAN, Calls(j, ok), faults' = 0
  PROVE  faults = 0 /\ ok = ~cancelled[j]
BY ConstantsOK DEF TypeOK, Calls

LEMMA Finite ==
  /\ \A j, S : IsFiniteSet(ItemsIn(j, S)) /\ Cardinality(ItemsIn(j, S)) \in Nat
  /\ \A j, r : /\ IsFiniteSet(Uncounted(j, r))
               /\ Cardinality(Uncounted(j, r)) \in 0..Cardinality(Workers)
  /\ \A j : /\ IsFiniteSet(Starting(j))
            /\ Cardinality(Starting(j)) \in 0..Cardinality(Workers)
  /\ Cardinality(Workers) \in Nat
<1>1. IsFiniteSet(Items) /\ IsFiniteSet(Workers) /\ Cardinality(Workers) \in Nat
  BY ConstantsOK, FS_CardinalityType
<1>2. \A S \in SUBSET Items : IsFiniteSet(S) /\ Cardinality(S) \in Nat
  BY <1>1, FS_Subset, FS_CardinalityType
<1>3. \A S \in SUBSET Workers : IsFiniteSet(S) /\ Cardinality(S) \in 0..Cardinality(Workers)
  BY <1>1, FS_Subset, FS_CardinalityType
<1>4. \A j, S : ItemsIn(j, S) \in SUBSET Items
  BY DEF ItemsIn
<1>5. \A j, r : Uncounted(j, r) \in SUBSET Workers
  BY DEF Uncounted
<1>6. \A j : Starting(j) \in SUBSET Workers
  BY DEF Starting
<1> QED BY <1>1, <1>2, <1>3, <1>4, <1>5, <1>6

\* Nothing else than the books is needed for the bound on the lag.
LEMMA BookedLag ==
  ASSUME TypeOK, NEW j \in Jobs, Booked(j)
  PROVE  Lagging(j)
<1>1. ASSUME NEW r \in Countable
      PROVE  Cardinality(ItemsIn(j, {r})) - Counted(j, r) \in 0..Cardinality(Workers)
  <2>1. Cardinality(ItemsIn(j, {r})) = Counted(j, r) + Cardinality(Uncounted(j, r))
    BY DEF Booked
  <2>2. Counted(j, r) \in Nat
    BY DEF Counted, TypeOK
  <2>3. Cardinality(Uncounted(j, r)) \in 0..Cardinality(Workers) /\ Cardinality(Workers) \in Nat
    BY Finite
  <2> QED BY <2>1, <2>2, <2>3
<1> QED BY <1>1 DEF Lagging

\* The lag is of the items and the counters alone.
LEMMA LagKept ==
  ASSUME NEW j \in Jobs, Lagging(j), itemStatus'[j] = itemStatus[j],
         successCount'[j] = successCount[j], failedCount'[j] = failedCount[j],
         jobStatus'[j] # "deleted" => jobStatus[j] # "deleted"
  PROVE  Lagging(j)'
<1>1. \A r : ItemsIn(j, {r})' = ItemsIn(j, {r}) /\ Counted(j, r)' = Counted(j, r)
  BY DEF ItemsIn, Counted
<1> QED BY <1>1 DEF Lagging

\* A step of one job leaves the others alone.
Same(k) ==
  /\ jobStatus'[k] = jobStatus[k] /\ itemStatus'[k] = itemStatus[k]
  /\ successCount'[k] = successCount[k] /\ failedCount'[k] = failedCount[k]
  /\ run'[k] = run[k] /\ cancelled'[k] = cancelled[k] /\ todo'[k] = todo[k]
  /\ at'[k] = at[k] /\ held'[k] = held[k] /\ outcome'[k] = outcome[k]
  /\ tally'[k] = tally[k] /\ stopSeen'[k] = stopSeen[k]
  /\ k \in stopAsked => k \in stopAsked'

LEMMA SameInv ==
  ASSUME NEW k \in Jobs, JobInv(k), Same(k)
  PROVE  JobInv(k)'
<1> USE DEF Same
<1>1. \A S : ItemsIn(k, S)' = ItemsIn(k, S)
  BY DEF ItemsIn
<1>2. \A r : Uncounted(k, r)' = Uncounted(k, r) /\ Counted(k, r)' = Counted(k, r)
  BY DEF Uncounted, Counted
<1>3. Unstarted(k)' /\ Local(k)' /\ (Working(k)' = Working(k))
  BY DEF JobInv, Unstarted, Local, Working
<1>4. Lagging(k)'
  BY LagKept DEF JobInv
<1>5. Truthful(k)'
  BY <1>1, <1>2 DEF JobInv, Truthful
<1>6. Placed(k) => Placed(k)'
  BY DEF Placed
<1>7. Booked(k) => Booked(k)'
  BY <1>1, <1>2 DEF Booked
<1> QED BY <1>3, <1>4, <1>5, <1>6, <1>7 DEF JobInv

\* Every step of a job's goroutines, or of a request about a job, is about that job only.
LEMMA OthersSame ==
  ASSUME TypeOK, NEW j \in Jobs,
         \/ Submit(j) \/ Goroutine(j) \/ \E w \in Workers : Worker(j, w)
         \/ RequestJobStop(j) \/ TouchJobHeartbeat(j) \/ Lapse(j) \/ PurgeJob(j)
  PROVE  \A k \in Jobs \ {j} : Same(k)
<1> USE DEF TypeOK, Same, dbVars, poolVars, histVars
<1>1. CASE Submit(j)
  <2>1. CASE CreateJob(j) \/ Spawn(j)
    <3>1. CASE CreateJob(j)
      BY <3>1 DEF CreateJob
    <3>2. CASE Spawn(j)
      BY <3>2 DEF Spawn
    <3> QED BY <2>1, <3>1, <3>2
  <2>2. ASSUME NEW S \in SUBSET Items, CreateJobItems(j, S) PROVE \A k \in Jobs \ {j} : Same(k)
    BY <2>2 DEF CreateJobItems
  <2> QED BY <1>1, <2>1, <2>2 DEF Submit
<1>2. CASE StartJob(j) \/ CloseQueue(j) \/ ListPendingJobItems(j)
  <2>1. CASE StartJob(j) \/ CloseQueue(j)
    BY <2>1 DEF StartJob, CloseQueue
  <2>2. CASE ListPendingJobItems(j)
    BY <2>2 DEF ListPendingJobItems
  <2> QED BY <1>2, <2>1, <2>2
<1>3. CASE GiveUp(j) \/ FailJob(j) \/ FinishJob(j)
  BY <1>3 DEF GiveUp, FailJob, FinishJob, Writes, Return
<1>4. ASSUME NEW w \in Workers, TakeItem(j, w) \/ SeeStop(j, w) \/ PassCheck(j, w) \/ Pause(j, w)
                                \/ LeaveQueue(j, w)
      PROVE  \A k \in Jobs \ {j} : Same(k)
  <2>1. CASE TakeItem(j, w)
    BY <2>1 DEF TakeItem, Moves
  <2>2. CASE SeeStop(j, w)
    BY <2>2 DEF SeeStop, Moves
  <2>3. CASE PassCheck(j, w)
    BY <2>3 DEF PassCheck, Moves
  <2>4. CASE Pause(j, w)
    BY <2>4 DEF Pause, Moves
  <2>5. CASE LeaveQueue(j, w)
    BY <2>5 DEF LeaveQueue, Moves
  <2> QED BY <1>4, <2>1, <2>2, <2>3, <2>4, <2>5
<1>5. ASSUME NEW w \in Workers, SkipItem(j, w) \/ StartJobItem(j, w)
                                \/ (\E r \in Returned : FinishJobItem(j, w, r))
      PROVE  \A k \in Jobs \ {j} : Same(k)
  BY <1>5 DEF SkipItem, StartJobItem, FinishJobItem, FinishItem, Moves
<1>6. ASSUME NEW w \in Workers, BumpJobCounts(j, w)
      PROVE  \A k \in Jobs \ {j} : Same(k)
  BY <1>6 DEF BumpJobCounts, Moves
<1>7. CASE RequestJobStop(j) \/ TouchJobHeartbeat(j) \/ Lapse(j) \/ PurgeJob(j)
  BY <1>7 DEF RequestJobStop, TouchJobHeartbeat, Lapse, PurgeJob
<1> QED BY <1>1, <1>2, <1>3, <1>4, <1>5, <1>6, <1>7 DEF Goroutine, Worker

\* A worker's step keeps the job under way, so only the lag and the books are at stake.
LEMMA WorkerSuffices ==
  ASSUME TypeOK, Ownership, IInv, NEW j \in Jobs, NEW w \in Workers, JobInv(j),
         at[j][w] # "exited",
         UNCHANGED <<jobStatus, run, cancelled>>, Lagging(j)',
         Working(j) => Placed(j)' /\ Booked(j)'
  PROVE  JobInv(j)'
<1>1. run[j] \in {"dispatching", "closing"}
  BY DEF IInv, HandedOutOnce
<1>2. jobStatus[j] \in {"running", "stopping"}
  BY <1>1 DEF Ownership
<1> QED BY <1>1, <1>2 DEF JobInv, Unstarted, Local, Truthful, Working

\* The uncounted results change with the workers that are about to count only.
LEMMA UncountedKept ==
  ASSUME TypeOK, NEW j \in Jobs, NEW w \in Workers, NEW from, NEW to,
         Moves(j, w, from, to), from # "count", to # "count", UNCHANGED outcome
  PROVE  \A r : Uncounted(j, r)' = Uncounted(j, r)
BY DEF TypeOK, Moves, Uncounted

\* A worker that waits, takes an item, has its check answered or leaves writes nothing.
LEMMA QuietWorker ==
  ASSUME TypeOK, Ownership, IInv, NEW j \in Jobs, NEW w \in Workers, JobInv(j), faults' = 0,
         TakeItem(j, w) \/ SeeStop(j, w) \/ PassCheck(j, w) \/ Pause(j, w) \/ LeaveQueue(j, w)
  PROVE  JobInv(j)'
<1> USE DEF dbVars, histVars
<1>1. /\ UNCHANGED <<jobStatus, run, cancelled, itemStatus, successCount, failedCount, outcome>>
      /\ at[j][w] # "exited" /\ at[j][w] # "count"
  BY DEF TakeItem, SeeStop, PassCheck, Pause, LeaveQueue, Moves
<1>2. Lagging(j)'
  BY <1>1, LagKept DEF JobInv
<1>3. \A S : ItemsIn(j, S)' = ItemsIn(j, S)
  BY <1>1 DEF ItemsIn
<1>4. \A r : Uncounted(j, r)' = Uncounted(j, r) /\ Counted(j, r)' = Counted(j, r)
  <2>1. \A r : Uncounted(j, r)' = Uncounted(j, r)
    BY <1>1, UncountedKept DEF TakeItem, SeeStop, PassCheck, Pause, LeaveQueue
  <2> QED BY <1>1, <2>1 DEF Counted
<1>5. ASSUME Working(j), Placed(j) PROVE Placed(j)'
  <2>1. CASE TakeItem(j, w)
    <3>1. PICK i \in todo[j] : /\ todo' = [todo EXCEPT ![j] = @ \ {i}]
                               /\ held' = [held EXCEPT ![j][w] = i]
      BY <2>1 DEF TakeItem
    <3>2. /\ i \in Items /\ i \in todo[j] /\ itemStatus[j][i] = "pending"
          /\ run[j] = "dispatching"
          /\ at[j][w] = "idle" /\ at' = [at EXCEPT ![j][w] = "check"]
      BY <1>5, <2>1 DEF TakeItem, Moves, TypeOK, Placed
    <3>3. /\ todo'[j] = todo[j] \ {i} /\ held'[j][w] = i /\ at'[j][w] = "check"
          /\ \A v \in Workers \ {w} : held'[j][v] = held[j][v] /\ at'[j][v] = at[j][v]
      BY <3>1, <3>2 DEF TypeOK
    <3>4. \A v \in Workers : /\ at'[j][v] \in Holding => held'[j][v] \in Items \ todo'[j]
                             /\ at'[j][v] \in Holding \ {"running"} => itemStatus[j][held'[j][v]] = "pending"
                             /\ at'[j][v] = "running" => itemStatus[j][held'[j][v]] = "running"
      BY <1>5, <3>2, <3>3 DEF Placed, Holding
    <3>5. \A u, v \in Workers :
             u # v /\ at'[j][u] \in Holding /\ at'[j][v] \in Holding => held'[j][u] # held'[j][v]
      BY <1>5, <3>2, <3>3 DEF Placed, Holding
    <3>6. ASSUME NEW k \in Items, itemStatus[j][k] \in {"pending", "running"}
          PROVE  k \in todo'[j] \/ \E v \in Workers : at'[j][v] \in Holding /\ held'[j][v] = k
      <4>1. CASE k = i
        BY <3>3, <4>1 DEF Holding
      <4>2. CASE k # i /\ k \in todo[j]
        BY <3>3, <4>2
      <4>3. CASE k \notin todo[j]
        <5>1. PICK v \in Workers : at[j][v] \in Holding /\ held[j][v] = k
          BY <1>5, <3>6, <4>3 DEF Placed
        <5>2. v # w
          BY <3>2, <5>1 DEF Holding
        <5> QED BY <3>3, <5>1, <5>2
      <4> QED BY <4>1, <4>2, <4>3
    <3> QED BY <1>1, <1>5, <3>2, <3>3, <3>4, <3>5, <3>6 DEF Placed
  <2>2. CASE ~TakeItem(j, w)
    <3>1. /\ UNCHANGED <<todo, held>>
          /\ \A v \in Workers \ {w} : at'[j][v] = at[j][v]
          /\ at[j][w] \in Holding <=> at'[j][w] \in Holding
          /\ at[j][w] # "running" /\ at'[j][w] # "running"
      <4>1. CASE SeeStop(j, w)
        BY <4>1 DEF SeeStop, Moves, TypeOK, Holding
      <4>2. CASE PassCheck(j, w)
        BY <1>5, <4>2 DEF PassCheck, Moves, TypeOK, Holding, Working
      <4>3. CASE Pause(j, w)
        BY <1>5, <4>3 DEF Pause, Moves, TypeOK, Holding, Working
      <4>4. CASE LeaveQueue(j, w)
        BY <4>4 DEF LeaveQueue, Moves, TypeOK, Holding
      <4> QED BY <2>2, <4>1, <4>2, <4>3, <4>4
    <3>2. \A v \in Workers : /\ at'[j][v] \in Holding <=> at[j][v] \in Holding
                             /\ at'[j][v] = "running" <=> at[j][v] = "running"
      BY <3>1
    <3> QED BY <1>1, <1>5, <3>1, <3>2 DEF Placed
  <2> QED BY <2>1, <2>2
<1>6. ASSUME Working(j), Booked(j) PROVE Booked(j)'
  <2>1. \A r \in Countable : tally'[j][r] = tally[j][r]
    <3>1. CASE SeeStop(j, w)
      BY <3>1 DEF SeeStop, TypeOK, Countable, Results
    <3>2. CASE ~SeeStop(j, w)
      BY <3>2 DEF TakeItem, PassCheck, Pause, LeaveQueue
    <3> QED BY <3>1, <3>2
  <2>2. stopSeen'[j] => \/ ItemsIn(j, {"skipped"}) # {}
                        \/ \E v \in Workers : at'[j][v] = "skipping"
    <3>1. CASE SeeStop(j, w)
      BY <3>1 DEF SeeStop, Moves, TypeOK
    <3>2. CASE ~SeeStop(j, w)
      <4>1. /\ stopSeen' = stopSeen /\ at[j][w] # "skipping"
            /\ \A v \in Workers \ {w} : at'[j][v] = at[j][v]
        BY <3>2 DEF TakeItem, PassCheck, Pause, LeaveQueue, Moves, TypeOK
      <4> QED BY <1>6, <4>1 DEF Booked
    <3> QED BY <3>1, <3>2
  <2> QED BY <1>3, <1>4, <1>6, <2>1, <2>2 DEF Booked
<1> QED BY <1>1, <1>2, <1>5, <1>6, WorkerSuffices DEF JobInv

\* What writing an item makes of the items that have a result.
LEMMA ResultGrows ==
  ASSUME NEW j \in Jobs, NEW i \in Items, NEW s, NEW r \in Results, DOMAIN itemStatus[j] = Items,
         itemStatus[j][i] \in {"pending", "running"}, itemStatus'[j] = [itemStatus[j] EXCEPT ![i] = s]
  PROVE  /\ r # s => ItemsIn(j, {r})' = ItemsIn(j, {r})
         /\ r = s => /\ ItemsIn(j, {r})' = ItemsIn(j, {r}) \union {i}
                     /\ Cardinality(ItemsIn(j, {r})') = Cardinality(ItemsIn(j, {r})) + 1
<1>1. \A k \in Items : itemStatus'[j][k] = IF k = i THEN s ELSE itemStatus[j][k]
  OBVIOUS
<1>2. itemStatus[j][i] # r
  BY DEF Results
<1>3. CASE r # s
  BY <1>1, <1>2, <1>3 DEF ItemsIn
<1>4. CASE r = s
  <2>1. ItemsIn(j, {r})' = ItemsIn(j, {r}) \union {i}
    BY <1>1, <1>4 DEF ItemsIn
  <2>2. i \notin ItemsIn(j, {r})
    BY <1>2 DEF ItemsIn
  <2>3. Cardinality(ItemsIn(j, {r}) \union {i}) = Cardinality(ItemsIn(j, {r})) + 1
    BY <2>2, Finite, FS_AddElement
  <2> QED BY <1>4, <2>1, <2>3
<1> QED BY <1>3, <1>4

\* A worker that skips, starts or finishes its item.
LEMMA ItemWorker ==
  ASSUME TypeOK, Ownership, IInv, NEW j \in Jobs, NEW w \in Workers, JobInv(j), faults' = 0,
         SkipItem(j, w) \/ StartJobItem(j, w) \/ \E r \in Returned : FinishJobItem(j, w, r)
  PROVE  JobInv(j)'
<1> USE DEF histVars
<1>1. /\ UNCHANGED <<jobStatus, run, cancelled, successCount, failedCount, todo, held, tally, stopSeen>>
      /\ at[j][w] # "exited"
  BY DEF SkipItem, StartJobItem, FinishJobItem, Moves
<1>2. PICK ok \in BOOLEAN, s \in Results \union {"running"} :
         /\ Calls(j, ok) /\ FinishItem(j, w, ok, s)
         /\ \/ Moves(j, w, "skipping", "idle") /\ s = "skipped" /\ UNCHANGED outcome
            \/ Moves(j, w, "start", "running") /\ s = "running" /\ UNCHANGED outcome
            \/ Moves(j, w, "running", "count") /\ s \in Results /\ outcome' = [outcome EXCEPT ![j][w] = s]
  <2>1. CASE SkipItem(j, w)
    BY <2>1 DEF SkipItem, Results
  <2>2. CASE StartJobItem(j, w)
    BY <2>2 DEF StartJobItem
  <2>3. ASSUME NEW r \in Returned, FinishJobItem(j, w, r)
        PROVE  \E ok \in BOOLEAN, s \in Results :
                 /\ Calls(j, ok) /\ FinishItem(j, w, ok, s)
                 /\ Moves(j, w, "running", "count") /\ outcome' = [outcome EXCEPT ![j][w] = s]
    <3>1. Settle(r) \in Results
      BY DEF Settle, Returned, Results
    <3> QED BY <2>3, <3>1 DEF FinishJobItem
  <2> QED BY <2>1, <2>2, <2>3
<1>3. ok = ~cancelled[j]
  BY <1>2, CallsWork
<1>4. CASE ~ok
  <2>1. itemStatus' = itemStatus /\ ~Working(j)
    BY <1>2, <1>3, <1>4 DEF FinishItem, Working
  <2>2. Lagging(j)'
    BY <1>1, <2>1, LagKept DEF JobInv
  <2> QED BY <1>1, <2>1, <2>2, WorkerSuffices
<1>5. CASE ok
  <2> PICK i : i = held[j][w]
    OBVIOUS
  <2>1. run[j] \in {"dispatching", "closing"}
    BY <1>1 DEF IInv, HandedOutOnce
  <2>2. Working(j) /\ Placed(j) /\ Booked(j)
    BY <1>3, <1>5, <2>1 DEF Working, JobInv
  <2>3. /\ Placed(j)' /\ i \in Items /\ itemStatus[j][i] \in {"pending", "running"}
        /\ itemStatus'[j] = [itemStatus[j] EXCEPT ![i] = s]
    <3>1. itemStatus' = [itemStatus EXCEPT ![j][held[j][w]] = s]
      BY <1>2, <1>5 DEF FinishItem
    <3>2. UNCHANGED <<run, todo, held>>
      BY <1>1
    <3>3. PICK from \in {"skipping", "start", "running"}, to \in {"idle", "running", "count"} :
             /\ Moves(j, w, from, to)
             /\ to \in Holding <=> s = "running"
             /\ to = "running" <=> s = "running"
      BY <1>2 DEF Holding, Results
    <3>4. Placed(j) /\ Working(j)
      BY <2>2
    <3>5. /\ Placed(j)' /\ i \in Items /\ itemStatus[j][i] \in {"pending", "running"}
          /\ itemStatus'[j] = [itemStatus[j] EXCEPT ![i] = s]
      <4>1. /\ at[j][w] = from /\ at'[j][w] = to
            /\ \A v \in Workers \ {w} : at'[j][v] = at[j][v]
            /\ from \in Holding
        BY <3>3 DEF Moves, TypeOK, Holding
      <4>2. /\ i \in Items /\ i \notin todo[j] /\ itemStatus[j][i] \in {"pending", "running"}
        BY <3>3, <3>4, <4>1 DEF Placed, Holding
      <4>3. itemStatus'[j] = [itemStatus[j] EXCEPT ![i] = s]
        BY <3>1 DEF TypeOK
      <4>4. \A k \in Items : itemStatus'[j][k] = IF k = i THEN s ELSE itemStatus[j][k]
        BY <4>2, <4>3 DEF TypeOK
      <4>5. \A k \in todo[j] : k \in Items /\ k # i /\ itemStatus'[j][k] = "pending"
        BY <3>4, <4>2, <4>4 DEF Placed, TypeOK
      <4>6. \A v \in Workers \ {w} : at[j][v] \in Holding => held[j][v] # i /\ held[j][v] \in Items
        BY <3>4, <4>1 DEF Placed
      <4>7. \A v \in Workers : /\ at'[j][v] \in Holding => held[j][v] \in Items \ todo[j]
                               /\ at'[j][v] \in Holding \ {"running"} => itemStatus'[j][held[j][v]] = "pending"
                               /\ at'[j][v] = "running" => itemStatus'[j][held[j][v]] = "running"
        <5>1. ASSUME NEW v \in Workers \ {w}
              PROVE  /\ at'[j][v] \in Holding => held[j][v] \in Items \ todo[j]
                     /\ at'[j][v] \in Holding \ {"running"} => itemStatus'[j][held[j][v]] = "pending"
                     /\ at'[j][v] = "running" => itemStatus'[j][held[j][v]] = "running"
          BY <3>4, <4>1, <4>4, <4>6 DEF Placed, Holding
        <5>2. /\ at'[j][w] \in Holding => held[j][w] \in Items \ todo[j]
              /\ at'[j][w] \in Holding => at'[j][w] = "running"
              /\ at'[j][w] = "running" => itemStatus'[j][held[j][w]] = "running"
          BY <3>3, <4>1, <4>2, <4>4
        <5> QED BY <5>1, <5>2
      <4>8. \A u, v \in Workers :
               u # v /\ at'[j][u] \in Holding /\ at'[j][v] \in Holding => held[j][u] # held[j][v]
        BY <3>4, <4>1, <4>6 DEF Placed
      <4>9. ASSUME NEW k \in Items, itemStatus'[j][k] \in {"pending", "running"}
            PROVE  k \in todo[j] \/ \E v \in Workers : at'[j][v] \in Holding /\ held[j][v] = k
        <5>1. CASE k = i
          BY <3>3, <4>1, <4>4, <4>9, <5>1 DEF Results
        <5>2. CASE k # i
          <6>1. k \in todo[j] \/ \E v \in Workers : at[j][v] \in Holding /\ held[j][v] = k
            BY <3>4, <4>4, <4>9, <5>2 DEF Placed
          <6> QED BY <4>1, <5>2, <6>1
        <5> QED BY <5>1, <5>2
      <4> QED BY <3>2, <3>4, <4>2, <4>3, <4>5, <4>7, <4>8, <4>9 DEF Placed
    <3> QED BY <3>5
  <2>4. DOMAIN itemStatus[j] = Items
    BY DEF TypeOK
  <2>5. \A r \in Results :
           /\ r # s => ItemsIn(j, {r})' = ItemsIn(j, {r})
           /\ r = s => /\ ItemsIn(j, {r})' = ItemsIn(j, {r}) \union {i}
                       /\ Cardinality(ItemsIn(j, {r})') = Cardinality(ItemsIn(j, {r})) + 1
    <3>1. ASSUME NEW r \in Results
          PROVE  /\ r # s => ItemsIn(j, {r})' = ItemsIn(j, {r})
                 /\ r = s => /\ ItemsIn(j, {r})' = ItemsIn(j, {r}) \union {i}
                             /\ Cardinality(ItemsIn(j, {r})') = Cardinality(ItemsIn(j, {r})) + 1
      BY <2>3, <2>4, ResultGrows
    <3> QED BY <3>1
  <2>6. \A r \in Countable : r \in Results /\ Counted(j, r)' = Counted(j, r) /\ Counted(j, r) \in Nat
    BY <1>1 DEF Countable, Results, Counted, TypeOK
  <2>7. stopSeen'[j] => \/ ItemsIn(j, {"skipped"})' # {}
                        \/ \E v \in Workers : at'[j][v] = "skipping"
    <3>1. CASE s = "skipped"
      BY <2>5, <3>1 DEF Results
    <3>2. CASE s # "skipped"
      <4>1. /\ at[j][w] # "skipping" /\ \A v \in Workers \ {w} : at'[j][v] = at[j][v]
        BY <1>2, <3>2 DEF Moves, TypeOK
      <4>2. ItemsIn(j, {"skipped"})' = ItemsIn(j, {"skipped"})
        BY <2>5, <3>2 DEF Results
      <4> QED BY <1>1, <2>2, <4>1, <4>2 DEF Booked
    <3> QED BY <3>1, <3>2
  <2>8. ASSUME NEW r \in Countable
        PROVE  Cardinality(ItemsIn(j, {r})') = Counted(j, r)' + Cardinality(Uncounted(j, r)')
    <3>0. Cardinality(ItemsIn(j, {r})) = Counted(j, r) + Cardinality(Uncounted(j, r))
          /\ Cardinality(Uncounted(j, r)) \in Nat /\ IsFiniteSet(Uncounted(j, r))
      BY <2>2, Finite DEF Booked
    <3>1. CASE ~Moves(j, w, "running", "count")
      <4>1. Uncounted(j, r)' = Uncounted(j, r)
        BY <1>2, <3>1, UncountedKept
      <4>2. r # s
        BY <1>2, <3>1 DEF Countable
      <4> QED BY <2>5, <2>6, <3>0, <4>1, <4>2
    <3>2. CASE Moves(j, w, "running", "count")
      <4>1. outcome' = [outcome EXCEPT ![j][w] = s] /\ at[j][w] = "running"
        BY <1>2, <3>2 DEF Moves
      <4>2. Uncounted(j, r)' = IF r = s THEN Uncounted(j, r) \union {w} ELSE Uncounted(j, r)
        BY <3>2, <4>1 DEF Moves, Uncounted, TypeOK
      <4>3. w \notin Uncounted(j, r)
        BY <4>1 DEF Uncounted
      <4>4. Cardinality(Uncounted(j, r) \union {w}) = Cardinality(Uncounted(j, r)) + 1
        BY <3>0, <4>3, FS_AddElement
      <4> QED BY <2>5, <2>6, <3>0, <4>2, <4>4
    <3> QED BY <3>1, <3>2
  <2>9. Booked(j)'
    BY <1>1, <2>2, <2>6, <2>7, <2>8 DEF Booked
  <2>10. Lagging(j)'
    <3>1. \A r \in Countable : /\ Counted(j, r)' \in Nat
                               /\ Cardinality(Uncounted(j, r)') \in 0..Cardinality(Workers)
                               /\ Cardinality(Workers) \in Nat
      <4>1. \A r \in Countable : Uncounted(j, r)' \in SUBSET Workers
        BY DEF Uncounted
      <4>2. \A S \in SUBSET Workers : Cardinality(S) \in 0..Cardinality(Workers)
        BY ConstantsOK, FS_Subset, FS_CardinalityType
      <4> QED BY <2>6, <4>1, <4>2, Finite
    <3> QED BY <2>8, <3>1 DEF Lagging
  <2> QED BY <1>1, <2>3, <2>9, <2>10, WorkerSuffices
<1> QED BY <1>4, <1>5

\* A worker that counts its result.
LEMMA CountWorker ==
  ASSUME TypeOK, Ownership, IInv, NEW j \in Jobs, NEW w \in Workers, JobInv(j), faults' = 0,
         BumpJobCounts(j, w)
  PROVE  JobInv(j)'
<1> DEFINE s == outcome[j][w]
<1>1. /\ UNCHANGED <<jobStatus, run, cancelled, itemStatus, todo, held, outcome, stopSeen>>
      /\ at[j][w] = "count" /\ at'[j][w] = "pause"
      /\ \A v \in Workers \ {w} : at'[j][v] = at[j][v]
      /\ s \in Results
      /\ \A r \in Results : tally'[j][r] = IF r = s THEN tally[j][r] + 1 ELSE tally[j][r]
  BY DEF BumpJobCounts, Moves, TypeOK
<1>2. \A r : ItemsIn(j, {r})' = ItemsIn(j, {r})
  BY <1>1 DEF ItemsIn
<1>3. Placed(j) => Placed(j)'
  <2>1. \A v \in Workers : /\ at'[j][v] \in Holding <=> at[j][v] \in Holding
                           /\ at'[j][v] = "running" <=> at[j][v] = "running"
    BY <1>1 DEF Holding
  <2> QED BY <1>1, <2>1 DEF Placed
<1>4. \A r \in Countable :
         /\ r # s \/ cancelled[j] => Counted(j, r)' = Counted(j, r)
         /\ r = s /\ ~cancelled[j] => Counted(j, r)' = Counted(j, r) + 1
         /\ Counted(j, r) \in Nat /\ r \in Results /\ tally[j][r] \in Nat
  <2> HIDE DEF s
  <2>1. CASE s = "skipped"
    BY <2>1 DEF BumpJobCounts, Counted, Countable, Results, TypeOK, s
  <2>2. CASE s # "skipped"
    <3>1. PICK ok \in BOOLEAN :
             /\ Calls(j, ok)
             /\ successCount' = IF ok /\ s = "success"
                                  THEN [successCount EXCEPT ![j] = @ + 1] ELSE successCount
             /\ failedCount' = IF ok /\ s = "failed"
                                 THEN [failedCount EXCEPT ![j] = @ + 1] ELSE failedCount
      BY <2>2 DEF BumpJobCounts, s
    <3>2. ok = ~cancelled[j]
      BY <3>1, CallsWork
    <3>3. \A r \in Countable : r \in Results /\ tally[j][r] \in Nat
      BY DEF Countable, Results, TypeOK
    <3>4. successCount[j] \in Nat /\ failedCount[j] \in Nat
      BY DEF TypeOK
    <3>5. /\ successCount'[j] = IF s = "success" /\ ~cancelled[j] THEN successCount[j] + 1 ELSE successCount[j]
          /\ failedCount'[j] = IF s = "failed" /\ ~cancelled[j] THEN failedCount[j] + 1 ELSE failedCount[j]
      BY <3>1, <3>2 DEF TypeOK
    <3> HIDE DEF s
    <3> QED BY <3>3, <3>4, <3>5 DEF Counted, Countable
  <2> QED BY <2>1, <2>2
<1>5. ASSUME NEW r \in Countable
      PROVE  Uncounted(j, r)' = IF r = s THEN Uncounted(j, r) \ {w} ELSE Uncounted(j, r)
  BY <1>1 DEF Uncounted
<1>6. ASSUME Working(j), Booked(j) PROVE Booked(j)'
  <2>1. ASSUME NEW r \in Countable
        PROVE  /\ tally'[j][r] = Counted(j, r)'
               /\ Cardinality(ItemsIn(j, {r})') = Counted(j, r)' + Cardinality(Uncounted(j, r)')
    <3>1. /\ Cardinality(ItemsIn(j, {r})) = Counted(j, r) + Cardinality(Uncounted(j, r))
          /\ tally[j][r] = Counted(j, r)
          /\ Cardinality(Uncounted(j, r)) \in Nat /\ IsFiniteSet(Uncounted(j, r))
      BY <1>6, Finite DEF Booked
    <3>2. r = s => Cardinality(Uncounted(j, r) \ {w}) = Cardinality(Uncounted(j, r)) - 1
      <4>1. r = s => w \in Uncounted(j, r)
        BY <1>1 DEF Uncounted
      <4> QED BY <3>1, <4>1, FS_RemoveElement
    <3>3. ~cancelled[j]
      BY <1>6 DEF Working
    <3>4. ItemsIn(j, {r})' = ItemsIn(j, {r}) /\ r \in Results
      BY <1>2, <1>4
    <3> HIDE DEF s
    <3>5. CASE r = s
      <4>1. Counted(j, r)' = Counted(j, r) + 1 /\ tally'[j][r] = tally[j][r] + 1
        BY <1>1, <1>4, <3>3, <3>4, <3>5
      <4>2. Cardinality(Uncounted(j, r)') = Cardinality(Uncounted(j, r)) - 1
        BY <1>5, <3>2, <3>5
      <4> QED BY <1>4, <3>1, <3>4, <4>1, <4>2
    <3>6. CASE r # s
      <4>1. Counted(j, r)' = Counted(j, r) /\ tally'[j][r] = tally[j][r]
        BY <1>1, <1>4, <3>4, <3>6
      <4>2. Cardinality(Uncounted(j, r)') = Cardinality(Uncounted(j, r))
        BY <1>5, <3>6
      <4> QED BY <3>1, <3>4, <4>1, <4>2
    <3> QED BY <3>5, <3>6
  <2>2. stopSeen'[j] => \/ ItemsIn(j, {"skipped"})' # {}
                        \/ \E v \in Workers : at'[j][v] = "skipping"
    BY <1>1, <1>2, <1>6 DEF Booked
  <2> QED BY <2>1, <2>2 DEF Booked
<1>7. Lagging(j)'
  <2>1. CASE cancelled[j]
    <3>1. \A r \in Countable : Counted(j, r)' = Counted(j, r)
      BY <1>4, <2>1
    <3> QED BY <1>1, <1>2, <3>1 DEF JobInv, Lagging
  <2>2. CASE ~cancelled[j]
    <3>1. Booked(j)'
      <4>1. run[j] \in {"dispatching", "closing"}
        BY <1>1 DEF IInv, HandedOutOnce
      <4> QED BY <1>6, <2>2, <4>1 DEF Working, JobInv
    <3>2. ASSUME NEW r \in Countable
          PROVE  Cardinality(ItemsIn(j, {r})') - Counted(j, r)' \in 0..Cardinality(Workers)
      <4>1. Cardinality(ItemsIn(j, {r})') = Counted(j, r)' + Cardinality(Uncounted(j, r)')
        BY <3>1 DEF Booked
      <4>2. Uncounted(j, r)' \in SUBSET Workers
        BY DEF Uncounted
      <4>3. Cardinality(Uncounted(j, r)') \in 0..Cardinality(Workers) /\ Cardinality(Workers) \in Nat
        BY <4>2, ConstantsOK, FS_Subset, FS_CardinalityType
      <4>4. Counted(j, r)' \in Nat
        BY <1>4
      <4> QED BY <4>1, <4>3, <4>4
    <3> QED BY <3>2 DEF Lagging
  <2> QED BY <2>1, <2>2
<1> QED BY <1>1, <1>3, <1>6, <1>7, WorkerSuffices DEF JobInv

\* Submission, and the goroutine that runs the job.
LEMMA RunnerCounts ==
  ASSUME TypeOK, Ownership, IInv, NEW j \in Jobs, JobInv(j), faults' = 0,
         Submit(j) \/ Goroutine(j)
  PROVE  JobInv(j)'
<1> USE DEF dbVars, poolVars, histVars
<1>0. /\ jobStatus[j] \in Active \union Terminal \union {"absent", "deleted"}
      /\ run[j] \notin {"dispatching", "closing"} => \A w \in Workers : at[j][w] = "exited"
  BY DEF TypeOK, IInv, HandedOutOnce
\* Neither items nor counters nor the status: the run moves on, and its counters are as before or new.
<1>1. ASSUME itemStatus' = itemStatus, successCount' = successCount, failedCount' = failedCount,
             jobStatus' = jobStatus, Local(j)', ~Working(j)', UNCHANGED stopAsked,
             run'[j] \in {"created", "filled", "starting", "listing"} =>
               run[j] \in {"created", "filled", "starting", "listing"}
      PROVE  JobInv(j)'
  <2>1. \A S : ItemsIn(j, S)' = ItemsIn(j, S)
    BY <1>1 DEF ItemsIn
  <2>2. \A r : Counted(j, r)' = Counted(j, r)
    BY <1>1 DEF Counted
  <2>3. Lagging(j)' /\ Truthful(j)' /\ Unstarted(j)'
    BY <1>1, <2>1, <2>2 DEF JobInv, Lagging, Truthful, Unstarted
  <2> QED BY <1>1, <2>3 DEF JobInv
\* The same, with a new status that is no verdict.
<1>2. ASSUME itemStatus' = itemStatus, successCount' = successCount, failedCount' = failedCount,
             jobStatus'[j] \in {"pending", "running"}, Local(j)', ~Working(j)',
             jobStatus[j] = "absent" \/ run[j] \in {"created", "filled", "starting", "listing"}
      PROVE  JobInv(j)'
  <2>1. Lagging(j)'
    <3>1. jobStatus[j] # "deleted"
      BY <1>2 DEF Ownership
    <3> QED BY <1>2, <3>1, LagKept DEF JobInv
  <2> QED BY <1>2, <2>1 DEF JobInv, Truthful, Unstarted
<1>3. ASSUME Return(j) PROVE /\ Local(j)' /\ ~Working(j)'
                             /\ run'[j] = "none"
  BY <1>3 DEF Return, Local, Working, TypeOK
<1>4. CASE CreateJob(j)
  <2>1. run[j] = "none"
    BY <1>4 DEF CreateJob, Ownership, TypeOK, RunStages
  <2>2. Local(j)' /\ ~Working(j)'
    BY <1>4, <2>1 DEF CreateJob, Local, Working, JobInv, TypeOK
  <2> QED BY <1>2, <1>4, <2>2 DEF CreateJob, TypeOK
<1>5. ASSUME NEW S \in SUBSET Items, CreateJobItems(j, S) PROVE JobInv(j)'
  <2>1. PICK ok \in BOOLEAN :
          /\ itemStatus' = IF ok
               THEN [itemStatus EXCEPT ![j] =
                       [i \in Items |-> IF i \in S THEN "pending" ELSE "absent"]]
               ELSE itemStatus
          /\ run' = [run EXCEPT ![j] = IF ok THEN "filled" ELSE "none"]
    BY <1>5 DEF CreateJobItems
  <2>2. /\ UNCHANGED <<jobStatus, successCount, failedCount, cancelled, poolVars, stopAsked>>
        /\ run[j] = "created"
    BY <1>5 DEF CreateJobItems
  <2>3. /\ Local(j)' /\ ~Working(j)'
        /\ run'[j] = IF ok THEN "filled" ELSE "none"
    BY <2>1, <2>2 DEF Local, Working, JobInv, TypeOK
  <2>4. CASE ~ok
    BY <1>1, <2>1, <2>2, <2>3, <2>4
  <2>5. CASE ok
    <3>1. \A i \in Items : itemStatus'[j][i] \in {"absent", "pending"}
      BY <2>1, <2>5 DEF TypeOK
    <3>2. successCount[j] = 0 /\ failedCount[j] = 0
      BY <2>2 DEF JobInv, Unstarted
    <3>3. \A r \in Countable : ItemsIn(j, {r})' = {} /\ Counted(j, r)' = 0
      BY <2>2, <3>1, <3>2 DEF ItemsIn, Counted, Countable
    <3>4. Lagging(j)'
      <4>1. ASSUME NEW r \in Countable
            PROVE  Cardinality(ItemsIn(j, {r}))' - Counted(j, r)' \in 0..Cardinality(Workers)
        <5>1. Cardinality(ItemsIn(j, {r}))' = 0
          BY <3>3, FS_EmptySet
        <5>2. Counted(j, r)' = 0
          BY <3>3
        <5> QED BY <5>1, <5>2, Finite
      <4> QED BY <4>1 DEF Lagging
    <3>5. jobStatus[j] \in {"pending", "stopping"}
      BY <2>2 DEF Ownership
    <3> QED BY <2>2, <2>3, <3>1, <3>2, <3>4, <3>5 DEF JobInv, Unstarted, Truthful
  <2> QED BY <2>4, <2>5
<1>6. CASE Spawn(j)
  <2>1. /\ UNCHANGED <<jobStatus, itemStatus, successCount, failedCount, stopAsked>>
        /\ run[j] = "filled" /\ run'[j] = "starting"
    BY <1>6 DEF Spawn, TypeOK
  <2>2. Local(j)' /\ ~Working(j)'
    BY <1>6 DEF Spawn, Local, Working, JobInv, TypeOK
  <2> QED BY <1>1, <2>1, <2>2
<1>7. CASE StartJob(j)
  <2>1. Local(j)' /\ ~Working(j)'
    BY <1>7 DEF StartJob, Local, Working, JobInv, TypeOK
  <2> QED BY <1>2, <1>7, <2>1 DEF StartJob, TypeOK
<1>8. CASE GiveUp(j)
  BY <1>1, <1>3, <1>8 DEF GiveUp
<1>9. CASE ListPendingJobItems(j)
  <2>1. PICK ok \in BOOLEAN :
          /\ Calls(j, ok)
          /\ run' = [run EXCEPT ![j] = IF ok THEN "dispatching" ELSE "failing"]
          /\ todo' = IF ok
               THEN [todo EXCEPT ![j] = {i \in Items : itemStatus[j][i] = "pending"}]
               ELSE todo
          /\ at' = IF ok THEN [at EXCEPT ![j] = [w \in Workers |-> "idle"]] ELSE at
    BY <1>9 DEF ListPendingJobItems
  <2>2. /\ UNCHANGED <<jobStatus, itemStatus, successCount, failedCount, cancelled, held, outcome,
                       tally, stopSeen, stopAsked>>
        /\ run[j] = "listing"
    BY <1>9 DEF ListPendingJobItems
  <2>3. ok = ~cancelled[j]
    BY <2>1, CallsWork
  <2>4. tally[j] = NoTally /\ ~stopSeen[j]
    BY <2>2 DEF JobInv, Local
  <2>5. CASE ~ok
    <3>1. run'[j] = "failing" /\ cancelled'[j]
      BY <2>1, <2>2, <2>3, <2>5 DEF TypeOK
    <3>2. Local(j)' /\ ~Working(j)'
      BY <2>2, <2>4, <3>1 DEF Local, Working
    <3> QED BY <1>1, <2>2, <3>1, <3>2
  <2>6. CASE ok
    <3>1. /\ run'[j] = "dispatching" /\ \A w \in Workers : at'[j][w] = "idle"
          /\ todo'[j] = {i \in Items : itemStatus[j][i] = "pending"}
      BY <2>1, <2>6 DEF TypeOK
    <3>2. /\ \A i \in Items : itemStatus[j][i] \in {"absent", "pending"}
          /\ successCount[j] = 0 /\ failedCount[j] = 0
      BY <2>2 DEF JobInv, Unstarted
    <3>3. Placed(j)'
      BY <2>2, <3>1, <3>2 DEF Placed, Holding
    <3>4. Booked(j)'
      <4>1. \A r \in Countable : /\ ItemsIn(j, {r})' = {} /\ Uncounted(j, r)' = {}
                                 /\ Counted(j, r)' = 0 /\ tally'[j][r] = 0
        BY <2>2, <2>4, <3>1, <3>2 DEF ItemsIn, Uncounted, Counted, Countable, NoTally, Results
      <4>2. Cardinality({}) = 0
        BY FS_EmptySet
      <4>3. ~stopSeen'[j]
        BY <2>2, <2>4
      <4>4. ASSUME NEW r \in Countable
            PROVE  /\ tally'[j][r] = Counted(j, r)'
                   /\ Cardinality(ItemsIn(j, {r})') = Counted(j, r)' + Cardinality(Uncounted(j, r)')
        <5>1. Cardinality(ItemsIn(j, {r})') = 0 /\ Cardinality(Uncounted(j, r)') = 0
          BY <4>1, <4>2
        <5> QED BY <4>1, <5>1
      <4> QED BY <4>3, <4>4 DEF Booked
    <3>5. Lagging(j)'
      <4>1. jobStatus'[j] # "deleted" => jobStatus[j] # "deleted"
        BY <2>2
      <4> QED BY <2>2, <4>1, LagKept DEF JobInv
    <3>6. jobStatus'[j] \in {"running", "stopping"}
      BY <2>2 DEF Ownership
    <3> QED BY <3>1, <3>3, <3>4, <3>5, <3>6 DEF JobInv, Unstarted, Local, Truthful
  <2> QED BY <2>5, <2>6
<1>10. CASE FailJob(j)
  <2>1. PICK ok \in BOOLEAN : Calls(j, ok) /\ Writes(j, ok, "failed")
    BY <1>10 DEF FailJob
  <2>2. ~ok
    BY <1>10, <2>1, CallsWork DEF FailJob, JobInv, Local
  <2>3. jobStatus' = jobStatus
    BY <2>1, <2>2 DEF Writes
  <2> QED BY <1>1, <1>3, <1>10, <2>3 DEF FailJob
<1>11. CASE CloseQueue(j)
  <2>1. /\ UNCHANGED <<jobStatus, itemStatus, successCount, failedCount, cancelled, todo, at, held,
                       outcome, tally, stopSeen, stopAsked>>
        /\ run[j] = "dispatching" /\ run'[j] = "closing"
        /\ todo[j] = {} \/ cancelled[j]
    BY <1>11 DEF CloseQueue, TypeOK
  <2>2. Lagging(j)'
    BY <2>1, LagKept DEF JobInv
  <2>3. Working(j)' => Placed(j)'
    BY <2>1 DEF JobInv, Working, Placed
  <2>4. Working(j)' => Booked(j)'
    <3>1. \A S : ItemsIn(j, S)' = ItemsIn(j, S)
      BY <2>1 DEF ItemsIn
    <3>2. \A r : Uncounted(j, r)' = Uncounted(j, r) /\ Counted(j, r)' = Counted(j, r)
      BY <2>1 DEF Uncounted, Counted
    <3> QED BY <2>1, <3>1, <3>2 DEF JobInv, Working, Booked
  <2>5. jobStatus'[j] \in {"running", "stopping"}
    BY <2>1 DEF Ownership
  <2> QED BY <2>1, <2>2, <2>3, <2>4, <2>5 DEF JobInv, Unstarted, Local, Truthful
<1>12. CASE FinishJob(j)
  <2>1. PICK ok \in BOOLEAN : Calls(j, ok) /\ Writes(j, ok, Verdict(j))
    BY <1>12 DEF FinishJob
  <2>2. ok = ~cancelled[j]
    BY <2>1, CallsWork
  <2>3. /\ UNCHANGED <<itemStatus, successCount, failedCount, stopAsked>> /\ Return(j)
        /\ run[j] = "closing" /\ \A w \in Workers : at[j][w] = "exited"
    BY <1>12 DEF FinishJob
  <2>4. CASE ~ok
    BY <1>1, <1>3, <2>1, <2>3, <2>4 DEF Writes
  <2>5. CASE ok
    <3>1. jobStatus'[j] = Verdict(j)
      BY <2>1, <2>5 DEF Writes, TypeOK
    <3>2. Placed(j) /\ Booked(j)
      BY <2>2, <2>3, <2>5 DEF JobInv, Working
    <3>3. ItemsIn(j, {"pending", "running"}) = {}
      BY <2>3, <3>2 DEF Placed, ItemsIn, Holding
    <3>4. ASSUME NEW r \in Countable
          PROVE  /\ Counted(j, r) = Cardinality(ItemsIn(j, {r})) /\ tally[j][r] = Counted(j, r)
                 /\ Counted(j, r) \in Nat
      <4>1. Uncounted(j, r) = {}
        BY <2>3 DEF Uncounted
      <4>2. Cardinality(Uncounted(j, r)) = 0
        BY <4>1, FS_EmptySet
      <4>3. Counted(j, r) \in Nat
        BY DEF Counted, TypeOK
      <4> QED BY <3>2, <4>2, <4>3 DEF Booked
    <3>5. /\ tally[j]["success"] = successCount[j] /\ successCount[j] \in Nat
          /\ tally[j]["failed"] = failedCount[j] /\ failedCount[j] \in Nat
      BY <3>4 DEF Countable, Counted
    <3>6. stopSeen[j] => j \in stopAsked /\ ItemsIn(j, {"skipped"}) # {}
      BY <2>3, <3>2 DEF Booked, Ownership
    <3>7. /\ Verdict(j) = "stopped" => stopSeen[j]
          /\ Verdict(j) = "succeeded" => failedCount[j] = 0
          /\ Verdict(j) = "failed" => failedCount[j] > 0 /\ successCount[j] = 0
          /\ Verdict(j) = "partial" => failedCount[j] > 0 /\ successCount[j] > 0
          /\ Verdict(j) \notin {"absent", "deleted"}
      BY <3>5 DEF Verdict
    <3>8. /\ \A S : ItemsIn(j, S)' = ItemsIn(j, S)
          /\ \A r : Counted(j, r)' = Counted(j, r)
      BY <2>3 DEF ItemsIn, Counted
    <3>9. Truthful(j)'
      BY <2>3, <3>1, <3>3, <3>4, <3>6, <3>7, <3>8 DEF Truthful
    <3>10. Lagging(j)'
      <4>1. jobStatus[j] # "deleted"
        BY <2>3 DEF Ownership
      <4> QED BY <2>3, <4>1, LagKept DEF JobInv
    <3>11. Unstarted(j)'
      BY <1>3, <2>3, <3>1, <3>7 DEF Unstarted
    <3> QED BY <1>3, <2>3, <3>9, <3>10, <3>11 DEF JobInv
  <2> QED BY <2>4, <2>5
<1> QED BY <1>4, <1>5, <1>6, <1>7, <1>8, <1>9, <1>10, <1>11, <1>12 DEF Submit, Goroutine

\* Requests about a job.
LEMMA RequestCounts ==
  ASSUME TypeOK, Ownership, IInv, NEW j \in Jobs, JobInv(j),
         RequestJobStop(j) \/ TouchJobHeartbeat(j) \/ Lapse(j) \/ PurgeJob(j)
  PROVE  JobInv(j)'
<1> USE DEF poolVars, histVars
<1>1. CASE TouchJobHeartbeat(j) \/ Lapse(j)
  <2>1. Same(j)
    BY <1>1 DEF TouchJobHeartbeat, Lapse, Same
  <2> QED BY <2>1, SameInv
<1>2. CASE RequestJobStop(j)
  <2>1. /\ UNCHANGED <<itemStatus, successCount, failedCount, run, cancelled, todo, at, held, outcome,
                       tally, stopSeen>>
        /\ jobStatus[j] \in {"pending", "running"} /\ jobStatus'[j] = "stopping"
    BY <1>2 DEF RequestJobStop, TypeOK
  <2>2. Lagging(j)'
    BY <2>1, LagKept DEF JobInv
  <2>3. \A S : ItemsIn(j, S)' = ItemsIn(j, S)
    BY <2>1 DEF ItemsIn
  <2>4. \A r : Uncounted(j, r)' = Uncounted(j, r) /\ Counted(j, r)' = Counted(j, r)
    BY <2>1 DEF Uncounted, Counted
  <2>5. (Placed(j) => Placed(j)') /\ (Booked(j) => Booked(j)')
    BY <2>1, <2>3, <2>4 DEF Placed, Booked
  <2> QED BY <2>1, <2>2, <2>5 DEF JobInv, Unstarted, Local, Truthful, Working
<1>3. CASE PurgeJob(j)
  <2>1. /\ UNCHANGED <<run, cancelled, tally, stopSeen>>
        /\ run[j] = "none" /\ jobStatus'[j] = "deleted"
    BY <1>3 DEF PurgeJob, TypeOK
  <2> QED BY <2>1 DEF JobInv, Unstarted, Local, Lagging, Truthful, Working
<1> QED BY <1>1, <1>2, <1>3

\* The end of the process, and the start of the next one.
LEMMA ProcessCounts ==
  ASSUME TypeOK, Ownership, NEW k \in Jobs, JobInv(k),
         Shutdown \/ Exit \/ Crash \/ Restart
  PROVE  JobInv(k)'
<1> USE DEF dbVars, poolVars, histVars
<1>0. /\ UNCHANGED <<itemStatus, successCount, failedCount, stopAsked>>
  BY DEF Shutdown, Exit, Crash, Forget, Restart
<1>1. /\ \A S : ItemsIn(k, S)' = ItemsIn(k, S)
      /\ \A r : Counted(k, r)' = Counted(k, r)
  BY <1>0 DEF ItemsIn, Counted
<1>2. CASE Shutdown
  <2>1. UNCHANGED <<jobStatus, run, tally, stopSeen>> /\ cancelled'[k] = (run[k] \in Registered)
    BY <1>2 DEF Shutdown
  <2> QED BY <1>0, <1>1, <2>1 DEF JobInv, Unstarted, Local, Lagging, Truthful, Working, Registered
<1>3. CASE Exit \/ Crash
  <2>1. jobStatus' = jobStatus /\ run'[k] = "none" /\ tally'[k] = NoTally /\ ~stopSeen'[k]
    BY <1>3 DEF Exit, Crash, Forget
  <2> QED BY <1>0, <1>1, <2>1 DEF JobInv, Unstarted, Local, Lagging, Truthful, Working
<1>4. CASE Restart
  <2>1. UNCHANGED <<run, cancelled, tally, stopSeen>> /\ run[k] = "none"
    BY <1>4 DEF Restart, Ownership
  <2>2. /\ jobStatus'[k] \in {jobStatus[k], "interrupted"}
        /\ jobStatus[k] = "deleted" => jobStatus'[k] = "deleted"
    BY <1>4 DEF Restart, Stale
  <2> QED BY <1>0, <1>1, <2>1, <2>2 DEF JobInv, Unstarted, Local, Lagging, Truthful, Working
<1> QED BY <1>2, <1>3, <1>4

\* The calls that failed are counted, and the count never falls.
LEMMA NoFaultYet ==
  ASSUME TypeOK, [Next]_vars, faults' = 0
  PROVE  faults = 0
<1>1. \A j, ok : Calls(j, ok) => faults = 0
  BY ConstantsOK DEF Calls, TypeOK
<1>2. ASSUME NEW j \in Jobs, Submit(j) PROVE faults = 0
  BY <1>1, <1>2 DEF Submit, CreateJob, CreateJobItems, Spawn
<1>3. ASSUME NEW j \in Jobs, Goroutine(j) PROVE faults = 0
  BY <1>1, <1>3 DEF Goroutine, StartJob, GiveUp, ListPendingJobItems, FailJob, CloseQueue, FinishJob
<1>4. ASSUME NEW j \in Jobs, NEW w \in Workers, Worker(j, w) PROVE faults = 0
  BY <1>1, <1>4 DEF Worker, TakeItem, SeeStop, PassCheck, SkipItem, StartJobItem, FinishJobItem,
                    BumpJobCounts, Pause, LeaveQueue
<1>5. ASSUME NEW j \in Jobs, RequestJobStop(j) \/ TouchJobHeartbeat(j) \/ Lapse(j) \/ PurgeJob(j)
      PROVE  faults = 0
  BY <1>5 DEF RequestJobStop, TouchJobHeartbeat, Lapse, PurgeJob
<1>6. CASE Shutdown \/ Exit \/ Crash \/ Restart \/ Rest \/ UNCHANGED vars
  BY <1>6, ConstantsOK DEF Shutdown, Exit, Crash, Forget, Restart, Rest, vars, TypeOK
<1> QED BY <1>2, <1>3, <1>4, <1>5, <1>6 DEF Next

\* As long as no call of the database fails, items, counters and verdict agree.
THEOREM BooksKept == Spec => []CountInv
<1>1. Init => CountInv
  <2>1. ASSUME Init, NEW j \in Jobs PROVE JobInv(j)
    <3>1. \A r \in Countable : ItemsIn(j, {r}) = {} /\ Counted(j, r) = 0
      BY <2>1 DEF Init, ItemsIn, Counted, Countable
    <3>2. Lagging(j)
      BY <3>1, Finite, FS_EmptySet DEF Lagging
    <3> QED BY <2>1, <3>2 DEF Init, JobInv, Unstarted, Local, Truthful, Working
  <2> QED BY <2>1 DEF CountInv
<1>2. TypeOK /\ Ownership /\ IInv /\ CountInv /\ [Next]_vars => CountInv'
  <2> SUFFICES ASSUME TypeOK, Ownership, IInv, CountInv, [Next]_vars, faults' = 0, NEW k \in Jobs
               PROVE  JobInv(k)'
    BY DEF CountInv
  <2>1. faults = 0
    BY NoFaultYet
  <2>2. JobInv(k)
    BY <2>1 DEF CountInv
  <2>3. ASSUME NEW j \in Jobs, Submit(j) \/ Goroutine(j) PROVE JobInv(k)'
    <3>1. CASE k = j
      BY <2>2, <2>3, <3>1, RunnerCounts
    <3>2. CASE k # j
      BY <2>2, <2>3, <3>2, OthersSame, SameInv
    <3> QED BY <3>1, <3>2
  <2>4. ASSUME NEW j \in Jobs, NEW w \in Workers, Worker(j, w) PROVE JobInv(k)'
    <3>1. CASE k = j
      BY <2>2, <2>4, <3>1, QuietWorker, ItemWorker, CountWorker DEF Worker
    <3>2. CASE k # j
      BY <2>2, <2>4, <3>2, OthersSame, SameInv
    <3> QED BY <3>1, <3>2
  <2>5. ASSUME NEW j \in Jobs, RequestJobStop(j) \/ TouchJobHeartbeat(j) \/ Lapse(j) \/ PurgeJob(j)
        PROVE  JobInv(k)'
    <3>1. CASE k = j
      BY <2>2, <2>5, <3>1, RequestCounts
    <3>2. CASE k # j
      BY <2>2, <2>5, <3>2, OthersSame, SameInv
    <3> QED BY <3>1, <3>2
  <2>6. CASE Shutdown \/ Exit \/ Crash \/ Restart
    BY <2>2, <2>6, ProcessCounts
  <2>7. CASE Rest \/ UNCHANGED vars
    <3>1. Same(k)
      BY <2>7 DEF Rest, vars, dbVars, poolVars, histVars, Same
    <3> QED BY <2>2, <3>1, SameInv
  <2> QED BY <2>3, <2>4, <2>5, <2>6, <2>7 DEF Next
<1>3. Spec => []IInv
  BY HandsOutOnce
<1> QED BY <1>1, <1>2, <1>3, TypeCorrect, OwnershipHolds, PTL DEF Spec

\* The counters a client sees trail the items by at most one per worker, also after a crash
\* between the write of a result and its count.
THEOREM CountsTrail == Spec => []CountsLag
<1>1. CountInv => CountsLag
  BY DEF CountInv, JobInv, Lagging, Countable, CountsLag
<1> QED BY <1>1, BooksKept, PTL

\* A verdict that finish wrote is that of the items, which are all done, and of the counters,
\* which are theirs, whatever was stopped, cancelled or killed meanwhile.
THEOREM VerdictHolds == Spec => []VerdictIsTrue
<1>1. CountInv => VerdictIsTrue
  BY DEF CountInv, JobInv, Truthful, Countable, VerdictIsTrue
<1> QED BY <1>1, BooksKept, PTL

-----------------------------------------------------------------------------
(* The stop.                                                               *)

\* A worker that has passed the check starts one item; after a stop none passes, so the runner
\* calls made since and those still due are at most one per worker.
Prompt(j) ==
  /\ late[j] <= Cardinality(Workers)
  /\ jobStatus[j] \in {"absent", "pending", "running"} => late[j] = 0
  /\ jobStatus[j] = "stopping" => late[j] + Cardinality(Starting(j)) <= Cardinality(Workers)

\* A step that calls no runner and gets no worker past the check.
LEMMA PromptKept ==
  ASSUME TypeOK, NEW j \in Jobs, Prompt(j), late'[j] = late[j],
         jobStatus'[j] # "absent" \/ jobStatus[j] = "absent",
         jobStatus'[j] = jobStatus[j] \/ jobStatus'[j] \notin {"absent", "pending", "running", "stopping"},
         \A w \in Workers : at'[j][w] = "start" => at[j][w] = "start"
  PROVE  Prompt(j)'
<1>1. Starting(j)' \subseteq Starting(j)
  BY DEF Starting
<1>2. Cardinality(Starting(j))' <= Cardinality(Starting(j))
  BY <1>1, Finite, FS_Subset
<1>3. Cardinality(Starting(j))' \in Nat /\ Cardinality(Starting(j)) \in Nat /\ Cardinality(Workers) \in Nat
  <2>1. IsFiniteSet(Starting(j)')
    BY <1>1, Finite, FS_Subset
  <2> QED BY <2>1, Finite, FS_CardinalityType
<1> QED BY <1>2, <1>3 DEF Prompt, TypeOK

\* A worker that gets past the check starts its item under a job that is not being stopped,
\* and leaves the set of those that may start one.
LEMMA WorkerPrompt ==
  ASSUME TypeOK, Ownership, IInv, NEW j \in Jobs, NEW w \in Workers, Worker(j, w), Prompt(j), faults' = 0
  PROVE  Prompt(j)'
<1> USE DEF dbVars, histVars
<1>1. CASE StartJobItem(j, w)
  <2>1. /\ at[j][w] = "start" /\ at' = [at EXCEPT ![j][w] = "running"]
        /\ late'[j] = IF jobStatus[j] = "stopping" THEN late[j] + 1 ELSE late[j]
        /\ jobStatus' = jobStatus
    BY <1>1 DEF StartJobItem, Moves, TypeOK
  <2>2. Starting(j)' = Starting(j) \ {w} /\ w \in Starting(j)
    BY <2>1 DEF Starting, TypeOK
  <2>3. Cardinality(Starting(j) \ {w}) = Cardinality(Starting(j)) - 1
    BY <2>2, Finite, FS_RemoveElement
  <2>4. Cardinality(Starting(j))' = Cardinality(Starting(j)) - 1
    BY <2>2, <2>3
  <2>5. late[j] \in Nat /\ Cardinality(Starting(j)) \in Nat /\ Cardinality(Workers) \in Nat
    BY Finite DEF TypeOK
  <2>6. jobStatus[j] = "stopping" => Cardinality(Starting(j)) >= 1
    <3>1. Cardinality(Starting(j) \ {w}) \in Nat
      BY Finite, FS_RemoveElement, FS_CardinalityType
    <3> QED BY <2>3, <2>5, <3>1
  <2> QED BY <2>1, <2>4, <2>5, <2>6 DEF Prompt
<1>2. CASE PassCheck(j, w)
  <2>1. PICK ok \in BOOLEAN : Calls(j, ok) /\ ~(ok /\ jobStatus[j] = "stopping")
    BY <1>2 DEF PassCheck
  <2>2. ok = ~cancelled[j]
    BY <2>1, CallsWork
  <2>3. /\ at' = [at EXCEPT ![j][w] = IF cancelled[j] THEN "exited" ELSE "start"]
        /\ UNCHANGED <<jobStatus, late>>
    BY <1>2 DEF PassCheck, Moves
  <2>4. CASE cancelled[j]
    BY <2>3, <2>4, PromptKept DEF TypeOK
  <2>5. CASE ~cancelled[j]
    <3>1. jobStatus'[j] # "stopping"
      BY <2>1, <2>2, <2>3, <2>5
    <3> QED BY <2>3, <3>1 DEF Prompt
  <2> QED BY <2>4, <2>5
<1>3. ASSUME NEW from, NEW to \in WorkerStages \ {"start"}, Moves(j, w, from, to),
             UNCHANGED <<jobStatus, late>>
      PROVE  Prompt(j)'
  BY <1>3, PromptKept DEF Moves, TypeOK
<1>4. CASE TakeItem(j, w) \/ SeeStop(j, w) \/ SkipItem(j, w)
  BY <1>3, <1>4 DEF TakeItem, SeeStop, SkipItem, WorkerStages
<1>5. CASE \E r \in Returned : FinishJobItem(j, w, r)
  BY <1>3, <1>5 DEF FinishJobItem, WorkerStages
<1>6. CASE BumpJobCounts(j, w)
  BY <1>3, <1>6 DEF BumpJobCounts, WorkerStages
<1>7. CASE Pause(j, w) \/ LeaveQueue(j, w)
  BY <1>3, <1>7 DEF Pause, LeaveQueue, WorkerStages
<1> QED BY <1>1, <1>2, <1>4, <1>5, <1>6, <1>7 DEF Worker

\* A request, or a step of the submission or of the run goroutine.
LEMMA RunnerPrompt ==
  ASSUME TypeOK, Ownership, IInv, NEW j \in Jobs, Prompt(j),
         Submit(j) \/ Goroutine(j) \/ RequestJobStop(j) \/ TouchJobHeartbeat(j) \/ Lapse(j) \/ PurgeJob(j)
  PROVE  Prompt(j)'
<1> USE DEF dbVars, poolVars, histVars
<1>0. ASSUME jobStatus[j] \in {"absent", "pending", "running"}, late'[j] = late[j],
             jobStatus'[j] \in Active \union Terminal,
             jobStatus'[j] = "stopping" => at' = at
      PROVE  Prompt(j)'
  <2>1. late[j] = 0
    BY <1>0 DEF Prompt
  <2>2. Cardinality(Starting(j)) \in 0..Cardinality(Workers) /\ Cardinality(Workers) \in Nat
    BY Finite
  <2>3. jobStatus'[j] = "stopping" => Starting(j)' = Starting(j)
    BY <1>0 DEF Starting
  <2> QED BY <1>0, <2>1, <2>2, <2>3 DEF Prompt
<1>1. CASE CreateJob(j) \/ StartJob(j)
  BY <1>0, <1>1 DEF CreateJob, StartJob, TypeOK, Active
<1>2. CASE RequestJobStop(j)
  BY <1>0, <1>2 DEF RequestJobStop, TypeOK, Active
<1>3. CASE Spawn(j) \/ CloseQueue(j) \/ TouchJobHeartbeat(j) \/ Lapse(j)
  BY <1>3, PromptKept DEF Spawn, CloseQueue, TouchJobHeartbeat, Lapse
<1>4. CASE \E S \in SUBSET Items : CreateJobItems(j, S)
  BY <1>4, PromptKept DEF CreateJobItems
<1>5. CASE GiveUp(j)
  BY <1>5, PromptKept DEF GiveUp, Return
<1>6. CASE ListPendingJobItems(j)
  <2>1. /\ at' = [at EXCEPT ![j] = [w \in Workers |-> "idle"]] \/ at' = at
        /\ UNCHANGED <<jobStatus, late>>
    BY <1>6 DEF ListPendingJobItems
  <2> QED BY <2>1, PromptKept DEF TypeOK
<1>7. CASE FailJob(j)
  <2>1. /\ jobStatus' = jobStatus \/ jobStatus' = [jobStatus EXCEPT ![j] = "failed"]
        /\ UNCHANGED <<at, late>>
    BY <1>7 DEF FailJob, Writes, Return
  <2> QED BY <2>1, PromptKept DEF TypeOK
<1>8. CASE FinishJob(j)
  <2>1. /\ jobStatus' = jobStatus \/ jobStatus' = [jobStatus EXCEPT ![j] = Verdict(j)]
        /\ UNCHANGED <<at, late>>
    BY <1>8 DEF FinishJob, Writes, Return
  <2>2. Verdict(j) \in {"stopped", "succeeded", "failed", "partial"}
    BY DEF Verdict
  <2> QED BY <2>1, <2>2, PromptKept DEF TypeOK
<1>9. CASE PurgeJob(j)
  BY <1>9, PromptKept DEF PurgeJob, TypeOK
<1> QED BY <1>1, <1>2, <1>3, <1>4, <1>5, <1>6, <1>7, <1>8, <1>9 DEF Submit, Goroutine

\* The history of the other jobs is left alone too.
LEMMA OthersPrompt ==
  ASSUME TypeOK, NEW j \in Jobs, NEW k \in Jobs \ {j}, Prompt(k),
         \/ Submit(j) \/ Goroutine(j) \/ \E w \in Workers : Worker(j, w)
         \/ RequestJobStop(j) \/ TouchJobHeartbeat(j) \/ Lapse(j) \/ PurgeJob(j)
  PROVE  Prompt(k)'
<1>1. Same(k)
  BY OthersSame
<1>2. late'[k] = late[k]
  <2> USE DEF dbVars, poolVars, histVars
  <2>1. CASE Submit(j)
    BY <2>1 DEF Submit, CreateJob, CreateJobItems, Spawn
  <2>2. CASE Goroutine(j)
    BY <2>2 DEF Goroutine, StartJob, GiveUp, ListPendingJobItems, FailJob, CloseQueue, FinishJob
  <2>3. ASSUME NEW w \in Workers, Worker(j, w) PROVE late'[k] = late[k]
    <3>1. CASE StartJobItem(j, w)
      BY <3>1 DEF StartJobItem, TypeOK
    <3> QED BY <2>3, <3>1 DEF Worker, TakeItem, SeeStop, PassCheck, SkipItem, FinishJobItem,
                              BumpJobCounts, Pause, LeaveQueue
  <2>4. CASE RequestJobStop(j) \/ TouchJobHeartbeat(j) \/ Lapse(j) \/ PurgeJob(j)
    BY <2>4 DEF RequestJobStop, TouchJobHeartbeat, Lapse, PurgeJob
  <2> QED BY <2>1, <2>2, <2>3, <2>4
<1> QED BY <1>1, <1>2, PromptKept DEF Same

\* After a stop is recorded each worker starts at most the one item it has checked for.
THEOREM StopTakesHold == Spec => []StopIsPrompt
<1> DEFINE LInv == faults = 0 => \A j \in Jobs : Prompt(j)
<1>1. Init => LInv
  <2>1. ASSUME Init, NEW j \in Jobs PROVE Prompt(j)
    BY <2>1, Finite DEF Init, Prompt
  <2> QED BY <2>1
<1>2. TypeOK /\ Ownership /\ IInv /\ LInv /\ [Next]_vars => LInv'
  <2> SUFFICES ASSUME TypeOK, Ownership, IInv, LInv, [Next]_vars, faults' = 0, NEW k \in Jobs
               PROVE  Prompt(k)'
    OBVIOUS
  <2>1. Prompt(k)
    BY NoFaultYet
  <2>2. ASSUME NEW j \in Jobs,
               Submit(j) \/ Goroutine(j) \/ RequestJobStop(j) \/ TouchJobHeartbeat(j) \/ Lapse(j) \/ PurgeJob(j)
        PROVE  Prompt(k)'
    <3>1. CASE k = j
      BY <2>1, <2>2, <3>1, RunnerPrompt
    <3>2. CASE k # j
      BY <2>1, <2>2, <3>2, OthersPrompt
    <3> QED BY <3>1, <3>2
  <2>3. ASSUME NEW j \in Jobs, NEW w \in Workers, Worker(j, w) PROVE Prompt(k)'
    <3>1. CASE k = j
      BY <2>1, <2>3, <3>1, WorkerPrompt
    <3>2. CASE k # j
      BY <2>1, <2>3, <3>2, OthersPrompt
    <3> QED BY <3>1, <3>2
  <2>4. CASE Shutdown \/ Rest \/ UNCHANGED vars
    BY <2>1, <2>4, PromptKept DEF Shutdown, Rest, vars, dbVars, poolVars, histVars
  <2>5. CASE Exit \/ Crash
    <3>1. UNCHANGED <<jobStatus, late>> /\ \A w \in Workers : at'[k][w] = "exited"
      BY <2>5 DEF Exit, Crash, Forget, dbVars, histVars
    <3> QED BY <2>1, <3>1, PromptKept
  <2>6. CASE Restart
    <3>1. UNCHANGED <<at, late>> /\ jobStatus'[k] \in {jobStatus[k], "interrupted"}
      BY <2>6 DEF Restart, poolVars, histVars
    <3> QED BY <2>1, <3>1, PromptKept
  <2> QED BY <2>2, <2>3, <2>4, <2>5, <2>6 DEF Next
<1>3. LInv => StopIsPrompt
  BY DEF Prompt, StopIsPrompt
<1>4. Spec => []IInv
  BY HandsOutOnce
<1> HIDE DEF LInv
<1> QED BY <1>1, <1>2, <1>3, <1>4, TypeCorrect, OwnershipHolds, PTL DEF Spec

-----------------------------------------------------------------------------
(* The orphans.                                                            *)

\* A process that has not ended has cancelled nothing, a job without a StartJob has no
\* heartbeat, and a job that is left alone was stopped before its StartJob.
Attended(j) ==
  /\ cancelled[j] => ends > 0
  /\ jobStatus[j] \in {"absent", "pending"} \/ run[j] \in {"created", "filled", "starting"} =>
       heartbeat[j] = "null"
  /\ proc = "up" /\ faults = 0 /\ ends = 0 /\ jobStatus[j] \in Active /\ run[j] = "none" =>
       jobStatus[j] = "stopping" /\ heartbeat[j] = "null"

\* A step of the goroutines of a job or a request about it leaves no orphan behind.
LEMMA StaysAttended ==
  ASSUME TypeOK, TypeOK', Ownership, [Next]_vars, NEW j \in Jobs, Attended(j),
         \/ Submit(j) \/ Goroutine(j) \/ \E w \in Workers : Worker(j, w)
         \/ RequestJobStop(j) \/ TouchJobHeartbeat(j) \/ Lapse(j) \/ PurgeJob(j)
  PROVE  Attended(j)'
<1> USE DEF dbVars, poolVars, histVars
<1>0. ASSUME UNCHANGED <<jobStatus, heartbeat, proc, ends>>, cancelled'[j] => cancelled[j],
             run'[j] # "none",
             run'[j] \in {"created", "filled", "starting"} => run[j] \in {"created", "filled", "starting"}
      PROVE  Attended(j)'
  BY <1>0 DEF Attended
<1>1. CASE CreateJob(j)
  BY <1>1 DEF CreateJob, Attended, TypeOK
<1>2. ASSUME NEW S \in SUBSET Items, CreateJobItems(j, S) PROVE Attended(j)'
  <2>1. PICK ok \in BOOLEAN : Calls(j, ok) /\ run' = [run EXCEPT ![j] = IF ok THEN "filled" ELSE "none"]
    BY <1>2 DEF CreateJobItems
  <2>2. run[j] = "created" /\ UNCHANGED <<jobStatus, heartbeat, proc, ends, cancelled>>
    BY <1>2 DEF CreateJobItems
  <2>3. CASE ok
    BY <1>0, <2>1, <2>2, <2>3 DEF TypeOK
  <2>4. CASE ~ok
    <3>1. faults' = 0 => cancelled[j]
      BY <2>1, <2>4, CallsWork, NoFaultYet
    <3> QED BY <2>1, <2>2, <2>4, <3>1 DEF Attended, TypeOK
  <2> QED BY <2>3, <2>4
<1>3. CASE Spawn(j) \/ CloseQueue(j)
  BY <1>0, <1>3 DEF Spawn, CloseQueue, TypeOK
<1>4. CASE StartJob(j)
  BY <1>4 DEF StartJob, Attended, TypeOK
<1>5. CASE GiveUp(j)
  <2>1. PICK ok \in BOOLEAN : Calls(j, ok) /\ ~(ok /\ jobStatus[j] = "pending")
    BY <1>5 DEF GiveUp
  <2>2. /\ run[j] = "starting" /\ run'[j] = "none" /\ ~cancelled'[j]
        /\ UNCHANGED <<jobStatus, heartbeat, proc, ends>>
    BY <1>5 DEF GiveUp, Return, TypeOK
  <2>3. jobStatus[j] \in {"pending", "stopping"}
    BY <2>2 DEF Ownership
  <2>4. faults' = 0 => ok = ~cancelled[j]
    BY <2>1, CallsWork, NoFaultYet
  <2> QED BY <2>1, <2>2, <2>3, <2>4 DEF Attended
<1>6. CASE ListPendingJobItems(j)
  <2>1. /\ UNCHANGED <<jobStatus, heartbeat, proc, ends, cancelled>>
        /\ run'[j] \in {"dispatching", "failing"}
    BY <1>6 DEF ListPendingJobItems, TypeOK
  <2> QED BY <1>0, <2>1
<1>7. ASSUME NEW ok \in BOOLEAN, NEW s \in {"failed", "stopped", "succeeded", "partial"},
             Calls(j, ok), Writes(j, ok, s), Return(j), UNCHANGED <<heartbeat, proc, ends>>,
             run[j] \in {"failing", "closing"}
      PROVE  Attended(j)'
  <2>1. run'[j] = "none" /\ ~cancelled'[j]
    BY <1>7 DEF Return, TypeOK
  <2>2. jobStatus[j] \in {"running", "stopping"}
    BY <1>7 DEF Ownership
  <2>3. faults' = 0 => ok = ~cancelled[j]
    BY <1>7, CallsWork, NoFaultYet
  <2>4. jobStatus'[j] = IF ok THEN s ELSE jobStatus[j]
    BY <1>7 DEF Writes, TypeOK
  <2> QED BY <1>7, <2>1, <2>2, <2>3, <2>4 DEF Attended, Active
<1>8. CASE FailJob(j)
  BY <1>7, <1>8 DEF FailJob
<1>9. CASE FinishJob(j)
  <2>1. Verdict(j) \in {"failed", "stopped", "succeeded", "partial"}
    BY DEF Verdict
  <2> QED BY <1>7, <1>9, <2>1 DEF FinishJob
<1>10. ASSUME NEW w \in Workers, Worker(j, w) PROVE Attended(j)'
  <2>1. UNCHANGED <<jobStatus, heartbeat, proc, ends, cancelled, run>>
    BY <1>10 DEF Worker, TakeItem, SeeStop, PassCheck, SkipItem, StartJobItem, FinishJobItem,
                 BumpJobCounts, Pause, LeaveQueue
  <2>2. faults' = 0 => faults = 0
    BY NoFaultYet
  <2> QED BY <2>1, <2>2 DEF Attended
<1>11. CASE RequestJobStop(j)
  BY <1>11 DEF RequestJobStop, Attended, TypeOK, Active
<1>12. CASE TouchJobHeartbeat(j) \/ Lapse(j)
  BY <1>12 DEF TouchJobHeartbeat, Lapse, Attended, TypeOK
<1>13. CASE PurgeJob(j)
  BY <1>13 DEF PurgeJob, Attended, TypeOK, Active
<1> QED BY <1>1, <1>2, <1>3, <1>4, <1>5, <1>6, <1>8, <1>9, <1>10, <1>11, <1>12, <1>13 DEF Submit, Goroutine

\* A started job that nobody runs is a leftover of a dead process, or was stopped before its
\* StartJob: stop, cancellation, workers and finish do not lose a job between them.
THEOREM NoJobIsLost == Spec => []OrphansExplained
<1> DEFINE AInv == (proc # "up" => ends > 0) /\ \A j \in Jobs : Attended(j)
<1>1. Init => AInv
  BY DEF Init, Attended, Active
<1>2. TypeOK /\ TypeOK' /\ Ownership /\ AInv /\ [Next]_vars => AInv'
  <2> SUFFICES ASSUME TypeOK, TypeOK', Ownership, AInv, [Next]_vars PROVE AInv'
    OBVIOUS
  <2> USE DEF dbVars, poolVars, histVars
  <2>0. faults' = 0 => faults = 0
    BY NoFaultYet
  <2>1. ASSUME NEW j \in Jobs,
               \/ Submit(j) \/ Goroutine(j) \/ \E w \in Workers : Worker(j, w)
               \/ RequestJobStop(j) \/ TouchJobHeartbeat(j) \/ Lapse(j) \/ PurgeJob(j)
        PROVE  AInv'
    <3>1. UNCHANGED <<proc, ends>>
      <4>1. CASE Submit(j)
        BY <4>1 DEF Submit, CreateJob, CreateJobItems, Spawn
      <4>2. CASE Goroutine(j)
        BY <4>2 DEF Goroutine, StartJob, GiveUp, ListPendingJobItems, FailJob, CloseQueue, FinishJob
      <4>3. CASE \E w \in Workers : Worker(j, w)
        BY <4>3 DEF Worker, TakeItem, SeeStop, PassCheck, SkipItem, StartJobItem, FinishJobItem,
                    BumpJobCounts, Pause, LeaveQueue
      <4>4. CASE RequestJobStop(j) \/ TouchJobHeartbeat(j) \/ Lapse(j) \/ PurgeJob(j)
        BY <4>4 DEF RequestJobStop, TouchJobHeartbeat, Lapse, PurgeJob
      <4> QED BY <2>1, <4>1, <4>2, <4>3, <4>4
    <3>2. Attended(j)'
      BY <2>1, StaysAttended
    <3>3. ASSUME NEW k \in Jobs \ {j} PROVE Attended(k)'
      <4>1. Same(k)
        BY <2>1, OthersSame
      <4>2. heartbeat'[k] = heartbeat[k]
        <5>1. CASE Submit(j)
          BY <5>1 DEF Submit, CreateJob, CreateJobItems, Spawn
        <5>2. CASE Goroutine(j)
          <6>1. \/ UNCHANGED heartbeat
                \/ \E x : heartbeat' = [heartbeat EXCEPT ![j] = x]
            BY <5>2 DEF Goroutine, StartJob, GiveUp, ListPendingJobItems, FailJob, CloseQueue, FinishJob
          <6> QED BY <6>1 DEF TypeOK
        <5>3. CASE \E w \in Workers : Worker(j, w)
          BY <5>3 DEF Worker, TakeItem, SeeStop, PassCheck, SkipItem, StartJobItem, FinishJobItem,
                      BumpJobCounts, Pause, LeaveQueue
        <5>4. CASE RequestJobStop(j) \/ TouchJobHeartbeat(j) \/ Lapse(j) \/ PurgeJob(j)
          BY <5>4 DEF RequestJobStop, TouchJobHeartbeat, Lapse, PurgeJob, TypeOK
        <5> QED BY <2>1, <5>1, <5>2, <5>3, <5>4
      <4>3. Attended(k)
        OBVIOUS
      <4> QED BY <2>0, <3>1, <4>1, <4>2, <4>3 DEF Attended, Same
    <3> QED BY <3>1, <3>2, <3>3
  <2>2. CASE Shutdown \/ Crash \/ Exit
    <3>1. proc' # "up" /\ UNCHANGED <<jobStatus, heartbeat>>
      BY <2>2 DEF Shutdown, Crash, Exit, Forget
    <3>2. ends' > 0
      BY <2>2, ConstantsOK DEF Shutdown, Crash, Exit, Forget, TypeOK
    <3>3. \A k \in Jobs : run'[k] \in {run[k], "none"}
      BY <2>2 DEF Shutdown, Crash, Exit, Forget
    <3> QED BY <3>1, <3>2, <3>3 DEF Attended
  <2>3. CASE Restart
    <3>1. UNCHANGED <<heartbeat, run, cancelled, ends>> /\ proc = "down"
      BY <2>3 DEF Restart
    <3>2. \A k \in Jobs : jobStatus'[k] \in {jobStatus[k], "interrupted"}
      BY <2>3 DEF Restart
    <3> QED BY <3>1, <3>2 DEF Attended
  <2>4. CASE Rest \/ UNCHANGED vars
    BY <2>4 DEF Rest, vars, Attended
  <2> QED BY <2>1, <2>2, <2>3, <2>4 DEF Next
<1>3. AInv => OrphansExplained
  BY DEF Attended, OrphansExplained
<1> HIDE DEF AInv
<1> QED BY <1>1, <1>2, <1>3, TypeCorrect, OwnershipHolds, PTL DEF Spec
=============================================================================
