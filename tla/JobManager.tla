----------------------------- MODULE JobManager -----------------------------
(***************************************************************************)
(* The batch-job engine (pkg/job/manager.go, worker.go) over the tables    *)
(* jobs and job_items (pkg/repo/jobs.go, jobs.sql): submission, the run    *)
(* goroutine, the worker pool behind an unbuffered queue, cooperative      *)
(* stop, heartbeat, shutdown, crash, and the reaping of zombies when the   *)
(* server starts again.  The event log and its readers are JobStream.      *)
(*                                                                         *)
(* The DB* variables survive the process; the others die with it.  Every   *)
(* statement the manager sends is one atomic step and takes the context of *)
(* the job: it fails once that context is cancelled, and may fail          *)
(* (MaxFaults times in a behaviour) for a reason of the database's own.    *)
(***************************************************************************)
EXTENDS Integers, FiniteSets

CONSTANTS Jobs,       \* job ids
          Items,      \* positions of the items of a job, a set of numbers
          Workers,    \* Config.Workers goroutines per job
          MaxFaults,  \* bound: database calls that fail
          MaxEnds     \* bound: crashes and shutdowns of the process

ASSUME ConstantsOK == /\ Items \subseteq Nat
                      /\ IsFiniteSet(Items)
                      /\ IsFiniteSet(Workers)
                      /\ MaxFaults \in Nat
                      /\ MaxEnds \in Nat

VARIABLES
  jobStatus,     \* DB: jobs.status
  itemStatus,    \* DB: job_items.status of each item
  successCount,  \* DB: jobs.success_count
  failedCount,   \* DB: jobs.failed_count
  heartbeat,     \* DB: jobs.heartbeat_at, against the cutoff now - StaleAfter
  proc,          \* the server process
  run,           \* where the submission, then the run goroutine, of a job is
  cancelled,     \* the context of the job is cancelled
  todo,          \* items the dispatcher has not handed out
  at,            \* where each worker is
  held,          \* the item each worker took last
  outcome,       \* the result its runner returned
  tally,         \* the counters of dispatch: items per result
  stopSeen,      \* counters.stopped: a worker has seen the stop request
  faults, ends,  \* how much of the two bounds is used
  stopAsked,     \* history: the jobs a Stop call succeeded for
  runs,          \* history: how often the runner was called for an item
  late           \* history: runner calls made after the stop was recorded

dbVars   == <<jobStatus, itemStatus, successCount, failedCount, heartbeat>>
poolVars == <<todo, at, held, outcome, tally, stopSeen>>
histVars == <<stopAsked, runs, late>>
vars     == <<dbVars, proc, run, cancelled, poolVars, faults, ends, histVars>>

Active   == {"pending", "running", "stopping"}
Terminal == {"succeeded", "partial", "failed", "stopped", "interrupted"}
Results  == {"success", "failed", "skipped"}

\* What a runner may return; runItem turns the empty status into a failure.
Returned  == Results \union {""}
Settle(r) == IF r = "" THEN "failed" ELSE r

\* Submit: created, filled.  Goroutine: starting .. closing.
RunStages    == {"none", "created", "filled", "starting", "listing", "failing",
                 "dispatching", "closing"}
Registered   == {"starting", "listing", "failing", "dispatching", "closing"}
WorkerStages == {"idle", "check", "skipping", "start", "running", "count",
                 "pause", "exited"}

NoItem  == -1
NoTally == [r \in Results |-> 0]

-----------------------------------------------------------------------------
Init == /\ jobStatus = [j \in Jobs |-> "absent"]
        /\ itemStatus = [j \in Jobs |-> [i \in Items |-> "absent"]]
        /\ successCount = [j \in Jobs |-> 0]
        /\ failedCount = [j \in Jobs |-> 0]
        /\ heartbeat = [j \in Jobs |-> "null"]
        /\ proc = "up"
        /\ run = [j \in Jobs |-> "none"]
        /\ cancelled = [j \in Jobs |-> FALSE]
        /\ todo = [j \in Jobs |-> {}]
        /\ at = [j \in Jobs |-> [w \in Workers |-> "exited"]]
        /\ held = [j \in Jobs |-> [w \in Workers |-> NoItem]]
        /\ outcome = [j \in Jobs |-> [w \in Workers |-> "failed"]]
        /\ tally = [j \in Jobs |-> NoTally]
        /\ stopSeen = [j \in Jobs |-> FALSE]
        /\ faults = 0
        /\ ends = 0
        /\ stopAsked = {}
        /\ runs = [j \in Jobs |-> [i \in Items |-> 0]]
        /\ late = [j \in Jobs |-> 0]

\* A database call made with the context of j: ok is whether it took effect.
Calls(j, ok) ==
  \/ /\ ok = ~cancelled[j]
     /\ UNCHANGED faults
  \/ /\ ~ok /\ ~cancelled[j]
     /\ faults < MaxFaults
     /\ faults' = faults + 1

\* jobStatus[j] becomes s if the statement took effect.
Writes(j, ok, s) == jobStatus' = IF ok THEN [jobStatus EXCEPT ![j] = s] ELSE jobStatus

-----------------------------------------------------------------------------
(* Submit: CreateJob, then CreateJobItems in one transaction, then spawn.  *)

CreateJob(j) ==
  /\ proc = "up"
  /\ jobStatus[j] = "absent"
  /\ jobStatus' = [jobStatus EXCEPT ![j] = "pending"]
  /\ run' = [run EXCEPT ![j] = "created"]
  /\ UNCHANGED <<itemStatus, successCount, failedCount, heartbeat, proc, cancelled,
                 poolVars, faults, ends, histVars>>

\* When the transaction fails Submit returns, and the pending row stays.
CreateJobItems(j, S) ==
  /\ run[j] = "created"
  /\ \E ok \in BOOLEAN :
       /\ Calls(j, ok)
       /\ itemStatus' = IF ok
            THEN [itemStatus EXCEPT ![j] =
                    [i \in Items |-> IF i \in S THEN "pending" ELSE "absent"]]
            ELSE itemStatus
       /\ run' = [run EXCEPT ![j] = IF ok THEN "filled" ELSE "none"]
  /\ UNCHANGED <<jobStatus, successCount, failedCount, heartbeat, proc, cancelled,
                 poolVars, ends, histVars>>

\* A submission in flight when Shutdown starts still spawns, with a context
\* that nobody cancels any more.
Spawn(j) ==
  /\ run[j] = "filled"
  /\ run' = [run EXCEPT ![j] = "starting"]
  /\ UNCHANGED <<dbVars, proc, cancelled, poolVars, faults, ends, histVars>>

-----------------------------------------------------------------------------
(* The run goroutine.                                                      *)

\* The goroutine returns: its locals and its entry of m.running are gone.
Return(j) ==
  /\ run' = [run EXCEPT ![j] = "none"]
  /\ cancelled' = [cancelled EXCEPT ![j] = FALSE]
  /\ todo' = [todo EXCEPT ![j] = {}]
  /\ held' = [held EXCEPT ![j] = [w \in Workers |-> NoItem]]
  /\ outcome' = [outcome EXCEPT ![j] = [w \in Workers |-> "failed"]]
  /\ tally' = [tally EXCEPT ![j] = NoTally]
  /\ stopSeen' = [stopSeen EXCEPT ![j] = FALSE]
  /\ UNCHANGED at

\* UPDATE ... WHERE status = 'pending'.
StartJob(j) ==
  /\ run[j] = "starting"
  /\ jobStatus[j] = "pending"
  /\ Calls(j, TRUE)
  /\ jobStatus' = [jobStatus EXCEPT ![j] = "running"]
  /\ heartbeat' = [heartbeat EXCEPT ![j] = "fresh"]
  /\ run' = [run EXCEPT ![j] = "listing"]
  /\ UNCHANGED <<itemStatus, successCount, failedCount, proc, cancelled, poolVars,
                 ends, histVars>>

\* An error, or a row that is no longer pending: run returns without a word.
GiveUp(j) ==
  /\ run[j] = "starting"
  /\ \E ok \in BOOLEAN : Calls(j, ok) /\ ~(ok /\ jobStatus[j] = "pending")
  /\ Return(j)
  /\ UNCHANGED <<dbVars, proc, ends, histVars>>

\* Seeded fault: an empty list ends the goroutine without a verdict.
ListPendingJobItems_empty(j) ==
  LET Pending == {i \in Items : itemStatus[j][i] = "pending"} IN
  /\ run[j] = "listing"
  /\ Calls(j, TRUE)
  /\ run' = [run EXCEPT ![j] = IF Pending = {} THEN "none" ELSE "dispatching"]
  /\ todo' = [todo EXCEPT ![j] = Pending]
  /\ at' = [at EXCEPT ![j] = [w \in Workers |-> "idle"]]
  /\ UNCHANGED <<dbVars, proc, cancelled, held, outcome, tally, stopSeen, ends, histVars>>

ListPendingJobItems(j) ==
  /\ run[j] = "listing"
  /\ \E ok \in BOOLEAN :
       /\ Calls(j, ok)
       /\ run' = [run EXCEPT ![j] = IF ok THEN "dispatching" ELSE "failing"]
       /\ todo' = IF ok
            THEN [todo EXCEPT ![j] = {i \in Items : itemStatus[j][i] = "pending"}]
            ELSE todo
       /\ at' = IF ok THEN [at EXCEPT ![j] = [w \in Workers |-> "idle"]] ELSE at
  /\ UNCHANGED <<dbVars, proc, cancelled, held, outcome, tally, stopSeen, ends,
                 histVars>>

FailJob(j) ==
  /\ run[j] = "failing"
  /\ \E ok \in BOOLEAN : Calls(j, ok) /\ Writes(j, ok, "failed")
  /\ Return(j)
  /\ UNCHANGED <<itemStatus, successCount, failedCount, heartbeat, proc, ends, histVars>>

\* The dispatcher has handed everything out, or breaks off on a cancelled context.
CloseQueue(j) ==
  /\ run[j] = "dispatching"
  /\ todo[j] = {} \/ cancelled[j]
  /\ run' = [run EXCEPT ![j] = "closing"]
  /\ UNCHANGED <<dbVars, proc, cancelled, poolVars, faults, ends, histVars>>

\* Seeded fault: a skipped item is taken for a sign of a stop.
Verdict_skipped(j) == IF tally[j]["skipped"] > 0 THEN "stopped"
                      ELSE IF tally[j]["failed"] = 0 THEN "succeeded"
                      ELSE IF tally[j]["success"] = 0 THEN "failed"
                      ELSE "partial"

\* The verdict of finish.
Verdict(j) == IF stopSeen[j] THEN "stopped"
              ELSE IF tally[j]["failed"] = 0 THEN "succeeded"
              ELSE IF tally[j]["success"] = 0 THEN "failed"
              ELSE "partial"

\* Seeded fault: the verdict is written with a context that is never cancelled.
FinishJob_detached(j) ==
  /\ run[j] = "closing"
  /\ \A w \in Workers : at[j][w] = "exited"
  /\ Writes(j, TRUE, Verdict(j))
  /\ Return(j)
  /\ UNCHANGED <<itemStatus, successCount, failedCount, heartbeat, proc, faults, ends,
                 histVars>>

\* wg.Wait returned.  FinishJob is unconditional: it overwrites any status.
FinishJob(j) ==
  /\ run[j] = "closing"
  /\ \A w \in Workers : at[j][w] = "exited"
  /\ \E ok \in BOOLEAN : Calls(j, ok) /\ Writes(j, ok, Verdict(j))
  /\ Return(j)
  /\ UNCHANGED <<itemStatus, successCount, failedCount, heartbeat, proc, ends, histVars>>

-----------------------------------------------------------------------------
(* The workers of a job.                                                   *)

Moves(j, w, from, to) == /\ at[j][w] = from
                         /\ at' = [at EXCEPT ![j][w] = to]

\* Seeded fault: the item is looked at, not received.
TakeItem_peek(j, w) ==
  /\ run[j] = "dispatching"
  /\ Moves(j, w, "idle", "check")
  /\ \E i \in todo[j] : held' = [held EXCEPT ![j][w] = i]
  /\ UNCHANGED <<dbVars, proc, run, cancelled, todo, outcome, tally, stopSeen, faults,
                 ends, histVars>>

\* Rendezvous on the unbuffered queue; items go out in order of position.
\* The select may also pick this branch after the context is cancelled.
TakeItem(j, w) ==
  /\ run[j] = "dispatching"
  /\ Moves(j, w, "idle", "check")
  /\ \E i \in todo[j] :
       /\ \A k \in todo[j] : i <= k
       /\ todo' = [todo EXCEPT ![j] = @ \ {i}]
       /\ held' = [held EXCEPT ![j][w] = i]
  /\ UNCHANGED <<dbVars, proc, run, cancelled, outcome, tally, stopSeen,
                 faults, ends, histVars>>

\* shouldStop reads the status; a failed read counts as "no".
SeeStop(j, w) ==
  /\ jobStatus[j] = "stopping"
  /\ Calls(j, TRUE)
  /\ Moves(j, w, "check", "skipping")
  /\ stopSeen' = [stopSeen EXCEPT ![j] = TRUE]
  /\ tally' = [tally EXCEPT ![j]["skipped"] = @ + 1]
  /\ UNCHANGED <<dbVars, proc, run, cancelled, todo, held, outcome, ends, histVars>>

\* Seeded fault: the status is not looked at.
PassCheck_blind(j, w) ==
  /\ \E ok \in BOOLEAN : Calls(j, ok)
  /\ Moves(j, w, "check", IF cancelled[j] THEN "exited" ELSE "start")
  /\ UNCHANGED <<dbVars, proc, run, cancelled, todo, held, outcome, tally, stopSeen,
                 ends, histVars>>

PassCheck(j, w) ==
  /\ \E ok \in BOOLEAN : Calls(j, ok) /\ ~(ok /\ jobStatus[j] = "stopping")
  /\ Moves(j, w, "check", IF cancelled[j] THEN "exited" ELSE "start")
  /\ UNCHANGED <<dbVars, proc, run, cancelled, todo, held, outcome, tally, stopSeen,
                 ends, histVars>>

FinishItem(j, w, ok, s) ==
  itemStatus' = IF ok THEN [itemStatus EXCEPT ![j][held[j][w]] = s] ELSE itemStatus

SkipItem(j, w) ==
  /\ Moves(j, w, "skipping", "idle")
  /\ \E ok \in BOOLEAN : Calls(j, ok) /\ FinishItem(j, w, ok, "skipped")
  /\ UNCHANGED <<jobStatus, successCount, failedCount, heartbeat, proc, run, cancelled,
                 todo, held, outcome, tally, stopSeen,
                 ends, histVars>>

\* StartJobItem, whose failure is only logged, then the call of the runner.
StartJobItem(j, w) ==
  /\ Moves(j, w, "start", "running")
  /\ \E ok \in BOOLEAN : Calls(j, ok) /\ FinishItem(j, w, ok, "running")
  /\ runs' = [runs EXCEPT ![j][held[j][w]] = @ + 1]
  /\ late' = IF jobStatus[j] = "stopping" THEN [late EXCEPT ![j] = @ + 1] ELSE late
  /\ UNCHANGED <<jobStatus, successCount, failedCount, heartbeat, proc, run, cancelled,
                 todo, held, outcome, tally, stopSeen, ends, stopAsked>>

\* Seeded fault: the empty result is not normalised.
FinishJobItem_raw(j, w, r) ==
  /\ Moves(j, w, "running", "count")
  /\ outcome' = [outcome EXCEPT ![j][w] = r]
  /\ \E ok \in BOOLEAN : Calls(j, ok) /\ FinishItem(j, w, ok, r)
  /\ UNCHANGED <<jobStatus, successCount, failedCount, heartbeat, proc, run, cancelled,
                 todo, held, tally, stopSeen, ends, histVars>>

\* The runner returns; its result is written to the item first ...
FinishJobItem(j, w, r) ==
  /\ Moves(j, w, "running", "count")
  /\ outcome' = [outcome EXCEPT ![j][w] = Settle(r)]
  /\ \E ok \in BOOLEAN : Calls(j, ok) /\ FinishItem(j, w, ok, Settle(r))
  /\ UNCHANGED <<jobStatus, successCount, failedCount, heartbeat, proc, run, cancelled,
                 todo, held, tally, stopSeen, ends, histVars>>

\* Seeded fault: the switch has no case for a skipped item.
BumpJobCounts_noSkip(j, w) ==
  LET r == outcome[j][w] IN
  /\ Moves(j, w, "count", "pause")
  /\ tally' = [tally EXCEPT ![j][r] = @ + 1]
  /\ \E ok \in BOOLEAN :
       /\ Calls(j, ok)
       /\ successCount' = IF ok /\ r = "success"
                            THEN [successCount EXCEPT ![j] = @ + 1] ELSE successCount
       /\ failedCount' = IF ok /\ r # "success"
                           THEN [failedCount EXCEPT ![j] = @ + 1] ELSE failedCount
  /\ UNCHANGED <<jobStatus, itemStatus, heartbeat, proc, run, cancelled, todo, held,
                 outcome, stopSeen, ends, histVars>>

\* ... and counted afterwards, in memory and by a relative UPDATE of the job.
BumpJobCounts(j, w) ==
  LET r == outcome[j][w] IN
  /\ Moves(j, w, "count", "pause")
  /\ tally' = [tally EXCEPT ![j][r] = @ + 1]
  /\ \/ /\ r = "skipped"
        /\ UNCHANGED <<successCount, failedCount, faults>>
     \/ /\ r \in {"success", "failed"}
        /\ \E ok \in BOOLEAN :
             /\ Calls(j, ok)
             /\ successCount' = IF ok /\ r = "success"
                                  THEN [successCount EXCEPT ![j] = @ + 1] ELSE successCount
             /\ failedCount' = IF ok /\ r = "failed"
                                 THEN [failedCount EXCEPT ![j] = @ + 1] ELSE failedCount
  /\ UNCHANGED <<jobStatus, itemStatus, heartbeat, proc, run, cancelled, todo, held,
                 outcome, stopSeen, ends, histVars>>

\* AccountDelay, which a cancelled context cuts short.
Pause(j, w) ==
  /\ \/ Moves(j, w, "pause", "idle")
     \/ cancelled[j] /\ Moves(j, w, "pause", "exited")
  /\ UNCHANGED <<dbVars, proc, run, cancelled, todo, held, outcome, tally, stopSeen,
                 faults, ends, histVars>>

\* Seeded fault: close(queue) is never reached.
LeaveQueue_never(j, w) ==
  /\ run[j] = "none"
  /\ Moves(j, w, "idle", "exited")
  /\ UNCHANGED <<dbVars, proc, run, cancelled, todo, held, outcome, tally, stopSeen,
                 faults, ends, histVars>>

\* Seeded fault: close(queue) is skipped when the dispatcher breaks off.
LeaveQueue_normal(j, w) ==
  /\ run[j] = "closing"
  /\ ~cancelled[j]
  /\ Moves(j, w, "idle", "exited")
  /\ UNCHANGED <<dbVars, proc, run, cancelled, todo, held, outcome, tally, stopSeen,
                 faults, ends, histVars>>

LeaveQueue(j, w) ==
  /\ run[j] = "closing"
  /\ Moves(j, w, "idle", "exited")
  /\ UNCHANGED <<dbVars, proc, run, cancelled, todo, held, outcome, tally, stopSeen,
                 faults, ends, histVars>>

-----------------------------------------------------------------------------
(* Requests and background activity around the run.                        *)

\* Seeded fault: the UPDATE has no condition on the status.
RequestJobStop_any(j) ==
  /\ proc = "up"
  /\ jobStatus[j] \notin {"absent", "deleted"}
  /\ jobStatus' = [jobStatus EXCEPT ![j] = "stopping"]
  /\ stopAsked' = stopAsked \union {j}
  /\ UNCHANGED <<itemStatus, successCount, failedCount, heartbeat, proc, run, cancelled,
                 poolVars, faults, ends, runs, late>>

\* Seeded fault: a job that has not started is stopped at once.
RequestJobStop_atOnce(j) ==
  /\ proc = "up"
  /\ jobStatus[j] \in {"pending", "running"}
  /\ jobStatus' = [jobStatus EXCEPT
                     ![j] = IF @ = "pending" THEN "stopped" ELSE "stopping"]
  /\ stopAsked' = stopAsked \union {j}
  /\ UNCHANGED <<itemStatus, successCount, failedCount, heartbeat, proc, run, cancelled,
                 poolVars, faults, ends, runs, late>>

\* UPDATE ... SET status = 'stopping' WHERE status IN ('pending', 'running').
RequestJobStop(j) ==
  /\ proc = "up"
  /\ jobStatus[j] \in {"pending", "running"}
  /\ jobStatus' = [jobStatus EXCEPT ![j] = "stopping"]
  /\ stopAsked' = stopAsked \union {j}
  /\ UNCHANGED <<itemStatus, successCount, failedCount, heartbeat, proc, run, cancelled,
                 poolVars, faults, ends, runs, late>>

\* The ticker of startHeartbeat: alive from dispatch until it returns.
TouchJobHeartbeat(j) ==
  /\ run[j] \in {"dispatching", "closing"}
  /\ ~cancelled[j]
  /\ heartbeat[j] = "stale"
  /\ heartbeat' = [heartbeat EXCEPT ![j] = "fresh"]
  /\ UNCHANGED <<jobStatus, itemStatus, successCount, failedCount, proc, run, cancelled,
                 poolVars, faults, ends, histVars>>

\* StaleAfter passes without a heartbeat: nobody sends one, or the process hangs.
Lapse(j) ==
  /\ heartbeat[j] = "fresh"
  /\ heartbeat' = [heartbeat EXCEPT ![j] = "stale"]
  /\ UNCHANGED <<jobStatus, itemStatus, successCount, failedCount, proc, run, cancelled,
                 poolVars, faults, ends, histVars>>

\* DeleteFinishedJobsBefore, 30 days after the end: no goroutine is left.
PurgeJob(j) ==
  /\ proc = "up"
  /\ jobStatus[j] \in Terminal
  /\ run[j] = "none"
  /\ jobStatus' = [jobStatus EXCEPT ![j] = "deleted"]
  /\ itemStatus' = [itemStatus EXCEPT ![j] = [i \in Items |-> "absent"]]
  /\ UNCHANGED <<successCount, failedCount, heartbeat, proc, run, cancelled, poolVars,
                 faults, ends, histVars>>

-----------------------------------------------------------------------------
(* The process.                                                            *)

\* Run: HTTP has stopped; Shutdown cancels every job registered so far.
Shutdown ==
  /\ proc = "up"
  /\ ends < MaxEnds
  /\ proc' = "draining"
  /\ ends' = ends + 1
  /\ cancelled' = [j \in Jobs |-> run[j] \in Registered]
  /\ UNCHANGED <<dbVars, run, poolVars, faults, histVars>>

\* The memory of the process is gone.
Forget ==
  /\ proc' = "down"
  /\ run' = [j \in Jobs |-> "none"]
  /\ cancelled' = [j \in Jobs |-> FALSE]
  /\ todo' = [j \in Jobs |-> {}]
  /\ at' = [j \in Jobs |-> [w \in Workers |-> "exited"]]
  /\ outcome' = [j \in Jobs |-> [w \in Workers |-> "failed"]]
  /\ held' = [j \in Jobs |-> [w \in Workers |-> NoItem]]
  /\ tally' = [j \in Jobs |-> NoTally]
  /\ stopSeen' = [j \in Jobs |-> FALSE]
  /\ UNCHANGED <<dbVars, faults, histVars>>

\* Every goroutine is gone, or the grace period is over.
Exit == proc = "draining" /\ Forget /\ UNCHANGED ends

Crash == proc = "up" /\ ends < MaxEnds /\ ends' = ends + 1 /\ Forget

\* ListStaleJobs.
Stale(j) == jobStatus[j] \in {"running", "stopping"} /\ heartbeat[j] \in {"null", "stale"}

\* buildServices calls ReapStale once, before it serves.  An error of the list
\* or of one of the updates is logged and ends the loop.
Restart ==
  /\ proc = "down"
  /\ proc' = "up"
  /\ LET Zombies == {j \in Jobs : Stale(j)} IN
     \E R \in SUBSET Zombies :
       /\ jobStatus' = [j \in Jobs |-> IF j \in R THEN "interrupted" ELSE jobStatus[j]]
       /\ \/ R = Zombies /\ UNCHANGED faults
          \/ R # Zombies /\ faults < MaxFaults /\ faults' = faults + 1
  /\ UNCHANGED <<itemStatus, successCount, failedCount, heartbeat, run, cancelled,
                 poolVars, ends, histVars>>

\* The server waits for requests: every job of the model has been and gone.
Rest ==
  /\ proc = "up"
  /\ \A j \in Jobs : run[j] = "none" /\ jobStatus[j] # "absent"
  /\ UNCHANGED vars

-----------------------------------------------------------------------------
Worker(j, w) == \/ TakeItem(j, w)
                \/ SeeStop(j, w)
                \/ PassCheck(j, w)
                \/ SkipItem(j, w)
                \/ StartJobItem(j, w)
                \/ \E r \in Returned : FinishJobItem(j, w, r)
                \/ BumpJobCounts(j, w)
                \/ Pause(j, w)
                \/ LeaveQueue(j, w)

Goroutine(j) == \/ StartJob(j)
                \/ GiveUp(j)
                \/ ListPendingJobItems(j)
                \/ FailJob(j)
                \/ CloseQueue(j)
                \/ FinishJob(j)

Submit(j) == \/ CreateJob(j)
             \/ \E S \in SUBSET Items : CreateJobItems(j, S)
             \/ Spawn(j)

Next == \/ \E j \in Jobs : \/ Submit(j)
                           \/ Goroutine(j)
                           \/ \E w \in Workers : Worker(j, w)
                           \/ RequestJobStop(j)
                           \/ TouchJobHeartbeat(j)
                           \/ Lapse(j)
                           \/ PurgeJob(j)
        \/ Shutdown
        \/ Exit
        \/ Crash
        \/ Restart
        \/ Rest

Spec == Init /\ [][Next]_vars

\* Goroutines are scheduled, and a runner returns: every upstream call it makes
\* has a timeout.  Nobody has to submit, stop, crash or restart anything.
Fairness == \A j \in Jobs : /\ WF_vars(Spawn(j))
                            /\ WF_vars(Goroutine(j))
                            /\ \A w \in Workers : WF_vars(Worker(j, w))
FairSpec == Spec /\ Fairness
-----------------------------------------------------------------------------
(* Properties.                                                             *)

TypeOK ==
  /\ jobStatus \in [Jobs -> Active \union Terminal \union {"absent", "deleted"}]
  /\ itemStatus \in [Jobs -> [Items -> Results \union {"absent", "pending", "running"}]]
  /\ successCount \in [Jobs -> Nat]
  /\ failedCount \in [Jobs -> Nat]
  /\ heartbeat \in [Jobs -> {"null", "fresh", "stale"}]
  /\ proc \in {"up", "draining", "down"}
  /\ run \in [Jobs -> RunStages]
  /\ cancelled \in [Jobs -> BOOLEAN]
  /\ todo \in [Jobs -> SUBSET Items]
  /\ at \in [Jobs -> [Workers -> WorkerStages]]
  /\ held \in [Jobs -> [Workers -> Items \union {NoItem}]]
  /\ outcome \in [Jobs -> [Workers -> Results]]
  /\ tally \in [Jobs -> [Results -> Nat]]
  /\ stopSeen \in [Jobs -> BOOLEAN]
  /\ faults \in 0..MaxFaults
  /\ ends \in 0..MaxEnds
  /\ stopAsked \subseteq Jobs
  /\ runs \in [Jobs -> [Items -> Nat]]
  /\ late \in [Jobs -> Nat]

\* The runner is called at most once for an item, whatever is stopped, cancelled,
\* killed and restarted: the StartJob gate and the queue together (a second call
\* would spend a refresh token that the first one rotated).
RunnerOnce == \A j \in Jobs, i \in Items : runs[j][i] <= 1

ItemsIn(j, S) == {i \in Items : itemStatus[j][i] \in S}

Counted(j, r) == IF r = "success" THEN successCount[j] ELSE failedCount[j]

\* The counters a client sees trail the items, by at most one increment per worker,
\* also after a crash in the middle of a run (BumpJobCounts after FinishJobItem).
CountsLag ==
  faults = 0 =>
    \A j \in Jobs, r \in {"success", "failed"} :
      jobStatus[j] # "deleted" =>
        Cardinality(ItemsIn(j, {r})) - Counted(j, r) \in 0..Cardinality(Workers)

\* A verdict written by finish is about a job that is done: no item is pending or
\* running, the counters are those of the items, and they give that verdict, also
\* when Stop, a cancelled context or the end of the process raced with it.
VerdictIsTrue ==
  faults = 0 =>
    \A j \in Jobs : jobStatus[j] \in {"succeeded", "partial", "failed", "stopped"} =>
      /\ ItemsIn(j, {"pending", "running"}) = {}
      /\ \A r \in {"success", "failed"} : Counted(j, r) = Cardinality(ItemsIn(j, {r}))
      /\ jobStatus[j] = "succeeded" => failedCount[j] = 0
      /\ jobStatus[j] = "partial" => failedCount[j] > 0 /\ successCount[j] > 0
      /\ jobStatus[j] = "failed" => failedCount[j] > 0 /\ successCount[j] = 0
      /\ jobStatus[j] = "stopped" => j \in stopAsked /\ ItemsIn(j, {"skipped"}) # {}

\* After a stop is recorded each worker starts at most the one item it has already
\* checked for; all others are skipped.
StopIsPrompt == faults = 0 => \A j \in Jobs : late[j] <= Cardinality(Workers)

\* A started job that nobody runs is a leftover of a dead process, or was stopped
\* before its StartJob: no interleaving of stop, workers and finish loses a job.
OrphansExplained ==
  (proc = "up" /\ faults = 0 /\ ends = 0) =>
    \A j \in Jobs : (jobStatus[j] \in Active /\ run[j] = "none") =>
      jobStatus[j] = "stopping" /\ heartbeat[j] = "null"

\* A terminal status is never overwritten (only deleted), although FinishJob and
\* MarkJobInterrupted test nothing.
TerminalIsFinal ==
  [][\A j \in Jobs : jobStatus[j] \in Terminal =>
                      jobStatus'[j] \in {jobStatus[j], "deleted"}]_vars

\* The status moves as JobLifecycle allows.
Lifecycle == INSTANCE JobLifecycle WITH status <- jobStatus, asked <- stopAsked
LifecycleSpec == Lifecycle!Spec

\* Who owns a job, and what its status can be meanwhile: the reason why the two
\* unconditional UPDATEs are safe.  A reaper never meets a live goroutine, and a
\* goroutine finishes only a job whose StartJob it won.
Ownership ==
  /\ proc = "down" => \A j \in Jobs : run[j] = "none"
  /\ \A j \in Jobs :
       /\ run[j] \in {"created", "filled", "starting"} =>
            jobStatus[j] \in {"pending", "stopping"}
       /\ run[j] \in {"listing", "failing", "dispatching", "closing"} =>
            jobStatus[j] \in {"running", "stopping"}
       /\ stopSeen[j] \/ jobStatus[j] = "stopping" => j \in stopAsked

Undecided == {"check", "start"}

\* Why the runner is called once: an item is on the list, or held by one worker
\* that has not called the runner yet, or it is past that.
HandedOutOnce ==
  \A j \in Jobs :
    /\ jobStatus[j] = "absent" \/ run[j] \in {"created", "filled", "starting", "listing"} =>
         \A i \in Items : runs[j][i] = 0
    /\ \A i \in todo[j] : runs[j][i] = 0
    /\ \A w \in Workers :
         /\ at[j][w] # "exited" => run[j] \in {"dispatching", "closing"}
         /\ at[j][w] \in Undecided =>
              /\ held[j][w] \in Items \ todo[j]
              /\ runs[j][held[j][w]] = 0
    /\ \A v, w \in Workers :
         v # w /\ at[j][v] \in Undecided /\ at[j][w] \in Undecided => held[j][v] # held[j][w]

\* Without a crash every started job ends: the dispatcher and the workers never
\* wait for each other for ever, with or without a stop.
StartedJobEnds ==
  \A j \in Jobs : (run[j] = "listing") ~> (jobStatus[j] \in Terminal \/ ends > 0)

\* A cancelled job lets go of its goroutines, so that Shutdown's wait can end.
CancelledJobReturns == \A j \in Jobs : cancelled[j] ~> (run[j] = "none")

\* What Stop's comment says: a worker completes the stop (manager.go:159-161).
StopCompletes == \A j \in Jobs : (jobStatus[j] = "stopping") ~> (jobStatus[j] \in Terminal)

\* What Shutdown's comment says: the next start marks the jobs that were cut
\* short as interrupted (manager.go:190), so a serving process has no zombie.
NoZombies ==
  (proc = "up" /\ faults = 0) =>
    \A j \in Jobs : jobStatus[j] = "running" => run[j] # "none"
=============================================================================
