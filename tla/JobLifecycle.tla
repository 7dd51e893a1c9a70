---------------------------- MODULE JobLifecycle ----------------------------
(***************************************************************************)
(* What the batch-job system promises about the status of a job, without   *)
(* saying how it is run: the values jobs.status takes (model/job.go) and   *)
(* the moves between them that the statements of jobs.sql allow.           *)
(*                                                                         *)
(* JobManager implements this specification.                               *)
(***************************************************************************)
CONSTANT Jobs

VARIABLES status,   \* jobs.status of each job, "absent" before, "deleted" after
          asked     \* the jobs somebody asked to stop

vars == <<status, asked>>

Active   == {"pending", "running", "stopping"}
Terminal == {"succeeded", "partial", "failed", "stopped", "interrupted"}
Statuses == Active \union Terminal \union {"absent", "deleted"}

Init == /\ status = [j \in Jobs |-> "absent"]
        /\ asked = {}

Create(j) == /\ status[j] = "absent"
             /\ status' = [status EXCEPT ![j] = "pending"]
             /\ UNCHANGED asked

Start(j) == /\ status[j] = "pending"
            /\ status' = [status EXCEPT ![j] = "running"]
            /\ UNCHANGED asked

RequestStop(j) == /\ status[j] \in {"pending", "running"}
                  /\ status' = [status EXCEPT ![j] = "stopping"]
                  /\ asked' = asked \union {j}

\* Only a started job ends, and it ends as stopped only if that was asked for.
End(j, verdict) == /\ status[j] \in {"running", "stopping"}
                   /\ verdict = "stopped" => j \in asked
                   /\ status' = [status EXCEPT ![j] = verdict]
                   /\ UNCHANGED asked

\* A restart gives up the jobs of the process that died, any number at once.
Reap(R) == /\ R # {}
           /\ \A j \in R : status[j] \in {"running", "stopping"}
           /\ status' = [j \in Jobs |-> IF j \in R THEN "interrupted" ELSE status[j]]
           /\ UNCHANGED asked

Delete(j) == /\ status[j] \in Terminal
             /\ status' = [status EXCEPT ![j] = "deleted"]
             /\ UNCHANGED asked

Next == \/ \E j \in Jobs : \/ Create(j)
                           \/ Start(j)
                           \/ RequestStop(j)
                           \/ \E v \in Terminal \ {"interrupted"} : End(j, v)
                           \/ Delete(j)
        \/ \E R \in SUBSET Jobs : Reap(R)

Spec == Init /\ [][Next]_vars
=============================================================================
