-------------------------- MODULE RefreshScheduler --------------------------
(***************************************************************************)
(* Refreshing the tokens of a group on a schedule: the scan of             *)
(* pkg/service/refresh_scheduler.go, the two columns of mail_groups it     *)
(* reads and advances, and what else submits jobs of the same tenant (a    *)
(* refresh by hand, a check of the accounts).  Every process that serves   *)
(* runs one scheduler.  A job is what JobManager makes of it: here it is   *)
(* active, with a process that runs it or without one, until it ends.      *)
(*                                                                         *)
(* Time is relative: due[g] is next_refresh_at minus now, negative when    *)
(* late.  A unit of time is a day or more (an interval is 7 to 30 days,    *)
(* a scan comes every minute), so that scans are much more frequent than   *)
(* Elapse.                                                                 *)
(***************************************************************************)
EXTENDS Integers, FiniteSets, Sequences

CONSTANTS Groups, Tenants,
          TenantOf,    \* the tenant of a group
          Schedulers,  \* the processes
          Clients,     \* requests that are served at the same time
          None,        \* no next_refresh_at, no process
          Intervals,   \* refresh_interval_minutes, in units; 0 is "off"
          Limit,       \* scheduleBatchSize
          Slack,       \* bound: time that passes during a scan
          MaxLate,     \* bound: a group is this late, or later, all the same
          MaxQuiet,    \* bound: how far the history counts
          MaxAsks,     \* bound: requests of users and administrators
          MaxFaults    \* bound: statements that fail and processes that die

ASSUME ScheduleConstants ==
  /\ TenantOf \in [Groups -> Tenants]
  /\ Intervals \subseteq Nat \ {0}
  /\ \A i \in Intervals : Slack < i
  /\ {Limit, Slack, MaxLate, MaxQuiet, MaxAsks, MaxFaults} \subseteq Nat
  /\ IsFiniteSet(Groups)
  /\ Schedulers \cap Clients = {}
  /\ None \notin Int /\ None \notin Tenants /\ None \notin Schedulers

VARIABLES
  interval,     \* mail_groups.refresh_interval_minutes; 0 for a deleted group too
  due,          \* mail_groups.next_refresh_at, relative to now
  enabled,      \* the tenants with an active member
  jobs,         \* the active rows of jobs
  at,           \* where the scan of each process is
  list,         \* the groups it has read and not yet handled
  busy,         \* the tenants it has found busy
  age,          \* how long ago its now was read
  ask,          \* the check each client has counted for
  quiet,        \* history: time since a group was claimed or its schedule saved
  asks, faults

rows   == <<interval, due, enabled, quiet>>
scans  == <<at, list, busy, age>>
bounds == <<asks, faults>>
vars   == <<rows, jobs, scans, ask, bounds>>

MaxInterval == CHOOSE i \in Intervals : \A k \in Intervals : k <= i

\* What a job of the model is: who submitted it and which process runs it.
Job(by, host, type, t) ==
  [by |-> by, host |-> host, type |-> type, tenant |-> t, status |-> "pending",
   started |-> FALSE]

\* Schedules saved at any time within the interval before.
Init == /\ interval \in [Groups -> Intervals \union {0}]
        /\ due \in [Groups -> 1..MaxInterval \union {None}]
        /\ \A g \in Groups : IF interval[g] = 0 THEN due[g] = None
                                                ELSE due[g] \in 1..interval[g]
        /\ quiet = [g \in Groups |-> IF interval[g] = 0 \/ interval[g] - due[g] > MaxQuiet
                                     THEN 0 ELSE interval[g] - due[g]]
        /\ enabled = Tenants
        /\ jobs = {}
        /\ at = [s \in Schedulers |-> "idle"]
        /\ list = [s \in Schedulers |-> <<>>]
        /\ busy = [s \in Schedulers |-> {}]
        /\ age = [s \in Schedulers |-> 0]
        /\ ask = [c \in Clients |-> None]
        /\ asks = 0
        /\ faults = 0

\* A statement fails for a reason of the database's own, or a process dies.
Fault == faults < MaxFaults /\ faults' = faults + 1

Asked == asks < MaxAsks /\ asks' = asks + 1

\* Seeded fault: a job that is being stopped is not counted.
CountActiveJobsByType_noStopping(t, type) ==
  Cardinality({j \in jobs : j.tenant = t /\ j.type = type /\ j.status # "stopping"})

CountActiveJobsByType(t, type) ==
  Cardinality({j \in jobs : j.tenant = t /\ j.type = type})

-----------------------------------------------------------------------------
(* One scan of a process.                                                  *)

IsDue(g, when) == /\ interval[g] > 0
                  /\ due[g] # None
                  /\ due[g] <= when

\* The rows of ListGroupsDueForRefresh, oldest first, in any order of ties.
ListGroupsDueForRefresh ==
  LET Due == {g \in Groups : IsDue(g, 0) /\ TenantOf[g] \in enabled}
      n   == IF Cardinality(Due) < Limit THEN Cardinality(Due) ELSE Limit
  IN {q \in [1..n -> Due] :
        /\ \A i, k \in 1..n : i < k => q[i] # q[k] /\ due[q[i]] <= due[q[k]]
        /\ \A g \in Due : (\A i \in 1..n : q[i] # g) => \A i \in 1..n : due[q[i]] <= due[g]}

\* Tick: now is read, then the due groups with their intervals.
Tick(s) ==
  /\ at[s] = "idle"
  /\ \E q \in ListGroupsDueForRefresh :
       /\ q # <<>>
       /\ list' = [list EXCEPT ![s] =
                     [i \in DOMAIN q |-> [group |-> q[i], interval |-> interval[q[i]]]]]
  /\ at' = [at EXCEPT ![s] = "count"]
  /\ UNCHANGED <<rows, jobs, busy, age, ask, bounds>>

Group(s) == Head(list[s]).group

\* tickGroup returns, with or without an error, and found is added to busy: on
\* to the next group, or to the end of the scan.
Handled(s, found) ==
  LET rest == Tail(list[s]) IN
  /\ list' = [list EXCEPT ![s] = rest]
  /\ at' = [at EXCEPT ![s] = IF rest = <<>> THEN "idle" ELSE "count"]
  /\ busy' = [busy EXCEPT ![s] = IF rest = <<>> THEN {} ELSE @ \union found]
  /\ age' = [age EXCEPT ![s] = IF rest = <<>> THEN 0 ELSE @]

\* Seeded fault: the schedule of a group is advanced when its tenant is busy.
SkipBusy_advancing(s) ==
  /\ at[s] = "count"
  /\ LET t == TenantOf[Group(s)] IN
       /\ t \in busy[s] \/ CountActiveJobsByType(t, "refresh") > 0
       /\ Handled(s, {t})
       /\ due' = [due EXCEPT ![Group(s)] = Head(list[s]).interval - age[s]]
  /\ UNCHANGED <<interval, enabled, quiet, jobs, ask, bounds>>

\* The tenant has a job: the group stays due, and waits.
SkipBusy(s) ==
  /\ at[s] = "count"
  /\ LET t == TenantOf[Group(s)] IN
       /\ t \in busy[s] \/ CountActiveJobsByType(t, "refresh") > 0
       /\ Handled(s, {t})
  /\ UNCHANGED <<rows, jobs, ask, bounds>>

PassCount(s) ==
  /\ at[s] = "count"
  /\ LET t == TenantOf[Group(s)] IN
       t \notin busy[s] /\ CountActiveJobsByType(t, "refresh") = 0
  /\ at' = [at EXCEPT ![s] = "claim"]
  /\ UNCHANGED <<rows, jobs, list, busy, age, ask, bounds>>

\* The count or the claim fails: the next group has its turn all the same.
StatementFails(s) ==
  /\ at[s] = "claim" \/ (at[s] = "count" /\ TenantOf[Group(s)] \notin busy[s])
  /\ Fault
  /\ Handled(s, {})
  /\ UNCHANGED <<rows, jobs, ask, asks>>

\* Seeded fault: the next time is the last one plus the interval.
ClaimGroupRefresh_backfill(s) ==
  LET g == Group(s) IN
  /\ at[s] = "claim"
  /\ IsDue(g, -age[s])
  /\ due' = [due EXCEPT ![g] = @ + Head(list[s]).interval]
  /\ quiet' = [quiet EXCEPT ![g] = 0]
  /\ at' = [at EXCEPT ![s] = "submit"]
  /\ UNCHANGED <<interval, enabled, jobs, list, busy, age, ask, bounds>>

\* UPDATE ... WHERE still due at the now of the scan: the next time counts from
\* that now, with the interval that was read.
ClaimGroupRefresh(s) ==
  LET g == Group(s) IN
  /\ at[s] = "claim"
  /\ IsDue(g, -age[s])
  /\ due' = [due EXCEPT ![g] = Head(list[s]).interval - age[s]]
  /\ quiet' = [quiet EXCEPT ![g] = 0]
  /\ at' = [at EXCEPT ![s] = "submit"]
  /\ UNCHANGED <<interval, enabled, jobs, list, busy, age, ask, bounds>>

\* No row matched: another process was first, or the user changed the schedule.
LoseClaim(s) ==
  /\ at[s] = "claim"
  /\ ~IsDue(Group(s), -age[s])
  /\ Handled(s, {})
  /\ UNCHANGED <<rows, jobs, ask, bounds>>

\* A group that is gone, or that selectAccounts finds no account in (Mailbox has
\* them), gives no job, and its cycle is over.
submitScheduled(s) ==
  /\ at[s] = "submit"
  /\ \/ Handled(s, {}) /\ UNCHANGED jobs
     \/ LET t == TenantOf[Group(s)] IN
          /\ jobs' = jobs \union {Job(s, s, "refresh", t)}
          /\ Handled(s, {t})
  /\ UNCHANGED <<rows, ask, bounds>>

\* It fails, before the job is written or after (CreateJobItems): then the job
\* is pending, and no process will start it.
SubmitFails(s) ==
  /\ at[s] = "submit"
  /\ Fault
  /\ Handled(s, {})
  /\ \/ UNCHANGED jobs
     \/ jobs' = jobs \union {Job(s, None, "refresh", TenantOf[Group(s)])}
  /\ UNCHANGED <<rows, ask, asks>>

-----------------------------------------------------------------------------
(* Requests.                                                               *)

\* RefreshService.SubmitBatch does not ask what is running.
SubmitBatch(c, t) ==
  /\ Asked
  /\ t \in enabled
  /\ \E s \in Schedulers : jobs' = jobs \union {Job(c, s, "refresh", t)}
  /\ UNCHANGED <<rows, scans, ask, faults>>

\* HealthService.SubmitBatch counts the checks of its tenant ...
CountChecks(c, t) ==
  /\ Asked
  /\ ask[c] = None
  /\ t \in enabled
  /\ CountActiveJobsByType(t, "check") = 0
  /\ ask' = [ask EXCEPT ![c] = t]
  /\ UNCHANGED <<rows, jobs, scans, faults>>

\* ... and submits another one if there was none.
SubmitCheck(c) ==
  /\ ask[c] # None
  /\ \E s \in Schedulers : jobs' = jobs \union {Job(c, s, "check", ask[c])}
  /\ ask' = [ask EXCEPT ![c] = None]
  /\ UNCHANGED <<rows, scans, bounds>>

\* GroupService.Update with refresh_interval_minutes: both columns at once.  A
\* group that is deleted is one that is off, and another may take its place.
UpdateMailGroupSchedule(g, i) ==
  /\ Asked
  /\ TenantOf[g] \in enabled
  /\ interval' = [interval EXCEPT ![g] = i]
  /\ due' = [due EXCEPT ![g] = IF i = 0 THEN None ELSE i]
  /\ quiet' = [quiet EXCEPT ![g] = 0]
  /\ UNCHANGED <<enabled, jobs, scans, ask, faults>>

\* An administrator disables the last member of a tenant, or enables one again.
UpdateUserStatus(t) ==
  /\ Asked
  /\ enabled' = IF t \in enabled THEN enabled \ {t} ELSE enabled \union {t}
  /\ UNCHANGED <<interval, due, quiet, jobs, scans, ask, faults>>

-----------------------------------------------------------------------------
(* The jobs (JobManager has them in detail), the processes and time.       *)

Becomes(j, new) == jobs' = (jobs \ {j}) \union {new}

RequestJobStop(j) ==
  /\ Asked
  /\ j.status \in {"pending", "running"}
  /\ j.tenant \in enabled
  /\ Becomes(j, [j EXCEPT !.status = "stopping"])
  /\ UNCHANGED <<rows, scans, ask, faults>>

StartJob(j) ==
  /\ j.host # None
  /\ j.status = "pending"
  /\ Becomes(j, [j EXCEPT !.status = "running", !.started = TRUE])
  /\ UNCHANGED <<rows, scans, ask, bounds>>

\* StartJob fails, or finds a job that was stopped first: the goroutine returns.
GiveUp(j) ==
  /\ j.host # None
  /\ ~j.started
  /\ \/ j.status = "stopping" /\ UNCHANGED faults
     \/ Fault
  /\ Becomes(j, [j EXCEPT !.host = None])
  /\ UNCHANGED <<rows, scans, ask, asks>>

\* The goroutine returns; the verdict is written unless that fails.
FinishJob(j) ==
  /\ j.host # None
  /\ j.started
  /\ \/ jobs' = jobs \ {j} /\ UNCHANGED faults
     \/ Fault /\ Becomes(j, [j EXCEPT !.host = None])
  /\ UNCHANGED <<rows, scans, ask, asks>>

\* A process dies, and another starts in its place: of the jobs that nobody runs
\* it takes the started ones whose heartbeat is old enough (ReapStale).
Restart(s) ==
  LET left    == {j \in jobs : j.host \in {s, None}}
      zombies == {[j EXCEPT !.host = None] : j \in left}
  IN
  /\ Fault
  /\ \E reaped \in SUBSET {j \in zombies : j.status \in {"running", "stopping"}} :
       jobs' = (jobs \ left) \union (zombies \ reaped)
  /\ at' = [at EXCEPT ![s] = "idle"]
  /\ list' = [list EXCEPT ![s] = <<>>]
  /\ busy' = [busy EXCEPT ![s] = {}]
  /\ age' = [age EXCEPT ![s] = 0]
  /\ UNCHANGED <<rows, ask, asks>>

\* Times beyond MaxLate are kept apart by their order alone.
Later(g) == Cardinality({h \in Groups : due[h] # None /\ due[h] > due[g]})
Floor(g) == IF due[g] > -MaxLate THEN due[g] - 1 ELSE -MaxLate - Later(g)

Elapse ==
  /\ \A s \in Schedulers : at[s] # "idle" => age[s] < Slack
  /\ due' = [g \in Groups |-> IF due[g] = None THEN None ELSE Floor(g)]
  /\ age' = [s \in Schedulers |-> IF at[s] = "idle" THEN 0 ELSE age[s] + 1]
  /\ quiet' = [g \in Groups |-> IF interval[g] = 0 \/ quiet[g] >= MaxQuiet
                                THEN quiet[g] ELSE quiet[g] + 1]
  /\ UNCHANGED <<interval, enabled, jobs, at, list, busy, ask, bounds>>

-----------------------------------------------------------------------------
Scan(s) == \/ Tick(s)
           \/ SkipBusy(s)
           \/ PassCount(s)
           \/ StatementFails(s)
           \/ ClaimGroupRefresh(s)
           \/ LoseClaim(s)
           \/ submitScheduled(s)
           \/ SubmitFails(s)

Run(j) == StartJob(j) \/ GiveUp(j) \/ FinishJob(j)

Next == \/ \E s \in Schedulers : Scan(s) \/ Restart(s)
        \/ \E c \in Clients, t \in Tenants : SubmitBatch(c, t) \/ CountChecks(c, t)
        \/ \E c \in Clients : SubmitCheck(c)
        \/ \E g \in Groups, i \in Intervals \union {0} : UpdateMailGroupSchedule(g, i)
        \/ \E t \in Tenants : UpdateUserStatus(t)
        \/ \E j \in jobs : RequestJobStop(j) \/ Run(j)
        \/ Elapse

Spec == Init /\ [][Next]_vars

\* Processes run and time passes, a started job ends (JobManager), and refreshes
\* by hand come to an end (MaxAsks): a tenant that is busy for ever is not served.
Fairness == /\ \A s \in Schedulers : WF_vars(Scan(s))
            /\ \A b \in Schedulers \union Clients, t \in Tenants :
                 WF_vars(\E j \in jobs : /\ j.by = b
                                        /\ j.tenant = t
                                        /\ j.type = "refresh"
                                        /\ Run(j))
            /\ WF_vars(Elapse)
FairSpec == Spec /\ Fairness
-----------------------------------------------------------------------------
(* Properties.                                                             *)

\* Submitted only after a count of the active jobs of its type and tenant.
Counted(j) == j.type = "check" \/ j.by \in Schedulers

\* Scheduled refreshes of a tenant do not stack up, and neither do its checks: two
\* at once come from two processes, or two requests, that counted at the same
\* time.  Stops, failed submissions and restarts do not matter.
NoStacking ==
  \A j, k \in jobs :
    j # k /\ Counted(j) /\ Counted(k) /\ j.type = k.type /\ j.tenant = k.tenant
      => j.by # k.by

\* A cycle of a group is handed out once: between two claims, or between a change
\* of the schedule and a claim, the interval has passed (less the time a scan may
\* take), however late the group was and however many processes scan.
Spaced ==
  [][\A s \in Schedulers :
       at[s] = "claim" /\ at'[s] = "submit" =>
         quiet[Group(s)] >= interval[Group(s)] - Slack]_vars

\* A job of the tenant that no process runs: only a restart can end it.
Stuck(t) == \E j \in jobs : j.tenant = t /\ j.type = "refresh" /\ j.host = None

Served(g) == \E s \in Schedulers : at[s] = "submit" /\ Group(s) = g

OffSchedule(g) == interval[g] = 0 \/ TenantOf[g] \notin enabled

\* The due groups of stuck tenants stay at the head of every scan.
CrowdedOut ==
  Cardinality({g \in Groups : IsDue(g, 0) /\ Stuck(TenantOf[g])}) >= Limit

\* A group that is due gets its turn, also next to groups of its own tenant with
\* the same interval, and whatever fails for others, unless its tenant is stuck
\* or stuck tenants fill the scan.
DueIsServed ==
  \A g \in Groups :
    IsDue(g, 0) ~>
      (Served(g) \/ OffSchedule(g) \/ Stuck(TenantOf[g]) \/ CrowdedOut)
=============================================================================
