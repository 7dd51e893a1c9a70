----------------------- MODULE RefreshSchedulerProofs -----------------------
(***************************************************************************)
(* For any groups, tenants, processes and clients, any number of requests, *)
(* faults and restarts: scheduled jobs do not stack up (NothingStacks),    *)
(* and a cycle of a group is handed out once (CyclesAreSpaced).  The first *)
(* rests on what a count is worth until the job is submitted, the second   *)
(* on how the time to the next refresh and the time since the last one add *)
(* up to the interval, also where a scan holds an outdated one.            *)
(***************************************************************************)
EXTENDS RefreshScheduler, FiniteSetTheorems, TLAPS

AnyJob == [by : Schedulers \union Clients, host : Schedulers \union {None},
           type : {"refresh", "check"}, tenant : Tenants,
           status : {"pending", "running", "stopping"}, started : BOOLEAN]

Entry == [group : Groups, interval : Intervals]

ScansOK ==
  /\ at \in [Schedulers -> {"idle", "count", "claim", "submit"}]
  /\ list \in [Schedulers -> Seq(Entry)]
  /\ busy \in [Schedulers -> SUBSET Tenants]
  /\ age \in [Schedulers -> 0..Slack]
  /\ \A s \in Schedulers : at[s] = "idle" <=> list[s] = <<>>

TypeOK ==
  /\ interval \in [Groups -> Intervals \union {0}]
  /\ due \in [Groups -> Int \union {None}]
  /\ quiet \in [Groups -> Nat]
  /\ enabled \subseteq Tenants
  /\ jobs \subseteq AnyJob /\ IsFiniteSet(jobs)
  /\ ask \in [Clients -> Tenants \union {None}]
  /\ asks \in Nat /\ faults \in Nat
  /\ ScansOK

-----------------------------------------------------------------------------
(* Types.                                                                  *)

\* What the constants are, one fact each.
LEMMA Bounds == /\ Limit \in Nat /\ Slack \in Nat /\ MaxLate \in Nat /\ MaxQuiet \in Nat
                /\ Intervals \subseteq Nat \ {0}
                /\ \A i \in Intervals : Slack < i
BY ScheduleConstants

\* The next time counts from the time the scan read.
LEMMA SetBack ==
  ASSUME NEW i \in Intervals, NEW a \in 0..Slack
  PROVE  /\ i \in Nat /\ a \in Nat /\ Slack \in Nat
         /\ a <= Slack /\ Slack < i
         /\ i - a \in Int
<1>1. i \in Nat /\ Slack \in Nat /\ Slack < i
  BY Bounds
<1> QED BY <1>1

\* A job that is submitted is one of the type, and jobs stay finitely many.
LEMMA NewJob ==
  ASSUME TypeOK, NEW b \in Schedulers \union Clients, NEW h \in Schedulers \union {None},
         NEW type \in {"refresh", "check"}, NEW t \in Tenants,
         jobs' = jobs \union {Job(b, h, type, t)}
  PROVE  jobs' \subseteq AnyJob /\ IsFiniteSet(jobs')
<1>1. Job(b, h, type, t) \in AnyJob
  BY DEF Job, AnyJob
<1>2. IsFiniteSet(jobs')
  BY FS_AddElement DEF TypeOK
<1> QED BY <1>1, <1>2 DEF TypeOK

\* The group at the head of a scan that is under way.
LEMMA HeadType ==
  ASSUME TypeOK, NEW s \in Schedulers, at[s] # "idle"
  PROVE  /\ list[s] \in Seq(Entry) /\ list[s] # <<>>
         /\ Head(list[s]) \in Entry /\ Tail(list[s]) \in Seq(Entry)
         /\ Group(s) \in Groups /\ TenantOf[Group(s)] \in Tenants
         /\ Head(list[s]).interval \in Intervals
<1>1. list[s] \in Seq(Entry) /\ list[s] # <<>>
  BY DEF TypeOK, ScansOK
<1>2. Head(list[s]) \in Entry /\ Tail(list[s]) \in Seq(Entry)
  BY <1>1
<1> QED BY <1>1, <1>2, ScheduleConstants DEF Entry, Group

\* The groups a scan holds are groups.
LEMMA EntryType ==
  ASSUME TypeOK, NEW s \in Schedulers, NEW k \in DOMAIN list[s]
  PROVE  /\ list[s][k] \in Entry
         /\ list[s][k].group \in Groups
         /\ list[s] # <<>>
<1>1. list[s] \in Seq(Entry)
  BY DEF TypeOK, ScansOK
<1>2. list[s][k] \in Entry
  BY <1>1
<1>3. list[s] # <<>>
  BY <1>1
<1> QED BY <1>2, <1>3 DEF Entry

\* The end of a group leaves a scan well formed.
LEMMA HandledType ==
  ASSUME TypeOK, NEW s \in Schedulers, at[s] # "idle", NEW found \in SUBSET Tenants,
         Handled(s, found)
  PROVE  ScansOK'
<1>1. Tail(list[s]) \in Seq(Entry)
  BY HeadType
<1>2. 0 \in 0..Slack
  BY Bounds
<1> QED BY <1>1, <1>2 DEF TypeOK, ScansOK, Handled

\* A scan starts with at least one due group, and a time to count from.
LEMMA TickType ==
  ASSUME TypeOK, NEW s \in Schedulers, Tick(s)
  PROVE  \E l \in Seq(Entry) :
            /\ l # <<>>
            /\ list' = [list EXCEPT ![s] = l]
            /\ \A i \in DOMAIN l : l[i].interval = interval[l[i].group]
<1> DEFINE Due == {g \in Groups : IsDue(g, 0) /\ TenantOf[g] \in enabled}
           n   == IF Cardinality(Due) < Limit THEN Cardinality(Due) ELSE Limit
<1>1. PICK q \in ListGroupsDueForRefresh :
        /\ q # <<>>
        /\ list' = [list EXCEPT ![s] =
                      [i \in DOMAIN q |-> [group |-> q[i], interval |-> interval[q[i]]]]]
  BY DEF Tick
<1>2. q \in [1..n -> Due]
  BY <1>1 DEF ListGroupsDueForRefresh
<1>3. n \in Nat
  <2>1. IsFiniteSet(Due)
    BY ScheduleConstants, FS_Subset
  <2>2. Cardinality(Due) \in Nat
    BY <2>1, FS_CardinalityType
  <2> HIDE DEF Due
  <2> QED BY <2>2, Bounds
<1>4. \A g \in Due : g \in Groups /\ interval[g] \in Intervals
  BY DEF IsDue, TypeOK
<1> DEFINE l == [i \in DOMAIN q |-> [group |-> q[i], interval |-> interval[q[i]]]]
<1> HIDE DEF n, Due
<1>5. l \in [1..n -> Entry] /\ DOMAIN l = 1..n
  BY <1>2, <1>4 DEF Entry
<1>6. n # 0
  <2> SUFFICES ASSUME n = 0 PROVE FALSE
    OBVIOUS
  <2>1. q \in Seq(Due) /\ Len(q) = 0
    BY <1>2, <1>3
  <2> QED BY <2>1, <1>1
<1>7. l \in Seq(Entry) /\ l # <<>>
  <2>1. l \in Seq(Entry)
    BY <1>3, <1>5
  <2>2. Len(l) = n
    BY <1>3, <1>5
  <2> QED BY <2>1, <2>2, <1>6
<1>8. \A i \in DOMAIN l : l[i].interval = interval[l[i].group]
  OBVIOUS
<1> HIDE DEF l
<1>9. list' = [list EXCEPT ![s] = l]
  BY <1>1 DEF l
<1> QED BY <1>7, <1>8, <1>9

\* Each step of a scan keeps the types.
LEMMA ScanType ==
  ASSUME TypeOK, NEW s \in Schedulers, Scan(s)
  PROVE  TypeOK'
<1>1. CASE Tick(s)
  <2>1. PICK l \in Seq(Entry) : l # <<>> /\ list' = [list EXCEPT ![s] = l]
    BY <1>1, TickType
  <2>2. ScansOK'
    BY <1>1, <2>1 DEF Tick, TypeOK, ScansOK
  <2> QED BY <1>1, <2>2 DEF Tick, TypeOK, rows, bounds
<1>2. CASE SkipBusy(s)
  <2>1. TenantOf[Group(s)] \in Tenants /\ Handled(s, {TenantOf[Group(s)]}) /\ at[s] # "idle"
    BY <1>2, HeadType DEF SkipBusy
  <2>2. ScansOK'
    BY <2>1, HandledType
  <2> QED BY <1>2, <2>2 DEF SkipBusy, TypeOK, rows, bounds
<1>3. CASE PassCount(s)
  <2>1. ScansOK'
    BY <1>3 DEF PassCount, TypeOK, ScansOK
  <2> QED BY <1>3, <2>1 DEF PassCount, TypeOK, rows, bounds
<1>4. CASE StatementFails(s)
  <2>1. ScansOK'
    BY <1>4, HandledType DEF StatementFails
  <2> QED BY <1>4, <2>1 DEF StatementFails, Fault, TypeOK, rows
<1>5. CASE ClaimGroupRefresh(s)
  <2>0. at[s] # "idle" /\ age[s] \in 0..Slack
    BY <1>5 DEF ClaimGroupRefresh, TypeOK, ScansOK
  <2>1. Head(list[s]).interval \in Intervals
    BY <2>0, HeadType
  <2>2. Head(list[s]).interval - age[s] \in Int
    BY <2>0, <2>1, SetBack
  <2>3. ScansOK'
    BY <1>5 DEF ClaimGroupRefresh, TypeOK, ScansOK
  <2> QED BY <1>5, <2>2, <2>3 DEF ClaimGroupRefresh, TypeOK, bounds
<1>6. CASE LoseClaim(s)
  <2>1. ScansOK'
    BY <1>6, HandledType DEF LoseClaim
  <2> QED BY <1>6, <2>1 DEF LoseClaim, TypeOK, rows, bounds
<1>7. CASE submitScheduled(s)
  <2>1. at[s] # "idle" /\ TenantOf[Group(s)] \in Tenants
    BY <1>7, HeadType DEF submitScheduled
  <2>2. \E found \in SUBSET Tenants : Handled(s, found)
    BY <1>7, <2>1 DEF submitScheduled
  <2>3. ScansOK'
    BY <2>1, <2>2, HandledType
  <2>4. jobs' \subseteq AnyJob /\ IsFiniteSet(jobs')
    BY <1>7, <2>1, NewJob DEF submitScheduled, TypeOK
  <2> QED BY <1>7, <2>3, <2>4 DEF submitScheduled, TypeOK, rows, bounds
<1>8. CASE SubmitFails(s)
  <2>1. at[s] # "idle" /\ TenantOf[Group(s)] \in Tenants /\ Handled(s, {})
    BY <1>8, HeadType DEF SubmitFails
  <2>2. ScansOK'
    BY <2>1, HandledType
  <2>3. jobs' \subseteq AnyJob /\ IsFiniteSet(jobs')
    BY <1>8, <2>1, NewJob DEF SubmitFails, TypeOK
  <2> QED BY <1>8, <2>2, <2>3 DEF SubmitFails, Fault, TypeOK, rows
<1> QED BY <1>1, <1>2, <1>3, <1>4, <1>5, <1>6, <1>7, <1>8 DEF Scan

\* ... and each request for a job ...
LEMMA RequestType ==
  ASSUME TypeOK, NEW c \in Clients, NEW t \in Tenants,
         SubmitBatch(c, t) \/ CountChecks(c, t) \/ SubmitCheck(c)
  PROVE  TypeOK'
<1>1. CASE SubmitBatch(c, t)
  <2>1. jobs' \subseteq AnyJob /\ IsFiniteSet(jobs')
    BY <1>1, NewJob DEF SubmitBatch
  <2> QED BY <1>1, <2>1 DEF SubmitBatch, Asked, TypeOK, ScansOK, rows, scans
<1>2. CASE CountChecks(c, t)
  BY <1>2 DEF CountChecks, Asked, TypeOK, ScansOK, rows, scans
<1>3. CASE SubmitCheck(c)
  <2>1. ask[c] \in Tenants
    BY <1>3 DEF SubmitCheck, TypeOK
  <2>2. jobs' \subseteq AnyJob /\ IsFiniteSet(jobs')
    BY <1>3, <2>1, NewJob DEF SubmitCheck
  <2> QED BY <1>3, <2>2 DEF SubmitCheck, TypeOK, ScansOK, rows, scans, bounds
<1> QED BY <1>1, <1>2, <1>3

\* A step of a job: it is gone, or has another status or process.
Moves(j, new) == /\ new \in AnyJob
                 /\ new.by = j.by /\ new.type = j.type /\ new.tenant = j.tenant

\* What a stop, a start and an end make of a job.
LEMMA JobMoves ==
  ASSUME TypeOK, NEW j \in jobs, RequestJobStop(j) \/ Run(j)
  PROVE  jobs' = jobs \ {j} \/ \E new : Becomes(j, new) /\ Moves(j, new)
<1>1. j \in AnyJob
  BY DEF TypeOK
<1>2. CASE RequestJobStop(j)
  BY <1>1, <1>2 DEF RequestJobStop, Moves, AnyJob
<1>3. CASE StartJob(j)
  <2> DEFINE new == [j EXCEPT !.status = "running", !.started = TRUE]
  <2>1. new \in AnyJob /\ new.by = j.by /\ new.type = j.type /\ new.tenant = j.tenant
    BY <1>1 DEF AnyJob
  <2>2. Becomes(j, new)
    BY <1>3 DEF StartJob
  <2> HIDE DEF new
  <2> QED BY <2>1, <2>2 DEF Moves
<1>4. CASE GiveUp(j)
  BY <1>1, <1>4 DEF GiveUp, Moves, AnyJob
<1>5. CASE FinishJob(j)
  BY <1>1, <1>5 DEF FinishJob, Moves, AnyJob
<1> QED BY <1>2, <1>3, <1>4, <1>5 DEF Run

\* ... and each step of a job ...
LEMMA JobType ==
  ASSUME TypeOK, NEW j \in jobs, RequestJobStop(j) \/ Run(j)
  PROVE  TypeOK'
<1>1. jobs' \subseteq AnyJob
  BY JobMoves DEF TypeOK, Becomes, Moves
<1>2. IsFiniteSet(jobs')
  <2>1. IsFiniteSet(jobs \ {j})
    BY FS_RemoveElement DEF TypeOK
  <2>2. CASE \E new : Becomes(j, new)
    <3>1. PICK new : Becomes(j, new)
      BY <2>2
    <3> QED BY <2>1, <3>1, FS_AddElement DEF Becomes
  <2> QED BY <2>1, <2>2, JobMoves
<1>3. UNCHANGED <<rows, scans, ask>> /\ asks' \in Nat /\ faults' \in Nat
  BY DEF RequestJobStop, Run, StartJob, GiveUp, FinishJob, Asked, Fault, bounds, TypeOK
<1> QED BY <1>1, <1>2, <1>3 DEF TypeOK, ScansOK, rows, scans

\* A restart leaves jobs that were there, without their process.
LEMMA RestartJobs ==
  ASSUME TypeOK, NEW s \in Schedulers, Restart(s)
  PROVE  /\ jobs' \subseteq AnyJob
         /\ IsFiniteSet(jobs')
         /\ jobs' \subseteq jobs \union {[j EXCEPT !.host = None] : j \in jobs}
<1> DEFINE left    == {j \in jobs : j.host \in {s, None}}
           zombies == {[j EXCEPT !.host = None] : j \in left}
<1>1. PICK reaped \in SUBSET zombies : jobs' = (jobs \ left) \union (zombies \ reaped)
  BY DEF Restart
<1>2. \A j \in jobs : [j EXCEPT !.host = None] \in AnyJob
  BY DEF TypeOK, AnyJob
<1>3. zombies \subseteq AnyJob
  BY <1>2
<1>4. IsFiniteSet(zombies)
  <2> DEFINE f == [j \in left |-> [j EXCEPT !.host = None]]
  <2>1. IsFiniteSet(left)
    BY FS_Subset DEF TypeOK
  <2>2. f \in Surjection(left, zombies)
    BY DEF Surjection
  <2> HIDE DEF left, zombies, f
  <2> QED BY <2>1, <2>2, FS_Surjection
<1>5. IsFiniteSet(jobs \ left) /\ IsFiniteSet(zombies \ reaped)
  BY <1>4, FS_Subset DEF TypeOK
<1>6. IsFiniteSet(jobs')
  BY <1>1, <1>5, FS_Union
<1> QED BY <1>1, <1>3, <1>6 DEF TypeOK

\* ... and a restart ...
LEMMA RestartType ==
  ASSUME TypeOK, NEW s \in Schedulers, Restart(s)
  PROVE  TypeOK'
<1>1. jobs' \subseteq AnyJob /\ IsFiniteSet(jobs')
  BY RestartJobs
<1>2. ScansOK'
  <2>1. <<>> \in Seq(Entry) /\ 0 \in 0..Slack
    BY Bounds
  <2> QED BY <2>1 DEF Restart, TypeOK, ScansOK
<1>3. UNCHANGED <<interval, due, enabled, quiet, ask, asks>> /\ faults' \in Nat
  BY DEF Restart, Fault, rows, TypeOK
<1> QED BY <1>1, <1>2, <1>3 DEF TypeOK

\* A day passes: a due time comes closer, down to where only the order counts.
LEMMA FloorType ==
  ASSUME TypeOK, NEW g \in Groups, due[g] # None
  PROVE  /\ Floor(g) \in Int
         /\ due[g] > 0 => Floor(g) = due[g] - 1
         /\ due[g] <= 0 => Floor(g) <= 0
<1>1. due[g] \in Int
  BY DEF TypeOK
<1>2. Later(g) \in Nat
  <2> DEFINE S == {h \in Groups : due[h] # None /\ due[h] > due[g]}
  <2>1. IsFiniteSet(S)
    BY ScheduleConstants, FS_Subset
  <2>2. Cardinality(S) \in Nat
    BY <2>1, FS_CardinalityType
  <2> QED BY <2>2 DEF Later
<1> QED BY <1>1, <1>2, Bounds DEF Floor

\* ... and a unit of time ...
LEMMA ElapseType ==
  ASSUME TypeOK, Elapse
  PROVE  TypeOK'
<1>1. due' \in [Groups -> Int \union {None}]
  BY FloorType DEF Elapse, TypeOK
<1>2. age' \in [Schedulers -> 0..Slack]
  <2> SUFFICES ASSUME NEW s \in Schedulers
               PROVE  (IF at[s] = "idle" THEN 0 ELSE age[s] + 1) \in 0..Slack
    BY DEF Elapse
  <2>1. age[s] \in 0..Slack /\ Slack \in Nat
    BY Bounds DEF TypeOK, ScansOK
  <2> QED BY <2>1 DEF Elapse
<1>3. quiet' \in [Groups -> Nat]
  BY DEF Elapse, TypeOK
<1>4. ScansOK'
  BY <1>2 DEF Elapse, TypeOK, ScansOK
<1> QED BY <1>1, <1>3, <1>4 DEF Elapse, TypeOK, bounds

\* ... and a change of a schedule or of a user.
LEMMA UserType ==
  ASSUME TypeOK, \/ \E g \in Groups, i \in Intervals \union {0} : UpdateMailGroupSchedule(g, i)
                 \/ \E t \in Tenants : UpdateUserStatus(t)
  PROVE  TypeOK'
<1>1. CASE \E g \in Groups, i \in Intervals \union {0} : UpdateMailGroupSchedule(g, i)
  <2>1. PICK g \in Groups, i \in Intervals \union {0} : UpdateMailGroupSchedule(g, i)
    BY <1>1
  <2>2. i \in Int
    BY Bounds
  <2> QED BY <2>1, <2>2 DEF UpdateMailGroupSchedule, Asked, TypeOK, ScansOK, scans
<1>2. CASE \E t \in Tenants : UpdateUserStatus(t)
  BY <1>2 DEF UpdateUserStatus, Asked, TypeOK, ScansOK, scans
<1> QED BY <1>1, <1>2

\* The schedules of the start have a due time within their interval.
LEMMA InitType == Init => TypeOK
<1> SUFFICES ASSUME Init PROVE TypeOK
  OBVIOUS
<1>1. due \in [Groups -> Int \union {None}]
  BY DEF Init
<1>2. interval \in [Groups -> Intervals \union {0}]
  BY DEF Init
<1>3. quiet \in [Groups -> Nat]
  <2> SUFFICES ASSUME NEW g \in Groups
               PROVE  (IF interval[g] = 0 \/ interval[g] - due[g] > MaxQuiet
                       THEN 0 ELSE interval[g] - due[g]) \in Nat
    BY DEF Init
  <2>1. CASE interval[g] = 0
    BY <2>1
  <2>2. CASE interval[g] # 0
    <3>1. interval[g] \in Nat /\ due[g] \in 1..interval[g]
      BY <2>2, <1>2, Bounds DEF Init
    <3> QED BY <3>1
  <2> QED BY <2>1, <2>2
<1>4. ScansOK
  BY Bounds DEF Init, ScansOK
<1>5. IsFiniteSet({})
  BY FS_EmptySet
<1> QED BY <1>1, <1>2, <1>3, <1>4, <1>5 DEF Init, TypeOK

\* A step that changes nothing keeps the types.
LEMMA StutterType ==
  ASSUME TypeOK, UNCHANGED vars PROVE TypeOK'
BY DEF TypeOK, ScansOK, vars, rows, scans, bounds

\* Every variable of the schedule, the scans and the jobs keeps its type.
THEOREM TypeCorrect == Spec => []TypeOK
<1>1. ASSUME TypeOK, [Next]_vars PROVE TypeOK'
  <2>1. CASE \E s \in Schedulers : Scan(s) \/ Restart(s)
    BY <1>1, <2>1, ScanType, RestartType
  <2>2. CASE \/ \E c \in Clients, t \in Tenants : SubmitBatch(c, t) \/ CountChecks(c, t)
             \/ \E c \in Clients : SubmitCheck(c)
    <3>1. \A c \in Clients : SubmitCheck(c) => ask[c] \in Tenants
      BY <1>1 DEF SubmitCheck, TypeOK
    <3> QED BY <1>1, <2>2, <3>1, RequestType
  <2>3. CASE \/ \E g \in Groups, i \in Intervals \union {0} : UpdateMailGroupSchedule(g, i)
             \/ \E t \in Tenants : UpdateUserStatus(t)
    BY <1>1, <2>3, UserType
  <2>4. CASE \E j \in jobs : RequestJobStop(j) \/ Run(j)
    BY <1>1, <2>4, JobType
  <2>5. CASE Elapse
    BY <1>1, <2>5, ElapseType
  <2>6. CASE UNCHANGED vars
    BY <1>1, <2>6, StutterType
  <2> QED BY <1>1, <2>1, <2>2, <2>3, <2>4, <2>5, <2>6 DEF Next
<1> QED BY <1>1, InitType, PTL DEF Spec

-----------------------------------------------------------------------------
(* Stacking.                                                               *)

PastCount(s) == at[s] \in {"claim", "submit"}

\* What was counted still holds, as far as the one who counted is concerned.
Free(s)        == PastCount(s) =>
                    \A j \in jobs : ~(j.by = s /\ j.type = "refresh" /\ j.tenant = TenantOf[Group(s)])
FreeToCheck(c) == ask[c] # None =>
                    \A j \in jobs : ~(j.by = c /\ j.type = "check" /\ j.tenant = ask[c])

StackInv == /\ NoStacking
            /\ \A s \in Schedulers : Free(s)
            /\ \A c \in Clients : FreeToCheck(c)

\* No scan gets past its count, and none that is past it turns to another group.
ScansHold == \A s \in Schedulers : PastCount(s)' => PastCount(s) /\ UNCHANGED list[s]

\* A count of zero finds no job.
LEMMA NothingCounted ==
  ASSUME TypeOK, NEW t, NEW type, CountActiveJobsByType(t, type) = 0
  PROVE  \A j \in jobs : ~(j.tenant = t /\ j.type = type)
<1> DEFINE S == {j \in jobs : j.tenant = t /\ j.type = type}
<1>1. IsFiniteSet(S)
  BY FS_Subset DEF TypeOK
<1>2. Cardinality(S) = 0
  BY DEF CountActiveJobsByType
<1>3. S = {}
  <2> HIDE DEF S
  <2> QED BY <1>1, <1>2, FS_EmptySet
<1> QED BY <1>3

\* A step that submits nothing: each job was there before, as far as these
\* properties tell jobs apart, and no two of them were one.
Traced(f) == /\ f \in [jobs' -> jobs]
             /\ \A j \in jobs' : j.by = f[j].by /\ j.type = f[j].type /\ j.tenant = f[j].tenant
             /\ \A j, k \in jobs' : f[j] = f[k] => j = k

\* Such a step keeps what the counts are worth.
LEMMA NothingSubmitted ==
  ASSUME StackInv, UNCHANGED ask, ScansHold, NEW f, Traced(f)
  PROVE  StackInv'
<1> USE DEF Traced
<1>1. NoStacking'
  <2> SUFFICES ASSUME NEW j \in jobs', NEW k \in jobs', j # k, Counted(j), Counted(k),
                      j.type = k.type, j.tenant = k.tenant
               PROVE  j.by # k.by
    BY DEF NoStacking, Counted
  <2>1. f[j] \in jobs /\ f[k] \in jobs /\ f[j] # f[k]
    OBVIOUS
  <2> QED BY <2>1 DEF StackInv, NoStacking, Counted
<1>2. \A s \in Schedulers : Free(s)'
  <2> SUFFICES ASSUME NEW s \in Schedulers, PastCount(s)', NEW j \in jobs'
               PROVE  ~(j.by = s /\ j.type = "refresh" /\ j.tenant = TenantOf[Group(s)'])
    BY DEF Free
  <2>1. f[j] \in jobs /\ PastCount(s) /\ Group(s)' = Group(s)
    BY DEF ScansHold, Group
  <2> QED BY <2>1 DEF StackInv, Free
<1>3. \A c \in Clients : FreeToCheck(c)'
  <2> SUFFICES ASSUME NEW c \in Clients, NEW j \in jobs', ask[c] # None, j.by = c, j.type = "check"
               PROVE  j.tenant # ask[c]
    BY DEF FreeToCheck
  <2>1. f[j] \in jobs
    OBVIOUS
  <2> QED BY <2>1 DEF StackInv, FreeToCheck
<1> QED BY <1>1, <1>2, <1>3 DEF StackInv

\* So does one that leaves the jobs alone.
LEMMA NoJobTouched ==
  ASSUME StackInv, UNCHANGED <<jobs, ask>>, ScansHold
  PROVE  StackInv'
<1> DEFINE f == [j \in jobs |-> j]
<1>1. Traced(f)
  BY DEF Traced
<1> HIDE DEF f
<1> QED BY <1>1, NothingSubmitted

\* A job is submitted by one who counted for it, or by a client who need not.
LEMMA JobSubmitted ==
  ASSUME StackInv, UNCHANGED ask, ScansHold, NEW new, jobs' = jobs \union {new},
         Counted(new) => \A j \in jobs : j.type = new.type /\ j.tenant = new.tenant
                                          => j.by # new.by,
         \A s \in Schedulers : new.by = s /\ new.type = "refresh" => ~PastCount(s)',
         \A c \in Clients : new.by = c /\ new.type = "check" => FALSE
  PROVE  StackInv'
<1>1. NoStacking'
  BY DEF StackInv, NoStacking, Counted
<1>2. \A s \in Schedulers : Free(s)'
  <2> SUFFICES ASSUME NEW s \in Schedulers, PastCount(s)', NEW j \in jobs'
               PROVE  ~(j.by = s /\ j.type = "refresh" /\ j.tenant = TenantOf[Group(s)'])
    BY DEF Free
  <2>1. PastCount(s) /\ Group(s)' = Group(s)
    BY DEF ScansHold, Group
  <2> QED BY <2>1 DEF StackInv, Free
<1>3. \A c \in Clients : FreeToCheck(c)'
  BY DEF StackInv, FreeToCheck
<1> QED BY <1>1, <1>2, <1>3 DEF StackInv

\* The end of a group ends what its count was good for.
LEMMA HandledEnds ==
  ASSUME TypeOK, NEW s \in Schedulers, NEW found, Handled(s, found)
  PROVE  ScansHold /\ ~PastCount(s)'
BY DEF TypeOK, ScansOK, Handled, PastCount, ScansHold

\* A scan submits only for a tenant it has counted, and its count is still worth it.
LEMMA ScanStacks ==
  ASSUME TypeOK, StackInv, NEW s \in Schedulers, Scan(s)
  PROVE  StackInv'
<1>1. CASE Tick(s)
  <2>1. UNCHANGED <<jobs, ask>>
    BY <1>1 DEF Tick
  <2>2. ScansHold
    BY <1>1 DEF Tick, TypeOK, ScansOK, PastCount, ScansHold
  <2> QED BY <2>1, <2>2, NoJobTouched
<1>2. CASE PassCount(s)
  <2>1. UNCHANGED <<jobs, ask, list>>
    BY <1>2 DEF PassCount
  <2>2. \A j \in jobs : ~(j.type = "refresh" /\ j.tenant = TenantOf[Group(s)])
    BY <1>2, NothingCounted DEF PassCount
  <2>3. \A r \in Schedulers : r # s => at'[r] = at[r]
    BY <1>2 DEF PassCount, TypeOK, ScansOK
  <2>4. \A r \in Schedulers : Free(r)'
    BY <2>1, <2>2, <2>3 DEF StackInv, Free, PastCount, Group
  <2> QED BY <2>1, <2>4 DEF StackInv, NoStacking, Counted, FreeToCheck
<1>3. CASE ClaimGroupRefresh(s)
  <2>1. UNCHANGED <<jobs, ask, list>>
    BY <1>3 DEF ClaimGroupRefresh
  <2>2. ScansHold
    BY <1>3 DEF ClaimGroupRefresh, TypeOK, ScansOK, PastCount, ScansHold
  <2> QED BY <2>1, <2>2, NoJobTouched
<1>4. CASE SkipBusy(s) \/ StatementFails(s) \/ LoseClaim(s)
  <2>1. UNCHANGED <<jobs, ask>> /\ \E found : Handled(s, found)
    BY <1>4 DEF SkipBusy, StatementFails, LoseClaim
  <2> QED BY <2>1, HandledEnds, NoJobTouched
<1>5. CASE submitScheduled(s) \/ SubmitFails(s)
  <2>1. UNCHANGED ask /\ at[s] = "submit" /\ \E found : Handled(s, found)
    BY <1>5 DEF submitScheduled, SubmitFails
  <2>2. ScansHold /\ ~PastCount(s)'
    BY <2>1, HandledEnds
  <2>3. CASE jobs' = jobs
    BY <2>1, <2>2, <2>3, NoJobTouched
  <2>4. CASE \E h : jobs' = jobs \union {Job(s, h, "refresh", TenantOf[Group(s)])}
    <3>1. PICK h : jobs' = jobs \union {Job(s, h, "refresh", TenantOf[Group(s)])}
      BY <2>4
    <3> DEFINE new == Job(s, h, "refresh", TenantOf[Group(s)])
    <3>2. new.by = s /\ new.type = "refresh" /\ new.tenant = TenantOf[Group(s)]
      BY DEF Job
    <3>3. jobs' = jobs \union {new}
      BY <3>1
    <3> HIDE DEF new
    <3>4. \A j \in jobs : j.type = new.type /\ j.tenant = new.tenant => j.by # new.by
      BY <2>1, <3>2 DEF StackInv, Free, PastCount
    <3>5. \A c \in Clients : new.by = c /\ new.type = "check" => FALSE
      BY <3>2
    <3>6. \A r \in Schedulers : new.by = r /\ new.type = "refresh" => ~PastCount(r)'
      BY <3>2, <2>2
    <3> QED BY <2>1, <2>2, <3>3, <3>4, <3>5, <3>6, JobSubmitted
  <2> QED BY <1>5, <2>3, <2>4 DEF submitScheduled, SubmitFails
<1> QED BY <1>1, <1>2, <1>3, <1>4, <1>5 DEF Scan

\* A check is submitted by the request that counted; a refresh by hand does not count.
LEMMA RequestStacks ==
  ASSUME TypeOK, StackInv, NEW c \in Clients, NEW t \in Tenants,
         SubmitBatch(c, t) \/ CountChecks(c, t) \/ SubmitCheck(c)
  PROVE  StackInv'
<1>1. UNCHANGED <<at, list>>
  BY DEF SubmitBatch, CountChecks, SubmitCheck, scans
<1>2. ScansHold
  BY <1>1 DEF ScansHold, PastCount
<1>3. c \notin Schedulers
  BY ScheduleConstants
<1>4. CASE SubmitBatch(c, t)
  <2>1. PICK s \in Schedulers : jobs' = jobs \union {Job(c, s, "refresh", t)}
    BY <1>4 DEF SubmitBatch
  <2>2. UNCHANGED ask
    BY <1>4 DEF SubmitBatch
  <2> DEFINE new == Job(c, s, "refresh", t)
  <2>3. new.by = c /\ new.type = "refresh" /\ jobs' = jobs \union {new}
    BY <2>1 DEF Job
  <2> HIDE DEF new
  <2>4. /\ ~Counted(new)
        /\ \A r \in Schedulers : new.by # r
        /\ \A d \in Clients : new.by = d /\ new.type = "check" => FALSE
    BY <2>3, <1>3 DEF Counted
  <2> QED BY <1>2, <2>2, <2>3, <2>4, JobSubmitted
<1>5. CASE CountChecks(c, t)
  <2>1. UNCHANGED jobs /\ ask' = [ask EXCEPT ![c] = t]
    BY <1>5 DEF CountChecks
  <2>2. \A j \in jobs : ~(j.type = "check" /\ j.tenant = t)
    BY <1>5, NothingCounted DEF CountChecks
  <2>3. \A d \in Clients : FreeToCheck(d)'
    BY <2>1, <2>2 DEF StackInv, FreeToCheck, TypeOK
  <2>4. \A r \in Schedulers : Free(r)'
    BY <1>1, <2>1 DEF StackInv, Free, PastCount, Group
  <2> QED BY <2>1, <2>3, <2>4 DEF StackInv, NoStacking, Counted
<1>6. CASE SubmitCheck(c)
  <2>1. PICK s \in Schedulers : jobs' = jobs \union {Job(c, s, "check", ask[c])}
    BY <1>6 DEF SubmitCheck
  <2> DEFINE new == Job(c, s, "check", ask[c])
  <2>2. /\ new.by = c /\ new.type = "check" /\ new.tenant = ask[c]
        /\ jobs' = jobs \union {new}
    BY <2>1 DEF Job
  <2> HIDE DEF new
  <2>3. ask[c] # None /\ ask' = [ask EXCEPT ![c] = None]
    BY <1>6 DEF SubmitCheck
  <2>4. \A j \in jobs : j.type = new.type /\ j.tenant = new.tenant => j.by # new.by
    BY <2>2, <2>3 DEF StackInv, FreeToCheck
  <2>5. NoStacking'
    BY <2>2, <2>4 DEF StackInv, NoStacking, Counted
  <2>6. \A r \in Schedulers : Free(r)'
    BY <1>1, <2>2 DEF StackInv, Free, PastCount, Group
  <2>7. \A d \in Clients : FreeToCheck(d)'
    BY <2>2, <2>3 DEF StackInv, FreeToCheck, TypeOK
  <2> QED BY <2>5, <2>6, <2>7 DEF StackInv
<1> QED BY <1>4, <1>5, <1>6

\* A stop, a start and an end submit nothing.
LEMMA JobStacks ==
  ASSUME TypeOK, StackInv, NEW j \in jobs, RequestJobStop(j) \/ Run(j)
  PROVE  StackInv'
<1>1. UNCHANGED <<at, list, ask>>
  BY DEF RequestJobStop, Run, StartJob, GiveUp, FinishJob, scans
<1>2. ScansHold
  BY <1>1 DEF ScansHold, PastCount
<1>3. CASE jobs' = jobs \ {j}
  <2> DEFINE f == [k \in jobs' |-> k]
  <2>1. Traced(f)
    BY <1>3 DEF Traced
  <2> HIDE DEF f
  <2> QED BY <1>1, <1>2, <2>1, NothingSubmitted
<1>4. CASE \E new : Becomes(j, new) /\ Moves(j, new)
  <2>1. PICK new : Becomes(j, new) /\ Moves(j, new)
    BY <1>4
  <2>2. jobs' = (jobs \ {j}) \union {new}
    BY <2>1 DEF Becomes
  <2> DEFINE f == [k \in jobs' |-> IF k \in jobs \ {j} THEN k ELSE j]
  <2>3. Traced(f)
    BY <2>1, <2>2 DEF Traced, Moves
  <2> HIDE DEF f
  <2> QED BY <1>1, <1>2, <2>3, NothingSubmitted
<1> QED BY <1>3, <1>4, JobMoves

\* Of what is left after a restart, each job is the heir of one.
LEMMA RestartStacks ==
  ASSUME TypeOK, StackInv, NEW s \in Schedulers, Restart(s)
  PROVE  StackInv'
<1>1. UNCHANGED ask
  BY DEF Restart
<1>2. ScansHold
  BY DEF Restart, TypeOK, ScansOK, ScansHold, PastCount
<1> DEFINE left    == {j \in jobs : j.host \in {s, None}}
           Orphan(j) == [j EXCEPT !.host = None]
           f       == [k \in jobs' |-> IF k \in jobs \ left THEN k
                                      ELSE CHOOSE j \in left : Orphan(j) = k]
<1>3. jobs' \subseteq (jobs \ left) \union {Orphan(j) : j \in left}
  BY DEF Restart
<1>4. \A j \in jobs : Orphan(j).by = j.by /\ Orphan(j).type = j.type /\ Orphan(j).tenant = j.tenant
  BY DEF TypeOK, AnyJob
<1>5. \A k \in jobs' : k \notin jobs \ left => f[k] \in left /\ Orphan(f[k]) = k
  BY <1>3
<1>6. \A k \in jobs' : k \in jobs \ left => f[k] = k
  OBVIOUS
<1>7. f \in [jobs' -> jobs]
  <2>1. \A k \in jobs' : f[k] \in jobs
    BY <1>5, <1>6
  <2> QED BY <2>1
<1>8. \A k, l \in jobs' : f[k] = f[l] => k = l
  <2> HIDE DEF f, Orphan
  <2> QED BY <1>5, <1>6
<1>9. Traced(f)
  <2> HIDE DEF f, Orphan
  <2> QED BY <1>4, <1>5, <1>6, <1>7, <1>8 DEF Traced
<1> HIDE DEF f
<1> QED BY <1>1, <1>2, <1>9, NothingSubmitted

\* Two jobs that were counted for, of one type and tenant, never come from the
\* same process or request, whatever stops, faults and restarts come in between
\* (refresh_scheduler.go: tickGroup; account_health.go: SubmitBatch).
THEOREM NothingStacks == Spec => []NoStacking
<1>1. Init => StackInv
  BY DEF Init, StackInv, NoStacking, Free, FreeToCheck, PastCount
<1>2. ASSUME TypeOK, StackInv, [Next]_vars PROVE StackInv'
  <2>1. CASE \E s \in Schedulers : Scan(s) \/ Restart(s)
    BY <1>2, <2>1, ScanStacks, RestartStacks
  <2>2. CASE \/ \E c \in Clients, t \in Tenants : SubmitBatch(c, t) \/ CountChecks(c, t)
             \/ \E c \in Clients : SubmitCheck(c)
    <3>1. \A c \in Clients : SubmitCheck(c) => ask[c] \in Tenants
      BY <1>2 DEF SubmitCheck, TypeOK
    <3> QED BY <1>2, <2>2, <3>1, RequestStacks
  <2>3. CASE \E j \in jobs : RequestJobStop(j) \/ Run(j)
    BY <1>2, <2>3, JobStacks
  <2>4. CASE \/ \E g \in Groups, i \in Intervals \union {0} : UpdateMailGroupSchedule(g, i)
             \/ \E t \in Tenants : UpdateUserStatus(t)
             \/ Elapse
             \/ UNCHANGED vars
    <3>1. UNCHANGED <<jobs, ask, at, list>>
      BY <2>4 DEF UpdateMailGroupSchedule, UpdateUserStatus, Elapse, vars, scans
    <3>2. ScansHold
      BY <3>1 DEF ScansHold, PastCount
    <3> QED BY <1>2, <3>1, <3>2, NoJobTouched
  <2> QED BY <1>2, <2>1, <2>2, <2>3, <2>4 DEF Next
<1>3. StackInv => NoStacking
  BY DEF StackInv
<1> QED BY <1>1, <1>2, <1>3, TypeCorrect, PTL DEF Spec

-----------------------------------------------------------------------------
(* Spacing.                                                                *)

Positive(n) == IF n > 0 THEN n ELSE 0

\* What is left to wait and what has passed since the last time add up.
AddsUp(g) == interval[g] > 0 =>
               /\ due[g] # None
               /\ quiet[g] + Positive(due[g]) >= interval[g] - Slack

\* A scan with an interval that the user has changed meanwhile is of no group
\* that is due.
UpToDate(s) == \A i \in DOMAIN list[s] :
                 LET e == list[s][i] IN
                 \/ e.interval = interval[e.group]
                 \/ interval[e.group] = 0
                 \/ due[e.group] # None /\ due[e.group] + age[s] >= interval[e.group]

SpaceInv == (\A g \in Groups : AddsUp(g)) /\ (\A s \in Schedulers : UpToDate(s))

\* The history counts far enough.
LongMemory == \A i \in Intervals : i <= MaxQuiet

\* A group that is claimed has the interval that was read, and has waited for it.
LEMMA ClaimIsFresh ==
  ASSUME TypeOK, SpaceInv, NEW s \in Schedulers, ClaimGroupRefresh(s)
  PROVE  /\ Group(s) \in Groups
         /\ interval[Group(s)] \in Intervals
         /\ Head(list[s]).interval = interval[Group(s)]
         /\ due[Group(s)] \in Int /\ due[Group(s)] <= 0
         /\ age[s] \in 0..Slack
         /\ quiet[Group(s)] >= interval[Group(s)] - Slack
<1> DEFINE g == Group(s)
<1>1. at[s] # "idle" /\ IsDue(g, -age[s])
  BY DEF ClaimGroupRefresh
<1>2. /\ list[s] \in Seq(Entry) /\ list[s] # <<>>
      /\ Head(list[s]) \in Entry
      /\ g \in Groups
  BY <1>1, HeadType
<1>3. age[s] \in 0..Slack
  BY DEF TypeOK, ScansOK
<1>4. /\ interval[g] \in Intervals
      /\ due[g] \in Int /\ due[g] <= -age[s]
      /\ quiet[g] \in Nat
  BY <1>1, <1>2 DEF IsDue, TypeOK
<1>5. 1 \in DOMAIN list[s] /\ list[s][1] = Head(list[s])
  BY <1>2
<1>6. \/ Head(list[s]).interval = interval[g]
      \/ interval[g] = 0
      \/ due[g] + age[s] >= interval[g]
  BY <1>5 DEF SpaceInv, UpToDate, Group
<1>7. interval[g] \in Nat /\ interval[g] > 0 /\ Slack \in Nat /\ age[s] \in Nat /\ due[g] <= 0
  BY <1>3, <1>4, SetBack
<1>8. Head(list[s]).interval = interval[g]
  BY <1>4, <1>6, <1>7
<1>9. quiet[g] >= interval[g] - Slack
  BY <1>2, <1>4, <1>7 DEF SpaceInv, AddsUp, Positive
<1> QED BY <1>2, <1>3, <1>4, <1>7, <1>8, <1>9

\* Steps of a scan that change neither groups nor ages keep what it holds, or
\* drop its head, or all of it.
LEMMA RowsKept ==
  ASSUME TypeOK, SpaceInv, UNCHANGED rows,
         \A s \in Schedulers : \/ list'[s] = <<>>
                               \/ /\ UNCHANGED age[s]
                                  /\ list'[s] = list[s] \/ (list[s] # <<>> /\ list'[s] = Tail(list[s]))
  PROVE  SpaceInv'
<1>1. \A g \in Groups : AddsUp(g)'
  BY DEF SpaceInv, AddsUp, rows
<1>2. ASSUME NEW s \in Schedulers PROVE UpToDate(s)'
  <2>1. list[s] \in Seq(Entry)
    BY DEF TypeOK, ScansOK
  <2>2. UpToDate(s)
    BY DEF SpaceInv
  <2>3. CASE list'[s] = <<>>
    BY <2>3 DEF UpToDate
  <2>4. CASE UNCHANGED age[s] /\ list'[s] = list[s]
    BY <2>2, <2>4 DEF UpToDate, rows
  <2>5. CASE UNCHANGED age[s] /\ list[s] # <<>> /\ list'[s] = Tail(list[s])
    <3>1. \A i \in DOMAIN list'[s] : i + 1 \in DOMAIN list[s] /\ list'[s][i] = list[s][i + 1]
      BY <2>1, <2>5
    <3> QED BY <2>2, <2>5, <3>1 DEF UpToDate, rows
  <2> QED BY <2>3, <2>4, <2>5
<1> QED BY <1>1, <1>2 DEF SpaceInv

\* The end of a group drops the head of its scan.
LEMMA HandledKeeps ==
  ASSUME TypeOK, NEW s \in Schedulers, at[s] # "idle", NEW found, Handled(s, found)
  PROVE  \A r \in Schedulers :
           \/ list'[r] = <<>>
           \/ /\ UNCHANGED age[r]
              /\ list'[r] = list[r] \/ (list[r] # <<>> /\ list'[r] = Tail(list[r]))
<1>1. list[s] # <<>>
  BY HeadType
<1> QED BY <1>1 DEF TypeOK, ScansOK, Handled

\* A claim starts the next interval, less the age of the scan.
LEMMA ClaimSpaces ==
  ASSUME TypeOK, SpaceInv, NEW s \in Schedulers, ClaimGroupRefresh(s)
  PROVE  SpaceInv'
<1>0. PICK g \in Groups : g = Group(s)
  BY ClaimIsFresh
<1>1. /\ interval[g] \in Intervals /\ Head(list[s]).interval = interval[g]
      /\ due[g] \in Int /\ due[g] <= 0
      /\ age[s] \in 0..Slack
  BY <1>0, ClaimIsFresh
<1>2. /\ due' = [due EXCEPT ![g] = interval[g] - age[s]]
      /\ quiet' = [quiet EXCEPT ![g] = 0]
      /\ UNCHANGED <<interval, list, age>>
  BY <1>0, <1>1 DEF ClaimGroupRefresh
<1>3. /\ interval[g] \in Nat /\ age[s] \in Nat /\ Slack \in Nat
      /\ age[s] <= Slack /\ Slack < interval[g]
      /\ interval[g] - age[s] \in Int
  BY <1>1, SetBack
<1>4. due'[g] = interval[g] - age[s] /\ quiet'[g] = 0 /\ due'[g] # None
  BY <1>1, <1>2, <1>3, ScheduleConstants DEF TypeOK
<1>5. \A h \in Groups : h # g => due'[h] = due[h] /\ quiet'[h] = quiet[h]
  BY <1>2 DEF TypeOK
<1>6. AddsUp(g)'
  BY <1>2, <1>3, <1>4 DEF AddsUp, Positive
<1>7. \A h \in Groups : AddsUp(h)'
  BY <1>2, <1>5, <1>6 DEF SpaceInv, AddsUp, Positive
<1>8. ASSUME NEW r \in Schedulers, NEW i \in DOMAIN list[r]
      PROVE  LET e == list[r][i] IN
             \/ e.interval = interval[e.group]
             \/ interval[e.group] = 0
             \/ due'[e.group] # None /\ due'[e.group] + age[r] >= interval[e.group]
  <2> DEFINE e == list[r][i]
  <2>2. e.group \in Groups
    BY <1>8, EntryType
  <2>3. \/ e.interval = interval[e.group]
        \/ interval[e.group] = 0
        \/ due[e.group] # None /\ due[e.group] + age[r] >= interval[e.group]
    BY <1>8 DEF SpaceInv, UpToDate
  <2> HIDE DEF e
  <2>4. CASE e.group # g
    BY <2>2, <2>3, <2>4, <1>5 DEF e
  <2>5. CASE e.group = g
    <3>1. age[r] \in 0..Slack
      BY DEF TypeOK, ScansOK
    <3>2. age[r] \in Nat /\ age[r] <= Slack
      BY <1>1, <3>1, SetBack
    <3>3. ~(due[g] + age[r] >= interval[g])
      BY <1>1, <1>3, <3>2
    <3> QED BY <2>3, <2>5, <3>3 DEF e
  <2> QED BY <2>4, <2>5
<1>9. \A r \in Schedulers : UpToDate(r)'
  BY <1>2, <1>8 DEF UpToDate
<1> QED BY <1>7, <1>9 DEF SpaceInv

\* The steps of a scan and a restart keep the sums.
LEMMA ScanSpaces ==
  ASSUME TypeOK, SpaceInv, NEW s \in Schedulers, Scan(s) \/ Restart(s)
  PROVE  SpaceInv'
<1>1. CASE Tick(s)
  <2>1. PICK l \in Seq(Entry) :
          /\ list' = [list EXCEPT ![s] = l]
          /\ \A i \in DOMAIN l : l[i].interval = interval[l[i].group]
    BY <1>1, TickType
  <2>2. UNCHANGED <<rows, age>>
    BY <1>1 DEF Tick
  <2>3. \A g \in Groups : AddsUp(g)'
    BY <2>2 DEF SpaceInv, AddsUp, rows
  <2>4. list'[s] = l /\ \A r \in Schedulers : r # s => list'[r] = list[r]
    BY <2>1 DEF TypeOK, ScansOK
  <2>5. \A r \in Schedulers : UpToDate(r)'
    BY <2>1, <2>2, <2>4 DEF SpaceInv, UpToDate, rows
  <2> QED BY <2>3, <2>5 DEF SpaceInv
<1>2. CASE PassCount(s)
  BY <1>2, RowsKept DEF PassCount
<1>3. CASE SkipBusy(s) \/ StatementFails(s) \/ LoseClaim(s) \/ submitScheduled(s) \/ SubmitFails(s)
  <2>1. UNCHANGED rows /\ at[s] # "idle" /\ \E found : Handled(s, found)
    BY <1>3 DEF SkipBusy, StatementFails, LoseClaim, submitScheduled, SubmitFails
  <2> QED BY <2>1, HandledKeeps, RowsKept
<1>4. CASE ClaimGroupRefresh(s)
  BY <1>4, ClaimSpaces
<1>5. CASE Restart(s)
  <2>1. /\ UNCHANGED rows
        /\ list' = [list EXCEPT ![s] = <<>>]
        /\ age' = [age EXCEPT ![s] = 0]
    BY <1>5 DEF Restart
  <2>2. \A r \in Schedulers : list'[r] = <<>> \/ (UNCHANGED age[r] /\ list'[r] = list[r])
    BY <2>1 DEF TypeOK, ScansOK
  <2> QED BY <2>1, <2>2, RowsKept
<1> QED BY <1>1, <1>2, <1>3, <1>4, <1>5 DEF Scan

\* A saved schedule starts from now, and outdates what scans hold.
LEMMA UpdateSpaces ==
  ASSUME TypeOK, SpaceInv, NEW g \in Groups, NEW i \in Intervals \union {0},
         UpdateMailGroupSchedule(g, i)
  PROVE  SpaceInv'
<1>1. /\ interval' = [interval EXCEPT ![g] = i]
      /\ due' = [due EXCEPT ![g] = IF i = 0 THEN None ELSE i]
      /\ quiet' = [quiet EXCEPT ![g] = 0]
      /\ UNCHANGED <<list, age>>
  BY DEF UpdateMailGroupSchedule, scans
<1>2. interval'[g] = i /\ due'[g] = (IF i = 0 THEN None ELSE i) /\ quiet'[g] = 0
  BY <1>1 DEF TypeOK
<1>3. \A h \in Groups : h # g => UNCHANGED <<interval[h], due[h], quiet[h]>>
  BY <1>1 DEF TypeOK
<1>4. i # 0 => i \in Nat /\ i > 0 /\ i # None /\ Slack \in Nat
  BY Bounds, ScheduleConstants
<1>5. AddsUp(g)'
  BY <1>2, <1>4 DEF AddsUp, Positive
<1>6. \A h \in Groups : AddsUp(h)'
  BY <1>3, <1>5 DEF SpaceInv, AddsUp, Positive
<1>7. ASSUME NEW s \in Schedulers, NEW k \in DOMAIN list[s]
      PROVE  LET e == list[s][k] IN
             \/ e.interval = interval'[e.group]
             \/ interval'[e.group] = 0
             \/ due'[e.group] # None /\ due'[e.group] + age[s] >= interval'[e.group]
  <2> DEFINE e == list[s][k]
  <2>1. age[s] \in 0..Slack
    BY DEF TypeOK, ScansOK
  <2>2. e.group \in Groups
    BY <1>7, EntryType
  <2>3. \/ e.interval = interval[e.group]
        \/ interval[e.group] = 0
        \/ due[e.group] # None /\ due[e.group] + age[s] >= interval[e.group]
    BY <1>7 DEF SpaceInv, UpToDate
  <2> HIDE DEF e
  <2>4. CASE e.group # g
    BY <2>2, <2>3, <2>4, <1>3 DEF e
  <2>5. CASE e.group = g
    <3>1. i # 0 => age[s] \in Nat
      BY <2>1, SetBack
    <3> QED BY <2>5, <3>1, <1>2, <1>4 DEF e
  <2> QED BY <2>4, <2>5
<1>8. \A s \in Schedulers : UpToDate(s)'
  BY <1>1, <1>7 DEF UpToDate
<1> QED BY <1>6, <1>8 DEF SpaceInv

\* Time moves from what is left to what has passed.
LEMMA ElapseSpaces ==
  ASSUME TypeOK, SpaceInv, LongMemory, Elapse
  PROVE  SpaceInv'
<1>1. UNCHANGED <<interval, list>>
  BY DEF Elapse
<1>2. ASSUME NEW g \in Groups PROVE AddsUp(g)'
  <2> SUFFICES ASSUME interval[g] > 0
               PROVE  due'[g] # None /\ quiet'[g] + Positive(due'[g]) >= interval[g] - Slack
    BY <1>1 DEF AddsUp
  <2>0. interval[g] \in Intervals
    BY DEF TypeOK
  <2>1. interval[g] \in Intervals /\ interval[g] \in Nat /\ Slack \in Nat
    BY <2>0, Bounds
  <2>2. due[g] \in Int /\ due[g] # None /\ quiet[g] \in Nat
    BY DEF TypeOK, SpaceInv, AddsUp
  <2>3. quiet[g] + Positive(due[g]) >= interval[g] - Slack
    BY DEF SpaceInv, AddsUp
  <2>4. /\ due'[g] = Floor(g) /\ Floor(g) \in Int
        /\ due[g] > 0 => Floor(g) = due[g] - 1
        /\ due[g] <= 0 => Floor(g) <= 0
    BY <2>2, FloorType DEF Elapse
  <2>5. Floor(g) # None
    BY <2>4, ScheduleConstants
  <2>6. CASE quiet[g] >= MaxQuiet
    <3>1. quiet'[g] = quiet[g]
      BY <2>6 DEF Elapse
    <3>2. MaxQuiet \in Nat /\ interval[g] <= MaxQuiet
      BY <2>1, Bounds DEF LongMemory
    <3> QED BY <2>1, <2>2, <2>4, <2>5, <2>6, <3>1, <3>2 DEF Positive
  <2>7. CASE ~(quiet[g] >= MaxQuiet)
    <3>1. quiet'[g] = quiet[g] + 1
      BY <2>1, <2>7 DEF Elapse
    <3> QED BY <2>1, <2>2, <2>3, <2>4, <2>5, <3>1 DEF Positive
  <2> QED BY <2>6, <2>7
<1>3. ASSUME NEW s \in Schedulers, NEW k \in DOMAIN list[s]
      PROVE  LET e == list[s][k] IN
             \/ e.interval = interval[e.group]
             \/ interval[e.group] = 0
             \/ due'[e.group] # None /\ due'[e.group] + age'[s] >= interval[e.group]
  <2> DEFINE e == list[s][k]
  <2>1. age[s] \in 0..Slack /\ list[s] # <<>>
    BY <1>3, EntryType DEF TypeOK, ScansOK
  <2>2. e.group \in Groups
    BY <1>3, EntryType
  <2>3. \/ e.interval = interval[e.group]
        \/ interval[e.group] = 0
        \/ due[e.group] # None /\ due[e.group] + age[s] >= interval[e.group]
    BY <1>3 DEF SpaceInv, UpToDate
  <2>4. at[s] # "idle" /\ age'[s] = age[s] + 1
    BY <2>1 DEF Elapse, TypeOK, ScansOK
  <2> DEFINE g == e.group
  <2>5. interval[g] = 0 \/ interval[g] \in Intervals
    BY <2>2 DEF TypeOK
  <2> HIDE DEF e, g
  <2>6. ASSUME interval[g] \in Intervals, due[g] # None, due[g] + age[s] >= interval[g]
        PROVE  due'[g] # None /\ due'[g] + age'[s] >= interval[g]
    <3>1. /\ interval[g] \in Nat /\ age[s] \in Nat /\ Slack \in Nat
          /\ age[s] <= Slack /\ Slack < interval[g]
      BY <2>1, <2>6, SetBack
    <3>2. g \in Groups /\ due[g] \in Int
      BY <2>2, <2>6 DEF TypeOK, g
    <3>3. due[g] > 0
      BY <2>6, <3>1, <3>2
    <3>4. due'[g] = due[g] - 1
      BY <2>6, <3>2, <3>3, FloorType DEF Elapse
    <3>5. due[g] - 1 \in Int
      BY <3>2
    <3>6. due'[g] # None
      BY <3>4, <3>5, ScheduleConstants
    <3> QED BY <2>4, <2>6, <3>1, <3>2, <3>4, <3>6
  <2> QED BY <2>3, <2>5, <2>6 DEF e, g
<1>4. \A s \in Schedulers : UpToDate(s)'
  BY <1>1, <1>3 DEF UpToDate
<1> QED BY <1>2, <1>4 DEF SpaceInv

\* At the start what has passed is what was not left.
LEMMA InitSpaces ==
  ASSUME Init, LongMemory
  PROVE  SpaceInv
<1>1. ASSUME NEW g \in Groups PROVE AddsUp(g)
  <2> SUFFICES ASSUME interval[g] > 0
               PROVE  due[g] # None /\ quiet[g] + Positive(due[g]) >= interval[g] - Slack
    BY DEF AddsUp
  <2>0. interval[g] \in Intervals
    BY DEF Init
  <2>1. interval[g] \in Intervals /\ interval[g] \in Nat /\ Slack \in Nat /\ MaxQuiet \in Nat
    BY <2>0, Bounds
  <2>2. due[g] \in 1..interval[g]
    BY <2>1 DEF Init
  <2>3. due[g] \in Int /\ due[g] > 0 /\ due[g] <= interval[g] /\ due[g] # None
    BY <2>1, <2>2, ScheduleConstants
  <2>4. interval[g] <= MaxQuiet
    BY <2>1 DEF LongMemory
  <2>5. quiet[g] = interval[g] - due[g]
    BY <2>1, <2>3, <2>4 DEF Init
  <2> QED BY <2>1, <2>3, <2>5 DEF Positive
<1>2. \A s \in Schedulers : UpToDate(s)
  BY DEF Init, UpToDate
<1> QED BY <1>1, <1>2 DEF SpaceInv

\* A cycle is handed out once, if the history counts as far as the longest
\* interval: no group is claimed before its interval has passed since it was
\* claimed, or its schedule saved, the last time (refresh_scheduler.go: Tick,
\* tickGroup; mail_groups.sql: ClaimGroupRefresh).
THEOREM CyclesAreSpaced ==
  ASSUME LongMemory
  PROVE  Spec => Spaced
<1>1. Init => SpaceInv
  BY InitSpaces
<1>2. ASSUME TypeOK, SpaceInv, [Next]_vars PROVE SpaceInv'
  <2>1. CASE \E s \in Schedulers : Scan(s) \/ Restart(s)
    BY <1>2, <2>1, ScanSpaces
  <2>2. CASE \E g \in Groups, i \in Intervals \union {0} : UpdateMailGroupSchedule(g, i)
    BY <1>2, <2>2, UpdateSpaces
  <2>3. CASE Elapse
    BY <1>2, <2>3, ElapseSpaces
  <2>4. CASE \/ \E c \in Clients, t \in Tenants : SubmitBatch(c, t) \/ CountChecks(c, t)
             \/ \E c \in Clients : SubmitCheck(c)
             \/ \E t \in Tenants : UpdateUserStatus(t)
             \/ \E j \in jobs : RequestJobStop(j) \/ Run(j)
             \/ UNCHANGED vars
    <3>1. UNCHANGED <<interval, due, quiet, list, age>>
      BY <2>4 DEF SubmitBatch, CountChecks, SubmitCheck, UpdateUserStatus, RequestJobStop, Run,
                  StartJob, GiveUp, FinishJob, vars, rows, scans
    <3> QED BY <1>2, <3>1 DEF SpaceInv, AddsUp, UpToDate
  <2> QED BY <1>2, <2>1, <2>2, <2>3, <2>4 DEF Next
<1>3. ASSUME TypeOK, SpaceInv, [Next]_vars
      PROVE  \A s \in Schedulers : at[s] = "claim" /\ at'[s] = "submit" =>
               quiet[Group(s)] >= interval[Group(s)] - Slack
  <2> SUFFICES ASSUME NEW s \in Schedulers, at[s] = "claim", at'[s] = "submit"
               PROVE  quiet[Group(s)] >= interval[Group(s)] - Slack
    OBVIOUS
  <2>1. ClaimGroupRefresh(s)
    <3>1. CASE \E r \in Schedulers : Scan(r) \/ Restart(r)
      <4>1. PICK r \in Schedulers : Scan(r) \/ Restart(r)
        BY <3>1
      <4>2. r = s
        BY <1>3, <4>1 DEF Scan, Tick, SkipBusy, PassCount, StatementFails, ClaimGroupRefresh, LoseClaim,
                          submitScheduled, SubmitFails, Handled, Restart, TypeOK, ScansOK
      <4> QED BY <1>3, <4>1, <4>2 DEF Scan, Tick, SkipBusy, PassCount, StatementFails, LoseClaim,
                          submitScheduled, SubmitFails, Handled, Restart, TypeOK, ScansOK
    <3>2. CASE UNCHANGED at
      BY <1>3, <3>2
    <3> QED BY <1>3, <3>1, <3>2
          DEF Next, SubmitBatch, CountChecks, SubmitCheck, UpdateMailGroupSchedule, UpdateUserStatus,
              RequestJobStop, Run, StartJob, GiveUp, FinishJob, Elapse, vars, scans
  <2> QED BY <1>3, <2>1, ClaimIsFresh
<1> QED BY <1>1, <1>2, <1>3, TypeCorrect, PTL DEF Spec, Spaced
=============================================================================
