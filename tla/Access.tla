------------------------------- MODULE Access -------------------------------
(***************************************************************************)
(* Who may do what: users and their sessions, workspaces and their         *)
(* members, platform administrators, plans and the daily quota             *)
(* (service/auth_service.go, user_service.go, tenant_service.go,           *)
(* member_service.go, platform_service.go, admin_service.go, quota/quota.go*)
(* and middleware/ over the statements of db/generated).                   *)
(*                                                                         *)
(* A request passes the middleware, reads what it needs, and writes.  The  *)
(* middleware is one step, the reads of the service up to a write are one, *)
(* every write and every transaction is one; other requests come between.  *)
(* A refusal changes nothing and ends the request.                         *)
(***************************************************************************)
EXTENDS Integers, FiniteSets, Sequences

CONSTANTS
    Requests,         \* requests that may be under way at once
    Users, Teams,     \* a user's personal workspace goes by the user's name
    Registered, Team, \* users there are, in their order, and their workspace
    Plans, Limits,    \* daily_mail_fetch of a plan
    Initial,          \* plans of the migrations
    BootstrapAdmin,   \* the user BOOTSTRAP_ADMIN_USERNAME names
    DefaultPlanCode,  \* the plan DEFAULT_PLAN_CODE names, or None
    None,
    Serial,           \* SQLite's single connection, or READ COMMITTED
    Menus,            \* the kinds of request that a behaviour mixes, one set for each
    MaxRequests,      \* bound on the requests of a behaviour, for each menu
    Billed,           \* the workspaces whose plan and use requests are about, for each menu
    MaxRestarts,      \* and on the restarts
    MaxDays

Known     == {Registered[n] : n \in DOMAIN Registered}
Tenants   == Users \union Teams
Roles     == {"owner", "admin", "member"}
Unlimited == -1

ASSUME AccessAssumption ==
    /\ Users \intersect Teams = {} /\ None \notin Tenants \union Plans \union Roles
    /\ Registered \in Seq(Users) /\ Registered # <<>> /\ BootstrapAdmin \in Users /\ Team \in Teams
    /\ Limits \subseteq Nat \union {Unlimited} /\ Limits # {}
    /\ IsFiniteSet(Users) /\ IsFiniteSet(Teams)
    /\ Initial \in [Plans -> [there : BOOLEAN, default : BOOLEAN, limit : Limits]]
    \* The migrations make one plan the default.
    /\ \E p \in Plans : {q \in Plans : Initial[q].there /\ Initial[q].default} = {p}
    /\ DefaultPlanCode \in Plans \union {None} /\ Serial \in BOOLEAN
    /\ {MaxRequests, MaxRestarts} \subseteq [Menus -> Nat] /\ Billed \in [Menus -> SUBSET Tenants]
    /\ MaxDays \in Nat \ {0}

VARIABLES
    users,     \* the rows of users; era counts changed passwords and disablings
    sessions,  \* the rows of sessions that have not expired
    created,   \* tenants, in the order of created_at
    gone,      \* those with a deleted_at
    role,      \* tenant_members
    plans, quota, used, day,
    menu,      \* the requests of this behaviour
    req,       \* what each request has read, and where it is
    started, restarts,
    overlapped, \* history: guards that two requests were passing at once
    carried,   \* history: fetches counted on a day with a limit read on the day before
    cut,       \* history: users whose sessions a restart kept from being deleted
    most       \* history: the limits that a day's requests may have read

accountVars == <<users, sessions, cut>>
tenantVars  == <<created, gone, role>>
planVars    == <<plans, quota>>
usageVars   == <<used, day, carried, most>>
vars == <<accountVars, tenantVars, planVars, usageVars, menu, req, started, restarts, overlapped>>

NoUser == [there |-> FALSE, live |-> FALSE, active |-> FALSE, admin |-> FALSE, era |-> 0]
Person(admin) == [there |-> TRUE, live |-> TRUE, active |-> TRUE, admin |-> admin, era |-> 0]

-----------------------------------------------------------------------------
(* The queries. *)

GetUser(u)     == users[u].live
GetTenant(t)   == t \notin gone /\ \E n \in DOMAIN created : created[n] = t
GetMember(t, u) == GetTenant(t) /\ role[t][u] # None
\* Where the workspaces of a user stand among all of them, and the one created first.
ListTenants(u) == {n \in DOMAIN created : GetMember(created[n], u)}
First(ns)      == IF ns = {} THEN None ELSE created[CHOOSE n \in ns : \A m \in ns : n <= m]
Owners(t)      == {u \in Users : role[t][u] = "owner"}
Admins         == {u \in Users : users[u].live /\ users[u].admin}
OwnersAlive(t) == {u \in Owners(t) : GetUser(u)}
LimitOf(t)     == IF quota[t] = None THEN {} ELSE {plans[quota[t]].limit}
Defaults       == {p \in Plans : plans[p].there /\ plans[p].default}

\* defaultPlan: the configured plan if it exists, or else the first default one.
defaultPlan == IF DefaultPlanCode # None /\ plans[DefaultPlanCode].there
               THEN {DefaultPlanCode} ELSE Defaults

-----------------------------------------------------------------------------
(* Requests. *)

\* What a request may hold; each kind fills in what it has read.
Idle ==
  [op |-> "idle", pc |-> "idle", user |-> None, tenant |-> None, plan |-> None,
   id |-> 0, session |-> None, era |-> 0, raced |-> FALSE, late |-> FALSE,
   role |-> None, as |-> None, owners |-> 0, self |-> FALSE, status |-> None, was |-> None,
   default |-> FALSE, limit |-> 0, victims |-> {}, day |-> 0]

\* The guard on a last one that a request passes.
Guard(r) ==
  CASE r.op = "deleteUser"                            -> <<"admin">>
    [] r.op = "updateUser" /\ r.role = "user"         -> <<"admin">>
    [] r.op \in {"updateRole", "removeMember"}        -> <<"owner", r.tenant>>
    [] r.op \in {"createPlan", "updatePlan", "deletePlan"} -> <<"plan">>
    [] OTHER -> <<>>

\* The guards that two requests pass at once.  Two removals are told from a pair that
\* has a new role in it: a removal counts in the statement that writes.
Together(r, q) ==
  IF Guard(r) = <<>> \/ Guard(r) # Guard(q) THEN {}
  ELSE IF r.op = "removeMember" /\ q.op = "removeMember" THEN {<<"removal", r.tenant>>}
  ELSE {Guard(r)}

Begin(i, r) ==
  /\ started' = started + 1 /\ req' = [req EXCEPT ![i] = r] /\ UNCHANGED <<menu, restarts>>
  /\ overlapped' = overlapped \union UNION {Together(r, req[j]) : j \in Requests}
At(i, op, pc) == req[i].op = op /\ req[i].pc = pc
Idles         == UNCHANGED <<menu, started, restarts, overlapped>>
Goto(i, pc)   == req' = [req EXCEPT ![i].pc = pc] /\ Idles
End(i)        == req' = [req EXCEPT ![i] = Idle] /\ Idles
Reads         == UNCHANGED <<accountVars, tenantVars, planVars, usageVars>>

\* The middleware: a session of a user who is not disabled; the membership of the
\* workspace in the path; the platform role.
Session(s)            == users[s.user].live /\ users[s.user].active
LoggedIn(u)           == \E s \in sessions : s.user = u /\ Session(s)
Member(u, t, allowed) == LoggedIn(u) /\ GetMember(t, u) /\ role[t][u] \in allowed
PlatformAdmin(u)      == LoggedIn(u) /\ users[u].admin
Managers              == {"owner", "admin"}

\* What deleting sessions and workspaces does to requests that are about to write one.
Opens(r)       == r.op \in {"login", "register", "select"}
Misses(r, u)   == r.op \in {"login", "register"} /\ r.user = u
Late(r, u, ts) == IF ~Opens(r) THEN r
                  ELSE [r EXCEPT !.raced = @ \/ Misses(r, u), !.late = @ \/ r.tenant \in ts]
Warn(i, u, ts) == req' = [j \in Requests |-> IF j = i THEN Idle ELSE Late(req[j], u, ts)] /\ Idles

\* DELETE FROM sessions WHERE user_id = ?, and the references to deleted workspaces.
DeleteUserSessions(u)      == {s \in sessions : s.user # u}
ClearSessionsActiveTenant(ss, ts) ==
  {IF s.tenant \in ts THEN [s EXCEPT !.tenant = None] ELSE s : s \in ss}

-----------------------------------------------------------------------------
(* auth_service.go: a session is opened on what was read when the password  *)
(* was checked.                                                             *)

Opening(op, u, era, t, pc) ==
  [Idle EXCEPT !.op = op, !.pc = pc, !.id = started + 1, !.user = u, !.era = era, !.tenant = t]

Login(i, u) ==
  /\ GetUser(u) /\ users[u].active
  /\ Begin(i, Opening("login", u, users[u].era, None, "tenants")) /\ Reads

FirstTenant(i) ==
  /\ At(i, "login", "tenants") /\ Reads
  /\ req' = [req EXCEPT ![i].tenant = First(ListTenants(req[i].user)), ![i].pc = "session"] /\ Idles

\* A name that is taken already is refused.
Register(i, u, p) ==
  /\ ~users[u].there /\ p \in defaultPlan
  /\ Begin(i, [Opening("register", u, 0, u, "account") EXCEPT !.plan = p]) /\ Reads

\* User, workspace, membership and quota in one transaction, or nothing.  A name
\* stays taken when its user is deleted; a plan that was deleted is refused.
CreateAccount(u, p, admin) ==
  /\ users' = [users EXCEPT ![u] = Person(admin)] /\ created' = Append(created, u)
  /\ role' = [role EXCEPT ![u][u] = "owner"] /\ quota' = [quota EXCEPT ![u] = p]
  /\ most' = [most EXCEPT ![u][day] = {plans[p].limit}]

createAccount(i) ==
  /\ At(i, "register", "account")
  /\ LET r == req[i] IN
     IF ~users[r.user].there /\ plans[r.plan].there
     THEN CreateAccount(r.user, r.plan, FALSE) /\ Goto(i, "readback")
     ELSE End(i) /\ UNCHANGED <<users, created, role, quota, most>>
  /\ UNCHANGED <<sessions, cut, gone, plans, used, day, carried>>

ReadBack(i) ==
  /\ At(i, "register", "readback") /\ Reads
  /\ IF GetUser(req[i].user) /\ GetTenant(req[i].user) THEN Goto(i, "session") ELSE End(i)

createSession(i) ==
  /\ Opens(req[i]) /\ req[i].pc = "session"
  /\ LET r == req[i] IN
     sessions' = sessions \union {[id |-> r.id, user |-> r.user, era |-> r.era, tenant |-> r.tenant,
                                   raced |-> r.raced, late |-> r.late]}
  /\ End(i) /\ UNCHANGED <<users, cut, tenantVars, planVars, usageVars>>

\* Logout, or the end of a session's time.
Logout(s) ==
  /\ "logout" \in menu /\ started < MaxRequests[menu] /\ started' = started + 1
  /\ s \in sessions /\ sessions' = sessions \ {s}
  /\ UNCHANGED <<users, cut, tenantVars, planVars, usageVars, menu, req, restarts, overlapped>>

\* A start promotes BOOTSTRAP_ADMIN_USERNAME, or creates it; what was under way is lost.
Restart ==
  LET u == BootstrapAdmin IN
  /\ restarts < MaxRestarts[menu] /\ restarts' = restarts + 1
  /\ req' = [i \in Requests |-> Idle]
  /\ cut' = cut \union {req[i].user : i \in {j \in Requests : req[j].pc = "sessions"}}
  /\ \/ GetUser(u) /\ users' = [users EXCEPT ![u].admin = TRUE] /\ UNCHANGED <<created, role, quota, most>>
     \/ ~users[u].there /\ \E p \in defaultPlan : CreateAccount(u, p, TRUE)
     \/ UNCHANGED <<users, created, role, quota, most>>
  /\ UNCHANGED <<sessions, gone, plans, used, day, carried, menu, started, overlapped>>

-----------------------------------------------------------------------------
(* Passwords, the platform's users. *)

Change(op, actor, u, admin, active) ==
  [Idle EXCEPT !.op = op, !.pc = "user", !.self = (actor = u), !.user = u, !.role = admin,
               !.status = active]

ChangePassword(i, u) ==
  LoggedIn(u) /\ Begin(i, Change("password", u, u, "keep", "keep")) /\ Reads
ResetPassword(i, a, u) ==
  PlatformAdmin(a) /\ GetUser(u) /\ Begin(i, Change("password", a, u, "keep", "keep")) /\ Reads
UpdateUser(i, a, u, admin, active) ==
  PlatformAdmin(a) /\ GetUser(u) /\ Begin(i, Change("updateUser", a, u, admin, active)) /\ Reads
DeleteUser(i, a, u) ==
  PlatformAdmin(a) /\ a # u /\ GetUser(u) /\ Begin(i, Change("deleteUser", a, u, "keep", "keep")) /\ Reads

StatusOf(u) == IF users[u].active THEN "active" ELSE "disabled"
RoleOf(u)   == IF users[u].admin THEN "admin" ELSE "user"

\* Mutant: the last administrator is one of any number.
LastAdmin_never == FALSE

\* CountPlatformAdmins counts administrators that are disabled, too.
LastAdmin == Cardinality(Admins) <= 1

GetUserByID(i) ==
  LET r == req[i] IN
  /\ r.pc = "user" /\ r.op \in {"password", "updateUser", "deleteUser"} /\ Reads
  /\ IF ~GetUser(r.user) THEN End(i)
     ELSE IF r.op = "password" THEN Goto(i, "password")
     ELSE IF r.op = "deleteUser"
     THEN IF users[r.user].admin /\ LastAdmin THEN End(i) ELSE Goto(i, "delete")
     ELSE /\ req' = [req EXCEPT ![i].was = StatusOf(r.user),
                                ![i].pc = IF r.role \notin {"keep", RoleOf(r.user)} THEN "count" ELSE "status"]
          /\ Idles

UpdateUserPassword(i) ==
  /\ req[i].pc = "password"
  /\ IF GetUser(req[i].user)
     THEN users' = [users EXCEPT ![req[i].user].era = @ + 1] /\ Goto(i, "sessions")
     ELSE UNCHANGED users /\ End(i)
  /\ UNCHANGED <<sessions, cut, tenantVars, planVars, usageVars>>

\* SetPlatformRole
CountPlatformAdmins(i) ==
  LET r == req[i] IN
  /\ At(i, "updateUser", "count") /\ Reads
  /\ IF ~GetUser(r.user) THEN End(i)
     ELSE IF r.role = RoleOf(r.user) THEN Goto(i, "status")
     ELSE IF r.role = "user" /\ LastAdmin THEN End(i) ELSE Goto(i, "role")

UpdateUserPlatformRole(i) ==
  LET r == req[i] IN
  /\ At(i, "updateUser", "role")
  /\ IF GetUser(r.user)
     THEN users' = [users EXCEPT ![r.user].admin = (r.role = "admin")] /\ Goto(i, "status")
     ELSE UNCHANGED users /\ End(i)
  /\ UNCHANGED <<sessions, cut, tenantVars, planVars, usageVars>>

UpdateUserStatus(i) ==
  LET r == req[i]
      asked == r.status \notin {"keep", r.was} /\ ~(r.status = "disabled" /\ r.self) IN
  /\ At(i, "updateUser", "status")
  /\ IF asked /\ GetUser(r.user)
     THEN IF r.status = "active"
          THEN users' = [users EXCEPT ![r.user].active = TRUE] /\ End(i)
          ELSE /\ users' = [users EXCEPT ![r.user].active = FALSE, ![r.user].era = @ + 1]
               /\ Goto(i, "sessions")
     ELSE UNCHANGED users /\ End(i)
  /\ UNCHANGED <<sessions, cut, tenantVars, planVars, usageVars>>

\* Mutant: the old sessions stay.
Revoked_no(u) == sessions

Revoked(u) == DeleteUserSessions(u)

\* The second statement of a new password or a disabling.
RevokeSessions(i) ==
  /\ req[i].pc = "sessions"
  /\ sessions' = Revoked(req[i].user) /\ Warn(i, req[i].user, {})
  /\ UNCHANGED <<users, cut, tenantVars, planVars, usageVars>>

\* The personal workspace, the user and the sessions in one transaction.
SoftDeleteUser(i) ==
  LET r == req[i]  ts == IF GetTenant(r.user) THEN {r.user} ELSE {} IN
  /\ At(i, "deleteUser", "delete")
  /\ IF GetUser(r.user)
     THEN /\ users' = [users EXCEPT ![r.user].live = FALSE, ![r.user].era = @ + 1]
          /\ gone' = gone \union ts
          /\ sessions' = ClearSessionsActiveTenant(Revoked(r.user), ts)
          /\ Warn(i, r.user, ts)
     ELSE UNCHANGED <<users, gone, sessions>> /\ End(i)
  /\ UNCHANGED <<cut, created, role, planVars, usageVars>>

-----------------------------------------------------------------------------
(* Workspaces and members. *)

CreateTenant(i, u, t) ==
  LoggedIn(u) /\ Begin(i, [Idle EXCEPT !.op = "createTenant", !.pc = "write", !.user = u, !.tenant = t]) /\ Reads
InsertTenant(i) ==
  LET r == req[i] IN
  /\ At(i, "createTenant", "write")
  /\ IF \A n \in DOMAIN created : created[n] # r.tenant
     THEN created' = Append(created, r.tenant) /\ role' = [role EXCEPT ![r.tenant][r.user] = "owner"]
     ELSE UNCHANGED <<created, role>>
  /\ End(i) /\ UNCHANGED <<accountVars, gone, planVars, usageVars>>

DeleteTenant(i, u, t) ==
  /\ Member(u, t, {"owner"})
  /\ Begin(i, [Idle EXCEPT !.op = "deleteTenant", !.pc = "write", !.user = u, !.tenant = t]) /\ Reads
\* Mutant: the sessions keep the workspace they had selected.
Deselected_no(ts) == sessions

Deselected(ts) == ClearSessionsActiveTenant(sessions, ts)

SoftDeleteTenant(i) ==
  LET t == req[i].tenant IN
  /\ At(i, "deleteTenant", "write")
  /\ IF t \in Teams /\ GetTenant(t)
     THEN gone' = gone \union {t} /\ sessions' = Deselected({t}) /\ Warn(i, None, {t})
     ELSE UNCHANGED <<gone, sessions>> /\ End(i)
  /\ UNCHANGED <<users, cut, created, role, planVars, usageVars>>

Select(i, s, t) ==
  /\ s \in sessions /\ Session(s) /\ GetMember(t, s.user)
  /\ Begin(i, [Opening("select", s.user, s.era, t, "write") EXCEPT !.session = s.id]) /\ Reads
UpdateSessionTenant(i) ==
  LET r == req[i] IN
  /\ At(i, "select", "write")
  /\ sessions' = {IF s.id = r.session THEN [s EXCEPT !.tenant = r.tenant, !.late = r.late] ELSE s : s \in sessions}
  /\ End(i) /\ UNCHANGED <<users, cut, tenantVars, planVars, usageVars>>

Membership(op, a, t, u, new) ==
  [Idle EXCEPT !.op = op, !.pc = "read", !.tenant = t, !.user = u, !.as = role[t][a], !.role = new]

AddMember(i, a, t, u, new) ==
  Member(a, t, Managers) /\ Begin(i, Membership("addMember", a, t, u, new)) /\ Reads
UpdateRole(i, a, t, u, new) ==
  Member(a, t, Managers) /\ Begin(i, Membership("updateRole", a, t, u, new)) /\ Reads
RemoveMember(i, a, t, u) ==
  Member(a, t, Managers) /\ Begin(i, Membership("removeMember", a, t, u, None)) /\ Reads

\* Mutant: an owner who is demoted is not counted.
LastOwner_never(t) == FALSE

LastOwner(t) == Cardinality(Owners(t)) <= 1

MayTouch(r) ==
  /\ r.as = "admin" => r.role # "owner"
  /\ IF r.op = "addMember" THEN GetUser(r.user)
     ELSE /\ GetMember(r.tenant, r.user)
          /\ r.as = "admin" => role[r.tenant][r.user] # "owner"
          /\ r.op = "updateRole" /\ role[r.tenant][r.user] = "owner" /\ r.role # "owner"
             => ~LastOwner(r.tenant)

ReadMember(i) ==
  /\ req[i].op \in {"addMember", "updateRole", "removeMember"} /\ req[i].pc = "read"
  /\ Reads
  /\ IF ~MayTouch(req[i]) THEN End(i)
     ELSE Goto(i, IF req[i].op = "removeMember" /\ ~Serial THEN "snapshot" ELSE "write")

\* On PostgreSQL the statement of a removal counts the owners in its snapshot.
Snapshot(i) ==
  /\ At(i, "removeMember", "snapshot") /\ Reads
  /\ req' = [req EXCEPT ![i].owners = Cardinality(Owners(req[i].tenant)), ![i].pc = "write"] /\ Idles

\* Mutant: the last owner is taken for one of several.
DeleteMemberKeepingOwner_last(r) ==
  LET owners == IF Serial THEN Cardinality(Owners(r.tenant)) ELSE r.owners IN
  role[r.tenant][r.user] # "owner" \/ owners > 0

DeleteMemberKeepingOwner(r) ==
  LET owners == IF Serial THEN Cardinality(Owners(r.tenant)) ELSE r.owners IN
  role[r.tenant][r.user] # "owner" \/ owners > 1

WriteMember(i) ==
  LET r == req[i]
      row == role[r.tenant][r.user] IN
  /\ r.op \in {"addMember", "updateRole", "removeMember"} /\ r.pc = "write"
  /\ role' = IF \/ r.op = "addMember" /\ row = None
                \/ r.op = "updateRole" /\ row # None
                \/ r.op = "removeMember" /\ DeleteMemberKeepingOwner(r)
             THEN [role EXCEPT ![r.tenant][r.user] = r.role] ELSE role
  /\ End(i) /\ UNCHANGED <<accountVars, created, gone, planVars, usageVars>>

-----------------------------------------------------------------------------
(* Plans and the daily quota. *)

PlanRequest(op, p, default, limit) ==
  [Idle EXCEPT !.op = op, !.pc = "read", !.plan = p, !.default = default, !.limit = limit]
CreatePlan(i, a, p, d, l) == PlatformAdmin(a) /\ ~plans[p].there /\ Begin(i, PlanRequest("createPlan", p, d, l)) /\ Reads
UpdatePlan(i, a, p, d, l) == PlatformAdmin(a) /\ plans[p].there /\ Begin(i, PlanRequest("updatePlan", p, d, l)) /\ Reads
DeletePlan(i, a, p)       == PlatformAdmin(a) /\ Begin(i, PlanRequest("deletePlan", p, FALSE, 0)) /\ Reads
AssignPlan(i, a, t, p)    == /\ PlatformAdmin(a)
                             /\ Begin(i, [PlanRequest("assignPlan", p, FALSE, 0) EXCEPT !.tenant = t]) /\ Reads

CountTenantsByPlan(p) == Cardinality({t \in Tenants : quota[t] = p})

\* Mutant: the last default plan may be made an ordinary one.
KeepsDefault_not(r) == plans[r.plan].there

KeepsDefault(r) == plans[r.plan].there /\ (plans[r.plan].default => r.default)

ReadPlan(i) ==
  LET r == req[i] IN
  /\ r.op \in {"createPlan", "updatePlan", "deletePlan", "assignPlan"} /\ r.pc = "read"
  /\ Reads
  /\ IF CASE r.op = "createPlan" -> TRUE
          [] r.op = "updatePlan" -> KeepsDefault(r)
          [] r.op = "deletePlan" -> /\ plans[r.plan].there /\ ~plans[r.plan].default
                                    /\ CountTenantsByPlan(r.plan) = 0
          [] r.op = "assignPlan" -> GetTenant(r.tenant) /\ plans[r.plan].there
     THEN Goto(i, IF r.op \in {"createPlan", "updatePlan"} /\ ~Serial THEN "snapshot" ELSE "write")
     ELSE End(i)

\* ClearDefaultPlanExcept sees the default plans that are committed when it runs.
ClearDefaultPlanExcept(i) ==
  LET r == req[i] IN
  /\ r.op \in {"createPlan", "updatePlan"} /\ r.pc = "snapshot" /\ Reads
  /\ req' = [req EXCEPT ![i].victims = Defaults \ {r.plan}, ![i].pc = "write"] /\ Idles

\* Mutant: the schema has no foreign key on the plan of a workspace.
Referenced_not(p) == FALSE

\* The foreign keys refuse to delete a plan in use and to use a deleted one.
Referenced(p) == \E t \in Tenants : quota[t] = p

WritePlan(i) ==
  LET r == req[i]
      victims == IF ~r.default THEN {} ELSE IF Serial THEN Defaults \ {r.plan} ELSE r.victims IN
  /\ r.op \in {"createPlan", "updatePlan", "deletePlan", "assignPlan"} /\ r.pc = "write"
  /\ plans' = IF r.op \in {"createPlan", "updatePlan"} /\ plans[r.plan].there = (r.op = "updatePlan")
              THEN [p \in Plans |-> IF p = r.plan
                                    THEN [there |-> TRUE, default |-> r.default, limit |-> r.limit]
                                    ELSE [plans[p] EXCEPT !.default = @ /\ p \notin victims]]
              ELSE IF r.op = "deletePlan" /\ ~Referenced(r.plan)
              THEN [plans EXCEPT ![r.plan].there = FALSE] ELSE plans
  /\ quota' = IF r.op = "assignPlan" /\ plans[r.plan].there /\ quota[r.tenant] # None
              THEN [quota EXCEPT ![r.tenant] = r.plan] ELSE quota
  /\ most' = [t \in Tenants |-> IF quota'[t] = None THEN most[t]
                                ELSE [most[t] EXCEPT ![day] = @ \union {plans'[quota'[t]].limit}]]
  /\ End(i) /\ UNCHANGED <<accountVars, tenantVars, used, day, carried>>

\* The limit is read first, and then the day: a midnight may lie between them.
Fetch(i, u, t) ==
  /\ Member(u, t, Roles) /\ quota[t] # None
  /\ Begin(i, [Idle EXCEPT !.op = "fetch", !.pc = "today", !.tenant = t,
                        !.limit = plans[quota[t]].limit, !.day = day])
  /\ Reads

Today(i) ==
  /\ At(i, "fetch", "today") /\ Reads
  /\ req' = [req EXCEPT ![i].late = req[i].day # day, ![i].day = day, ![i].pc = "consume"] /\ Idles

\* Mutant: the request that takes the last one is followed by another.
Exceeds_late(count, limit) == limit # Unlimited /\ count > limit + 1

Exceeds(count, limit) == limit # Unlimited /\ count > limit

ConsumeUsage(t, d) == used[t][d] + 1

\* CheckAndConsume adds and judges in one transaction, which is rolled back.
Consume(i) ==
  LET r == req[i]  count == ConsumeUsage(r.tenant, r.day) IN
  /\ At(i, "fetch", "consume")
  /\ IF Exceeds(count, r.limit) THEN UNCHANGED <<used, carried>>
     ELSE /\ used' = [used EXCEPT ![r.tenant][r.day] = count]
          /\ carried' = IF r.late THEN [carried EXCEPT ![r.tenant][r.day] = @ + 1] ELSE carried
  /\ End(i) /\ UNCHANGED <<accountVars, tenantVars, planVars, day, most>>

\* Midnight comes while a fetch is under way.
NewDay ==
  /\ day < MaxDays /\ \E i \in Requests : req[i].op = "fetch" /\ day' = day + 1
  /\ most' = [t \in Tenants |-> IF quota[t] = None THEN most[t]
                                ELSE [most[t] EXCEPT ![day + 1] = LimitOf(t)]]
  /\ UNCHANGED <<accountVars, tenantVars, planVars, used, carried, menu, req, started, restarts, overlapped>>

-----------------------------------------------------------------------------
Init ==
  \* The first user is an administrator and an owner; the others are anything.
  /\ \E admins \in SUBSET Known :
       /\ Registered[1] \in admins
       /\ users = [u \in Users |-> IF u \in Known THEN Person(u \in admins) ELSE NoUser]
  /\ \E team \in [Known -> Roles \union {None}] :
       /\ team[Registered[1]] = "owner"
       /\ role = [t \in Tenants |-> [u \in Users |->
                    IF u \in Known /\ t = Team THEN team[u] ELSE IF u \in Known /\ t = u THEN "owner" ELSE None]]
  /\ created = Registered \o <<Team>> /\ gone = {}
  /\ sessions = {[id |-> -n, user |-> Registered[n], era |-> 0, tenant |-> Registered[n],
                  raced |-> FALSE, late |-> FALSE] : n \in DOMAIN Registered}
  /\ plans = Initial /\ day = 1
  /\ \E p \in Defaults : quota = [t \in Tenants |-> IF t \in Known THEN p ELSE None]
  /\ used = [t \in Tenants |-> [d \in 1..MaxDays |-> 0]] /\ carried = used
  /\ most = [t \in Tenants |-> [d \in 1..MaxDays |-> IF d = 1 THEN LimitOf(t) ELSE {}]]
  /\ menu \in Menus /\ req = [i \in Requests |-> Idle] /\ started = 0 /\ restarts = 0 /\ overlapped = {} /\ cut = {}

Opened(i) ==
  \/ "login" \in menu /\ \E u \in Users : Login(i, u)
  \/ "password" \in menu /\ \E u \in Users : ChangePassword(i, u) \/ \E a \in Users : ResetPassword(i, a, u)
  \/ "register" \in menu /\ \E u \in Users, p \in Plans : Register(i, u, p)
Administered(i) ==
  \/ "deleteUser" \in menu /\ \E a, u \in Users : DeleteUser(i, a, u)
  \/ /\ "updateUser" \in menu
     /\ \E a, u \in Users, role_ \in {"keep", "admin", "user"}, status \in {"keep", "active", "disabled"} :
          <<role_, status>> # <<"keep", "keep">> /\ UpdateUser(i, a, u, role_, status)
Shared(i) ==
  \/ "createTenant" \in menu /\ \E u \in Users, t \in Teams : CreateTenant(i, u, t)
  \/ "deleteTenant" \in menu /\ \E u \in Users, t \in Tenants : DeleteTenant(i, u, t)
  \/ "select" \in menu /\ \E s \in sessions, t \in Tenants : Select(i, s, t)
  \/ "removeMember" \in menu /\ \E u, v \in Users, t \in Tenants : RemoveMember(i, u, t, v)
  \/ "addMember" \in menu /\ \E u, v \in Users, t \in Tenants, new \in Roles : AddMember(i, u, t, v, new)
  \/ "updateRole" \in menu /\ \E u, v \in Users, t \in Tenants, new \in Roles : UpdateRole(i, u, t, v, new)
Planned(i) ==
  \/ "fetch" \in menu /\ \E u \in Users, t \in Tenants : t \in Billed[menu] /\ Fetch(i, u, t)
  \/ "deletePlan" \in menu /\ \E a \in Users, p \in Plans : DeletePlan(i, a, p)
  \/ "assignPlan" \in menu /\ \E a \in Users, p \in Plans, t \in Tenants : t \in Billed[menu] /\ AssignPlan(i, a, t, p)
  \/ "createPlan" \in menu /\ \E a \in Users, p \in Plans, d \in BOOLEAN, l \in Limits : CreatePlan(i, a, p, d, l)
  \/ "updatePlan" \in menu /\ \E a \in Users, p \in Plans, d \in BOOLEAN, l \in Limits : UpdatePlan(i, a, p, d, l)

Next ==
  \/ \E i \in Requests :
       \/ /\ started < MaxRequests[menu] /\ req[i] = Idle
          /\ Opened(i) \/ Administered(i) \/ Shared(i) \/ Planned(i)
       \/ FirstTenant(i) \/ createAccount(i) \/ ReadBack(i) \/ createSession(i)
       \/ GetUserByID(i) \/ UpdateUserPassword(i) \/ CountPlatformAdmins(i) \/ UpdateUserPlatformRole(i)
       \/ UpdateUserStatus(i) \/ RevokeSessions(i) \/ SoftDeleteUser(i)
       \/ InsertTenant(i) \/ SoftDeleteTenant(i) \/ UpdateSessionTenant(i)
       \/ ReadMember(i) \/ Snapshot(i) \/ WriteMember(i)
       \/ ReadPlan(i) \/ ClearDefaultPlanExcept(i) \/ WritePlan(i) \/ Today(i) \/ Consume(i)
  \/ \E s \in sessions : Logout(s)
  \/ Restart
  \/ NewDay

Spec == Init /\ [][Next]_vars

-----------------------------------------------------------------------------
(* Properties. *)

Ops   == {"idle", "login", "register", "select", "password", "updateUser", "deleteUser", "createTenant",
          "deleteTenant", "addMember", "updateRole", "removeMember", "createPlan", "updatePlan",
          "deletePlan", "assignPlan", "fetch"}
Steps == {"idle", "tenants", "account", "readback", "session", "user", "password", "count", "role",
          "status", "sessions", "delete", "read", "snapshot", "write", "today", "consume"}

AnyRequest ==
  [op : Ops, pc : Steps, user : Users \union {None}, tenant : Tenants \union {None},
   plan : Plans \union {None}, id : Nat, session : Int \union {None}, era : Nat,
   raced : BOOLEAN, late : BOOLEAN, role : Roles \union {"keep", "user", None},
   as : Roles \union {None}, owners : Nat, self : BOOLEAN,
   status : {"keep", "active", "disabled", None}, was : {"active", "disabled", None},
   default : BOOLEAN, limit : Limits \union {0}, victims : SUBSET Plans, day : 0..MaxDays]
AnySession ==
  [id : Int, user : Users, era : Nat, tenant : Tenants \union {None}, raced : BOOLEAN, late : BOOLEAN]

\* Every variable has its type; sessions and quotas refer to rows that there are.
TypeOK ==
  /\ users \in [Users -> [there : BOOLEAN, live : BOOLEAN, active : BOOLEAN, admin : BOOLEAN, era : Nat]]
  /\ sessions \subseteq AnySession
  /\ \A s \in sessions : /\ users[s.user].there /\ s.era <= users[s.user].era
                         /\ s.tenant = None \/ \E n \in DOMAIN created : created[n] = s.tenant
  /\ \A s, z \in sessions : s.id = z.id => s = z
  /\ created \in Seq(Tenants)
  /\ \A t \in gone : \E n \in DOMAIN created : created[n] = t
  /\ role \in [Tenants -> [Users -> Roles \union {None}]]
  /\ plans \in [Plans -> [there : BOOLEAN, default : BOOLEAN, limit : Limits]]
  /\ quota \in [Tenants -> Plans \union {None}]
  /\ \A t \in Tenants : quota[t] = None \/ plans[quota[t]].there
  /\ {used, carried} \subseteq [Tenants -> [1..MaxDays -> Nat]] /\ most \in [Tenants -> [1..MaxDays -> SUBSET Limits]]
  /\ day \in 1..MaxDays /\ cut \subseteq Users
  /\ req \in [Requests -> AnyRequest] /\ started \in Nat

\* A session that was opened with a password that has changed since, or by a user who has
\* been disabled or deleted since, is gone (user_service.go:76, admin_service.go:83 and 113:
\* otherwise the change would be an empty gesture); or the deletion of the sessions is under
\* way, or a restart cut it off, or the login was under way itself.
\* A session points to a deleted workspace only if it was selected while that was deleted
\* (repo/tenants.go:86).
SessionsExplained ==
  \A s \in sessions :
    /\ s.era < users[s.user].era =>
         \/ s.raced \/ s.user \in cut
         \/ \E i \in Requests : req[i].pc = "sessions" /\ req[i].user = s.user
    /\ s.tenant # None /\ ~GetTenant(s.tenant) => s.late

\* There is an administrator, and one plan is the default (platform_service.go:100,
\* admin_service.go:186 and 221), unless two requests passed the guard at once.  Every team
\* has a membership of an owner (member_service.go:57 and 71), unless a new role was given
\* at once with another or with a removal, or, on PostgreSQL, two removals were.  The account
\* of that owner may be deleted: the guards count memberships only (see OwnerCanManage).
SomeoneInCharge ==
  /\ <<"admin">> \in overlapped \/ Admins # {}
  /\ \A t \in Tenants :
       \/ <<"owner", t>> \in overlapped \/ (~Serial /\ <<"removal", t>> \in overlapped)
       \/ ~GetTenant(t) \/ Owners(t) # {}
  /\ <<"plan">> \in overlapped \/ Cardinality(Defaults) = 1

\* Removals alone, however many at once, leave a team an owner: the count and the
\* delete are one statement (member_service.go:71, repo/members.go:65).
RemovalsKeepOwner ==
  \A t \in Tenants : <<"owner", t>> \in overlapped \/ ~GetTenant(t) \/ Owners(t) # {}

\* As long as requests come one at a time, a team loses the last owner that can log in
\* only with that owner's account (repo/members.go:64: the last owner is not removed).
OwnerCanManage ==
  [][\A t \in Tenants : Cardinality(Requests) = 1 /\ users' = users /\ OwnersAlive(t) # {}
                            => OwnersAlive(t)' # {}]_vars

\* What is counted on a day is within a limit that was in force that day (quota.go:77),
\* but for the fetches that had read their limit before midnight (quota.go:85 and 95).
UsageBounded ==
  \A t \in Tenants, d \in 1..MaxDays :
    \/ used[t][d] <= carried[t][d]
    \/ \E l \in most[t][d] : l = Unlimited \/ used[t][d] <= l + carried[t][d]

\* As long as requests come one at a time, some administrator can get into the panel
\* (platform_service.go:84 and 100: without one it is locked for good).
AdminGetsIn ==
  Cardinality(Requests) = 1 => \E u \in Admins : users[u].active
=============================================================================
