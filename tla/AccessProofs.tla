---------------------------- MODULE AccessProofs ----------------------------
(***************************************************************************)
(* Theorems about Access, and about Pricing over it, for any users,        *)
(* workspaces, plans, prices, requests and bounds.                         *)
(***************************************************************************)
EXTENDS Pricing, FiniteSetTheorems, WellFoundedInduction, TLAPS

-----------------------------------------------------------------------------
(* What the rows and the requests have to do with each other.              *)

\* The workspaces that have a row.
Born == {created[n] : n \in DOMAIN created}

\* A login or a registration, which writes a session; a registration that has not
\* written its account.
Enters(r)  == r.op \in {"login", "register"}
Applies(r) == r.op = "register" /\ r.pc = "account"

\* Where the requests of each kind may be, and what they hold.
Stands(r) ==
  /\ r.op = "idle" => r.pc = "idle"
  /\ r.op = "login" => r.pc \in {"tenants", "session"}
  /\ r.op = "register" => r.pc \in {"account", "readback", "session"}
  /\ r.op \in {"select", "createTenant", "deleteTenant"} => r.pc = "write"
  /\ r.op = "password" => r.pc \in {"user", "password", "sessions"}
  /\ r.op = "updateUser" => r.pc \in {"user", "count", "role", "status", "sessions"}
  /\ r.op = "deleteUser" => r.pc \in {"user", "delete"}
  /\ r.op \in {"addMember", "updateRole", "removeMember", "createPlan", "updatePlan", "deletePlan",
               "assignPlan"} => r.pc \in {"read", "snapshot", "write"}
  /\ r.op = "fetch" => r.pc \in {"today", "consume"}
Names(r) ==
  /\ r.op \in {"login", "register", "select", "password", "updateUser", "deleteUser", "createTenant",
               "addMember", "updateRole", "removeMember"} => r.user \in Users
  /\ r.op \in {"deleteTenant", "addMember", "updateRole", "removeMember", "assignPlan", "fetch"}
       => r.tenant \in Tenants
  /\ r.op = "createTenant" => r.tenant \in Teams
  /\ r.op \in {"register", "createPlan", "updatePlan", "deletePlan", "assignPlan"} => r.plan \in Plans
  /\ r.op \in {"createPlan", "updatePlan", "fetch"} => r.limit \in Limits
  /\ r.op \in {"addMember", "updateRole"} => r.role \in Roles
  /\ r.op = "removeMember" => r.role = None
  /\ r.op = "updateUser" => r.role \in {"keep", "admin", "user"}

\* A request that has read rows, of which none goes away.
Knows(r) ==
  /\ r.op = "fetch" => r.day \in 1..day
  /\ Enters(r) => r.id \in 1..started
  /\ Opens(r) /\ ~Applies(r) => /\ users[r.user].there /\ r.era <= users[r.user].era
                                /\ r.tenant \in Born \union {None}
  /\ Applies(r) => r.era = 0 /\ r.tenant = r.user

Sound(r) == r \in AnyRequest /\ Stands(r) /\ Names(r) /\ Knows(r)

\* The rows of the database.
RowsInv ==
  /\ users \in [Users -> [there : BOOLEAN, live : BOOLEAN, active : BOOLEAN, admin : BOOLEAN, era : Nat]]
  /\ \A u \in Users : users[u].live => users[u].there
  /\ \A u \in Users : u \in Born \/ quota[u] # None => users[u].there
  /\ \A u \in Users : ~users[u].there => users[u].era = 0
  /\ sessions \subseteq AnySession
  /\ \A s \in sessions : /\ users[s.user].there /\ s.era <= users[s.user].era
                         /\ s.tenant \in Born \union {None}
  /\ created \in Seq(Tenants) /\ gone \subseteq Born
  /\ role \in [Tenants -> [Users -> Roles \union {None}]]
  /\ plans \in [Plans -> [there : BOOLEAN, default : BOOLEAN, limit : Limits]]
  /\ quota \in [Tenants -> Plans \union {None}]
  /\ \A t \in Tenants : quota[t] = None \/ plans[quota[t]].there
  /\ used \in [Tenants -> [1..MaxDays -> Nat]] /\ most \in [Tenants -> [1..MaxDays -> SUBSET Limits]]
  /\ carried \in [Tenants -> [1..MaxDays -> Nat]] /\ day \in 1..MaxDays /\ cut \subseteq Users

ReqsInv ==
  /\ started \in Nat
  /\ req \in [Requests -> AnyRequest]
  /\ \A i \in Requests : Sound(req[i])

\* No number is given to two sessions.
IdsInv ==
  /\ \A s \in sessions : s.id <= started
  /\ \A s, z \in sessions : s.id = z.id => s = z
  /\ \A i \in Requests : Enters(req[i]) =>
       /\ \A s \in sessions : s.id # req[i].id
       /\ \A j \in Requests \ {i} : Enters(req[j]) => req[j].id # req[i].id

TypeInv == RowsInv /\ ReqsInv /\ IdsInv

-----------------------------------------------------------------------------
(* Lemmas about the queries and the requests.                              *)

LEMMA ConstantFacts ==
  /\ None \notin Tenants /\ None \notin Plans /\ None \notin Users /\ Users \subseteq Tenants
  /\ Teams \subseteq Tenants /\ Users \cap Teams = {}
  /\ IsFiniteSet(Users) /\ IsFiniteSet(Tenants)
<1>1. IsFiniteSet(Users \union Teams)
  BY AccessAssumption, FS_Union
<1> QED BY <1>1, AccessAssumption DEF Tenants

LEMMA TenantIsBorn == \A t : GetTenant(t) <=> t \notin gone /\ t \in Born
BY DEF GetTenant, Born

LEMMA BornAppend ==
  ASSUME NEW t \in Tenants, created \in Seq(Tenants), created' = Append(created, t)
  PROVE  created' \in Seq(Tenants) /\ Born' = Born \union {t}
<1>1. created' \in Seq(Tenants) /\ Len(created') = Len(created) + 1
  OBVIOUS
<1>2. \A n \in 1..Len(created) : created'[n] = created[n]
  OBVIOUS
<1>3. created'[Len(created) + 1] = t
  OBVIOUS
<1>4. DOMAIN created' = 1..(Len(created) + 1) /\ DOMAIN created = 1..Len(created)
  BY <1>1
<1>5. Len(created) \in Nat
  OBVIOUS
<1>6. Born \union {t} \subseteq Born'
  <2>1. t \in Born'
    BY <1>3, <1>4, <1>5 DEF Born
  <2>2. ASSUME NEW n \in 1..Len(created) PROVE created[n] \in Born'
    BY <1>2, <1>4, <1>5 DEF Born
  <2> QED BY <2>1, <2>2, <1>4 DEF Born
<1>7. Born' \subseteq Born \union {t}
  <2> SUFFICES ASSUME NEW n \in 1..(Len(created) + 1) PROVE created'[n] \in Born \union {t}
    BY <1>4 DEF Born
  <2>1. CASE n = Len(created) + 1
    BY <2>1, <1>3
  <2>2. CASE n \in 1..Len(created)
    BY <2>2, <1>2, <1>4 DEF Born
  <2> QED BY <2>1, <2>2, <1>5
<1> QED BY <1>1, <1>6, <1>7

LEMMA IdleType == Sound(Idle)
BY AccessAssumption DEF Sound, AnyRequest, Idle, Ops, Steps, Stands, Names, Knows, Enters, Opens, Applies

\* Rows are kept: what a request has read stays good.
Keeps == /\ \A u \in Users : users[u].there => users'[u].there /\ users[u].era <= users'[u].era
         /\ Born \subseteq Born'
         /\ day <= day' /\ started <= started'

LEMMA KnowsStays ==
  ASSUME RowsInv, RowsInv', started \in Nat, started' \in Nat, Keeps, NEW r, Sound(r)
  PROVE  Sound(r)'
<1>1. (r \in AnyRequest /\ Stands(r) /\ Names(r))'
  BY DEF Sound, AnyRequest, Stands, Names
<1>2. Opens(r) => r.user \in Users
  BY DEF Opens, Sound, Names
<1>3. r \in AnyRequest
  BY DEF Sound
<1>4. Knows(r)'
  <2>1. (r.op = "fetch" => r.day \in 1..day)' /\ (Enters(r) => r.id \in 1..started)'
    BY <1>3 DEF Keeps, Sound, Knows, Enters, RowsInv, AnyRequest
  <2>2. (Applies(r) => r.era = 0 /\ r.tenant = r.user)'
    BY DEF Sound, Knows, Applies
  <2>3. ASSUME Opens(r), ~Applies(r)
        PROVE  users'[r.user].there /\ r.era <= users'[r.user].era /\ r.tenant \in Born' \union {None}
    <3>1. users[r.user].there /\ r.era <= users[r.user].era /\ r.tenant \in Born \union {None}
      BY <2>3 DEF Sound, Knows
    <3>2. users'[r.user].era \in Nat /\ users[r.user].era \in Nat /\ r.era \in Nat
      BY <1>2, <1>3, <2>3 DEF RowsInv, AnyRequest
    <3> QED BY <3>1, <3>2, <1>2, <2>3 DEF Keeps
  <2> QED BY <2>1, <2>2, <2>3 DEF Knows, Enters, Opens, Applies
<1> QED BY <1>1, <1>4 DEF Sound

-----------------------------------------------------------------------------
(* How requests begin, and how they go on while they only read.            *)

\* The sets of AnyRequest by name: the provers see no further.
Somebody  == Users \union {None}
Somewhere == Tenants \union {None}
SomePlan  == Plans \union {None}
SomeRole  == Roles \union {"keep", "user", None}
SomeRow   == Roles \union {None}
Asked     == {"keep", "active", "disabled", None}
WasSet    == {"active", "disabled", None}
SomeLimit == Limits \union {0}
SomeId    == Int \union {None}
SomeDay   == 0..MaxDays

LEMMA RequestSet ==
  AnyRequest =
  [op : Ops, pc : Steps, user : Somebody, tenant : Somewhere, plan : SomePlan, id : Nat,
   session : SomeId, era : Nat, raced : BOOLEAN, late : BOOLEAN, role : SomeRole, as : SomeRow,
   owners : Nat, self : BOOLEAN, status : Asked, was : WasSet, default : BOOLEAN,
   limit : SomeLimit, victims : SUBSET Plans, day : SomeDay]
BY DEF AnyRequest, Somebody, Somewhere, SomePlan, SomeRole, SomeRow, Asked, WasSet, SomeLimit,
       SomeId, SomeDay

LEMMA OpeningType ==
  ASSUME NEW op \in Ops, NEW u \in Users, NEW era \in Nat, NEW t \in Somewhere, NEW pc \in Steps,
         started \in Nat
  PROVE  Opening(op, u, era, t, pc) \in AnyRequest
<1>1. Idle \in AnyRequest
  BY IdleType DEF Sound
<1>2. u \in Somebody /\ started + 1 \in Nat
  BY DEF Somebody
<1> QED BY <1>1, <1>2, RequestSet DEF Opening

LEMMA ChangeType ==
  ASSUME NEW op \in Ops, NEW a, NEW u \in Users, NEW g \in SomeRole, NEW s \in Asked
  PROVE  Change(op, a, u, g, s) \in AnyRequest
<1>1. Idle \in AnyRequest
  BY IdleType DEF Sound
<1>2. u \in Somebody /\ (a = u) \in BOOLEAN /\ "user" \in Steps
  BY DEF Somebody, Steps
<1> QED BY <1>1, <1>2, RequestSet DEF Change

LEMMA MembershipType ==
  ASSUME NEW op \in Ops, NEW a, NEW t \in Tenants, NEW u \in Users, NEW new \in SomeRole,
         role[t][a] \in SomeRow
  PROVE  Membership(op, a, t, u, new) \in AnyRequest
<1>1. Idle \in AnyRequest
  BY IdleType DEF Sound
<1>2. u \in Somebody /\ t \in Somewhere /\ "read" \in Steps
  BY DEF Somebody, Somewhere, Steps
<1> QED BY <1>1, <1>2, RequestSet DEF Membership

LEMMA PlanRequestType ==
  ASSUME NEW op \in Ops, NEW p \in Plans, NEW d \in BOOLEAN, NEW l \in SomeLimit
  PROVE  PlanRequest(op, p, d, l) \in AnyRequest
<1>1. Idle \in AnyRequest
  BY IdleType DEF Sound
<1>2. p \in SomePlan /\ "read" \in Steps
  BY DEF SomePlan, Steps
<1> QED BY <1>1, <1>2, RequestSet DEF PlanRequest

\* A request that begins.
Begun(r) ==
  /\ r \in AnyRequest /\ Stands(r) /\ Names(r) /\ r.op # "idle"
  /\ r.pc \in {"tenants", "account", "user", "read", "write", "today"}
  /\ r.pc = "write" => r.op \in {"select", "createTenant", "deleteTenant"}
  /\ r.op = "fetch" => /\ r.day = day /\ ~r.late /\ quota[r.tenant] # None
                       /\ r.limit = plans[quota[r.tenant]].limit
  /\ Enters(r) => r.id = started + 1
  /\ r.op = "login" => r.era = users[r.user].era
  /\ Opens(r) /\ ~Applies(r) => /\ users[r.user].there /\ r.era <= users[r.user].era
                                /\ r.tenant = None \/ GetTenant(r.tenant)
  /\ Applies(r) => r.era = 0 /\ r.tenant = r.user

LEMMA BegunPersonal ==
  ASSUME TypeInv, NEW i \in Requests, Opened(i)
  PROVE  \E r : Begun(r) /\ Begin(i, r) /\ Reads
<1>1. ASSUME NEW u \in Users, Login(i, u) PROVE \E r : Begun(r) /\ Begin(i, r) /\ Reads
  <2> DEFINE r == Opening("login", u, users[u].era, None, "tenants")
  <2>1. users[u].there /\ users[u].era \in Nat /\ started \in Nat
    BY <1>1 DEF Login, GetUser, TypeInv, RowsInv, ReqsInv
  <2>2. r \in AnyRequest /\ Stands(r) /\ Names(r)
    <3>1. r \in AnyRequest
      <4>1. "login" \in Ops /\ "tenants" \in Steps /\ None \in Somewhere
        BY DEF Ops, Steps, Somewhere
      <4> QED BY <2>1, <4>1, OpeningType
    <3>2. Stands(r) /\ Names(r)
      BY <2>1 DEF Opening, Idle, Stands, Names
    <3> QED BY <3>1, <3>2
  <2>3. Begun(r)
    BY <2>1, <2>2 DEF Begun, Opening, Idle, Enters, Opens, Applies
  <2> QED BY <2>3, <1>1 DEF Login
<1>2. ASSUME NEW a \in Users, NEW u \in Users,
             Begin(i, Change("password", a, u, "keep", "keep")), Reads
      PROVE  \E r : Begun(r) /\ Begin(i, r) /\ Reads
  <2> DEFINE r == Change("password", a, u, "keep", "keep")
  <2>1. r \in AnyRequest /\ Stands(r) /\ Names(r)
    <3>1. r \in AnyRequest
      <4>1. "password" \in Ops /\ "keep" \in SomeRole /\ "keep" \in Asked
        BY DEF Ops, SomeRole, Asked
      <4> QED BY <4>1, ChangeType
    <3>2. Stands(r) /\ Names(r)
      BY DEF Change, Idle, Stands, Names
    <3> QED BY <3>1, <3>2
  <2>2. Begun(r)
    BY <2>1 DEF Begun, Change, Idle, Enters, Opens, Applies
  <2> QED BY <2>2, <1>2
<1>3. ASSUME NEW u \in Users, NEW p \in Plans, Register(i, u, p)
      PROVE  \E r : Begun(r) /\ Begin(i, r) /\ Reads
  <2> DEFINE r == [Opening("register", u, 0, u, "account") EXCEPT !.plan = p]
  <2>1. started \in Nat /\ u \in Tenants
    BY DEF TypeInv, ReqsInv, Tenants
  <2>2. r \in AnyRequest /\ Stands(r) /\ Names(r)
    <3>1. r \in AnyRequest
      <4>1. "register" \in Ops /\ "account" \in Steps /\ u \in Somewhere /\ p \in SomePlan /\ 0 \in Nat
        BY <2>1 DEF Ops, Steps, Somewhere, SomePlan
      <4>2. Opening("register", u, 0, u, "account") \in AnyRequest
        BY <2>1, <4>1, OpeningType
      <4> QED BY <4>1, <4>2, RequestSet
    <3>2. Stands(r) /\ Names(r)
      BY <2>1 DEF Opening, Idle, Stands, Names
    <3> QED BY <3>1, <3>2
  <2>3. Begun(r)
    BY <2>1, <2>2 DEF Begun, Opening, Idle, Enters, Opens, Applies
  <2> QED BY <2>3, <1>3 DEF Register
<1>4. ASSUME NEW u \in Users, ChangePassword(i, u) PROVE \E r : Begun(r) /\ Begin(i, r) /\ Reads
  BY <1>2, <1>4 DEF ChangePassword
<1>5. ASSUME NEW u \in Users, NEW a \in Users, ResetPassword(i, a, u)
      PROVE  \E r : Begun(r) /\ Begin(i, r) /\ Reads
  BY <1>2, <1>5 DEF ResetPassword
<1> QED BY <1>1, <1>3, <1>4, <1>5 DEF Opened

LEMMA BegunAdministered ==
  ASSUME TypeInv, NEW i \in Requests, Administered(i)
  PROVE  \E r : Begun(r) /\ Begin(i, r) /\ Reads
<1>1. ASSUME NEW a \in Users, NEW u \in Users, DeleteUser(i, a, u)
      PROVE  \E r : Begun(r) /\ Begin(i, r) /\ Reads
  <2> DEFINE r == Change("deleteUser", a, u, "keep", "keep")
  <2>1. r \in AnyRequest /\ Stands(r) /\ Names(r)
    <3>1. r \in AnyRequest
      <4>1. "deleteUser" \in Ops /\ "keep" \in SomeRole /\ "keep" \in Asked
        BY DEF Ops, SomeRole, Asked
      <4> QED BY <4>1, ChangeType
    <3>2. Stands(r) /\ Names(r)
      BY DEF Change, Idle, Stands, Names
    <3> QED BY <3>1, <3>2
  <2>2. Begun(r)
    BY <2>1 DEF Begun, Change, Idle, Enters, Opens, Applies
  <2> QED BY <2>2, <1>1 DEF DeleteUser
<1>2. ASSUME NEW a \in Users, NEW u \in Users, NEW g \in {"keep", "admin", "user"},
             NEW s \in {"keep", "active", "disabled"}, UpdateUser(i, a, u, g, s)
      PROVE  \E r : Begun(r) /\ Begin(i, r) /\ Reads
  <2> DEFINE r == Change("updateUser", a, u, g, s)
  <2>1. r \in AnyRequest /\ Stands(r) /\ Names(r)
    <3>1. r \in AnyRequest
      <4>1. "updateUser" \in Ops /\ g \in SomeRole /\ s \in Asked
        BY DEF Ops, SomeRole, Asked, Roles
      <4> QED BY <4>1, ChangeType
    <3>2. Stands(r) /\ Names(r)
      BY DEF Change, Idle, Stands, Names, Roles
    <3> QED BY <3>1, <3>2
  <2>2. Begun(r)
    BY <2>1 DEF Begun, Change, Idle, Enters, Opens, Applies
  <2> QED BY <2>2, <1>2 DEF UpdateUser
<1> QED BY <1>1, <1>2 DEF Administered

LEMMA BegunShared ==
  ASSUME TypeInv, NEW i \in Requests, Shared(i)
  PROVE  \E r : Begun(r) /\ Begin(i, r) /\ Reads
<1>1. ASSUME NEW u \in Users, NEW t \in Teams, CreateTenant(i, u, t)
      PROVE  \E r : Begun(r) /\ Begin(i, r) /\ Reads
  <2> DEFINE r == [Idle EXCEPT !.op = "createTenant", !.pc = "write", !.user = u, !.tenant = t]
  <2>1. r \in AnyRequest /\ Stands(r) /\ Names(r)
    <3>1. r \in AnyRequest
      BY IdleType DEF AnyRequest, Ops, Steps, Tenants, Sound
    <3>2. Stands(r) /\ Names(r)
      BY DEF Idle, Stands, Names, Tenants
    <3> QED BY <3>1, <3>2
  <2>2. Begun(r)
    BY <2>1 DEF Begun, Idle, Enters, Opens, Applies
  <2> QED BY <2>2, <1>1 DEF CreateTenant
<1>2. ASSUME NEW u \in Users, NEW t \in Tenants, DeleteTenant(i, u, t)
      PROVE  \E r : Begun(r) /\ Begin(i, r) /\ Reads
  <2> DEFINE r == [Idle EXCEPT !.op = "deleteTenant", !.pc = "write", !.user = u, !.tenant = t]
  <2>1. r \in AnyRequest /\ Stands(r) /\ Names(r)
    <3>1. r \in AnyRequest
      BY IdleType DEF AnyRequest, Ops, Steps, Sound
    <3>2. Stands(r) /\ Names(r)
      BY DEF Idle, Stands, Names
    <3> QED BY <3>1, <3>2
  <2>2. Begun(r)
    BY <2>1 DEF Begun, Idle, Enters, Opens, Applies
  <2> QED BY <2>2, <1>2 DEF DeleteTenant
<1>3. ASSUME NEW s \in sessions, NEW t \in Tenants, Select(i, s, t)
      PROVE  \E r : Begun(r) /\ Begin(i, r) /\ Reads
  <2> DEFINE r == [Opening("select", s.user, s.era, t, "write") EXCEPT !.session = s.id]
  <2>1. started \in Nat /\ s \in AnySession /\ users[s.user].there /\ s.era <= users[s.user].era
    BY DEF TypeInv, ReqsInv, RowsInv
  <2>2. GetTenant(t)
    BY <1>3 DEF Select, GetMember
  <2>3. r \in AnyRequest /\ Stands(r) /\ Names(r)
    <3>1. r \in AnyRequest
      <4>1. "select" \in Ops /\ "write" \in Steps /\ t \in Somewhere
        BY DEF Ops, Steps, Somewhere
      <4>2. s.id \in SomeId /\ s.user \in Users /\ s.era \in Nat
        BY <2>1 DEF AnySession, SomeId
      <4>3. Opening("select", s.user, s.era, t, "write") \in AnyRequest
        BY <2>1, <4>1, <4>2, OpeningType
      <4> QED BY <4>2, <4>3, RequestSet
    <3>2. Stands(r) /\ Names(r)
      BY <2>1 DEF Opening, Idle, AnySession, Stands, Names
    <3> QED BY <3>1, <3>2
  <2>4. Begun(r)
    BY <2>1, <2>2, <2>3 DEF Begun, Opening, Idle, Enters, Opens, Applies
  <2> QED BY <2>4, <1>3 DEF Select
<1>4. ASSUME NEW a \in Users, NEW u \in Users, NEW t \in Tenants, NEW new \in Roles \union {None},
             NEW op \in {"addMember", "updateRole", "removeMember"}, op = "removeMember" <=> new = None,
             Begin(i, Membership(op, a, t, u, new)), Reads
      PROVE  \E r : Begun(r) /\ Begin(i, r) /\ Reads
  <2> DEFINE r == Membership(op, a, t, u, new)
  <2>1. role[t][a] \in Roles \union {None}
    BY DEF TypeInv, RowsInv
  <2>2. r \in AnyRequest /\ Stands(r) /\ Names(r)
    <3>1. r \in AnyRequest
      <4>1. op \in Ops /\ new \in SomeRole /\ role[t][a] \in SomeRow
        BY <2>1 DEF Ops, SomeRole, SomeRow
      <4> QED BY <4>1, MembershipType
    <3>2. Stands(r) /\ Names(r)
      BY <1>4, <2>1 DEF Membership, Idle, Stands, Names, Roles
    <3> QED BY <3>1, <3>2
  <2>3. Begun(r)
    BY <2>2 DEF Begun, Membership, Idle, Enters, Opens, Applies
  <2> QED BY <2>3, <1>4
<1>5. ASSUME NEW a \in Users, NEW u \in Users, NEW t \in Tenants, RemoveMember(i, a, t, u)
      PROVE  \E r : Begun(r) /\ Begin(i, r) /\ Reads
  BY <1>4, <1>5 DEF RemoveMember
<1>6. None \notin Roles
  BY AccessAssumption
<1>7. ASSUME NEW a \in Users, NEW u \in Users, NEW t \in Tenants, NEW new \in Roles,
             AddMember(i, a, t, u, new) \/ UpdateRole(i, a, t, u, new)
      PROVE  \E r : Begun(r) /\ Begin(i, r) /\ Reads
  BY <1>4, <1>6, <1>7 DEF AddMember, UpdateRole
<1> QED BY <1>1, <1>2, <1>3, <1>5, <1>7 DEF Shared

LEMMA BegunPlanned ==
  ASSUME TypeInv, NEW i \in Requests, Planned(i)
  PROVE  \E r : Begun(r) /\ Begin(i, r) /\ Reads
<1>1. ASSUME NEW u \in Users, NEW t \in Tenants, Fetch(i, u, t)
      PROVE  \E r : Begun(r) /\ Begin(i, r) /\ Reads
  <2> DEFINE r == [Idle EXCEPT !.op = "fetch", !.pc = "today", !.tenant = t,
                               !.limit = plans[quota[t]].limit, !.day = day]
  <2>1. quota[t] # None /\ quota[t] \in Plans /\ plans[quota[t]].limit \in Limits
        /\ day \in 1..MaxDays
    BY <1>1 DEF Fetch, TypeInv, RowsInv
  <2>2. r \in AnyRequest
    <3>1. Idle \in AnyRequest
      BY IdleType DEF Sound
    <3>2. "fetch" \in Ops /\ "today" \in Steps /\ t \in Somewhere
          /\ plans[quota[t]].limit \in SomeLimit /\ day \in SomeDay
      BY <2>1, AccessAssumption DEF Ops, Steps, Somewhere, SomeLimit, SomeDay
    <3> QED BY <3>1, <3>2, RequestSet
  <2>3. Stands(r) /\ Names(r)
    BY <2>1 DEF Idle, Stands, Names
  <2>4. Begun(r)
    BY <2>1, <2>2, <2>3 DEF Begun, Idle, Enters, Opens, Applies
  <2> QED BY <2>4, <1>1 DEF Fetch
<1>2. ASSUME NEW p \in Plans, NEW d \in BOOLEAN, NEW l \in SomeLimit, NEW x \in Somewhere,
             NEW op \in {"createPlan", "updatePlan", "deletePlan", "assignPlan"},
             op \in {"createPlan", "updatePlan"} => l \in Limits,
             op = "assignPlan" => x \in Tenants,
             Begin(i, [PlanRequest(op, p, d, l) EXCEPT !.tenant = x]), Reads
      PROVE  \E r : Begun(r) /\ Begin(i, r) /\ Reads
  <2> DEFINE r == [PlanRequest(op, p, d, l) EXCEPT !.tenant = x]
  <2>1. r \in AnyRequest
    <3>1. op \in Ops
      BY DEF Ops
    <3>2. PlanRequest(op, p, d, l) \in AnyRequest
      BY <3>1, PlanRequestType
    <3> QED BY <3>2, RequestSet
  <2>2. Stands(r) /\ Names(r)
    BY <1>2 DEF PlanRequest, Idle, Stands, Names
  <2>3. Begun(r)
    BY <2>1, <2>2 DEF Begun, PlanRequest, Idle, Enters, Opens, Applies
  <2> QED BY <2>3, <1>2
<1>3. ASSUME NEW p \in Plans, NEW d \in BOOLEAN, NEW l \in SomeLimit,
             NEW op \in {"createPlan", "updatePlan", "deletePlan"},
             op \in {"createPlan", "updatePlan"} => l \in Limits,
             Begin(i, PlanRequest(op, p, d, l)), Reads
      PROVE  \E r : Begun(r) /\ Begin(i, r) /\ Reads
  <2> DEFINE r == PlanRequest(op, p, d, l)
  <2>1. op \in Ops
    BY DEF Ops
  <2>2. r \in AnyRequest
    BY <2>1, PlanRequestType
  <2>3. Stands(r) /\ Names(r)
    BY <1>3 DEF PlanRequest, Idle, Stands, Names
  <2>4. Begun(r)
    BY <2>2, <2>3 DEF Begun, PlanRequest, Idle, Enters, Opens, Applies
  <2> QED BY <2>4, <1>3
<1>4. 0 \in SomeLimit /\ Limits \subseteq SomeLimit /\ Tenants \subseteq Somewhere
  BY DEF SomeLimit, Somewhere
<1>5. ASSUME NEW a \in Users, NEW p \in Plans, NEW d \in BOOLEAN, NEW l \in Limits,
             CreatePlan(i, a, p, d, l)
      PROVE  \E r : Begun(r) /\ Begin(i, r) /\ Reads
  BY <1>3, <1>4, <1>5 DEF CreatePlan
<1>6. ASSUME NEW a \in Users, NEW p \in Plans, NEW d \in BOOLEAN, NEW l \in Limits,
             UpdatePlan(i, a, p, d, l)
      PROVE  \E r : Begun(r) /\ Begin(i, r) /\ Reads
  BY <1>3, <1>4, <1>6 DEF UpdatePlan
<1>7. ASSUME NEW a \in Users, NEW p \in Plans, DeletePlan(i, a, p)
      PROVE  \E r : Begun(r) /\ Begin(i, r) /\ Reads
  BY <1>3, <1>4, <1>7 DEF DeletePlan
<1>8. ASSUME NEW a \in Users, NEW p \in Plans, NEW t \in Tenants, AssignPlan(i, a, t, p)
      PROVE  \E r : Begun(r) /\ Begin(i, r) /\ Reads
  BY <1>2, <1>4, <1>8 DEF AssignPlan
<1> QED BY <1>1, <1>5, <1>6, <1>7, <1>8 DEF Planned

\* A set of numbers that is not empty has a least one.
LEMMA HasLeast ==
  ASSUME NEW S, S \subseteq Nat, S # {}
  PROVE  \E n \in S : \A m \in S : n <= m
<1>1. PICK n \in S : \A m \in S : ~(<<m, n>> \in OpToRel(<, Nat))
  BY NatLessThanWellFounded, WFMin
<1>2. ASSUME NEW m \in S PROVE n <= m
  <2>1. ~(m < n)
    BY <1>1 DEF OpToRel
  <2> QED BY <2>1
<1> QED BY <1>2

LEMMA FirstIsThere ==
  ASSUME NEW u \in Users, created \in Seq(Tenants)
  PROVE  First(ListTenants(u)) = None \/ GetTenant(First(ListTenants(u)))
<1> DEFINE S == ListTenants(u)
<1>1. CASE S = {}
  BY <1>1 DEF First
<1>2. CASE S # {}
  <2>1. S \subseteq Nat
    BY DEF ListTenants
  <2>2. \E n \in S : \A m \in S : n <= m
    BY <2>1, <1>2, HasLeast
  <2>3. (CHOOSE n \in S : \A m \in S : n <= m) \in S
    BY <2>2
  <2>4. First(S) = created[CHOOSE n \in S : \A m \in S : n <= m]
    BY <1>2 DEF First
  <2> QED BY <2>3, <2>4 DEF ListTenants, GetMember
<1> QED BY <1>1, <1>2

\* A request that has read more, or that has ended.
Same(r, x) ==
  /\ x.op = r.op /\ x.user = r.user /\ x.plan = r.plan /\ x.id = r.id /\ x.era = r.era
  /\ x.raced = r.raced /\ x.role = r.role /\ x.default = r.default /\ x.limit = r.limit
  /\ r.op = "fetch" \/ (x.late = r.late /\ x.day = r.day)
  /\ \/ x.tenant = r.tenant
     \/ r.op = "login" /\ (x.tenant = None \/ GetTenant(x.tenant))
Follows(r, x) ==
  \/ x = Idle
  \/ /\ x \in AnyRequest /\ Stands(x) /\ Names(x) /\ Same(r, x)
     /\ ~Applies(r) /\ ~Applies(x) /\ x.pc # "sessions"
     /\ r.op = "fetch" => /\ r.pc = "today" /\ x.pc = "consume" /\ x.tenant = r.tenant
                          /\ x.day = day /\ x.late = (r.day # day)

\* The steps that only read.
Reading(i) ==
  \/ FirstTenant(i) \/ ReadBack(i) \/ GetUserByID(i) \/ CountPlatformAdmins(i)
  \/ ReadMember(i) \/ Snapshot(i) \/ ReadPlan(i) \/ ClearDefaultPlanExcept(i) \/ Today(i)

LEMMA GotoFollows ==
  ASSUME NEW i \in Requests, req \in [Requests -> AnyRequest], NEW pc \in Steps,
         Names(req[i]), ~Applies(req[i]), req[i].op # "fetch", pc # "sessions",
         NEW x, x = [req[i] EXCEPT !.pc = pc], Stands(x), ~Applies(x),
         Goto(i, pc), Reads
  PROVE  \E y : Follows(req[i], y) /\ req' = [req EXCEPT ![i] = y] /\ Idles /\ Reads
<1>1. req[i] \in AnyRequest
  OBVIOUS
<1>2. x \in AnyRequest
  BY <1>1, RequestSet
<1>3. x.pc = pc /\ x.op = req[i].op /\ x.user = req[i].user /\ x.tenant = req[i].tenant
      /\ x.plan = req[i].plan /\ x.id = req[i].id /\ x.era = req[i].era /\ x.raced = req[i].raced
      /\ x.late = req[i].late /\ x.role = req[i].role /\ x.default = req[i].default
      /\ x.limit = req[i].limit /\ x.day = req[i].day
  BY <1>1, RequestSet
<1>4. req' = [req EXCEPT ![i] = x] /\ Idles
  BY DEF Goto
<1>5. Same(req[i], x)
  BY <1>3 DEF Same
<1>6. Names(x)
  BY <1>3 DEF Names
<1>7. Follows(req[i], x)
  BY <1>2, <1>3, <1>5, <1>6 DEF Follows
<1> QED BY <1>4, <1>7

LEMMA EndFollows ==
  ASSUME NEW i \in Requests, End(i), Reads
  PROVE  \E x : Follows(req[i], x) /\ req' = [req EXCEPT ![i] = x] /\ Idles /\ Reads
BY DEF End, Follows

LEMMA ReadingFollows ==
  ASSUME TypeInv, NEW i \in Requests, Reading(i)
  PROVE  \E x : Follows(req[i], x) /\ req' = [req EXCEPT ![i] = x] /\ Idles /\ Reads
<1> DEFINE Goal == \E x : Follows(req[i], x) /\ req' = [req EXCEPT ![i] = x] /\ Idles /\ Reads
<1> USE DEF Applies
<1>1. req \in [Requests -> AnyRequest] /\ req[i] \in AnyRequest /\ Stands(req[i]) /\ Names(req[i])
  BY DEF TypeInv, ReqsInv, Sound
<1>2. ASSUME NEW pc \in Steps, Goto(i, pc), Reads, req[i].op # "fetch", pc # "sessions",
             ~Applies(req[i]), NEW x, x = [req[i] EXCEPT !.pc = pc], Stands(x), ~Applies(x)
      PROVE  Goal
  BY <1>1, <1>2, GotoFollows
<1>3. ASSUME End(i), Reads PROVE Goal
  BY <1>3, EndFollows
<1>4. CASE FirstTenant(i)
  <2> DEFINE t == First(ListTenants(req[i].user))
             x == [req[i] EXCEPT !.tenant = t, !.pc = "session"]
  <2>1. req[i].op = "login" /\ req[i].pc = "tenants" /\ req[i].user \in Users
    BY <1>1, <1>4 DEF FirstTenant, At, Names
  <2>2. t = None \/ GetTenant(t)
    BY <2>1, FirstIsThere DEF TypeInv, RowsInv
  <2>3. t \in Somewhere
    BY <2>2, TenantIsBorn DEF Somewhere, Born, TypeInv, RowsInv
  <2> HIDE DEF t
  <2>4. x \in AnyRequest
    <3>1. "session" \in Steps
      BY DEF Steps
    <3> QED BY <1>1, <2>3, <3>1, RequestSet
  <2>5. x.tenant = t /\ x.pc = "session" /\ x.op = req[i].op /\ x.user = req[i].user
        /\ x.plan = req[i].plan /\ x.id = req[i].id /\ x.era = req[i].era /\ x.raced = req[i].raced
        /\ x.late = req[i].late /\ x.role = req[i].role /\ x.default = req[i].default
        /\ x.limit = req[i].limit /\ x.day = req[i].day
    BY <1>1, RequestSet
  <2>6. req' = [req EXCEPT ![i] = x] /\ Idles /\ Reads
    BY <1>4 DEF FirstTenant, t
  <2> HIDE DEF x
  <2>7. Stands(x) /\ Names(x)
    BY <2>1, <2>5 DEF Stands, Names
  <2>8. Same(req[i], x)
    BY <2>1, <2>2, <2>5 DEF Same
  <2>9. Follows(req[i], x)
    BY <2>1, <2>4, <2>5, <2>7, <2>8 DEF Follows
  <2> QED BY <2>6, <2>9
<1>5. CASE ReadBack(i)
  <2>1. req[i].op = "register" /\ req[i].pc = "readback" /\ Reads /\ (Goto(i, "session") \/ End(i))
    BY <1>5 DEF ReadBack, At
  <2>2. CASE Goto(i, "session")
    <3>1. PICK x : x = [req[i] EXCEPT !.pc = "session"]
      OBVIOUS
    <3>2. x.op = "register" /\ x.pc = "session"
      BY <2>1, <3>1, <1>1, RequestSet
    <3>3. Stands(x) /\ ~Applies(x) /\ "session" \in Steps
      BY <3>2 DEF Stands, Steps
    <3> QED BY <1>2, <2>1, <2>2, <3>1, <3>3
  <2> QED BY <1>3, <2>1, <2>2
<1>6. CASE GetUserByID(i)
  <2>1. /\ req[i].pc = "user" /\ req[i].op \in {"password", "updateUser", "deleteUser"} /\ Reads
        /\ \/ End(i)
           \/ req[i].op = "password" /\ Goto(i, "password")
           \/ req[i].op = "deleteUser" /\ Goto(i, "delete")
           \/ /\ req[i].op = "updateUser"
              /\ \E pc \in {"count", "status"} :
                   req' = [req EXCEPT ![i].was = StatusOf(req[i].user), ![i].pc = pc]
              /\ Idles
    BY <1>6 DEF GetUserByID
  <2>2. CASE req[i].op = "password" /\ Goto(i, "password")
    <3>1. PICK x : x = [req[i] EXCEPT !.pc = "password"]
      OBVIOUS
    <3>2. x.op = "password" /\ x.pc = "password"
      BY <2>2, <3>1, <1>1, RequestSet
    <3>3. Stands(x) /\ ~Applies(x) /\ "password" \in Steps
      BY <3>2 DEF Stands, Steps
    <3> QED BY <1>2, <2>1, <2>2, <3>1, <3>3
  <2>3. CASE req[i].op = "deleteUser" /\ Goto(i, "delete")
    <3>1. PICK x : x = [req[i] EXCEPT !.pc = "delete"]
      OBVIOUS
    <3>2. x.op = "deleteUser" /\ x.pc = "delete"
      BY <2>3, <3>1, <1>1, RequestSet
    <3>3. Stands(x) /\ ~Applies(x) /\ "delete" \in Steps
      BY <3>2 DEF Stands, Steps
    <3> QED BY <1>2, <2>1, <2>3, <3>1, <3>3
  <2>4. ASSUME NEW pc \in {"count", "status"}, req[i].op = "updateUser",
               req' = [req EXCEPT ![i].was = StatusOf(req[i].user), ![i].pc = pc], Idles
        PROVE  Goal
    <3> DEFINE x == [req[i] EXCEPT !.was = StatusOf(req[i].user), !.pc = pc]
    <3>1. StatusOf(req[i].user) \in WasSet /\ pc \in Steps
      BY DEF StatusOf, WasSet, Steps
    <3>2. x \in AnyRequest
      BY <1>1, <3>1, RequestSet
    <3>3. x.pc = pc /\ x.op = req[i].op /\ x.user = req[i].user /\ x.tenant = req[i].tenant
        /\ x.plan = req[i].plan /\ x.id = req[i].id /\ x.era = req[i].era /\ x.raced = req[i].raced
        /\ x.late = req[i].late /\ x.role = req[i].role /\ x.default = req[i].default
        /\ x.limit = req[i].limit /\ x.day = req[i].day
      BY <1>1, RequestSet
    <3>4. req' = [req EXCEPT ![i] = x]
      BY <2>4, <1>1, RequestSet
    <3> HIDE DEF x
    <3>5. Stands(x) /\ Names(x)
      BY <1>1, <2>4, <3>3 DEF Stands, Names
    <3>6. Same(req[i], x)
      BY <3>3 DEF Same
    <3>7. Follows(req[i], x)
      BY <2>4, <3>2, <3>3, <3>5, <3>6 DEF Follows
    <3> QED BY <2>1, <2>4, <3>4, <3>7
  <2> QED BY <1>3, <2>1, <2>2, <2>3, <2>4
<1>7. CASE CountPlatformAdmins(i)
  <2>1. /\ req[i].op = "updateUser" /\ req[i].pc = "count" /\ Reads
        /\ End(i) \/ \E pc \in {"status", "role"} : Goto(i, pc)
    BY <1>7 DEF CountPlatformAdmins, At
  <2>2. ASSUME NEW pc \in {"status", "role"}, Goto(i, pc) PROVE Goal
    <3>1. PICK x : x = [req[i] EXCEPT !.pc = pc]
      OBVIOUS
    <3>2. x.op = "updateUser" /\ x.pc = pc
      BY <2>1, <3>1, <1>1, RequestSet
    <3>3. Stands(x) /\ ~Applies(x) /\ pc \in Steps
      BY <3>2 DEF Stands, Steps
    <3> QED BY <1>2, <2>1, <2>2, <3>1, <3>3
  <2> QED BY <1>3, <2>1, <2>2
<1>8. CASE ReadMember(i)
  <2>1. /\ req[i].op \in {"addMember", "updateRole", "removeMember"} /\ Reads
        /\ End(i) \/ \E pc \in {"snapshot", "write"} : Goto(i, pc)
    BY <1>8 DEF ReadMember
  <2>2. ASSUME NEW pc \in {"snapshot", "write"}, Goto(i, pc) PROVE Goal
    <3>1. PICK x : x = [req[i] EXCEPT !.pc = pc]
      OBVIOUS
    <3>2. x.op = req[i].op /\ x.pc = pc
      BY <2>1, <3>1, <1>1, RequestSet
    <3>3. Stands(x) /\ ~Applies(x) /\ pc \in Steps
      BY <2>1, <3>2 DEF Stands, Steps
    <3> QED BY <1>2, <2>1, <2>2, <3>1, <3>3
  <2> QED BY <1>3, <2>1, <2>2
<1>9. CASE Snapshot(i)
  <2> DEFINE n == Cardinality(Owners(req[i].tenant))
             x == [req[i] EXCEPT !.owners = n, !.pc = "write"]
  <2>1. req[i].op = "removeMember"
    BY <1>9 DEF Snapshot, At
  <2>2. n \in Nat
    <3>1. IsFiniteSet(Owners(req[i].tenant))
      BY ConstantFacts, FS_Subset DEF Owners
    <3> QED BY <3>1, FS_CardinalityType
  <2>3. req' = [req EXCEPT ![i] = x] /\ Idles /\ Reads
    BY <1>9 DEF Snapshot
  <2> HIDE DEF n
  <2>4. x \in AnyRequest
    <3>1. "write" \in Steps
      BY DEF Steps
    <3> QED BY <1>1, <2>2, <3>1, RequestSet
  <2>5. x.pc = "write" /\ x.op = req[i].op /\ x.user = req[i].user /\ x.tenant = req[i].tenant
        /\ x.plan = req[i].plan /\ x.id = req[i].id /\ x.era = req[i].era /\ x.raced = req[i].raced
        /\ x.late = req[i].late /\ x.role = req[i].role /\ x.default = req[i].default
        /\ x.limit = req[i].limit /\ x.day = req[i].day
    BY <1>1, RequestSet
  <2> HIDE DEF x
  <2>6. Stands(x) /\ Names(x)
    BY <1>1, <2>1, <2>5 DEF Stands, Names
  <2>7. Same(req[i], x)
    BY <2>5 DEF Same
  <2>8. Follows(req[i], x)
    BY <2>1, <2>4, <2>5, <2>6, <2>7 DEF Follows
  <2> QED BY <2>3, <2>8
<1>10. CASE ReadPlan(i)
  <2>1. /\ req[i].op \in {"createPlan", "updatePlan", "deletePlan", "assignPlan"} /\ Reads
        /\ End(i) \/ \E pc \in {"snapshot", "write"} : Goto(i, pc)
    BY <1>10 DEF ReadPlan
  <2>2. ASSUME NEW pc \in {"snapshot", "write"}, Goto(i, pc) PROVE Goal
    <3>1. PICK x : x = [req[i] EXCEPT !.pc = pc]
      OBVIOUS
    <3>2. x.op = req[i].op /\ x.pc = pc
      BY <2>1, <3>1, <1>1, RequestSet
    <3>3. Stands(x) /\ ~Applies(x) /\ pc \in Steps
      BY <2>1, <3>2 DEF Stands, Steps
    <3> QED BY <1>2, <2>1, <2>2, <3>1, <3>3
  <2> QED BY <1>3, <2>1, <2>2
<1>11. CASE ClearDefaultPlanExcept(i)
  <2> DEFINE v == Defaults \ {req[i].plan}
             x == [req[i] EXCEPT !.victims = v, !.pc = "write"]
  <2>1. req[i].op \in {"createPlan", "updatePlan"}
    BY <1>11 DEF ClearDefaultPlanExcept
  <2>2. v \in SUBSET Plans
    BY DEF Defaults
  <2>3. req' = [req EXCEPT ![i] = x] /\ Idles /\ Reads
    BY <1>11 DEF ClearDefaultPlanExcept
  <2> HIDE DEF v
  <2>4. x \in AnyRequest
    <3>1. "write" \in Steps
      BY DEF Steps
    <3> QED BY <1>1, <2>2, <3>1, RequestSet
  <2>5. x.pc = "write" /\ x.op = req[i].op /\ x.user = req[i].user /\ x.tenant = req[i].tenant
        /\ x.plan = req[i].plan /\ x.id = req[i].id /\ x.era = req[i].era /\ x.raced = req[i].raced
        /\ x.late = req[i].late /\ x.role = req[i].role /\ x.default = req[i].default
        /\ x.limit = req[i].limit /\ x.day = req[i].day
    BY <1>1, RequestSet
  <2> HIDE DEF x
  <2>6. Stands(x) /\ Names(x)
    BY <1>1, <2>1, <2>5 DEF Stands, Names
  <2>7. Same(req[i], x)
    BY <2>5 DEF Same
  <2>8. Follows(req[i], x)
    BY <2>1, <2>4, <2>5, <2>6, <2>7 DEF Follows
  <2> QED BY <2>3, <2>8
<1>12. CASE Today(i)
  <2> DEFINE x == [req[i] EXCEPT !.late = req[i].day # day, !.day = day, !.pc = "consume"]
  <2>1. req[i].op = "fetch" /\ req[i].pc = "today" /\ Reads /\ Idles /\ req' = [req EXCEPT ![i] = x]
    BY <1>1, <1>12 DEF Today, At
  <2>2. PICK late \in BOOLEAN : late = (req[i].day # day)
    OBVIOUS
  <2>3. x = [req[i] EXCEPT !.late = late, !.day = day, !.pc = "consume"]
    BY <2>2
  <2>4. day \in SomeDay /\ "consume" \in Steps
    <3>1. day \in 1..MaxDays
      BY DEF TypeInv, RowsInv
    <3> QED BY <3>1, AccessAssumption DEF SomeDay, Steps
  <2>5. x \in AnyRequest
    BY <1>1, <2>2, <2>3, <2>4, RequestSet
  <2>6. /\ x.pc = "consume" /\ x.op = req[i].op /\ x.user = req[i].user /\ x.tenant = req[i].tenant
        /\ x.plan = req[i].plan /\ x.id = req[i].id /\ x.era = req[i].era /\ x.raced = req[i].raced
        /\ x.late = late /\ x.role = req[i].role /\ x.default = req[i].default
        /\ x.limit = req[i].limit /\ x.day = day
    BY <1>1, <2>3, RequestSet
  <2> HIDE DEF x
  <2>7. Stands(x) /\ Names(x)
    BY <1>1, <2>1, <2>6 DEF Stands, Names
  <2>8. Same(req[i], x)
    BY <2>1, <2>6 DEF Same
  <2>9. Follows(req[i], x)
    BY <2>1, <2>2, <2>5, <2>6, <2>7, <2>8 DEF Follows
  <2> QED BY <2>1, <2>9
<1> QED BY <1>4, <1>5, <1>6, <1>7, <1>8, <1>9, <1>10, <1>11, <1>12 DEF Reading

-----------------------------------------------------------------------------
(* The rows and the requests: the steps that only read.                    *)

\* One request goes on, and the others are what they were.
LEMMA OthersSound ==
  ASSUME TypeInv, RowsInv', started' \in Nat, Keeps, NEW i \in Requests, NEW x, Sound(x)',
         req' = [req EXCEPT ![i] = x]
  PROVE  ReqsInv'
<1>1. req \in [Requests -> AnyRequest] /\ started \in Nat /\ RowsInv
  BY DEF TypeInv, ReqsInv
<1>2. x \in AnyRequest
  BY DEF Sound
<1>3. req' \in [Requests -> AnyRequest]
  BY <1>1, <1>2
<1>4. ASSUME NEW j \in Requests PROVE Sound(req[j])'
  <2>1. CASE j = i
    <3>1. req'[j] = x
      BY <2>1, <1>1
    <3> QED BY <3>1
  <2>2. CASE j # i
    <3>1. PICK r : r = req[j]
      OBVIOUS
    <3>2. Sound(r)
      BY <3>1 DEF TypeInv, ReqsInv
    <3>3. Sound(r)'
      BY <1>1, <3>2, KnowsStays
    <3>4. req'[j] = r
      BY <2>2, <3>1, <1>1
    <3> QED BY <3>3, <3>4
  <2> QED BY <2>1, <2>2
<1> QED BY <1>3, <1>4 DEF ReqsInv

\* No session is new, and no request gets a number that was given before.
LEMMA IdsKept ==
  ASSUME TypeInv, ReqsInv', NEW i \in Requests, NEW x, req' = [req EXCEPT ![i] = x],
         \/ ~Enters(x)
         \/ Enters(req[i]) /\ x.id = req[i].id
         \/ x.id = started + 1 /\ x.id <= started',
         started <= started', started' \in Nat,
         \A s \in sessions' : \E z \in sessions : s.id = z.id,
         \A s, z \in sessions' : s.id = z.id => s = z
  PROVE  IdsInv'
<1>1. /\ started \in Nat /\ req \in [Requests -> AnyRequest]
      /\ \A j \in Requests : Enters(req[j]) => req[j].id \in 1..started
      /\ sessions \subseteq AnySession
  BY DEF TypeInv, ReqsInv, RowsInv, Sound, Knows
<1>2. /\ \A s \in sessions : s.id <= started
      /\ \A j \in Requests : Enters(req[j]) =>
           /\ \A s \in sessions : s.id # req[j].id
           /\ \A k \in Requests \ {j} : Enters(req[k]) => req[k].id # req[j].id
  BY DEF TypeInv, IdsInv
<1>3. ASSUME NEW s \in sessions' PROVE s.id <= started'
  <2>1. PICK z \in sessions : s.id = z.id
    OBVIOUS
  <2>2. z.id <= started /\ z.id \in Int
    BY <1>1, <1>2 DEF AnySession
  <2> QED BY <2>1, <2>2, <1>1
<1>4. ASSUME NEW j \in Requests, Enters(req'[j]), NEW s \in sessions' PROVE s.id # req'[j].id
  <2>1. PICK z \in sessions : s.id = z.id
    OBVIOUS
  <2>2. z.id <= started /\ z.id \in Int
    BY <1>1, <1>2 DEF AnySession
  <2>3. CASE j # i \/ (Enters(req[i]) /\ x.id = req[i].id)
    <3>1. Enters(req[j]) /\ req'[j].id = req[j].id
      BY <2>3, <1>4, <1>1
    <3> QED BY <3>1, <2>1, <1>2
  <2>4. CASE j = i /\ x.id = started + 1
    BY <2>1, <2>2, <2>4, <1>1
  <2> QED BY <2>3, <2>4, <1>1, <1>4
<1>5. ASSUME NEW j \in Requests, Enters(req'[j]), NEW k \in Requests, k # j, Enters(req'[k])
      PROVE  req'[k].id # req'[j].id
  <2>1. CASE \/ j # i /\ k # i
             \/ Enters(req[i]) /\ x.id = req[i].id
    <3>1. Enters(req[j]) /\ req'[j].id = req[j].id /\ Enters(req[k]) /\ req'[k].id = req[k].id
      BY <2>1, <1>5, <1>1
    <3> QED BY <3>1, <1>2, <1>5
  <2>2. CASE j = i /\ x.id = started + 1
    <3>1. Enters(req[k]) /\ req'[k] = req[k] /\ req'[j] = x
      BY <2>2, <1>1, <1>5
    <3>2. req[k].id \in 1..started
      BY <3>1, <1>1
    <3> QED BY <3>1, <3>2, <2>2, <1>1
  <2>3. CASE k = i /\ x.id = started + 1
    <3>1. Enters(req[j]) /\ req'[j] = req[j] /\ req'[k] = x
      BY <2>3, <1>1, <1>5
    <3>2. req[j].id \in 1..started
      BY <3>1, <1>1
    <3> QED BY <3>1, <3>2, <2>3, <1>1
  <2>4. j = i \/ k = i => Enters(x)
    BY <1>1, <1>5
  <2> QED BY <2>1, <2>2, <2>3, <2>4
<1> QED BY <1>3, <1>4, <1>5 DEF IdsInv

LEMMA ReadsKeeps ==
  ASSUME TypeInv, Reads, started' \in {started, started + 1}
  PROVE  RowsInv' /\ Keeps /\ started' \in Nat /\ started <= started'
<1>1. RowsInv'
  BY DEF TypeInv, RowsInv, Reads, accountVars, tenantVars, planVars, usageVars, Born
<1>2. started \in Nat /\ day \in Int /\ \A u \in Users : users[u].era \in Nat
  BY DEF TypeInv, RowsInv, ReqsInv
<1>3. users' = users /\ Born' = Born /\ day' = day
  BY DEF Reads, accountVars, tenantVars, usageVars, Born
<1> QED BY <1>1, <1>2, <1>3 DEF Keeps

LEMMA BeginType ==
  ASSUME TypeInv, NEW i \in Requests, NEW r, Begun(r), Begin(i, r), Reads
  PROVE  TypeInv'
<1>1. started' = started + 1 /\ req' = [req EXCEPT ![i] = r] /\ started \in Nat /\ day \in 1..MaxDays
  BY DEF Begin, TypeInv, ReqsInv, RowsInv
<1>2. RowsInv' /\ Keeps /\ started' \in Nat /\ started <= started'
  BY <1>1, ReadsKeeps
<1>3. Sound(r)'
  <2>1. (r \in AnyRequest /\ Stands(r) /\ Names(r))'
    BY DEF Begun, AnyRequest, Stands, Names
  <2>2. users' = users /\ Born' = Born /\ day' = day /\ created' = created /\ gone' = gone
    BY DEF Reads, accountVars, tenantVars, usageVars, Born
  <2>3. /\ r.op = "fetch" => r.day = day
        /\ Enters(r) => r.id = started + 1
        /\ Opens(r) /\ ~Applies(r) => /\ users[r.user].there /\ r.era <= users[r.user].era
                                      /\ r.tenant \in Born \union {None}
        /\ Applies(r) => r.era = 0 /\ r.tenant = r.user
    BY TenantIsBorn DEF Begun
  <2>4. (r.op = "fetch" => r.day \in 1..day)' /\ (Enters(r) => r.id \in 1..started)'
    BY <1>1, <2>2, <2>3 DEF Enters
  <2>5. (Opens(r) /\ ~Applies(r) => /\ users[r.user].there /\ r.era <= users[r.user].era
                                    /\ r.tenant \in Born \union {None})'
    BY <2>2, <2>3 DEF Opens, Applies
  <2>6. (Applies(r) => r.era = 0 /\ r.tenant = r.user)'
    BY <2>3 DEF Applies
  <2>7. Knows(r)'
    BY <2>4, <2>5, <2>6 DEF Knows
  <2> QED BY <2>1, <2>7 DEF Sound
<1>4. ReqsInv'
  BY <1>1, <1>2, <1>3, OthersSound
<1>5. sessions' = sessions
  BY DEF Reads, accountVars
<1>6. ~Enters(r) \/ (r.id = started + 1 /\ r.id <= started')
  BY <1>1 DEF Begun
<1>7. \A s, z \in sessions : s.id = z.id => s = z
  BY DEF TypeInv, IdsInv
<1>8. /\ \A s \in sessions' : \E z \in sessions : s.id = z.id
      /\ \A s, z \in sessions' : s.id = z.id => s = z
  BY <1>5, <1>7
<1>9. IdsInv'
  BY <1>1, <1>2, <1>4, <1>6, <1>8, IdsKept
<1> QED BY <1>2, <1>4, <1>9 DEF TypeInv

LEMMA FollowsType ==
  ASSUME TypeInv, NEW i \in Requests, NEW x, Follows(req[i], x), req' = [req EXCEPT ![i] = x],
         Idles, Reads
  PROVE  TypeInv'
<1>1. started' = started /\ started \in Nat
  BY DEF Idles, TypeInv, ReqsInv
<1>2. RowsInv' /\ Keeps /\ started' \in Nat /\ started <= started'
  BY <1>1, ReadsKeeps
<1>3. PICK r : r = req[i]
  OBVIOUS
<1>4. Sound(r) /\ Follows(r, x)
  BY <1>3 DEF TypeInv, ReqsInv
<1>5. Sound(x) /\ (Enters(x) => Enters(r) /\ x.id = r.id)
  <2>1. CASE x = Idle
    BY <2>1, IdleType DEF Idle, Enters
  <2>2. CASE x # Idle
    <3>1. x \in AnyRequest /\ Stands(x) /\ Names(x) /\ Same(r, x) /\ ~Applies(r) /\ ~Applies(x)
          /\ (r.op = "fetch" => x.day = day)
      BY <2>2, <1>4 DEF Follows
    <3>2. x.op = r.op /\ x.id = r.id /\ x.era = r.era /\ x.user = r.user
      BY <3>1 DEF Same
    <3>3. x.tenant = r.tenant \/ x.tenant \in Born \union {None}
      BY <3>1, TenantIsBorn DEF Same
    <3>4. Knows(r)
      BY <1>4 DEF Sound
    <3>5. x.op = "fetch" => x.day \in 1..day
      BY <3>1, <3>2 DEF TypeInv, RowsInv
    <3>6. Knows(x)
      BY <3>1, <3>2, <3>3, <3>4, <3>5 DEF Knows, Enters, Opens
    <3> QED BY <3>1, <3>2, <3>6 DEF Sound, Enters
  <2> QED BY <2>1, <2>2
<1>6. Sound(x)'
  BY <1>1, <1>2, <1>5, KnowsStays DEF TypeInv
<1>7. ReqsInv'
  BY <1>2, <1>6, OthersSound
<1>8. sessions' = sessions
  BY DEF Reads, accountVars
<1>9. ~Enters(x) \/ (Enters(req[i]) /\ x.id = req[i].id)
  BY <1>3, <1>5
<1>10. \A s, z \in sessions : s.id = z.id => s = z
  BY DEF TypeInv, IdsInv
<1>11. IdsInv'
  BY <1>2, <1>7, <1>8, <1>9, <1>10, IdsKept
<1> QED BY <1>2, <1>7, <1>11 DEF TypeInv

-----------------------------------------------------------------------------
(* The rows and the requests: the steps that write.                        *)

LEMMA IdleTypeNext == Sound(Idle)'
BY AccessAssumption DEF Sound, AnyRequest, Idle, Ops, Steps, Stands, Names, Knows, Enters, Opens, Applies

LEMMA EndType ==
  ASSUME TypeInv, RowsInv', Keeps, NEW i \in Requests, End(i),
         \A s \in sessions' : \E z \in sessions : s.id = z.id,
         \A s, z \in sessions' : s.id = z.id => s = z
  PROVE  TypeInv'
<1>1. started' = started /\ started \in Nat /\ req' = [req EXCEPT ![i] = Idle]
  BY DEF End, Idles, TypeInv, ReqsInv
<1>2. PICK x : x = Idle
  OBVIOUS
<1>3. Sound(x)' /\ ~Enters(x)
  BY <1>2, IdleTypeNext DEF Idle, Enters
<1>4. req' = [req EXCEPT ![i] = x] /\ started' \in Nat /\ started <= started'
  BY <1>1, <1>2
<1>5. ReqsInv'
  BY <1>3, <1>4, OthersSound
<1>6. IdsInv'
  BY <1>3, <1>4, <1>5, IdsKept
<1> QED BY <1>5, <1>6 DEF TypeInv

\* A request that has written goes on; it is one that opens no session.
LEMMA GotoType ==
  ASSUME TypeInv, RowsInv', Keeps, NEW i \in Requests, NEW pc \in Steps, Goto(i, pc),
         req[i].op \in {"password", "updateUser"}, NEW x, x = [req[i] EXCEPT !.pc = pc], Stands(x),
         sessions' = sessions
  PROVE  TypeInv'
<1>1. started' = started /\ started \in Nat /\ req' = [req EXCEPT ![i] = x]
  BY DEF Goto, Idles, TypeInv, ReqsInv
<1>2. req[i] \in AnyRequest /\ Names(req[i])
  BY DEF TypeInv, ReqsInv, Sound
<1>3. x \in AnyRequest /\ x.op = req[i].op /\ x.user = req[i].user /\ x.role = req[i].role
  BY <1>2, RequestSet
<1>4. Names(x)
  BY <1>2, <1>3 DEF Names
<1>5. Sound(x)' /\ ~Enters(x)
  <2>1. (x \in AnyRequest /\ Stands(x) /\ Names(x))'
    BY <1>3, <1>4 DEF AnyRequest, Stands, Names
  <2>2. Knows(x)'
    BY <1>3 DEF Knows, Enters, Opens, Applies
  <2> QED BY <2>1, <2>2, <1>3 DEF Sound, Enters
<1>6. started' \in Nat /\ started <= started'
  BY <1>1
<1>7. ReqsInv'
  BY <1>1, <1>5, <1>6, OthersSound
<1>8. /\ \A s \in sessions' : \E z \in sessions : s.id = z.id
      /\ \A s, z \in sessions' : s.id = z.id => s = z
  BY DEF TypeInv, IdsInv
<1>9. IdsInv'
  BY <1>1, <1>5, <1>6, <1>7, <1>8, IdsKept
<1> QED BY <1>7, <1>9 DEF TypeInv

LEMMA AccountRows ==
  ASSUME TypeInv, NEW u \in Users, NEW p \in Plans, NEW admin \in BOOLEAN,
         ~users[u].there, plans[p].there, CreateAccount(u, p, admin),
         sessions' = sessions, gone' = gone, plans' = plans, used' = used, day' = day, carried' = carried,
         cut' \subseteq Users, started' = started
  PROVE  RowsInv' /\ Keeps /\ Born' = Born \union {u}
<1>1. RowsInv /\ u \in Tenants /\ started \in Nat
  BY ConstantFacts DEF TypeInv, ReqsInv
<1>2. created' \in Seq(Tenants) /\ Born' = Born \union {u}
  BY <1>1, BornAppend DEF CreateAccount, RowsInv
<1>3. /\ users' \in [Users -> [there : BOOLEAN, live : BOOLEAN, active : BOOLEAN, admin : BOOLEAN, era : Nat]]
      /\ \A v \in Users : v # u => users'[v] = users[v]
      /\ users'[u] = [there |-> TRUE, live |-> TRUE, active |-> TRUE, admin |-> admin, era |-> 0]
      /\ users[u].era = 0
  BY <1>1 DEF CreateAccount, RowsInv, Person
<1>4. quota' \in [Tenants -> Plans \union {None}] /\ \A t \in Tenants : quota'[t] = IF t = u THEN p ELSE quota[t]
  BY <1>1 DEF CreateAccount, RowsInv
<1>5. ASSUME NEW v \in Users
      PROVE  /\ users'[v].live => users'[v].there
             /\ ~users'[v].there => users'[v].era = 0
             /\ users[v].there => users'[v].there
             /\ users[v].era <= users'[v].era
  <2>1. CASE v = u
    BY <2>1, <1>3
  <2>2. CASE v # u
    <3>1. users'[v] = users[v] /\ users[v].era \in Nat
      BY <2>2, <1>1, <1>3 DEF RowsInv
    <3> QED BY <3>1, <1>1 DEF RowsInv
  <2> QED BY <2>1, <2>2
<1>6. \A v \in Users : v \in Born' \/ quota'[v] # None => users'[v].there
  BY <1>1, <1>2, <1>3, <1>4, ConstantFacts DEF RowsInv
<1>8. ASSUME NEW s \in sessions
      PROVE users'[s.user].there /\ s.era <= users'[s.user].era /\ s.tenant \in Born' \union {None}
  <2>1. s.user \in Users /\ users[s.user].there /\ s.era <= users[s.user].era /\ s.tenant \in Born \union {None}
    BY <1>1 DEF RowsInv, AnySession
  <2> QED BY <2>1, <1>2, <1>3
<1>9. role' \in [Tenants -> [Users -> Roles \union {None}]]
  BY <1>1 DEF CreateAccount, RowsInv, Roles
<1>10. \A t \in Tenants : quota'[t] = None \/ plans[quota'[t]].there
  BY <1>1, <1>4 DEF RowsInv
<1>11. most' \in [Tenants -> [1..MaxDays -> SUBSET Limits]]
  <2>1. plans[p].limit \in Limits
    BY <1>1 DEF RowsInv
  <2> QED BY <1>1, <2>1 DEF CreateAccount, RowsInv
<1>12. RowsInv'
  BY <1>1, <1>2, <1>3, <1>4, <1>5, <1>6, <1>8, <1>9, <1>10, <1>11 DEF RowsInv
<1>13. Keeps
  <2>1. day \in Int
    BY <1>1 DEF RowsInv
  <2> QED BY <2>1, <1>1, <1>5, <1>2 DEF Keeps
<1> QED BY <1>2, <1>12, <1>13

LEMMA CreateAccountType ==
  ASSUME TypeInv, NEW i \in Requests, createAccount(i)
  PROVE  TypeInv'
<1>1. PICK r : r = req[i]
  OBVIOUS
<1>2. r.op = "register" /\ r.pc = "account" /\ Sound(r) /\ r.user \in Users /\ r.plan \in Plans
  BY <1>1 DEF createAccount, At, TypeInv, ReqsInv, Sound, Names
<1>3. started' = started /\ started \in Nat /\ sessions' = sessions /\ cut' = cut /\ gone' = gone
      /\ plans' = plans /\ used' = used /\ day' = day /\ carried' = carried
  BY DEF createAccount, Goto, End, Idles, TypeInv, ReqsInv
<1>4. CASE ~users[r.user].there /\ plans[r.plan].there
  <2>1. CreateAccount(r.user, r.plan, FALSE) /\ Goto(i, "readback")
    BY <1>1, <1>4 DEF createAccount
  <2>2. cut' \subseteq Users
    BY <1>3 DEF TypeInv, RowsInv
  <2>3. RowsInv' /\ Keeps /\ Born' = Born \union {r.user}
    BY <1>2, <1>3, <1>4, <2>1, <2>2, AccountRows
  <2> DEFINE x == [r EXCEPT !.pc = "readback"]
  <2>4. x \in AnyRequest /\ x.op = "register" /\ x.pc = "readback" /\ x.user = r.user /\ x.id = r.id
        /\ x.era = r.era /\ x.tenant = r.tenant /\ x.plan = r.plan
    <3>1. r \in AnyRequest /\ "readback" \in Steps
      BY <1>2 DEF Sound, Steps
    <3> QED BY <3>1, <1>2, RequestSet
  <2>5. req' = [req EXCEPT ![i] = x]
    BY <2>1, <1>1 DEF Goto
  <2> HIDE DEF x
  <2>6. (x \in AnyRequest /\ Stands(x) /\ Names(x))'
    BY <2>4, <1>2 DEF AnyRequest, Stands, Names
  <2>7. r.era = 0 /\ r.tenant = r.user /\ r.id \in 1..started
    BY <1>2 DEF Sound, Knows, Applies, Enters
  <2>8. users'[r.user].there /\ users'[r.user].era \in Nat
    BY <2>1, <1>2, <2>3 DEF CreateAccount, Person, TypeInv, RowsInv
  <2>9. Knows(x)'
    BY <2>3, <2>4, <2>7, <2>8, <1>3 DEF Knows, Enters, Opens, Applies
  <2>10. Sound(x)' /\ started' \in Nat /\ started <= started'
    BY <2>6, <2>9, <1>3 DEF Sound
  <2>11. ReqsInv'
    BY <2>3, <2>5, <2>10, OthersSound
  <2>12. ~Enters(x) \/ (Enters(req[i]) /\ x.id = req[i].id)
    BY <1>1, <1>2, <2>4 DEF Enters
  <2>13. /\ \A s \in sessions' : \E z \in sessions : s.id = z.id
         /\ \A s, z \in sessions' : s.id = z.id => s = z
    BY <1>3 DEF TypeInv, IdsInv
  <2>14. IdsInv'
    BY <2>5, <2>10, <2>11, <2>12, <2>13, IdsKept
  <2> QED BY <2>3, <2>11, <2>14 DEF TypeInv
<1>5. CASE ~(~users[r.user].there /\ plans[r.plan].there)
  <2>1. End(i) /\ UNCHANGED <<users, created, role, quota, most>>
    BY <1>1, <1>5 DEF createAccount
  <2>2. Reads
    BY <2>1, <1>3 DEF Reads, accountVars, tenantVars, planVars, usageVars
  <2>3. RowsInv' /\ Keeps
    BY <1>3, <2>2, ReadsKeeps
  <2>4. /\ \A s \in sessions' : \E z \in sessions : s.id = z.id
        /\ \A s, z \in sessions' : s.id = z.id => s = z
    BY <1>3 DEF TypeInv, IdsInv
  <2> QED BY <2>1, <2>3, <2>4, EndType
<1> QED BY <1>4, <1>5

\* A user's row is written, and sessions are deleted or lose their workspace.
LEMMA UserRows ==
  ASSUME TypeInv, NEW u \in Users,
         NEW row \in [there : BOOLEAN, live : BOOLEAN, active : BOOLEAN, admin : BOOLEAN, era : Nat],
         users' = [users EXCEPT ![u] = row], users[u].there, row.there, users[u].era <= row.era,
         sessions' \subseteq AnySession,
         \A s \in sessions' : \E z \in sessions : s.user = z.user /\ s.era = z.era /\ s.tenant \in {z.tenant, None},
         gone' \subseteq Born, cut' \subseteq Users, started' = started,
         UNCHANGED <<created, role, planVars, usageVars>>
  PROVE  RowsInv' /\ Keeps
<1>1. RowsInv /\ started \in Nat /\ Born' = Born
  BY DEF TypeInv, ReqsInv, Born
<1>2. /\ users' \in [Users -> [there : BOOLEAN, live : BOOLEAN, active : BOOLEAN, admin : BOOLEAN, era : Nat]]
      /\ users'[u] = row /\ \A v \in Users : v # u => users'[v] = users[v]
  BY <1>1 DEF RowsInv
<1>3. ASSUME NEW v \in Users
      PROVE  /\ users'[v].live => users'[v].there
             /\ ~users'[v].there => users'[v].era = 0
             /\ users[v].there => users'[v].there
             /\ users[v].era <= users'[v].era
             /\ users[v].era \in Nat /\ users'[v].era \in Nat
  <2>1. CASE v = u
    BY <2>1, <1>2, <1>1 DEF RowsInv
  <2>2. CASE v # u
    <3>1. users'[v] = users[v] /\ users[v].era \in Nat
      BY <2>2, <1>1, <1>2 DEF RowsInv
    <3> QED BY <3>1, <1>1 DEF RowsInv
  <2> QED BY <2>1, <2>2
<1>4. \A v \in Users : v \in Born \/ quota[v] # None => users'[v].there
  BY <1>1, <1>3 DEF RowsInv
<1>5. ASSUME NEW s \in sessions'
      PROVE  users'[s.user].there /\ s.era <= users'[s.user].era /\ s.tenant \in Born \union {None}
  <2>1. PICK z \in sessions : s.user = z.user /\ s.era = z.era /\ s.tenant \in {z.tenant, None}
    OBVIOUS
  <2>2. /\ z.user \in Users /\ z.era \in Nat /\ users[z.user].there /\ z.era <= users[z.user].era
        /\ z.tenant \in Born \union {None}
    BY <1>1 DEF RowsInv, AnySession
  <2>3. users'[z.user].there /\ z.era <= users'[z.user].era
    BY <2>2, <1>3
  <2> QED BY <2>1, <2>2, <2>3
<1>6. UNCHANGED <<created, role, plans, quota, used, day, most, carried>>
  BY DEF planVars, usageVars
<1>7. RowsInv'
  BY <1>1, <1>2, <1>3, <1>4, <1>5, <1>6 DEF RowsInv
<1>8. day \in Int
  BY <1>1 DEF RowsInv
<1> QED BY <1>1, <1>3, <1>6, <1>7, <1>8 DEF Keeps

\* Only sessions and deleted workspaces change.
LEMMA SessionRows ==
  ASSUME TypeInv, users' = users, sessions' \subseteq AnySession,
         \A s \in sessions' : /\ users[s.user].there /\ s.era <= users[s.user].era
                              /\ s.tenant \in Born \union {None},
         gone' \subseteq Born, cut' = cut, started' \in Nat, started <= started',
         UNCHANGED <<created, role, planVars, usageVars>>
  PROVE  RowsInv' /\ Keeps
<1>1. RowsInv /\ started \in Nat /\ Born' = Born
  BY DEF TypeInv, ReqsInv, Born
<1>2. UNCHANGED <<created, role, plans, quota, used, day, most, carried>>
  BY DEF planVars, usageVars
<1>3. RowsInv'
  BY <1>1, <1>2 DEF RowsInv
<1>4. day \in Int /\ \A u \in Users : users[u].era \in Nat
  BY <1>1 DEF RowsInv
<1> QED BY <1>1, <1>2, <1>3, <1>4 DEF Keeps

LEMMA SessionsSame ==
  ASSUME TypeInv, sessions' = sessions
  PROVE  /\ sessions' \subseteq AnySession
         /\ \A s \in sessions' : /\ users[s.user].there /\ s.era <= users[s.user].era
                                 /\ s.tenant \in Born \union {None}
         /\ \A s \in sessions' : \E z \in sessions :
              s.user = z.user /\ s.era = z.era /\ s.tenant \in {z.tenant, None}
         /\ \A s \in sessions' : \E z \in sessions : s.id = z.id
         /\ \A s, z \in sessions' : s.id = z.id => s = z
<1>1. /\ sessions \subseteq AnySession
      /\ \A s \in sessions : /\ users[s.user].there /\ s.era <= users[s.user].era
                             /\ s.tenant \in Born \union {None}
  BY DEF TypeInv, RowsInv
<1>2. \A s, z \in sessions : s.id = z.id => s = z
  BY DEF TypeInv, IdsInv
<1>3. \A s \in sessions : \E z \in sessions :
              s.user = z.user /\ s.era = z.era /\ s.tenant \in {z.tenant, None}
  OBVIOUS
<1> QED BY <1>1, <1>2, <1>3

LEMMA UsersType ==
  ASSUME TypeInv, NEW i \in Requests,
         UpdateUserPassword(i) \/ UpdateUserPlatformRole(i) \/ UpdateUserStatus(i)
  PROVE  TypeInv'
<1>1. PICK r : r = req[i]
  OBVIOUS
<1>2. Sound(r) /\ r \in AnyRequest /\ RowsInv /\ started \in Nat
  BY <1>1 DEF TypeInv, ReqsInv, Sound
<1>3. /\ r.op \in {"password", "updateUser"} /\ r.user \in Users
      /\ UNCHANGED <<sessions, cut, created, gone, role, planVars, usageVars>>
      /\ started' = started
  <2>1. r.op \in {"password", "updateUser"}
    <3>1. CASE UpdateUserPassword(i)
      <4>1. r.pc = "password"
        BY <1>1, <3>1 DEF UpdateUserPassword
      <4> QED BY <4>1, <1>2 DEF Sound, Stands, AnyRequest, Ops
    <3>2. CASE UpdateUserPlatformRole(i) \/ UpdateUserStatus(i)
      BY <1>1, <3>2 DEF UpdateUserPlatformRole, UpdateUserStatus, At
    <3> QED BY <3>1, <3>2
  <2>2. UNCHANGED <<sessions, cut, created, gone, role, planVars, usageVars>> /\ started' = started
    BY DEF UpdateUserPassword, UpdateUserPlatformRole, UpdateUserStatus, tenantVars, Goto, End, Idles
  <2> QED BY <2>1, <2>2, <1>2 DEF Sound, Names
<1>4. gone' \subseteq Born /\ cut' \subseteq Users /\ UNCHANGED <<created, role, planVars, usageVars>>
  BY <1>3 DEF TypeInv, RowsInv
<1>5. sessions' = sessions
  BY <1>3
<1>6. ASSUME users' = users, End(i) PROVE TypeInv'
  <2>1. RowsInv' /\ Keeps
    BY <1>2, <1>3, <1>4, <1>5, <1>6, SessionRows, SessionsSame
  <2> QED BY <2>1, <1>5, <1>6, SessionsSame, EndType
<1>7. ASSUME NEW row \in [there : BOOLEAN, live : BOOLEAN, active : BOOLEAN, admin : BOOLEAN, era : Nat],
             users' = [users EXCEPT ![r.user] = row], users[r.user].there, row.there,
             users[r.user].era <= row.era
      PROVE  RowsInv' /\ Keeps
  BY <1>3, <1>4, <1>5, <1>7, SessionsSame, UserRows
<1>8. PICK w : w = users[r.user]
  OBVIOUS
<1>13. /\ w \in [there : BOOLEAN, live : BOOLEAN, active : BOOLEAN, admin : BOOLEAN, era : Nat]
       /\ w.era <= w.era /\ w.era <= w.era + 1
       /\ GetUser(r.user) => w.there
  BY <1>2, <1>3, <1>8 DEF GetUser, RowsInv
<1>9. ASSUME RowsInv', Keeps, NEW pc \in {"sessions", "status"}, Goto(i, pc),
             pc = "status" => r.op = "updateUser"
      PROVE  TypeInv'
  <2>1. PICK x : x = [req[i] EXCEPT !.pc = pc]
    OBVIOUS
  <2>2. x.op = r.op /\ x.pc = pc
    BY <1>1, <1>2, <2>1, RequestSet
  <2>3. Stands(x) /\ pc \in Steps
    BY <1>3, <1>9, <2>2 DEF Stands, Steps
  <2>4. req[i].op \in {"password", "updateUser"}
    BY <1>1, <1>3
  <2> QED BY <1>5, <1>9, <2>1, <2>3, <2>4, GotoType
<1>10. CASE UpdateUserPassword(i)
  <2>1. CASE GetUser(r.user)
    <3> DEFINE row == [w EXCEPT !.era = @ + 1]
    <3>1. users' = [users EXCEPT ![r.user] = row] /\ Goto(i, "sessions")
      BY <1>1, <1>2, <1>3, <1>8, <1>10, <2>1 DEF UpdateUserPassword, RowsInv
    <3>2. row \in [there : BOOLEAN, live : BOOLEAN, active : BOOLEAN, admin : BOOLEAN, era : Nat]
          /\ row.there /\ users[r.user].era <= row.era /\ users[r.user].there
      BY <1>8, <1>13, <2>1
    <3> QED BY <1>7, <1>9, <3>1, <3>2
  <2>2. CASE ~GetUser(r.user)
    BY <1>1, <1>6, <1>10, <2>2 DEF UpdateUserPassword
  <2> QED BY <2>1, <2>2
<1>11. CASE UpdateUserPlatformRole(i)
  <2>1. CASE GetUser(r.user)
    <3> DEFINE row == [w EXCEPT !.admin = (r.role = "admin")]
    <3>1. users' = [users EXCEPT ![r.user] = row] /\ Goto(i, "status") /\ r.op = "updateUser"
      BY <1>1, <1>2, <1>3, <1>8, <1>11, <2>1 DEF UpdateUserPlatformRole, At, RowsInv
    <3>2. row \in [there : BOOLEAN, live : BOOLEAN, active : BOOLEAN, admin : BOOLEAN, era : Nat]
          /\ row.there /\ users[r.user].era <= row.era /\ users[r.user].there
      BY <1>8, <1>13, <2>1
    <3> QED BY <1>7, <1>9, <3>1, <3>2
  <2>2. CASE ~GetUser(r.user)
    BY <1>1, <1>6, <1>11, <2>2 DEF UpdateUserPlatformRole
  <2> QED BY <2>1, <2>2
<1>12. CASE UpdateUserStatus(i)
  <2>1. ASSUME GetUser(r.user), users' = [users EXCEPT ![r.user].active = TRUE], End(i)
        PROVE  TypeInv'
    <3> DEFINE row == [w EXCEPT !.active = TRUE]
    <3>1. users' = [users EXCEPT ![r.user] = row]
      BY <1>2, <1>3, <1>8, <2>1 DEF RowsInv
    <3>2. row \in [there : BOOLEAN, live : BOOLEAN, active : BOOLEAN, admin : BOOLEAN, era : Nat]
          /\ row.there /\ users[r.user].era <= row.era /\ users[r.user].there
      BY <1>8, <1>13, <2>1
    <3>3. RowsInv' /\ Keeps
      BY <1>7, <3>1, <3>2
    <3> QED BY <1>5, <2>1, <3>3, SessionsSame, EndType
  <2>2. ASSUME GetUser(r.user), Goto(i, "sessions"),
               users' = [users EXCEPT ![r.user].active = FALSE, ![r.user].era = @ + 1]
        PROVE  TypeInv'
    <3> DEFINE row == [w EXCEPT !.active = FALSE, !.era = @ + 1]
    <3>1. users' = [users EXCEPT ![r.user] = row]
      BY <1>2, <1>3, <1>8, <2>2 DEF RowsInv
    <3>2. row \in [there : BOOLEAN, live : BOOLEAN, active : BOOLEAN, admin : BOOLEAN, era : Nat]
          /\ row.there /\ users[r.user].era <= row.era /\ users[r.user].there
      <4>1. w.era \in Nat /\ w.era + 1 \in Nat
        BY <1>13
      <4>2. row.there = w.there /\ row.live = w.live /\ row.active = FALSE /\ row.admin = w.admin
            /\ row.era = w.era + 1
        BY <1>13
      <4>3. row \in [there : BOOLEAN, live : BOOLEAN, active : BOOLEAN, admin : BOOLEAN, era : Nat]
        BY <4>1, <1>13
      <4> HIDE DEF row
      <4>4. row.there = w.there /\ row.era = w.era + 1 /\ w.there
        BY <4>2, <1>13, <2>2
      <4>5. w.era <= row.era
        BY <4>1, <4>4
      <4> QED BY <4>3, <4>4, <4>5, <1>8
    <3> QED BY <1>7, <1>9, <2>2, <3>1, <3>2
  <2>3. \/ GetUser(r.user) /\ users' = [users EXCEPT ![r.user].active = TRUE] /\ End(i)
        \/ /\ GetUser(r.user) /\ Goto(i, "sessions")
           /\ users' = [users EXCEPT ![r.user].active = FALSE, ![r.user].era = @ + 1]
        \/ users' = users /\ End(i)
    BY <1>1, <1>12 DEF UpdateUserStatus
  <2> QED BY <1>6, <2>1, <2>2, <2>3
<1> QED BY <1>10, <1>11, <1>12

\* What a deletion makes of a request: the fields that the request has read stay.
LEMMA LateFields ==
  ASSUME NEW r \in AnyRequest, NEW u, NEW ts, NEW y, y = Late(r, u, ts)
  PROVE  /\ y \in AnyRequest
         /\ y.op = r.op /\ y.pc = r.pc /\ y.user = r.user /\ y.tenant = r.tenant /\ y.plan = r.plan
         /\ y.id = r.id /\ y.era = r.era /\ y.role = r.role /\ y.default = r.default
         /\ y.limit = r.limit /\ y.day = r.day /\ y.owners = r.owners /\ y.victims = r.victims
         /\ Opens(r) => y.raced = (r.raced \/ Misses(r, u)) /\ y.late = (r.late \/ r.tenant \in ts)
         /\ ~Opens(r) => y = r
<1>1. CASE ~Opens(r)
  BY <1>1 DEF Late
<1>2. CASE Opens(r)
  <2> DEFINE a == r.raced \/ Misses(r, u)
             b == r.late \/ r.tenant \in ts
  <2>1. y = [r EXCEPT !.raced = a, !.late = b]
    BY <1>2 DEF Late
  <2>2. a \in BOOLEAN /\ b \in BOOLEAN
    OBVIOUS
  <2> HIDE DEF a, b
  <2>3. /\ y \in AnyRequest
        /\ y.op = r.op /\ y.pc = r.pc /\ y.user = r.user /\ y.tenant = r.tenant /\ y.plan = r.plan
        /\ y.id = r.id /\ y.era = r.era /\ y.role = r.role /\ y.default = r.default
        /\ y.limit = r.limit /\ y.day = r.day /\ y.owners = r.owners /\ y.victims = r.victims
        /\ y.raced = a /\ y.late = b
    <3>1. y \in AnyRequest
      BY <2>1, <2>2, RequestSet
    <3>2. /\ y.op = r.op /\ y.pc = r.pc /\ y.user = r.user /\ y.tenant = r.tenant /\ y.plan = r.plan
          /\ y.id = r.id /\ y.era = r.era /\ y.role = r.role
      BY <2>1, RequestSet
    <3>3. /\ y.default = r.default /\ y.limit = r.limit /\ y.day = r.day /\ y.owners = r.owners
          /\ y.victims = r.victims
      BY <2>1, RequestSet
    <3>4. y.raced = a /\ y.late = b
      BY <2>1, RequestSet
    <3> QED BY <3>1, <3>2, <3>3, <3>4
  <2> QED BY <2>3, <1>2 DEF a, b
<1> QED BY <1>1, <1>2

LEMMA WarnType ==
  ASSUME TypeInv, RowsInv', Keeps, NEW i \in Requests, NEW u, NEW ts, Warn(i, u, ts),
         \A s \in sessions' : \E z \in sessions : s.id = z.id,
         \A s, z \in sessions' : s.id = z.id => s = z
  PROVE  TypeInv'
<1>1. started' = started /\ started \in Nat /\ req \in [Requests -> AnyRequest]
      /\ req' = [j \in Requests |-> IF j = i THEN Idle ELSE Late(req[j], u, ts)]
  BY DEF Warn, Idles, TypeInv, ReqsInv
<1>2. ASSUME NEW j \in Requests
      PROVE  /\ req'[j] \in AnyRequest /\ Sound(req[j])'
             /\ Enters(req'[j]) => Enters(req[j]) /\ req'[j].id = req[j].id
  <2>1. CASE j = i
    <3>1. req'[j] = Idle
      BY <2>1, <1>1
    <3> QED BY <3>1, IdleType, IdleTypeNext DEF Enters, Idle, Sound
  <2>2. CASE j # i
    <3>1. PICK r : r = req[j]
      OBVIOUS
    <3>2. PICK y : y = Late(r, u, ts)
      OBVIOUS
    <3>3. req'[j] = y
      BY <2>2, <3>1, <3>2, <1>1
    <3>4. Sound(r) /\ r \in AnyRequest
      BY <3>1 DEF TypeInv, ReqsInv, Sound
    <3>5. /\ y \in AnyRequest
          /\ y.op = r.op /\ y.pc = r.pc /\ y.user = r.user /\ y.tenant = r.tenant /\ y.plan = r.plan
          /\ y.id = r.id /\ y.era = r.era /\ y.role = r.role /\ y.limit = r.limit /\ y.day = r.day
      BY <3>2, <3>4, LateFields
    <3>6. Stands(y) /\ Names(y) /\ Knows(y)
      <4>1. Stands(r) /\ Names(r) /\ Knows(r)
        BY <3>4 DEF Sound
      <4>2. Stands(y)
        BY <3>5, <4>1 DEF Stands
      <4>3. Names(y)
        BY <3>5, <4>1 DEF Names
      <4>4. Knows(y)
        BY <3>5, <4>1 DEF Knows, Enters, Opens, Applies
      <4> QED BY <4>2, <4>3, <4>4
    <3>7. Sound(y)
      BY <3>5, <3>6 DEF Sound
    <3>8. Sound(y)'
      BY <1>1, <3>7, KnowsStays DEF TypeInv
    <3> QED BY <3>1, <3>3, <3>5, <3>8 DEF Enters
  <2> QED BY <2>1, <2>2
<1>3. ReqsInv'
  BY <1>1, <1>2 DEF ReqsInv
<1>4. IdsInv'
  <2>1. /\ \A s \in sessions : s.id <= started
        /\ \A j \in Requests : Enters(req[j]) =>
             /\ \A s \in sessions : s.id # req[j].id
             /\ \A k \in Requests \ {j} : Enters(req[k]) => req[k].id # req[j].id
    BY DEF TypeInv, IdsInv
  <2>2. \A s \in sessions' : s.id <= started'
    BY <1>1, <2>1
  <2>3. ASSUME NEW j \in Requests, Enters(req'[j]), NEW s \in sessions' PROVE s.id # req'[j].id
    BY <1>2, <2>1, <2>3
  <2>4. ASSUME NEW j \in Requests, Enters(req'[j]), NEW k \in Requests \ {j}, Enters(req'[k])
        PROVE  req'[k].id # req'[j].id
    BY <1>2, <2>1, <2>4
  <2> QED BY <2>2, <2>3, <2>4 DEF IdsInv
<1> QED BY <1>3, <1>4 DEF TypeInv

\* Sessions that lose their workspace are the same otherwise.
LEMMA Cleared ==
  ASSUME TypeInv, NEW ss, ss \subseteq sessions, NEW ts,
         NEW C, C = ClearSessionsActiveTenant(ss, ts)
  PROVE  /\ C \subseteq AnySession
         /\ \A s \in C : \E z \in ss :
              /\ s.id = z.id /\ s.user = z.user /\ s.era = z.era /\ s.raced = z.raced /\ s.late = z.late
              /\ s.tenant = IF z.tenant \in ts THEN None ELSE z.tenant
         /\ \A s, z \in C : s.id = z.id => s = z
<1> DEFINE f(z) == IF z.tenant \in ts THEN [z EXCEPT !.tenant = None] ELSE z
<1>1. C = {f(z) : z \in ss}
  BY DEF ClearSessionsActiveTenant
<1>2. ASSUME NEW z \in ss
      PROVE  /\ f(z) \in AnySession
             /\ f(z).id = z.id /\ f(z).user = z.user /\ f(z).era = z.era /\ f(z).raced = z.raced
             /\ f(z).late = z.late /\ f(z).tenant = IF z.tenant \in ts THEN None ELSE z.tenant
  <2>1. z \in AnySession
    BY DEF TypeInv, RowsInv
  <2>2. CASE z.tenant \in ts
    BY <2>1, <2>2 DEF AnySession
  <2>3. CASE z.tenant \notin ts
    BY <2>1, <2>3
  <2> QED BY <2>2, <2>3
<1> HIDE DEF f
<1>3. \A s, z \in C : s.id = z.id => s = z
  <2> SUFFICES ASSUME NEW x \in ss, NEW z \in ss, f(x).id = f(z).id PROVE f(x) = f(z)
    BY <1>1
  <2>1. x.id = z.id
    BY <1>2
  <2>2. x = z
    BY <2>1 DEF TypeInv, IdsInv
  <2> QED BY <2>2
<1>4. \A s \in C : \E z \in ss :
        /\ s.id = z.id /\ s.user = z.user /\ s.era = z.era /\ s.raced = z.raced /\ s.late = z.late
        /\ s.tenant = IF z.tenant \in ts THEN None ELSE z.tenant
  <2> SUFFICES ASSUME NEW x \in ss
               PROVE  \E z \in ss :
                        /\ f(x).id = z.id /\ f(x).user = z.user /\ f(x).era = z.era
                        /\ f(x).raced = z.raced /\ f(x).late = z.late
                        /\ f(x).tenant = IF z.tenant \in ts THEN None ELSE z.tenant
    BY <1>1
  <2> QED BY <1>2
<1> QED BY <1>1, <1>2, <1>3, <1>4

LEMMA SessionsType ==
  ASSUME TypeInv, NEW i \in Requests,
         RevokeSessions(i) \/ SoftDeleteUser(i) \/ SoftDeleteTenant(i) \/ UpdateSessionTenant(i)
  PROVE  TypeInv'
<1>1. PICK r : r = req[i]
  OBVIOUS
<1>2. /\ Sound(r) /\ r \in AnyRequest /\ RowsInv /\ started \in Nat /\ sessions \subseteq AnySession
      /\ gone \subseteq Born /\ cut \subseteq Users
      /\ \A s \in sessions : /\ users[s.user].there /\ s.era <= users[s.user].era
                             /\ s.tenant \in Born \union {None}
      /\ \A s, z \in sessions : s.id = z.id => s = z
  BY <1>1 DEF TypeInv, ReqsInv, RowsInv, IdsInv, Sound
<1>3. CASE RevokeSessions(i)
  <2>1. sessions' = DeleteUserSessions(r.user) /\ Warn(i, r.user, {})
    BY <1>1, <1>3 DEF RevokeSessions, Revoked
  <2>2. sessions' \subseteq sessions
    BY <2>1 DEF DeleteUserSessions
  <2>3. /\ users' = users /\ cut' = cut /\ UNCHANGED <<created, role, planVars, usageVars>>
        /\ gone' \subseteq Born /\ started' = started
    BY <1>2, <1>3, <2>1 DEF RevokeSessions, tenantVars, Warn, Idles
  <2>4. /\ sessions' \subseteq AnySession
        /\ \A s \in sessions' : /\ users[s.user].there /\ s.era <= users[s.user].era
                                /\ s.tenant \in Born \union {None}
        /\ \A s \in sessions' : \E z \in sessions : s.id = z.id
        /\ \A s, z \in sessions' : s.id = z.id => s = z
    BY <1>2, <2>2
  <2>5. started' \in Nat /\ started <= started'
    BY <1>2, <2>3
  <2>6. RowsInv' /\ Keeps
    BY <2>3, <2>4, <2>5, SessionRows
  <2> QED BY <2>1, <2>4, <2>6, WarnType
<1>7. started \in Nat
  BY <1>2
<1>4. CASE SoftDeleteTenant(i)
  <2>1. PICK t : t = r.tenant
    OBVIOUS
  <2>2. /\ users' = users /\ cut' = cut /\ UNCHANGED <<created, role, planVars, usageVars>>
        /\ started' = started
    BY <1>2, <1>4 DEF SoftDeleteTenant, Warn, End, Idles
  <2>3. started' \in Nat /\ started <= started'
    BY <1>7, <2>2
  <2>4. CASE t \in Teams /\ GetTenant(t)
    <3>1. gone' = gone \union {t} /\ sessions' = ClearSessionsActiveTenant(sessions, {t}) /\ Warn(i, None, {t})
      BY <1>1, <1>4, <2>1, <2>4 DEF SoftDeleteTenant, Deselected
    <3>2. gone' \subseteq Born
      BY <1>2, <2>4, <3>1, TenantIsBorn
    <3>3. PICK C : C = ClearSessionsActiveTenant(sessions, {t})
      OBVIOUS
    <3>4. /\ C \subseteq AnySession
          /\ \A s \in C : \E z \in sessions :
               /\ s.id = z.id /\ s.user = z.user /\ s.era = z.era /\ s.raced = z.raced /\ s.late = z.late
               /\ s.tenant = IF z.tenant \in {t} THEN None ELSE z.tenant
          /\ \A s, z \in C : s.id = z.id => s = z
      BY <3>3, Cleared
    <3>5. /\ sessions' \subseteq AnySession
          /\ \A s \in sessions' : /\ users[s.user].there /\ s.era <= users[s.user].era
                                  /\ s.tenant \in Born \union {None}
          /\ \A s \in sessions' : \E z \in sessions : s.id = z.id
          /\ \A s, z \in sessions' : s.id = z.id => s = z
      <4>1. sessions' = C
        BY <3>1, <3>3
      <4>2. ASSUME NEW s \in C
            PROVE  /\ users[s.user].there /\ s.era <= users[s.user].era
                   /\ s.tenant \in Born \union {None}
                   /\ \E z \in sessions : s.id = z.id
        <5>1. PICK z \in sessions :
                /\ s.id = z.id /\ s.user = z.user /\ s.era = z.era
                /\ s.tenant = IF z.tenant \in {t} THEN None ELSE z.tenant
          BY <3>4
        <5> QED BY <5>1, <1>2
      <4> QED BY <3>4, <4>1, <4>2
    <3>6. RowsInv' /\ Keeps
      BY <2>2, <2>3, <3>2, <3>5, SessionRows
    <3> QED BY <3>1, <3>5, <3>6, WarnType
  <2>5. CASE ~(t \in Teams /\ GetTenant(t))
    <3>1. gone' = gone /\ sessions' = sessions /\ End(i)
      BY <1>1, <1>4, <2>1, <2>5 DEF SoftDeleteTenant
    <3>2. gone' \subseteq Born
      BY <1>2, <3>1
    <3>3. RowsInv' /\ Keeps
      BY <2>2, <2>3, <3>1, <3>2, SessionsSame, SessionRows
    <3> QED BY <3>1, <3>3, SessionsSame, EndType
  <2> QED BY <2>4, <2>5
<1>5. CASE UpdateSessionTenant(i)
  <2>0. started' = started
    BY <1>5 DEF UpdateSessionTenant, End, Idles
  <2> DEFINE f(s) == IF s.id = r.session THEN [s EXCEPT !.tenant = r.tenant, !.late = r.late] ELSE s
  <2>1. /\ r.op = "select" /\ End(i) /\ sessions' = {f(s) : s \in sessions}
        /\ users' = users /\ cut' = cut /\ UNCHANGED <<created, role, planVars, usageVars>>
        /\ gone' = gone /\ started' = started
    BY <1>1, <1>5 DEF UpdateSessionTenant, At, End, Idles, tenantVars
  <2>2. started' \in Nat /\ started <= started' /\ gone' \subseteq Born
    <3>1. started' \in Nat /\ started <= started'
      BY <1>7, <2>0
    <3>2. gone' \subseteq Born
      BY <1>2, <2>1
    <3> QED BY <3>1, <3>2
  <2>3. r.tenant \in Born \union {None} /\ r.late \in BOOLEAN /\ r.tenant \in Somewhere
    <3>1. r.tenant \in Born \union {None}
      BY <1>2, <2>1 DEF Sound, Knows, Opens, Applies
    <3> QED BY <3>1, <1>2, RequestSet
  <2>4. ASSUME NEW s \in sessions
        PROVE  /\ f(s) \in AnySession /\ f(s).id = s.id
               /\ users[f(s).user].there /\ f(s).era <= users[f(s).user].era
               /\ f(s).tenant \in Born \union {None}
    <3>1. s \in AnySession /\ users[s.user].there /\ s.era <= users[s.user].era /\ s.tenant \in Born \union {None}
      BY <1>2
    <3>2. CASE s.id = r.session
      <4>1. f(s) \in AnySession
        BY <3>1, <3>2, <2>3 DEF AnySession, Somewhere
      <4>2. f(s).id = s.id /\ f(s).user = s.user /\ f(s).era = s.era /\ f(s).tenant = r.tenant
        BY <3>1, <3>2 DEF AnySession
      <4> HIDE DEF f
      <4> QED BY <4>1, <4>2, <3>1, <2>3
    <3>3. CASE s.id # r.session
      BY <3>1, <3>3
    <3> QED BY <3>2, <3>3
  <2> HIDE DEF f
  <2>5. /\ sessions' \subseteq AnySession
        /\ \A s \in sessions' : /\ users[s.user].there /\ s.era <= users[s.user].era
                                /\ s.tenant \in Born \union {None}
        /\ \A s \in sessions' : \E z \in sessions : s.id = z.id
        /\ \A s, z \in sessions' : s.id = z.id => s = z
    <3>1. ASSUME NEW s \in sessions, NEW z \in sessions, f(s).id = f(z).id PROVE f(s) = f(z)
      BY <3>1, <2>4, <1>2
    <3> QED BY <2>1, <2>4, <3>1
  <2>6. RowsInv' /\ Keeps
    BY <2>1, <2>2, <2>5, SessionRows
  <2> QED BY <2>1, <2>5, <2>6, EndType
<1>6. CASE SoftDeleteUser(i)
  <2>1. PICK u : u = r.user
    OBVIOUS
  <2>2. r.op = "deleteUser" /\ u \in Users
    BY <1>1, <1>2, <1>6, <2>1 DEF SoftDeleteUser, At, Sound, Names
  <2>3. UNCHANGED <<created, role, planVars, usageVars>> /\ started' = started /\ cut' = cut
    BY <1>6 DEF SoftDeleteUser, Warn, End, Idles
  <2>4. CASE GetUser(u)
    <3>1. PICK ts : ts = IF GetTenant(u) THEN {u} ELSE {}
      OBVIOUS
    <3>2. /\ users' = [users EXCEPT ![u].live = FALSE, ![u].era = @ + 1]
          /\ gone' = gone \union ts
          /\ sessions' = ClearSessionsActiveTenant(DeleteUserSessions(u), ts)
          /\ Warn(i, u, ts)
      BY <1>1, <1>6, <2>1, <2>4, <3>1 DEF SoftDeleteUser, Revoked
    <3>3. PICK w : w = users[u]
      OBVIOUS
    <3>4. /\ w \in [there : BOOLEAN, live : BOOLEAN, active : BOOLEAN, admin : BOOLEAN, era : Nat]
          /\ w.there /\ w.era \in Nat /\ w.era + 1 \in Nat
      BY <1>2, <2>2, <2>4, <3>3 DEF RowsInv, GetUser
    <3> DEFINE row == [w EXCEPT !.live = FALSE, !.era = @ + 1]
    <3>5. users' = [users EXCEPT ![u] = row]
      BY <1>2, <2>2, <3>2, <3>3 DEF RowsInv
    <3>6. row.there = w.there /\ row.era = w.era + 1
      BY <3>4
    <3>7. row \in [there : BOOLEAN, live : BOOLEAN, active : BOOLEAN, admin : BOOLEAN, era : Nat]
      BY <3>4
    <3> HIDE DEF row
    <3>8. users[u].there /\ row.there /\ users[u].era <= row.era
      BY <3>3, <3>4, <3>6
    <3>9. gone' \subseteq Born
      BY <1>2, <3>1, <3>2, TenantIsBorn
    <3>10. PICK ss : ss = DeleteUserSessions(u)
      OBVIOUS
    <3>11. PICK C : C = ClearSessionsActiveTenant(ss, ts)
      OBVIOUS
    <3>12. ss \subseteq sessions
      BY <3>10 DEF DeleteUserSessions
    <3>13. /\ C \subseteq AnySession
           /\ \A s \in C : \E z \in ss :
               /\ s.id = z.id /\ s.user = z.user /\ s.era = z.era /\ s.raced = z.raced /\ s.late = z.late
               /\ s.tenant = IF z.tenant \in ts THEN None ELSE z.tenant
           /\ \A s, z \in C : s.id = z.id => s = z
      BY <3>11, <3>12, Cleared
    <3>14. /\ sessions' \subseteq AnySession
           /\ \A s \in sessions' : \E z \in sessions : s.id = z.id
           /\ \A s \in sessions' : \E z \in sessions :
                s.user = z.user /\ s.era = z.era /\ s.tenant \in {z.tenant, None}
           /\ \A s, z \in sessions' : s.id = z.id => s = z
      <4>1. sessions' = C
        BY <3>2, <3>10, <3>11
      <4>2. ASSUME NEW s \in C
            PROVE  \E z \in sessions : /\ s.id = z.id /\ s.user = z.user /\ s.era = z.era
                                       /\ s.tenant \in {z.tenant, None}
        <5>1. PICK z \in ss :
                /\ s.id = z.id /\ s.user = z.user /\ s.era = z.era
                /\ s.tenant = IF z.tenant \in ts THEN None ELSE z.tenant
          BY <3>13
        <5> QED BY <5>1, <3>12
      <4> QED BY <3>13, <4>1, <4>2
    <3>15. cut' \subseteq Users
      BY <1>2, <2>3
    <3>16. RowsInv' /\ Keeps
      BY <2>2, <2>3, <3>5, <3>7, <3>8, <3>9, <3>14, <3>15, UserRows
    <3> QED BY <3>2, <3>14, <3>16, WarnType
  <2>5. CASE ~GetUser(u)
    <3>1. users' = users /\ gone' = gone /\ sessions' = sessions /\ End(i)
      BY <1>1, <1>6, <2>1, <2>5 DEF SoftDeleteUser
    <3>2. gone' \subseteq Born /\ started' \in Nat /\ started <= started'
      BY <1>2, <2>3, <3>1
    <3>3. RowsInv' /\ Keeps
      BY <2>3, <3>1, <3>2, SessionsSame, SessionRows
    <3> QED BY <3>1, <3>3, SessionsSame, EndType
  <2> QED BY <2>4, <2>5
<1> QED BY <1>3, <1>4, <1>5, <1>6

LEMMA CreateSessionType ==
  ASSUME TypeInv, NEW i \in Requests, createSession(i)
  PROVE  TypeInv'
<1>1. PICK r : r = req[i]
  OBVIOUS
<1>2. /\ Sound(r) /\ r \in AnyRequest /\ RowsInv /\ started \in Nat /\ sessions \subseteq AnySession
      /\ \A s \in sessions : /\ users[s.user].there /\ s.era <= users[s.user].era
                             /\ s.tenant \in Born \union {None}
  BY <1>1 DEF TypeInv, ReqsInv, RowsInv, Sound
<1>3. PICK n : n = [id |-> r.id, user |-> r.user, era |-> r.era, tenant |-> r.tenant,
                    raced |-> r.raced, late |-> r.late]
  OBVIOUS
<1>4. /\ Opens(r) /\ r.pc = "session" /\ sessions' = sessions \union {n} /\ End(i)
      /\ users' = users /\ cut' = cut /\ UNCHANGED <<created, role, planVars, usageVars>>
      /\ gone' = gone /\ started' = started
  BY <1>1, <1>3 DEF createSession, End, Idles, tenantVars
<1>5. Enters(r) /\ ~Applies(r) /\ r.user \in Users
  BY <1>2, <1>4 DEF Sound, Stands, Names, Opens, Enters, Applies
<1>6. users[r.user].there /\ r.era <= users[r.user].era /\ r.tenant \in Born \union {None} /\ r.id \in 1..started
  BY <1>2, <1>4, <1>5 DEF Sound, Knows
<1>7. n \in AnySession
  <2>1. r.id \in Int /\ r.era \in Nat /\ r.tenant \in Somewhere /\ r.raced \in BOOLEAN /\ r.late \in BOOLEAN
    BY <1>2, RequestSet
  <2> QED BY <1>3, <1>5, <2>1 DEF AnySession, Somewhere
<1>8. n.id = r.id /\ n.user = r.user /\ n.era = r.era /\ n.tenant = r.tenant
  BY <1>3
<1>9. started \in Nat
  BY <1>2
<1>10. started' \in Nat /\ started <= started'
  BY <1>4, <1>9
<1>11. gone' \subseteq Born
  BY <1>2, <1>4 DEF RowsInv
<1>12. /\ sessions' \subseteq AnySession
       /\ \A s \in sessions' : /\ users[s.user].there /\ s.era <= users[s.user].era
                               /\ s.tenant \in Born \union {None}
  BY <1>2, <1>4, <1>6, <1>7, <1>8
<1>13. RowsInv' /\ Keeps
  BY <1>4, <1>10, <1>11, <1>12, SessionRows
<1>14. req' = [req EXCEPT ![i] = Idle] /\ req \in [Requests -> AnyRequest]
  BY <1>4 DEF End, TypeInv, ReqsInv
<1>15. ReqsInv'
  <2>1. PICK x : x = Idle
    OBVIOUS
  <2>2. Sound(x)'
    BY <2>1, IdleTypeNext
  <2>3. req' = [req EXCEPT ![i] = x]
    BY <1>14, <2>1
  <2> QED BY <1>10, <1>13, <2>2, <2>3, OthersSound
<1>16. IdsInv'
  <2>1. /\ \A s \in sessions : s.id <= started
        /\ \A s, z \in sessions : s.id = z.id => s = z
        /\ \A j \in Requests : Enters(req[j]) =>
             /\ \A s \in sessions : s.id # req[j].id
             /\ \A k \in Requests \ {j} : Enters(req[k]) => req[k].id # req[j].id
    BY DEF TypeInv, IdsInv
  <2>2. \A s \in sessions : s.id # n.id
    BY <1>1, <1>5, <1>8, <2>1
  <2>3. ASSUME NEW j \in Requests, Enters(req'[j]) PROVE j # i /\ req'[j] = req[j] /\ Enters(req[j])
    <3>1. j # i
      BY <1>14, <2>3 DEF Enters, Idle
    <3> QED BY <3>1, <1>14, <2>3
  <2>4. \A s \in sessions' : s.id <= started'
    BY <1>4, <1>6, <1>8, <1>9, <2>1
  <2>5. \A s, z \in sessions' : s.id = z.id => s = z
    BY <1>4, <2>1, <2>2
  <2>6. ASSUME NEW j \in Requests, Enters(req'[j]), NEW s \in sessions' PROVE s.id # req'[j].id
    <3>1. j # i /\ req'[j] = req[j] /\ Enters(req[j])
      BY <2>3, <2>6
    <3>2. n.id # req[j].id
      BY <1>1, <1>5, <1>8, <2>1, <3>1
    <3> QED BY <3>1, <3>2, <1>4, <2>1
  <2>7. ASSUME NEW j \in Requests, Enters(req'[j]), NEW k \in Requests \ {j}, Enters(req'[k])
        PROVE  req'[k].id # req'[j].id
    BY <2>1, <2>3, <2>7
  <2> QED BY <2>4, <2>5, <2>6, <2>7 DEF IdsInv
<1> QED BY <1>13, <1>15, <1>16 DEF TypeInv

LEMMA RoleWritten ==
  ASSUME role \in [Tenants -> [Users -> SomeRow]], NEW t \in Tenants, NEW u \in Users,
         NEW v \in SomeRow, role' = [role EXCEPT ![t][u] = v]
  PROVE  /\ role' \in [Tenants -> [Users -> SomeRow]]
         /\ role'[t][u] = v
         /\ \A q \in Tenants, w \in Users : q # t \/ w # u => role'[q][w] = role[q][w]
<1>1. PICK row : row = [role[t] EXCEPT ![u] = v]
  OBVIOUS
<1>2. row \in [Users -> SomeRow] /\ row[u] = v /\ \A w \in Users \ {u} : row[w] = role[t][w]
  BY <1>1
<1>3. role' = [role EXCEPT ![t] = row]
  BY <1>1
<1> QED BY <1>2, <1>3

\* Workspaces and members.
LEMMA TenantsType ==
  ASSUME TypeInv, NEW i \in Requests, InsertTenant(i) \/ WriteMember(i)
  PROVE  TypeInv'
<1>1. PICK r : r = req[i]
  OBVIOUS
<1>2. Sound(r) /\ RowsInv /\ started \in Nat
  BY <1>1 DEF TypeInv, ReqsInv
<1>3. /\ End(i) /\ UNCHANGED <<accountVars, gone, planVars, usageVars>> /\ started' = started
      /\ sessions' = sessions /\ users' = users
  BY DEF InsertTenant, WriteMember, End, Idles, accountVars
<1>4. /\ created' \in Seq(Tenants) /\ Born \subseteq Born' /\ Born' \subseteq Born \union Teams
      /\ role' \in [Tenants -> [Users -> Roles \union {None}]]
  <2>1. CASE WriteMember(i)
    <3>1. r.op \in {"addMember", "updateRole", "removeMember"}
      BY <1>1, <2>1 DEF WriteMember
    <3>2. r.tenant \in Tenants /\ r.user \in Users /\ r.role \in Roles \union {None}
      BY <1>2, <3>1 DEF Sound, Names
    <3>3. role' = [role EXCEPT ![r.tenant][r.user] = r.role] \/ role' = role
      BY <1>1, <2>1 DEF WriteMember
    <3>4. created' = created
      BY <2>1 DEF WriteMember
    <3>5. role' \in [Tenants -> [Users -> Roles \union {None}]]
      BY <1>2, <3>2, <3>3, RoleWritten DEF RowsInv, SomeRow
    <3> QED BY <1>2, <3>4, <3>5 DEF RowsInv, Born
  <2>2. CASE InsertTenant(i)
    <3>1. r.op = "createTenant"
      BY <1>1, <2>2 DEF InsertTenant, At
    <3>2. r.tenant \in Teams /\ r.user \in Users /\ r.tenant \in Tenants
      BY <1>2, <3>1, ConstantFacts DEF Sound, Names
    <3>3. \/ created' = created /\ role' = role
          \/ created' = Append(created, r.tenant) /\ role' = [role EXCEPT ![r.tenant][r.user] = "owner"]
      BY <1>1, <2>2 DEF InsertTenant
    <3>4. created' \in Seq(Tenants) /\ Born \subseteq Born' /\ Born' \subseteq Born \union Teams
      <4>1. CASE created' = created
        BY <4>1, <1>2 DEF RowsInv, Born
      <4>2. CASE created' = Append(created, r.tenant)
        BY <4>2, <3>2, <1>2, BornAppend DEF RowsInv
      <4> QED BY <3>3, <4>1, <4>2
    <3>5. "owner" \in Roles \union {None}
      BY DEF Roles
    <3>6. role' \in [Tenants -> [Users -> Roles \union {None}]]
      BY <1>2, <3>2, <3>3, <3>5, RoleWritten DEF RowsInv, SomeRow
    <3> QED BY <3>4, <3>6
  <2> QED BY <2>1, <2>2
<1>5. RowsInv'
  <2>1. UNCHANGED <<users, sessions, cut, gone, plans, quota, used, day, most, carried>>
    BY <1>3 DEF accountVars, planVars, usageVars
  <2>2. \A u \in Users : u \in Born' => u \in Born
    BY <1>4, ConstantFacts
  <2> QED BY <1>2, <1>4, <2>1, <2>2 DEF RowsInv
<1>6. Keeps
  <2>1. day' = day /\ day \in Int /\ \A u \in Users : users[u].era \in Nat
    BY <1>2, <1>3 DEF RowsInv, usageVars
  <2> QED BY <1>2, <1>3, <1>4, <2>1 DEF Keeps
<1> QED BY <1>3, <1>5, <1>6, SessionsSame, EndType

\* Plans and quotas: a plan in use is there, and the limits in force are noted.
LEMMA PlanWritten ==
  ASSUME TypeInv, NEW i \in Requests, WritePlan(i)
  PROVE  /\ plans' \in [Plans -> [there : BOOLEAN, default : BOOLEAN, limit : Limits]]
         /\ quota' \in [Tenants -> Plans \union {None}]
         /\ most' \in [Tenants -> [1..MaxDays -> SUBSET Limits]]
         /\ \A t \in Tenants : quota'[t] = None <=> quota[t] = None
         /\ \A t \in Tenants : quota'[t] = None \/ plans'[quota'[t]].there
         /\ \A t \in Tenants : quota'[t] # None => plans'[quota'[t]].limit \in most'[t][day]
         /\ \A t \in Tenants, d \in 1..MaxDays : most[t][d] \subseteq most'[t][d]
<1>1. PICK r : r = req[i]
  OBVIOUS
<1>2. /\ Sound(r) /\ plans \in [Plans -> [there : BOOLEAN, default : BOOLEAN, limit : Limits]]
      /\ quota \in [Tenants -> Plans \union {None}] /\ day \in 1..MaxDays
      /\ most \in [Tenants -> [1..MaxDays -> SUBSET Limits]]
      /\ \A t \in Tenants : quota[t] = None \/ plans[quota[t]].there
  BY <1>1 DEF TypeInv, ReqsInv, RowsInv
<1>3. r.op \in {"createPlan", "updatePlan", "deletePlan", "assignPlan"} /\ r.plan \in Plans
      /\ r.default \in BOOLEAN /\ (r.op \in {"createPlan", "updatePlan"} => r.limit \in Limits)
      /\ (r.op = "assignPlan" => r.tenant \in Tenants) /\ None \notin Plans
  BY <1>1, <1>2, ConstantFacts, RequestSet DEF WritePlan, Sound, Names
<1>4. PICK vs : vs = IF ~r.default THEN {} ELSE IF Serial THEN Defaults \ {r.plan} ELSE r.victims
  OBVIOUS
<1>5. /\ plans' = IF r.op \in {"createPlan", "updatePlan"} /\ plans[r.plan].there = (r.op = "updatePlan")
                  THEN [p \in Plans |-> IF p = r.plan
                                        THEN [there |-> TRUE, default |-> r.default, limit |-> r.limit]
                                        ELSE [plans[p] EXCEPT !.default = @ /\ p \notin vs]]
                  ELSE IF r.op = "deletePlan" /\ ~Referenced(r.plan)
                  THEN [plans EXCEPT ![r.plan].there = FALSE] ELSE plans
      /\ quota' = IF r.op = "assignPlan" /\ plans[r.plan].there /\ quota[r.tenant] # None
                  THEN [quota EXCEPT ![r.tenant] = r.plan] ELSE quota
      /\ most' = [t \in Tenants |-> IF quota'[t] = None THEN most[t]
                                    ELSE [most[t] EXCEPT ![day] = @ \union {plans'[quota'[t]].limit}]]
  BY <1>1, <1>4 DEF WritePlan
<1>6. /\ quota' \in [Tenants -> Plans \union {None}]
      /\ \A t \in Tenants : quota'[t] = None <=> quota[t] = None
      /\ \A t \in Tenants : quota'[t] = quota[t] \/ (r.op = "assignPlan" /\ quota'[t] = r.plan /\ plans[r.plan].there)
  BY <1>2, <1>3, <1>5
<1>7. ASSUME NEW p \in Plans
      PROVE  /\ plans'[p] \in [there : BOOLEAN, default : BOOLEAN, limit : Limits]
             /\ \/ plans[p].there => plans'[p].there
                \/ p = r.plan /\ r.op = "deletePlan" /\ ~Referenced(r.plan)
  <2>1. CASE r.op \in {"createPlan", "updatePlan"} /\ plans[r.plan].there = (r.op = "updatePlan")
    <3>1. plans'[p] = IF p = r.plan THEN [there |-> TRUE, default |-> r.default, limit |-> r.limit]
                      ELSE [plans[p] EXCEPT !.default = @ /\ p \notin vs]
      BY <1>5, <2>1
    <3>2. plans[p] \in [there : BOOLEAN, default : BOOLEAN, limit : Limits]
      BY <1>2
    <3>3. CASE p = r.plan
      BY <3>1, <3>3, <1>3, <2>1
    <3>4. CASE p # r.plan
      <4>1. PICK b \in BOOLEAN : b = (plans[p].default /\ p \notin vs)
        OBVIOUS
      <4>2. plans'[p] = [plans[p] EXCEPT !.default = b]
        BY <3>1, <3>4, <4>1
      <4>3. plans'[p] \in [there : BOOLEAN, default : BOOLEAN, limit : Limits]
        BY <3>2, <4>2
      <4>4. plans'[p].there = plans[p].there
        BY <3>2, <4>2
      <4> QED BY <4>3, <4>4
    <3> QED BY <3>3, <3>4
  <2>2. CASE ~(r.op \in {"createPlan", "updatePlan"} /\ plans[r.plan].there = (r.op = "updatePlan"))
    <3>1. \/ plans' = plans
          \/ /\ plans' = [plans EXCEPT ![r.plan].there = FALSE]
             /\ r.op = "deletePlan" /\ ~Referenced(r.plan)
      BY <1>5, <2>2
    <3>2. CASE plans' = plans
      BY <3>2, <1>2
    <3>3. CASE /\ plans' = [plans EXCEPT ![r.plan].there = FALSE]
               /\ r.op = "deletePlan" /\ ~Referenced(r.plan)
      <4>1. plans'[p] = IF p = r.plan THEN [plans[p] EXCEPT !.there = FALSE] ELSE plans[p]
        BY <3>3, <1>2, <1>3
      <4>2. plans[p] \in [there : BOOLEAN, default : BOOLEAN, limit : Limits]
        BY <1>2
      <4>3. CASE p = r.plan
        <5>1. plans'[p] = [plans[p] EXCEPT !.there = FALSE]
          BY <4>1, <4>3
        <5>2. plans'[p] \in [there : BOOLEAN, default : BOOLEAN, limit : Limits]
          BY <4>2, <5>1
        <5> QED BY <5>2, <4>3, <3>3
      <4>4. CASE p # r.plan
        BY <4>1, <4>2, <4>4
      <4> QED BY <4>3, <4>4
    <3> QED BY <3>1, <3>2, <3>3
  <2> QED BY <2>1, <2>2
<1>8. plans' \in [Plans -> [there : BOOLEAN, default : BOOLEAN, limit : Limits]]
  <2>1. \/ plans' = plans \/ plans' = [plans EXCEPT ![r.plan].there = FALSE]
        \/ plans' = [p \in Plans |-> IF p = r.plan
                                     THEN [there |-> TRUE, default |-> r.default, limit |-> r.limit]
                                     ELSE [plans[p] EXCEPT !.default = @ /\ p \notin vs]]
    BY <1>5
  <2>2. plans' = [p \in Plans |-> plans'[p]]
    <3>1. CASE plans' = plans
      BY <3>1, <1>2
    <3>2. CASE plans' = [plans EXCEPT ![r.plan].there = FALSE]
      BY <3>2, <1>2
    <3>3. CASE plans' = [p \in Plans |-> IF p = r.plan
                                     THEN [there |-> TRUE, default |-> r.default, limit |-> r.limit]
                                     ELSE [plans[p] EXCEPT !.default = @ /\ p \notin vs]]
      BY <3>3
    <3> QED BY <2>1, <3>1, <3>2, <3>3
  <2> QED BY <2>2, <1>7
<1>9. ASSUME NEW t \in Tenants, quota'[t] # None PROVE plans'[quota'[t]].there
  <2>1. quota'[t] \in Plans
    BY <1>6, <1>9
  <2>2. plans[quota'[t]].there
    BY <1>2, <1>6, <1>9
  <2>3. ASSUME r.op = "deletePlan", ~Referenced(r.plan) PROVE quota'[t] # r.plan
    BY <1>6, <2>3 DEF Referenced
  <2> QED BY <2>1, <2>2, <2>3, <1>7
<1>10. ASSUME NEW t \in Tenants
       PROVE  /\ most'[t] \in [1..MaxDays -> SUBSET Limits]
              /\ quota'[t] # None => plans'[quota'[t]].limit \in most'[t][day]
              /\ \A d \in 1..MaxDays : most[t][d] \subseteq most'[t][d]
  <2>1. CASE quota'[t] = None
    BY <2>1, <1>2, <1>5
  <2>2. CASE quota'[t] # None
    <3>1. PICK l : l = plans'[quota'[t]].limit
      OBVIOUS
    <3>2. l \in Limits
      BY <2>2, <1>6, <1>8, <3>1
    <3>3. most'[t] = [most[t] EXCEPT ![day] = @ \union {l}]
      BY <1>5, <2>2, <3>1
    <3>4. PICK m : m = most[t]
      OBVIOUS
    <3>5. m \in [1..MaxDays -> SUBSET Limits] /\ most'[t] = [m EXCEPT ![day] = m[day] \union {l}]
          /\ day \in 1..MaxDays
      BY <3>3, <3>4, <1>2
    <3>6. most'[t] \in [1..MaxDays -> SUBSET Limits]
      BY <3>2, <3>5
    <3>7. l \in most'[t][day]
      BY <3>5
    <3>8. \A d \in 1..MaxDays : m[d] \subseteq most'[t][d]
      BY <3>5
    <3> QED BY <3>1, <3>4, <3>6, <3>7, <3>8
  <2> QED BY <2>1, <2>2
<1>11. most' \in [Tenants -> [1..MaxDays -> SUBSET Limits]]
  BY <1>5, <1>10
<1> QED BY <1>6, <1>8, <1>9, <1>10, <1>11

\* One more is counted on a day.
LEMMA CountedOnce ==
  ASSUME NEW f \in [Tenants -> [1..MaxDays -> Nat]], NEW t \in Tenants, NEW d \in 1..MaxDays,
         NEW g, g = [f EXCEPT ![t][d] = f[t][d] + 1]
  PROVE  /\ g \in [Tenants -> [1..MaxDays -> Nat]] /\ f[t][d] \in Nat /\ g[t][d] = f[t][d] + 1
         /\ \A q \in Tenants, e \in 1..MaxDays : q # t \/ e # d => g[q][e] = f[q][e]
<1>1. f[t] \in [1..MaxDays -> Nat] /\ f[t][d] \in Nat
  OBVIOUS
<1>2. PICK n \in Nat : n = f[t][d] + 1
  BY <1>1
<1>3. PICK row : row = [f[t] EXCEPT ![d] = n]
  OBVIOUS
<1>4. row \in [1..MaxDays -> Nat] /\ row[d] = n /\ \A e \in (1..MaxDays) \ {d} : row[e] = f[t][e]
  BY <1>1, <1>3
<1>5. g = [f EXCEPT ![t] = row]
  BY <1>2, <1>3
<1>6. g[t] = row /\ \A q \in Tenants \ {t} : g[q] = f[q]
  BY <1>5
<1>7. g \in [Tenants -> [1..MaxDays -> Nat]]
  BY <1>4, <1>5
<1> QED BY <1>1, <1>2, <1>4, <1>6, <1>7

LEMMA PlansType ==
  ASSUME TypeInv, NEW i \in Requests, WritePlan(i) \/ Consume(i)
  PROVE  TypeInv'
<1>1. PICK r : r = req[i]
  OBVIOUS
<1>2. Sound(r) /\ RowsInv /\ started \in Nat
  BY <1>1 DEF TypeInv, ReqsInv
<1>3. /\ End(i) /\ started' = started /\ UNCHANGED <<users, sessions, cut, created, gone, role, day>>
      /\ Born' = Born
  BY DEF WritePlan, Consume, End, Idles, accountVars, tenantVars, Born
<1>4. RowsInv'
  <2>1. CASE WritePlan(i)
    <3>1. used' = used /\ carried' = carried
      BY <2>1 DEF WritePlan
    <3>2. /\ plans' \in [Plans -> [there : BOOLEAN, default : BOOLEAN, limit : Limits]]
          /\ quota' \in [Tenants -> Plans \union {None}]
          /\ most' \in [Tenants -> [1..MaxDays -> SUBSET Limits]]
          /\ \A t \in Tenants : quota'[t] = None <=> quota[t] = None
          /\ \A t \in Tenants : quota'[t] = None \/ plans'[quota'[t]].there
      BY <2>1, PlanWritten
    <3>3. \A u \in Users : quota'[u] # None => quota[u] # None
      BY <3>2, ConstantFacts
    <3> QED BY <1>2, <1>3, <3>1, <3>2, <3>3 DEF RowsInv
  <2>2. CASE Consume(i)
    <3>1. r.op = "fetch"
      BY <1>1, <2>2 DEF Consume, At
    <3>2. r.tenant \in Tenants /\ r.day \in 1..day /\ day \in 1..MaxDays
      BY <1>2, <3>1 DEF Sound, Names, Knows, RowsInv
    <3>3. r.day \in 1..MaxDays
      BY <3>2, AccessAssumption
    <3>4. PICK t \in Tenants, d \in 1..MaxDays : t = r.tenant /\ d = r.day
      BY <3>2, <3>3
    <3>5. used \in [Tenants -> [1..MaxDays -> Nat]] /\ carried \in [Tenants -> [1..MaxDays -> Nat]]
      BY <1>2 DEF RowsInv
    <3>6. \/ used' = used /\ carried' = carried
          \/ /\ used' = [used EXCEPT ![t][d] = used[t][d] + 1]
             /\ carried' = carried \/ carried' = [carried EXCEPT ![t][d] = carried[t][d] + 1]
      <4>1. \/ used' = used /\ carried' = carried
            \/ /\ used' = [used EXCEPT ![t][d] = used[t][d] + 1]
               /\ carried' = carried \/ carried' = [carried EXCEPT ![t][d] = @ + 1]
        BY <1>1, <2>2, <3>4 DEF Consume, ConsumeUsage
      <4> QED BY <4>1
    <3>7. used' \in [Tenants -> [1..MaxDays -> Nat]]
      <4>1. CASE used' = used
        BY <3>5, <4>1
      <4>2. CASE used' = [used EXCEPT ![t][d] = used[t][d] + 1]
        BY <3>5, <4>2, CountedOnce
      <4> QED BY <3>6, <4>1, <4>2
    <3>8. carried' \in [Tenants -> [1..MaxDays -> Nat]]
      <4>1. CASE carried' = carried
        BY <3>5, <4>1
      <4>2. CASE carried' = [carried EXCEPT ![t][d] = carried[t][d] + 1]
        BY <3>5, <4>2, CountedOnce
      <4> QED BY <3>6, <4>1, <4>2
    <3>9. UNCHANGED <<plans, quota, most>>
      BY <2>2 DEF Consume, planVars
    <3> QED BY <1>2, <1>3, <3>9, <3>7, <3>8 DEF RowsInv
  <2> QED BY <2>1, <2>2
<1>5. Keeps
  <2>1. day \in Int /\ \A u \in Users : users[u].era \in Nat
    BY <1>2 DEF RowsInv
  <2> QED BY <1>2, <1>3, <2>1 DEF Keeps
<1>6. sessions' = sessions
  BY <1>3
<1> QED BY <1>3, <1>4, <1>5, <1>6, SessionsSame, EndType

LEMMA RequestsSame ==
  ASSUME TypeInv, RowsInv', Keeps, req' = req, started' \in Nat,
         \A s \in sessions' : \E z \in sessions : s.id = z.id,
         \A s, z \in sessions' : s.id = z.id => s = z
  PROVE  TypeInv'
<1>1. req \in [Requests -> AnyRequest] /\ started \in Nat /\ RowsInv /\ started <= started'
      /\ sessions \subseteq AnySession
  BY DEF TypeInv, ReqsInv, RowsInv, Keeps
<1>2. ASSUME NEW j \in Requests PROVE Sound(req[j])'
  <2>1. PICK r : r = req[j]
    OBVIOUS
  <2>2. Sound(r)
    BY <2>1 DEF TypeInv, ReqsInv
  <2>3. Sound(r)'
    BY <1>1, <2>2, KnowsStays
  <2>4. req'[j] = r
    BY <2>1
  <2> QED BY <2>3, <2>4
<1>3. ReqsInv'
  BY <1>1, <1>2 DEF ReqsInv
<1>4. IdsInv'
  <2>1. /\ \A s \in sessions : s.id <= started /\ s.id \in Int
        /\ \A j \in Requests : Enters(req[j]) =>
             /\ \A s \in sessions : s.id # req[j].id
             /\ \A k \in Requests \ {j} : Enters(req[k]) => req[k].id # req[j].id
    BY <1>1 DEF TypeInv, IdsInv, AnySession
  <2>2. ASSUME NEW s \in sessions' PROVE s.id <= started'
    <3>1. PICK z \in sessions : s.id = z.id
      OBVIOUS
    <3> QED BY <3>1, <2>1, <1>1
  <2>3. ASSUME NEW j \in Requests, Enters(req[j]), NEW s \in sessions' PROVE s.id # req[j].id
    BY <2>1, <2>3
  <2> QED BY <2>1, <2>2, <2>3 DEF IdsInv
<1> QED BY <1>3, <1>4 DEF TypeInv

LEMMA LogoutType ==
  ASSUME TypeInv, NEW s \in sessions, Logout(s)
  PROVE  TypeInv'
<1>1. /\ users' = users /\ cut' = cut /\ UNCHANGED <<created, role, planVars, usageVars>>
      /\ gone' = gone /\ req' = req /\ started' = started + 1 /\ sessions' = sessions \ {s}
  BY DEF Logout, tenantVars
<1>2. /\ sessions \subseteq AnySession /\ gone \subseteq Born /\ started \in Nat
      /\ \A z \in sessions : /\ users[z.user].there /\ z.era <= users[z.user].era
                             /\ z.tenant \in Born \union {None}
      /\ \A x, z \in sessions : x.id = z.id => x = z
  BY DEF TypeInv, RowsInv, ReqsInv, IdsInv
<1>3. started' \in Nat /\ started <= started'
  <2>1. started \in Nat
    BY <1>2
  <2> QED BY <2>1, <1>1
<1>4. /\ sessions' \subseteq AnySession
      /\ \A z \in sessions' : /\ users[z.user].there /\ z.era <= users[z.user].era
                              /\ z.tenant \in Born \union {None}
      /\ \A x \in sessions' : \E z \in sessions : x.id = z.id
      /\ \A x, z \in sessions' : x.id = z.id => x = z
  BY <1>1, <1>2
<1>5. gone' \subseteq Born
  BY <1>1, <1>2
<1>6. RowsInv' /\ Keeps
  BY <1>1, <1>3, <1>4, <1>5, SessionRows
<1> QED BY <1>1, <1>3, <1>4, <1>6, RequestsSame

\* The day after: only its limits are in force.
LEMMA DayWritten ==
  ASSUME TypeInv, NewDay
  PROVE  /\ day' = day + 1 /\ day' \in 1..MaxDays
         /\ most' \in [Tenants -> [1..MaxDays -> SUBSET Limits]]
         /\ \A t \in Tenants, d \in 1..MaxDays :
              d # day' \/ quota[t] = None => most'[t][d] = most[t][d]
         /\ \A t \in Tenants : quota[t] # None => plans[quota[t]].limit \in most'[t][day']
<1>1. /\ day' = day + 1 /\ day < MaxDays /\ day \in 1..MaxDays /\ MaxDays \in Nat
      /\ most' = [t \in Tenants |-> IF quota[t] = None THEN most[t]
                                    ELSE [most[t] EXCEPT ![day + 1] = LimitOf(t)]]
  BY AccessAssumption DEF NewDay, TypeInv, RowsInv
<1>2. /\ plans \in [Plans -> [there : BOOLEAN, default : BOOLEAN, limit : Limits]]
      /\ quota \in [Tenants -> Plans \union {None}]
      /\ most \in [Tenants -> [1..MaxDays -> SUBSET Limits]]
  BY DEF TypeInv, RowsInv
<1>3. day' \in 1..MaxDays
  BY <1>1
<1>4. ASSUME NEW t \in Tenants
      PROVE  /\ most'[t] \in [1..MaxDays -> SUBSET Limits]
             /\ \A d \in 1..MaxDays : d # day' \/ quota[t] = None => most'[t][d] = most[t][d]
             /\ quota[t] # None => plans[quota[t]].limit \in most'[t][day']
  <2>1. PICK m : m = most[t]
    OBVIOUS
  <2>2. m \in [1..MaxDays -> SUBSET Limits]
    BY <2>1, <1>2
  <2>3. CASE quota[t] = None
    BY <2>1, <2>2, <2>3, <1>1
  <2>4. CASE quota[t] # None
    <3>1. PICK l : l = plans[quota[t]].limit
      OBVIOUS
    <3>2. l \in Limits
      BY <3>1, <2>4, <1>2
    <3>3. LimitOf(t) = {l}
      BY <3>1, <2>4 DEF LimitOf
    <3>4. most'[t] = [m EXCEPT ![day'] = {l}]
      BY <2>1, <2>4, <3>3, <1>1
    <3>5. most'[t] \in [1..MaxDays -> SUBSET Limits]
      BY <3>2, <3>4, <2>2
    <3>6. most'[t][day'] = {l} /\ \A d \in 1..MaxDays : d # day' => most'[t][d] = m[d]
      BY <3>4, <2>2, <1>3
    <3> QED BY <3>1, <3>5, <3>6, <2>1, <2>4
  <2> QED BY <2>3, <2>4
<1>5. most' \in [Tenants -> [1..MaxDays -> SUBSET Limits]]
  BY <1>1, <1>4
<1> QED BY <1>1, <1>3, <1>4, <1>5

LEMMA NewDayType ==
  ASSUME TypeInv, NewDay
  PROVE  TypeInv'
<1>1. /\ UNCHANGED <<users, sessions, cut, created, gone, role, plans, quota, used, carried, req, started>>
      /\ Born' = Born
  BY DEF NewDay, accountVars, tenantVars, planVars, Born
<1>2. RowsInv /\ started \in Nat
  BY DEF TypeInv, ReqsInv
<1>3. day' = day + 1 /\ day' \in 1..MaxDays /\ most' \in [Tenants -> [1..MaxDays -> SUBSET Limits]]
  BY DayWritten
<1>4. RowsInv'
  BY <1>1, <1>2, <1>3 DEF RowsInv
<1>5. Keeps
  <2>1. day \in Int /\ \A u \in Users : users[u].era \in Nat
    BY <1>2 DEF RowsInv
  <2> QED BY <1>1, <1>2, <1>3, <2>1 DEF Keeps
<1>6. sessions' = sessions /\ req' = req /\ started' \in Nat
  BY <1>1, <1>2
<1> QED BY <1>4, <1>5, <1>6, SessionsSame, RequestsSame

\* A request whose sessions are still to be deleted is about a user.
LEMMA RevokingUser ==
  ASSUME NEW r, Sound(r), r.pc = "sessions"
  PROVE  r.op \in {"password", "updateUser"} /\ r.user \in Users
<1>1. r.op \in Ops /\ Stands(r) /\ Names(r)
  BY DEF Sound, AnyRequest
<1>2. r.op \in {"password", "updateUser"}
  BY <1>1 DEF Stands, Ops
<1> QED BY <1>1, <1>2 DEF Names

LEMMA RestartRows ==
  ASSUME TypeInv, Restart
  PROVE  /\ RowsInv' /\ Keeps /\ req' = [i \in Requests |-> Idle] /\ started' = started
         /\ sessions' = sessions
<1>1. /\ UNCHANGED <<sessions, gone, plans, used, day, carried, started>> /\ req' = [i \in Requests |-> Idle]
      /\ BootstrapAdmin \in Users
  BY AccessAssumption DEF Restart
<1>2. PICK u : u = BootstrapAdmin
  OBVIOUS
<1>3. RowsInv /\ started \in Nat /\ gone \subseteq Born /\ cut \subseteq Users /\ u \in Users
  BY <1>1, <1>2 DEF TypeInv, ReqsInv, RowsInv
<1>4. cut' \subseteq Users
  <2>1. cut' = cut \union {req[i].user : i \in {j \in Requests : req[j].pc = "sessions"}}
    BY DEF Restart
  <2>2. ASSUME NEW j \in Requests, req[j].pc = "sessions" PROVE req[j].user \in Users
    <3>1. Sound(req[j])
      BY DEF TypeInv, ReqsInv
    <3> QED BY <3>1, <2>2, RevokingUser
  <2> QED BY <1>3, <2>1, <2>2
<1>5. CASE GetUser(u) /\ users' = [users EXCEPT ![u].admin = TRUE] /\ UNCHANGED <<created, role, quota, most>>
  <2>1. PICK w : w = users[u]
    OBVIOUS
  <2>2. w \in [there : BOOLEAN, live : BOOLEAN, active : BOOLEAN, admin : BOOLEAN, era : Nat] /\ w.there
    BY <1>3, <1>5, <2>1 DEF RowsInv, GetUser
  <2> DEFINE row == [w EXCEPT !.admin = TRUE]
  <2>3. users' = [users EXCEPT ![u] = row]
    BY <1>3, <1>5, <2>1 DEF RowsInv
  <2>4. row \in [there : BOOLEAN, live : BOOLEAN, active : BOOLEAN, admin : BOOLEAN, era : Nat]
        /\ row.there /\ w.era <= row.era
    <3>1. row.there = w.there /\ row.era = w.era /\ w.era \in Nat
      BY <2>2
    <3>2. row \in [there : BOOLEAN, live : BOOLEAN, active : BOOLEAN, admin : BOOLEAN, era : Nat]
      BY <2>2
    <3> HIDE DEF row
    <3> QED BY <3>1, <3>2, <2>2
  <2> HIDE DEF row
  <2>5. UNCHANGED <<created, role, planVars, usageVars>> /\ started' = started /\ sessions' = sessions
        /\ gone' \subseteq Born /\ users[u].there /\ users[u].era <= row.era /\ row.there
    BY <1>1, <1>3, <1>5, <2>1, <2>2, <2>4 DEF planVars, usageVars
  <2>6. RowsInv' /\ Keeps
    BY <1>3, <1>4, <2>3, <2>4, <2>5, SessionsSame, UserRows
  <2> QED BY <1>1, <2>6
<1>6. CASE ~users[u].there /\ \E p \in defaultPlan : CreateAccount(u, p, TRUE)
  <2>1. PICK p \in defaultPlan : CreateAccount(u, p, TRUE)
    BY <1>6
  <2>2. p \in Plans /\ plans[p].there
    BY AccessAssumption DEF defaultPlan, Defaults
  <2>3. RowsInv' /\ Keeps
    BY <1>1, <1>3, <1>4, <1>6, <2>1, <2>2, AccountRows
  <2> QED BY <1>1, <2>3
<1>7. CASE UNCHANGED <<users, created, role, quota, most>>
  <2>1. Born' = Born
    BY <1>7 DEF Born
  <2>2. RowsInv'
    BY <1>1, <1>3, <1>4, <1>7, <2>1 DEF RowsInv
  <2>3. day \in Int /\ \A v \in Users : users[v].era \in Nat
    BY <1>3 DEF RowsInv
  <2>4. Keeps
    BY <1>1, <1>3, <1>7, <2>1, <2>3 DEF Keeps
  <2> QED BY <1>1, <2>2, <2>4
<1> QED BY <1>2, <1>5, <1>6, <1>7 DEF Restart

LEMMA RestartType ==
  ASSUME TypeInv, Restart
  PROVE  TypeInv'
<1>1. /\ RowsInv' /\ Keeps /\ req' = [i \in Requests |-> Idle] /\ started' = started
      /\ sessions' = sessions
  BY RestartRows
<1>2. started \in Nat /\ Idle \in AnyRequest
  BY IdleType DEF TypeInv, ReqsInv, Sound
<1>3. ASSUME NEW j \in Requests PROVE Sound(req[j])' /\ ~Enters(req'[j])
  <2>1. req'[j] = Idle
    BY <1>1
  <2> QED BY <2>1, IdleTypeNext DEF Enters, Idle
<1>4. ReqsInv'
  BY <1>1, <1>2, <1>3 DEF ReqsInv
<1>5. IdsInv'
  BY <1>1, <1>3 DEF TypeInv, IdsInv
<1> QED BY <1>1, <1>4, <1>5 DEF TypeInv

-----------------------------------------------------------------------------
LEMMA BornInit ==
  ASSUME Init
  PROVE  /\ created \in Seq(Tenants) /\ Born = Known \union {Team} /\ Known \subseteq Users
         /\ Registered[1] \in Known /\ DOMAIN Registered \subseteq Nat \ {0}
         /\ \A n \in DOMAIN Registered : Registered[n] \in Users
<1>1. /\ Registered \in Seq(Users) /\ Registered # <<>> /\ Team \in Tenants /\ Users \subseteq Tenants
      /\ created = Registered \o <<Team>>
  BY AccessAssumption, ConstantFacts DEF Init, Tenants
<1>2. PICK n \in Nat : n = Len(Registered)
  BY <1>1
<1>3. n >= 1 /\ DOMAIN Registered = 1..n /\ \A k \in 1..n : Registered[k] \in Users
  BY <1>1, <1>2
<1>4. Registered \in Seq(Tenants) /\ <<Team>> \in Seq(Tenants)
  BY <1>1
<1>5. created \in Seq(Tenants) /\ Len(created) = n + 1
  BY <1>1, <1>2, <1>4
<1>6. /\ \A k \in 1..n : created[k] = Registered[k]
      /\ created[n + 1] = Team
  BY <1>1, <1>2, <1>4
<1>7. DOMAIN created = 1..(n + 1)
  BY <1>5
<1>8. Born \subseteq Known \union {Team}
  <2> SUFFICES ASSUME NEW k \in 1..(n + 1) PROVE created[k] \in Known \union {Team}
    BY <1>7 DEF Born
  <2>1. k \in 1..n \/ k = n + 1
    OBVIOUS
  <2> QED BY <2>1, <1>3, <1>6 DEF Known
<1>9. Known \union {Team} \subseteq Born
  <2>1. ASSUME NEW k \in 1..n PROVE Registered[k] \in Born
    <3>1. k \in 1..(n + 1) /\ created[k] = Registered[k]
      BY <1>6
    <3> QED BY <3>1, <1>7 DEF Born
  <2>2. Team \in Born
    <3>1. n + 1 \in 1..(n + 1)
      OBVIOUS
    <3> QED BY <3>1, <1>6, <1>7 DEF Born
  <2> QED BY <2>1, <2>2, <1>3 DEF Known
<1> QED BY <1>3, <1>5, <1>8, <1>9 DEF Known

LEMMA TypeInit ==
  ASSUME Init
  PROVE  TypeInv
<1>1. /\ created \in Seq(Tenants) /\ Born = Known \union {Team} /\ Known \subseteq Users
      /\ Registered[1] \in Known /\ DOMAIN Registered \subseteq Nat \ {0}
      /\ \A n \in DOMAIN Registered : Registered[n] \in Users
  BY BornInit
<1>2. PICK admins \in SUBSET Known : users = [u \in Users |-> IF u \in Known THEN Person(u \in admins) ELSE NoUser]
  BY DEF Init
<1>3. ASSUME NEW u \in Users
      PROVE  /\ users[u] \in [there : BOOLEAN, live : BOOLEAN, active : BOOLEAN, admin : BOOLEAN, era : Nat]
             /\ users[u].era = 0
             /\ users[u].there <=> u \in Known
             /\ users[u].live => users[u].there
  <2>1. \/ u \in Known /\ (users[u] = Person(TRUE) \/ users[u] = Person(FALSE))
        \/ u \notin Known /\ users[u] = NoUser
    <3>1. CASE u \notin Known
      BY <3>1, <1>2
    <3>2. CASE u \in Known /\ u \in admins
      <4>1. (u \in admins) = TRUE
        BY <3>2
      <4>2. users[u] = Person(u \in admins)
        BY <3>2, <1>2
      <4> QED BY <3>2, <4>1, <4>2
    <3>3. CASE u \in Known /\ u \notin admins
      <4>1. (u \in admins) = FALSE
        BY <3>3
      <4>2. users[u] = Person(u \in admins)
        BY <3>3, <1>2
      <4> QED BY <3>3, <4>1, <4>2
    <3> QED BY <3>1, <3>2, <3>3
  <2>2. CASE u \in Known /\ users[u] = Person(TRUE)
    BY <2>2 DEF Person
  <2>3. CASE u \in Known /\ users[u] = Person(FALSE)
    BY <2>3 DEF Person
  <2>4. CASE u \notin Known /\ users[u] = NoUser
    BY <2>4 DEF NoUser
  <2> QED BY <2>1, <2>2, <2>3, <2>4
<1>4. users \in [Users -> [there : BOOLEAN, live : BOOLEAN, active : BOOLEAN, admin : BOOLEAN, era : Nat]]
  <2>1. users = [u \in Users |-> users[u]]
    BY <1>2
  <2> QED BY <2>1, <1>3
<1>5. PICK p \in Defaults : quota = [t \in Tenants |-> IF t \in Known THEN p ELSE None]
  BY DEF Init
<1>6. /\ plans = Initial /\ day = 1 /\ gone = {} /\ cut = {} /\ started = 0
      /\ used = [t \in Tenants |-> [d \in 1..MaxDays |-> 0]] /\ carried = used
      /\ most = [t \in Tenants |-> [d \in 1..MaxDays |-> IF d = 1 THEN LimitOf(t) ELSE {}]]
      /\ req = [i \in Requests |-> Idle]
  BY DEF Init
<1>7. plans \in [Plans -> [there : BOOLEAN, default : BOOLEAN, limit : Limits]]
  BY <1>6, AccessAssumption
<1>8. p \in Plans /\ plans[p].there
  BY DEF Defaults
<1>9. sessions = {[id |-> -n, user |-> Registered[n], era |-> 0, tenant |-> Registered[n],
                   raced |-> FALSE, late |-> FALSE] : n \in DOMAIN Registered}
  BY DEF Init
<1>10. ASSUME NEW s \in sessions
       PROVE  s \in AnySession /\ users[s.user].there /\ s.era <= users[s.user].era
              /\ s.tenant \in Born \union {None} /\ s.id <= 0
  <2>1. PICK n \in DOMAIN Registered :
          s = [id |-> -n, user |-> Registered[n], era |-> 0, tenant |-> Registered[n],
               raced |-> FALSE, late |-> FALSE]
    BY <1>9
  <2>2. PICK u \in Users : u = Registered[n]
    BY <1>1
  <2>3. u \in Known /\ u \in Tenants /\ n \in Nat /\ -n \in Int /\ -n <= 0
    BY <1>1, <2>2, ConstantFacts DEF Known
  <2>4. s.user = u /\ s.era = 0 /\ s.tenant = u /\ s.id = -n /\ s.raced = FALSE /\ s.late = FALSE
    BY <2>1, <2>2
  <2>5. s \in AnySession
    BY <2>1, <2>2, <2>3 DEF AnySession
  <2> QED BY <2>3, <2>4, <2>5, <1>1, <1>3
<1>11. ASSUME NEW s \in sessions, NEW z \in sessions, s.id = z.id PROVE s = z
  <2>1. PICK n \in DOMAIN Registered :
          s = [id |-> -n, user |-> Registered[n], era |-> 0, tenant |-> Registered[n],
               raced |-> FALSE, late |-> FALSE]
    BY <1>9
  <2>2. PICK m \in DOMAIN Registered :
          z = [id |-> -m, user |-> Registered[m], era |-> 0, tenant |-> Registered[m],
               raced |-> FALSE, late |-> FALSE]
    BY <1>9
  <2>3. n \in Nat /\ m \in Nat /\ -n = -m
    <3>1. s.id = -n /\ z.id = -m
      BY <2>1, <2>2
    <3> QED BY <3>1, <1>1, <1>11
  <2>4. n = m
    BY <2>3
  <2> QED BY <2>1, <2>2, <2>4
<1>12. quota \in [Tenants -> Plans \union {None}] /\ \A t \in Tenants : quota[t] = None \/ plans[quota[t]].there
  BY <1>5, <1>8
<1>13. most \in [Tenants -> [1..MaxDays -> SUBSET Limits]]
  <2>1. ASSUME NEW t \in Tenants PROVE LimitOf(t) \in SUBSET Limits
    BY <1>7, <1>12 DEF LimitOf
  <2>2. ASSUME NEW t \in Tenants PROVE most[t] \in [1..MaxDays -> SUBSET Limits]
    <3>1. most[t] = [d \in 1..MaxDays |-> IF d = 1 THEN LimitOf(t) ELSE {}]
      BY <1>6
    <3> QED BY <2>1, <3>1
  <2> QED BY <1>6, <2>2
<1>14. role \in [Tenants -> [Users -> Roles \union {None}]]
  <2>1. PICK team \in [Known -> Roles \union {None}] :
          role = [t \in Tenants |-> [u \in Users |->
                    IF u \in Known /\ t = Team THEN team[u] ELSE IF u \in Known /\ t = u THEN "owner" ELSE None]]
    BY DEF Init
  <2>2. ASSUME NEW t \in Tenants, NEW u \in Users
        PROVE (IF u \in Known /\ t = Team THEN team[u] ELSE IF u \in Known /\ t = u THEN "owner" ELSE None)
              \in Roles \union {None}
    BY DEF Roles
  <2> QED BY <2>1, <2>2
<1>15. \A u \in Users : u \in Born \/ quota[u] # None => u \in Known
  <2>1. Team \notin Users /\ None \notin Plans /\ Users \subseteq Tenants
    BY AccessAssumption
       DEF Tenants
  <2> QED BY <1>1, <1>5, <2>1
<1>16. RowsInv
  <2>1. /\ used \in [Tenants -> [1..MaxDays -> Nat]] /\ carried \in [Tenants -> [1..MaxDays -> Nat]]
        /\ day \in 1..MaxDays /\ cut \subseteq Users /\ gone \subseteq Born
    BY <1>6, AccessAssumption
  <2>2. sessions \subseteq AnySession
    BY <1>10
  <2> QED BY <1>1, <1>3, <1>4, <1>7, <1>10, <1>12, <1>13, <1>14, <1>15, <2>1, <2>2 DEF RowsInv
<1>17. ASSUME NEW i \in Requests PROVE Sound(req[i]) /\ ~Enters(req[i])
  BY <1>6, IdleType DEF Enters, Idle
<1>18. ReqsInv
  BY <1>6, <1>17, IdleType DEF ReqsInv, Sound
<1>19. IdsInv
  BY <1>6, <1>10, <1>11, <1>17 DEF IdsInv
<1> QED BY <1>16, <1>18, <1>19 DEF TypeInv

LEMMA TypeUnchanged ==
  ASSUME TypeInv, UNCHANGED vars
  PROVE  TypeInv'
<1>1. /\ UNCHANGED <<users, sessions, cut, created, gone, role>>
      /\ UNCHANGED <<plans, quota, used, day, most, carried, req, started>>
      /\ Born' = Born
  BY DEF vars, accountVars, tenantVars, planVars, usageVars, Born
<1>2. RowsInv' /\ Keeps
  <2>1. RowsInv'
    BY <1>1 DEF TypeInv, RowsInv
  <2>2. day \in Int /\ started \in Nat /\ \A u \in Users : users[u].era \in Nat
    BY DEF TypeInv, RowsInv, ReqsInv
  <2> QED BY <1>1, <2>1, <2>2 DEF Keeps
<1>3. sessions' = sessions /\ req' = req /\ started' \in Nat
  BY <1>1 DEF TypeInv, ReqsInv
<1> QED BY <1>2, <1>3, SessionsSame, RequestsSame

\* What a step may be, as the proofs below take it.
Beginning(i) == \E r : Begun(r) /\ Begin(i, r) /\ Reads
Onward(i)    == \E x : Follows(req[i], x) /\ req' = [req EXCEPT ![i] = x] /\ Idles /\ Reads
Writing(i) ==
  \/ createAccount(i) \/ createSession(i)
  \/ UpdateUserPassword(i) \/ UpdateUserPlatformRole(i) \/ UpdateUserStatus(i)
  \/ RevokeSessions(i) \/ SoftDeleteUser(i) \/ SoftDeleteTenant(i) \/ UpdateSessionTenant(i)
  \/ InsertTenant(i) \/ WriteMember(i) \/ WritePlan(i) \/ Consume(i)

LEMMA StepKinds ==
  ASSUME TypeInv, [Next]_vars
  PROVE  \/ \E i \in Requests : \/ req[i] = Idle /\ Beginning(i)
                                \/ Reading(i) /\ Onward(i)
                                \/ Writing(i)
         \/ \E s \in sessions : Logout(s)
         \/ Restart \/ NewDay \/ UNCHANGED vars
<1>1. ASSUME NEW i \in Requests, Opened(i) \/ Administered(i) \/ Shared(i) \/ Planned(i)
      PROVE  Beginning(i)
  BY <1>1, BegunPersonal, BegunAdministered, BegunShared, BegunPlanned DEF Beginning
<1>2. ASSUME NEW i \in Requests, Reading(i) PROVE Onward(i)
  BY <1>2, ReadingFollows DEF Onward
<1> QED BY <1>1, <1>2 DEF Next, Reading, Writing

LEMMA TypeStep ==
  ASSUME TypeInv, [Next]_vars
  PROVE  TypeInv'
<1>1. ASSUME NEW i \in Requests, Beginning(i) PROVE TypeInv'
  BY <1>1, BeginType DEF Beginning
<1>2. ASSUME NEW i \in Requests, Onward(i) PROVE TypeInv'
  BY <1>2, FollowsType DEF Onward
<1>3. ASSUME NEW i \in Requests, Writing(i) PROVE TypeInv'
  BY <1>3, CreateAccountType, CreateSessionType, UsersType, SessionsType, TenantsType, PlansType DEF Writing
<1> QED BY <1>1, <1>2, <1>3, StepKinds, LogoutType, RestartType, NewDayType, TypeUnchanged

\* Every variable has its type, sessions and quotas refer to rows that there are, and no
\* session has the number of another (auth_service.go:121, migrations' foreign keys).
THEOREM TypeCorrect == Spec => []TypeOK
<1>1. TypeInv => TypeOK
  <2> SUFFICES ASSUME TypeInv PROVE TypeOK
    OBVIOUS
  <2>1. \A t \in Born : \E n \in DOMAIN created : created[n] = t
    BY DEF Born
  <2>2. RowsInv /\ ReqsInv /\ IdsInv
    BY DEF TypeInv
  <2>3. /\ users \in [Users -> [there : BOOLEAN, live : BOOLEAN, active : BOOLEAN, admin : BOOLEAN, era : Nat]]
        /\ sessions \subseteq AnySession
        /\ created \in Seq(Tenants)
        /\ role \in [Tenants -> [Users -> Roles \union {None}]]
        /\ plans \in [Plans -> [there : BOOLEAN, default : BOOLEAN, limit : Limits]]
        /\ quota \in [Tenants -> Plans \union {None}]
        /\ \A t \in Tenants : quota[t] = None \/ plans[quota[t]].there
        /\ {used, carried} \subseteq [Tenants -> [1..MaxDays -> Nat]]
        /\ most \in [Tenants -> [1..MaxDays -> SUBSET Limits]]
        /\ day \in 1..MaxDays /\ cut \subseteq Users
    BY <2>2 DEF RowsInv
  <2>4. req \in [Requests -> AnyRequest] /\ started \in Nat
    BY <2>2 DEF ReqsInv
  <2>5. \A s, z \in sessions : s.id = z.id => s = z
    BY <2>2 DEF IdsInv
  <2>6. \A t \in gone : \E n \in DOMAIN created : created[n] = t
    BY <2>1, <2>2 DEF RowsInv
  <2>7. \A s \in sessions : /\ users[s.user].there /\ s.era <= users[s.user].era
                            /\ s.tenant = None \/ \E n \in DOMAIN created : created[n] = s.tenant
    BY <2>1, <2>2 DEF RowsInv
  <2> QED BY <2>3, <2>4, <2>5, <2>6, <2>7 DEF TypeOK
<1> QED BY <1>1, TypeInit, TypeStep, PTL DEF Spec

-----------------------------------------------------------------------------
(* What a day's requests take.                                             *)

\* A request that writes ends or goes on, and the others are as they were, but for
\* what a deletion makes of those that open a session.
LEMMA WritingRequests ==
  ASSUME TypeInv, NEW i \in Requests, Writing(i), NEW j \in Requests
  PROVE  \/ j = i /\ req'[j] = Idle
         \/ /\ j = i /\ req[j].op \in {"register", "password", "updateUser"}
            /\ req'[j].pc \in {"readback", "sessions", "status"}
            /\ req'[j].op = req[j].op /\ req'[j].user = req[j].user /\ req'[j].role = req[j].role
         \/ j # i /\ ~Opens(req[j]) /\ req'[j] = req[j]
         \/ j # i /\ Opens(req[j]) /\ req'[j].op = req[j].op
<1>1. req \in [Requests -> AnyRequest] /\ req[j] \in AnyRequest /\ Sound(req[i])
  BY DEF TypeInv, ReqsInv
<1>2. ASSUME End(i) PROVE req'[j] = IF j = i THEN Idle ELSE req[j]
  BY <1>1, <1>2 DEF End
<1>3. ASSUME NEW pc, Goto(i, pc)
      PROVE  /\ j # i => req'[j] = req[j]
             /\ j = i => req'[j].pc = pc /\ req'[j].op = req[j].op /\ req'[j].user = req[j].user
                         /\ req'[j].role = req[j].role
  <2>1. req' = [req EXCEPT ![i] = [req[i] EXCEPT !.pc = pc]]
    BY <1>3 DEF Goto
  <2>2. CASE j # i
    BY <2>1, <2>2, <1>1
  <2>3. CASE j = i
    <3>1. req'[j] = [req[j] EXCEPT !.pc = pc]
      BY <2>1, <2>3, <1>1
    <3> QED BY <3>1, <2>3, <1>1, RequestSet
  <2> QED BY <2>2, <2>3
<1>4. ASSUME NEW u, NEW ts, Warn(i, u, ts)
      PROVE  \/ j = i /\ req'[j] = Idle
             \/ j # i /\ ~Opens(req[j]) /\ req'[j] = req[j]
             \/ j # i /\ Opens(req[j]) /\ req'[j].op = req[j].op
  <2>1. req'[j] = IF j = i THEN Idle ELSE Late(req[j], u, ts)
    BY <1>4 DEF Warn
  <2>2. PICK y : y = Late(req[j], u, ts)
    OBVIOUS
  <2>3. y.op = req[j].op /\ (~Opens(req[j]) => y = req[j])
    BY <1>1, <2>2, LateFields
  <2> QED BY <2>1, <2>2, <2>3
<1>5. CASE createAccount(i)
  <2>1. req[i].op = "register" /\ (End(i) \/ Goto(i, "readback"))
    BY <1>5 DEF createAccount, At
  <2> QED BY <1>2, <1>3, <2>1
<1>6. CASE UpdateUserPassword(i) \/ UpdateUserPlatformRole(i) \/ UpdateUserStatus(i)
  <2>1. End(i) \/ Goto(i, "sessions") \/ Goto(i, "status")
    BY <1>6 DEF UpdateUserPassword, UpdateUserPlatformRole, UpdateUserStatus
  <2>2. req[i].op \in {"password", "updateUser"}
    <3>1. CASE UpdateUserPassword(i)
      <4>1. req[i].pc = "password"
        BY <3>1 DEF UpdateUserPassword
      <4> QED BY <4>1, <1>1 DEF Sound, Stands, AnyRequest, Ops
    <3>2. CASE UpdateUserPlatformRole(i) \/ UpdateUserStatus(i)
      BY <3>2 DEF UpdateUserPlatformRole, UpdateUserStatus, At
    <3> QED BY <3>1, <3>2, <1>6
  <2> QED BY <1>2, <1>3, <2>1, <2>2
<1>7. CASE RevokeSessions(i) \/ SoftDeleteUser(i) \/ SoftDeleteTenant(i)
  <2>1. End(i) \/ \E u, ts : Warn(i, u, ts)
    BY <1>7 DEF RevokeSessions, SoftDeleteUser, SoftDeleteTenant
  <2> QED BY <1>2, <1>4, <2>1
<1>8. CASE createSession(i) \/ UpdateSessionTenant(i) \/ InsertTenant(i) \/ WriteMember(i)
           \/ WritePlan(i) \/ Consume(i)
  <2>1. End(i)
    BY <1>8 DEF createSession, UpdateSessionTenant, InsertTenant, WriteMember, WritePlan, Consume
  <2> QED BY <1>2, <2>1
<1> QED BY <1>5, <1>6, <1>7, <1>8 DEF Writing

\* Nothing is taken from a quota that there is not, nor on a day that has not come; the
\* limit in force, and the one that a request under way has read, are among those noted for
\* the day it was read on.
FetchFits(r) ==
  r.op = "fetch" => /\ quota[r.tenant] # None
                    /\ r.pc = "today" \/ ~r.late => r.limit \in most[r.tenant][r.day]
Within(t, d) ==
  \/ used[t][d] <= carried[t][d]
  \/ \E l \in most[t][d] : l = Unlimited \/ used[t][d] <= l + carried[t][d]
UsageInv ==
  /\ \A t \in Tenants, d \in 1..MaxDays : (quota[t] = None \/ d > day) => used[t][d] = 0
  /\ \A t \in Tenants : quota[t] # None => plans[quota[t]].limit \in most[t][day]
  /\ \A i \in Requests : FetchFits(req[i])
  /\ \A t \in Tenants, d \in 1..MaxDays : Within(t, d)

LEMMA CountsAreNumbers ==
  ASSUME TypeInv, NEW t \in Tenants, NEW d \in 1..MaxDays
  PROVE  used[t][d] \in Nat /\ carried[t][d] \in Nat /\ most[t][d] \subseteq Limits
<1>1. /\ used \in [Tenants -> [1..MaxDays -> Nat]] /\ carried \in [Tenants -> [1..MaxDays -> Nat]]
      /\ most \in [Tenants -> [1..MaxDays -> SUBSET Limits]]
  BY DEF TypeInv, RowsInv
<1>2. used[t] \in [1..MaxDays -> Nat] /\ carried[t] \in [1..MaxDays -> Nat]
      /\ most[t] \in [1..MaxDays -> SUBSET Limits]
  BY <1>1
<1> QED BY <1>2

LEMMA UsageInit ==
  ASSUME Init
  PROVE  UsageInv
<1>1. TypeInv /\ RowsInv
  BY TypeInit DEF TypeInv
<1>2. /\ used = [t \in Tenants |-> [d \in 1..MaxDays |-> 0]] /\ day = 1
      /\ most = [t \in Tenants |-> [d \in 1..MaxDays |-> IF d = 1 THEN LimitOf(t) ELSE {}]]
      /\ req = [i \in Requests |-> Idle] /\ 1 \in 1..MaxDays
  BY AccessAssumption DEF Init
<1>3. ASSUME NEW t \in Tenants, quota[t] # None PROVE plans[quota[t]].limit \in most[t][day]
  <2>1. most[t][day] = LimitOf(t)
    BY <1>2
  <2> QED BY <1>3, <2>1 DEF LimitOf
<1>4. \A i \in Requests : FetchFits(req[i])
  BY <1>2 DEF FetchFits, Idle
<1>5. ASSUME NEW t \in Tenants, NEW d \in 1..MaxDays PROVE used[t][d] = 0 /\ Within(t, d)
  <2>1. used[t][d] = 0
    BY <1>2
  <2>2. carried[t][d] \in Nat
    BY <1>1, CountsAreNumbers
  <2> QED BY <2>1, <2>2 DEF Within
<1> QED BY <1>3, <1>4, <1>5 DEF UsageInv

\* Only what requests have read changes.
LEMMA UsageKept ==
  ASSUME TypeInv, UsageInv, UNCHANGED <<plans, quota, used, carried, day, most>>,
         \A j \in Requests : FetchFits(req'[j])
  PROVE  UsageInv'
<1>1. \A t \in Tenants, d \in 1..MaxDays : Within(t, d)'
  BY DEF UsageInv, Within
<1>2. \A j \in Requests : FetchFits(req[j])'
  BY DEF FetchFits
<1> QED BY <1>1, <1>2 DEF UsageInv

LEMMA ConsumeUsageStep ==
  ASSUME TypeInv, UsageInv, NEW i \in Requests, Consume(i),
         \A j \in Requests : FetchFits(req'[j])
  PROVE  UsageInv'
<1>1. PICK r : r = req[i]
  OBVIOUS
<1>2. Sound(r) /\ FetchFits(r) /\ r.op = "fetch" /\ r.pc = "consume"
  BY <1>1 DEF TypeInv, ReqsInv, UsageInv, Consume, At
<1>3. r.tenant \in Tenants /\ r.day \in 1..day /\ day \in 1..MaxDays /\ r.limit \in Limits
  BY <1>2 DEF Sound, Names, Knows, TypeInv, RowsInv
<1>4. PICK t \in Tenants, d \in 1..MaxDays : t = r.tenant /\ d = r.day /\ d <= day
  BY <1>3, AccessAssumption
<1>5. PICK l \in Nat \union {Unlimited} : l = r.limit
  BY <1>3, AccessAssumption
<1>6. quota[t] # None /\ (~r.late => l \in most[t][d])
  BY <1>2, <1>4, <1>5 DEF FetchFits
<1>7. used \in [Tenants -> [1..MaxDays -> Nat]] /\ carried \in [Tenants -> [1..MaxDays -> Nat]]
  BY DEF TypeInv, RowsInv
<1>8. PICK n \in Nat : n = used[t][d] + 1
  <2>1. used[t][d] \in Nat
    BY CountsAreNumbers
  <2> QED BY <2>1
<1>9. UNCHANGED <<plans, quota, day, most>>
  BY DEF Consume, planVars
<1>10. CASE Exceeds(n, l)
  <2>1. used' = used /\ carried' = carried
    BY <1>1, <1>4, <1>5, <1>8, <1>10 DEF Consume, ConsumeUsage
  <2> QED BY <1>9, <2>1, UsageKept
<1>11. CASE ~Exceeds(n, l)
  <2>1. /\ used' = [used EXCEPT ![t][d] = used[t][d] + 1]
        /\ carried' = IF r.late THEN [carried EXCEPT ![t][d] = carried[t][d] + 1] ELSE carried
    BY <1>1, <1>4, <1>5, <1>8, <1>11 DEF Consume, ConsumeUsage
  <2>2. /\ used'[t][d] = n
        /\ \A q \in Tenants, e \in 1..MaxDays : q # t \/ e # d => used'[q][e] = used[q][e]
    BY <1>7, <1>8, <2>1, CountedOnce
  <2>3. /\ r.late => carried'[t][d] = carried[t][d] + 1
        /\ ~r.late => carried'[t][d] = carried[t][d]
        /\ \A q \in Tenants, e \in 1..MaxDays : q # t \/ e # d => carried'[q][e] = carried[q][e]
    <3>1. CASE r.late
      <4>1. carried' = [carried EXCEPT ![t][d] = carried[t][d] + 1]
        BY <2>1, <3>1
      <4> QED BY <1>7, <3>1, <4>1, CountedOnce
    <3>2. CASE ~r.late
      BY <2>1, <3>2
    <3> QED BY <3>1, <3>2
  <2>4. used[t][d] \in Nat /\ carried[t][d] \in Nat /\ most[t][d] \subseteq Int
    <3>1. Limits \subseteq Int
      BY AccessAssumption DEF Unlimited
    <3>2. used[t][d] \in Nat /\ carried[t][d] \in Nat /\ most[t][d] \subseteq Limits
      BY CountsAreNumbers
    <3> QED BY <3>1, <3>2
  <2>5. Within(t, d)'
    <3>1. CASE r.late
      <4>1. CASE used[t][d] <= carried[t][d]
        BY <1>8, <2>2, <2>3, <2>4, <3>1, <4>1 DEF Within
      <4>2. CASE \E m \in most[t][d] : m = Unlimited \/ used[t][d] <= m + carried[t][d]
        <5>1. PICK m \in most[t][d] : m = Unlimited \/ used[t][d] <= m + carried[t][d]
          BY <4>2
        <5>2. m = Unlimited \/ used'[t][d] <= m + carried'[t][d]
          BY <1>8, <2>2, <2>3, <2>4, <3>1, <5>1
        <5> QED BY <1>9, <5>2 DEF Within
      <4> QED BY <4>1, <4>2 DEF UsageInv, Within
    <3>2. CASE ~r.late
      <4>1. l = Unlimited \/ n <= l
        BY <1>11 DEF Exceeds, Unlimited
      <4>2. l = Unlimited \/ n <= l + carried[t][d]
        BY <2>4, <4>1
      <4> QED BY <1>6, <1>9, <2>2, <2>3, <3>2, <4>2 DEF Within
    <3> QED BY <3>1, <3>2
  <2>6. ASSUME NEW q \in Tenants, NEW e \in 1..MaxDays
        PROVE  /\ (quota[q] = None \/ e > day) => used'[q][e] = 0
               /\ Within(q, e)'
    <3>1. CASE q = t /\ e = d
      <4>1. quota[q] # None /\ ~(e > day)
        BY <3>1, <1>4, <1>6, <1>3
      <4> QED BY <4>1, <3>1, <2>5
    <3>2. CASE ~(q = t /\ e = d)
      <4>1. used'[q][e] = used[q][e] /\ carried'[q][e] = carried[q][e]
        BY <3>2, <2>2, <2>3
      <4>2. Within(q, e)'
        BY <1>9, <4>1 DEF UsageInv, Within
      <4> QED BY <4>1, <4>2 DEF UsageInv
    <3> QED BY <3>1, <3>2
  <2>7. \A q \in Tenants : quota[q] # None => plans[quota[q]].limit \in most[q][day]
    BY DEF UsageInv
  <2>8. \A j \in Requests : FetchFits(req[j])'
    BY <1>9 DEF FetchFits
  <2> QED BY <1>9, <2>6, <2>7, <2>8 DEF UsageInv
<1> QED BY <1>10, <1>11

LEMMA PlanUsageStep ==
  ASSUME TypeInv, UsageInv, NEW i \in Requests, WritePlan(i),
         \A j \in Requests : /\ FetchFits(req'[j])
                             /\ req'[j].op = "fetch" => req'[j].tenant \in Tenants /\ req'[j].day \in 1..MaxDays
  PROVE  UsageInv'
<1>1. /\ \A t \in Tenants : quota'[t] = None <=> quota[t] = None
      /\ \A t \in Tenants : quota'[t] # None => plans'[quota'[t]].limit \in most'[t][day]
      /\ \A t \in Tenants, d \in 1..MaxDays : most[t][d] \subseteq most'[t][d]
  BY PlanWritten
<1>2. used' = used /\ carried' = carried /\ day' = day
  BY DEF WritePlan
<1>3. \A t \in Tenants, d \in 1..MaxDays : (quota'[t] = None \/ d > day') => used'[t][d] = 0
  BY <1>1, <1>2 DEF UsageInv
<1>4. ASSUME NEW j \in Requests PROVE FetchFits(req[j])'
  BY <1>1 DEF FetchFits
<1>5. ASSUME NEW t \in Tenants, NEW d \in 1..MaxDays PROVE Within(t, d)'
  <2>1. Within(t, d)
    BY DEF UsageInv
  <2> QED BY <2>1, <1>1, <1>2 DEF Within
<1> QED BY <1>1, <1>2, <1>3, <1>4, <1>5 DEF UsageInv

LEMMA DayUsageStep ==
  ASSUME TypeInv, UsageInv, NewDay
  PROVE  UsageInv'
<1>1. /\ day' = day + 1 /\ day' \in 1..MaxDays
      /\ \A t \in Tenants, d \in 1..MaxDays :
           d # day' \/ quota[t] = None => most'[t][d] = most[t][d]
      /\ \A t \in Tenants : quota[t] # None => plans[quota[t]].limit \in most'[t][day']
  BY DayWritten
<1>2. UNCHANGED <<plans, quota, used, carried, req>> /\ day \in 1..MaxDays
  BY DEF NewDay, planVars, TypeInv, RowsInv
<1>3. ASSUME NEW t \in Tenants, NEW d \in 1..MaxDays, quota[t] = None \/ d > day' PROVE used[t][d] = 0
  <2>1. quota[t] = None \/ d > day
    BY <1>1, <1>2, <1>3
  <2> QED BY <2>1 DEF UsageInv
<1>4. ASSUME NEW t \in Tenants, NEW d \in 1..MaxDays PROVE Within(t, d)'
  <2>1. CASE d = day'
    <3>1. d > day
      BY <2>1, <1>1, <1>2
    <3>2. used[t][d] = 0 /\ carried[t][d] \in Nat
      BY <3>1, CountsAreNumbers DEF UsageInv
    <3> QED BY <3>2, <1>2 DEF Within
  <2>2. CASE d # day'
    <3>1. most'[t][d] = most[t][d]
      BY <2>2, <1>1
    <3> QED BY <3>1, <1>2 DEF UsageInv, Within
  <2> QED BY <2>1, <2>2
<1>5. ASSUME NEW j \in Requests PROVE FetchFits(req[j])'
  <2>1. PICK r : r = req[j]
    OBVIOUS
  <2>2. Sound(r) /\ FetchFits(r)
    BY <2>1 DEF TypeInv, ReqsInv, UsageInv
  <2>3. CASE r.op = "fetch"
    <3>1. r.tenant \in Tenants /\ r.day \in 1..day
      BY <2>2, <2>3 DEF Sound, Names, Knows
    <3>2. r.day \in 1..MaxDays /\ r.day # day'
      BY <3>1, <1>1, <1>2, AccessAssumption
    <3>3. most'[r.tenant][r.day] = most[r.tenant][r.day]
      BY <3>1, <3>2, <1>1
    <3> QED BY <2>1, <2>2, <3>3, <1>2 DEF FetchFits
  <2>4. CASE r.op # "fetch"
    BY <2>1, <2>4, <1>2 DEF FetchFits
  <2> QED BY <2>3, <2>4
<1> QED BY <1>1, <1>2, <1>3, <1>4, <1>5 DEF UsageInv

\* A new account has taken nothing, whatever its plan.
LEMMA AccountUsage ==
  ASSUME TypeInv, UsageInv, NEW u \in Users, NEW p \in Plans, NEW admin, CreateAccount(u, p, admin),
         u \in Tenants, quota[u] = None, plans[p].limit \in Limits, UNCHANGED <<plans, used, carried, day>>,
         \A j \in Requests : /\ FetchFits(req'[j])
                             /\ req'[j].op = "fetch" => req'[j].tenant \in Tenants /\ req'[j].day \in 1..MaxDays
  PROVE  UsageInv'
<1>1. PICK l \in Limits : l = plans[p].limit
  OBVIOUS
<1>2. /\ quota' = [quota EXCEPT ![u] = p] /\ most' = [most EXCEPT ![u] = [most[u] EXCEPT ![day] = {l}]]
      /\ quota \in [Tenants -> Plans \union {None}] /\ most \in [Tenants -> [1..MaxDays -> SUBSET Limits]]
      /\ day \in 1..MaxDays
  BY <1>1 DEF CreateAccount, TypeInv, RowsInv
<1>3. /\ quota'[u] = p /\ l \in most'[u][day]
      /\ \A t \in Tenants : t # u => quota'[t] = quota[t] /\ most'[t] = most[t]
  BY <1>2
<1>4. ASSUME NEW t \in Tenants, NEW d \in 1..MaxDays
      PROVE  ((quota'[t] = None \/ d > day) => used[t][d] = 0) /\ Within(t, d)'
  <2>1. CASE t = u
    <3>1. used[t][d] = 0 /\ carried[t][d] \in Nat
      BY <2>1, CountsAreNumbers DEF UsageInv
    <3> QED BY <3>1 DEF Within
  <2>2. CASE t # u
    <3>1. quota'[t] = quota[t] /\ most'[t] = most[t]
      BY <2>2, <1>3
    <3> QED BY <3>1 DEF UsageInv, Within
  <2> QED BY <2>1, <2>2
<1>5. ASSUME NEW t \in Tenants, quota'[t] # None PROVE plans[quota'[t]].limit \in most'[t][day]
  <2>1. CASE t = u
    BY <2>1, <1>1, <1>3
  <2>2. CASE t # u
    BY <2>2, <1>3, <1>5 DEF UsageInv
  <2> QED BY <2>1, <2>2
<1>6. ASSUME NEW j \in Requests PROVE FetchFits(req[j])'
  <2>1. CASE req'[j].op = "fetch"
    <3>1. PICK t \in Tenants : t = req'[j].tenant
      BY <2>1
    <3>2. t # u
      BY <2>1, <3>1 DEF FetchFits
    <3> QED BY <2>1, <3>1, <3>2, <1>3 DEF FetchFits
  <2>2. CASE req'[j].op # "fetch"
    BY <2>2 DEF FetchFits
  <2> QED BY <2>1, <2>2
<1> QED BY <1>4, <1>5, <1>6 DEF UsageInv

LEMMA UsageStep ==
  ASSUME TypeInv, UsageInv, [Next]_vars
  PROVE  UsageInv'
<1>1. req \in [Requests -> AnyRequest] /\ \A j \in Requests : Sound(req[j]) /\ FetchFits(req[j])
  BY DEF TypeInv, ReqsInv, UsageInv
<1>2. ASSUME Reads PROVE UNCHANGED <<plans, quota, used, carried, day, most>>
  BY <1>2 DEF Reads, planVars, usageVars
<1>3. ASSUME NEW i \in Requests, Beginning(i) PROVE UsageInv'
  <2>1. PICK x : Begun(x) /\ Begin(i, x) /\ Reads
    BY <1>3 DEF Beginning
  <2>2. req' = [req EXCEPT ![i] = x]
    BY <2>1 DEF Begin
  <2>3. FetchFits(x)
    <3> SUFFICES ASSUME x.op = "fetch" PROVE quota[x.tenant] # None /\ x.limit \in most[x.tenant][x.day]
      BY DEF FetchFits
    <3>1. x.tenant \in Tenants /\ x.day = day /\ quota[x.tenant] # None
          /\ x.limit = plans[quota[x.tenant]].limit
      BY <2>1 DEF Begun, Names
    <3> QED BY <3>1 DEF UsageInv
  <2>4. \A j \in Requests : FetchFits(req'[j])
    BY <2>2, <2>3, <1>1
  <2> QED BY <1>2, <2>1, <2>4, UsageKept
<1>4. ASSUME NEW i \in Requests, Onward(i) PROVE UsageInv'
  <2>1. PICK x : Follows(req[i], x) /\ req' = [req EXCEPT ![i] = x] /\ Idles /\ Reads
    BY <1>4 DEF Onward
  <2>2. FetchFits(x)
    <3> SUFFICES ASSUME x.op = "fetch" PROVE FetchFits(x)
      BY DEF FetchFits
    <3>1. PICK r : r = req[i]
      OBVIOUS
    <3>2. /\ r.op = "fetch" /\ r.pc = "today" /\ x.pc = "consume" /\ x.tenant = r.tenant
          /\ x.limit = r.limit /\ x.day = day /\ x.late = (r.day # day)
      BY <2>1, <3>1 DEF Follows, Same, Idle
    <3>3. quota[r.tenant] # None /\ r.limit \in most[r.tenant][r.day]
      BY <1>1, <3>1, <3>2 DEF FetchFits
    <3> QED BY <3>2, <3>3 DEF FetchFits
  <2>3. \A j \in Requests : FetchFits(req'[j])
    BY <2>1, <2>2, <1>1
  <2> QED BY <1>2, <2>1, <2>3, UsageKept
<1>5. ASSUME NEW i \in Requests, Writing(i) PROVE UsageInv'
  <2>1. ASSUME NEW j \in Requests
        PROVE  /\ FetchFits(req'[j])
               /\ req'[j].op = "fetch" => req'[j].tenant \in Tenants /\ req'[j].day \in 1..MaxDays
    <3> SUFFICES ASSUME req'[j].op = "fetch"
                 PROVE  FetchFits(req'[j]) /\ req'[j].tenant \in Tenants /\ req'[j].day \in 1..MaxDays
      BY DEF FetchFits
    <3>1. \/ req'[j] = Idle
          \/ /\ j = i /\ req[j].op \in {"register", "password", "updateUser"}
             /\ req'[j].op = req[j].op
          \/ j # i /\ ~Opens(req[j]) /\ req'[j] = req[j]
          \/ j # i /\ Opens(req[j]) /\ req'[j].op = req[j].op
      BY <1>5, WritingRequests
    <3>2. req'[j] = req[j] /\ req[j].op = "fetch"
      BY <3>1 DEF Idle, Opens
    <3>3. req[j].tenant \in Tenants /\ req[j].day \in 1..day /\ day \in 1..MaxDays
      BY <1>1, <3>2 DEF Sound, Names, Knows, TypeInv, RowsInv
    <3>4. req[j].day \in 1..MaxDays
      BY <3>3, AccessAssumption
    <3> QED BY <3>2, <3>3, <3>4, <1>1
  <2>2. CASE Consume(i)
    BY <2>1, <2>2, ConsumeUsageStep
  <2>3. CASE WritePlan(i)
    BY <2>1, <2>3, PlanUsageStep
  <2>4. CASE createAccount(i)
    <3>1. PICK r : r = req[i]
      OBVIOUS
    <3>2. Sound(r) /\ r.op = "register" /\ r.user \in Users /\ r.plan \in Plans
      BY <1>1, <2>4, <3>1 DEF createAccount, At, Sound, Names
    <3>3. CASE ~users[r.user].there /\ plans[r.plan].there
      <4>1. PICK u \in Users, p \in Plans : u = r.user /\ p = r.plan
        BY <3>2
      <4>2. u \in Tenants /\ quota[u] = None /\ plans[p].limit \in Limits
        BY <3>3, <4>1, ConstantFacts DEF TypeInv, RowsInv
      <4>3. CreateAccount(u, p, FALSE) /\ UNCHANGED <<plans, used, carried, day>>
        BY <2>4, <3>1, <3>3, <4>1 DEF createAccount
      <4> QED BY <2>1, <4>2, <4>3, AccountUsage
    <3>4. CASE ~(~users[r.user].there /\ plans[r.plan].there)
      <4>1. UNCHANGED <<plans, quota, used, carried, day, most>>
        BY <2>4, <3>1, <3>4 DEF createAccount
      <4> QED BY <2>1, <4>1, UsageKept
    <3> QED BY <3>3, <3>4
  <2>5. CASE \/ createSession(i) \/ UpdateUserPassword(i) \/ UpdateUserPlatformRole(i)
             \/ UpdateUserStatus(i) \/ RevokeSessions(i) \/ SoftDeleteUser(i) \/ SoftDeleteTenant(i)
             \/ UpdateSessionTenant(i) \/ InsertTenant(i) \/ WriteMember(i)
    <3>1. UNCHANGED <<plans, quota, used, carried, day, most>>
      BY <2>5 DEF createSession, UpdateUserPassword, UpdateUserPlatformRole, UpdateUserStatus,
                  RevokeSessions, SoftDeleteUser, SoftDeleteTenant, UpdateSessionTenant, InsertTenant,
                  WriteMember, planVars, usageVars
    <3> QED BY <2>1, <3>1, UsageKept
  <2> QED BY <1>5, <2>2, <2>3, <2>4, <2>5 DEF Writing
<1>6. ASSUME NEW s \in sessions, Logout(s) PROVE UsageInv'
  <2>1. UNCHANGED <<plans, quota, used, carried, day, most, req>>
    BY <1>6 DEF Logout, planVars, usageVars
  <2> QED BY <2>1, <1>1, UsageKept DEF FetchFits
<1>7. CASE Restart
  <2>1. req' = [i \in Requests |-> Idle] /\ UNCHANGED <<plans, used, carried, day>>
    BY <1>7 DEF Restart
  <2>2. \A j \in Requests : req'[j].op # "fetch" /\ FetchFits(req'[j])
    BY <2>1 DEF Idle, FetchFits
  <2>3. CASE UNCHANGED <<quota, most>>
    BY <2>1, <2>2, <2>3, UsageKept
  <2>4. CASE ~users[BootstrapAdmin].there /\ \E p \in defaultPlan : CreateAccount(BootstrapAdmin, p, TRUE)
    <3>1. PICK p \in Plans, u \in Users : u = BootstrapAdmin /\ CreateAccount(u, p, TRUE)
      BY <2>4, AccessAssumption DEF defaultPlan, Defaults
    <3>2. u \in Tenants /\ quota[u] = None /\ plans[p].limit \in Limits
      BY <2>4, <3>1, ConstantFacts DEF TypeInv, RowsInv
    <3> QED BY <2>1, <2>2, <3>1, <3>2, AccountUsage
  <2> QED BY <1>7, <2>3, <2>4 DEF Restart
<1>8. CASE NewDay
  BY <1>8, DayUsageStep
<1>9. CASE UNCHANGED vars
  <2>1. UNCHANGED <<plans, quota, used, carried, day, most, req>>
    BY <1>9 DEF vars, planVars, usageVars
  <2> QED BY <2>1, <1>1, UsageKept DEF FetchFits
<1> QED BY <1>3, <1>4, <1>5, <1>6, <1>7, <1>8, <1>9, StepKinds

\* What is counted on a day is within a limit that was in force that day (quota.go:77),
\* but for the fetches that had read their limit before midnight (quota.go:85 and 95).
THEOREM UsageWithinLimits == Spec => []UsageBounded
<1>1. Init => TypeInv /\ UsageInv
  BY TypeInit, UsageInit
<1>2. TypeInv /\ UsageInv /\ [Next]_vars => (TypeInv /\ UsageInv)'
  BY TypeStep, UsageStep
<1>3. UsageInv => UsageBounded
  BY DEF UsageInv, UsageBounded, Within
<1> QED BY <1>1, <1>2, <1>3, PTL DEF Spec

-----------------------------------------------------------------------------
(* What is left of sessions and requests after a password, a user or a     *)
(* workspace has changed.                                                  *)

\* The sessions of a user are still to be deleted.
Pending(u) == \E i \in Requests : req[i].pc = "sessions" /\ req[i].user = u

\* Of a session, or of a request that is about to write one.
Fresh(x)  == x.era < users[x.user].era => x.raced \/ x.user \in cut \/ Pending(x.user)
Placed(x) == x.tenant = None \/ GetTenant(x.tenant) \/ x.late
ReqFine(r) ==
  /\ Enters(r) /\ ~Applies(r) => Fresh(r)
  /\ Opens(r) /\ ~Applies(r) => Placed(r)
SessInv ==
  /\ \A s \in sessions : Fresh(s) /\ Placed(s)
  /\ \A i \in Requests : ReqFine(req[i])

LEMMA TenantIsBornNext == \A t : GetTenant(t)' <=> t \notin gone' /\ t \in Born'
BY DEF GetTenant, Born

LEMMA FreshKept ==
  ASSUME NEW x, NEW z, x.user = z.user, x.era = z.era, x.raced = z.raced, Fresh(z),
         users'[z.user].era = users[z.user].era, cut \subseteq cut', Pending(z.user) => Pending(z.user)'
  PROVE  Fresh(x)'
BY DEF Fresh

LEMMA PlacedKept ==
  ASSUME NEW x, NEW z, x.tenant = z.tenant, x.late = z.late, Placed(z), gone' = gone, Born \subseteq Born'
  PROVE  Placed(x)'
BY TenantIsBorn, TenantIsBornNext DEF Placed

LEMMA OpensUser ==
  ASSUME NEW r, Sound(r), Opens(r)
  PROVE  r.user \in Users
BY DEF Sound, Names, Opens

\* One request goes on that deletes no sessions, and nobody's password changes.
LEMMA QuietStep ==
  ASSUME TypeInv, SessInv, NEW i \in Requests, req[i].pc # "sessions",
         NEW x, req' = [req EXCEPT ![i] = x],
         \A v \in Users : users'[v].era = users[v].era, cut' = cut, gone' = gone, Born \subseteq Born',
         Enters(x) /\ ~Applies(x) => x.user \in Users /\ Fresh(x),
         Opens(x) /\ ~Applies(x) => Placed(x)',
         \A s \in sessions' :
           /\ \E z : Fresh(z) /\ z.user \in Users /\ s.user = z.user /\ s.era = z.era /\ s.raced = z.raced
           /\ \E z : Placed(z) /\ s.tenant = z.tenant /\ s.late = z.late
  PROVE  SessInv'
<1>1. req \in [Requests -> AnyRequest] /\ req'[i] = x /\ \A j \in Requests : j # i => req'[j] = req[j]
  BY DEF TypeInv, ReqsInv
<1>2. ASSUME NEW v, Pending(v) PROVE Pending(v)'
  <2>1. PICK j \in Requests : req[j].pc = "sessions" /\ req[j].user = v
    BY <1>2 DEF Pending
  <2>2. req'[j] = req[j]
    BY <2>1, <1>1
  <2> QED BY <2>1, <2>2 DEF Pending
<1>3. ASSUME NEW s \in sessions' PROVE Fresh(s)' /\ Placed(s)'
  <2>1. PICK z : Fresh(z) /\ z.user \in Users /\ s.user = z.user /\ s.era = z.era /\ s.raced = z.raced
    OBVIOUS
  <2>2. Fresh(s)'
    BY <2>1, <1>2, FreshKept
  <2>3. PICK y : Placed(y) /\ s.tenant = y.tenant /\ s.late = y.late
    OBVIOUS
  <2>4. Placed(s)'
    BY <2>3, PlacedKept
  <2> QED BY <2>2, <2>4
<1>4. ASSUME NEW j \in Requests PROVE ReqFine(req[j])'
  <2>1. CASE j = i
    <3>1. Enters(x) /\ ~Applies(x) => Fresh(x)'
      BY <1>2, FreshKept
    <3>2. (Enters(x) /\ ~Applies(x) => Fresh(x))' /\ (Opens(x) /\ ~Applies(x) => Placed(x))'
      BY <3>1 DEF Enters, Opens, Applies
    <3>3. ReqFine(x)'
      BY <3>2 DEF ReqFine
    <3> QED BY <2>1, <1>1, <3>3
  <2>2. CASE j # i
    <3>1. PICK r : r = req[j]
      OBVIOUS
    <3>2. Sound(r) /\ ReqFine(r) /\ req'[j] = r
      BY <2>2, <3>1, <1>1 DEF TypeInv, ReqsInv, SessInv
    <3>3. Enters(r) => Opens(r)
      BY DEF Enters, Opens
    <3>4. Enters(r) /\ ~Applies(r) => Fresh(r)'
      BY <3>2, <3>3, <1>2, OpensUser, FreshKept DEF ReqFine
    <3>5. Opens(r) /\ ~Applies(r) => Placed(r)'
      BY <3>2, PlacedKept DEF ReqFine
    <3>6. (Enters(r) /\ ~Applies(r) => Fresh(r))' /\ (Opens(r) /\ ~Applies(r) => Placed(r))'
      BY <3>4, <3>5 DEF Enters, Opens, Applies
    <3>7. ReqFine(r)'
      BY <3>6 DEF ReqFine
    <3> QED BY <3>2, <3>7
  <2> QED BY <2>1, <2>2
<1> QED BY <1>3, <1>4 DEF SessInv

\* A session that stays as it was.
LEMMA SessionsStay ==
  ASSUME TypeInv, SessInv, sessions' \subseteq sessions
  PROVE  \A s \in sessions' :
           /\ \E z : Fresh(z) /\ z.user \in Users /\ s.user = z.user /\ s.era = z.era /\ s.raced = z.raced
           /\ \E z : Placed(z) /\ s.tenant = z.tenant /\ s.late = z.late
<1> SUFFICES ASSUME NEW s \in sessions'
             PROVE  Fresh(s) /\ s.user \in Users /\ Placed(s)
  OBVIOUS
<1>1. s \in sessions /\ sessions \subseteq AnySession
  BY DEF TypeInv, RowsInv
<1> QED BY <1>1 DEF AnySession, SessInv

\* One request deletes the sessions of a user and the references to workspaces.
LEMMA DeletingStep ==
  ASSUME TypeInv, SessInv, NEW i \in Requests, NEW u, NEW ts, Warn(i, u, ts),
         req[i].pc = "sessions" => req[i].user = u,
         \A v \in Users : v # u => users'[v].era = users[v].era, cut' = cut,
         gone' = gone \union ts, Born' = Born,
         \A s \in sessions' : \E z \in sessions :
           /\ z.user # u /\ s.user = z.user /\ s.era = z.era /\ s.raced = z.raced /\ s.late = z.late
           /\ s.tenant = IF z.tenant \in ts THEN None ELSE z.tenant
  PROVE  SessInv'
<1>1. /\ req \in [Requests -> AnyRequest] /\ sessions \subseteq AnySession
      /\ req' = [j \in Requests |-> IF j = i THEN Idle ELSE Late(req[j], u, ts)]
  BY DEF TypeInv, ReqsInv, RowsInv, Warn
<1>2. ASSUME NEW v, v # u, Pending(v) PROVE Pending(v)'
  <2>1. PICK j \in Requests : req[j].pc = "sessions" /\ req[j].user = v
    BY <1>2 DEF Pending
  <2>2. j # i /\ Sound(req[j])
    BY <2>1, <1>2 DEF TypeInv, ReqsInv
  <2>3. PICK r : r = req[j]
    OBVIOUS
  <2>4. ~Opens(r)
    BY <2>1, <2>2, <2>3, RevokingUser DEF Opens
  <2>5. req'[j] = r
    BY <2>2, <2>3, <2>4, <1>1 DEF Late
  <2> QED BY <2>1, <2>3, <2>5 DEF Pending
<1>3. ASSUME NEW t, t \notin ts, GetTenant(t) PROVE GetTenant(t)'
  BY <1>3, TenantIsBorn, TenantIsBornNext
<1>4. ASSUME NEW s \in sessions' PROVE Fresh(s)' /\ Placed(s)'
  <2>1. PICK z \in sessions :
           /\ z.user # u /\ s.user = z.user /\ s.era = z.era /\ s.raced = z.raced /\ s.late = z.late
           /\ s.tenant = IF z.tenant \in ts THEN None ELSE z.tenant
    OBVIOUS
  <2>2. Fresh(z) /\ Placed(z) /\ z.user \in Users
    BY <1>1 DEF SessInv, AnySession
  <2>3. Fresh(s)'
    BY <2>1, <2>2, <1>2, FreshKept
  <2>4. Placed(s)'
    BY <2>1, <2>2, <1>3 DEF Placed
  <2> QED BY <2>3, <2>4
<1>5. ASSUME NEW j \in Requests PROVE ReqFine(req[j])'
  <2>1. CASE j = i
    BY <2>1, <1>1 DEF ReqFine, Idle, Enters, Opens
  <2>2. CASE j # i
    <3>1. PICK r : r = req[j]
      OBVIOUS
    <3>2. PICK y : y = Late(r, u, ts)
      OBVIOUS
    <3>3. r \in AnyRequest /\ Sound(r) /\ ReqFine(r) /\ req'[j] = y
      BY <2>2, <3>1, <3>2, <1>1 DEF TypeInv, ReqsInv, SessInv
    <3>4. /\ y.op = r.op /\ y.pc = r.pc /\ y.user = r.user /\ y.tenant = r.tenant /\ y.era = r.era
          /\ Opens(r) => y.raced = (r.raced \/ Misses(r, u)) /\ y.late = (r.late \/ r.tenant \in ts)
      BY <3>2, <3>3, LateFields
    <3>5. ASSUME Opens(r), ~Applies(r) PROVE Placed(y)'
      <4>1. Placed(r) /\ y.late = (r.late \/ r.tenant \in ts)
        BY <3>3, <3>4, <3>5 DEF ReqFine
      <4> QED BY <4>1, <3>4, <1>3 DEF Placed
    <3>6. ASSUME Enters(r), ~Applies(r) PROVE Fresh(y)'
      <4>1. Fresh(r) /\ y.raced = (r.raced \/ Misses(r, u)) /\ r.user \in Users
        BY <3>3, <3>4, <3>6, OpensUser DEF ReqFine, Enters, Opens
      <4>2. CASE r.user = u
        BY <4>1, <4>2, <3>6 DEF Misses, Enters, Fresh
      <4>3. CASE r.user # u
        <5>1. y.raced = r.raced
          BY <4>1, <4>3, <3>3 DEF Misses, AnyRequest
        <5> QED BY <5>1, <4>1, <4>3, <3>4, <1>2, FreshKept
      <4> QED BY <4>2, <4>3
    <3>7. (Enters(y) /\ ~Applies(y) => Fresh(y))' /\ (Opens(y) /\ ~Applies(y) => Placed(y))'
      BY <3>4, <3>5, <3>6 DEF Enters, Opens, Applies
    <3>8. ReqFine(y)'
      BY <3>7 DEF ReqFine
    <3> QED BY <3>3, <3>8
  <2> QED BY <2>1, <2>2
<1> QED BY <1>4, <1>5 DEF SessInv

\* A user's password changes, and the sessions are still to be deleted.
LEMMA ChangingStep ==
  ASSUME TypeInv, SessInv, NEW i \in Requests, Goto(i, "sessions"),
         req[i].op \in {"password", "updateUser"},
         \A v \in Users : v # req[i].user => users'[v].era = users[v].era,
         cut' = cut, gone' = gone, Born' = Born, sessions' = sessions
  PROVE  SessInv'
<1>1. req \in [Requests -> AnyRequest] /\ sessions \subseteq AnySession
  BY DEF TypeInv, ReqsInv, RowsInv
<1>2. PICK x : x = [req[i] EXCEPT !.pc = "sessions"]
  OBVIOUS
<1>3. x.pc = "sessions" /\ x.op = req[i].op /\ x.user = req[i].user
  BY <1>1, <1>2, RequestSet
<1>4. req'[i] = x /\ \A j \in Requests : j # i => req'[j] = req[j]
  BY <1>1, <1>2 DEF Goto
<1>11. PICK u : u = req[i].user
  OBVIOUS
<1>5. Pending(u)'
  BY <1>3, <1>4, <1>11 DEF Pending
<1>6. ASSUME NEW v, Pending(v) PROVE Pending(v)'
  <2>1. PICK j \in Requests : req[j].pc = "sessions" /\ req[j].user = v
    BY <1>6 DEF Pending
  <2>2. CASE j = i
    BY <2>1, <2>2, <1>5, <1>11
  <2>3. CASE j # i
    BY <2>1, <2>3, <1>4 DEF Pending
  <2> QED BY <2>2, <2>3
<1>7. ASSUME NEW y, y.user \in Users, Fresh(y) PROVE Fresh(y)'
  <2>1. CASE y.user = u
    BY <2>1, <1>5 DEF Fresh
  <2>2. CASE y.user # u
    BY <1>6, <1>7, <1>11, <2>2, FreshKept
  <2> QED BY <2>1, <2>2
<1>8. ASSUME NEW y, Placed(y) PROVE Placed(y)'
  BY <1>8, PlacedKept
<1>9. \A s \in sessions' : Fresh(s)' /\ Placed(s)'
  BY <1>1, <1>7, <1>8 DEF SessInv, AnySession
<1>10. ASSUME NEW j \in Requests PROVE ReqFine(req[j])'
  <2>1. CASE j = i
    BY <2>1, <1>3, <1>4 DEF ReqFine, Enters, Opens
  <2>2. CASE j # i
    <3>1. PICK r : r = req[j]
      OBVIOUS
    <3>2. Sound(r) /\ ReqFine(r) /\ req'[j] = r
      BY <2>2, <3>1, <1>4 DEF TypeInv, ReqsInv, SessInv
    <3>3. (Enters(r) /\ ~Applies(r) => Fresh(r)') /\ (Opens(r) /\ ~Applies(r) => Placed(r)')
      BY <3>2, <1>7, <1>8, OpensUser DEF ReqFine, Enters, Opens
    <3>4. (Enters(r) /\ ~Applies(r) => Fresh(r))' /\ (Opens(r) /\ ~Applies(r) => Placed(r))'
      BY <3>3 DEF Enters, Opens, Applies
    <3>5. ReqFine(r)'
      BY <3>4 DEF ReqFine
    <3> QED BY <3>2, <3>5
  <2> QED BY <2>1, <2>2
<1> QED BY <1>9, <1>10 DEF SessInv

\* A request that opens no session ends or goes on, and the sessions stay.
LEMMA OtherStep ==
  ASSUME TypeInv, SessInv, NEW i \in Requests, req[i].pc # "sessions",
         NEW x, req' = [req EXCEPT ![i] = x], ~Opens(x),
         \A v \in Users : users'[v].era = users[v].era, cut' = cut, gone' = gone, Born \subseteq Born',
         sessions' \subseteq sessions
  PROVE  SessInv'
<1>1. ~Enters(x)
  BY DEF Enters, Opens
<1> QED BY <1>1, SessionsStay, QuietStep

LEMMA EndStep ==
  ASSUME TypeInv, SessInv, NEW i \in Requests, req[i].pc # "sessions", End(i),
         \A v \in Users : users'[v].era = users[v].era, cut' = cut, gone' = gone, Born \subseteq Born',
         sessions' \subseteq sessions
  PROVE  SessInv'
<1>1. PICK x : x = Idle
  OBVIOUS
<1>2. req' = [req EXCEPT ![i] = x] /\ ~Opens(x)
  BY <1>1 DEF End, Opens, Idle
<1> QED BY <1>2, OtherStep

LEMMA UsersSess ==
  ASSUME TypeInv, SessInv, NEW i \in Requests,
         UpdateUserPassword(i) \/ UpdateUserPlatformRole(i) \/ UpdateUserStatus(i)
  PROVE  SessInv'
<1>1. PICK r : r = req[i]
  OBVIOUS
<1>2. /\ r \in AnyRequest /\ Sound(r)
      /\ users \in [Users -> [there : BOOLEAN, live : BOOLEAN, active : BOOLEAN, admin : BOOLEAN, era : Nat]]
  BY <1>1 DEF TypeInv, ReqsInv, RowsInv
<1>3. r.op \in {"password", "updateUser"} /\ r.user \in Users /\ r.pc # "sessions"
  <2>1. CASE UpdateUserPassword(i)
    <3>1. r.pc = "password"
      BY <1>1, <2>1 DEF UpdateUserPassword
    <3> QED BY <3>1, <1>2 DEF Sound, Stands, Names, AnyRequest, Ops
  <2>2. CASE UpdateUserPlatformRole(i) \/ UpdateUserStatus(i)
    <3>1. r.op = "updateUser" /\ r.pc \in {"role", "status"}
      BY <1>1, <2>2 DEF UpdateUserPlatformRole, UpdateUserStatus, At
    <3> QED BY <3>1, <1>2 DEF Sound, Names
  <2> QED BY <2>1, <2>2
<1>4. sessions' = sessions /\ cut' = cut /\ gone' = gone /\ Born' = Born
  BY DEF UpdateUserPassword, UpdateUserPlatformRole, UpdateUserStatus, tenantVars, Born
<1>5. \/ users' = users
      \/ \E b : users' = [users EXCEPT ![r.user].admin = b] \/ users' = [users EXCEPT ![r.user].active = b]
      \/ Goto(i, "sessions") /\ users' = [users EXCEPT ![r.user].era = @ + 1]
      \/ Goto(i, "sessions") /\ users' = [users EXCEPT ![r.user].active = FALSE, ![r.user].era = @ + 1]
  BY <1>1 DEF UpdateUserPassword, UpdateUserPlatformRole, UpdateUserStatus
<1>6. End(i) \/ Goto(i, "sessions") \/ Goto(i, "status")
  BY DEF UpdateUserPassword, UpdateUserPlatformRole, UpdateUserStatus
<1>7. \A v \in Users : v # r.user => users'[v].era = users[v].era
  BY <1>2, <1>3, <1>5
<1>8. CASE Goto(i, "sessions")
  BY <1>1, <1>3, <1>4, <1>7, <1>8, ChangingStep
<1>9. CASE ~Goto(i, "sessions")
  <2>1. \A v \in Users : users'[v].era = users[v].era
    <3>1. PICK w : w = users[r.user]
      OBVIOUS
    <3>2. w \in [there : BOOLEAN, live : BOOLEAN, active : BOOLEAN, admin : BOOLEAN, era : Nat]
      BY <1>2, <1>3, <3>1
    <3>3. ASSUME NEW b, users' = [users EXCEPT ![r.user].admin = b] \/ users' = [users EXCEPT ![r.user].active = b]
          PROVE  users'[r.user].era = w.era
      <4>1. users'[r.user] = [w EXCEPT !.admin = b] \/ users'[r.user] = [w EXCEPT !.active = b]
        BY <3>1, <3>3, <1>2, <1>3
      <4> QED BY <4>1, <3>2
    <3>4. users'[r.user].era = w.era
      BY <3>1, <3>3, <1>5, <1>9
    <3> QED BY <3>1, <3>4, <1>7
  <2>2. CASE End(i)
    BY <2>1, <2>2, <1>1, <1>3, <1>4, EndStep
  <2>3. CASE Goto(i, "status")
    <3>1. PICK x : x = [req[i] EXCEPT !.pc = "status"]
      OBVIOUS
    <3>2. req' = [req EXCEPT ![i] = x] /\ x.op = r.op
      BY <2>3, <3>1, <1>1, <1>2, RequestSet DEF Goto
    <3>3. ~Opens(x)
      BY <3>2, <1>3 DEF Opens
    <3> QED BY <2>1, <3>2, <3>3, <1>1, <1>3, <1>4, OtherStep
  <2> QED BY <2>2, <2>3, <1>6, <1>9
<1> QED BY <1>8, <1>9

LEMMA DeletingSess ==
  ASSUME TypeInv, SessInv, NEW i \in Requests,
         RevokeSessions(i) \/ SoftDeleteUser(i) \/ SoftDeleteTenant(i)
  PROVE  SessInv'
<1>1. PICK r : r = req[i]
  OBVIOUS
<1>2. /\ r \in AnyRequest /\ Sound(r) /\ sessions \subseteq AnySession
      /\ users \in [Users -> [there : BOOLEAN, live : BOOLEAN, active : BOOLEAN, admin : BOOLEAN, era : Nat]]
  BY <1>1 DEF TypeInv, ReqsInv, RowsInv
<1>3. Born' = Born /\ cut' = cut
  BY DEF RevokeSessions, SoftDeleteUser, SoftDeleteTenant, tenantVars, Born
<1>4. CASE RevokeSessions(i)
  <2>1. PICK u, ts : u = r.user /\ ts = {}
    OBVIOUS
  <2>2. /\ sessions' = DeleteUserSessions(u) /\ Warn(i, u, ts) /\ users' = users /\ gone' = gone \union ts
        /\ r.pc = "sessions" => r.user = u
    BY <1>1, <1>4, <2>1 DEF RevokeSessions, Revoked, tenantVars
  <2>3. ASSUME NEW s \in sessions'
        PROVE  \E z \in sessions :
           /\ z.user # u /\ s.user = z.user /\ s.era = z.era /\ s.raced = z.raced /\ s.late = z.late
           /\ s.tenant = IF z.tenant \in ts THEN None ELSE z.tenant
    BY <2>1, <2>2 DEF DeleteUserSessions
  <2>4. \A v \in Users : v # u => users'[v].era = users[v].era
    BY <2>2
  <2> QED BY <1>1, <1>3, <2>2, <2>3, <2>4, DeletingStep
<1>5. CASE SoftDeleteTenant(i)
  <2>1. PICK t, u : t = r.tenant /\ u = None
    OBVIOUS
  <2>2. r.pc # "sessions" /\ users' = users
    BY <1>1, <1>5 DEF SoftDeleteTenant, At
  <2>3. CASE t \in Teams /\ GetTenant(t)
    <3>1. PICK ts : ts = {t}
      OBVIOUS
    <3>2. gone' = gone \union ts /\ sessions' = ClearSessionsActiveTenant(sessions, ts) /\ Warn(i, u, ts)
      BY <1>1, <1>5, <2>1, <2>3, <3>1 DEF SoftDeleteTenant, Deselected
    <3>3. PICK C : C = ClearSessionsActiveTenant(sessions, ts)
      OBVIOUS
    <3>4. \A s \in C : \E z \in sessions :
            /\ s.id = z.id /\ s.user = z.user /\ s.era = z.era /\ s.raced = z.raced /\ s.late = z.late
            /\ s.tenant = IF z.tenant \in ts THEN None ELSE z.tenant
      BY <3>3, Cleared
    <3>5. \A z \in sessions : z.user # u
      BY <1>2, <2>1, ConstantFacts DEF AnySession
    <3>6. sessions' = C
      BY <3>2, <3>3
    <3>7. \A s \in sessions' : \E z \in sessions :
            /\ z.user # u /\ s.user = z.user /\ s.era = z.era /\ s.raced = z.raced /\ s.late = z.late
            /\ s.tenant = IF z.tenant \in ts THEN None ELSE z.tenant
      BY <3>4, <3>5, <3>6
    <3>8. \A v \in Users : v # u => users'[v].era = users[v].era
      BY <2>2
    <3> QED BY <1>1, <1>3, <2>2, <3>2, <3>7, <3>8, DeletingStep
  <2>4. CASE ~(t \in Teams /\ GetTenant(t))
    <3>1. gone' = gone /\ sessions' = sessions /\ End(i)
      BY <1>1, <1>5, <2>1, <2>4 DEF SoftDeleteTenant
    <3> QED BY <1>1, <1>3, <2>2, <3>1, EndStep
  <2> QED BY <2>3, <2>4
<1>6. CASE SoftDeleteUser(i)
  <2>1. PICK u : u = r.user
    OBVIOUS
  <2>2. r.pc # "sessions" /\ u \in Users
    BY <1>1, <1>2, <1>6, <2>1 DEF SoftDeleteUser, At, Sound, Names
  <2>3. CASE GetUser(u)
    <3>1. PICK ts : ts = IF GetTenant(u) THEN {u} ELSE {}
      OBVIOUS
    <3>2. /\ users' = [users EXCEPT ![u].live = FALSE, ![u].era = @ + 1]
          /\ gone' = gone \union ts
          /\ sessions' = ClearSessionsActiveTenant(DeleteUserSessions(u), ts)
          /\ Warn(i, u, ts)
      BY <1>1, <1>6, <2>1, <2>3, <3>1 DEF SoftDeleteUser, Revoked
    <3>3. PICK ss : ss = DeleteUserSessions(u)
      OBVIOUS
    <3>4. PICK C : C = ClearSessionsActiveTenant(ss, ts)
      OBVIOUS
    <3>5. ss \subseteq sessions /\ \A z \in ss : z.user # u
      BY <3>3 DEF DeleteUserSessions
    <3>6. \A s \in C : \E z \in ss :
            /\ s.id = z.id /\ s.user = z.user /\ s.era = z.era /\ s.raced = z.raced /\ s.late = z.late
            /\ s.tenant = IF z.tenant \in ts THEN None ELSE z.tenant
      BY <3>4, <3>5, Cleared
    <3>7. sessions' = C
      BY <3>2, <3>3, <3>4
    <3>8. \A s \in sessions' : \E z \in sessions :
            /\ z.user # u /\ s.user = z.user /\ s.era = z.era /\ s.raced = z.raced /\ s.late = z.late
            /\ s.tenant = IF z.tenant \in ts THEN None ELSE z.tenant
      BY <3>5, <3>6, <3>7
    <3>9. \A v \in Users : v # u => users'[v].era = users[v].era
      BY <1>2, <2>2, <3>2
    <3>10. gone' = gone \union ts /\ Warn(i, u, ts)
      BY <3>2
    <3>11. req[i].pc = "sessions" => req[i].user = u
      BY <1>1, <2>2
    <3> QED BY <1>3, <3>8, <3>9, <3>10, <3>11, DeletingStep
  <2>4. CASE ~GetUser(u)
    <3>1. users' = users /\ gone' = gone /\ sessions' = sessions /\ End(i)
      BY <1>1, <1>6, <2>1, <2>4 DEF SoftDeleteUser
    <3> QED BY <1>1, <1>3, <2>2, <3>1, EndStep
  <2> QED BY <2>3, <2>4
<1> QED BY <1>4, <1>5, <1>6

LEMMA AccountSess ==
  ASSUME TypeInv, NEW u \in Users, NEW p \in Plans, NEW admin \in BOOLEAN,
         ~users[u].there, CreateAccount(u, p, admin), gone' = gone
  PROVE  /\ Born' = Born \union {u} /\ GetTenant(u)'
         /\ users[u].era = 0 /\ \A v \in Users : users'[v].era = users[v].era
<1>1. /\ users \in [Users -> [there : BOOLEAN, live : BOOLEAN, active : BOOLEAN, admin : BOOLEAN, era : Nat]]
      /\ users[u].era = 0 /\ u \notin Born /\ gone \subseteq Born /\ created \in Seq(Tenants)
  BY DEF TypeInv, RowsInv
<1>2. users' = [users EXCEPT ![u] = Person(admin)] /\ created' = Append(created, u)
  BY DEF CreateAccount
<1>3. Person(admin).era = 0
  BY DEF Person
<1>4. \A v \in Users : users'[v].era = users[v].era
  BY <1>1, <1>2, <1>3
<1>5. u \in Tenants
  BY ConstantFacts
<1>6. Born' = Born \union {u}
  BY <1>1, <1>2, <1>5, BornAppend
<1> QED BY <1>1, <1>4, <1>6, TenantIsBornNext

LEMMA CreateAccountSess ==
  ASSUME TypeInv, SessInv, NEW i \in Requests, createAccount(i)
  PROVE  SessInv'
<1>1. PICK r : r = req[i]
  OBVIOUS
<1>2. r \in AnyRequest /\ Sound(r) /\ r.op = "register" /\ r.pc = "account"
  BY <1>1 DEF createAccount, At, TypeInv, ReqsInv
<1>3. r.user \in Users /\ r.plan \in Plans /\ r.era = 0 /\ r.tenant = r.user
  BY <1>2 DEF Sound, Names, Knows, Applies
<1>4. sessions' = sessions /\ cut' = cut /\ gone' = gone
  BY DEF createAccount
<1>5. CASE ~users[r.user].there /\ plans[r.plan].there
  <2>1. PICK u \in Users, p \in Plans : u = r.user /\ p = r.plan
    BY <1>3
  <2>2. CreateAccount(u, p, FALSE) /\ Goto(i, "readback") /\ ~users[u].there
    BY <1>1, <1>5, <2>1 DEF createAccount
  <2>3. /\ Born' = Born \union {u} /\ GetTenant(u)'
        /\ users[u].era = 0 /\ \A v \in Users : users'[v].era = users[v].era
    BY <1>4, <2>2, AccountSess
  <2>4. PICK x : x = [req[i] EXCEPT !.pc = "readback"]
    OBVIOUS
  <2>5. req' = [req EXCEPT ![i] = x]
    BY <2>2, <2>4 DEF Goto
  <2>6. x.user = u /\ x.era = 0 /\ x.tenant = u
    BY <1>1, <1>2, <1>3, <2>1, <2>4, RequestSet
  <2>7. Fresh(x)
    BY <2>3, <2>6 DEF Fresh
  <2>8. Placed(x)'
    BY <2>3, <2>6 DEF Placed
  <2>9. req[i].pc # "sessions"
    BY <1>1, <1>2
  <2>10. x.user \in Users /\ Born \subseteq Born' /\ sessions' \subseteq sessions
    BY <1>4, <2>3, <2>6
  <2>11. \A s \in sessions' :
           /\ \E z : Fresh(z) /\ z.user \in Users /\ s.user = z.user /\ s.era = z.era /\ s.raced = z.raced
           /\ \E z : Placed(z) /\ s.tenant = z.tenant /\ s.late = z.late
    BY <2>10, SessionsStay
  <2> QED BY <1>4, <2>3, <2>5, <2>7, <2>8, <2>9, <2>10, <2>11, QuietStep
<1>6. CASE ~(~users[r.user].there /\ plans[r.plan].there)
  <2>1. End(i) /\ users' = users /\ created' = created
    BY <1>1, <1>6 DEF createAccount
  <2>2. Born \subseteq Born' /\ req[i].pc # "sessions" /\ sessions' \subseteq sessions
        /\ \A v \in Users : users'[v].era = users[v].era
    BY <1>1, <1>2, <1>4, <2>1 DEF Born
  <2> QED BY <1>4, <2>1, <2>2, EndStep
<1> QED BY <1>5, <1>6

\* A session is opened, or gets another workspace.
LEMMA OpeningSess ==
  ASSUME TypeInv, SessInv, NEW i \in Requests, createSession(i) \/ UpdateSessionTenant(i)
  PROVE  SessInv'
<1>1. PICK r : r = req[i]
  OBVIOUS
<1>2. /\ r \in AnyRequest /\ Sound(r) /\ ReqFine(r) /\ req' = [req EXCEPT ![i] = Idle]
      /\ users' = users /\ cut' = cut /\ gone' = gone /\ Born' = Born /\ r.pc \in {"session", "write"}
  BY <1>1 DEF TypeInv, ReqsInv, SessInv, createSession, UpdateSessionTenant, At, End, tenantVars, Born
<1>3. \A s \in sessions : Fresh(s) /\ s.user \in Users /\ Placed(s) /\ s \in AnySession
  BY DEF TypeInv, RowsInv, SessInv, AnySession
<1>4. ASSUME NEW s \in sessions'
      PROVE  /\ \E z : Fresh(z) /\ z.user \in Users /\ s.user = z.user /\ s.era = z.era /\ s.raced = z.raced
             /\ \E z : Placed(z) /\ s.tenant = z.tenant /\ s.late = z.late
  <2>1. CASE createSession(i)
    <3>1. PICK n : n = [id |-> r.id, user |-> r.user, era |-> r.era, tenant |-> r.tenant,
                        raced |-> r.raced, late |-> r.late]
      OBVIOUS
    <3>2. Opens(r) /\ r.pc = "session" /\ sessions' = sessions \union {n}
      BY <1>1, <2>1, <3>1 DEF createSession
    <3>3. Enters(r) /\ ~Applies(r) /\ r.user \in Users
      BY <1>2, <3>2 DEF Sound, Stands, Names, Opens, Enters, Applies
    <3>4. Fresh(r) /\ Placed(r)
      BY <1>2, <3>2, <3>3 DEF ReqFine
    <3>5. n.user = r.user /\ n.era = r.era /\ n.raced = r.raced /\ n.tenant = r.tenant /\ n.late = r.late
      BY <3>1
    <3> QED BY <1>3, <1>4, <3>2, <3>3, <3>4, <3>5
  <2>2. CASE UpdateSessionTenant(i)
    <3>1. /\ r.op = "select" /\ r.pc = "write"
          /\ sessions' = {IF x.id = r.session THEN [x EXCEPT !.tenant = r.tenant, !.late = r.late] ELSE x : x \in sessions}
      BY <1>1, <2>2 DEF UpdateSessionTenant, At
    <3>2. Placed(r)
      BY <1>2, <3>1 DEF ReqFine, Opens, Applies
    <3>3. PICK x \in sessions : s = IF x.id = r.session THEN [x EXCEPT !.tenant = r.tenant, !.late = r.late] ELSE x
      BY <3>1, <1>4
    <3>4. CASE x.id # r.session
      BY <1>3, <3>3, <3>4
    <3>5. CASE x.id = r.session
      <4>1. s.user = x.user /\ s.era = x.era /\ s.raced = x.raced /\ s.tenant = r.tenant /\ s.late = r.late
        BY <1>3, <3>3, <3>5 DEF AnySession
      <4> QED BY <1>3, <3>2, <4>1
    <3> QED BY <3>4, <3>5
  <2> QED BY <2>1, <2>2
<1>5. PICK x : x = Idle
  OBVIOUS
<1>6. ~Opens(x) /\ ~Enters(x) /\ req' = [req EXCEPT ![i] = x]
  BY <1>2, <1>5 DEF Opens, Enters, Idle
<1>7. req[i].pc # "sessions" /\ Born \subseteq Born' /\ \A v \in Users : users'[v].era = users[v].era
  BY <1>1, <1>2
<1> QED BY <1>2, <1>4, <1>6, <1>7, QuietStep

LEMMA SessInit ==
  ASSUME Init
  PROVE  SessInv
<1>1. /\ TypeInv /\ Born = Known \union {Team} /\ Known \subseteq Users /\ gone = {}
      /\ \A n \in DOMAIN Registered : Registered[n] \in Users
      /\ req = [i \in Requests |-> Idle]
  BY TypeInit, BornInit DEF Init
<1>2. ASSUME NEW s \in sessions PROVE Fresh(s) /\ Placed(s)
  <2>1. PICK n \in DOMAIN Registered :
          s = [id |-> -n, user |-> Registered[n], era |-> 0, tenant |-> Registered[n],
               raced |-> FALSE, late |-> FALSE]
    BY DEF Init
  <2>2. PICK u \in Users : u = Registered[n]
    BY <1>1
  <2>3. s.user = u /\ s.era = 0 /\ s.tenant = u /\ u \in Known
    BY <2>1, <2>2 DEF Known
  <2>4. users[u].era = 0
    <3>1. PICK admins \in SUBSET Known : users = [v \in Users |-> IF v \in Known THEN Person(v \in admins) ELSE NoUser]
      BY DEF Init
    <3>2. users[u] = Person(u \in admins)
      BY <2>3, <3>1
    <3> QED BY <3>2 DEF Person
  <2>5. GetTenant(u)
    BY <1>1, <2>3, TenantIsBorn
  <2> QED BY <2>3, <2>4, <2>5 DEF Fresh, Placed
<1>3. ASSUME NEW i \in Requests PROVE ReqFine(req[i])
  BY <1>1 DEF ReqFine, Enters, Opens, Idle
<1> QED BY <1>2, <1>3 DEF SessInv

LEMMA BeginSess ==
  ASSUME TypeInv, SessInv, NEW i \in Requests, req[i] = Idle, NEW r, Begun(r), Begin(i, r), Reads
  PROVE  SessInv'
<1>1. /\ req' = [req EXCEPT ![i] = r] /\ req[i].pc # "sessions" /\ users' = users /\ cut' = cut
      /\ gone' = gone /\ Born' = Born /\ sessions' \subseteq sessions
  BY DEF Begin, Reads, accountVars, tenantVars, Born, Idle
<1>2. r \in AnyRequest /\ Names(r)
  BY DEF Begun
<1>3. ASSUME Enters(r), ~Applies(r) PROVE r.user \in Users /\ Fresh(r)
  <2>1. r.user \in Users /\ r.op = "login"
    <3>1. r.op = "register" => r.pc = "account"
      BY DEF Begun, Stands
    <3> QED BY <1>2, <1>3, <3>1 DEF Enters, Applies, Names
  <2>2. r.era = users[r.user].era
    BY <2>1 DEF Begun
  <2>3. users[r.user].era \in Nat
    BY <2>1 DEF TypeInv, RowsInv
  <2> QED BY <2>1, <2>2, <2>3 DEF Fresh
<1>4. ASSUME Opens(r), ~Applies(r) PROVE Placed(r)'
  <2>1. Placed(r)
    BY <1>4 DEF Begun, Placed
  <2> QED BY <1>1, <2>1, PlacedKept
<1>5. \A s \in sessions' :
        /\ \E z : Fresh(z) /\ z.user \in Users /\ s.user = z.user /\ s.era = z.era /\ s.raced = z.raced
        /\ \E z : Placed(z) /\ s.tenant = z.tenant /\ s.late = z.late
  BY <1>1, SessionsStay
<1>6. Born \subseteq Born' /\ \A v \in Users : users'[v].era = users[v].era
  BY <1>1
<1> QED BY <1>1, <1>3, <1>4, <1>5, <1>6, QuietStep

LEMMA OnwardSess ==
  ASSUME TypeInv, SessInv, NEW i \in Requests, Reading(i), NEW x, Follows(req[i], x),
         req' = [req EXCEPT ![i] = x], Idles, Reads
  PROVE  SessInv'
<1>1. /\ users' = users /\ cut' = cut /\ gone' = gone /\ Born' = Born /\ sessions' \subseteq sessions
  BY DEF Reads, accountVars, tenantVars, Born
<1>2. req[i].pc # "sessions"
  BY DEF Reading, FirstTenant, ReadBack, GetUserByID, CountPlatformAdmins, ReadMember, Snapshot,
         ReadPlan, ClearDefaultPlanExcept, Today, At
<1>3. PICK r : r = req[i]
  OBVIOUS
<1>4. Sound(r) /\ ReqFine(r) /\ Follows(r, x)
  BY <1>3 DEF TypeInv, ReqsInv, SessInv
<1>5. CASE x = Idle
  <2>1. ~Opens(x)
    BY <1>5 DEF Opens, Idle
  <2>2. Born \subseteq Born' /\ \A v \in Users : users'[v].era = users[v].era
    BY <1>1
  <2> QED BY <1>1, <1>2, <2>1, <2>2, OtherStep
<1>6. CASE x # Idle
  <2>1. x \in AnyRequest /\ Names(x) /\ Same(r, x) /\ ~Applies(r)
    BY <1>4, <1>6 DEF Follows
  <2>2. ASSUME Enters(x), ~Applies(x) PROVE x.user \in Users /\ Fresh(x)
    <3>1. Fresh(r) /\ x.user = r.user /\ x.era = r.era /\ x.raced = r.raced
      BY <1>4, <2>1, <2>2 DEF Same, Enters, ReqFine
    <3>2. x.user \in Users
      BY <2>1, <2>2 DEF Enters, Names
    <3> QED BY <3>1, <3>2 DEF Fresh
  <2>3. ASSUME Opens(x), ~Applies(x) PROVE Placed(x)'
    <3>1. Placed(r) /\ x.late = r.late /\ (x.tenant = r.tenant \/ x.tenant = None \/ GetTenant(x.tenant))
      BY <1>4, <2>1, <2>3 DEF Same, Opens, ReqFine
    <3>2. Placed(x)
      BY <3>1 DEF Placed
    <3> QED BY <1>1, <3>2, PlacedKept
  <2>4. \A s \in sessions' :
          /\ \E z : Fresh(z) /\ z.user \in Users /\ s.user = z.user /\ s.era = z.era /\ s.raced = z.raced
          /\ \E z : Placed(z) /\ s.tenant = z.tenant /\ s.late = z.late
    BY <1>1, SessionsStay
  <2>5. Born \subseteq Born' /\ \A v \in Users : users'[v].era = users[v].era
    BY <1>1
  <2> QED BY <1>1, <1>2, <2>2, <2>3, <2>4, <2>5, QuietStep
<1> QED BY <1>5, <1>6

\* Nothing that sessions depend on changes, but for a restart's cut.
LEMMA StillSess ==
  ASSUME TypeInv, SessInv, \A v \in Users : users'[v].era = users[v].era, gone' = gone,
         Born \subseteq Born', cut \subseteq cut', sessions' \subseteq sessions,
         \A v : Pending(v) => Pending(v)' \/ v \in cut',
         \A j \in Requests : req'[j] = req[j] \/ req'[j] = Idle
  PROVE  SessInv'
<1>1. ASSUME NEW z, Fresh(z), z.user \in Users PROVE Fresh(z)'
  BY <1>1 DEF Fresh
<1>2. ASSUME NEW z, Placed(z) PROVE Placed(z)'
  BY <1>2, PlacedKept
<1>3. ASSUME NEW s \in sessions' PROVE Fresh(s)' /\ Placed(s)'
  <2>1. s \in sessions /\ s.user \in Users
    BY DEF TypeInv, RowsInv, AnySession
  <2> QED BY <2>1, <1>1, <1>2 DEF SessInv
<1>4. ASSUME NEW j \in Requests PROVE ReqFine(req[j])'
  <2>1. CASE req'[j] = Idle
    BY <2>1 DEF ReqFine, Enters, Opens, Idle
  <2>2. CASE req'[j] = req[j]
    <3>1. PICK r : r = req[j]
      OBVIOUS
    <3>2. Sound(r) /\ ReqFine(r) /\ req'[j] = r
      BY <2>2, <3>1 DEF TypeInv, ReqsInv, SessInv
    <3>3. (Enters(r) /\ ~Applies(r) => Fresh(r)') /\ (Opens(r) /\ ~Applies(r) => Placed(r)')
      BY <3>2, <1>1, <1>2, OpensUser DEF ReqFine, Enters, Opens
    <3>4. (Enters(r) /\ ~Applies(r) => Fresh(r))' /\ (Opens(r) /\ ~Applies(r) => Placed(r))'
      BY <3>3 DEF Enters, Opens, Applies
    <3>5. ReqFine(r)'
      BY <3>4 DEF ReqFine
    <3> QED BY <3>2, <3>5
  <2> QED BY <2>1, <2>2
<1> QED BY <1>3, <1>4 DEF SessInv

LEMMA RestartSess ==
  ASSUME TypeInv, SessInv, Restart
  PROVE  SessInv'
<1>1. /\ req' = [i \in Requests |-> Idle] /\ sessions' = sessions /\ gone' = gone
      /\ cut' = cut \union {req[i].user : i \in {j \in Requests : req[j].pc = "sessions"}}
  BY DEF Restart
<1>2. PICK u : u = BootstrapAdmin
  OBVIOUS
<1>3. u \in Users
  BY <1>2, AccessAssumption
<1>4. Born \subseteq Born' /\ \A v \in Users : users'[v].era = users[v].era
  <2>1. CASE users' = [users EXCEPT ![u].admin = TRUE] /\ created' = created
    <3>1. PICK w : w = users[u]
      OBVIOUS
    <3>2. /\ w \in [there : BOOLEAN, live : BOOLEAN, active : BOOLEAN, admin : BOOLEAN, era : Nat]
          /\ users \in [Users -> [there : BOOLEAN, live : BOOLEAN, active : BOOLEAN, admin : BOOLEAN, era : Nat]]
      BY <1>3, <3>1 DEF TypeInv, RowsInv
    <3>3. PICK x : x = [w EXCEPT !.admin = TRUE]
      OBVIOUS
    <3>4. x.era = w.era
      BY <3>2, <3>3
    <3>5. users' = [users EXCEPT ![u] = x]
      BY <1>3, <2>1, <3>1, <3>2, <3>3
    <3> QED BY <2>1, <3>1, <3>2, <3>4, <3>5 DEF Born
  <2>2. CASE ~users[u].there /\ \E p \in defaultPlan : CreateAccount(u, p, TRUE)
    <3>1. PICK p \in Plans : CreateAccount(u, p, TRUE)
      BY <2>2, AccessAssumption DEF defaultPlan, Defaults
    <3> QED BY <1>1, <1>3, <2>2, <3>1, AccountSess
  <2>3. CASE users' = users /\ created' = created
    BY <2>3 DEF Born
  <2> QED BY <1>2, <2>1, <2>2, <2>3 DEF Restart
<1>5. \A v : Pending(v) => v \in cut'
  BY <1>1 DEF Pending
<1> QED BY <1>1, <1>4, <1>5, StillSess

LEMMA SessStep ==
  ASSUME TypeInv, SessInv, [Next]_vars
  PROVE  SessInv'
<1>1. ASSUME NEW i \in Requests, req[i] = Idle, Beginning(i) PROVE SessInv'
  BY <1>1, BeginSess DEF Beginning
<1>2. ASSUME NEW i \in Requests, Reading(i), Onward(i) PROVE SessInv'
  BY <1>2, OnwardSess DEF Onward
<1>3. ASSUME NEW i \in Requests, InsertTenant(i) \/ WriteMember(i) \/ WritePlan(i) \/ Consume(i)
      PROVE  SessInv'
  <2>1. /\ End(i) /\ users' = users /\ cut' = cut /\ sessions' = sessions /\ gone' = gone
        /\ req[i].pc # "sessions"
    BY <1>3 DEF InsertTenant, WriteMember, WritePlan, Consume, At, accountVars, tenantVars
  <2>2. Born \subseteq Born'
    <3>1. CASE created' = created
      BY <3>1 DEF Born
    <3>2. CASE InsertTenant(i) /\ created' = Append(created, req[i].tenant)
      <4>1. PICK t : t = req[i].tenant
        OBVIOUS
      <4>2. Sound(req[i]) /\ req[i].op = "createTenant"
        BY <3>2 DEF TypeInv, ReqsInv, InsertTenant, At
      <4>3. t \in Tenants
        BY <4>1, <4>2, ConstantFacts DEF Sound, Names
      <4>4. created \in Seq(Tenants) /\ created' = Append(created, t)
        BY <3>2, <4>1 DEF TypeInv, RowsInv
      <4> QED BY <4>3, <4>4, BornAppend
    <3> QED BY <1>3, <3>1, <3>2 DEF InsertTenant, WriteMember, WritePlan, Consume, tenantVars
  <2>3. (\A v \in Users : users'[v].era = users[v].era) /\ sessions' \subseteq sessions
    BY <2>1
  <2> QED BY <2>1, <2>2, <2>3, EndStep
<1>4. ASSUME NEW i \in Requests, Writing(i) PROVE SessInv'
  BY <1>3, <1>4, CreateAccountSess, OpeningSess, UsersSess, DeletingSess DEF Writing
<1>5. ASSUME NEW s \in sessions, Logout(s) PROVE SessInv'
  <2>1. /\ users' = users /\ cut' = cut /\ gone' = gone /\ Born' = Born /\ req' = req
        /\ sessions' \subseteq sessions
    BY <1>5 DEF Logout, tenantVars, Born
  <2> QED BY <2>1, StillSess DEF Pending
<1>6. CASE NewDay \/ UNCHANGED vars
  <2>1. /\ users' = users /\ cut' = cut /\ gone' = gone /\ Born' = Born /\ req' = req
        /\ sessions' = sessions
    BY <1>6 DEF NewDay, vars, accountVars, tenantVars, Born
  <2> QED BY <2>1, StillSess DEF Pending
<1> QED BY <1>1, <1>2, <1>4, <1>5, <1>6, RestartSess, StepKinds

\* A session that was opened with a password that has changed since, or by a user who has
\* been disabled or deleted since, is gone, or the deletion of the sessions is under way, or
\* a restart cut it off, or the login was under way itself; a session points to a deleted
\* workspace only if it was selected while that was deleted (user_service.go:76,
\* admin_service.go:83 and 113, repo/tenants.go:86).
THEOREM SessionsAreExplained == Spec => []SessionsExplained
<1>1. Init => TypeInv /\ SessInv
  BY TypeInit, SessInit
<1>2. TypeInv /\ SessInv /\ [Next]_vars => (TypeInv /\ SessInv)'
  BY TypeStep, SessStep
<1>3. SessInv => SessionsExplained
  BY DEF SessInv, SessionsExplained, Fresh, Placed, Pending
<1> QED BY <1>1, <1>2, <1>3, PTL DEF Spec

-----------------------------------------------------------------------------
(* The last administrator, the last owner and the default plan.            *)

\* Requests of different kinds pass different guards.
LEMMA GuardOf ==
  ASSUME NEW r
  PROVE  /\ r.op = "deleteUser" \/ (r.op = "updateUser" /\ r.role = "user") => Guard(r) = <<"admin">>
         /\ r.op \in {"updateRole", "removeMember"} => Guard(r) = <<"owner", r.tenant>>
         /\ r.op \in {"createPlan", "updatePlan", "deletePlan"} => Guard(r) = <<"plan">>
         /\ r.op \notin {"deleteUser", "updateUser", "updateRole", "removeMember", "createPlan",
                         "updatePlan", "deletePlan"} => Guard(r) = <<>>
<1>1. r.op = "deleteUser" => Guard(r) = <<"admin">>
  BY DEF Guard
<1>2. r.op = "updateUser" /\ r.role = "user" => Guard(r) = <<"admin">>
  BY DEF Guard
<1>3. r.op \in {"updateRole", "removeMember"} => Guard(r) = <<"owner", r.tenant>>
  BY DEF Guard
<1>4. r.op \in {"createPlan", "updatePlan", "deletePlan"} => Guard(r) = <<"plan">>
  BY DEF Guard
<1>5. r.op \notin {"deleteUser", "updateUser", "updateRole", "removeMember", "createPlan",
                   "updatePlan", "deletePlan"} => Guard(r) = <<>>
  BY DEF Guard
<1> QED BY <1>1, <1>2, <1>3, <1>4, <1>5

LEMMA GuardSame ==
  ASSUME NEW r, NEW x, x.op = r.op, x.role = r.role, x.tenant = r.tenant
  PROVE  Guard(x) = Guard(r)
BY DEF Guard

LEMMA GuardIsThere == \A t : <<"admin">> # <<>> /\ <<"owner", t>> # <<>> /\ <<"plan">> # <<>>
OBVIOUS

\* Requests that pass the same guard at once are noted.
Alone ==
  \A i, j \in Requests : i # j => Together(req[i], req[j]) \subseteq overlapped

LEMMA TogetherSame ==
  ASSUME NEW r, NEW q, NEW x, NEW y, x.op = r.op, y.op = q.op, Guard(x) = Guard(r), Guard(y) = Guard(q)
  PROVE  Together(x, y) = Together(r, q)
<1>1. r.op = "removeMember" => x.tenant = r.tenant
  <2> SUFFICES ASSUME r.op = "removeMember" PROVE x.tenant = r.tenant
    OBVIOUS
  <2>1. Guard(r) = <<"owner", r.tenant>> /\ Guard(x) = <<"owner", x.tenant>>
    BY GuardOf
  <2> QED BY <2>1
<1> QED BY <1>1 DEF Together

LEMMA TogetherTurned ==
  ASSUME NEW r, NEW q
  PROVE  Together(r, q) = Together(q, r)
<1>1. CASE Guard(r) = <<>> \/ Guard(r) # Guard(q)
  BY <1>1 DEF Together
<1>2. CASE ~(Guard(r) = <<>> \/ Guard(r) # Guard(q))
  <2>1. CASE r.op = "removeMember" /\ q.op = "removeMember"
    <3>1. Guard(r) = <<"owner", r.tenant>> /\ Guard(q) = <<"owner", q.tenant>>
      BY <2>1, GuardOf
    <3>2. r.tenant = q.tenant
      BY <1>2, <3>1
    <3> QED BY <1>2, <2>1, <3>2 DEF Together
  <2>2. CASE ~(r.op = "removeMember" /\ q.op = "removeMember")
    BY <1>2, <2>2 DEF Together
  <2> QED BY <2>1, <2>2
<1> QED BY <1>1, <1>2

\* A pair with the same guard is noted by it, unless both are removals.
LEMMA PairNoted ==
  ASSUME Alone, NEW i \in Requests, NEW j \in Requests, i # j, Guard(req[i]) = Guard(req[j]),
         Guard(req[i]) # <<>>
  PROVE  \/ Guard(req[i]) \in overlapped
         \/ /\ req[i].op = "removeMember" /\ req[j].op = "removeMember"
            /\ <<"removal", req[i].tenant>> \in overlapped
<1>1. Together(req[i], req[j]) \subseteq overlapped
  BY DEF Alone
<1> QED BY <1>1 DEF Together

\* What a step leaves of the requests: all but one are as they were, but for those
\* that open a session.
LEMMA OthersMove ==
  ASSUME TypeInv, NEW i \in Requests, Writing(i), NEW j \in Requests
  PROVE  /\ j # i => req'[j] = req[j] \/ (Opens(req[j]) /\ Opens(req'[j]))
         /\ j = i => \/ req'[j] = Idle
                     \/ /\ req'[j].op \in {"register", "password", "updateUser"}
                        /\ req'[j].pc \in {"readback", "sessions", "status"}
                        /\ req'[j].op = req[j].op /\ req'[j].user = req[j].user /\ req'[j].role = req[j].role
<1>1. \/ j = i /\ req'[j] = Idle
      \/ /\ j = i /\ req[j].op \in {"register", "password", "updateUser"}
         /\ req'[j].pc \in {"readback", "sessions", "status"}
         /\ req'[j].op = req[j].op /\ req'[j].user = req[j].user /\ req'[j].role = req[j].role
      \/ j # i /\ ~Opens(req[j]) /\ req'[j] = req[j]
      \/ j # i /\ Opens(req[j]) /\ req'[j].op = req[j].op
  BY WritingRequests
<1>2. Opens(req[j]) /\ req'[j].op = req[j].op => Opens(req'[j])
  BY DEF Opens
<1> QED BY <1>1, <1>2

LEMMA OpensNoGuard ==
  ASSUME NEW r, Opens(r) \/ r = Idle
  PROVE  Guard(r) = <<>>
<1>1. r.op \in {"login", "register", "select", "idle"}
  BY DEF Opens, Idle
<1> QED BY <1>1, GuardOf

LEMMA WritingOverlaps ==
  ASSUME NEW i \in Requests, Writing(i)
  PROVE  overlapped' = overlapped
<1>1. Idles
  BY DEF Writing, createAccount, createSession, UpdateUserPassword, UpdateUserPlatformRole, UpdateUserStatus,
         RevokeSessions, SoftDeleteUser, SoftDeleteTenant, UpdateSessionTenant, InsertTenant, WriteMember,
         WritePlan, Consume, End, Goto, Warn
<1> QED BY <1>1 DEF Idles

\* No step but a beginning gives a request a guard, and what was noted stays.
LEMMA AloneKept ==
  ASSUME Alone, overlapped \subseteq overlapped',
         \A j \in Requests : \/ req'[j].op = req[j].op /\ Guard(req'[j]) = Guard(req[j])
                             \/ Guard(req'[j]) = <<>>
  PROVE  Alone'
<1> SUFFICES ASSUME NEW i \in Requests, NEW j \in Requests, i # j
             PROVE  Together(req'[i], req'[j]) \subseteq overlapped'
  BY DEF Alone, Together, Guard
<1>1. CASE Guard(req'[i]) = <<>> \/ Guard(req'[j]) = <<>>
  BY <1>1 DEF Together
<1>2. CASE ~(Guard(req'[i]) = <<>> \/ Guard(req'[j]) = <<>>)
  <2>1. Together(req'[i], req'[j]) = Together(req[i], req[j])
    BY <1>2, TogetherSame
  <2> QED BY <2>1 DEF Alone
<1> QED BY <1>1, <1>2

LEMMA AloneStep ==
  ASSUME TypeInv, Alone, [Next]_vars
  PROVE  Alone' /\ overlapped \subseteq overlapped'
<1>1. req \in [Requests -> AnyRequest]
  BY DEF TypeInv, ReqsInv
<1>2. ASSUME NEW i \in Requests, Beginning(i) PROVE Alone' /\ overlapped \subseteq overlapped'
  <2>1. PICK r : /\ req' = [req EXCEPT ![i] = r]
                 /\ overlapped' = overlapped \union UNION {Together(r, req[j]) : j \in Requests}
    BY <1>2 DEF Beginning, Begin
  <2>2. overlapped \subseteq overlapped' /\ \A j \in Requests : Together(r, req[j]) \subseteq overlapped'
    BY <2>1
  <2>3. req'[i] = r /\ \A j \in Requests : j # i => req'[j] = req[j]
    BY <1>1, <2>1
  <2>4. ASSUME NEW k \in Requests, NEW j \in Requests, k # j
        PROVE  Together(req'[k], req'[j]) \subseteq overlapped'
    <3>1. CASE k = i
      BY <2>2, <2>3, <2>4, <3>1
    <3>2. CASE j = i
      <4>1. Together(req'[k], req'[j]) = Together(r, req[k])
        BY <2>3, <2>4, <3>2, TogetherTurned
      <4> QED BY <2>2, <4>1
    <3>3. CASE k # i /\ j # i
      BY <2>2, <2>3, <2>4, <3>3 DEF Alone
    <3> QED BY <3>1, <3>2, <3>3
  <2> QED BY <2>2, <2>4 DEF Alone, Together, Guard
<1>3. ASSUME NEW i \in Requests, Onward(i) PROVE Alone' /\ overlapped \subseteq overlapped'
  <2>1. PICK x : Follows(req[i], x) /\ req' = [req EXCEPT ![i] = x] /\ overlapped' = overlapped
    BY <1>3 DEF Onward, Idles
  <2>2. req'[i] = x /\ \A j \in Requests : j # i => req'[j] = req[j]
    BY <1>1, <2>1
  <2>3. Guard(x) = <<>> \/ (x.op = req[i].op /\ Guard(x) = Guard(req[i]))
    <3>1. CASE x = Idle \/ x.op = "login"
      BY <3>1, OpensNoGuard DEF Opens
    <3>2. CASE x # Idle /\ x.op # "login"
      BY <2>1, <3>2, GuardSame DEF Follows, Same
    <3> QED BY <3>1, <3>2
  <2>4. \A j \in Requests : \/ req'[j].op = req[j].op /\ Guard(req'[j]) = Guard(req[j])
                            \/ Guard(req'[j]) = <<>>
    BY <2>2, <2>3
  <2> QED BY <2>1, <2>4, AloneKept
<1>4. ASSUME NEW i \in Requests, Writing(i) PROVE Alone' /\ overlapped \subseteq overlapped'
  <2>1. overlapped' = overlapped
    BY <1>4, WritingOverlaps
  <2>2. ASSUME NEW j \in Requests
        PROVE  \/ req'[j].op = req[j].op /\ Guard(req'[j]) = Guard(req[j])
               \/ Guard(req'[j]) = <<>>
    <3>1. CASE req'[j] = req[j]
      BY <3>1
    <3>2. CASE req'[j] = Idle \/ Opens(req'[j])
      BY <3>2, OpensNoGuard
    <3>3. CASE /\ req'[j].op \in {"register", "password", "updateUser"}
               /\ req'[j].op = req[j].op /\ req'[j].role = req[j].role
      BY <3>3, GuardOf DEF Guard
    <3> QED BY <1>4, <3>1, <3>2, <3>3, OthersMove
  <2> QED BY <2>1, <2>2, AloneKept
<1>5. ASSUME NEW s \in sessions, Logout(s) PROVE Alone' /\ overlapped \subseteq overlapped'
  BY <1>5, AloneKept DEF Logout
<1>6. CASE Restart
  <2>1. overlapped' = overlapped /\ \A j \in Requests : req'[j] = Idle
    BY <1>6 DEF Restart
  <2> QED BY <2>1, OpensNoGuard, AloneKept
<1>7. CASE NewDay \/ UNCHANGED vars
  <2>1. UNCHANGED <<req, overlapped>>
    BY <1>7 DEF NewDay, vars
  <2> QED BY <2>1, AloneKept
<1> QED BY <1>2, <1>3, <1>4, <1>5, <1>6, <1>7, StepKinds

LEMMA MoreThanOne ==
  ASSUME NEW S, IsFiniteSet(S), NEW u, ~(Cardinality(S) <= 1)
  PROVE  S \ {u} # {}
<1> SUFFICES ASSUME S \subseteq {u} PROVE FALSE
  OBVIOUS
<1>1. Cardinality({u}) = 1 /\ IsFiniteSet({u})
  BY FS_Singleton
<1>2. Cardinality(S) <= Cardinality({u}) /\ Cardinality(S) \in Nat
  BY <1>1, FS_Subset, FS_CardinalityType
<1> QED BY <1>1, <1>2

\* A request that is about to take an administrator away leaves another.
Removes(r) ==
  \/ r.op = "deleteUser" /\ r.pc = "delete"
  \/ r.op = "updateUser" /\ r.pc = "role" /\ r.role = "user"
AdminReady(r) == Removes(r) => Admins \ {r.user} # {}
RoleAsked(r)  == r.op = "updateUser" /\ r.pc \in {"count", "role"} => r.role \in {"admin", "user"}
AdminInv ==
  /\ \A i \in Requests : RoleAsked(req[i])
  /\ \/ <<"admin">> \in overlapped
     \/ Admins # {} /\ \A i \in Requests : AdminReady(req[i])

LEMMA AdminInit ==
  ASSUME Init
  PROVE  AdminInv
<1>1. req = [i \in Requests |-> Idle] /\ Registered[1] \in Known /\ Known \subseteq Users
  BY BornInit DEF Init
<1>2. PICK admins \in SUBSET Known :
        /\ Registered[1] \in admins
        /\ users = [u \in Users |-> IF u \in Known THEN Person(u \in admins) ELSE NoUser]
  BY DEF Init
<1>3. PICK u \in Users : u = Registered[1] /\ u \in Known /\ u \in admins
  BY <1>1, <1>2
<1>4. users[u] = Person(TRUE)
  <2>1. (u \in admins) = TRUE
    BY <1>3
  <2>2. users[u] = Person(u \in admins)
    BY <1>2, <1>3
  <2> QED BY <2>1, <2>2
<1>5. u \in Admins
  BY <1>4 DEF Admins, Person
<1> QED BY <1>1, <1>5 DEF AdminInv, AdminReady, RoleAsked, Removes, Idle

\* Nobody loses the role, and nobody new is about to.
LEMMA AdminKept ==
  ASSUME AdminInv, overlapped \subseteq overlapped', Admins \subseteq Admins',
         \A j \in Requests : \/ req'[j] = req[j]
                             \/ ~Removes(req'[j]) /\ RoleAsked(req'[j])
  PROVE  AdminInv'
<1>1. ASSUME NEW j \in Requests PROVE RoleAsked(req'[j]) /\ (AdminReady(req[j]) => AdminReady(req[j])')
  BY DEF AdminInv, AdminReady, RoleAsked, Removes
<1>2. \A j \in Requests : RoleAsked(req[j])'
  BY <1>1 DEF RoleAsked
<1> QED BY <1>1, <1>2 DEF AdminInv

LEMMA AdminReads ==
  ASSUME TypeInv, AdminInv, NEW i \in Requests, Reading(i), Onward(i)
  PROVE  AdminInv'
<1>1. PICK x : Follows(req[i], x) /\ req' = [req EXCEPT ![i] = x] /\ overlapped' = overlapped /\ users' = users
  BY DEF Onward, Idles, Reads, accountVars
<1>2. /\ req \in [Requests -> AnyRequest] /\ req'[i] = x /\ \A j \in Requests : j # i => req'[j] = req[j]
      /\ Admins' = Admins
  BY <1>1 DEF TypeInv, ReqsInv, Admins
<1>3. PICK r : r = req[i]
  OBVIOUS
<1>4. /\ r \in AnyRequest /\ Names(r) /\ RoleAsked(r)
      /\ x = Idle \/ Same(r, x)
  BY <1>1, <1>2, <1>3 DEF TypeInv, ReqsInv, Sound, AdminInv, Follows
<1>5. CASE GetUserByID(i) \/ CountPlatformAdmins(i)
  <2>1. r.op \in {"password", "updateUser", "deleteUser"}
    BY <1>3, <1>5 DEF GetUserByID, CountPlatformAdmins, At
  <2>2. r.user \in Users
    BY <1>4, <2>1 DEF Names
  <2>3. \/ x = Idle
        \/ x.pc \in {"password", "status"}
        \/ /\ x.pc = "delete" /\ r.op = "deleteUser" /\ r.pc = "user"
           /\ ~(users[r.user].admin /\ LastAdmin)
        \/ x.pc = "count" /\ r.op = "updateUser" /\ r.role # "keep"
        \/ x.pc = "role" /\ r.op = "updateUser" /\ r.pc = "count" /\ ~(r.role = "user" /\ LastAdmin)
    <3>1. ASSUME NEW pc, Goto(i, pc) PROVE x.pc = pc
      <4>1. x = [r EXCEPT !.pc = pc]
        BY <1>2, <1>3, <3>1 DEF Goto
      <4> QED BY <4>1, <1>4, RequestSet
    <3>2. ASSUME NEW w, NEW pc, req' = [req EXCEPT ![i].was = w, ![i].pc = pc] PROVE x.pc = pc
      <4>1. x = [r EXCEPT !.was = w, !.pc = pc]
        BY <1>2, <1>3, <3>2
      <4> QED BY <4>1, <1>4, RequestSet
    <3>3. ASSUME End(i) PROVE x = Idle
      BY <1>2, <3>3 DEF End
    <3>4. CASE CountPlatformAdmins(i)
      <4>1. /\ r.op = "updateUser" /\ r.pc = "count"
            /\ \/ End(i) \/ Goto(i, "status")
               \/ Goto(i, "role") /\ ~(r.role = "user" /\ LastAdmin)
        BY <1>3, <3>4 DEF CountPlatformAdmins, At
      <4> QED BY <3>1, <3>3, <4>1
    <3>5. CASE GetUserByID(i)
      <4>1. /\ r.pc = "user"
            /\ \/ End(i) \/ Goto(i, "password")
               \/ r.op = "deleteUser" /\ Goto(i, "delete") /\ ~(users[r.user].admin /\ LastAdmin)
               \/ /\ r.op = "updateUser"
                  /\ \/ req' = [req EXCEPT ![i].was = StatusOf(r.user), ![i].pc = "status"]
                     \/ /\ req' = [req EXCEPT ![i].was = StatusOf(r.user), ![i].pc = "count"]
                        /\ r.role # "keep"
        BY <1>3, <2>1, <3>5 DEF GetUserByID
      <4> QED BY <3>1, <3>2, <3>3, <4>1
    <3> QED BY <1>5, <3>4, <3>5
  <2>4. RoleAsked(x)
    BY <1>4, <2>3 DEF RoleAsked, Same, Names, Idle
  <2>5. ASSUME Admins # {}, Removes(x) PROVE Admins \ {x.user} # {}
    <3>1. x.user = r.user /\ x.op = r.op /\ x.role = r.role
      BY <1>4, <2>5 DEF Same, Removes, Idle
    <3>2. \/ ~users[r.user].admin
          \/ ~LastAdmin
      BY <2>3, <2>5, <3>1 DEF Removes, Idle
    <3>3. CASE ~users[r.user].admin
      BY <2>5, <3>1, <3>3 DEF Admins
    <3>4. CASE ~LastAdmin
      <4>1. IsFiniteSet(Admins)
        BY ConstantFacts, FS_Subset DEF Admins
      <4> QED BY <3>4, <4>1, MoreThanOne DEF LastAdmin
    <3> QED BY <3>2, <3>3, <3>4
  <2>6. \A j \in Requests : RoleAsked(req[j])'
    BY <1>2, <2>4 DEF AdminInv, RoleAsked
  <2>7. ASSUME <<"admin">> \notin overlapped
        PROVE  Admins' # {} /\ \A j \in Requests : AdminReady(req[j])'
    <3>1. Admins # {} /\ \A j \in Requests : AdminReady(req[j])
      BY <2>7 DEF AdminInv
    <3>2. AdminReady(x)'
      BY <1>2, <2>5, <3>1 DEF AdminReady
    <3>3. ASSUME NEW j \in Requests, j # i PROVE AdminReady(req[j])'
      BY <1>2, <3>1, <3>3 DEF AdminReady
    <3>4. AdminReady(req[i])'
      BY <1>2, <3>2
    <3> QED BY <1>2, <3>1, <3>3, <3>4
  <2> QED BY <1>1, <2>6, <2>7 DEF AdminInv
<1>6. CASE ~(GetUserByID(i) \/ CountPlatformAdmins(i))
  <2>1. r.op \in {"login", "register", "addMember", "updateRole", "removeMember", "createPlan",
                  "updatePlan", "deletePlan", "assignPlan", "fetch"}
    BY <1>3, <1>6 DEF Reading, FirstTenant, ReadBack, ReadMember, Snapshot, ReadPlan,
                      ClearDefaultPlanExcept, Today, At
  <2>2. ~Removes(x) /\ RoleAsked(x)
    BY <1>4, <2>1 DEF Removes, RoleAsked, Same, Idle
  <2> QED BY <1>1, <1>2, <2>2, AdminKept
<1> QED BY <1>5, <1>6

\* One user's row is written.
LEMMA AdminsWritten ==
  ASSUME TypeInv, NEW u \in Users, NEW row, users' = [users EXCEPT ![u] = row]
  PROVE  /\ Admins \ {u} \subseteq Admins'
         /\ u \notin Admins \/ (row.live /\ row.admin) => Admins \subseteq Admins'
<1>1. users'[u] = row /\ \A v \in Users : v # u => users'[v] = users[v]
  BY DEF TypeInv, RowsInv
<1> QED BY <1>1 DEF Admins

LEMMA AdminsAccount ==
  ASSUME TypeInv, NEW u \in Users, NEW p, NEW admin, ~users[u].there, CreateAccount(u, p, admin)
  PROVE  Admins \subseteq Admins'
<1>1. users' = [users EXCEPT ![u] = Person(admin)]
  BY DEF CreateAccount
<1>2. u \notin Admins
  BY DEF Admins, TypeInv, RowsInv
<1> QED BY <1>1, <1>2, AdminsWritten

LEMMA AdminWrites ==
  ASSUME TypeInv, Alone, AdminInv, NEW i \in Requests, Writing(i)
  PROVE  AdminInv'
<1>1. PICK r : r = req[i]
  OBVIOUS
<1>2. /\ r \in AnyRequest /\ Sound(r) /\ overlapped' = overlapped
      /\ users \in [Users -> [there : BOOLEAN, live : BOOLEAN, active : BOOLEAN, admin : BOOLEAN, era : Nat]]
  BY <1>1, WritingOverlaps DEF TypeInv, ReqsInv, RowsInv
<1>3. ASSUME NEW j \in Requests
      PROVE  (j # i /\ req'[j] = req[j]) \/ (~Removes(req'[j]) /\ RoleAsked(req'[j]))
  <2>1. CASE req'[j] = Idle \/ Opens(req'[j])
    BY <2>1 DEF Removes, RoleAsked, Idle, Opens
  <2>2. CASE /\ req'[j].op \in {"register", "password", "updateUser"}
             /\ req'[j].pc \in {"readback", "sessions", "status"}
    BY <2>2 DEF Removes, RoleAsked
  <2> QED BY <2>1, <2>2, OthersMove
<1>4. ASSUME Admins \subseteq Admins' PROVE AdminInv'
  BY <1>2, <1>3, <1>4, AdminKept
<1>5. ASSUME Removes(r), r.user \in Users, Admins \ {r.user} \subseteq Admins' PROVE AdminInv'
  <2>1. \A j \in Requests : RoleAsked(req[j])'
    BY <1>3 DEF AdminInv, RoleAsked
  <2>2. ASSUME <<"admin">> \notin overlapped
        PROVE  Admins' # {} /\ \A j \in Requests : AdminReady(req[j])'
    <3>1. Admins \ {r.user} # {}
      BY <1>1, <1>5, <2>2 DEF AdminInv, AdminReady
    <3>2. Guard(r) = <<"admin">>
      BY <1>5, GuardOf DEF Removes
    <3>3. ASSUME NEW j \in Requests, Removes(req'[j]) PROVE FALSE
      <4>1. j # i /\ req'[j] = req[j]
        BY <1>3, <3>3
      <4>2. Guard(req[j]) = <<"admin">>
        BY <3>3, <4>1, GuardOf DEF Removes
      <4>3. req[i].op # "removeMember"
        BY <1>1, <1>5 DEF Removes
      <4> QED BY <1>1, <2>2, <3>2, <4>1, <4>2, <4>3, GuardIsThere, PairNoted
    <3>4. \A j \in Requests : AdminReady(req[j])'
      BY <3>3 DEF AdminReady, Removes
    <3> QED BY <1>5, <3>1, <3>4
  <2> QED BY <1>2, <2>1, <2>2 DEF AdminInv
<1>6. CASE users' = users
  BY <1>4, <1>6 DEF Admins
<1>7. CASE createAccount(i)
  <2>1. CASE ~users[r.user].there /\ plans[r.plan].there
    <3>1. r.user \in Users /\ CreateAccount(r.user, r.plan, FALSE)
      BY <1>1, <1>2, <1>7, <2>1 DEF createAccount, At, Sound, Names
    <3> QED BY <1>4, <2>1, <3>1, AdminsAccount
  <2>2. CASE ~(~users[r.user].there /\ plans[r.plan].there)
    BY <1>1, <1>6, <1>7, <2>2 DEF createAccount
  <2> QED BY <2>1, <2>2
<1>8. CASE SoftDeleteUser(i)
  <2>1. r.op = "deleteUser" /\ r.pc = "delete" /\ r.user \in Users
    BY <1>1, <1>2, <1>8 DEF SoftDeleteUser, At, Sound, Names
  <2>2. CASE GetUser(r.user)
    <3>1. users' = [users EXCEPT ![r.user].live = FALSE, ![r.user].era = @ + 1]
      BY <1>1, <1>8, <2>2 DEF SoftDeleteUser
    <3>2. \A v \in Users : v # r.user => users'[v] = users[v]
      BY <1>2, <3>1
    <3>3. Admins \ {r.user} \subseteq Admins'
      BY <3>2 DEF Admins
    <3> QED BY <1>5, <2>1, <3>3 DEF Removes
  <2>3. CASE ~GetUser(r.user)
    BY <1>1, <1>6, <1>8, <2>3 DEF SoftDeleteUser
  <2> QED BY <2>2, <2>3
<1>9. CASE UpdateUserPlatformRole(i)
  <2>1. r.op = "updateUser" /\ r.pc = "role" /\ r.user \in Users /\ r.role \in {"admin", "user"}
    BY <1>1, <1>2, <1>9 DEF UpdateUserPlatformRole, At, Sound, Names, AdminInv, RoleAsked
  <2>2. CASE ~GetUser(r.user)
    BY <1>1, <1>6, <1>9, <2>2 DEF UpdateUserPlatformRole
  <2>3. CASE GetUser(r.user)
    <3>1. users' = [users EXCEPT ![r.user].admin = (r.role = "admin")]
      BY <1>1, <1>9, <2>3 DEF UpdateUserPlatformRole
    <3>2. CASE r.role = "user"
      <4>1. \A v \in Users : v # r.user => users'[v] = users[v]
        BY <1>2, <3>1
      <4>2. Admins \ {r.user} \subseteq Admins'
        BY <4>1 DEF Admins
      <4> QED BY <1>5, <2>1, <3>2, <4>2 DEF Removes
    <3>3. CASE r.role = "admin"
      <4>1. PICK w : w = users[r.user]
        OBVIOUS
      <4>2. w \in [there : BOOLEAN, live : BOOLEAN, active : BOOLEAN, admin : BOOLEAN, era : Nat] /\ w.live
        BY <1>2, <2>1, <2>3, <4>1 DEF GetUser
      <4>3. PICK row : row = [w EXCEPT !.admin = TRUE]
        OBVIOUS
      <4>4. row.live /\ row.admin
        BY <4>2, <4>3
      <4>5. users' = [users EXCEPT ![r.user] = row]
        BY <1>2, <2>1, <3>1, <3>3, <4>1, <4>3
      <4> QED BY <1>4, <2>1, <4>4, <4>5, AdminsWritten
    <3> QED BY <2>1, <3>2, <3>3
  <2> QED BY <2>2, <2>3
<1>10. CASE UpdateUserPassword(i) \/ UpdateUserStatus(i)
  <2>1. PICK u \in Users : u = r.user
    <3>1. CASE UpdateUserPassword(i)
      <4>1. r.pc = "password"
        BY <1>1, <3>1 DEF UpdateUserPassword
      <4> QED BY <4>1, <1>2 DEF Sound, Stands, Names, AnyRequest, Ops
    <3>2. CASE UpdateUserStatus(i)
      BY <1>1, <1>2, <3>2 DEF UpdateUserStatus, At, Sound, Names
    <3> QED BY <1>10, <3>1, <3>2
  <2>2. \/ users' = users
        \/ \E b : users' = [users EXCEPT ![u].active = b]
        \/ users' = [users EXCEPT ![u].era = @ + 1]
        \/ users' = [users EXCEPT ![u].active = FALSE, ![u].era = @ + 1]
    BY <1>1, <1>10, <2>1 DEF UpdateUserPassword, UpdateUserStatus
  <2>3. PICK w : w = users[u]
    OBVIOUS
  <2>4. w \in [there : BOOLEAN, live : BOOLEAN, active : BOOLEAN, admin : BOOLEAN, era : Nat]
    BY <1>2, <2>3
  <2>5. ASSUME NEW row, row.live = w.live, row.admin = w.admin, users' = [users EXCEPT ![u] = row]
        PROVE  AdminInv'
    <3>1. u \notin Admins \/ (row.live /\ row.admin)
      BY <2>3, <2>5 DEF Admins
    <3> QED BY <1>4, <2>5, <3>1, AdminsWritten
  <2>6. ASSUME NEW b, users' = [users EXCEPT ![u].active = b] PROVE AdminInv'
    <3>1. PICK row : row = [w EXCEPT !.active = b]
      OBVIOUS
    <3>2. row.live = w.live /\ row.admin = w.admin
      BY <2>4, <3>1
    <3>3. users' = [users EXCEPT ![u] = row]
      BY <1>2, <2>3, <2>6, <3>1
    <3> QED BY <2>5, <3>2, <3>3
  <2>7. CASE users' = [users EXCEPT ![u].era = @ + 1]
    <3>1. PICK row : row = [w EXCEPT !.era = @ + 1]
      OBVIOUS
    <3>2. row.live = w.live /\ row.admin = w.admin
      BY <2>4, <3>1
    <3>3. users' = [users EXCEPT ![u] = row]
      BY <1>2, <2>3, <2>7, <3>1
    <3> QED BY <2>5, <3>2, <3>3
  <2>8. CASE users' = [users EXCEPT ![u].active = FALSE, ![u].era = @ + 1]
    <3>1. PICK row : row = [w EXCEPT !.active = FALSE, !.era = @ + 1]
      OBVIOUS
    <3>2. row.live = w.live /\ row.admin = w.admin
      BY <2>4, <3>1
    <3>3. users' = [users EXCEPT ![u] = row]
      BY <1>2, <2>3, <2>8, <3>1
    <3> QED BY <2>5, <3>2, <3>3
  <2> QED BY <1>6, <2>2, <2>6, <2>7, <2>8
<1>11. CASE createSession(i) \/ RevokeSessions(i) \/ SoftDeleteTenant(i) \/ UpdateSessionTenant(i)
            \/ InsertTenant(i) \/ WriteMember(i) \/ WritePlan(i) \/ Consume(i)
  BY <1>6, <1>11 DEF createSession, RevokeSessions, SoftDeleteTenant, UpdateSessionTenant, InsertTenant,
                     WriteMember, WritePlan, Consume, accountVars
<1> QED BY <1>7, <1>8, <1>9, <1>10, <1>11 DEF Writing

LEMMA AdminStep ==
  ASSUME TypeInv, Alone, AdminInv, [Next]_vars
  PROVE  AdminInv'
<1>1. overlapped \subseteq overlapped'
  BY AloneStep
<1>2. ASSUME NEW i \in Requests, Beginning(i) PROVE AdminInv'
  <2>1. PICK r : Begun(r) /\ req' = [req EXCEPT ![i] = r] /\ users' = users
    BY <1>2 DEF Beginning, Begin, Reads, accountVars
  <2>2. Admins \subseteq Admins' /\ req \in [Requests -> AnyRequest]
    BY <2>1 DEF Admins, TypeInv, ReqsInv
  <2>3. ~Removes(r) /\ RoleAsked(r)
    BY <2>1 DEF Begun, Removes, RoleAsked
  <2>4. \A j \in Requests : req'[j] = req[j] \/ (~Removes(req'[j]) /\ RoleAsked(req'[j]))
    BY <2>1, <2>2, <2>3
  <2> QED BY <1>1, <2>2, <2>4, AdminKept
<1>3. ASSUME NEW s \in sessions, Logout(s) PROVE AdminInv'
  <2>1. req' = req /\ users' = users
    BY <1>3 DEF Logout
  <2> QED BY <1>1, <2>1, AdminKept DEF Admins
<1>4. CASE Restart
  <2>1. \A j \in Requests : ~Removes(req'[j]) /\ RoleAsked(req'[j])
    BY <1>4 DEF Restart, Removes, RoleAsked, Idle
  <2>2. PICK u \in Users : u = BootstrapAdmin
    BY AccessAssumption
  <2>3. Admins \subseteq Admins'
    <3>1. CASE GetUser(u) /\ users' = [users EXCEPT ![u].admin = TRUE]
      <4>1. PICK w : w = users[u]
        OBVIOUS
      <4>2. /\ w \in [there : BOOLEAN, live : BOOLEAN, active : BOOLEAN, admin : BOOLEAN, era : Nat] /\ w.live
            /\ users \in [Users -> [there : BOOLEAN, live : BOOLEAN, active : BOOLEAN, admin : BOOLEAN, era : Nat]]
        BY <3>1, <4>1 DEF GetUser, TypeInv, RowsInv
      <4>3. PICK row : row = [w EXCEPT !.admin = TRUE]
        OBVIOUS
      <4>4. row.live /\ row.admin
        BY <4>2, <4>3
      <4>5. users' = [users EXCEPT ![u] = row]
        BY <3>1, <4>1, <4>2, <4>3
      <4> QED BY <4>4, <4>5, AdminsWritten
    <3>2. CASE ~users[u].there /\ \E p \in defaultPlan : CreateAccount(u, p, TRUE)
      BY <3>2, AdminsAccount
    <3>3. CASE users' = users
      BY <3>3 DEF Admins
    <3> QED BY <1>4, <2>2, <3>1, <3>2, <3>3 DEF Restart
  <2> QED BY <1>1, <2>1, <2>3, AdminKept
<1>5. CASE NewDay \/ UNCHANGED vars
  <2>1. req' = req /\ users' = users
    BY <1>5 DEF NewDay, vars, accountVars
  <2> QED BY <1>1, <2>1, AdminKept DEF Admins
<1> QED BY <1>2, <1>3, <1>4, <1>5, StepKinds, AdminReads, AdminWrites

\* A request that is about to take an owner away leaves another.
Demotes(r) ==
  /\ r.pc = "write"
  /\ \/ r.op = "updateRole" /\ r.role # "owner"
     \/ r.op = "removeMember" /\ ~Serial /\ r.owners > 1
Contested(t) == <<"owner", t>> \in overlapped \/ (~Serial /\ <<"removal", t>> \in overlapped)
OwnerFine(t) ==
  \/ Contested(t)
  \/ /\ t \in Born => Owners(t) # {}
     /\ \A i \in Requests : req[i].tenant = t /\ Demotes(req[i]) => Owners(t) \ {req[i].user} # {}
OwnerInv == \A t \in Tenants : OwnerFine(t)

LEMMA OwnerInit ==
  ASSUME Init
  PROVE  OwnerInv
<1>1. /\ req = [i \in Requests |-> Idle] /\ Registered[1] \in Known /\ Known \subseteq Users
      /\ Born = Known \union {Team} /\ Team \in Teams /\ Users \subseteq Tenants /\ Users \cap Teams = {}
      /\ Teams \subseteq Tenants
  BY BornInit, AccessAssumption, ConstantFacts DEF Init
<1>2. PICK team \in [Known -> Roles \union {None}] :
        /\ team[Registered[1]] = "owner"
        /\ role = [t \in Tenants |-> [u \in Users |->
                     IF u \in Known /\ t = Team THEN team[u] ELSE IF u \in Known /\ t = u THEN "owner" ELSE None]]
  BY DEF Init
<1>3. role[Team][Registered[1]] = "owner"
  BY <1>1, <1>2
<1>4. \A u \in Known : role[u][u] = "owner"
  BY <1>1, <1>2
<1>5. ASSUME NEW t \in Tenants, t \in Born PROVE Owners(t) # {}
  BY <1>1, <1>3, <1>4, <1>5 DEF Owners
<1> QED BY <1>1, <1>5 DEF OwnerInv, OwnerFine, Demotes, Idle

\* No owner is lost, and nobody new is about to take one away.
LEMMA OwnerKept ==
  ASSUME NEW t \in Tenants, OwnerFine(t), overlapped \subseteq overlapped', Owners(t) \subseteq Owners(t)',
         t \in Born' => t \in Born \/ Owners(t)' # {},
         \A j \in Requests : req'[j] = req[j] \/ ~Demotes(req'[j])
  PROVE  OwnerFine(t)'
<1>1. CASE Contested(t)
  BY <1>1 DEF OwnerFine, Contested
<1>2. CASE ~Contested(t)
  <2>1. t \in Born' => Owners(t)' # {}
    BY <1>2 DEF OwnerFine
  <2>2. ASSUME NEW j \in Requests, req'[j].tenant = t, Demotes(req'[j])
        PROVE  Owners(t)' \ {req'[j].user} # {}
    <3>1. req'[j] = req[j]
      BY <2>2
    <3>2. Owners(t) \ {req[j].user} # {}
      BY <1>2, <2>2, <3>1 DEF OwnerFine
    <3> QED BY <3>1, <3>2
  <2>3. \A j \in Requests : (Demotes(req[j]))' <=> Demotes(req'[j])
    BY DEF Demotes
  <2> QED BY <2>1, <2>2, <2>3 DEF OwnerFine
<1> QED BY <1>1, <1>2

LEMMA OwnersFinite == \A t : IsFiniteSet(Owners(t))
BY ConstantFacts, FS_Subset DEF Owners

LEMMA OwnerReads ==
  ASSUME TypeInv, NEW t \in Tenants, OwnerFine(t), NEW i \in Requests, Reading(i), Onward(i)
  PROVE  OwnerFine(t)'
<1>1. PICK x : Follows(req[i], x) /\ req' = [req EXCEPT ![i] = x] /\ overlapped' = overlapped
               /\ role' = role /\ created' = created /\ gone' = gone
  BY DEF Onward, Idles, Reads, tenantVars
<1>2. /\ req \in [Requests -> AnyRequest] /\ req'[i] = x /\ \A j \in Requests : j # i => req'[j] = req[j]
      /\ Owners(t)' = Owners(t) /\ Born' = Born
  BY <1>1 DEF TypeInv, ReqsInv, Owners, Born
<1>3. PICK r : r = req[i]
  OBVIOUS
<1>4. /\ r \in AnyRequest /\ Names(r)
      /\ x = Idle \/ Same(r, x)
  BY <1>1, <1>2, <1>3 DEF TypeInv, ReqsInv, Sound, Follows
<1>5. ASSUME ~Demotes(x) PROVE OwnerFine(t)'
  <2>1. \A j \in Requests : req'[j] = req[j] \/ ~Demotes(req'[j])
    BY <1>2, <1>5
  <2>2. overlapped \subseteq overlapped'
    BY <1>1
  <2> QED BY <1>2, <2>1, <2>2, OwnerKept
<1>6. CASE Demotes(x)
  <2>1. /\ x # Idle /\ x.op = r.op /\ x.role = r.role /\ x.user = r.user /\ x.pc = "write"
        /\ x.tenant = r.tenant
        /\ \/ r.op = "updateRole" /\ r.role # "owner"
           \/ r.op = "removeMember" /\ ~Serial /\ x.owners > 1
    BY <1>4, <1>6 DEF Demotes, Same, Idle
  <2>2. ReadMember(i) \/ Snapshot(i)
    <3>1. r.op \notin {"login", "register", "password", "updateUser", "deleteUser", "createPlan",
                       "updatePlan", "deletePlan", "assignPlan", "fetch"}
      BY <2>1
    <3> QED BY <1>3, <3>1 DEF Reading, FirstTenant, ReadBack, GetUserByID, CountPlatformAdmins, ReadPlan,
                              ClearDefaultPlanExcept, Today, At
  <2>3. ASSUME NEW q \in Tenants, q = r.tenant, q \in Born => Owners(q) # {} PROVE Owners(q) \ {r.user} # {}
    <3>1. CASE Snapshot(i)
      <4>1. req' = [req EXCEPT ![i].owners = Cardinality(Owners(req[i].tenant)), ![i].pc = "write"]
            /\ r.op = "removeMember"
        BY <1>3, <3>1 DEF Snapshot, At
      <4>2. PICK n : n = Cardinality(Owners(q))
        OBVIOUS
      <4>3. x = [r EXCEPT !.owners = n, !.pc = "write"]
        BY <1>2, <1>3, <2>3, <4>1, <4>2
      <4>4. x.owners = n
        BY <1>4, <4>3, RequestSet
      <4>5. n > 1
        BY <2>1, <4>1, <4>4
      <4>6. IsFiniteSet(Owners(q))
        BY OwnersFinite
      <4>7. n \in Nat
        BY <4>2, <4>6, FS_CardinalityType
      <4> QED BY <4>2, <4>5, <4>6, <4>7, MoreThanOne
    <3>2. CASE ReadMember(i)
      <4>1. MayTouch(r) /\ Goto(i, IF r.op = "removeMember" /\ ~Serial THEN "snapshot" ELSE "write")
        BY <1>2, <1>3, <2>1, <3>2 DEF ReadMember, End
      <4>2. r.op = "updateRole" /\ r.role # "owner"
        <5>1. SUFFICES ASSUME r.op = "removeMember", ~Serial PROVE FALSE
          BY <2>1
        <5>2. x = [r EXCEPT !.pc = "snapshot"]
          BY <1>2, <1>3, <4>1, <5>1 DEF Goto
        <5>3. x.pc = "snapshot"
          BY <1>4, <5>2, RequestSet
        <5> QED BY <2>1, <5>3
      <4>3. GetMember(q, r.user) /\ (role[q][r.user] = "owner" => ~LastOwner(q))
        BY <2>3, <4>1, <4>2 DEF MayTouch
      <4>4. q \in Born
        BY <4>3, TenantIsBorn DEF GetMember
      <4>5. CASE role[q][r.user] = "owner"
        BY <4>3, <4>5, OwnersFinite, MoreThanOne DEF LastOwner
      <4>6. CASE role[q][r.user] # "owner"
        BY <2>3, <4>4, <4>6 DEF Owners
      <4> QED BY <4>5, <4>6
    <3> QED BY <2>2, <3>1, <3>2
  <2>4. CASE Contested(t)
    BY <2>4, <1>1 DEF OwnerFine, Contested
  <2>5. CASE ~Contested(t)
    <3>1. /\ t \in Born => Owners(t) # {}
          /\ \A j \in Requests : req[j].tenant = t /\ Demotes(req[j]) => Owners(t) \ {req[j].user} # {}
      BY <2>5 DEF OwnerFine
    <3>2. x.tenant = t => Owners(t) \ {x.user} # {}
      BY <2>1, <2>3, <3>1
    <3>3. \A j \in Requests : req'[j].tenant = t /\ Demotes(req'[j]) => Owners(t) \ {req'[j].user} # {}
      BY <1>2, <3>1, <3>2
    <3>4. \A j \in Requests : (Demotes(req[j]))' <=> Demotes(req'[j])
      BY DEF Demotes
    <3> QED BY <1>2, <3>1, <3>3, <3>4 DEF OwnerFine
  <2> QED BY <2>4, <2>5
<1> QED BY <1>5, <1>6

LEMMA OwnerAccount ==
  ASSUME TypeInv, NEW u \in Users, NEW p, NEW admin, CreateAccount(u, p, admin), NEW t \in Tenants
  PROVE  Owners(t) \subseteq Owners(t)' /\ (t \in Born' => t \in Born \/ Owners(t)' # {})
<1>1. /\ created' = Append(created, u) /\ role' = [role EXCEPT ![u][u] = "owner"]
      /\ created \in Seq(Tenants) /\ u \in Tenants /\ role \in [Tenants -> [Users -> SomeRow]]
      /\ "owner" \in SomeRow
  BY ConstantFacts DEF CreateAccount, TypeInv, RowsInv, SomeRow, Roles
<1>2. Born' = Born \union {u}
  BY <1>1, BornAppend
<1>3. role'[u][u] = "owner" /\ \A q \in Tenants, w \in Users : q # u \/ w # u => role'[q][w] = role[q][w]
  BY <1>1, RoleWritten
<1> QED BY <1>2, <1>3 DEF Owners

LEMMA OwnerWrites ==
  ASSUME TypeInv, Alone, NEW t \in Tenants, OwnerFine(t), NEW i \in Requests, Writing(i)
  PROVE  OwnerFine(t)'
<1>1. PICK r : r = req[i]
  OBVIOUS
<1>2. /\ r \in AnyRequest /\ Sound(r) /\ overlapped' = overlapped
      /\ role \in [Tenants -> [Users -> SomeRow]] /\ created \in Seq(Tenants)
  BY <1>1, WritingOverlaps DEF TypeInv, ReqsInv, RowsInv, SomeRow
<1>3. ASSUME NEW j \in Requests PROVE (j # i /\ req'[j] = req[j]) \/ ~Demotes(req'[j])
  <2>1. CASE req'[j] = Idle \/ Opens(req'[j])
    BY <2>1 DEF Demotes, Idle, Opens
  <2>2. CASE req'[j].op \in {"register", "password", "updateUser"}
    BY <2>2 DEF Demotes
  <2> QED BY <2>1, <2>2, OthersMove
<1>4. ASSUME Owners(t) \subseteq Owners(t)', t \in Born' => t \in Born \/ Owners(t)' # {} PROVE OwnerFine(t)'
  <2>1. \A j \in Requests : req'[j] = req[j] \/ ~Demotes(req'[j])
    BY <1>3
  <2>2. overlapped \subseteq overlapped'
    BY <1>2
  <2> QED BY <1>4, <2>1, <2>2, OwnerKept
<1>5. CASE WriteMember(i)
  <2>1. /\ r.op \in {"addMember", "updateRole", "removeMember"} /\ r.pc = "write" /\ Born' = Born
        /\ r.tenant \in Tenants /\ r.user \in Users /\ r.role \in SomeRow
        /\ r.op = "removeMember" => r.role = None
    BY <1>1, <1>2, <1>5 DEF WriteMember, Sound, Names, SomeRow, Born
  <2>2. PICK q \in Tenants, u \in Users, v \in SomeRow : q = r.tenant /\ u = r.user /\ v = r.role
    BY <2>1
  <2>3. \/ role' = role
        \/ /\ role' = [role EXCEPT ![q][u] = v]
           /\ \/ r.op = "addMember" /\ role[q][u] = None
              \/ r.op = "updateRole"
              \/ r.op = "removeMember" /\ DeleteMemberKeepingOwner(r)
    BY <1>1, <1>5, <2>2 DEF WriteMember
  <2>4. CASE role' = role
    BY <1>4, <2>1, <2>4 DEF Owners
  <2>5. CASE role' = [role EXCEPT ![q][u] = v]
    <3>1. role'[q][u] = v /\ \A y \in Tenants, w \in Users : y # q \/ w # u => role'[y][w] = role[y][w]
      BY <1>2, <2>2, <2>5, RoleWritten
    <3>2. CASE t # q \/ role[q][u] # "owner" \/ v = "owner"
      <4>1. Owners(t) \subseteq Owners(t)'
        BY <3>1, <3>2 DEF Owners
      <4> QED BY <1>4, <2>1, <4>1
    <3>3. CASE ~(t # q \/ role[q][u] # "owner" \/ v = "owner")
      <4>1. CASE Contested(t)
        BY <1>2, <4>1 DEF OwnerFine, Contested
      <4>2. CASE ~Contested(t)
        <5>1. t = q /\ role[q][u] = "owner" /\ v # "owner" /\ Owners(t) # {}
          BY <3>3 DEF Owners
        <5>2. \A j \in Requests : req[j].tenant = t /\ Demotes(req[j]) => Owners(t) \ {req[j].user} # {}
          BY <4>2 DEF OwnerFine
        <5>3. \/ r.op = "updateRole" /\ r.role # "owner"
              \/ r.op = "removeMember" /\ DeleteMemberKeepingOwner(r)
              \/ role' = role
          BY <2>2, <2>3, <5>1, AccessAssumption DEF Roles
        <5>4. role' # role
          BY <3>1, <5>1
        <5>5. Owners(t) \ {u} # {}
          <6>1. CASE Demotes(r)
            BY <1>1, <2>2, <5>1, <5>2, <6>1
          <6>2. CASE ~Demotes(r)
            <7>1. r.op = "removeMember" /\ DeleteMemberKeepingOwner(r) /\ ~(~Serial /\ r.owners > 1)
              BY <2>1, <5>3, <5>4, <6>2 DEF Demotes
            <7>2. Serial /\ Cardinality(Owners(t)) > 1
              BY <2>2, <5>1, <7>1 DEF DeleteMemberKeepingOwner
            <7>3. ~(Cardinality(Owners(t)) <= 1)
              <8>1. Cardinality(Owners(t)) \in Nat
                BY OwnersFinite, FS_CardinalityType
              <8> QED BY <7>2, <8>1
            <7> QED BY <7>3, OwnersFinite, MoreThanOne
          <6> QED BY <6>1, <6>2
        <5>6. Owners(t)' # {}
          <6>1. PICK w \in Owners(t) : w # u
            BY <5>5
          <6> QED BY <3>1, <5>1, <6>1 DEF Owners
        <5>7. r.op \in {"updateRole", "removeMember"} /\ r.tenant = t
          BY <2>2, <5>1, <5>3, <5>4
        <5>8. Guard(r) = <<"owner", t>>
          BY <5>7, GuardOf
        <5>9. ASSUME NEW j \in Requests, Demotes(req'[j]), req'[j].tenant = t PROVE FALSE
          <6>1. j # i /\ req'[j] = req[j]
            BY <1>3, <5>9
          <6>2. Guard(req[j]) = <<"owner", t>>
            BY <5>9, <6>1, GuardOf DEF Demotes
          <6>3. /\ r.op = "removeMember" /\ req[j].op = "removeMember"
                /\ <<"removal", t>> \in overlapped
            <7>1. \/ Guard(r) \in overlapped
                  \/ /\ r.op = "removeMember" /\ req[j].op = "removeMember"
                     /\ <<"removal", r.tenant>> \in overlapped
              BY <1>1, <5>8, <6>1, <6>2, GuardIsThere, PairNoted
            <7> QED BY <4>2, <5>7, <5>8, <7>1 DEF Contested
          <6>4. ~Serial
            BY <5>9, <6>1, <6>3 DEF Demotes
          <6> QED BY <4>2, <6>3, <6>4 DEF Contested
        <5>10. \A j \in Requests : (Demotes(req[j]))' <=> Demotes(req'[j])
          BY DEF Demotes
        <5> QED BY <5>6, <5>9, <5>10 DEF OwnerFine
      <4> QED BY <4>1, <4>2
    <3> QED BY <3>2, <3>3
  <2> QED BY <2>3, <2>4, <2>5
<1>6. CASE InsertTenant(i)
  <2>1. r.op = "createTenant"
    BY <1>1, <1>6 DEF InsertTenant, At
  <2>2. PICK q \in Tenants, u \in Users : q = r.tenant /\ u = r.user
    BY <1>2, <2>1, ConstantFacts DEF Sound, Names
  <2>3. CASE created' = created /\ role' = role
    BY <1>4, <2>3 DEF Owners, Born
  <2>4. CASE created' = Append(created, q) /\ role' = [role EXCEPT ![q][u] = "owner"]
    <3>1. Born' = Born \union {q}
      BY <1>2, <2>4, BornAppend
    <3>2. "owner" \in SomeRow
      BY DEF SomeRow, Roles
    <3>3. role'[q][u] = "owner" /\ \A y \in Tenants, w \in Users : y # q \/ w # u => role'[y][w] = role[y][w]
      BY <1>2, <2>4, <3>2, RoleWritten
    <3>4. Owners(t) \subseteq Owners(t)' /\ (t \in Born' => t \in Born \/ Owners(t)' # {})
      BY <3>1, <3>3 DEF Owners
    <3> QED BY <1>4, <3>4
  <2> QED BY <1>1, <1>6, <2>2, <2>3, <2>4 DEF InsertTenant
<1>7. CASE createAccount(i)
  <2>1. CASE CreateAccount(r.user, r.plan, FALSE)
    <3>1. r.user \in Users
      BY <1>1, <1>2, <1>7 DEF createAccount, At, Sound, Names
    <3> QED BY <1>4, <2>1, <3>1, OwnerAccount
  <2>2. CASE created' = created /\ role' = role
    BY <1>4, <2>2 DEF Owners, Born
  <2> QED BY <1>1, <1>7, <2>1, <2>2 DEF createAccount
<1>8. CASE createSession(i) \/ UpdateUserPassword(i) \/ UpdateUserPlatformRole(i) \/ UpdateUserStatus(i)
           \/ RevokeSessions(i) \/ SoftDeleteUser(i) \/ SoftDeleteTenant(i) \/ UpdateSessionTenant(i)
           \/ WritePlan(i) \/ Consume(i)
  <2>1. created' = created /\ role' = role
    BY <1>8 DEF createSession, UpdateUserPassword, UpdateUserPlatformRole, UpdateUserStatus,
                RevokeSessions, SoftDeleteUser, SoftDeleteTenant, UpdateSessionTenant, WritePlan, Consume,
                tenantVars
  <2> QED BY <1>4, <2>1 DEF Owners, Born
<1> QED BY <1>5, <1>6, <1>7, <1>8 DEF Writing

LEMMA OwnerStep ==
  ASSUME TypeInv, Alone, OwnerInv, [Next]_vars
  PROVE  OwnerInv'
<1> SUFFICES ASSUME NEW t \in Tenants, OwnerFine(t) PROVE OwnerFine(t)'
  BY DEF OwnerInv
<1>1. overlapped \subseteq overlapped'
  BY AloneStep
<1>2. ASSUME NEW i \in Requests, Beginning(i) PROVE OwnerFine(t)'
  <2>1. PICK r : Begun(r) /\ req' = [req EXCEPT ![i] = r] /\ role' = role /\ created' = created
    BY <1>2 DEF Beginning, Begin, Reads, tenantVars
  <2>2. req \in [Requests -> AnyRequest]
    BY DEF TypeInv, ReqsInv
  <2>3. ~Demotes(r)
    BY <2>1 DEF Begun, Demotes
  <2>4. \A j \in Requests : req'[j] = req[j] \/ ~Demotes(req'[j])
    BY <2>1, <2>2, <2>3
  <2>5. Owners(t)' = Owners(t) /\ Born' = Born
    BY <2>1 DEF Owners, Born
  <2> QED BY <1>1, <2>4, <2>5, OwnerKept
<1>3. CASE Restart
  <2>1. \A j \in Requests : ~Demotes(req'[j])
    BY <1>3 DEF Restart, Demotes, Idle
  <2>2. Owners(t) \subseteq Owners(t)' /\ (t \in Born' => t \in Born \/ Owners(t)' # {})
    <3>1. CASE created' = created /\ role' = role
      BY <3>1 DEF Owners, Born
    <3>2. CASE \E p \in defaultPlan : CreateAccount(BootstrapAdmin, p, TRUE)
      BY <3>2, OwnerAccount, AccessAssumption
    <3> QED BY <1>3, <3>1, <3>2 DEF Restart
  <2> QED BY <1>1, <2>1, <2>2, OwnerKept
<1>4. ASSUME UNCHANGED <<req, created, role>> PROVE OwnerFine(t)'
  <2>1. Owners(t)' = Owners(t) /\ Born' = Born /\ \A j \in Requests : req'[j] = req[j]
    BY <1>4 DEF Owners, Born
  <2> QED BY <1>1, <2>1, OwnerKept
<1>5. ASSUME NEW s \in sessions, Logout(s) PROVE OwnerFine(t)'
  BY <1>4, <1>5 DEF Logout, tenantVars
<1>6. CASE NewDay \/ UNCHANGED vars
  BY <1>4, <1>6 DEF NewDay, vars, tenantVars
<1> QED BY <1>2, <1>3, <1>5, <1>6, StepKinds, OwnerReads, OwnerWrites

\* A request that is about to write a plan knows which one is the default.
Planning(r) == r.op \in {"createPlan", "updatePlan", "deletePlan"} /\ r.pc \in {"snapshot", "write"}
PlanReady(r) ==
  /\ r.op \in {"createPlan", "updatePlan"} /\ r.pc = "write" /\ ~Serial => r.victims = Defaults \ {r.plan}
  /\ r.op = "updatePlan" /\ Planning(r) /\ ~r.default => r.plan \notin Defaults
  /\ r.op = "deletePlan" /\ r.pc = "write" => r.plan \notin Defaults
PlanInv ==
  \/ <<"plan">> \in overlapped
  \/ /\ \E p \in Plans : Defaults = {p}
     /\ \A i \in Requests : PlanReady(req[i])

LEMMA NotPlanning ==
  ASSUME NEW r, ~Planning(r)
  PROVE  PlanReady(r)
BY DEF Planning, PlanReady

LEMMA PlanInit ==
  ASSUME Init
  PROVE  PlanInv
<1>1. req = [i \in Requests |-> Idle] /\ plans = Initial
  BY DEF Init
<1>2. \E p \in Plans : Defaults = {p}
  BY <1>1, AccessAssumption DEF Defaults
<1>3. ~Planning(Idle)
  BY DEF Planning, Idle
<1> QED BY <1>1, <1>2, <1>3, NotPlanning DEF PlanInv

\* No plan is written, and nobody new is about to write one.
LEMMA PlanKept ==
  ASSUME PlanInv, overlapped \subseteq overlapped', plans' = plans,
         \A j \in Requests : req'[j] = req[j] \/ ~Planning(req'[j])
  PROVE  PlanInv'
<1>1. Defaults' = Defaults
  BY DEF Defaults
<1>2. ASSUME NEW j \in Requests, PlanReady(req[j]) PROVE PlanReady(req[j])'
  <2>1. CASE req'[j] = req[j]
    BY <1>1, <1>2, <2>1 DEF PlanReady, Planning
  <2>2. CASE ~Planning(req'[j])
    BY <2>2 DEF PlanReady, Planning
  <2> QED BY <2>1, <2>2
<1> QED BY <1>1, <1>2 DEF PlanInv

LEMMA PlanReads ==
  ASSUME TypeInv, PlanInv, NEW i \in Requests, Reading(i), Onward(i)
  PROVE  PlanInv'
<1>1. PICK x : Follows(req[i], x) /\ req' = [req EXCEPT ![i] = x] /\ overlapped' = overlapped /\ plans' = plans
  BY DEF Onward, Idles, Reads, planVars
<1>2. /\ req \in [Requests -> AnyRequest] /\ req'[i] = x /\ \A j \in Requests : j # i => req'[j] = req[j]
      /\ Defaults' = Defaults
  BY <1>1 DEF TypeInv, ReqsInv, Defaults
<1>3. PICK r : r = req[i]
  OBVIOUS
<1>4. /\ r \in AnyRequest /\ Names(r)
      /\ x = Idle \/ Same(r, x)
  BY <1>1, <1>2, <1>3 DEF TypeInv, ReqsInv, Sound, Follows
<1>5. CASE ~Planning(x)
  <2>1. \A j \in Requests : req'[j] = req[j] \/ ~Planning(req'[j])
    BY <1>2, <1>5
  <2> QED BY <1>1, <2>1, PlanKept
<1>6. CASE Planning(x)
  <2>1. /\ x # Idle /\ x.op = r.op /\ x.plan = r.plan /\ x.default = r.default
        /\ x.pc \in {"snapshot", "write"} /\ r.op \in {"createPlan", "updatePlan", "deletePlan"}
    BY <1>4, <1>6 DEF Planning, Same, Idle
  <2>2. ReadPlan(i) \/ ClearDefaultPlanExcept(i)
    <3>1. r.op \notin {"login", "register", "password", "updateUser", "deleteUser", "addMember",
                       "updateRole", "removeMember", "fetch"}
      BY <2>1
    <3> QED BY <1>3, <3>1 DEF Reading, FirstTenant, ReadBack, GetUserByID, CountPlatformAdmins, ReadMember,
                              Snapshot, Today, At
  <2>3. ASSUME PlanReady(r) PROVE PlanReady(x)
    <3>1. CASE ReadPlan(i)
      <4>1. /\ Goto(i, IF r.op \in {"createPlan", "updatePlan"} /\ ~Serial THEN "snapshot" ELSE "write")
            /\ r.op = "updatePlan" => KeepsDefault(r)
            /\ r.op = "deletePlan" => ~plans[r.plan].default
        BY <1>2, <1>3, <2>1, <3>1 DEF ReadPlan, End
      <4>2. PICK pc : pc = IF r.op \in {"createPlan", "updatePlan"} /\ ~Serial THEN "snapshot" ELSE "write"
        OBVIOUS
      <4>3. x = [r EXCEPT !.pc = pc]
        BY <1>2, <1>3, <4>1, <4>2 DEF Goto
      <4>4. x.pc = pc
        BY <1>4, <4>3, RequestSet
      <4>5. r.op = "updatePlan" /\ ~r.default => r.plan \notin Defaults
        BY <4>1 DEF KeepsDefault, Defaults
      <4>6. r.op = "deletePlan" => r.plan \notin Defaults
        BY <4>1 DEF Defaults
      <4> QED BY <2>1, <4>2, <4>4, <4>5, <4>6 DEF PlanReady
    <3>2. CASE ClearDefaultPlanExcept(i)
      <4>1. /\ r.op \in {"createPlan", "updatePlan"} /\ r.pc = "snapshot"
            /\ req' = [req EXCEPT ![i].victims = Defaults \ {r.plan}, ![i].pc = "write"]
        BY <1>3, <3>2 DEF ClearDefaultPlanExcept
      <4>2. PICK v : v = Defaults \ {r.plan}
        OBVIOUS
      <4>3. x = [r EXCEPT !.victims = v, !.pc = "write"]
        BY <1>2, <1>3, <4>1, <4>2
      <4>4. x.victims = v
        <5>1. v \in SUBSET Plans
          BY <4>2 DEF Defaults
        <5> QED BY <1>4, <4>3, <5>1, RequestSet
      <4>5. r.op = "updatePlan" /\ ~r.default => r.plan \notin Defaults
        BY <2>3, <4>1 DEF PlanReady, Planning
      <4> QED BY <2>1, <4>1, <4>2, <4>4, <4>5 DEF PlanReady
    <3> QED BY <2>2, <3>1, <3>2
  <2>4. CASE <<"plan">> \in overlapped
    BY <2>4, <1>1 DEF PlanInv
  <2>5. CASE <<"plan">> \notin overlapped
    <3>1. (\E p \in Plans : Defaults = {p}) /\ \A j \in Requests : PlanReady(req[j])
      BY <2>5 DEF PlanInv
    <3>2. PlanReady(x)
      BY <1>3, <2>3, <3>1
    <3>3. PlanReady(x)'
      BY <1>2, <3>2 DEF PlanReady, Planning
    <3>4. ASSUME NEW j \in Requests PROVE PlanReady(req[j])'
      <4>1. CASE j = i
        BY <4>1, <1>2, <3>3
      <4>2. CASE j # i
        <5>1. PICK y : y = req[j]
          OBVIOUS
        <5>2. PlanReady(y) /\ req'[j] = y
          BY <4>2, <5>1, <1>2, <3>1
        <5>3. PlanReady(y)'
          BY <1>2, <5>2 DEF PlanReady, Planning
        <5> QED BY <5>2, <5>3
      <4> QED BY <4>1, <4>2
    <3> QED BY <1>2, <3>1, <3>4 DEF PlanInv
  <2> QED BY <2>4, <2>5
<1> QED BY <1>5, <1>6

LEMMA PlanWrites ==
  ASSUME TypeInv, Alone, PlanInv, NEW i \in Requests, Writing(i)
  PROVE  PlanInv'
<1>1. PICK r : r = req[i]
  OBVIOUS
<1>2. /\ r \in AnyRequest /\ Sound(r) /\ overlapped' = overlapped
      /\ plans \in [Plans -> [there : BOOLEAN, default : BOOLEAN, limit : Limits]]
  BY <1>1, WritingOverlaps DEF TypeInv, ReqsInv, RowsInv
<1>3. ASSUME NEW j \in Requests PROVE (j # i /\ req'[j] = req[j]) \/ ~Planning(req'[j])
  <2>1. CASE req'[j] = Idle \/ Opens(req'[j])
    BY <2>1 DEF Planning, Idle, Opens
  <2>2. CASE req'[j].op \in {"register", "password", "updateUser"}
    BY <2>2 DEF Planning
  <2> QED BY <2>1, <2>2, OthersMove
<1>4. CASE plans' = plans
  <2>1. \A j \in Requests : req'[j] = req[j] \/ ~Planning(req'[j])
    BY <1>3
  <2>2. overlapped \subseteq overlapped'
    BY <1>2
  <2> QED BY <1>4, <2>1, <2>2, PlanKept
<1>5. CASE plans' # plans
  <2>1. WritePlan(i)
    BY <1>5 DEF Writing, createAccount, createSession, UpdateUserPassword, UpdateUserPlatformRole,
                UpdateUserStatus, RevokeSessions, SoftDeleteUser, SoftDeleteTenant, UpdateSessionTenant,
                InsertTenant, WriteMember, Consume, planVars
  <2>2. PICK victims : victims = IF ~r.default THEN {} ELSE IF Serial THEN Defaults \ {r.plan} ELSE r.victims
    OBVIOUS
  <2>3. /\ r.pc = "write"
        /\ \/ /\ r.op \in {"createPlan", "updatePlan"} /\ plans[r.plan].there = (r.op = "updatePlan")
              /\ plans' = [p \in Plans |-> IF p = r.plan
                                           THEN [there |-> TRUE, default |-> r.default, limit |-> r.limit]
                                           ELSE [plans[p] EXCEPT !.default = @ /\ p \notin victims]]
           \/ r.op = "deletePlan" /\ plans' = [plans EXCEPT ![r.plan].there = FALSE]
    BY <1>1, <1>5, <2>1, <2>2 DEF WritePlan
  <2>4. r.plan \in Plans /\ Planning(r)
    BY <1>2, <2>3 DEF Sound, Names, Planning
  <2>5. PICK q \in Plans : q = r.plan
    BY <2>4
  <2>6. CASE <<"plan">> \in overlapped
    BY <1>2, <2>6 DEF PlanInv
  <2>7. CASE <<"plan">> \notin overlapped
    <3>1. (\E p \in Plans : Defaults = {p}) /\ PlanReady(r)
      BY <1>1, <2>7 DEF PlanInv
    <3>2. \E p \in Plans : Defaults' = {p}
      <4>1. CASE r.op = "deletePlan"
        <5>1. plans' = [plans EXCEPT ![q].there = FALSE] /\ q \notin Defaults
          BY <2>3, <2>5, <3>1, <4>1 DEF PlanReady
        <5>2. PICK w : w = plans[q]
          OBVIOUS
        <5>3. PICK row : row = [w EXCEPT !.there = FALSE]
          OBVIOUS
        <5>4. w \in [there : BOOLEAN, default : BOOLEAN, limit : Limits] /\ ~row.there
          BY <1>2, <5>2, <5>3
        <5>5. plans'[q] = row /\ \A p \in Plans : p # q => plans'[p] = plans[p]
          BY <1>2, <5>1, <5>2, <5>3
        <5>6. Defaults' = Defaults
          BY <5>1, <5>4, <5>5 DEF Defaults
        <5> QED BY <3>1, <5>6
      <4>2. CASE r.op \in {"createPlan", "updatePlan"}
        <5>1. /\ plans' = [p \in Plans |-> IF p = q
                                           THEN [there |-> TRUE, default |-> r.default, limit |-> r.limit]
                                           ELSE [plans[p] EXCEPT !.default = @ /\ p \notin victims]]
              /\ plans[q].there = (r.op = "updatePlan")
          BY <2>3, <2>5, <4>2
        <5>2. plans'[q].there /\ plans'[q].default = r.default
          BY <5>1
        <5>3. ASSUME NEW p \in Plans, p # q
              PROVE  plans'[p].there = plans[p].there /\ plans'[p].default = (plans[p].default /\ p \notin victims)
          <6>1. PICK w : w = plans[p]
            OBVIOUS
          <6>2. PICK b : b = (w.default /\ p \notin victims)
            OBVIOUS
          <6>3. plans'[p] = [w EXCEPT !.default = b]
            BY <5>1, <5>3, <6>1, <6>2
          <6>4. w \in [there : BOOLEAN, default : BOOLEAN, limit : Limits]
            BY <1>2, <6>1
          <6> QED BY <6>1, <6>2, <6>3, <6>4
        <5>4. r.default \in BOOLEAN
          BY <1>2, RequestSet
        <5>5. CASE r.default
          <6>1. victims = Defaults \ {q}
            BY <2>2, <2>3, <2>5, <3>1, <4>2, <5>5 DEF PlanReady
          <6>2. Defaults' = {q}
            BY <5>2, <5>3, <5>5, <6>1 DEF Defaults
          <6> QED BY <6>2
        <5>6. CASE ~r.default
          <6>1. victims = {}
            BY <2>2, <5>6
          <6>2. q \notin Defaults
            <7>1. CASE r.op = "updatePlan"
              BY <2>4, <2>5, <3>1, <5>6, <7>1 DEF PlanReady
            <7>2. CASE r.op = "createPlan"
              BY <5>1, <7>2 DEF Defaults
            <7> QED BY <4>2, <7>1, <7>2
          <6>3. Defaults' = Defaults
            BY <5>2, <5>3, <5>6, <6>1, <6>2 DEF Defaults
          <6> QED BY <3>1, <6>3
        <5> QED BY <5>5, <5>6
      <4> QED BY <2>3, <4>1, <4>2
    <3>3. Guard(r) = <<"plan">>
      BY <2>4, GuardOf DEF Planning
    <3>4. ASSUME NEW j \in Requests PROVE ~Planning(req'[j])
      <4>1. SUFFICES ASSUME Planning(req'[j]) PROVE FALSE
        OBVIOUS
      <4>2. j # i /\ req'[j] = req[j]
        BY <1>3, <4>1
      <4>3. Guard(req[j]) = <<"plan">>
        BY <4>1, <4>2, GuardOf DEF Planning
      <4>4. req[j].op # "removeMember"
        BY <4>1, <4>2 DEF Planning
      <4> QED BY <1>1, <2>7, <3>3, <4>2, <4>3, <4>4, GuardIsThere, PairNoted
    <3>5. \A j \in Requests : PlanReady(req[j])'
      BY <3>4 DEF Planning, PlanReady
    <3> QED BY <3>2, <3>5 DEF PlanInv
  <2> QED BY <2>6, <2>7
<1> QED BY <1>4, <1>5

LEMMA PlanStep ==
  ASSUME TypeInv, Alone, PlanInv, [Next]_vars
  PROVE  PlanInv'
<1>1. overlapped \subseteq overlapped'
  BY AloneStep
<1>2. ASSUME NEW i \in Requests, Beginning(i) PROVE PlanInv'
  <2>1. PICK r : Begun(r) /\ req' = [req EXCEPT ![i] = r] /\ plans' = plans
    BY <1>2 DEF Beginning, Begin, Reads, planVars
  <2>2. req \in [Requests -> AnyRequest]
    BY DEF TypeInv, ReqsInv
  <2>3. ~Planning(r)
    BY <2>1 DEF Begun, Planning
  <2>4. \A j \in Requests : req'[j] = req[j] \/ ~Planning(req'[j])
    BY <2>1, <2>2, <2>3
  <2> QED BY <1>1, <2>1, <2>4, PlanKept
<1>3. CASE Restart
  <2>1. \A j \in Requests : ~Planning(req'[j])
    BY <1>3 DEF Restart, Planning, Idle
  <2>2. plans' = plans
    BY <1>3 DEF Restart
  <2> QED BY <1>1, <2>1, <2>2, PlanKept
<1>4. ASSUME NEW s \in sessions, Logout(s) PROVE PlanInv'
  <2>1. plans' = plans /\ req' = req
    BY <1>4 DEF Logout, planVars
  <2> QED BY <1>1, <2>1, PlanKept
<1>5. CASE NewDay \/ UNCHANGED vars
  <2>1. plans' = plans /\ req' = req
    BY <1>5 DEF NewDay, vars, planVars
  <2> QED BY <1>1, <2>1, PlanKept
<1> QED BY <1>2, <1>3, <1>4, <1>5, StepKinds, PlanReads, PlanWrites

\* There is an administrator, and one plan is the default (platform_service.go:100,
\* admin_service.go:186 and 221), unless two requests passed the guard at once.  Every
\* workspace has a membership of an owner (member_service.go:57 and 71), if maybe of a deleted
\* account, unless a new role was given at once with another or with a removal, or, on
\* PostgreSQL, two removals were.
THEOREM SomeoneStaysInCharge == Spec => []SomeoneInCharge
<1> DEFINE Inv == TypeInv /\ Alone /\ AdminInv /\ OwnerInv /\ PlanInv
<1>1. Init => Inv
  <2> SUFFICES ASSUME Init PROVE Inv
    OBVIOUS
  <2>1. \A i \in Requests : req[i] = Idle
    BY DEF Init
  <2>2. Alone
    BY <2>1, OpensNoGuard DEF Alone, Together
  <2> QED BY <2>2, TypeInit, AdminInit, OwnerInit, PlanInit
<1>2. Inv /\ [Next]_vars => Inv'
  BY TypeStep, AloneStep, AdminStep, OwnerStep, PlanStep
<1>3. Inv => SomeoneInCharge
  <2> SUFFICES ASSUME Inv PROVE SomeoneInCharge
    OBVIOUS
  <2>1. <<"admin">> \in overlapped \/ Admins # {}
    BY DEF AdminInv
  <2>2. ASSUME NEW t \in Tenants
        PROVE  Contested(t) \/ ~GetTenant(t) \/ Owners(t) # {}
    BY TenantIsBorn DEF OwnerInv, OwnerFine
  <2>3. <<"plan">> \in overlapped \/ Cardinality(Defaults) = 1
    BY FS_Singleton DEF PlanInv
  <2> QED BY <2>1, <2>2, <2>3 DEF SomeoneInCharge, Contested
<1> QED BY <1>1, <1>2, <1>3, PTL DEF Spec

-----------------------------------------------------------------------------
(* Prices.                                                                 *)

PriceRow  == [id : Nat \ {0}, tag : Tags, status : {"pending", "active", "error"}, product : Nat, active : BOOLEAN]
PriceRows == PriceRow \union {NoPrice}
PriceCall == [op : {"create", "update", "sync"},
              pc : {"plan", "insert", "old", "write", "read", "push", "store"},
              plan : Plans, id : Nat \ {0}, tag : Tags \union {None}, active : BOOLEAN \union {None},
              seen : PriceRows, row : PriceRows, stale : BOOLEAN]
Product   == [key : Nat \ {0}, tag : Tags]

\* A row names a product that was created for it, and has one when it is for sale.
OwnProduct(row) ==
  /\ row.status = "active" => row.product # NoProduct
  /\ row.product # NoProduct => row.product \in DOMAIN products /\ products[row.product].key = row.id

\* Where the requests about prices may be, and what they hold.
CallFine(c) ==
  /\ c.pc \in {"plan", "insert"} => c.op = "create" /\ c.tag \in Tags
  /\ c.pc \in {"old", "write"} => c.op = "update"
  /\ c.pc \in {"write", "push", "store"} => c.seen \in PriceRow /\ c.seen.id = c.id /\ OwnProduct(c.seen)
  /\ c.pc = "push" => c.row = c.seen
  /\ c.pc = "store" => /\ c.row \in PriceRow /\ c.row.id = c.id /\ OwnProduct(c.row)
                       /\ c.row.tag = c.seen.tag /\ c.row.active = c.seen.active

PriceTypes ==
  /\ prices \in [Plans -> PriceRows]
  /\ products \in Seq(Product)
  /\ call \in [Requests -> PriceCall \union {Idle}]
  /\ asked \in Nat
  /\ hidden \subseteq 1..(Before + asked)
  /\ \A p \in Plans : prices[p] # NoPrice => OwnProduct(prices[p])
  /\ \A i \in Requests : call[i] # Idle => CallFine(call[i])

\* The id of a price is not that of another one, nor that of one yet to be created.
NewId(c) == c # Idle /\ c.pc \in {"plan", "insert"}
PriceIds ==
  /\ \A p \in Plans : prices[p].id <= Before + asked
  /\ \A p, q \in Plans : prices[p] # NoPrice /\ prices[p].id = prices[q].id => p = q
  /\ \A i \in Requests : call[i] # Idle => call[i].id <= Before + asked
  /\ \A i \in Requests, p \in Plans : call[i] # Idle /\ prices[p].id = call[i].id => p = call[i].plan
  /\ \A i \in Requests : NewId(call[i]) =>
       /\ call[i].id \notin hidden
       /\ \A p \in Plans : prices[p].id # call[i].id
       /\ \A j \in Requests : j # i /\ call[j] # Idle => call[j].id # call[i].id

\* A request whose row nobody has written since knows what the row is.
Current(i) == HasRead(i) /\ Present(call[i]) /\ ~call[i].stale
ReadInv    == \A i \in Requests : Current(i) => prices[call[i].plan] = call[i].seen

\* What is charged for a row that is for sale.
Sold(row, tag) == row.status = "active" => products[row.product].tag = tag \/ row.id \in replayed
AnswerInv ==
  \A i \in Requests :
    Current(i) /\ call[i].pc = "store" /\ call[i].id \notin spoiled => Sold(call[i].row, call[i].row.tag)

Shown(row) == row.id \notin spoiled => Sold(row, row.tag) /\ (row.active => row.id \notin hidden)
ShownInv   == \A p \in Plans : prices[p] # NoPrice => Shown(prices[p])

PriceInv == PriceTypes /\ PriceIds /\ ReadInv /\ AnswerInv /\ ShownInv

LEMMA PriceKinds ==
  /\ \A c \in PriceCall : c # Idle
  /\ \A row \in PriceRow : row # NoPrice /\ row.id # 0
  /\ NoPrice.id = 0
<1>1. \A c \in PriceCall : c # Idle
  <2>1. Idle.op = "idle"
    BY DEF Idle
  <2> QED BY <2>1 DEF PriceCall
<1>2. \A row \in PriceRow : row # NoPrice /\ row.id # 0
  BY DEF PriceRow, NoPrice
<1> QED BY <1>1, <1>2 DEF NoPrice

\* A row is a row of its own plan, whatever the others are.
LEMMA PresentIs ==
  ASSUME PriceTypes, NEW i \in Requests, call[i] # Idle
  PROVE  /\ call[i] \in PriceCall
         /\ Present(call[i]) => prices[call[i].plan] \in PriceRow
<1>1. call[i] \in PriceCall
  BY DEF PriceTypes
<1>2. call[i].plan \in Plans /\ call[i].id # 0
  BY <1>1 DEF PriceCall
<1> QED BY <1>1, <1>2, PriceKinds DEF PriceTypes, Present, PriceRows

LEMMA PriceInit == PricingInit => PriceInv
<1> SUFFICES ASSUME PricingInit PROVE PriceInv
  OBVIOUS
<1>1. PICK first \in SUBSET Plans, tag \in Tags :
        /\ \A p, q \in first : p = q
        /\ prices = [p \in Plans |-> IF p \in first THEN [Price(Before, tag) EXCEPT !.status = "active", !.product = 1]
                                    ELSE NoPrice]
        /\ products = IF first = {} THEN <<>> ELSE <<[key |-> Before, tag |-> tag]>>
  BY DEF PricingInit
<1> DEFINE one == [Price(Before, tag) EXCEPT !.status = "active", !.product = 1]
<1>2. Price(Before, tag) \in PriceRow
  BY DEF Price, PriceRow, Before, NoProduct
<1>3. Price(Before, tag).id = 1 /\ Price(Before, tag).tag = tag
  BY DEF Price, Before
<1>4. /\ one \in PriceRow
      /\ one.id = 1 /\ one.tag = tag /\ one.product = 1
  BY <1>2, <1>3 DEF PriceRow
<1>5. call = [i \in Requests |-> Idle] /\ asked = 0 /\ hidden = {}
  BY DEF PricingInit
<1>6. first # {} => products = <<[key |-> 1, tag |-> tag]>>
  BY <1>1 DEF Before
<1>7. first # {} => OwnProduct(one) /\ Sold(one, one.tag)
  BY <1>4, <1>6 DEF OwnProduct, Sold, NoProduct
<1>8. products \in Seq(Product)
  <2>1. [key |-> 1, tag |-> tag] \in Product
    BY DEF Product
  <2> QED BY <1>1, <1>6, <2>1
<1> HIDE DEF one
<1>9. \A p \in Plans : (p \in first /\ prices[p] = one) \/ (p \notin first /\ prices[p] = NoPrice)
  BY <1>1 DEF one
<1>10. PriceTypes
  BY <1>1, <1>4, <1>5, <1>7, <1>8, <1>9 DEF PriceTypes, PriceRows, one
<1>11. PriceIds
  <2>1. one.id = 1
    BY <1>4
  <2>2. \A p \in Plans : prices[p].id <= Before + asked
    BY <1>5, <1>9, <2>1, PriceKinds DEF Before
  <2>3. \A p, q \in Plans : prices[p] # NoPrice /\ prices[p].id = prices[q].id => p = q
    <3>1. \A p \in Plans : prices[p] # NoPrice => p \in first
      BY <1>9
    <3>2. \A p \in Plans : p \notin first => prices[p].id = 0
      BY <1>9, PriceKinds
    <3>3. \A p \in Plans : p \in first => prices[p].id = 1
      BY <1>9, <2>1
    <3>4. \A p, q \in first : p = q
      BY <1>1
    <3> QED BY <3>1, <3>2, <3>3, <3>4
  <2> QED BY <1>5, <2>2, <2>3 DEF PriceIds, NewId
<1>12. ReadInv /\ AnswerInv
  BY <1>5 DEF ReadInv, AnswerInv, Current, HasRead
<1>13. ShownInv
  BY <1>5, <1>7, <1>9 DEF ShownInv, Shown
<1> QED BY <1>10, <1>11, <1>12, <1>13 DEF PriceInv

-----------------------------------------------------------------------------
\* A request goes on, having read the row or not, and nothing else changes.
LEMMA CallMoves ==
  ASSUME PriceInv, NEW i \in Requests, NEW c \in PriceCall \union {Idle},
         call' = [call EXCEPT ![i] = c],
         UNCHANGED <<prices, products, asked, hidden, spoiled, replayed>>,
         c # Idle => /\ call[i] # Idle /\ c.id = call[i].id /\ c.plan = call[i].plan
                     /\ CallFine(c) /\ c.pc # "store"
                     /\ NewId(c) => NewId(call[i])
                     /\ c.pc \in {"write", "push"} => prices[c.plan] = c.seen
  PROVE  PriceInv'
<1> USE DEF PriceInv
<1>1. \A j \in Requests : call'[j] = IF j = i THEN c ELSE call[j]
  BY DEF PriceTypes
<1>2. PriceTypes'
  <2>1. call' \in [Requests -> PriceCall \union {Idle}]
    BY DEF PriceTypes
  <2>2. \A j \in Requests : call'[j] # Idle => CallFine(call'[j])
    BY <1>1 DEF PriceTypes
  <2>3. \A x : CallFine(x)' <=> CallFine(x)
    BY DEF CallFine, OwnProduct
  <2>4. \A j \in Requests : (call[j] # Idle => CallFine(call[j]))'
    <3> SUFFICES ASSUME NEW j \in Requests, call'[j] # Idle PROVE CallFine(call[j])'
      OBVIOUS
    <3>1. PICK x : x = call'[j]
      OBVIOUS
    <3>2. CallFine(x)
      BY <2>2, <3>1
    <3> QED BY <3>1, <3>2 DEF CallFine, OwnProduct
  <2>5. \A p \in Plans : (prices[p] # NoPrice => OwnProduct(prices[p]))'
    BY DEF PriceTypes, OwnProduct
  <2> QED BY <2>1, <2>4, <2>5 DEF PriceTypes
<1>3. PriceIds'
  BY <1>1 DEF PriceIds, NewId
<1>4. ReadInv'
  BY <1>1 DEF ReadInv, Current, HasRead, Present
<1>5. AnswerInv'
  BY <1>1 DEF AnswerInv, Current, HasRead, Present, Sold
<1>6. ShownInv'
  BY DEF ShownInv, Shown, Sold
<1> QED BY <1>2, <1>3, <1>4, <1>5, <1>6

LEMMA CallEnds ==
  ASSUME PriceInv, NEW i \in Requests, Return(i),
         UNCHANGED <<prices, products, asked, hidden, spoiled, replayed>>
  PROVE  PriceInv'
BY CallMoves DEF Return

LEMMA CheckPlanStep ==
  ASSUME PriceInv, NEW i \in Requests, CheckPlan(i)
  PROVE  PriceInv'
<1>1. call[i] \in PriceCall /\ CallFine(call[i]) /\ call[i] # Idle
  <2>1. call[i] # Idle
    BY DEF CheckPlan, On, Idle
  <2> QED BY <2>1 DEF PriceInv, PriceTypes
<1>2. CASE Proceed(i, "insert")
  <2> DEFINE c == [call[i] EXCEPT !.pc = "insert"]
  <2>1. c \in PriceCall /\ c.id = call[i].id /\ c.plan = call[i].plan /\ c.pc = "insert" /\ c.op = call[i].op
        /\ c.tag = call[i].tag
    BY <1>1 DEF PriceCall
  <2>2. call' = [call EXCEPT ![i] = c]
    BY <1>2 DEF Proceed, Resumed
  <2>3. call[i].pc = "plan"
    BY DEF CheckPlan, On
  <2>4. CallFine(c) /\ (NewId(c) => NewId(call[i]))
    BY <1>1, <2>1, <2>3 DEF CallFine, NewId
  <2> HIDE DEF c
  <2> QED BY <1>1, <2>1, <2>2, <2>4, CallMoves DEF CheckPlan
<1>3. CASE Return(i)
  BY <1>3, CallEnds DEF CheckPlan
<1> QED BY <1>2, <1>3 DEF CheckPlan

LEMMA GetOldPriceStep ==
  ASSUME PriceInv, NEW i \in Requests, GetOldPrice(i)
  PROVE  PriceInv'
<1>1. call[i] \in PriceCall /\ CallFine(call[i]) /\ call[i] # Idle /\ call[i].pc = "old"
  <2>1. call[i] # Idle /\ call[i].pc = "old"
    BY DEF GetOldPrice, On, Idle
  <2> QED BY <2>1 DEF PriceInv, PriceTypes
<1> DEFINE old == prices[call[i].plan]
           c == [call[i] EXCEPT !.seen = old, !.stale = FALSE, !.pc = "write"]
<1>2. CASE Present(call[i]) /\ call' = [call EXCEPT ![i] = c]
  <2>1. old \in PriceRow /\ old.id = call[i].id /\ OwnProduct(old)
    BY <1>1, <1>2, PresentIs, PriceKinds DEF PriceInv, PriceTypes, Present, PriceCall
  <2>2. /\ c \in PriceCall /\ c.id = call[i].id /\ c.plan = call[i].plan /\ c.pc = "write"
        /\ c.op = call[i].op /\ c.seen = old
    BY <1>1, <2>1 DEF PriceCall, PriceRows
  <2> HIDE DEF old
  <2>3. CallFine(c)
    BY <1>1, <2>1, <2>2 DEF CallFine
  <2>4. ~NewId(c) /\ prices[c.plan] = c.seen
    BY <2>2 DEF NewId, old
  <2> HIDE DEF c
  <2> QED BY <1>1, <1>2, <2>2, <2>3, <2>4, CallMoves DEF GetOldPrice
<1>3. CASE Return(i)
  BY <1>3, CallEnds DEF GetOldPrice
<1> QED BY <1>2, <1>3 DEF GetOldPrice

LEMMA GetPlanPriceByIDStep ==
  ASSUME PriceInv, NEW i \in Requests, GetPlanPriceByID(i)
  PROVE  PriceInv'
<1>1. call[i] \in PriceCall /\ CallFine(call[i]) /\ call[i] # Idle /\ call[i].pc = "read"
  BY DEF GetPlanPriceByID, Syncing, PriceInv, PriceTypes
<1> DEFINE old == prices[call[i].plan]
           c == [call[i] EXCEPT !.seen = old, !.row = old, !.stale = FALSE, !.pc = "push"]
<1>2. CASE Present(call[i]) /\ call' = [call EXCEPT ![i] = c]
  <2>1. old \in PriceRow /\ old.id = call[i].id /\ OwnProduct(old)
    BY <1>1, <1>2, PresentIs, PriceKinds DEF PriceInv, PriceTypes, Present, PriceCall
  <2>2. /\ c \in PriceCall /\ c.id = call[i].id /\ c.plan = call[i].plan /\ c.pc = "push"
        /\ c.seen = old /\ c.row = old
    BY <1>1, <2>1 DEF PriceCall, PriceRows
  <2> HIDE DEF old
  <2>3. CallFine(c)
    BY <1>1, <2>1, <2>2 DEF CallFine
  <2>4. ~NewId(c) /\ prices[c.plan] = c.seen
    BY <2>2 DEF NewId, old
  <2> HIDE DEF c
  <2> QED BY <1>1, <1>2, <2>2, <2>3, <2>4, CallMoves DEF GetPlanPriceByID
<1>3. CASE Return(i)
  BY <1>3, CallEnds DEF GetPlanPriceByID
<1> QED BY <1>2, <1>3 DEF GetPlanPriceByID

\* A request that begins has a price that there is, or an id that nothing has had.
LEMMA RequestStep ==
  ASSUME PriceInv, NEW i \in Requests, NEW op \in {"create", "update", "sync"},
         NEW pc \in {"plan", "old", "read"}, NEW p \in Plans, NEW id,
         NEW tag \in Tags \union {None}, NEW active \in BOOLEAN \union {None},
         Request(i, op, pc, p, id, tag, active),
         \/ pc = "plan" /\ op = "create" /\ tag \in Tags /\ id = Before + asked + 1
         \/ pc # "plan" /\ prices[p] # NoPrice /\ id = prices[p].id,
         pc = "old" => op = "update"
  PROVE  PriceInv'
<1> USE DEF PriceInv
<1> DEFINE c == [op |-> op, pc |-> pc, plan |-> p, id |-> id, tag |-> tag, active |-> active,
                 seen |-> NoPrice, row |-> NoPrice, stale |-> FALSE]
<1>1. /\ call' = [call EXCEPT ![i] = c] /\ asked' = asked + 1
      /\ UNCHANGED <<prices, products, hidden, spoiled, replayed>>
  BY DEF Request
<1>2. asked \in Nat /\ call \in [Requests -> PriceCall \union {Idle}] /\ Before = 1
  BY DEF PriceTypes, Before
<1>3. id \in Nat \ {0} /\ id <= Before + asked'
  <2>1. CASE id = Before + asked + 1
    BY <1>1, <1>2, <2>1
  <2>2. CASE prices[p] # NoPrice /\ id = prices[p].id
    <3>1. id \in Nat \ {0}
      BY <2>2, PriceKinds DEF PriceTypes, PriceRows, PriceRow
    <3> QED BY <1>1, <1>2, <2>2, <3>1 DEF PriceIds
  <2> QED BY <2>1, <2>2
<1>4. c \in PriceCall
  BY <1>3 DEF PriceCall, PriceRows
<1>5. c.pc = pc /\ c.op = op /\ c.tag = tag /\ c.id = id /\ c.plan = p
  OBVIOUS
<1>6. CallFine(c)
  BY <1>5 DEF CallFine
<1> HIDE DEF c
<1>7. \A j \in Requests : call'[j] = IF j = i THEN c ELSE call[j]
  BY <1>1, <1>2
<1>8. PriceTypes'
  <2>1. call' \in [Requests -> PriceCall \union {Idle}]
    BY <1>1, <1>2, <1>4
  <2>2. \A j \in Requests : (call[j] # Idle => CallFine(call[j]))'
    <3> SUFFICES ASSUME NEW j \in Requests, call'[j] # Idle PROVE CallFine(call[j])'
      OBVIOUS
    <3>1. PICK x : x = call'[j]
      OBVIOUS
    <3>2. CallFine(x)
      BY <1>6, <1>7, <3>1 DEF PriceTypes
    <3> QED BY <1>1, <3>1, <3>2 DEF CallFine, OwnProduct
  <2>3. \A q \in Plans : (prices[q] # NoPrice => OwnProduct(prices[q]))'
    BY <1>1 DEF PriceTypes, OwnProduct
  <2>4. (hidden \subseteq 1..(Before + asked))'
    BY <1>1, <1>2 DEF PriceTypes
  <2> QED BY <1>1, <1>2, <2>1, <2>2, <2>3, <2>4 DEF PriceTypes
<1>9. PriceIds'
  <2>1. \A q \in Plans : prices[q].id \in Nat
    BY PriceKinds DEF PriceTypes, PriceRows, PriceRow
  <2>2. \A j \in Requests : call[j] # Idle => call[j].id \in Nat
    BY <1>2 DEF PriceCall
  <2>3. \A q \in Plans : (prices[q].id <= Before + asked)'
    BY <1>1, <1>2, <2>1 DEF PriceIds
  <2>4. \A j \in Requests : (call[j] # Idle => call[j].id <= Before + asked)'
    BY <1>1, <1>2, <1>3, <1>5, <1>7, <2>2 DEF PriceIds
  <2>5. CASE id = Before + asked + 1 /\ pc = "plan"
    <3>1. id \notin hidden /\ \A q \in Plans : prices[q].id # id
      BY <1>2, <2>1, <2>5 DEF PriceIds, PriceTypes
    <3>2. \A j \in Requests : call[j] # Idle => call[j].id # id
      BY <1>2, <2>2, <2>5 DEF PriceIds
    <3>3. \A j \in Requests, q \in Plans : (call[j] # Idle /\ prices[q].id = call[j].id => q = call[j].plan)'
      BY <1>1, <1>5, <1>7, <3>1 DEF PriceIds
    <3>4. \A j \in Requests : NewId(call'[j]) =>
            /\ call'[j].id \notin hidden
            /\ \A q \in Plans : prices[q].id # call'[j].id
            /\ \A k \in Requests : k # j /\ call'[k] # Idle => call'[k].id # call'[j].id
      BY <1>5, <1>7, <3>1, <3>2 DEF PriceIds, NewId
    <3> QED BY <1>1, <2>3, <2>4, <3>3, <3>4 DEF PriceIds, NewId
  <2>6. CASE pc # "plan" /\ prices[p] # NoPrice /\ id = prices[p].id
    <3>1. \A j \in Requests, q \in Plans : (call[j] # Idle /\ prices[q].id = call[j].id => q = call[j].plan)'
      BY <1>1, <1>5, <1>7, <2>6 DEF PriceIds
    <3>2. ~NewId(c)
      BY <1>5, <2>6 DEF NewId
    <3>3. \A j \in Requests : NewId(call'[j]) =>
            /\ call'[j].id \notin hidden
            /\ \A q \in Plans : prices[q].id # call'[j].id
            /\ \A k \in Requests : k # j /\ call'[k] # Idle => call'[k].id # call'[j].id
      BY <1>5, <1>7, <2>6, <3>2 DEF PriceIds
    <3> QED BY <1>1, <2>3, <2>4, <3>1, <3>3 DEF PriceIds, NewId
  <2> QED BY <2>5, <2>6
<1>10. ~HasRead(i)'
  BY <1>5, <1>7 DEF HasRead
<1>11. ReadInv'
  BY <1>1, <1>7, <1>10 DEF ReadInv, Current, HasRead, Present
<1>12. AnswerInv'
  BY <1>1, <1>7, <1>10 DEF AnswerInv, Current, HasRead, Present, Sold
<1>13. ShownInv'
  BY <1>1 DEF ShownInv, Shown, Sold
<1> QED BY <1>8, <1>9, <1>11, <1>12, <1>13

\* The price that is inserted has an id that nothing has had.
LEMMA CreatePlanPriceStep ==
  ASSUME PriceInv, NEW i \in Requests, CreatePlanPrice(i)
  PROVE  PriceInv'
<1> USE DEF PriceInv
<1> DEFINE c == call[i]
           row == Price(c.id, c.tag)
           next == [c EXCEPT !.pc = "read"]
<1>1. c \in PriceCall /\ CallFine(c) /\ c # Idle /\ c.pc = "insert"
  <2>1. call[i] # Idle /\ call[i].pc = "insert"
    BY DEF CreatePlanPrice, On, Idle
  <2> QED BY <2>1 DEF PriceTypes
<1>2. CASE Return(i) /\ UNCHANGED prices
  BY <1>2, CallEnds DEF CreatePlanPrice
<1>3. CASE prices[c.plan] = NoPrice /\ prices' = [prices EXCEPT ![c.plan] = row] /\ Proceed(i, "read")
  <2>1. UNCHANGED <<products, asked, hidden, spoiled, replayed>>
    BY DEF CreatePlanPrice
  <2>2. c.id \in Nat \ {0} /\ c.tag \in Tags /\ c.plan \in Plans
    BY <1>1 DEF PriceCall, CallFine
  <2>3. /\ row \in PriceRow /\ row.id = c.id /\ row.tag = c.tag /\ row.status = "pending"
        /\ row.product = NoProduct
    BY <2>2 DEF Price, PriceRow, NoProduct
  <2>4. /\ next \in PriceCall /\ next.pc = "read" /\ next.id = c.id /\ next.plan = c.plan
        /\ next.op = c.op /\ next.tag = c.tag
    BY <1>1 DEF PriceCall
  <2>5. CallFine(next) /\ OwnProduct(row) /\ ~NewId(next) /\ NewId(c)
    BY <1>1, <2>3, <2>4 DEF CallFine, OwnProduct, NewId
  <2>6. call' = [call EXCEPT ![i] = next]
    BY <1>3 DEF Proceed, Resumed
  <2> HIDE DEF row, next
  <2>7. \A j \in Requests : call'[j] = IF j = i THEN next ELSE call[j]
    BY <2>6 DEF PriceTypes
  <2>8. \A p \in Plans : prices'[p] = IF p = c.plan THEN row ELSE prices[p]
    BY <1>3 DEF PriceTypes
  <2>9. row # NoPrice /\ next # Idle
    BY <2>3, <2>4, PriceKinds
  <2>10. /\ c.id \notin hidden /\ \A p \in Plans : prices[p].id # c.id
         /\ \A j \in Requests : j # i /\ call[j] # Idle => call[j].id # c.id
    BY <2>5 DEF PriceIds
  <2>11. PriceTypes'
    <3>1. prices' \in [Plans -> PriceRows] /\ call' \in [Requests -> PriceCall \union {Idle}]
      BY <1>3, <2>3, <2>4, <2>6 DEF PriceTypes, PriceRows
    <3>2. \A j \in Requests : (call[j] # Idle => CallFine(call[j]))'
      <4> SUFFICES ASSUME NEW j \in Requests, call'[j] # Idle PROVE CallFine(call[j])'
        OBVIOUS
      <4>1. PICK x : x = call'[j]
        OBVIOUS
      <4>2. CallFine(x)
        BY <2>5, <2>7, <4>1 DEF PriceTypes
      <4> QED BY <2>1, <4>1, <4>2 DEF CallFine, OwnProduct
    <3>3. \A p \in Plans : (prices[p] # NoPrice => OwnProduct(prices[p]))'
      BY <2>1, <2>5, <2>8 DEF PriceTypes, OwnProduct
    <3> QED BY <2>1, <3>1, <3>2, <3>3 DEF PriceTypes
  <2>12. PriceIds'
    <3>1. \A p \in Plans : (prices[p].id <= Before + asked)'
      BY <1>1, <2>1, <2>3, <2>8 DEF PriceIds
    <3>2. \A p, q \in Plans : (prices[p] # NoPrice /\ prices[p].id = prices[q].id => p = q)'
      BY <2>3, <2>8, <2>10 DEF PriceIds
    <3>3. \A j \in Requests : (call[j] # Idle => call[j].id <= Before + asked)'
      BY <1>1, <2>1, <2>4, <2>7 DEF PriceIds
    <3>4. \A j \in Requests, p \in Plans : (call[j] # Idle /\ prices[p].id = call[j].id => p = call[j].plan)'
      BY <1>1, <2>3, <2>4, <2>7, <2>8, <2>10 DEF PriceIds
    <3>5. \A j \in Requests : NewId(call'[j]) =>
            /\ call'[j].id \notin hidden
            /\ \A p \in Plans : prices'[p].id # call'[j].id
            /\ \A k \in Requests : k # j /\ call'[k] # Idle => call'[k].id # call'[j].id
      <4> SUFFICES ASSUME NEW j \in Requests, NewId(call'[j])
                   PROVE  /\ call'[j].id \notin hidden
                          /\ \A p \in Plans : prices'[p].id # call'[j].id
                          /\ \A k \in Requests : k # j /\ call'[k] # Idle => call'[k].id # call'[j].id
        OBVIOUS
      <4>1. j # i /\ call'[j] = call[j] /\ NewId(call[j]) /\ call[j] # Idle
        BY <2>5, <2>7 DEF NewId
      <4>2. call[j].id # c.id
        BY <2>10, <4>1
      <4>3. call[j].id \notin hidden /\ \A p \in Plans : prices[p].id # call[j].id
        BY <4>1 DEF PriceIds
      <4>4. \A k \in Requests : k # j /\ call[k] # Idle => call[k].id # call[j].id
        BY <4>1 DEF PriceIds
      <4> QED BY <2>3, <2>4, <2>7, <2>8, <4>1, <4>2, <4>3, <4>4
    <3> QED BY <2>1, <3>1, <3>2, <3>3, <3>4, <3>5 DEF PriceIds, NewId
  <2>13. ~HasRead(i)'
    BY <2>4, <2>7 DEF HasRead
  <2>14. \A j \in Requests : Current(j)' => j # i /\ call'[j] = call[j] /\ Current(j) /\ prices'[call[j].plan] = prices[call[j].plan]
    <3> SUFFICES ASSUME NEW j \in Requests, Current(j)'
                 PROVE  j # i /\ call'[j] = call[j] /\ Current(j) /\ prices'[call[j].plan] = prices[call[j].plan]
      OBVIOUS
    <3>1. j # i /\ call'[j] = call[j] /\ call[j] # Idle
      BY <2>7, <2>13 DEF Current, HasRead
    <3>2. call[j].plan \in Plans /\ call[j].id # c.id
      BY <2>10, <3>1 DEF PriceTypes, PriceCall
    <3>3. prices'[call[j].plan].id = call[j].id
      BY <3>1 DEF Current, Present
    <3>4. call[j].plan # c.plan
      BY <2>3, <2>8, <3>2, <3>3
    <3> QED BY <2>8, <3>1, <3>2, <3>4 DEF Current, HasRead, Present
  <2>15. ReadInv'
    BY <2>14 DEF ReadInv
  <2>16. AnswerInv'
    BY <2>1, <2>14 DEF AnswerInv, Sold
  <2>17. ShownInv'
    BY <2>1, <2>3, <2>8, <2>10 DEF ShownInv, Shown, Sold
  <2> QED BY <2>11, <2>12, <2>15, <2>16, <2>17
<1> QED BY <1>2, <1>3 DEF CreatePlanPrice

-----------------------------------------------------------------------------
\* The provider answers, and a product may have become what the request has read: then
\* the rows that name it are its own, and what they say was read or is outdated.
LEMMA ProviderAnswers ==
  ASSUME PriceInv, NEW i \in Requests, Syncing(i, "push"), NEW row \in PriceRow,
         Answered(i, row), row.id = call[i].id,
         row.tag = call[i].seen.tag, row.active = call[i].seen.active,
         products' \in Seq(Product), replayed \subseteq replayed',
         \A n \in DOMAIN products :
           /\ n \in DOMAIN products' /\ products'[n].key = products[n].key
           /\ \/ products'[n].tag = products[n].tag
              \/ n = call[i].seen.product /\ n # NoProduct /\ products'[n].tag = call[i].seen.tag,
         OwnProduct(row)', Sold(row, row.tag)',
         spoiled' = Outdated(call[i]), UNCHANGED <<prices, asked, hidden>>
  PROVE  PriceInv'
<1> USE DEF PriceInv
<1>0. PICK c, next : c = call[i] /\ next = [c EXCEPT !.row = row, !.pc = "store"]
  OBVIOUS
<1>1. c \in PriceCall /\ CallFine(c) /\ c # Idle /\ c.pc = "push"
  BY <1>0 DEF Syncing, PriceTypes
<1>2. c.seen \in PriceRow /\ c.seen.id = c.id /\ OwnProduct(c.seen)
  BY <1>1 DEF CallFine
<1>3. /\ next \in PriceCall /\ next.pc = "store" /\ next.id = c.id /\ next.plan = c.plan
      /\ next.seen = c.seen /\ next.row = row /\ next.stale = c.stale
  BY <1>0, <1>1 DEF PriceCall, PriceRows
<1>4. call' = [call EXCEPT ![i] = next]
  BY <1>0 DEF Answered, PriceTypes
<1>5. \A j \in Requests : call'[j] = IF j = i THEN next ELSE call[j]
  BY <1>4 DEF PriceTypes
<1>6. next # Idle /\ ~NewId(next)
  BY <1>3, PriceKinds DEF NewId
<1>7. spoiled \subseteq spoiled' /\ (Present(c) /\ c.id \notin spoiled' => ~c.stale)
  BY <1>0 DEF Outdated
<1>8. \A r : OwnProduct(r) => OwnProduct(r)'
  BY DEF OwnProduct
\* Whoever is sold otherwise than before is sold what the request has read.
<1>9. \A r : OwnProduct(r) /\ Sold(r, r.tag) /\ ~Sold(r, r.tag)' => r.id = c.id /\ products'[r.product].tag = c.seen.tag
  BY <1>0, <1>2 DEF OwnProduct, Sold
<1>10. PriceTypes'
  <2>1. call' \in [Requests -> PriceCall \union {Idle}]
    BY <1>3, <1>4 DEF PriceTypes
  <2>2. OwnProduct(row)' /\ OwnProduct(c.seen)'
    BY <1>2, <1>8
  <2>3. CallFine(next)'
    BY <1>0, <1>2, <1>3, <2>2 DEF CallFine
  <2>4. \A j \in Requests : (call[j] # Idle => CallFine(call[j]))'
    <3> SUFFICES ASSUME NEW j \in Requests, call'[j] # Idle PROVE CallFine(call[j])'
      OBVIOUS
    <3>1. CASE j = i
      <4>1. call'[j] = next
        BY <1>5, <3>1
      <4> QED BY <2>3, <4>1 DEF CallFine, OwnProduct
    <3>2. CASE j # i
      <4>1. PICK d : d = call[j]
        OBVIOUS
      <4>2. call'[j] = d /\ CallFine(d)
        BY <1>5, <3>2, <4>1 DEF PriceTypes
      <4>3. CallFine(d)'
        BY <1>8, <4>2 DEF CallFine
      <4> QED BY <4>2, <4>3 DEF CallFine, OwnProduct
    <3> QED BY <3>1, <3>2
  <2>5. \A p \in Plans : (prices[p] # NoPrice => OwnProduct(prices[p]))'
    BY <1>8 DEF PriceTypes, OwnProduct
  <2> QED BY <2>1, <2>4, <2>5 DEF PriceTypes
<1>11. PriceIds'
  <2>1. \A j \in Requests : /\ call'[j].id = call[j].id /\ call'[j].plan = call[j].plan
                            /\ call'[j] # Idle <=> call[j] # Idle
                            /\ NewId(call'[j]) => NewId(call[j])
    BY <1>0, <1>1, <1>3, <1>5, <1>6
  <2> QED BY <2>1 DEF PriceIds, NewId
<1>12. \A j \in Requests : Current(j)' <=> IF j = i THEN Current(i) ELSE Current(j)
  <2>1. HasRead(i) /\ HasRead(i)'
    BY <1>0, <1>1, <1>3, <1>5, <1>6 DEF HasRead
  <2>2. Present(call[i])' <=> Present(call[i])
    BY <1>0, <1>3, <1>5 DEF Present
  <2>3. call'[i].stale = call[i].stale
    BY <1>0, <1>3, <1>5
  <2>4. \A j \in Requests : j # i => (Current(j)' <=> Current(j))
    BY <1>5 DEF Current, HasRead, Present
  <2> QED BY <2>1, <2>2, <2>3, <2>4 DEF Current
<1>13. ReadInv'
  <2>1. \A j \in Requests : call'[j].plan = call[j].plan /\ call'[j].seen = call[j].seen
    BY <1>0, <1>3, <1>5
  <2> QED BY <1>12, <2>1 DEF ReadInv
<1>14. Present(c) /\ c.id \notin spoiled' => prices[c.plan] = c.seen
  BY <1>0, <1>1, <1>7 DEF ReadInv, Current, HasRead
<1>15. AnswerInv'
  <2> SUFFICES ASSUME NEW j \in Requests, Current(j)', call'[j].pc = "store", call'[j].id \notin spoiled'
               PROVE  Sold(call[j].row, call[j].row.tag)'
    BY DEF AnswerInv
  <2>1. CASE j = i
    <3>1. call'[j].row = row
      BY <1>3, <1>5, <2>1
    <3> QED BY <3>1 DEF Sold
  <2>2. CASE j # i
    <3>0. PICK d : d = call[j]
      OBVIOUS
    <3>1. call'[j] = d /\ Current(j) /\ d.pc = "store" /\ d.id \notin spoiled /\ d.id \notin spoiled'
      BY <1>5, <1>7, <1>12, <2>2, <3>0
    <3>2. d # Idle /\ d \in PriceCall /\ d.plan \in Plans
      BY <3>0, <3>1 DEF Current, HasRead, PriceTypes, PriceCall
    <3>3. d.row.id = d.id /\ OwnProduct(d.row) /\ d.row.tag = d.seen.tag
      BY <3>0, <3>1, <3>2 DEF PriceTypes, CallFine
    <3>4. Sold(d.row, d.row.tag) /\ prices[d.plan] = d.seen /\ prices[d.plan].id = d.id
      BY <3>0, <3>1 DEF AnswerInv, ReadInv, Current, Present
    <3>5. CASE d.id = c.id
      <4>1. d.plan = c.plan
        BY <1>0, <1>1, <3>2, <3>4, <3>5 DEF PriceIds
      <4>2. c.seen = d.seen
        BY <1>14, <3>1, <3>4, <3>5, <4>1 DEF Present
      <4>3. Sold(d.row, d.row.tag)'
        BY <1>9, <3>3, <3>4, <4>2 DEF Sold
      <4> QED BY <3>1, <4>3 DEF Sold
    <3>6. CASE d.id # c.id
      <4>1. Sold(d.row, d.row.tag)'
        BY <1>9, <3>3, <3>4, <3>6
      <4> QED BY <3>1, <4>1 DEF Sold
    <3> QED BY <3>5, <3>6
  <2> QED BY <2>1, <2>2
<1>16. ShownInv'
  <2> SUFFICES ASSUME NEW p \in Plans, prices[p] # NoPrice, prices[p].id \notin spoiled'
               PROVE  Sold(prices[p], prices[p].tag)' /\ (prices[p].active => prices[p].id \notin hidden)
    BY DEF ShownInv, Shown, Sold
  <2>0. PICK r : r = prices[p]
    OBVIOUS
  <2>1. OwnProduct(r) /\ Sold(r, r.tag) /\ (r.active => r.id \notin hidden)
    BY <1>7, <2>0 DEF PriceTypes, ShownInv, Shown
  <2>2. Sold(r, r.tag)'
    <3>1. CASE r.id = c.id
      <4>1. p = c.plan
        BY <1>0, <1>1, <2>0, <3>1 DEF PriceIds
      <4>2. r = c.seen
        BY <1>14, <2>0, <3>1, <4>1 DEF Present
      <4> QED BY <1>9, <2>1, <4>2 DEF Sold
    <3>2. CASE r.id # c.id
      BY <1>9, <2>1, <3>2
    <3> QED BY <3>1, <3>2
  <2> QED BY <2>0, <2>1, <2>2 DEF Sold
<1> QED BY <1>10, <1>11, <1>13, <1>15, <1>16

\* What is stored of an answer: the row that was read, with a product or in error.
LEMMA AnswerRows ==
  ASSUME PriceInv, NEW i \in Requests, Syncing(i, "push")
  PROVE  /\ call[i] \in PriceCall /\ call[i].seen \in PriceRow /\ OwnProduct(call[i].seen)
         /\ call[i].seen.id = call[i].id /\ call[i].id \in Nat \ {0}
         /\ \A n \in Nat : Pushed(i, n) => \E row \in PriceRow :
              /\ Answered(i, row) /\ row.id = call[i].id /\ row.tag = call[i].seen.tag
              /\ row.active = call[i].seen.active /\ row.product = n
         /\ Failed(i) => \E row \in PriceRow :
              /\ Answered(i, row) /\ row.id = call[i].id /\ row.tag = call[i].seen.tag
              /\ row.active = call[i].seen.active /\ row.product = call[i].seen.product /\ row.status = "error"
<1> USE DEF PriceInv
<1> DEFINE c == call[i]
<1>1. c \in PriceCall /\ CallFine(c) /\ c.pc = "push" /\ c # Idle
  BY DEF Syncing, PriceTypes
<1>2. c.seen \in PriceRow /\ OwnProduct(c.seen) /\ c.seen.id = c.id /\ c.row = c.seen /\ c.id \in Nat \ {0}
  BY <1>1 DEF CallFine, PriceCall
<1>3. ASSUME NEW n \in Nat, Pushed(i, n)
      PROVE  \E row \in PriceRow :
               /\ Answered(i, row) /\ row.id = c.id /\ row.tag = c.seen.tag
               /\ row.active = c.seen.active /\ row.product = n
  <2> DEFINE row == [c.seen EXCEPT !.status = "active", !.product = n]
  <2>1. /\ row \in PriceRow /\ row.id = c.id /\ row.tag = c.seen.tag
        /\ row.active = c.seen.active /\ row.product = n
    BY <1>2 DEF PriceRow
  <2>2. Answered(i, row)
    BY <1>2, <1>3 DEF Pushed
  <2> QED BY <2>1, <2>2
<1>4. ASSUME Failed(i)
      PROVE  \E row \in PriceRow :
               /\ Answered(i, row) /\ row.id = c.id /\ row.tag = c.seen.tag
               /\ row.active = c.seen.active /\ row.product = c.seen.product /\ row.status = "error"
  <2> DEFINE row == [c.seen EXCEPT !.status = "error"]
  <2>1. /\ row \in PriceRow /\ row.id = c.id /\ row.tag = c.seen.tag
        /\ row.active = c.seen.active /\ row.product = c.seen.product /\ row.status = "error"
    BY <1>2 DEF PriceRow
  <2>2. Answered(i, row)
    BY <1>2, <1>4 DEF Failed
  <2> QED BY <2>1, <2>2
<1> QED BY <1>1, <1>2, <1>3, <1>4

LEMMA CreateSubscriptionProductStep ==
  ASSUME PriceInv, NEW i \in Requests, CreateSubscriptionProduct(i)
  PROVE  PriceInv'
<1> USE DEF PriceInv
<1>0. PICK c : c = call[i]
  OBVIOUS
<1>1. /\ Syncing(i, "push") /\ c.seen.product = NoProduct
      /\ spoiled' = Outdated(call[i]) /\ UNCHANGED <<prices, asked, hidden>>
  BY <1>0 DEF CreateSubscriptionProduct
<1>2. products \in Seq(Product) /\ c \in PriceCall /\ c.seen \in PriceRow /\ c.id \in Nat \ {0} /\ c.seen.tag \in Tags
  BY <1>0, <1>1, AnswerRows DEF PriceTypes, PriceRow
<1> DEFINE product == [key |-> c.id, tag |-> c.seen.tag]
           new == Append(products, product)
<1>3. /\ new \in Seq(Product) /\ Len(new) \in DOMAIN new /\ Len(new) \in Nat /\ Len(new) # NoProduct
      /\ new[Len(new)].key = c.id /\ new[Len(new)].tag = c.seen.tag
      /\ \A n \in DOMAIN products : n \in DOMAIN new /\ new[n] = products[n]
  <2>1. product \in Product /\ product.key = c.id /\ product.tag = c.seen.tag
    BY <1>2 DEF Product
  <2> HIDE DEF product
  <2>2. new \in Seq(Product) /\ Len(new) = Len(products) + 1 /\ new[Len(products) + 1] = product
    BY <1>2, <2>1
  <2>3. Len(products) \in Nat /\ DOMAIN products = 1..Len(products) /\ DOMAIN new = 1..Len(new)
    BY <1>2, <2>2
  <2>4. \A n \in 1..Len(products) : new[n] = products[n]
    BY <1>2
  <2> QED BY <2>1, <2>2, <2>3, <2>4 DEF NoProduct
<1> HIDE DEF new, product
<1>4. CASE products' = new /\ Pushed(i, Len(new)) /\ UNCHANGED replayed
  <2>1. PICK row \in PriceRow : /\ Answered(i, row) /\ row.id = call[i].id /\ row.tag = call[i].seen.tag
                                /\ row.active = call[i].seen.active /\ row.product = Len(new)
    BY <1>1, <1>3, <1>4, AnswerRows
  <2>2. OwnProduct(row)' /\ Sold(row, row.tag)'
    BY <1>0, <1>3, <1>4, <2>1 DEF OwnProduct, Sold
  <2> QED BY <1>1, <1>3, <1>4, <2>1, <2>2, ProviderAnswers
<1>5. CASE products' = new /\ Failed(i) /\ UNCHANGED replayed
  <2>1. PICK row \in PriceRow : /\ Answered(i, row) /\ row.id = call[i].id /\ row.tag = call[i].seen.tag
                                /\ row.active = call[i].seen.active /\ row.product = NoProduct /\ row.status = "error"
    BY <1>0, <1>1, <1>5, AnswerRows
  <2>2. OwnProduct(row)' /\ Sold(row, row.tag)'
    BY <2>1 DEF OwnProduct, Sold
  <2> QED BY <1>1, <1>3, <1>5, <2>1, <2>2, ProviderAnswers
<1>6. ASSUME NEW n \in DOMAIN products, products[n].key = c.id, Pushed(i, n),
             replayed' = replayed \union {c.id}, products' = products
      PROVE  PriceInv'
  <2>0. n \in Nat /\ n # NoProduct
    BY <1>2 DEF NoProduct
  <2>1. PICK row \in PriceRow : /\ Answered(i, row) /\ row.id = call[i].id /\ row.tag = call[i].seen.tag
                                /\ row.active = call[i].seen.active /\ row.product = n
    BY <1>1, <1>6, <2>0, AnswerRows
  <2>2. OwnProduct(row)' /\ Sold(row, row.tag)'
    BY <1>0, <1>6, <2>0, <2>1 DEF OwnProduct, Sold
  <2>3. replayed \subseteq replayed' /\ products' \in Seq(Product)
    BY <1>2, <1>6
  <2>4. \A m \in DOMAIN products : m \in DOMAIN products' /\ products'[m] = products[m]
    BY <1>6
  <2> QED BY <1>1, <2>1, <2>2, <2>3, <2>4, ProviderAnswers
<1>7. CASE Failed(i) /\ UNCHANGED <<products, replayed>>
  <2>1. PICK row \in PriceRow : /\ Answered(i, row) /\ row.id = call[i].id /\ row.tag = call[i].seen.tag
                                /\ row.active = call[i].seen.active /\ row.product = NoProduct /\ row.status = "error"
    BY <1>0, <1>1, <1>7, AnswerRows
  <2>2. OwnProduct(row)' /\ Sold(row, row.tag)'
    BY <2>1 DEF OwnProduct, Sold
  <2> QED BY <1>1, <1>2, <1>7, <2>1, <2>2, ProviderAnswers
<1> QED BY <1>0, <1>4, <1>5, <1>6, <1>7 DEF CreateSubscriptionProduct, new, product

LEMMA UpdateSubscriptionProductStep ==
  ASSUME PriceInv, NEW i \in Requests, UpdateSubscriptionProduct(i)
  PROVE  PriceInv'
<1> USE DEF PriceInv
<1>0. PICK c, n : c = call[i] /\ n = c.seen.product
  OBVIOUS
<1>1. /\ Syncing(i, "push") /\ n # NoProduct
      /\ spoiled' = Outdated(call[i]) /\ UNCHANGED <<prices, asked, hidden, replayed>>
  BY <1>0 DEF UpdateSubscriptionProduct
<1>2. products \in Seq(Product) /\ c.seen \in PriceRow /\ c.seen.id = c.id /\ c.seen.tag \in Tags /\ OwnProduct(c.seen)
  BY <1>0, <1>1, AnswerRows DEF PriceTypes, PriceRow
<1>3. n \in DOMAIN products /\ products[n].key = c.id /\ n \in Nat
  BY <1>0, <1>1, <1>2 DEF OwnProduct
<1> DEFINE new == [products EXCEPT ![n].tag = c.seen.tag]
<1>4. /\ new \in Seq(Product) /\ DOMAIN new = DOMAIN products
      /\ new[n].key = products[n].key /\ new[n].tag = c.seen.tag
      /\ \A m \in DOMAIN products : m # n => new[m] = products[m]
  <2>1. products[n] \in Product
    BY <1>2, <1>3
  <2> DEFINE product == [products[n] EXCEPT !.tag = c.seen.tag]
  <2>2. product \in Product /\ product.key = products[n].key /\ product.tag = c.seen.tag
    BY <1>2, <2>1 DEF Product
  <2>3. new = [products EXCEPT ![n] = product]
    OBVIOUS
  <2> HIDE DEF product
  <2>4. new \in Seq(Product)
    BY <1>2, <1>3, <2>2, <2>3
  <2> QED BY <1>2, <1>3, <2>2, <2>3, <2>4
<1> HIDE DEF new
<1>5. CASE products' = new /\ Pushed(i, n)
  <2>1. PICK row \in PriceRow : /\ Answered(i, row) /\ row.id = call[i].id /\ row.tag = call[i].seen.tag
                                /\ row.active = call[i].seen.active /\ row.product = n
    BY <1>1, <1>3, <1>5, AnswerRows
  <2>2. OwnProduct(row)' /\ Sold(row, row.tag)'
    BY <1>0, <1>1, <1>3, <1>4, <1>5, <2>1 DEF OwnProduct, Sold
  <2> QED BY <1>0, <1>1, <1>4, <1>5, <2>1, <2>2, ProviderAnswers
<1>6. CASE products' = new /\ Failed(i)
  <2>1. PICK row \in PriceRow : /\ Answered(i, row) /\ row.id = call[i].id /\ row.tag = call[i].seen.tag
                                /\ row.active = call[i].seen.active /\ row.product = n /\ row.status = "error"
    BY <1>0, <1>1, <1>6, AnswerRows
  <2>2. OwnProduct(row)' /\ Sold(row, row.tag)'
    BY <1>0, <1>1, <1>3, <1>4, <1>6, <2>1 DEF OwnProduct, Sold
  <2> QED BY <1>0, <1>1, <1>4, <1>6, <2>1, <2>2, ProviderAnswers
<1>7. CASE Failed(i) /\ UNCHANGED products
  <2>1. PICK row \in PriceRow : /\ Answered(i, row) /\ row.id = call[i].id /\ row.tag = call[i].seen.tag
                                /\ row.active = call[i].seen.active /\ row.product = n /\ row.status = "error"
    BY <1>0, <1>1, <1>7, AnswerRows
  <2>2. OwnProduct(row)' /\ Sold(row, row.tag)'
    BY <1>0, <1>1, <1>3, <1>7, <2>1 DEF OwnProduct, Sold
  <2> QED BY <1>1, <1>2, <1>7, <2>1, <2>2, ProviderAnswers
<1> QED BY <1>0, <1>5, <1>6, <1>7 DEF UpdateSubscriptionProduct, new

-----------------------------------------------------------------------------
\* A row is written whole: what is on the shelf and what is sold is what the request
\* makes of its own read, and other requests know, or are no longer current.
LEMMA RowWritten ==
  ASSUME PriceInv, NEW i \in Requests, HasRead(i),
         NEW row \in PriceRow, row.id = call[i].id, OwnProduct(row),
         NEW next \in PriceCall \union {Idle}, UpdatePlanPrice(i, row, next),
         next # Idle => next.pc = "read" /\ next.id = call[i].id /\ next.plan = call[i].plan,
         \/ hidden' = hidden
         \/ Present(call[i]) /\ hidden' \in {hidden \ {call[i].id}, hidden \union {call[i].id}},
         Present(call[i]) /\ call[i].id \notin spoiled'
           => Sold(row, row.tag) /\ (row.active => row.id \notin hidden'),
         UNCHANGED <<products, asked, replayed>>
  PROVE  PriceInv'
<1> USE DEF PriceInv
<1>0. PICK c : c = call[i]
  OBVIOUS
<1>1. c # Idle /\ c \in PriceCall /\ c.plan \in Plans /\ c.id \in Nat \ {0} /\ c.id <= Before + asked
  BY <1>0 DEF HasRead, PriceTypes, PriceCall, PriceIds
<1>2. \A p \in Plans : prices'[p] = IF Present(c) /\ p = c.plan THEN row ELSE prices[p]
  BY <1>0 DEF UpdatePlanPrice, PriceTypes
<1>3. /\ call'[i] = next
      /\ \A j \in Requests : j # i =>
           call'[j] = IF HasRead(j) /\ call[j].id = c.id /\ prices' # prices
                      THEN [call[j] EXCEPT !.stale = TRUE] ELSE call[j]
  BY <1>0 DEF UpdatePlanPrice
<1>4. ~HasRead(i)' /\ ~NewId(next)
  BY <1>3 DEF HasRead, NewId
<1>5. spoiled \subseteq spoiled'
  BY DEF UpdatePlanPrice, Outdated
<1>6. \A p \in Plans : prices'[p].id = prices[p].id /\ (prices'[p] # NoPrice <=> prices[p] # NoPrice)
  <2>1. Present(c) => prices[c.plan].id = c.id /\ prices[c.plan] # NoPrice /\ row # NoPrice
    BY <1>0, <1>1, PresentIs, PriceKinds DEF Present
  <2> QED BY <1>0, <1>2, <2>1
<1>7. \A j \in Requests : j # i =>
        \/ call'[j] = call[j]
        \/ /\ call[j] # Idle /\ call[j] \in PriceCall
           /\ call'[j] = [call[j] EXCEPT !.stale = TRUE]
           /\ call'[j] \in PriceCall /\ call'[j].stale
           /\ call'[j].id = call[j].id /\ call'[j].plan = call[j].plan /\ call'[j].pc = call[j].pc
  <2> SUFFICES ASSUME NEW j \in Requests, j # i, call'[j] # call[j]
               PROVE  /\ call[j] # Idle /\ call[j] \in PriceCall
                      /\ call'[j] = [call[j] EXCEPT !.stale = TRUE]
                      /\ call'[j] \in PriceCall /\ call'[j].stale
                      /\ call'[j].id = call[j].id /\ call'[j].plan = call[j].plan /\ call'[j].pc = call[j].pc
    OBVIOUS
  <2>1. HasRead(j) /\ call'[j] = [call[j] EXCEPT !.stale = TRUE]
    BY <1>3
  <2>2. call[j] # Idle /\ call[j] \in PriceCall
    BY <2>1 DEF HasRead, PriceTypes
  <2> QED BY <2>1, <2>2 DEF PriceCall
<1>8. PriceTypes'
  <2>1. prices' \in [Plans -> PriceRows]
    BY <1>0 DEF UpdatePlanPrice, PriceTypes, PriceRows
  <2>2. call' \in [Requests -> PriceCall \union {Idle}]
    <3>1. call' = [j \in Requests |-> call'[j]]
      BY DEF UpdatePlanPrice
    <3>2. \A j \in Requests : call'[j] \in PriceCall \union {Idle}
      BY <1>3, <1>7 DEF PriceTypes
    <3> QED BY <3>1, <3>2
  <2>3. (hidden \subseteq 1..(Before + asked))'
    BY <1>0, <1>1 DEF PriceTypes, Before
  <2>4. \A p \in Plans : (prices[p] # NoPrice => OwnProduct(prices[p]))'
    BY <1>2 DEF PriceTypes, OwnProduct
  <2>5. \A j \in Requests : (call[j] # Idle => CallFine(call[j]))'
    <3> SUFFICES ASSUME NEW j \in Requests, call'[j] # Idle PROVE CallFine(call[j])'
      OBVIOUS
    <3>1. CASE j = i
      BY <1>3, <3>1 DEF CallFine
    <3>2. CASE j # i /\ call'[j] = call[j]
      <4>1. CallFine(call[j])
        BY <3>2 DEF PriceTypes
      <4> QED BY <3>2, <4>1 DEF CallFine, OwnProduct
    <3>3. CASE j # i /\ call'[j] # call[j]
      <4>1. /\ call[j] # Idle /\ call[j] \in PriceCall /\ call'[j] = [call[j] EXCEPT !.stale = TRUE]
        BY <1>7, <3>3
      <4>2. /\ call'[j].pc = call[j].pc /\ call'[j].op = call[j].op /\ call'[j].tag = call[j].tag
            /\ call'[j].id = call[j].id /\ call'[j].seen = call[j].seen /\ call'[j].row = call[j].row
        BY <4>1 DEF PriceCall
      <4>3. CallFine(call[j])
        BY <4>1 DEF PriceTypes
      <4> QED BY <4>2, <4>3 DEF CallFine, OwnProduct
    <3> QED BY <3>1, <3>2, <3>3
  <2> QED BY <2>1, <2>2, <2>3, <2>4, <2>5 DEF PriceTypes
<1>9. \A j \in Requests : call'[j] # Idle =>
        /\ call[j] # Idle /\ call'[j].id = call[j].id /\ call'[j].plan = call[j].plan
        /\ NewId(call'[j]) => j # i /\ NewId(call[j])
  BY <1>0, <1>1, <1>3, <1>4, <1>7 DEF NewId
<1>10. PriceIds'
  <2>1. \A p \in Plans : (prices[p].id <= Before + asked)'
    BY <1>6 DEF PriceIds
  <2>2. \A p, q \in Plans : (prices[p] # NoPrice /\ prices[p].id = prices[q].id => p = q)'
    BY <1>6 DEF PriceIds
  <2>3. \A j \in Requests : (call[j] # Idle => call[j].id <= Before + asked)'
    BY <1>9 DEF PriceIds
  <2>4. \A j \in Requests, p \in Plans : (call[j] # Idle /\ prices[p].id = call[j].id => p = call[j].plan)'
    BY <1>6, <1>9 DEF PriceIds
  <2>5. \A j \in Requests : NewId(call'[j]) =>
          /\ call'[j].id \notin hidden'
          /\ \A p \in Plans : prices'[p].id # call'[j].id
          /\ \A k \in Requests : k # j /\ call'[k] # Idle => call'[k].id # call'[j].id
    <3> SUFFICES ASSUME NEW j \in Requests, NewId(call'[j])
                 PROVE  /\ call'[j].id \notin hidden'
                        /\ \A p \in Plans : prices'[p].id # call'[j].id
                        /\ \A k \in Requests : k # j /\ call'[k] # Idle => call'[k].id # call'[j].id
      OBVIOUS
    <3>1. j # i /\ NewId(call[j]) /\ call'[j].id = call[j].id
      BY <1>9 DEF NewId
    <3>2. call[j].id # c.id
      BY <1>0, <1>1, <3>1 DEF PriceIds
    <3>3. call[j].id \notin hidden /\ \A p \in Plans : prices[p].id # call[j].id
      BY <3>1 DEF PriceIds
    <3>4. \A k \in Requests : k # j /\ call[k] # Idle => call[k].id # call[j].id
      BY <3>1 DEF PriceIds
    <3>5. call[j].id \notin hidden'
      BY <1>0, <3>2, <3>3
    <3> QED BY <1>6, <1>9, <3>1, <3>3, <3>4, <3>5
  <2> QED BY <2>1, <2>2, <2>3, <2>4, <2>5 DEF PriceIds, NewId
<1>11. \A j \in Requests : Current(j)' =>
         /\ j # i /\ call'[j] = call[j] /\ Current(j)
         /\ prices'[call[j].plan] = prices[call[j].plan]
  <2> SUFFICES ASSUME NEW j \in Requests, Current(j)'
               PROVE  /\ j # i /\ call'[j] = call[j] /\ Current(j)
                      /\ prices'[call[j].plan] = prices[call[j].plan]
    OBVIOUS
  <2>1. j # i /\ ~call'[j].stale /\ HasRead(j)' /\ prices'[call'[j].plan].id = call'[j].id
    BY <1>4 DEF Current, Present
  <2>2. call'[j] = call[j] /\ HasRead(j)
    BY <1>7, <2>1 DEF HasRead
  <2>3. call[j] # Idle /\ call[j].plan \in Plans
    BY <2>2 DEF HasRead, PriceTypes, PriceCall
  <2>4. Present(call[j]) /\ Current(j)
    BY <1>6, <2>1, <2>2, <2>3 DEF Present, Current
  <2>5. prices'[call[j].plan] = prices[call[j].plan]
    <3>1. CASE prices' = prices
      BY <3>1
    <3>2. CASE prices' # prices /\ call[j].id # c.id
      BY <1>0, <1>2, <2>1, <2>2, <2>3, <3>2
    <3>3. CASE prices' # prices /\ call[j].id = c.id
      <4>1. call'[j] = [call[j] EXCEPT !.stale = TRUE]
        BY <1>3, <2>1, <2>2, <3>3
      <4>2. call[j] \in PriceCall
        BY <2>3 DEF PriceTypes
      <4>3. call'[j].stale
        BY <4>1, <4>2 DEF PriceCall
      <4> QED BY <2>1, <4>3
    <3> QED BY <3>1, <3>2, <3>3
  <2> QED BY <2>1, <2>2, <2>4, <2>5
<1>12. ReadInv'
  BY <1>11 DEF ReadInv
<1>13. AnswerInv'
  BY <1>5, <1>11 DEF AnswerInv, Sold
<1>14. ShownInv'
  <2> SUFFICES ASSUME NEW p \in Plans, prices'[p] # NoPrice, prices'[p].id \notin spoiled'
               PROVE  Sold(prices[p], prices[p].tag)' /\ (prices'[p].active => prices'[p].id \notin hidden')
    BY DEF ShownInv, Shown, Sold
  <2>1. CASE Present(c) /\ p = c.plan
    <3>1. prices'[p] = row /\ c.id \notin spoiled'
      BY <1>0, <1>2, <2>1
    <3>2. Sold(row, row.tag) /\ (row.active => row.id \notin hidden')
      BY <1>0, <2>1, <3>1
    <3> QED BY <3>1, <3>2 DEF Sold
  <2>2. CASE ~(Present(c) /\ p = c.plan)
    <3>1. prices'[p] = prices[p]
      BY <1>2, <2>2
    <3>2. Sold(prices[p], prices[p].tag) /\ (prices[p].active => prices[p].id \notin hidden)
      BY <1>5, <3>1 DEF ShownInv, Shown
    <3>3. Present(c) => prices[p].id # c.id
      BY <1>0, <1>1, <2>2 DEF PriceIds
    <3>4. prices[p].active => prices[p].id \notin hidden'
      BY <1>0, <3>2, <3>3
    <3> QED BY <3>1, <3>2, <3>4 DEF Sold
  <2> QED BY <2>1, <2>2
<1> QED BY <1>8, <1>10, <1>12, <1>13, <1>14

\* What the writer of a row knows of it when the write is not outdated.
LEMMA WriterKnows ==
  ASSUME PriceInv, NEW i \in Requests, HasRead(i), spoiled' = Outdated(call[i]),
         Present(call[i]), call[i].id \notin spoiled'
  PROVE  /\ Current(i) /\ call[i].id \notin spoiled /\ call[i].seen = prices[call[i].plan]
         /\ Sold(call[i].seen, call[i].seen.tag)
         /\ call[i].seen.active => call[i].id \notin hidden
<1> USE DEF PriceInv
<1>1. Current(i) /\ call[i].id \notin spoiled
  BY DEF Outdated, Current
<1>2. call[i].seen = prices[call[i].plan]
  BY <1>1 DEF ReadInv
<1>3. call[i] # Idle /\ call[i] \in PriceCall /\ call[i].plan \in Plans /\ call[i].id \in Nat \ {0}
  BY DEF HasRead, PriceTypes, PriceCall
<1>4. prices[call[i].plan] # NoPrice /\ prices[call[i].plan].id = call[i].id
  BY <1>3, PriceKinds DEF Present
<1>5. Shown(prices[call[i].plan])
  BY <1>3, <1>4 DEF ShownInv
<1> QED BY <1>1, <1>2, <1>4, <1>5 DEF Shown

LEMMA WriteRevisedStep ==
  ASSUME PriceInv, NEW i \in Requests, WriteRevised(i)
  PROVE  PriceInv'
<1> USE DEF PriceInv
<1>0. PICK c, old, row : c = call[i] /\ old = c.seen /\ row = Revised(old, c)
  OBVIOUS
<1>1. /\ c # Idle /\ c \in PriceCall /\ CallFine(c) /\ c.pc = "write" /\ HasRead(i)
      /\ UNCHANGED <<products, asked, replayed>>
  <2>1. call[i] # Idle /\ call[i].pc = "write"
    BY DEF WriteRevised, On, Idle
  <2> QED BY <1>0, <2>1 DEF PriceTypes, HasRead, WriteRevised
<1>2. old \in PriceRow /\ old.id = c.id /\ OwnProduct(old)
  BY <1>0, <1>1 DEF CallFine
<1>3. Amount(old, c) \in Tags /\ Active(old, c) \in BOOLEAN
  BY <1>1, <1>2 DEF Amount, Active, PriceCall, PriceRow
<1>4. /\ row \in PriceRow /\ row.id = c.id /\ row.product = old.product
      /\ row.tag = Amount(old, c) /\ row.active = Active(old, c)
      /\ row.status = "active" => old.status = "active" /\ row.tag = old.tag
  BY <1>0, <1>2, <1>3 DEF Revised, PriceRow
<1>5. OwnProduct(row)
  BY <1>2, <1>4 DEF OwnProduct
<1>6. PICK next : /\ UpdatePlanPrice(i, row, next)
                  /\ next = IF Present(c) /\ Amount(old, c) # old.tag THEN [c EXCEPT !.pc = "read"] ELSE Idle
  BY <1>0 DEF WriteRevised, Resumed
<1>7. /\ next \in PriceCall \union {Idle}
      /\ next # Idle => next.pc = "read" /\ next.id = call[i].id /\ next.plan = call[i].plan
  BY <1>0, <1>1, <1>6 DEF PriceCall
<1>8. hidden' = CASE Present(c) /\ c.active = TRUE  -> hidden \ {c.id}
                  [] Present(c) /\ c.active = FALSE -> hidden \union {c.id}
                  [] OTHER                          -> hidden
  BY <1>0 DEF WriteRevised
<1>9. \/ hidden' = hidden
      \/ Present(call[i]) /\ hidden' \in {hidden \ {call[i].id}, hidden \union {call[i].id}}
  BY <1>0, <1>8
<1>10. ASSUME Present(call[i]), call[i].id \notin spoiled'
       PROVE  Sold(row, row.tag) /\ (row.active => row.id \notin hidden')
  <2>1. Sold(old, old.tag) /\ (old.active => c.id \notin hidden)
    BY <1>0, <1>1, <1>6, <1>10, WriterKnows DEF UpdatePlanPrice
  <2>2. Sold(row, row.tag)
    BY <1>2, <1>4, <2>1 DEF Sold
  <2>3. c.active \in BOOLEAN \union {None} /\ None \notin BOOLEAN
    BY <1>1, PricingAssumption DEF PriceCall
  <2>4. row.active => row.id \notin hidden'
    <3>1. CASE c.active = TRUE
      BY <1>4, <1>8, <1>0, <1>10, <3>1
    <3>2. CASE c.active = FALSE
      BY <1>4, <2>3, <3>2 DEF Active
    <3>3. CASE c.active = None
      <4>1. hidden' = hidden
        BY <1>8, <2>3, <3>3
      <4>2. row.active = old.active
        BY <1>4, <3>3 DEF Active
      <4> QED BY <1>4, <2>1, <4>1, <4>2
    <3> QED BY <2>3, <3>1, <3>2, <3>3
  <2> QED BY <2>2, <2>4
<1> QED BY <1>0, <1>1, <1>4, <1>5, <1>6, <1>7, <1>9, <1>10, RowWritten

LEMMA StoreSyncStep ==
  ASSUME PriceInv, NEW i \in Requests, StoreSync(i)
  PROVE  PriceInv'
<1> USE DEF PriceInv
<1>0. PICK c, row : c = call[i] /\ row = c.row
  OBVIOUS
<1>1. /\ c # Idle /\ c \in PriceCall /\ CallFine(c) /\ c.pc = "store" /\ HasRead(i)
      /\ UpdatePlanPrice(i, row, Idle) /\ UNCHANGED <<products, asked, hidden, replayed>>
  BY <1>0 DEF StoreSync, Syncing, PriceTypes, HasRead
<1>2. /\ row \in PriceRow /\ row.id = c.id /\ OwnProduct(row)
      /\ row.tag = c.seen.tag /\ row.active = c.seen.active
  BY <1>0, <1>1 DEF CallFine
<1>3. ASSUME Present(call[i]), call[i].id \notin spoiled'
      PROVE  Sold(row, row.tag) /\ (row.active => row.id \notin hidden')
  <2>1. /\ Current(i) /\ call[i].id \notin spoiled
        /\ c.seen.active => c.id \notin hidden
    BY <1>0, <1>1, <1>3, WriterKnows DEF UpdatePlanPrice
  <2>2. Sold(row, row.tag)
    BY <1>0, <1>1, <2>1 DEF AnswerInv
  <2> QED BY <1>1, <1>2, <2>1, <2>2
<1> QED BY <1>0, <1>1, <1>2, <1>3, RowWritten

\* A plan that goes takes its price along, and a restart ends the requests.
LEMMA CascadeStep ==
  ASSUME PriceInv, Cascade
  PROVE  PriceInv'
<1> USE DEF PriceInv
<1>1. /\ prices' \in [Plans -> PriceRows]
      /\ \A p \in Plans : prices'[p] = prices[p] \/ prices'[p] = NoPrice
  BY DEF Cascade, PriceTypes, PriceRows
<1>2. /\ call' \in [Requests -> PriceCall \union {Idle}]
      /\ \A i \in Requests : call'[i] = call[i] \/ call'[i] = Idle
  BY DEF Cascade, PriceTypes
<1>3. UNCHANGED <<products, asked, hidden, spoiled, replayed>>
  BY DEF Cascade
<1>4. PriceTypes'
  <2>1. \A p \in Plans : (prices[p] # NoPrice => OwnProduct(prices[p]))'
    BY <1>1, <1>3 DEF PriceTypes, OwnProduct
  <2>2. \A i \in Requests : (call[i] # Idle => CallFine(call[i]))'
    BY <1>2, <1>3 DEF PriceTypes, CallFine, OwnProduct
  <2> QED BY <1>1, <1>2, <1>3, <2>1, <2>2 DEF PriceTypes
<1>5. PriceIds'
  <2>1. asked \in Nat /\ \A i \in Requests : call[i] # Idle => call[i].id # 0
    BY DEF PriceTypes, PriceCall
  <2>2. \A p \in Plans : (prices[p].id <= Before + asked)'
    BY <1>1, <1>3, <2>1, PriceKinds DEF PriceIds, Before
  <2>3. \A p, q \in Plans : (prices[p] # NoPrice /\ prices[p].id = prices[q].id => p = q)'
    <3>1. \A p \in Plans : prices[p] # NoPrice => prices[p].id # 0
      BY PriceKinds DEF PriceTypes, PriceRows
    <3> QED BY <1>1, <3>1, PriceKinds DEF PriceIds
  <2>4. \A i \in Requests : (call[i] # Idle => call[i].id <= Before + asked)'
    BY <1>2, <1>3 DEF PriceIds
  <2>5. \A i \in Requests, p \in Plans : (call[i] # Idle /\ prices[p].id = call[i].id => p = call[i].plan)'
    BY <1>1, <1>2, <2>1, PriceKinds DEF PriceIds
  <2>6. \A i \in Requests : NewId(call'[i]) =>
          /\ call'[i].id \notin hidden
          /\ \A p \in Plans : prices'[p].id # call'[i].id
          /\ \A j \in Requests : j # i /\ call'[j] # Idle => call'[j].id # call'[i].id
    BY <1>1, <1>2, <2>1, PriceKinds DEF PriceIds, NewId
  <2> QED BY <1>3, <2>2, <2>3, <2>4, <2>5, <2>6 DEF PriceIds, NewId
<1>6. \A i \in Requests : Current(i)' =>
        call'[i] = call[i] /\ Current(i) /\ prices'[call[i].plan] = prices[call[i].plan]
  <2> SUFFICES ASSUME NEW i \in Requests, Current(i)'
               PROVE  call'[i] = call[i] /\ Current(i) /\ prices'[call[i].plan] = prices[call[i].plan]
    OBVIOUS
  <2>1. call'[i] = call[i] /\ HasRead(i) /\ prices'[call[i].plan].id = call[i].id /\ ~call[i].stale
    BY <1>2 DEF Current, HasRead, Present
  <2>2. call[i].plan \in Plans /\ call[i].id # 0
    BY <2>1 DEF HasRead, PriceTypes, PriceCall
  <2>3. prices'[call[i].plan] = prices[call[i].plan]
    BY <1>1, <2>1, <2>2, PriceKinds
  <2> QED BY <2>1, <2>3 DEF Current, Present
<1>7. ReadInv'
  BY <1>6 DEF ReadInv
<1>8. AnswerInv'
  BY <1>3, <1>6 DEF AnswerInv, Sold
<1>9. ShownInv'
  BY <1>1, <1>3 DEF ShownInv, Shown, Sold
<1> QED BY <1>4, <1>5, <1>7, <1>8, <1>9

LEMMA PriceStep ==
  ASSUME PriceInv, [PricingNext]_<<vars, priceVars>>
  PROVE  PriceInv'
<1>1. CASE Next /\ Cascade
  BY <1>1, CascadeStep
<1>2. ASSUME NEW i \in Requests, Priced(i) PROVE PriceInv'
  <2>1. ASSUME NEW p \in Plans, SyncPrice(i, p) PROVE PriceInv'
    <3>1. prices[p].tag \in Tags
      BY <2>1 DEF SyncPrice, PriceInv, PriceTypes, PriceRows, PriceRow
    <3> QED BY <2>1, <3>1, RequestStep DEF SyncPrice
  <2>2. ASSUME NEW p \in Plans, NEW t \in Tags, CreatePrice(i, p, t) PROVE PriceInv'
    BY <2>2, RequestStep DEF CreatePrice
  <2>3. ASSUME NEW p \in Plans, NEW t \in Tags \union {None}, NEW b \in BOOLEAN \union {None}, UpdatePrice(i, p, t, b)
        PROVE  PriceInv'
    BY <2>3, RequestStep DEF UpdatePrice
  <2> QED BY <1>2, <2>1, <2>2, <2>3, CheckPlanStep, CreatePlanPriceStep, GetOldPriceStep, WriteRevisedStep,
             GetPlanPriceByIDStep, CreateSubscriptionProductStep, UpdateSubscriptionProductStep, StoreSyncStep
          DEF Priced
<1>3. CASE UNCHANGED <<vars, priceVars>>
  <2>1. UNCHANGED priceVars
    BY <1>3
  <2>2. PriceTypes'
    BY <2>1 DEF priceVars, PriceInv, PriceTypes, CallFine, OwnProduct
  <2>3. PriceIds'
    BY <2>1 DEF priceVars, PriceInv, PriceIds, NewId
  <2>4. ReadInv' /\ AnswerInv'
    BY <2>1 DEF priceVars, PriceInv, ReadInv, AnswerInv, HasRead, Present, Shown, Sold, Current
  <2>5. ShownInv'
    BY <2>1 DEF priceVars, PriceInv, ShownInv, Shown, Sold, Current
  <2> QED BY <2>2, <2>3, <2>4, <2>5 DEF PriceInv
<1> QED BY <1>1, <1>2, <1>3 DEF PricingNext

\* A price that is for sale has its product, and sells what it shows, unless a request
\* wrote what it had read before another wrote, or got another attempt's product
\* (billing_service.go:236, 258 and 281), for any number of requests.
THEOREM PricesAreExplained == PricingSpec => []PricesExplained
<1>1. PriceInv => PricesExplained
  <2> SUFFICES ASSUME PriceInv, NEW p \in Plans, ForSale(p)
               PROVE  /\ prices[p].product \in DOMAIN products
                      /\ \/ products[prices[p].product].tag = prices[p].tag
                         \/ prices[p].id \in spoiled \union replayed
                      /\ prices[p].id \notin hidden \/ prices[p].id \in spoiled
    BY DEF PricesExplained
  <2>1. prices[p] # NoPrice /\ prices[p].active /\ prices[p].status = "active"
    BY DEF ForSale
  <2>2. OwnProduct(prices[p]) /\ Shown(prices[p])
    BY <2>1 DEF PriceInv, PriceTypes, ShownInv
  <2> QED BY <2>1, <2>2 DEF OwnProduct, Shown, Sold
<1> QED BY <1>1, PriceInit, PriceStep, PTL DEF PricingSpec

\* What holds of accounts, workspaces and plans holds whatever becomes of the prices.
THEOREM PricesApart == PricingSpec => Spec
<1>1. PricingInit => Init
  BY DEF PricingInit
<1>2. [PricingNext]_<<vars, priceVars>> => [Next]_vars
  BY DEF PricingNext
<1> QED BY <1>1, <1>2, PTL DEF PricingSpec, Spec
=============================================================================
