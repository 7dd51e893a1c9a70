------------------------------- MODULE Mailbox -------------------------------
(***************************************************************************)
(* The mail accounts, groups and aliases of one tenant, and the requests   *)
(* that change them: service/account_service.go, account_import.go,        *)
(* account_export.go, group_service.go and DeleteInvalid of                *)
(* account_health.go, over the statements of mail_accounts.sql,            *)
(* mail_groups.sql and mail_aliases.sql.                                   *)
(*                                                                         *)
(* A request is a sequence of statements; a transaction is one step, as on *)
(* the single connection of SQLite.  Between two statements of a request   *)
(* any statement of another one may run: the checks that come before an    *)
(* insert are as old as the request.                                       *)
(*                                                                         *)
(* Accounts and e-mail addresses are numbers, for the sake of the orders   *)
(* lists are sorted by.  Credentials are the business of Credentials.tla.  *)
(***************************************************************************)
EXTENDS Integers, FiniteSets, Sequences, SequencesExt

CONSTANTS
    Clients,       \* requests that may be under way at the same time
    Ids,           \* account ids: uuids, in no order that means anything
    Emails,        \* normalised addresses
    Groups,        \* group ids beside the default group
    System,        \* the default group of the tenant
    Preloaded,     \* accounts the tenant has to begin with: ids 1..Preloaded
    MaxAccounts,   \* plans.max_accounts: a number, or Unlimited
    MaxGroups,     \* plans.max_groups, likewise
    BatchSize,     \* importBatchSize
    PageSize,      \* MaxAccountPageSize
    Sorts,         \* the orders a list may be asked for
    AliasPool,     \* the addresses requests use as aliases
    Switches,      \* the statuses a request may set
    Batches,       \* the sets of ids a batch request may name
    Contents,      \* the texts an import may be given
    Menu,          \* the requests of an instance
    MaxOps,        \* bound on the requests of a behaviour
    MaxChecks      \* bound on the health checks of a behaviour

Statuses == {"active", "disabled", "banned"}
Healths  == {"unknown", "ok", "invalid", "error"}
SortKeys == {"sort_order/asc", "sort_order/desc", "email/asc", "email/desc", "created_at/asc",
             "created_at/desc", "last_refresh_at/asc", "last_refresh_at/desc"}
Unlimited == -1

\* A tenant has finitely many groups, and a request names finitely many accounts.
ASSUME MailboxAssumption ==
    /\ Ids \subseteq Nat /\ Emails \subseteq Nat /\ 0 \notin Emails
    /\ System \notin Groups /\ IsFiniteSet(Groups)
    /\ {a \in Ids : a <= Preloaded} \subseteq Emails
    /\ AliasPool \subseteq Emails /\ Switches \subseteq Statuses
    /\ Contents \subseteq Seq(Emails \union {0})
    /\ Sorts \subseteq SortKeys
    /\ \A S \in Batches : S \subseteq Ids /\ IsFiniteSet(S)
    /\ {MaxAccounts, MaxGroups} \subseteq Nat \union {Unlimited}
    /\ {Preloaded, BatchSize, PageSize, MaxOps, MaxChecks} \subseteq Nat
    /\ BatchSize > 0 /\ PageSize > 0

VARIABLES
    rows,      \* mail_accounts
    groups,    \* mail_groups
    aliases,   \* mail_account_aliases: a set of [alias, account]
    req,       \* what each client's request has read, and where it is
    ops,       \* requests begun
    born, gone, stirred   \* history: inserts, deletes, other writes to rows

vars == <<rows, groups, aliases, req, ops, born, gone, stirred>>

NoRow    == [state |-> "none"]
Idle     == [op |-> "idle"]

(***************************************************************************)
(* The statements.                                                         *)
(***************************************************************************)
Live == {a \in Ids : rows[a].state = "live"}
Used == {a \in Ids : rows[a].state # "none"}

GetMailAccount(a)        == rows[a].state = "live"
GetMailAccountByEmail(e) == {a \in Live : rows[a].email = e}
CountMailAccounts        == Cardinality(Live)
CountMailAccountsByHealth(G, h) == Cardinality({a \in Live : rows[a].group \in G /\ rows[a].health = h})
CountMailGroups          == Cardinality(groups)
CountConflictingAliases(a, als) == Cardinality({x \in aliases : x.account # a /\ x.alias \in als})

\* What an INSERT or UPDATE of mail_accounts must not break: the foreign key
\* on the group and the unique index on the address of live accounts.
RowAllowed(r, a, new) == /\ new.group \in groups
                         /\ \A b \in Ids \ {a} : r[b].state = "live" => r[b].email # new.email

\* Mutant: validateCreateAccount does not default the status.
NewRow_noStatus(e, g) == [state |-> "live", email |-> e, group |-> g, status |-> "",
                          health |-> "unknown", born |-> born, seen |-> 0]

NewRow(e, g) == [state |-> "live", email |-> e, group |-> g, status |-> "active",
                 health |-> "unknown", born |-> born, seen |-> 0]

CreateMailAccount(r, a, new) == [r EXCEPT ![a] = new]

\* UPDATE ... WHERE deleted_at IS NULL
Write(r, S, change(_)) ==
    [a \in Ids |-> IF a \in S /\ r[a].state = "live" THEN change(r[a]) ELSE r[a]]

UpdateMailAccount(r, a, g, st) == Write(r, {a}, LAMBDA x : [x EXCEPT !.group = g, !.status = st])
ResetMailAccountHealth(r, a)   == Write(r, {a}, LAMBDA x : [x EXCEPT !.health = "unknown"])
BatchMoveMailAccounts(S, g)    == Write(rows, S, LAMBDA x : [x EXCEPT !.group = g])
BatchUpdateMailAccountStatus(S, st) == Write(rows, S, LAMBDA x : [x EXCEPT !.status = st])
MoveAccountsToGroup(from, to)  == Write(rows, Ids, LAMBDA x : IF x.group = from THEN [x EXCEPT !.group = to] ELSE x)
UpdateMailAccountAccessResult(a, h) ==
    Write(rows, {a}, LAMBDA x : [x EXCEPT !.health = h, !.seen = stirred + 1])

\* The row stays, with its group and address and without its secrets.
SoftDelete(x) == [x EXCEPT !.state = "deleted"]
SoftDeleteMailAccount(a)             == Write(rows, {a}, SoftDelete)
BatchSoftDeleteMailAccounts(S)       == Write(rows, S, SoftDelete)
SoftDeleteInvalidMailAccounts(G) ==
    Write(rows, {a \in Live : rows[a].group \in G /\ rows[a].health = "invalid"}, SoftDelete)

\* DELETE FROM mail_groups: refused while any row, deleted or not, refers to it.
DeleteMailGroup(r, g) == \A a \in Ids : r[a].state # "none" => r[a].group # g

(***************************************************************************)
(* Lists: one statement for each sort order and direction, ties by id.     *)
(***************************************************************************)
Rank(x, y, a, b) == x < y \/ (x = y /\ a < b)

BySortOrderAsc(a, b)      == Rank(0, 0, a, b)
BySortOrderDesc(a, b)     == Rank(0, 0, a, b)
ByEmailAsc(a, b)          == Rank(rows[a].email, rows[b].email, a, b)
ByEmailDesc(a, b)         == Rank(rows[b].email, rows[a].email, a, b)
ByCreatedAtAsc(a, b)      == Rank(rows[a].born, rows[b].born, a, b)
ByCreatedAtDesc(a, b)     == Rank(rows[b].born, rows[a].born, a, b)
ByLastRefreshAtAsc(a, b)  == Rank(rows[a].seen, rows[b].seen, a, b)
ByLastRefreshAtDesc(a, b) == Rank(rows[b].seen, rows[a].seen, a, b)

\* The ORDER BY of a sort key.
Sorted(key, a, b) ==
    CASE key = "sort_order/asc"       -> BySortOrderAsc(a, b)
      [] key = "sort_order/desc"      -> BySortOrderDesc(a, b)
      [] key = "email/asc"            -> ByEmailAsc(a, b)
      [] key = "email/desc"           -> ByEmailDesc(a, b)
      [] key = "created_at/asc"       -> ByCreatedAtAsc(a, b)
      [] key = "created_at/desc"      -> ByCreatedAtDesc(a, b)
      [] key = "last_refresh_at/asc"  -> ByLastRefreshAtAsc(a, b)
      [] key = "last_refresh_at/desc" -> ByLastRefreshAtDesc(a, b)

\* Mutant: pages numbered from zero.
Offset_zero(page) == page * PageSize

Offset(page) == (page - 1) * PageSize

\* LIMIT and OFFSET: the rows of a filter that so many others come before.
InGroups(G) == {a \in Live : rows[a].group \in G}
Before(key, G, a) == Cardinality({b \in InGroups(G) : Sorted(key, b, a)})

ListMailAccountsPage(key, G, page) ==
    LET left == Cardinality(InGroups(G)) - Offset(page)
    IN  [i \in 1..(IF left < PageSize THEN left ELSE PageSize) |->
            CHOOSE a \in InGroups(G) : Before(key, G, a) = Offset(page) + i - 1]

(***************************************************************************)
(* Quota: limits on counts, judged on what was counted before.             *)
(***************************************************************************)
\* Mutant: the limit is judged before the addition.
CheckCount_before(limit, current, n) == limit # Unlimited => current <= limit

CheckCount(limit, current, n) == limit # Unlimited => current + n <= limit
Allowance(limit, current, want) ==
    IF limit = Unlimited THEN want
    ELSE IF limit < current THEN 0 ELSE IF limit - current > want THEN want ELSE limit - current

(***************************************************************************)
(* Requests.  Begin and End are the frame of each one.                     *)
(***************************************************************************)
Init == /\ rows = [a \in Ids |-> IF a <= Preloaded
                                 THEN [state |-> "live", email |-> a, group |-> System, status |-> "active",
                                       health |-> "unknown", born |-> 0, seen |-> 0]
                                 ELSE NoRow]
        /\ groups = {System} \union Groups
        /\ aliases = {}
        /\ req = [c \in Clients |-> Idle]
        /\ ops = 0 /\ born = 0 /\ gone = 0 /\ stirred = 0

Begin(c, op, r) == /\ op \in Menu /\ ops < MaxOps /\ req[c] = Idle
                   /\ ops' = ops + 1
                   /\ req' = [req EXCEPT ![c] = r]
At(c, op, pc)   == req[c].op = op /\ req[c].pc = pc
Goto(c, r)      == req' = [req EXCEPT ![c] = r] /\ UNCHANGED ops
End(c)          == Goto(c, Idle)
Quiet           == UNCHANGED <<rows, groups, aliases, born, gone, stirred>>

\* A statement that inserts n rows, deletes d rows, or writes in others.
Tables(r, n, d, w) == /\ rows' = r
                      /\ born' = born + n
                      /\ gone' = gone + d
                      /\ stirred' = stirred + w
                      /\ UNCHANGED groups

\* resolveGroup: the default group unless the request names one.
ResolveGroup(g) == g \in groups

\* uuid.NewString(): an id no row has, nor any row about to be written.
Planned(c) == IF req[c].op = "import" THEN {p.id : p \in ToSet(req[c].batch)} ELSE {}
Fresh      == Ids \ (Used \union UNION {Planned(c) : c \in Clients})

(***************************************************************************)
(* Create: five statements before the transaction.                         *)
(***************************************************************************)
CreateBegin(c, e, g, al) ==
    /\ ResolveGroup(g)
    /\ Begin(c, "create", [op |-> "create", pc |-> "quota", email |-> e, group |-> g, alias |-> al,
                           at |-> 0, mine |-> 0])
    /\ Quiet

EnsureAccountQuota(c) ==
    /\ At(c, "create", "quota")
    /\ IF CheckCount(MaxAccounts, CountMailAccounts, 1)
       THEN Goto(c, [req[c] EXCEPT !.pc = "email", !.at = born])
       ELSE End(c)
    /\ Quiet

EnsureEmailAvailable(c) ==
    /\ At(c, "create", "email")
    /\ IF GetMailAccountByEmail(req[c].email) = {} THEN Goto(c, [req[c] EXCEPT !.pc = "alias"]) ELSE End(c)
    /\ Quiet

\* An alias is not the address of its own or of another account, nor an alias
\* of another account.  (al is a set: at most one alias in the instances.)
AliasesFree(a, own, al) == /\ own \notin al
                           /\ \A x \in al : GetMailAccountByEmail(x) \subseteq {a}
                           /\ CountConflictingAliases(a, al) = 0

ValidateAliases(c) ==
    /\ req[c].op \in {"create", "update"} /\ req[c].pc = "alias"
    /\ IF AliasesFree(IF req[c].op = "update" THEN req[c].id ELSE -1, req[c].email, req[c].alias)
       THEN Goto(c, [req[c] EXCEPT !.pc = "tx"]) ELSE End(c)
    /\ Quiet

\* UNIQUE (tenant_id, alias_normalized)
WriteAliases(a, al) == {x \in aliases : x.account # a} \union {[alias |-> x, account |-> a] : x \in al}
AliasesAllowed(a, al) == \A x \in aliases : x.account # a => x.alias \notin al

CreateTx(c) ==
    /\ At(c, "create", "tx")
    /\ \E a \in Fresh :
          LET new == NewRow(req[c].email, req[c].group) IN
          IF RowAllowed(rows, a, new) /\ AliasesAllowed(a, req[c].alias)
          THEN /\ Tables(CreateMailAccount(rows, a, new), 1, 0, 0)
               /\ aliases' = WriteAliases(a, req[c].alias)
          ELSE Quiet
    /\ End(c)

(***************************************************************************)
(* Update: the row is read, changed in memory, and written as a whole.  A  *)
(* field that the request leaves out is written back as it was read.       *)
(***************************************************************************)
\* What decides whether one can log in: credentials that are given (inputs), or
\* a status that is not the one that was read.
LoginInputsChanged(inputs, before, after) == inputs \/ before # after

\* A request that gives no aliases (given is FALSE) has none to validate.
UpdateBegin(c, a, g, st, inputs, given, al) ==
    /\ GetMailAccount(a) /\ ResolveGroup(g) /\ (al # {} => given)
    /\ Begin(c, "update", [op |-> "update", pc |-> IF given THEN "alias" ELSE "tx",
                           id |-> a, email |-> rows[a].email, group |-> g, status |-> st,
                           changed |-> LoginInputsChanged(inputs, rows[a].status, st),
                           given |-> given, alias |-> al])
    /\ Quiet

UpdateTx(c) ==
    /\ At(c, "update", "tx")
    /\ LET r == req[c]
           saved == UpdateMailAccount(rows, r.id, r.group, r.status) IN
       IF /\ GetMailAccount(r.id) /\ r.group \in groups
          /\ r.given => AliasesAllowed(r.id, r.alias)
       THEN /\ Tables(IF r.changed THEN ResetMailAccountHealth(saved, r.id) ELSE saved, 0, 0, 1)
            /\ aliases' = IF r.given THEN WriteAliases(r.id, r.alias) ELSE aliases
       ELSE Quiet
    /\ End(c)

(***************************************************************************)
(* Import: lines are read one by one and written in batches.  A line is an *)
(* address, or 0 for a line that ParseLine refuses.                        *)
(***************************************************************************)
NoReport == [total |-> 0, created |-> 0, updated |-> 0, skipped |-> 0, failed |-> 0]

ImportBegin(c, lines, g, update) ==
    /\ ResolveGroup(g)
    /\ Begin(c, "import", [op |-> "import", pc |-> "count", lines |-> lines, group |-> g, update |-> update,
                           batch |-> <<>>, seen |-> {}, used |-> 0, report |-> NoReport,
                           at |-> 0, mine |-> 0, wrote |-> 0])
    /\ Quiet

PrepareImport(c) ==
    /\ At(c, "import", "count")
    /\ Goto(c, [req[c] EXCEPT !.pc = "lines", !.used = CountMailAccounts, !.at = born])
    /\ Quiet

Count(r, field) == [r.report EXCEPT !.total = @ + 1, ![field] = @ + 1]

\* What becomes of the next line: refused, or planned as an insert or an update.
PlanLine(c) ==
    LET r == req[c]
        e == Head(r.lines)
        known == GetMailAccountByEmail(e)
        next == [r EXCEPT !.lines = Tail(@), !.seen = @ \union {e}]
        Plan(id, new) == [next EXCEPT !.batch = Append(@, [id |-> id, email |-> e, new |-> new,
                                          group |-> IF new THEN r.group ELSE rows[id].group]),
                                      !.pc = IF Len(r.batch) + 1 >= BatchSize THEN "flush" ELSE "lines"]
    IN /\ At(c, "import", "lines") /\ r.lines # <<>>
       /\ \/ /\ e = 0
             /\ Goto(c, [r EXCEPT !.lines = Tail(@), !.report = Count(r, "failed")])
          \/ /\ e # 0
             /\ \/ e \in r.seen
                \/ e \notin r.seen /\ known # {} /\ ~r.update
                \/ e \notin r.seen /\ known = {} /\ Allowance(MaxAccounts, r.used, 1) = 0
             /\ Goto(c, [next EXCEPT !.report = Count(r, "skipped")])
          \/ /\ e # 0 /\ e \notin r.seen /\ known # {} /\ r.update
             /\ \E a \in known : Goto(c, [Plan(a, FALSE) EXCEPT !.report = Count(r, "updated")])
          \/ /\ e # 0 /\ e \notin r.seen /\ known = {} /\ Allowance(MaxAccounts, r.used, 1) > 0
             /\ \E a \in Fresh : Goto(c, [Plan(a, TRUE) EXCEPT !.report = Count(r, "created"), !.used = @ + 1])
       /\ Quiet

\* Mutant: a failed batch is taken for new accounts only.
CountNew_all(batch) == Len(batch)

Inserts(batch)  == {i \in DOMAIN batch : batch[i].new}
CountNew(batch) == Cardinality(Inserts(batch))

\* The rows after a batch, in which no account is twice; the transaction fails as
\* a whole when one of its statements does: an address taken, an account or a
\* group gone since.
PersistImported(p) ==
    IF p.new THEN NewRow(p.email, p.group)
    ELSE [rows[p.id] EXCEPT !.group = p.group, !.status = "active", !.health = "unknown"]
Persisted(batch) ==
    [a \in Ids |-> IF \E i \in DOMAIN batch : batch[i].id = a
                   THEN PersistImported(batch[CHOOSE i \in DOMAIN batch : batch[i].id = a])
                   ELSE rows[a]]
BatchAllowed(batch) ==
    \A i \in DOMAIN batch :
        LET p == batch[i] IN
        /\ p.group \in groups
        /\ IF p.new THEN \A b \in Live : rows[b].email # p.email ELSE GetMailAccount(p.id)

Flush(c) ==
    LET r == req[c]
        n == CountNew(r.batch)
        inserts == Cardinality(Inserts(r.batch))
        updates == Len(r.batch) - inserts
        next == [r EXCEPT !.pc = "lines", !.batch = <<>>]
    IN /\ \/ At(c, "import", "flush")
          \/ At(c, "import", "lines") /\ r.lines = <<>> /\ r.batch # <<>>
       /\ IF BatchAllowed(r.batch)
          THEN /\ Tables(Persisted(r.batch), inserts, 0, updates)
               /\ Goto(c, [next EXCEPT !.mine = @ + inserts, !.wrote = @ + updates])
          ELSE /\ Goto(c, [next EXCEPT !.report.failed = @ + Len(r.batch),
                                       !.report.created = @ - n,
                                       !.report.updated = @ - (Len(r.batch) - n)])
               /\ UNCHANGED <<rows, groups, born, gone, stirred>>
       /\ UNCHANGED aliases

Imported(c) == At(c, "import", "lines") /\ req[c].lines = <<>> /\ req[c].batch = <<>>
ImportEnd(c) == Imported(c) /\ End(c) /\ Quiet

(***************************************************************************)
(* Single statements.                                                      *)
(***************************************************************************)
Once(c, op) == op \in Menu /\ ops < MaxOps /\ req[c] = Idle /\ ops' = ops + 1 /\ UNCHANGED req

Delete(c, a) ==
    /\ Once(c, "delete") /\ GetMailAccount(a)
    /\ Tables(SoftDeleteMailAccount(a), 0, 1, 0) /\ UNCHANGED aliases

BatchDelete(c, S) ==
    /\ Once(c, "batch")
    /\ Tables(BatchSoftDeleteMailAccounts(S), 0, Cardinality(S \intersect Live), 0) /\ UNCHANGED aliases

BatchStatus(c, S, st) ==
    /\ Once(c, "batch")
    /\ Tables(BatchUpdateMailAccountStatus(S, st), 0, 0, Cardinality(S \intersect Live)) /\ UNCHANGED aliases

BatchMoveBegin(c, S, g) ==
    /\ ResolveGroup(g)
    /\ Begin(c, "move", [op |-> "move", pc |-> "tx", ids |-> S, group |-> g])
    /\ Quiet

BatchMove(c) ==
    /\ At(c, "move", "tx")
    /\ IF req[c].group \in groups
       THEN /\ Tables(BatchMoveMailAccounts(req[c].ids, req[c].group), 0, 0, Cardinality(req[c].ids))
            /\ UNCHANGED aliases
       ELSE Quiet
    /\ End(c)

\* A call of the mail service, or a health check, writes what it found.
Checked(a, h) ==
    /\ GetMailAccount(a) /\ stirred < MaxChecks
    /\ Tables(UpdateMailAccountAccessResult(a, h), 0, 0, 1)
    /\ UNCHANGED <<aliases, req, ops>>

(***************************************************************************)
(* DeleteInvalid: the user has seen a number; it is compared with another  *)
(* count; then whatever is invalid is deleted.                             *)
(***************************************************************************)
ConfirmInvalid(c, G) ==
    /\ Begin(c, "invalid", [op |-> "invalid", pc |-> "stats", filter |-> G,
                            expected |-> CountMailAccountsByHealth(G, "invalid"), at |-> 0])
    /\ Quiet

CheckExpected(c) ==
    /\ At(c, "invalid", "stats")
    /\ LET n == CountMailAccountsByHealth(req[c].filter, "invalid")
       IN IF n > 0 /\ req[c].expected = n
          THEN Goto(c, [req[c] EXCEPT !.pc = "delete", !.at = stirred])
          ELSE End(c)
    /\ Quiet

DeleteInvalid(c) ==
    /\ At(c, "invalid", "delete")
    /\ Tables(SoftDeleteInvalidMailAccounts(req[c].filter), 0,
              CountMailAccountsByHealth(req[c].filter, "invalid"), 0)
    /\ UNCHANGED aliases
    /\ End(c)

(***************************************************************************)
(* Groups.                                                                 *)
(***************************************************************************)
GroupCreateBegin(c) ==
    /\ CheckCount(MaxGroups, CountMailGroups, 1)
    /\ Begin(c, "group", [op |-> "group", pc |-> "insert", others |-> 0])
    /\ Quiet

GroupCreate(c, g) ==
    /\ At(c, "group", "insert") /\ g \notin groups
    /\ \A a \in Used : rows[a].group # g
    /\ groups' = groups \union {g}
    /\ req' = [d \in Clients |-> IF d = c THEN Idle
                                 ELSE IF At(d, "group", "insert") THEN [req[d] EXCEPT !.others = @ + 1] ELSE req[d]]
    /\ UNCHANGED <<rows, aliases, ops, born, gone, stirred>>

GroupDeleteBegin(c, g) ==
    /\ g \in groups /\ g # System
    /\ Begin(c, "ungroup", [op |-> "ungroup", pc |-> "tx", group |-> g])
    /\ Quiet

GroupDelete(c) ==
    /\ At(c, "ungroup", "tx")
    /\ LET g == req[c].group
           r == MoveAccountsToGroup(g, System)
       IN IF g \in groups /\ DeleteMailGroup(r, g)
          THEN /\ groups' = groups \ {g}
               /\ rows' = r
               /\ stirred' = stirred + Cardinality({a \in Live : rows[a].group = g})
               /\ End(c)
               /\ UNCHANGED <<aliases, born, gone>>
          ELSE /\ Goto(c, [req[c] EXCEPT !.pc = IF g \in groups THEN "refused" ELSE "missing"])
               /\ Quiet

GroupDeleteEnd(c) == /\ At(c, "ungroup", "refused") \/ At(c, "ungroup", "missing")
                     /\ End(c) /\ Quiet

(***************************************************************************)
(* A list that is read page by page: collectAccounts, or a user who pages. *)
(***************************************************************************)
CollectBegin(c, key, G) ==
    /\ Begin(c, "list", [op |-> "list", pc |-> "page", key |-> key, filter |-> G, page |-> 1, out |-> <<>>,
                         here |-> InGroups(G),
                         born |-> born, gone |-> gone, stirred |-> stirred])
    /\ Quiet

CollectPage(c) ==
    /\ At(c, "list", "page")
    /\ LET batch == ListMailAccountsPage(req[c].key, req[c].filter, req[c].page)
       IN Goto(c, [req[c] EXCEPT !.out = @ \o batch,
                                 !.page = @ + 1,
                                 !.pc = IF Len(batch) < PageSize THEN "done" ELSE "page"])
    /\ Quiet

CollectEnd(c) == At(c, "list", "done") /\ End(c) /\ Quiet

(***************************************************************************)
(* The specification.                                                      *)
(***************************************************************************)
AllGroups == Groups \union {System}
Filters   == {AllGroups} \union {{g} : g \in AllGroups}
AliasSets == {{}} \union {{e} : e \in AliasPool}

Request(c) ==
    \/ \E e \in Emails, g \in AllGroups, al \in AliasSets : CreateBegin(c, e, g, al)
    \/ EnsureAccountQuota(c) \/ EnsureEmailAvailable(c) \/ ValidateAliases(c) \/ CreateTx(c)
    \/ \E a \in Live, g \in AllGroups, inputs, given \in BOOLEAN, al \in AliasSets :
          \E st \in Switches \union {rows[a].status} : UpdateBegin(c, a, g, st, inputs, given, al)
    \/ UpdateTx(c)
    \/ \E lines \in Contents, g \in AllGroups, update \in BOOLEAN : ImportBegin(c, lines, g, update)
    \/ PrepareImport(c) \/ PlanLine(c) \/ Flush(c) \/ ImportEnd(c)
    \/ \E a \in Ids : Delete(c, a)
    \/ \E S \in Batches : BatchDelete(c, S)
    \/ \E S \in Batches, st \in Switches : BatchStatus(c, S, st)
    \/ \E S \in Batches, g \in AllGroups : BatchMoveBegin(c, S, g)
    \/ BatchMove(c)
    \/ \E G \in Filters : ConfirmInvalid(c, G)
    \/ CheckExpected(c) \/ DeleteInvalid(c)
    \/ GroupCreateBegin(c)
    \/ \E g \in Groups : GroupCreate(c, g)
    \/ \E g \in Groups : GroupDeleteBegin(c, g)
    \/ GroupDelete(c) \/ GroupDeleteEnd(c)
    \/ \E key \in Sorts, G \in Filters : CollectBegin(c, key, G)
    \/ CollectPage(c) \/ CollectEnd(c)

Next == \/ \E c \in Clients : Request(c)
        \/ \E a \in Ids, h \in {"ok", "invalid"} : Checked(a, h)

Spec == Init /\ [][Next]_vars

(***************************************************************************)
(* Properties.                                                             *)
(***************************************************************************)
Row == [state : {"live", "deleted"}, email : Emails, group : AllGroups, status : Statuses,
        health : Healths, born : Nat, seen : Nat]

\* The tables hold what their columns allow; aliases belong to rows.
TypeOK == /\ rows \in [Ids -> {NoRow} \union Row]
          /\ groups \subseteq AllGroups /\ System \in groups
          /\ \A x \in aliases : x.alias \in Emails /\ x.account \in Used
          /\ \A c \in Clients : req[c] = Idle \/ req[c].op \in Menu
          /\ {ops, born, gone, stirred} \subseteq Nat

\* ensureAccountQuota, planLine and Create of a group judge a limit on a count
\* that is older than their insert.  So the limit can be passed, but only by
\* what other requests inserted in between ...
InsertsExplained ==
    \A c \in Clients :
        (born' > born /\ req'[c] # req[c] /\ MaxAccounts # Unlimited) =>
            Cardinality(Live') <= MaxAccounts + (born' - req[c].at) - (req[c].mine + born' - born)
GroupsExplained ==
    \A c \in Clients :
        (groups' # groups /\ groups \subseteq groups' /\ req'[c] = Idle /\ req[c] # Idle
         /\ MaxGroups # Unlimited) =>
            Cardinality(groups') <= MaxGroups + req[c].others

\* ... and DeleteInvalid deletes more accounts than the user confirmed only by
\* what was written to the rows between its count and its delete.
SurplusExplained ==
    \A c \in Clients :
        (At(c, "invalid", "delete") /\ req'[c] = Idle) =>
            gone' - gone <= req[c].expected + (stirred - req[c].at)

StaleChecksExplained == [][InsertsExplained /\ GroupsExplained /\ SurplusExplained]_vars

\* The report of an import is true whatever batch of it failed: each line is
\* counted once, and created and updated are the rows it really wrote.
ImportAddsUp ==
    \A c \in Clients : Imported(c) =>
        LET r == req[c].report IN
        /\ r.total = r.created + r.updated + r.skipped + r.failed
        /\ r.created = req[c].mine
        /\ r.updated = req[c].wrote

\* A list read by OFFSET, in any of its orders: an account that was there all
\* along is missing only if another one was deleted, and listed twice only if
\* another one was inserted, while it was read (or a write moved it).
ListExplained ==
    \A c \in Clients : At(c, "list", "done") =>
        LET r == req[c] IN
        r.stirred = stirred =>
            /\ r.gone = gone => r.here \subseteq ToSet(r.out)
            /\ r.born = born => IsInjective(r.out)
            /\ r.gone = gone /\ r.born = born => ToSet(r.out) = r.here

\* group_service.go: the accounts of a deleted group fall back to the default
\* group first, so that nothing refuses the delete.
GroupDeleteSucceeds == \A c \in Clients : ~At(c, "ungroup", "refused")
=============================================================================
