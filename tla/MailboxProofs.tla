---------------------------- MODULE MailboxProofs ----------------------------
(***************************************************************************)
(* Proofs about the accounts of a tenant: TypeOK, StaleChecksExplained,    *)
(* ImportAddsUp and ListExplained hold for any number of clients,          *)
(* accounts and groups, any limits and any size of batch or page.          *)
(***************************************************************************)
EXTENDS Mailbox, FiniteSetTheorems, SequenceTheorems, WellFoundedInduction, TLAPS

(***************************************************************************)
(* The inductive invariant.  First, what a request keeps between two       *)
(* statements.                                                             *)
(***************************************************************************)
CreateReq == [op : {"create"}, pc : {"quota", "email", "alias", "tx"}, email : Emails, group : AllGroups,
              alias : AliasSets, at : Nat, mine : {0}]
UpdateReq == [op : {"update"}, pc : {"alias", "tx"}, id : Ids, email : Emails, group : AllGroups,
              status : Statuses, changed : BOOLEAN, given : BOOLEAN, alias : AliasSets]
Line      == [id : Ids, email : Emails, new : BOOLEAN, group : AllGroups]
Report    == [total : Int, created : Int, updated : Int, skipped : Int, failed : Int]
ImportReq == [op : {"import"}, pc : {"count", "lines", "flush"}, lines : Seq(Emails \union {0}), group : AllGroups,
              update : BOOLEAN, batch : Seq(Line), seen : SUBSET Emails, used : Nat, report : Report,
              at : Nat, mine : Nat, wrote : Nat]
MoveReq    == [op : {"move"}, pc : {"tx"}, ids : Batches, group : AllGroups]
InvalidReq == [op : {"invalid"}, pc : {"stats", "delete"}, filter : Filters, expected : Nat, at : Nat]
GroupReq   == [op : {"group"}, pc : {"insert"}, others : Nat]
UngroupReq == [op : {"ungroup"}, pc : {"tx", "refused", "missing"}, group : Groups]
ListReq    == [op : {"list"}, pc : {"page", "done"}, key : SortKeys, filter : Filters, page : Nat \ {0},
               out : Seq(Ids), here : SUBSET Ids, born : Nat, gone : Nat, stirred : Nat]

Requests == {Idle} \union CreateReq \union UpdateReq \union ImportReq \union MoveReq \union InvalidReq
              \union GroupReq \union UngroupReq \union ListReq

\* The tables, and only the ids of rows are ever used.
Stored == /\ rows \in [Ids -> {NoRow} \union Row]
          /\ IsFiniteSet(Used)
          /\ groups \subseteq AllGroups /\ System \in groups
          /\ \A x \in aliases : x.alias \in Emails /\ x.account \in Used
          /\ ops \in Nat /\ born \in Nat /\ gone \in Nat /\ stirred \in Nat
Asked  == /\ req \in [Clients -> Requests]
          /\ \A c \in Clients : req[c] = Idle \/ req[c].op \in Menu
TypeInv == Stored /\ Asked

\* The id of a line to be inserted is nobody else's; the id of an update is a row's.
NewIds(batch) == {batch[i].id : i \in Inserts(batch)}
OldIds(batch) == {batch[i].id : i \in DOMAIN batch \ Inserts(batch)}
PlannedNew(c) == IF req[c].op = "import" THEN NewIds(req[c].batch) ELSE {}
PlannedOld(c) == IF req[c].op = "import" THEN OldIds(req[c].batch) ELSE {}
IdsApart == /\ \A c \in Clients : PlannedNew(c) \intersect Used = {} /\ PlannedOld(c) \subseteq Used
            /\ \A c, d \in Clients : c # d => PlannedNew(c) \intersect PlannedNew(d) = {}

\* A check that was passed still bounds what there is now, by what came since.
CreateStale(r) == r.op = "create" /\ r.pc # "quota" /\ MaxAccounts # Unlimited =>
                    Cardinality(Live) + 1 <= MaxAccounts + (born - r.at)
ImportStale(r) == r.op = "import" /\ r.pc # "count" =>
                    LET n == Cardinality(Inserts(r.batch)) IN
                    /\ Cardinality(Live) + r.mine + n <= r.used + (born - r.at)
                    /\ n > 0 /\ MaxAccounts # Unlimited => r.used <= MaxAccounts
GroupStale(r)  == r.op = "group" /\ MaxGroups # Unlimited => Cardinality(groups) + 1 <= MaxGroups + r.others
DeleteStale(r) == r.op = "invalid" /\ r.pc = "delete" =>
                    CountMailAccountsByHealth(r.filter, "invalid") <= r.expected + (stirred - r.at)
ChecksInv == \A c \in Clients : CreateStale(req[c]) /\ ImportStale(req[c]) /\ GroupStale(req[c]) /\ DeleteStale(req[c])

\* A report counts the lines of the batch under way as if they were written.
Reported(r) == r.op = "import" =>
    LET n == Cardinality(Inserts(r.batch)) IN
    /\ r.pc = "count" => r.batch = <<>> /\ r.mine = 0
    /\ r.report.total = r.report.created + r.report.updated + r.report.skipped + r.report.failed
    /\ r.report.created = r.mine + n
    /\ r.report.updated = r.wrote + (Len(r.batch) - n)
ReportInv == \A c \in Clients : Reported(req[c])

\* What a list has shown is what came before its next page.
NoneMissed(r) == /\ r.here \subseteq InGroups(r.filter)
                 /\ \A a \in r.here : \/ a \in ToSet(r.out)
                                      \/ r.pc = "page" /\ Before(r.key, r.filter, a) >= Offset(r.page)
NoneTwice(r)  == /\ InGroups(r.filter) \subseteq r.here
                 /\ ToSet(r.out) \subseteq r.here
                 /\ IsInjective(r.out)
                 /\ r.pc = "page" => \A a \in ToSet(r.out) \intersect Live : Before(r.key, r.filter, a) < Offset(r.page)
Listed(r) == r.op = "list" =>
    /\ r.born <= born /\ r.gone <= gone /\ r.stirred <= stirred
    /\ r.stirred = stirred => (r.gone = gone => NoneMissed(r)) /\ (r.born = born => NoneTwice(r))
ListInv == \A c \in Clients : Listed(req[c])

-----------------------------------------------------------------------------
(* Statements: the rows after each, by which are inserted (N), deleted (D) *)
(* and written (W).                                                        *)

Table == [Ids -> {NoRow} \union Row]

Moved(r, N, D, W) ==
    /\ r \in Table
    /\ N \subseteq Ids \ Used /\ D \subseteq Live /\ W \subseteq Live
    /\ \A a \in N : r[a].state = "live" /\ r[a].health = "unknown"
    /\ \A a \in D : r[a].state = "deleted"
    /\ \A a \in W : r[a].state = "live"
    /\ \A a \in Ids \ (N \union D \union W) : r[a] = rows[a]

LEMMA RowStates ==
  /\ NoRow.state = "none" /\ NoRow \notin Row
  /\ \A x \in {NoRow} \union Row : (x.state = "live" => x \in Row) /\ (x.state # "none" <=> x \in Row)
BY DEF NoRow, Row

LEMMA Inserted ==
  ASSUME rows \in Table, born \in Nat, NEW a \in Ids \ Used, NEW e \in Emails, NEW g \in AllGroups
  PROVE  Moved(CreateMailAccount(rows, a, NewRow(e, g)), {a}, {}, {})
<1>1. NewRow(e, g) \in Row /\ NewRow(e, g).state = "live" /\ NewRow(e, g).health = "unknown"
  BY DEF NewRow, Row, Statuses, Healths
<1> QED BY <1>1 DEF Moved, CreateMailAccount, Table

LEMMA Saved ==
  ASSUME rows \in Table, NEW a \in Live, NEW g \in AllGroups, NEW st \in Statuses
  PROVE  LET u == UpdateMailAccount(rows, a, g, st)
         IN  u \in Table /\ u[a] \in Row /\ u[a].state = "live" /\ \A b \in Ids \ {a} : u[b] = rows[b]
<1>1. \A x \in Row : [x EXCEPT !.group = g, !.status = st] \in Row /\ [x EXCEPT !.group = g, !.status = st].state = x.state
  BY DEF Row
<1> QED BY <1>1, RowStates DEF UpdateMailAccount, Write, Table, Live

LEMMA Updated ==
  ASSUME rows \in Table, NEW a \in Live, NEW g \in AllGroups, NEW st \in Statuses
  PROVE  /\ Moved(UpdateMailAccount(rows, a, g, st), {}, {}, {a})
         /\ Moved(ResetMailAccountHealth(UpdateMailAccount(rows, a, g, st), a), {}, {}, {a})
<1> DEFINE u == UpdateMailAccount(rows, a, g, st)
<1>1. u \in Table /\ u[a] \in Row /\ u[a].state = "live" /\ \A b \in Ids \ {a} : u[b] = rows[b]
  BY Saved
<1> HIDE DEF u
<1>2. Moved(u, {}, {}, {a})
  BY <1>1 DEF Moved
<1>3. \A x \in Row : [x EXCEPT !.health = "unknown"] \in Row /\ [x EXCEPT !.health = "unknown"].state = x.state
  BY DEF Row, Healths
<1>4. ResetMailAccountHealth(u, a) \in Table
  BY <1>1, <1>3, RowStates DEF ResetMailAccountHealth, Write, Table, Live
<1>5. ResetMailAccountHealth(u, a)[a].state = "live" /\ \A b \in Ids \ {a} : ResetMailAccountHealth(u, a)[b] = rows[b]
  BY <1>1, <1>3 DEF ResetMailAccountHealth, Write, Table, Live
<1> QED BY <1>2, <1>4, <1>5 DEF Moved, u

LEMMA MovedTo ==
  ASSUME rows \in Table, NEW S, NEW g \in AllGroups
  PROVE  Moved(BatchMoveMailAccounts(S, g), {}, {}, S \intersect Live)
<1>1. \A x \in Row : [x EXCEPT !.group = g] \in Row /\ [x EXCEPT !.group = g].state = x.state
  BY DEF Row
<1> QED BY <1>1, RowStates DEF BatchMoveMailAccounts, Write, Table, Live, Moved

LEMMA Switched ==
  ASSUME rows \in Table, NEW S, NEW st \in Statuses
  PROVE  Moved(BatchUpdateMailAccountStatus(S, st), {}, {}, S \intersect Live)
<1>1. \A x \in Row : [x EXCEPT !.status = st] \in Row /\ [x EXCEPT !.status = st].state = x.state
  BY DEF Row
<1> QED BY <1>1, RowStates DEF BatchUpdateMailAccountStatus, Write, Table, Live, Moved

LEMMA Emptied ==
  ASSUME rows \in Table, NEW from, NEW to \in AllGroups
  PROVE  Moved(MoveAccountsToGroup(from, to), {}, {}, {a \in Live : rows[a].group = from})
<1>1. \A x \in Row : [x EXCEPT !.group = to] \in Row /\ [x EXCEPT !.group = to].state = x.state
  BY DEF Row
<1> QED BY <1>1, RowStates DEF MoveAccountsToGroup, Write, Table, Live, Moved

LEMMA Probed ==
  ASSUME rows \in Table, stirred \in Nat, NEW a \in Live, NEW h \in Healths
  PROVE  Moved(UpdateMailAccountAccessResult(a, h), {}, {}, {a})
<1>1. \A x \in Row : /\ [x EXCEPT !.health = h, !.seen = stirred + 1] \in Row
                     /\ [x EXCEPT !.health = h, !.seen = stirred + 1].state = x.state
  <2> DEFINE n == stirred + 1
  <2>1. n \in Nat
    OBVIOUS
  <2> HIDE DEF n
  <2>2. \A x \in Row : /\ [x EXCEPT !.health = h, !.seen = n] \in Row
                       /\ [x EXCEPT !.health = h, !.seen = n].state = x.state
    BY <2>1 DEF Row
  <2> QED BY <2>2 DEF n
<1> QED BY <1>1, RowStates DEF UpdateMailAccountAccessResult, Write, Table, Live, Moved

LEMMA Deleted ==
  ASSUME rows \in Table
  PROVE  /\ \A a \in Live : Moved(SoftDeleteMailAccount(a), {}, {a}, {})
         /\ \A S \in SUBSET Ids : Moved(BatchSoftDeleteMailAccounts(S), {}, S \intersect Live, {})
         /\ \A G : Moved(SoftDeleteInvalidMailAccounts(G), {},
                         {a \in Live : rows[a].group \in G /\ rows[a].health = "invalid"}, {})
<1>1. \A x \in Row : SoftDelete(x) \in Row /\ SoftDelete(x).state = "deleted"
  BY DEF Row, SoftDelete
<1>2. ASSUME NEW S \in SUBSET Ids PROVE Moved(Write(rows, S, SoftDelete), {}, S \intersect Live, {})
  BY <1>1, RowStates DEF Write, Table, Live, Moved
<1>3. \A a \in Live : {a} \in SUBSET Ids /\ {a} \intersect Live = {a}
  BY DEF Live
<1>4. \A G : LET S == {a \in Live : rows[a].group \in G /\ rows[a].health = "invalid"}
             IN  S \in SUBSET Ids /\ S \intersect Live = S
  BY DEF Live
<1>5. \A a \in Live : Moved(SoftDeleteMailAccount(a), {}, {a}, {})
  BY <1>2, <1>3 DEF SoftDeleteMailAccount
<1>6. \A S \in SUBSET Ids : Moved(BatchSoftDeleteMailAccounts(S), {}, S \intersect Live, {})
  BY <1>2 DEF BatchSoftDeleteMailAccounts
<1>7. ASSUME NEW G PROVE Moved(SoftDeleteInvalidMailAccounts(G), {},
                         {a \in Live : rows[a].group \in G /\ rows[a].health = "invalid"}, {})
  <2> DEFINE S == {a \in Live : rows[a].group \in G /\ rows[a].health = "invalid"}
  <2>1. S \in SUBSET Ids /\ S \intersect Live = S
    BY <1>4
  <2>2. Moved(Write(rows, S, SoftDelete), {}, S \intersect Live, {})
    BY <1>2, <2>1
  <2> QED BY <2>1, <2>2 DEF SoftDeleteInvalidMailAccounts
<1> QED BY <1>5, <1>6, <1>7

LEMMA BatchWritten ==
  ASSUME rows \in Table, born \in Nat, NEW batch \in Seq(Line),
         NewIds(batch) \intersect Used = {}, OldIds(batch) \subseteq Used, BatchAllowed(batch)
  PROVE  Moved(Persisted(batch), NewIds(batch), {}, OldIds(batch))
<1>1. \A i \in DOMAIN batch : batch[i] \in Line
  OBVIOUS
<1>2. \A i \in DOMAIN batch : ~batch[i].new => batch[i].id \in Live
  BY <1>1 DEF BatchAllowed, GetMailAccount, Live, Line
<1>3. OldIds(batch) \subseteq Live /\ NewIds(batch) \subseteq Ids \ Used
  BY <1>1, <1>2 DEF OldIds, NewIds, Inserts, Line
<1>4. ASSUME NEW p \in Line, p.new
      PROVE  /\ PersistImported(p) \in Row
             /\ PersistImported(p).state = "live" /\ PersistImported(p).health = "unknown"
  BY <1>4 DEF PersistImported, NewRow, Row, Line, Statuses, Healths
<1>5. ASSUME NEW p \in Line, ~p.new, p.id \in Live
      PROVE  /\ PersistImported(p) \in Row /\ PersistImported(p).state = "live"
  <2>1. rows[p.id] \in Row /\ rows[p.id].state = "live"
    BY <1>5, RowStates DEF Live, Table
  <2> QED BY <1>5, <2>1 DEF PersistImported, Row, Line, Statuses, Healths
<1>6. ASSUME NEW a \in Ids
      PROVE  /\ Persisted(batch)[a] \in {NoRow} \union Row
             /\ a \in NewIds(batch) => Persisted(batch)[a].state = "live" /\ Persisted(batch)[a].health = "unknown"
             /\ a \in OldIds(batch) => Persisted(batch)[a].state = "live"
             /\ a \notin NewIds(batch) \union OldIds(batch) => Persisted(batch)[a] = rows[a]
  <2>1. CASE \E i \in DOMAIN batch : batch[i].id = a
    <3> DEFINE i == CHOOSE i \in DOMAIN batch : batch[i].id = a
    <3>1. i \in DOMAIN batch /\ batch[i].id = a
      BY <2>1
    <3>2. Persisted(batch)[a] = PersistImported(batch[i])
      BY <2>1 DEF Persisted
    <3> HIDE DEF i
    <3>3. batch[i].new \/ batch[i].new = FALSE
      BY <1>1, <3>1 DEF Line
    <3>4. batch[i].new => a \in NewIds(batch)
      BY <3>1 DEF NewIds, Inserts
    <3>5. ~batch[i].new => a \in OldIds(batch) /\ a \in Live
      BY <3>1, <1>2 DEF OldIds, Inserts
    <3>6. a \in NewIds(batch) => a \notin OldIds(batch)
      OBVIOUS
    <3> QED BY <1>1, <1>4, <1>5, <3>1, <3>2, <3>3, <3>4, <3>5, <3>6
  <2>2. CASE ~ \E i \in DOMAIN batch : batch[i].id = a
    <3>1. Persisted(batch)[a] = rows[a] /\ a \notin NewIds(batch) \union OldIds(batch)
      BY <2>2 DEF Persisted, NewIds, OldIds, Inserts
    <3> QED BY <3>1 DEF Table
  <2> QED BY <2>1, <2>2
<1>7. Persisted(batch) \in Table
  BY <1>6 DEF Persisted, Table
<1>8. OldIds(batch) \subseteq Ids /\ NewIds(batch) \subseteq Ids
  BY <1>3 DEF Live
<1> QED BY <1>3, <1>6, <1>7, <1>8 DEF Moved

-----------------------------------------------------------------------------
(* What a step does to the counts.                                         *)

Step(N, D, W) == /\ Moved(rows', N, D, W) /\ IsFiniteSet(N)
                 /\ born' \in Nat /\ born' >= born + Cardinality(N)
                 /\ gone' \in Nat /\ gone' >= gone + Cardinality(D)
                 /\ stirred' \in Nat /\ stirred' >= stirred + Cardinality(W)

LEMMA Finite ==
  ASSUME Stored
  PROVE  /\ \A S \in SUBSET Used : IsFiniteSet(S) /\ Cardinality(S) \in Nat
         /\ Live \subseteq Used /\ Live \subseteq Ids /\ Used \subseteq Ids
         /\ rows \in Table
         /\ IsFiniteSet(groups) /\ Cardinality(groups) \in Nat
<1>1. IsFiniteSet(Used)
  BY DEF Stored
<1>2. ASSUME NEW S \in SUBSET Used PROVE IsFiniteSet(S) /\ Cardinality(S) \in Nat
  BY <1>1, FS_Subset, FS_CardinalityType
<1>3. IsFiniteSet(AllGroups)
  BY FS_AddElement, MailboxAssumption DEF AllGroups
<1>4. IsFiniteSet(groups) /\ Cardinality(groups) \in Nat
  BY <1>3, FS_Subset, FS_CardinalityType DEF Stored
<1> QED BY <1>2, <1>4 DEF Live, Used, Table, Stored

LEMMA Effects ==
  ASSUME Stored, NEW N, NEW D, NEW W, Step(N, D, W)
  PROVE  /\ Used' = Used \union N /\ IsFiniteSet(Used')
         /\ Live' = (Live \ D) \union N
         /\ born <= born' /\ gone <= gone' /\ stirred <= stirred'
         /\ born' = born => N = {}
         /\ gone' = gone => D = {}
         /\ stirred' = stirred => W = {}
<1>1. IsFiniteSet(D) /\ IsFiniteSet(W) /\ Cardinality(D) \in Nat /\ Cardinality(W) \in Nat
  BY Finite DEF Step, Moved
<1>2. IsFiniteSet(N) /\ Cardinality(N) \in Nat
  BY FS_CardinalityType DEF Step
<1>3. born \in Nat /\ gone \in Nat /\ stirred \in Nat /\ rows \in Table /\ rows' \in Table
  BY DEF Stored, Step, Moved, Table
<1>4. born' \in Nat /\ gone' \in Nat /\ stirred' \in Nat /\ born' >= born + Cardinality(N)
      /\ gone' >= gone + Cardinality(D) /\ stirred' >= stirred + Cardinality(W)
  BY DEF Step
<1>5. Used' = Used \union N
  BY <1>3 DEF Used, Live, Step, Moved
<1>6. Live' = (Live \ D) \union N
  BY <1>3 DEF Used, Live, Step, Moved
<1>7. IsFiniteSet(Used')
  BY <1>2, <1>5, FS_Union DEF Stored
<1>8. /\ Cardinality(N) = 0 => N = {}
      /\ Cardinality(D) = 0 => D = {}
      /\ Cardinality(W) = 0 => W = {}
  BY <1>1, <1>2, FS_EmptySet
<1> QED BY <1>1, <1>2, <1>3, <1>4, <1>5, <1>6, <1>7, <1>8

\* No more accounts than were inserted, no more invalid ones than were written.
LEMMA Growth ==
  ASSUME Stored, NEW N, NEW D, NEW W, Step(N, D, W)
  PROVE  /\ Cardinality(Live') \in Nat /\ Cardinality(Live') <= Cardinality(Live) + Cardinality(N)
         /\ \A G : LET was == {a \in Live : rows[a].group \in G /\ rows[a].health = "invalid"}
                       is  == {a \in Live' : rows'[a].group \in G /\ rows'[a].health = "invalid"}
                   IN  Cardinality(is) \in Nat /\ Cardinality(is) <= Cardinality(was) + Cardinality(W)
<1>1. IsFiniteSet(D) /\ IsFiniteSet(W) /\ IsFiniteSet(N) /\ IsFiniteSet(Live)
      /\ Cardinality(N) \in Nat /\ Cardinality(W) \in Nat /\ Cardinality(Live) \in Nat
  BY Finite, FS_CardinalityType DEF Step, Moved
<1>2. Live' \subseteq Live \union N
  BY Effects
<1>3. \A S, T : IsFiniteSet(S) /\ IsFiniteSet(T) =>
        IsFiniteSet(S \union T) /\ Cardinality(S \union T) <= Cardinality(S) + Cardinality(T)
  <2> TAKE S, T
  <2> HAVE IsFiniteSet(S) /\ IsFiniteSet(T)
  <2>1. IsFiniteSet(S \union T) /\ Cardinality(S \union T) = Cardinality(S) + Cardinality(T) - Cardinality(S \cap T)
    BY FS_Union
  <2>2. Cardinality(S \cap T) \in Nat /\ Cardinality(S) \in Nat /\ Cardinality(T) \in Nat
    BY FS_Intersection, FS_CardinalityType
  <2> QED BY <2>1, <2>2
<1>4. \A S, T : IsFiniteSet(T) /\ S \subseteq T =>
        IsFiniteSet(S) /\ Cardinality(S) \in Nat /\ Cardinality(T) \in Nat /\ Cardinality(S) <= Cardinality(T)
  BY FS_Subset, FS_CardinalityType
<1>5. IsFiniteSet(Live \union N) /\ Cardinality(Live \union N) <= Cardinality(Live) + Cardinality(N)
  BY <1>1, <1>3
<1>6. Cardinality(Live') \in Nat /\ Cardinality(Live \union N) \in Nat /\ Cardinality(Live') <= Cardinality(Live \union N)
  BY <1>2, <1>4, <1>5
<1>7. Cardinality(Live') <= Cardinality(Live) + Cardinality(N)
  BY <1>1, <1>5, <1>6
<1>8. ASSUME NEW G
      PROVE  LET was == {a \in Live : rows[a].group \in G /\ rows[a].health = "invalid"}
                 is  == {a \in Live' : rows'[a].group \in G /\ rows'[a].health = "invalid"}
             IN  Cardinality(is) \in Nat /\ Cardinality(is) <= Cardinality(was) + Cardinality(W)
  <2> DEFINE was == {a \in Live : rows[a].group \in G /\ rows[a].health = "invalid"}
             is  == {a \in Live' : rows'[a].group \in G /\ rows'[a].health = "invalid"}
  <2>1. Live' = (Live \ D) \union N
    BY Effects
  <2>2. is \subseteq was \union W
    <3> SUFFICES ASSUME NEW a \in Live', rows'[a].group \in G, rows'[a].health = "invalid", a \notin W
                 PROVE  a \in was
      OBVIOUS
    <3>1. a \notin N
      BY DEF Step, Moved
    <3>2. a \in Live /\ a \notin D
      BY <2>1, <3>1
    <3>3. rows'[a] = rows[a]
      BY <3>1, <3>2 DEF Step, Moved, Live
    <3> QED BY <3>2, <3>3
  <2>3. was \subseteq Live
    OBVIOUS
  <2> HIDE DEF was, is
  <2>4. IsFiniteSet(was) /\ Cardinality(was) \in Nat
    BY <1>1, <1>4, <2>3
  <2>5. IsFiniteSet(was \union W) /\ Cardinality(was \union W) <= Cardinality(was) + Cardinality(W)
    BY <1>1, <1>3, <2>4
  <2>6. Cardinality(is) \in Nat /\ Cardinality(was \union W) \in Nat /\ Cardinality(is) <= Cardinality(was \union W)
    BY <1>4, <2>2, <2>5
  <2>7. Cardinality(is) <= Cardinality(was) + Cardinality(W)
    BY <1>1, <2>4, <2>5, <2>6
  <2> QED BY <2>6, <2>7 DEF was, is
<1> QED BY <1>6, <1>7, <1>8

-----------------------------------------------------------------------------
(* Every step is a Step.                                                   *)

Apart(c, N) == \A d \in Clients \ {c} : N \intersect PlannedNew(d) = {}

\* What is left of Stored' once the rows are known.
Rest == /\ groups' \subseteq AllGroups /\ System \in groups' /\ ops' \in Nat
        /\ \A x \in aliases' : x.alias \in Emails /\ (x.account \in Used \/ x.account \in Live')

LEMMA StoredKept ==
  ASSUME Stored, NEW N, NEW D, NEW W, Step(N, D, W), Rest
  PROVE  Stored'
<1>1. rows' \in Table /\ born' \in Nat /\ gone' \in Nat /\ stirred' \in Nat
  BY DEF Step, Moved
<1>2. IsFiniteSet(Used') /\ Used \subseteq Used'
  BY Effects
<1>3. Live' \subseteq Used'
  BY DEF Live, Used
<1> QED BY <1>1, <1>2, <1>3 DEF Stored, Table, Rest

LEMMA QuietMoves ==
  ASSUME Stored, rows' = rows, born' = born, gone' = gone, stirred' = stirred
  PROVE  Step({}, {}, {})
<1>1. IsFiniteSet({}) /\ Cardinality({}) = 0
  BY FS_EmptySet
<1> QED BY <1>1 DEF Step, Moved, Stored, Table

LEMMA Frame ==
  ASSUME Asked, NEW c \in Clients, NEW r, Goto(c, r)
  PROVE  req'[c] = r /\ ops' = ops /\ \A d \in Clients \ {c} : req'[d] = req[d]
BY DEF Asked, Goto

LEMMA BeginFrame ==
  ASSUME Asked, NEW c \in Clients, NEW op, NEW r, Begin(c, op, r)
  PROVE  req'[c] = r /\ op \in Menu /\ ops' = ops + 1 /\ \A d \in Clients \ {c} : req'[d] = req[d]
BY DEF Asked, Begin

LEMMA QuietStep ==
  ASSUME Stored, Quiet, ops' \in Nat
  PROVE  Step({}, {}, {}) /\ Stored'
<1>1. Step({}, {}, {})
  BY QuietMoves DEF Quiet
<1>2. Rest
  BY DEF Stored, Quiet, Rest
<1> QED BY <1>1, <1>2, StoredKept

\* A step by which only rows change, and the counter ops.
LEMMA TablesStep ==
  ASSUME Stored, NEW N, NEW D, NEW W, Moved(rows', N, D, W), IsFiniteSet(N),
         NEW n \in Nat, NEW k \in Nat, NEW w \in Nat,
         born' = born + n, gone' = gone + k, stirred' = stirred + w,
         Cardinality(N) <= n, Cardinality(D) <= k, Cardinality(W) <= w,
         Rest
  PROVE  Step(N, D, W) /\ Stored'
<1>1. IsFiniteSet(D) /\ IsFiniteSet(W) /\ Cardinality(D) \in Nat /\ Cardinality(W) \in Nat /\ Cardinality(N) \in Nat
  BY Finite, FS_CardinalityType DEF Moved
<1>2. Step(N, D, W)
  BY <1>1 DEF Step, Stored
<1> QED BY <1>2, StoredKept

LEMMA Singles == ASSUME NEW a PROVE IsFiniteSet({a}) /\ Cardinality({a}) \in Nat /\ Cardinality({a}) <= 1
<1>1. IsFiniteSet({a}) /\ Cardinality({a}) = 1
  BY FS_Singleton
<1> DEFINE n == Cardinality({a})
<1>2. n = 1
  BY <1>1
<1> HIDE DEF n
<1>3. n \in Nat /\ n <= 1
  BY <1>2
<1> QED BY <1>1, <1>3 DEF n

LEMMA Empties == IsFiniteSet({}) /\ Cardinality({}) <= 0
<1>1. IsFiniteSet({}) /\ Cardinality({}) = 0
  BY FS_EmptySet
<1> QED BY <1>1

LEMMA Aliased ==
  ASSUME Stored, NEW a, NEW al \in AliasSets, a \in Used \/ a \in Live'
  PROVE  \A x \in WriteAliases(a, al) : x.alias \in Emails /\ (x.account \in Used \/ x.account \in Live')
<1>1. al \subseteq Emails
  BY MailboxAssumption DEF AliasSets
<1> QED BY <1>1 DEF WriteAliases, Stored

LEMMA CreateTxMoves ==
  ASSUME TypeInv, NEW c \in Clients, CreateTx(c)
  PROVE  \E N : Step(N, {}, {}) /\ Stored' /\ Apart(c, N)
<1>1. req[c] \in CreateReq
  BY DEF CreateTx, At, TypeInv, Asked, Requests, Idle, CreateReq, UpdateReq, ImportReq, MoveReq, InvalidReq,
         GroupReq, UngroupReq, ListReq
<1>2. ops' = ops
  BY DEF CreateTx, End, Goto
<1>3. CASE Quiet
  <2>1. Step({}, {}, {}) /\ Stored'
    BY <1>2, <1>3, QuietStep DEF TypeInv, Stored
  <2> QED BY <2>1 DEF Apart
<1>4. CASE ~Quiet
  <2>1. PICK a \in Fresh :
          /\ Tables(CreateMailAccount(rows, a, NewRow(req[c].email, req[c].group)), 1, 0, 0)
          /\ aliases' = WriteAliases(a, req[c].alias)
    BY <1>4 DEF CreateTx
  <2>2. a \in Ids \ Used /\ \A d \in Clients \ {c} : a \notin Planned(d)
    BY DEF Fresh
  <2>3. Moved(rows', {a}, {}, {})
    BY <1>1, <2>1, <2>2, Inserted DEF Tables, CreateReq, TypeInv, Stored, Table
  <2>4. born' = born + 1 /\ gone' = gone + 0 /\ stirred' = stirred + 0 /\ groups' = groups
    BY <2>1 DEF Tables
  <2>5. a \in Live'
    BY <2>2, <2>3 DEF Moved, Live
  <2>6. \A x \in aliases' : x.alias \in Emails /\ (x.account \in Used \/ x.account \in Live')
    BY <1>1, <2>1, <2>5, Aliased DEF CreateReq, TypeInv
  <2>7. Rest
    BY <1>2, <2>4, <2>6 DEF Rest, TypeInv, Stored
  <2>8. Step({a}, {}, {}) /\ Stored'
    <3>1. Cardinality({a}) <= 1 /\ Cardinality({}) <= 0 /\ IsFiniteSet({a})
      BY Singles, Empties
    <3>2. Stored /\ 1 \in Nat /\ 0 \in Nat
      BY DEF TypeInv
    <3> QED BY <2>3, <2>4, <2>7, <3>1, <3>2, TablesStep
  <2>9. \A d \in Clients : PlannedNew(d) \subseteq Planned(d)
    <3> SUFFICES ASSUME NEW d \in Clients, req[d].op = "import" PROVE PlannedNew(d) \subseteq Planned(d)
      BY DEF PlannedNew
    <3> QED BY DEF PlannedNew, NewIds, Planned, Inserts, ToSet
  <2>10. Apart(c, {a})
    BY <2>2, <2>9 DEF Apart
  <2> QED BY <2>8, <2>10
<1> QED BY <1>3, <1>4

\* A step that only writes or deletes rows, by this many.
LEMMA WriteStep ==
  ASSUME Stored, NEW D, NEW W, Moved(rows', {}, D, W), NEW k \in Nat, NEW w \in Nat,
         born' = born, gone' = gone + k, stirred' = stirred + w, Cardinality(D) <= k, Cardinality(W) <= w, Rest
  PROVE  Step({}, D, W) /\ Stored'
<1>1. 0 \in Nat /\ born' = born + 0
  BY DEF Stored
<1> QED BY <1>1, Empties, TablesStep

\* Which request a client has is known from its op.
LEMMA ReqOf ==
  ASSUME Asked, NEW c \in Clients
  PROVE  /\ req[c].op = "create" => req[c] \in CreateReq
         /\ req[c].op = "update" => req[c] \in UpdateReq
         /\ req[c].op = "import" => req[c] \in ImportReq
         /\ req[c].op = "move" => req[c] \in MoveReq
         /\ req[c].op = "invalid" => req[c] \in InvalidReq
         /\ req[c].op = "group" => req[c] \in GroupReq
         /\ req[c].op = "ungroup" => req[c] \in UngroupReq
         /\ req[c].op = "list" => req[c] \in ListReq
BY DEF Asked, Requests, Idle, CreateReq, UpdateReq, ImportReq, MoveReq, InvalidReq, GroupReq, UngroupReq, ListReq

LEMMA UpdateTxMoves ==
  ASSUME TypeInv, NEW c \in Clients, UpdateTx(c)
  PROVE  \E N, D, W : Step(N, D, W) /\ Stored' /\ Apart(c, N)
<1>1. req[c] \in UpdateReq
  BY ReqOf DEF UpdateTx, At, TypeInv
<1>2. ops' = ops
  BY DEF UpdateTx, End, Goto
<1>3. CASE Quiet
  <2>1. Step({}, {}, {}) /\ Stored'
    BY <1>2, <1>3, QuietStep DEF TypeInv, Stored
  <2> QED BY <2>1 DEF Apart
<1>4. CASE ~Quiet
  <2> DEFINE a == req[c].id
             saved == UpdateMailAccount(rows, a, req[c].group, req[c].status)
             new == IF req[c].changed THEN ResetMailAccountHealth(saved, a) ELSE saved
  <2>1. /\ GetMailAccount(a) /\ Tables(new, 0, 0, 1)
        /\ aliases' = WriteAliases(a, req[c].alias) \/ aliases' = aliases
    BY <1>4 DEF UpdateTx
  <2>2. a \in Live /\ a \in Used /\ req[c].group \in AllGroups /\ req[c].status \in Statuses /\ req[c].alias \in AliasSets
    BY <1>1, <2>1 DEF UpdateReq, GetMailAccount, Live, Used
  <2>3. rows' = new /\ born' = born + 0 /\ gone' = gone + 0 /\ stirred' = stirred + 1 /\ groups' = groups
    BY <2>1 DEF Tables
  <2> HIDE DEF a
  <2>4. Moved(rows', {}, {}, {a})
    BY <2>2, <2>3, Updated DEF TypeInv, Stored, Table
  <2>5. Rest
    BY <1>2, <2>1, <2>2, <2>3, Aliased DEF Rest, TypeInv, Stored
  <2>6. born' = born
    BY <2>3 DEF TypeInv, Stored
  <2>7. Stored /\ 0 \in Nat /\ 1 \in Nat /\ Cardinality({}) <= 0 /\ Cardinality({a}) <= 1
    BY Empties, Singles DEF TypeInv
  <2>8. Step({}, {}, {a}) /\ Stored'
    BY <2>3, <2>4, <2>5, <2>6, <2>7, WriteStep
  <2> QED BY <2>8 DEF Apart
<1> QED BY <1>3, <1>4

\* The other steps that write: no row is inserted, and no alias touched.
LEMMA OnlyWrites ==
  ASSUME Stored, NEW D, NEW W, Moved(rows', {}, D, W), NEW k \in Nat, NEW w \in Nat,
         born' = born + 0, gone' = gone + k, stirred' = stirred + w, Cardinality(D) <= k, Cardinality(W) <= w,
         groups' \subseteq groups, System \in groups', aliases' = aliases, ops' \in Nat
  PROVE  Step({}, D, W) /\ Stored'
<1>1. Rest /\ born' = born
  BY DEF Rest, Stored
<1> QED BY <1>1, WriteStep

LEMMA DeleteMoves ==
  ASSUME Stored, NEW c \in Clients, NEW a \in Ids, Delete(c, a)
  PROVE  \E D : Step({}, D, {}) /\ Stored'
<1>1. rows' = SoftDeleteMailAccount(a) /\ born' = born + 0 /\ gone' = gone + 1 /\ stirred' = stirred + 0
      /\ groups' = groups /\ aliases' = aliases /\ ops' = ops + 1
  BY DEF Delete, Tables, Once
<1>2. a \in Live
  BY DEF Delete, GetMailAccount, Live
<1>3. Moved(rows', {}, {a}, {})
  BY <1>1, <1>2, Finite, Deleted
<1>4. ops' \in Nat /\ System \in groups' /\ groups' \subseteq groups
  BY <1>1 DEF Stored
<1>5. Cardinality({}) <= 0 /\ Cardinality({a}) <= 1
  BY Empties, Singles
<1>6. Step({}, {a}, {}) /\ Stored'
  BY <1>1, <1>3, <1>4, <1>5, OnlyWrites
<1> QED BY <1>6

LEMMA BatchDeleteMoves ==
  ASSUME Stored, NEW c \in Clients, NEW S \in Batches, BatchDelete(c, S)
  PROVE  \E D : Step({}, D, {}) /\ Stored'
<1> DEFINE D == S \intersect Live
<1>1. rows' = BatchSoftDeleteMailAccounts(S) /\ born' = born + 0 /\ gone' = gone + Cardinality(D) /\ stirred' = stirred + 0
      /\ groups' = groups /\ aliases' = aliases /\ ops' = ops + 1
  BY DEF BatchDelete, Tables, Once
<1>2. S \in SUBSET Ids
  BY MailboxAssumption
<1>3. Moved(rows', {}, D, {})
  BY <1>1, <1>2, Finite, Deleted
<1>4. Cardinality(D) \in Nat
  BY Finite
<1>5. Cardinality({}) <= 0 /\ ops' \in Nat /\ System \in groups' /\ groups' \subseteq groups
  BY <1>1, Empties DEF Stored
<1> HIDE DEF D
<1>6. Step({}, D, {}) /\ Stored'
  BY <1>1, <1>3, <1>4, <1>5, OnlyWrites
<1> QED BY <1>6

LEMMA BatchStatusMoves ==
  ASSUME Stored, NEW c \in Clients, NEW S \in Batches, NEW st \in Switches, BatchStatus(c, S, st)
  PROVE  \E W : Step({}, {}, W) /\ Stored'
<1> DEFINE W == S \intersect Live
<1>1. rows' = BatchUpdateMailAccountStatus(S, st) /\ born' = born + 0 /\ gone' = gone + 0 /\ stirred' = stirred + Cardinality(W)
      /\ groups' = groups /\ aliases' = aliases /\ ops' = ops + 1
  BY DEF BatchStatus, Tables, Once
<1>2. st \in Statuses
  BY MailboxAssumption
<1>3. Moved(rows', {}, {}, W)
  BY <1>1, <1>2, Finite, Switched
<1>4. Cardinality(W) \in Nat
  BY Finite
<1>5. Cardinality({}) <= 0 /\ ops' \in Nat /\ System \in groups' /\ groups' \subseteq groups
  BY <1>1, Empties DEF Stored
<1> HIDE DEF W
<1>6. Step({}, {}, W) /\ Stored'
  BY <1>1, <1>3, <1>4, <1>5, OnlyWrites
<1> QED BY <1>6

LEMMA BatchMoveMoves ==
  ASSUME TypeInv, NEW c \in Clients, BatchMove(c)
  PROVE  \E W : Step({}, {}, W) /\ Stored'
<1>1. req[c] \in MoveReq /\ Stored
  BY ReqOf DEF BatchMove, At, TypeInv
<1>2. ops' = ops /\ ops' \in Nat
  BY DEF BatchMove, End, Goto, TypeInv, Stored
<1>3. CASE Quiet
  BY <1>1, <1>2, <1>3, QuietStep
<1>4. CASE ~Quiet
  <2> DEFINE S == req[c].ids
             W == S \intersect Live
  <2>1. /\ rows' = BatchMoveMailAccounts(S, req[c].group) /\ born' = born + 0 /\ gone' = gone + 0
        /\ stirred' = stirred + Cardinality(S) /\ groups' = groups /\ aliases' = aliases
    BY <1>4 DEF BatchMove, Tables
  <2>2. IsFiniteSet(S) /\ req[c].group \in AllGroups
    BY <1>1, MailboxAssumption DEF MoveReq
  <2>3. Moved(rows', {}, {}, W)
    BY <1>1, <2>1, <2>2, Finite, MovedTo
  <2>4. Cardinality(S) \in Nat /\ Cardinality(W) <= Cardinality(S)
    BY <2>2, FS_Subset, FS_CardinalityType
  <2>5. Cardinality({}) <= 0 /\ System \in groups' /\ groups' \subseteq groups
    BY <1>1, <2>1, Empties DEF Stored
  <2> HIDE DEF S, W
  <2>6. Step({}, {}, W) /\ Stored'
    BY <1>1, <1>2, <2>1, <2>3, <2>4, <2>5, OnlyWrites
  <2> QED BY <2>6
<1> QED BY <1>3, <1>4

LEMMA CheckedMoves ==
  ASSUME Stored, NEW a \in Ids, NEW h \in {"ok", "invalid"}, Checked(a, h)
  PROVE  \E W : Step({}, {}, W) /\ Stored'
<1>1. rows' = UpdateMailAccountAccessResult(a, h) /\ born' = born + 0 /\ gone' = gone + 0 /\ stirred' = stirred + 1
      /\ groups' = groups /\ aliases' = aliases /\ ops' = ops
  BY DEF Checked, Tables
<1>2. a \in Live /\ h \in Healths
  BY DEF Checked, GetMailAccount, Live, Healths
<1>3. Moved(rows', {}, {}, {a})
  BY <1>1, <1>2, Finite, Probed DEF Stored
<1>4. Cardinality({}) <= 0 /\ Cardinality({a}) <= 1 /\ ops' \in Nat /\ System \in groups' /\ groups' \subseteq groups
  BY <1>1, Empties, Singles DEF Stored
<1>5. Step({}, {}, {a}) /\ Stored'
  BY <1>1, <1>3, <1>4, OnlyWrites
<1> QED BY <1>5

LEMMA DeleteInvalidMoves ==
  ASSUME TypeInv, NEW c \in Clients, DeleteInvalid(c)
  PROVE  \E D : Step({}, D, {}) /\ Stored'
<1> DEFINE G == req[c].filter
           D == {a \in Live : rows[a].group \in G /\ rows[a].health = "invalid"}
<1>1. /\ rows' = SoftDeleteInvalidMailAccounts(G) /\ born' = born + 0 /\ gone' = gone + Cardinality(D)
      /\ stirred' = stirred + 0 /\ groups' = groups /\ aliases' = aliases /\ ops' = ops
  BY DEF DeleteInvalid, Tables, End, Goto, CountMailAccountsByHealth
<1>2. Stored
  BY DEF TypeInv
<1>3. Moved(rows', {}, D, {})
  BY <1>1, <1>2, Finite, Deleted
<1>4. Cardinality(D) \in Nat
  BY <1>2, Finite
<1>5. Cardinality({}) <= 0 /\ ops' \in Nat /\ System \in groups' /\ groups' \subseteq groups
  BY <1>1, <1>2, Empties DEF Stored
<1> HIDE DEF D, G
<1>6. Step({}, D, {}) /\ Stored'
  BY <1>1, <1>2, <1>3, <1>4, <1>5, OnlyWrites
<1> QED BY <1>6

LEMMA GroupDeleteMoves ==
  ASSUME TypeInv, NEW c \in Clients, GroupDelete(c)
  PROVE  \E W : Step({}, {}, W) /\ Stored'
<1>1. req[c] \in UngroupReq /\ Stored
  BY ReqOf DEF GroupDelete, At, TypeInv
<1>2. ops' = ops /\ ops' \in Nat
  BY DEF GroupDelete, End, Goto, TypeInv, Stored
<1>3. CASE Quiet
  BY <1>1, <1>2, <1>3, QuietStep
<1>4. CASE ~Quiet
  <2> DEFINE g == req[c].group
             W == {a \in Live : rows[a].group = g}
  <2>1. /\ rows' = MoveAccountsToGroup(g, System) /\ born' = born + 0 /\ gone' = gone + 0
        /\ stirred' = stirred + Cardinality(W) /\ groups' = groups \ {g} /\ aliases' = aliases
    BY <1>1, <1>4 DEF GroupDelete, Stored
  <2>2. System \in AllGroups /\ g # System
    BY <1>1, MailboxAssumption DEF UngroupReq, AllGroups
  <2>3. Moved(rows', {}, {}, W)
    BY <1>1, <2>1, <2>2, Finite, Emptied
  <2>4. Cardinality(W) \in Nat
    BY <1>1, Finite
  <2>5. Cardinality({}) <= 0 /\ System \in groups' /\ groups' \subseteq groups
    BY <1>1, <2>1, <2>2, Empties DEF Stored
  <2> HIDE DEF W
  <2>7. gone' = gone + 0 /\ 0 \in Nat /\ Cardinality(W) <= Cardinality(W)
    BY <2>1, <2>4
  <2>6. Step({}, {}, W) /\ Stored'
    BY <1>1, <1>2, <2>1, <2>3, <2>4, <2>5, <2>7, OnlyWrites
  <2> QED BY <2>6
<1> QED BY <1>3, <1>4

\* The lines of a batch, counted.
LEMMA BatchCounts ==
  ASSUME NEW batch \in Seq(Line)
  PROVE  /\ Len(batch) \in Nat /\ DOMAIN batch = 1..Len(batch)
         /\ Cardinality(Inserts(batch)) \in Nat /\ Cardinality(Inserts(batch)) <= Len(batch)
         /\ IsFiniteSet(NewIds(batch)) /\ Cardinality(NewIds(batch)) <= Cardinality(Inserts(batch))
         /\ Cardinality(OldIds(batch)) <= Len(batch) - Cardinality(Inserts(batch))
         /\ Cardinality(NewIds(batch)) \in Nat /\ Cardinality(OldIds(batch)) \in Nat
<1> DEFINE I == Inserts(batch)
           J == DOMAIN batch \ I
<1>1. Len(batch) \in Nat /\ DOMAIN batch = 1..Len(batch)
  OBVIOUS
<1>2. IsFiniteSet(DOMAIN batch) /\ Cardinality(DOMAIN batch) = Len(batch)
  <2>1. PICK l \in Nat : l = Len(batch)
    BY <1>1
  <2>2. IsFiniteSet(1..l) /\ Cardinality(1..l) = l
    <3>1. 1 \in Int /\ l \in Int
      OBVIOUS
    <3>2. /\ IsFiniteSet(1..l)
          /\ Cardinality(1..l) = IF 1 > l THEN 0 ELSE l - 1 + 1
      BY <3>1, FS_Interval
    <3> QED BY <3>2
  <2>3. DOMAIN batch = 1..l
    BY <1>1, <2>1
  <2> QED BY <2>1, <2>2, <2>3
<1>3. I \in SUBSET DOMAIN batch
  BY DEF Inserts
<1>4. IsFiniteSet(I) /\ Cardinality(I) \in Nat /\ Cardinality(I) <= Len(batch)
  BY <1>2, <1>3, FS_Subset, FS_CardinalityType
<1>5. (DOMAIN batch) \cap I = I
  BY <1>3
<1>6. IsFiniteSet(J) /\ Cardinality(J) = Len(batch) - Cardinality(I)
  <2> DEFINE D == DOMAIN batch
  <2>1. IsFiniteSet(D) /\ Cardinality(D) = Len(batch) /\ D \cap I = I
    BY <1>2, <1>5
  <2> HIDE DEF D, I
  <2>2. IsFiniteSet(D \ I) /\ Cardinality(D \ I) = Cardinality(D) - Cardinality(D \cap I)
    BY <2>1, FS_Difference
  <2> QED BY <2>1, <2>2 DEF D
<1>7. ASSUME NEW K \in SUBSET DOMAIN batch, IsFiniteSet(K)
      PROVE  LET T == {batch[i].id : i \in K}
             IN  IsFiniteSet(T) /\ Cardinality(T) <= Cardinality(K) /\ Cardinality(T) \in Nat
  <2> DEFINE T == {batch[i].id : i \in K}
             f == [i \in K |-> batch[i].id]
  <2>1. f \in Surjection(K, T)
    BY DEF Surjection
  <2> HIDE DEF f, T
  <2>2. IsFiniteSet(T) /\ Cardinality(T) <= Cardinality(K)
    BY <1>7, <2>1, FS_Surjection
  <2>3. Cardinality(T) \in Nat
    BY <2>2, FS_CardinalityType
  <2> QED BY <2>2, <2>3 DEF T
<1>8. IsFiniteSet(NewIds(batch)) /\ Cardinality(NewIds(batch)) <= Cardinality(I) /\ Cardinality(NewIds(batch)) \in Nat
  BY <1>3, <1>4, <1>7 DEF NewIds
<1>9. Cardinality(OldIds(batch)) <= Cardinality(J) /\ Cardinality(OldIds(batch)) \in Nat
  BY <1>6, <1>7 DEF OldIds
<1> HIDE DEF J
<1> QED BY <1>1, <1>4, <1>6, <1>8, <1>9

LEMMA FlushMoves ==
  ASSUME TypeInv, IdsApart, NEW c \in Clients, Flush(c)
  PROVE  LET batch == req[c].batch IN
         /\ Stored' /\ Apart(c, NewIds(batch))
         /\ BatchAllowed(batch) => Step(NewIds(batch), {}, OldIds(batch)) /\ born' = born + Cardinality(Inserts(batch))
         /\ ~BatchAllowed(batch) => Step({}, {}, {}) /\ born' = born
<1> DEFINE batch == req[c].batch
           n == Cardinality(Inserts(batch))
<1>1. req[c] \in ImportReq /\ req[c].op = "import" /\ Stored
  BY ReqOf DEF Flush, At, TypeInv
<1>2. batch \in Seq(Line)
  BY <1>1 DEF ImportReq
<1>3. ops' = ops /\ ops' \in Nat /\ aliases' = aliases
  BY <1>1 DEF Flush, Goto, Stored
<1>4. NewIds(batch) \intersect Used = {} /\ OldIds(batch) \subseteq Used
  BY <1>1 DEF IdsApart, PlannedNew, PlannedOld
<1>5. Apart(c, NewIds(batch))
  BY <1>1 DEF IdsApart, Apart, PlannedNew
<1>6. CASE ~BatchAllowed(batch)
  <2>1. Quiet
    BY <1>3, <1>6 DEF Flush, Quiet
  <2>2. Step({}, {}, {}) /\ Stored'
    BY <1>1, <1>3, <2>1, QuietStep
  <2> QED BY <1>5, <1>6, <2>1, <2>2 DEF Quiet
<1>7. CASE BatchAllowed(batch)
  <2>1. /\ rows' = Persisted(batch) /\ born' = born + n /\ gone' = gone + 0 /\ stirred' = stirred + (Len(batch) - n)
        /\ groups' = groups
    BY <1>7 DEF Flush, Tables
  <2>2. Moved(rows', NewIds(batch), {}, OldIds(batch))
    BY <1>1, <1>2, <1>4, <1>7, <2>1, Finite, BatchWritten DEF Stored
  <2>3. n \in Nat /\ Len(batch) - n \in Nat /\ IsFiniteSet(NewIds(batch)) /\ Cardinality(NewIds(batch)) <= n
        /\ Cardinality(OldIds(batch)) <= Len(batch) - n
    BY <1>2, BatchCounts
  <2>4. Rest
    BY <1>1, <1>3, <2>1 DEF Rest, Stored
  <2> DEFINE w == Len(batch) - n
  <2>5. stirred' = stirred + w /\ w \in Nat /\ Cardinality(OldIds(batch)) <= w /\ 0 \in Nat /\ Cardinality({}) <= 0
    BY <2>1, <2>3, Empties
  <2> HIDE DEF w, n, batch
  <2>6. Step(NewIds(batch), {}, OldIds(batch)) /\ Stored'
    BY <1>1, <2>1, <2>2, <2>3, <2>4, <2>5, TablesStep
  <2> QED BY <1>5, <1>7, <2>1, <2>6 DEF batch, n
<1> QED BY <1>6, <1>7

LEMMA GroupCreateMoves ==
  ASSUME Stored, NEW c \in Clients, NEW g \in Groups, GroupCreate(c, g)
  PROVE  Step({}, {}, {}) /\ Stored'
<1>1. Step({}, {}, {})
  BY QuietMoves DEF GroupCreate
<1>2. Rest
  BY DEF GroupCreate, Rest, Stored, AllGroups
<1> QED BY <1>1, <1>2, StoredKept

\* UpdateBegin, of whatever a request may ask.
Edit(c) ==
    \E a \in Live, g \in AllGroups, inputs, given \in BOOLEAN, al \in AliasSets :
        \E st \in Switches \union {rows[a].status} : UpdateBegin(c, a, g, st, inputs, given, al)

\* The steps of a client that touch no table.
Silent(c) ==
    \/ \E e \in Emails, g \in AllGroups, al \in AliasSets : CreateBegin(c, e, g, al)
    \/ EnsureAccountQuota(c) \/ EnsureEmailAvailable(c) \/ ValidateAliases(c)
    \/ Edit(c)
    \/ \E lines \in Contents, g \in AllGroups, update \in BOOLEAN : ImportBegin(c, lines, g, update)
    \/ PrepareImport(c) \/ PlanLine(c) \/ ImportEnd(c)
    \/ \E S \in Batches, g \in AllGroups : BatchMoveBegin(c, S, g)
    \/ \E G \in Filters : ConfirmInvalid(c, G)
    \/ CheckExpected(c)
    \/ GroupCreateBegin(c)
    \/ \E g \in Groups : GroupDeleteBegin(c, g)
    \/ GroupDeleteEnd(c)
    \/ \E key \in Sorts, G \in Filters : CollectBegin(c, key, G)
    \/ CollectPage(c) \/ CollectEnd(c)

LEMMA SilentFrame ==
  ASSUME NEW c \in Clients, Silent(c)
  PROVE  (\E op, r : Begin(c, op, r)) \/ (\E r : Goto(c, r))
<1>1. CASE Edit(c)
  BY <1>1 DEF Edit, UpdateBegin
<1>2. CASE \/ \E e \in Emails, g \in AllGroups, al \in AliasSets : CreateBegin(c, e, g, al)
           \/ EnsureAccountQuota(c) \/ EnsureEmailAvailable(c) \/ ValidateAliases(c)
  BY <1>2 DEF CreateBegin, EnsureAccountQuota, EnsureEmailAvailable, ValidateAliases, End
<1>3. CASE \/ \E lines \in Contents, g \in AllGroups, update \in BOOLEAN : ImportBegin(c, lines, g, update)
           \/ PrepareImport(c) \/ PlanLine(c) \/ ImportEnd(c)
  BY <1>3 DEF ImportBegin, PrepareImport, PlanLine, ImportEnd, End
<1>4. CASE \/ \E S \in Batches, g \in AllGroups : BatchMoveBegin(c, S, g)
           \/ \E G \in Filters : ConfirmInvalid(c, G)
           \/ CheckExpected(c) \/ GroupCreateBegin(c)
           \/ \E g \in Groups : GroupDeleteBegin(c, g)
           \/ GroupDeleteEnd(c)
           \/ \E key \in Sorts, G \in Filters : CollectBegin(c, key, G)
           \/ CollectPage(c) \/ CollectEnd(c)
  BY <1>4 DEF BatchMoveBegin, ConfirmInvalid, CheckExpected, GroupCreateBegin, GroupDeleteBegin, GroupDeleteEnd,
              CollectBegin, CollectPage, CollectEnd, End
<1> QED BY <1>1, <1>2, <1>3, <1>4 DEF Silent

LEMMA SilentMoves ==
  ASSUME Stored, NEW c \in Clients, Silent(c)
  PROVE  Quiet /\ Step({}, {}, {}) /\ Stored' /\ ops' \in Nat
<1>1. Quiet
  BY DEF Silent, CreateBegin, EnsureAccountQuota, EnsureEmailAvailable, ValidateAliases, Edit, UpdateBegin, ImportBegin,
         PrepareImport, PlanLine, ImportEnd, BatchMoveBegin, ConfirmInvalid, CheckExpected, GroupCreateBegin,
         GroupDeleteBegin, GroupDeleteEnd, CollectBegin, CollectPage, CollectEnd
<1>2. ops' = ops \/ ops' = ops + 1
  <2>1. CASE \E op, r : Begin(c, op, r)
    BY <2>1 DEF Begin
  <2>2. CASE \E r : Goto(c, r)
    BY <2>2 DEF Goto
  <2>3. (\E op, r : Begin(c, op, r)) \/ (\E r : Goto(c, r))
    BY SilentFrame
  <2> QED BY <2>1, <2>2, <2>3
<1>3. ops' \in Nat
  BY <1>2 DEF Stored
<1> QED BY <1>1, <1>3, QuietStep

\* The steps of a client that end in a statement that changes a table.
Statement(c) ==
    \/ CreateTx(c) \/ UpdateTx(c) \/ Flush(c)
    \/ \E a \in Ids : Delete(c, a)
    \/ \E S \in Batches : BatchDelete(c, S)
    \/ \E S \in Batches, st \in Switches : BatchStatus(c, S, st)
    \/ BatchMove(c) \/ DeleteInvalid(c) \/ GroupDelete(c)

LEMMA Split ==
  ASSUME NEW c \in Clients
  PROVE  Request(c) <=> Silent(c) \/ Statement(c) \/ \E g \in Groups : GroupCreate(c, g)
BY DEF Request, Silent, Statement, Edit

LEMMA StatementMoves ==
  ASSUME TypeInv, IdsApart, NEW c \in Clients, Statement(c)
  PROVE  \E N, D, W : Step(N, D, W) /\ Stored' /\ Apart(c, N)
<1> USE DEF Apart
<1>1. Stored
  BY DEF TypeInv
<1>2. CASE CreateTx(c)
  BY <1>2, CreateTxMoves
<1>3. CASE UpdateTx(c)
  BY <1>3, UpdateTxMoves
<1>4. CASE Flush(c)
  BY <1>4, FlushMoves
<1>5. CASE \E a \in Ids : Delete(c, a)
  BY <1>1, <1>5, DeleteMoves
<1>6. CASE \E S \in Batches : BatchDelete(c, S)
  BY <1>1, <1>6, BatchDeleteMoves
<1>7. CASE \E S \in Batches, st \in Switches : BatchStatus(c, S, st)
  BY <1>1, <1>7, BatchStatusMoves
<1>8. CASE BatchMove(c)
  BY <1>8, BatchMoveMoves
<1>9. CASE DeleteInvalid(c)
  BY <1>9, DeleteInvalidMoves
<1>10. CASE GroupDelete(c)
  BY <1>10, GroupDeleteMoves
<1> QED BY <1>2, <1>3, <1>4, <1>5, <1>6, <1>7, <1>8, <1>9, <1>10 DEF Statement

-----------------------------------------------------------------------------
(* What a request has read stays true of the tables, whoever acts.         *)

\* A step of a client changes no other request, unless it creates a group.
LEMMA OthersSame ==
  ASSUME Asked, NEW c \in Clients, Silent(c) \/ Statement(c)
  PROVE  req' = [req EXCEPT ![c] = req'[c]]
<1>1. CASE \E op, r : Begin(c, op, r)
  BY <1>1 DEF Begin, Asked
<1>2. CASE \E r : Goto(c, r)
  BY <1>2 DEF Goto, Asked
<1>3. CASE req' = req
  BY <1>3 DEF Asked
<1>4. (\E op, r : Begin(c, op, r)) \/ (\E r : Goto(c, r)) \/ req' = req
  <2>1. CASE Silent(c)
    BY <2>1, SilentFrame
  <2>2. CASE Statement(c)
    BY <2>2 DEF Statement, CreateTx, UpdateTx, Flush, Delete, BatchDelete, BatchStatus, BatchMove, DeleteInvalid,
       GroupDelete, End, Once
  <2> QED BY <2>1, <2>2
<1> QED BY <1>1, <1>2, <1>3, <1>4

LEMMA Limits == MaxAccounts \in Int /\ MaxGroups \in Int /\ BatchSize \in Nat /\ PageSize \in Nat /\ PageSize > 0
BY MailboxAssumption DEF Unlimited

LEMMA StaleKept ==
  ASSUME Stored, Asked, NEW N, NEW D, NEW W, Step(N, D, W), NEW c \in Clients, req'[c] = req[c],
         groups' \subseteq groups \/ req[c].op # "group"
  PROVE  /\ CreateStale(req[c]) => CreateStale(req[c])'
         /\ ImportStale(req[c]) => ImportStale(req[c])'
         /\ GroupStale(req[c]) => GroupStale(req[c])'
         /\ DeleteStale(req[c]) => DeleteStale(req[c])'
         /\ Reported(req[c]) => Reported(req[c])'
<1> DEFINE r == req[c]
<1>1. /\ Cardinality(Live) \in Nat /\ Cardinality(Live') \in Nat /\ Cardinality(N) \in Nat
      /\ Cardinality(Live') <= Cardinality(Live) + Cardinality(N)
      /\ born \in Nat /\ born' \in Nat /\ born' >= born + Cardinality(N)
  BY Finite, Growth, FS_CardinalityType DEF Step, Stored
<1>2. CreateStale(r) => CreateStale(r)'
  <2> SUFFICES ASSUME CreateStale(r), r.op = "create", r.pc # "quota", MaxAccounts # Unlimited
               PROVE  Cardinality(Live') + 1 <= MaxAccounts + (born' - r.at)
    BY DEF CreateStale
  <2>1. r.at \in Nat /\ Cardinality(Live) + 1 <= MaxAccounts + (born - r.at)
    BY ReqOf DEF CreateReq, CreateStale
  <2> HIDE DEF r
  <2> QED BY <1>1, <2>1, Limits
<1>3. ImportStale(r) => ImportStale(r)'
  <2> DEFINE n == Cardinality(Inserts(r.batch))
  <2> SUFFICES ASSUME ImportStale(r), r.op = "import", r.pc # "count"
               PROVE  /\ Cardinality(Live') + r.mine + n <= r.used + (born' - r.at)
                      /\ n > 0 /\ MaxAccounts # Unlimited => r.used <= MaxAccounts
    BY DEF ImportStale
  <2>1. /\ r.at \in Nat /\ r.mine \in Nat /\ r.used \in Nat
        /\ Cardinality(Live) + r.mine + n <= r.used + (born - r.at)
        /\ n > 0 /\ MaxAccounts # Unlimited => r.used <= MaxAccounts
    BY ReqOf DEF ImportReq, ImportStale
  <2>2. n \in Nat
    BY ReqOf, BatchCounts DEF ImportReq
  <2> HIDE DEF r, n
  <2> QED BY <1>1, <2>1, <2>2
<1>4. GroupStale(r) => GroupStale(r)'
  <2> SUFFICES ASSUME GroupStale(r), r.op = "group", MaxGroups # Unlimited, groups' \subseteq groups
               PROVE  Cardinality(groups') + 1 <= MaxGroups + r.others
    BY DEF GroupStale
  <2>1. r.others \in Nat /\ Cardinality(groups) + 1 <= MaxGroups + r.others
    BY ReqOf DEF GroupReq, GroupStale
  <2>2. Cardinality(groups) \in Nat /\ Cardinality(groups') \in Nat /\ Cardinality(groups') <= Cardinality(groups)
    BY Finite, FS_Subset, FS_CardinalityType
  <2> HIDE DEF r
  <2> QED BY <2>1, <2>2, Limits
<1>5. DeleteStale(r) => DeleteStale(r)'
  <2> DEFINE was == {a \in Live : rows[a].group \in r.filter /\ rows[a].health = "invalid"}
             is  == {a \in Live' : rows'[a].group \in r.filter /\ rows'[a].health = "invalid"}
  <2> SUFFICES ASSUME DeleteStale(r), r.op = "invalid", r.pc = "delete"
               PROVE  Cardinality(is) <= r.expected + (stirred' - r.at)
    BY DEF DeleteStale, CountMailAccountsByHealth
  <2>1. r.expected \in Nat /\ r.at \in Nat /\ Cardinality(was) <= r.expected + (stirred - r.at)
    BY ReqOf DEF InvalidReq, DeleteStale, CountMailAccountsByHealth
  <2>2. Cardinality(is) \in Nat /\ Cardinality(is) <= Cardinality(was) + Cardinality(W)
    BY Growth
  <2>3. Cardinality(was) \in Nat /\ Cardinality(W) \in Nat
    BY Finite DEF Step, Moved
  <2>4. stirred \in Nat /\ stirred' \in Nat /\ stirred' >= stirred + Cardinality(W)
    BY DEF Step, Stored
  <2> HIDE DEF r, was, is
  <2> QED BY <2>1, <2>2, <2>3, <2>4
<1>6. Reported(r) => Reported(r)'
  BY DEF Reported
<1> QED BY <1>2, <1>3, <1>4, <1>5, <1>6

-----------------------------------------------------------------------------
(* The orders of the lists.                                                *)

\* Each sort key is an order by some number of the row, ties by id.
LEMMA Keyed ==
  ASSUME rows \in Table, NEW key \in SortKeys
  PROVE  \E f \in [Live -> Int] : \A a, b \in Live : Sorted(key, a, b) <=> Rank(f[a], f[b], a, b)
<1>1. \A a \in Live : rows[a].email \in Nat /\ rows[a].born \in Nat /\ rows[a].seen \in Nat
  BY RowStates, MailboxAssumption DEF Live, Table, Row
<1> DEFINE zero == [a \in Live |-> 0]
<1>2. CASE key \in {"sort_order/asc", "sort_order/desc"}
  <2>1. \A a, b \in Live : Sorted(key, a, b) <=> Rank(0, 0, a, b)
    BY <1>2 DEF Sorted, BySortOrderAsc, BySortOrderDesc
  <2>2. \A a, b \in Live : Sorted(key, a, b) <=> Rank(zero[a], zero[b], a, b)
    BY <2>1
  <2>3. zero \in [Live -> Int]
    OBVIOUS
  <2> QED BY <2>2, <2>3
<1>3. CASE key = "email/asc"
  <2> DEFINE f == [a \in Live |-> rows[a].email]
  <2>1. f \in [Live -> Int]
    BY <1>1
  <2>2. \A a, b \in Live : Sorted(key, a, b) <=> Rank(f[a], f[b], a, b)
    BY <1>1, <1>3 DEF Sorted, ByEmailAsc, Rank
  <2> QED BY <2>1, <2>2
<1>4. CASE key = "email/desc"
  <2> DEFINE f == [a \in Live |-> 0 - rows[a].email]
  <2>1. f \in [Live -> Int]
    BY <1>1
  <2>2. \A a, b \in Live : Sorted(key, a, b) <=> Rank(f[a], f[b], a, b)
    BY <1>1, <1>4 DEF Sorted, ByEmailDesc, Rank
  <2> QED BY <2>1, <2>2
<1>5. CASE key = "created_at/asc"
  <2> DEFINE f == [a \in Live |-> rows[a].born]
  <2>1. f \in [Live -> Int]
    BY <1>1
  <2>2. \A a, b \in Live : Sorted(key, a, b) <=> Rank(f[a], f[b], a, b)
    BY <1>1, <1>5 DEF Sorted, ByCreatedAtAsc, Rank
  <2> QED BY <2>1, <2>2
<1>6. CASE key = "created_at/desc"
  <2> DEFINE f == [a \in Live |-> 0 - rows[a].born]
  <2>1. f \in [Live -> Int]
    BY <1>1
  <2>2. \A a, b \in Live : Sorted(key, a, b) <=> Rank(f[a], f[b], a, b)
    BY <1>1, <1>6 DEF Sorted, ByCreatedAtDesc, Rank
  <2> QED BY <2>1, <2>2
<1>7. CASE key = "last_refresh_at/asc"
  <2> DEFINE f == [a \in Live |-> rows[a].seen]
  <2>1. f \in [Live -> Int]
    BY <1>1
  <2>2. \A a, b \in Live : Sorted(key, a, b) <=> Rank(f[a], f[b], a, b)
    BY <1>1, <1>7 DEF Sorted, ByLastRefreshAtAsc, Rank
  <2> QED BY <2>1, <2>2
<1>8. CASE key = "last_refresh_at/desc"
  <2> DEFINE f == [a \in Live |-> 0 - rows[a].seen]
  <2>1. f \in [Live -> Int]
    BY <1>1
  <2>2. \A a, b \in Live : Sorted(key, a, b) <=> Rank(f[a], f[b], a, b)
    BY <1>1, <1>8 DEF Sorted, ByLastRefreshAtDesc, Rank
  <2> QED BY <2>1, <2>2
<1> QED BY <1>2, <1>3, <1>4, <1>5, <1>6, <1>7, <1>8 DEF SortKeys

\* Of any two accounts one comes first, and none before itself or what it follows.
LEMMA Ordered ==
  ASSUME rows \in Table, NEW key \in SortKeys
  PROVE  /\ \A a \in Live : ~Sorted(key, a, a)
         /\ \A a, b \in Live : a # b => Sorted(key, a, b) \/ Sorted(key, b, a)
         /\ \A a, b, d \in Live : Sorted(key, a, b) /\ Sorted(key, b, d) => Sorted(key, a, d)
<1>1. PICK f \in [Live -> Int] : \A a, b \in Live : Sorted(key, a, b) <=> Rank(f[a], f[b], a, b)
  BY Keyed
<1>2. Live \subseteq Nat
  BY MailboxAssumption DEF Live
<1>3. \A x, y, z \in Int : \A a, b, d \in Nat :
        /\ ~Rank(x, x, a, a)
        /\ a # b => Rank(x, y, a, b) \/ Rank(y, x, b, a)
        /\ Rank(x, y, a, b) /\ Rank(y, z, b, d) => Rank(x, z, a, d)
  BY DEF Rank
<1> QED BY <1>1, <1>2, <1>3

\* The order of two accounts depends on their rows only.
LEMMA OrderKept ==
  ASSUME NEW key \in SortKeys, NEW a, NEW b, rows'[a] = rows[a], rows'[b] = rows[b]
  PROVE  Sorted(key, a, b)' <=> Sorted(key, a, b)
BY DEF SortKeys, Sorted, BySortOrderAsc, BySortOrderDesc, ByEmailAsc, ByEmailDesc, ByCreatedAtAsc, ByCreatedAtDesc,
   ByLastRefreshAtAsc, ByLastRefreshAtDesc

\* A family of finite sets has a member that contains no other: induction on finite sets.
LEMMA SmallestSet ==
  ASSUME NEW F, F # {}, \A X \in F : IsFiniteSet(X)
  PROVE  \E X \in F : \A Y \in F : Y \subseteq X => Y = X
<1> DEFINE U == UNION F
<1>1. F \subseteq FiniteSubsetsOf(U)
  BY DEF FiniteSubsetsOf
<1>2. IsWellFoundedOn(StrictSubsetOrdering(U), FiniteSubsetsOf(U))
  BY FS_StrictSubsetOrderingWellFounded
<1>3. \E X \in F : \A Y \in F : ~(<<Y, X>> \in StrictSubsetOrdering(U))
  <2> HIDE DEF U
  <2> QED BY <1>1, <1>2, WFMin
<1>4. PICK X \in F : \A Y \in F : ~(<<Y, X>> \in StrictSubsetOrdering(U))
  BY <1>3
<1>5. ASSUME NEW Y \in F, Y \subseteq X, Y # X PROVE FALSE
  <2>1. <<Y, X>> \in StrictSubsetOrdering(U)
    BY <1>5 DEF StrictSubsetOrdering
  <2> QED BY <2>1, <1>4
<1> QED BY <1>5

\* A finite set of accounts that is not empty has a last one in each order.
LEMMA HasLast ==
  ASSUME rows \in Table, NEW key \in SortKeys, NEW S \in SUBSET Live, IsFiniteSet(S), S # {}
  PROVE  \E m \in S : \A s \in S : s # m => Sorted(key, s, m)
<1> DEFINE F == {X \in SUBSET S : X # {} /\ ~ \E m \in X : \A s \in X : s # m => Sorted(key, s, m)}
<1>1. SUFFICES ASSUME F # {} PROVE FALSE
  OBVIOUS
<1>2. \A X \in F : IsFiniteSet(X)
  BY FS_Subset
<1>3. PICK X \in F : \A Y \in F : Y \subseteq X => Y = X
  <2> HIDE DEF F
  <2> QED BY <1>1, <1>2, SmallestSet
<1>4. PICK x \in X : TRUE
  OBVIOUS
<1>5. CASE X = {x}
  BY <1>5
<1>6. CASE X # {x}
  <2>1. X \ {x} \notin F /\ X \ {x} # {} /\ X \ {x} \in SUBSET S
    BY <1>3, <1>4, <1>6
  <2>2. PICK m \in X \ {x} : \A s \in X \ {x} : s # m => Sorted(key, s, m)
    BY <2>1
  <2>3. X \subseteq Live /\ x \in Live /\ m \in Live /\ x # m
    BY <1>4, <2>2
  <2>4. CASE Sorted(key, x, m)
    BY <2>2, <2>4
  <2>5. CASE Sorted(key, m, x)
    <3>1. \A s \in X : s # x => Sorted(key, s, x)
      BY <2>2, <2>3, <2>5, Ordered
    <3> QED BY <3>1, <1>4
  <2> QED BY <2>3, <2>4, <2>5, Ordered
<1> QED BY <1>5, <1>6

\* The accounts of S that come before a.
First(S, key, a) == {b \in S : Sorted(key, b, a)}

\* Among the accounts of a finite set each place is taken by one of them.
LEMMA PlacesTaken ==
  ASSUME rows \in Table, NEW key \in SortKeys, NEW S \in SUBSET Live, IsFiniteSet(S)
  PROVE  \A k \in Nat : k < Cardinality(S) => \E s \in S : Cardinality(First(S, key, s)) = k
<1> DEFINE Taken(X) == \A k \in Nat : k < Cardinality(X) => \E s \in X : Cardinality(First(X, key, s)) = k
           F == {X \in SUBSET S : ~Taken(X)}
<1>1. SUFFICES ASSUME F # {} PROVE FALSE
  OBVIOUS
<1>2. \A X \in F : IsFiniteSet(X)
  BY FS_Subset
<1>3. PICK X \in F : \A Y \in F : Y \subseteq X => Y = X
  <2> HIDE DEF F
  <2> QED BY <1>1, <1>2, SmallestSet
<1>4. IsFiniteSet(X) /\ X \in SUBSET Live /\ Cardinality(X) \in Nat
  BY <1>2, FS_CardinalityType
<1>5. X # {}
  <2> SUFFICES ASSUME X = {} PROVE Taken(X)
    BY <1>3
  <2> QED BY FS_EmptySet
<1>6. PICK m \in X : \A s \in X : s # m => Sorted(key, s, m)
  BY <1>4, <1>5, HasLast
<1> DEFINE Y == X \ {m}
<1>7. Y \in SUBSET S /\ Y \subseteq X /\ Y # X
  BY <1>6
<1>8. Taken(Y)
  BY <1>3, <1>7
<1>9. Cardinality(Y) = Cardinality(X) - 1 /\ IsFiniteSet(Y) /\ Cardinality(Y) \in Nat
  BY <1>4, <1>6, FS_RemoveElement, FS_CardinalityType
<1>10. ASSUME NEW k \in Nat, k < Cardinality(X)
       PROVE  \E s \in X : Cardinality(First(X, key, s)) = k
  <2>1. CASE k = Cardinality(X) - 1
    <3>1. First(X, key, m) = Y
      BY <1>4, <1>6, Ordered DEF First
    <3>2. Cardinality(First(X, key, m)) = k
      BY <1>9, <2>1, <3>1
    <3> QED BY <3>2
  <2>2. CASE k # Cardinality(X) - 1
    <3>1. k < Cardinality(Y)
      BY <2>2, <1>10, <1>4, <1>9
    <3>2. PICK s \in Y : Cardinality(First(Y, key, s)) = k
      BY <3>1, <1>8
    <3>3. ~Sorted(key, m, s)
      BY <1>4, <1>6, Ordered
    <3>4. First(Y, key, s) = First(X, key, s)
      BY <3>3 DEF First
    <3> QED BY <3>2, <3>4
  <2> QED BY <2>1, <2>2
<1>11. Taken(X)
  BY <1>10
<1> QED BY <1>3, <1>11

\* Places are numbered from 0, and no two accounts share one.
LEMMA PlacesApart ==
  ASSUME rows \in Table, NEW key \in SortKeys, NEW S \in SUBSET Live, IsFiniteSet(S)
  PROVE  /\ \A a \in S : Cardinality(First(S, key, a)) \in Nat /\ Cardinality(First(S, key, a)) < Cardinality(S)
         /\ \A a, b \in S : Cardinality(First(S, key, a)) = Cardinality(First(S, key, b)) => a = b
<1>1. \A a \in S : First(S, key, a) \subseteq S /\ a \notin First(S, key, a)
  BY Ordered DEF First
<1>2. ASSUME NEW a \in S
      PROVE  /\ IsFiniteSet(First(S, key, a)) /\ Cardinality(First(S, key, a)) \in Nat
             /\ Cardinality(First(S, key, a)) < Cardinality(S)
  <2>1. IsFiniteSet(First(S, key, a)) /\ Cardinality(First(S, key, a)) \in Nat /\ Cardinality(S) \in Nat
        /\ Cardinality(First(S, key, a)) <= Cardinality(S)
        /\ (Cardinality(S) = Cardinality(First(S, key, a)) => S = First(S, key, a))
    BY <1>1, FS_Subset, FS_CardinalityType
  <2>2. S # First(S, key, a)
    BY <1>1, <1>2
  <2> QED BY <2>1, <2>2
<1>3. ASSUME NEW a \in S, NEW b \in S, Sorted(key, a, b)
      PROVE  Cardinality(First(S, key, a)) < Cardinality(First(S, key, b))
  <2>1. First(S, key, a) \subseteq First(S, key, b)
    BY <1>3, Ordered DEF First
  <2>2. a \in First(S, key, b) /\ a \notin First(S, key, a)
    BY <1>1, <1>3 DEF First
  <2>3. /\ Cardinality(First(S, key, a)) <= Cardinality(First(S, key, b))
        /\ (Cardinality(First(S, key, b)) = Cardinality(First(S, key, a)) => First(S, key, b) = First(S, key, a))
    BY <2>1, <1>2, FS_Subset
  <2> HIDE DEF First
  <2> QED BY <2>2, <2>3, <1>2
<1>4. ASSUME NEW a \in S, NEW b \in S, a # b
      PROVE  Cardinality(First(S, key, a)) # Cardinality(First(S, key, b))
  <2>1. Sorted(key, a, b) \/ Sorted(key, b, a)
    BY <1>4, Ordered
  <2> QED BY <1>2, <1>3, <2>1
<1> QED BY <1>2, <1>4

LEMMA BeforeIsPlace == \A key, G, a : Before(key, G, a) = Cardinality(First(InGroups(G), key, a))
BY DEF Before, First

\* A page is the accounts whose places are its own.
LEMMA PageRows ==
  ASSUME Stored, NEW key \in SortKeys, NEW G, NEW page \in Nat \ {0}
  PROVE  LET q == ListMailAccountsPage(key, G, page) IN
         /\ q \in Seq(InGroups(G)) /\ Len(q) <= PageSize
         /\ Offset(page) \in Nat /\ Offset(page + 1) = Offset(page) + PageSize
         /\ \A i \in DOMAIN q : Before(key, G, q[i]) = Offset(page) + i - 1
         /\ \A a \in InGroups(G) : Before(key, G, a) \in Nat
         /\ \A a \in InGroups(G) : Before(key, G, a) >= Offset(page) =>
               \/ a \in ToSet(q)
               \/ Len(q) = PageSize /\ Before(key, G, a) >= Offset(page + 1)
<1> DEFINE q == ListMailAccountsPage(key, G, page)
           L == InGroups(G)
           o == Offset(page)
           n == Cardinality(L)
           B(a) == Before(key, G, a)
           left == n - o
<1>1. L \in SUBSET Live /\ IsFiniteSet(L) /\ n \in Nat
  BY Finite DEF InGroups
<1>2. o \in Nat /\ Offset(page + 1) = o + PageSize
  <2>1. page - 1 \in Nat /\ PageSize \in Nat
    BY Limits
  <2>2. \A x, y \in Nat : x * y \in Nat /\ (x + 1) * y = x * y + y
    OBVIOUS
  <2>3. page = (page - 1) + 1 /\ page = (page + 1) - 1
    OBVIOUS
  <2>4. page * PageSize = (page - 1) * PageSize + PageSize
    BY <2>1, <2>2, <2>3
  <2> QED BY <2>1, <2>2, <2>3, <2>4 DEF Offset
<1>3. /\ \A k \in Nat : k < n => \E s \in L : B(s) = k
      /\ \A a \in L : B(a) \in Nat /\ B(a) < n
      /\ \A a, b \in L : B(a) = B(b) => a = b
  BY <1>1, Finite, PlacesTaken, PlacesApart, BeforeIsPlace
<1>4. q = [i \in 1..(IF left < PageSize THEN left ELSE PageSize) |-> CHOOSE a \in L : B(a) = o + i - 1]
  BY DEF ListMailAccountsPage
<1> HIDE DEF q, L, o, n, B
<1>5. CASE left <= 0
  <2>1. left < PageSize /\ \A i \in Int : ~(1 <= i /\ i <= left)
    BY <1>1, <1>2, <1>5, Limits
  <2>2. 1..left = {}
    BY <2>1, <1>1, <1>2
  <2>3. q = <<>>
    <3>1. q = [i \in {} |-> CHOOSE a \in L : B(a) = o + i - 1]
      BY <1>4, <2>1, <2>2
    <3> QED BY <3>1
  <2>4. q \in Seq(L) /\ Len(q) = 0 /\ DOMAIN q = {}
    BY <2>3
  <2>5. \A a \in L : ~(B(a) >= o)
    BY <1>1, <1>2, <1>3, <1>5
  <2> QED BY <1>2, <1>3, <2>4, <2>5, Limits DEF q, L, o, n, B
<1>6. CASE left > 0
  <2> DEFINE m == IF left < PageSize THEN left ELSE PageSize
  <2>1. m \in Nat /\ m <= PageSize /\ o + m <= n /\ (m = PageSize \/ o + m = n)
    BY <1>1, <1>2, <1>6, Limits
  <2> DEFINE e(i) == CHOOSE a \in L : B(a) = o + i - 1
  <2>2. ASSUME NEW i \in 1..m PROVE e(i) \in L /\ B(e(i)) = o + i - 1
    <3>1. o + i - 1 \in Nat /\ o + i - 1 < n
      BY <1>1, <1>2, <2>1
    <3>2. \E s \in L : B(s) = o + i - 1
      BY <1>3, <3>1
    <3> QED BY <3>2
  <2>3. q = [i \in 1..m |-> e(i)]
    BY <1>4
  <2> HIDE DEF m, e
  <2>4. q \in [1..m -> L] /\ \A i \in 1..m : q[i] = e(i)
    BY <2>2, <2>3
  <2>5. q \in Seq(L) /\ Len(q) = m /\ DOMAIN q = 1..m
    BY <2>1, <2>4
  <2>6. ASSUME NEW a \in L, B(a) >= o
        PROVE  a \in ToSet(q) \/ (Len(q) = PageSize /\ B(a) >= o + PageSize)
    <3>1. CASE B(a) < o + m
      <4> DEFINE i == B(a) - o + 1
      <4>1. i \in 1..m /\ o + i - 1 = B(a)
        BY <1>2, <1>3, <2>1, <2>6, <3>1
      <4> HIDE DEF i
      <4>2. q[i] \in L /\ B(q[i]) = B(a)
        BY <2>2, <2>4, <4>1
      <4>3. q[i] = a
        BY <1>3, <4>2, <2>6
      <4> QED BY <2>5, <4>1, <4>3 DEF ToSet
    <3>2. CASE ~(B(a) < o + m)
      BY <1>1, <1>2, <1>3, <2>1, <2>5, <2>6, <3>2
    <3> QED BY <3>1, <3>2
  <2>7. \A i \in DOMAIN q : B(q[i]) = o + i - 1
    BY <2>2, <2>4, <2>5
  <2> QED BY <1>2, <1>3, <2>1, <2>5, <2>6, <2>7 DEF q, L, o, n, B
<1> QED BY <1>1, <1>2, <1>5, <1>6

\* Before counts accounts.
LEMMA PlaceIsNat ==
  ASSUME Stored, NEW key, NEW G, NEW a
  PROVE  Before(key, G, a) \in Nat /\ IsFiniteSet(First(InGroups(G), key, a))
<1>1. First(InGroups(G), key, a) \in SUBSET Used
  BY Finite DEF First, InGroups
<1> QED BY <1>1, Finite, BeforeIsPlace

\* While rows are only inserted, an account keeps its place or moves back ...
LEMMA PlaceGrows ==
  ASSUME Stored, Stored', NEW key \in SortKeys, NEW G, NEW a,
         rows'[a] = rows[a], \A b \in Live : b \in Live' /\ rows'[b] = rows[b]
  PROVE  Before(key, G, a)' >= Before(key, G, a)
<1> DEFINE F == First(InGroups(G), key, a)
           H == {b \in Live' : rows'[b].group \in G /\ Sorted(key, b, a)'}
<1>1. \A b \in F : b \in Live /\ rows[b].group \in G /\ Sorted(key, b, a)
  BY DEF First, InGroups
<1>2. F \subseteq H
  BY <1>1, OrderKept
<1>3. Before(key, G, a)' = Cardinality(H)
  <2>1. H = {b \in {x \in Live' : rows'[x].group \in G} : Sorted(key, b, a)'}
    OBVIOUS
  <2> QED BY <2>1 DEF Before, InGroups
<1>4. Stored' => IsFiniteSet(H) /\ Cardinality(H) \in Nat
  <2>1. H \subseteq Used'
    BY DEF Live, Used
  <2>2. Stored' => IsFiniteSet(Used')
    BY DEF Stored
  <2> HIDE DEF H
  <2> QED BY <2>1, <2>2, FS_Subset, FS_CardinalityType
<1>5. Before(key, G, a) = Cardinality(F)
  BY BeforeIsPlace
<1> HIDE DEF F, H
<1>6. Cardinality(F) <= Cardinality(H)
  BY <1>2, <1>4, FS_Subset
<1>7. Cardinality(F) \in Nat
  BY <1>5, PlaceIsNat
<1> QED BY <1>3, <1>4, <1>5, <1>6, <1>7

\* ... and while they are only deleted, it keeps it or moves up.
LEMMA PlaceShrinks ==
  ASSUME Stored, Stored', NEW key \in SortKeys, NEW G, NEW a,
         rows'[a] = rows[a], \A b \in Live' : b \in Live /\ rows'[b] = rows[b]
  PROVE  Before(key, G, a)' <= Before(key, G, a)
<1> DEFINE F == First(InGroups(G), key, a)
           H == {b \in Live' : rows'[b].group \in G /\ Sorted(key, b, a)'}
<1>1. \A b \in H : b \in Live /\ rows[b].group \in G /\ Sorted(key, b, a)
  BY OrderKept
<1>2. H \subseteq F
  BY <1>1 DEF First, InGroups
<1>3. Before(key, G, a)' = Cardinality(H)
  <2>1. H = {b \in {x \in Live' : rows'[x].group \in G} : Sorted(key, b, a)'}
    OBVIOUS
  <2> QED BY <2>1 DEF Before, InGroups
<1>4. IsFiniteSet(F) /\ Before(key, G, a) = Cardinality(F)
  BY BeforeIsPlace, PlaceIsNat
<1> HIDE DEF F, H
<1>5. Cardinality(H) <= Cardinality(F)
  BY <1>2, <1>4, FS_Subset
<1> QED BY <1>3, <1>4, <1>5

\* What a list has shown, after a step of another request.
LEMMA ListedKept ==
  ASSUME Stored, Stored', NEW N, NEW D, NEW W, Step(N, D, W), NEW r \in ListReq, Listed(r)
  PROVE  Listed(r)'
<1>1. /\ Used' = Used \union N
      /\ Live' = (Live \ D) \union N
      /\ born <= born' /\ gone <= gone' /\ stirred <= stirred'
      /\ born' = born => N = {}
      /\ gone' = gone => D = {}
      /\ stirred' = stirred => W = {}
  BY Effects
<1>2. born \in Nat /\ gone \in Nat /\ stirred \in Nat /\ born' \in Nat /\ gone' \in Nat /\ stirred' \in Nat
  BY DEF Stored
<1>3. /\ r.born \in Nat /\ r.gone \in Nat /\ r.stirred \in Nat /\ r.key \in SortKeys /\ r.page \in Nat \ {0}
      /\ r.op = "list" /\ r.out \in Seq(Ids)
  BY DEF ListReq
<1>4. /\ r.born <= born /\ r.gone <= gone /\ r.stirred <= stirred
      /\ r.stirred = stirred => (r.gone = gone => NoneMissed(r)) /\ (r.born = born => NoneTwice(r))
  BY <1>3 DEF Listed
<1>5. r.born <= born' /\ r.gone <= gone' /\ r.stirred <= stirred'
  BY <1>1, <1>2, <1>3, <1>4
<1>6. Offset(r.page)' = Offset(r.page) /\ Offset(r.page) \in Nat
  <2>1. Offset(r.page) \in Nat
    BY <1>3, PageRows
  <2> QED BY <2>1 DEF Offset
<1>7. ASSUME r.stirred = stirred', r.gone = gone' PROVE NoneMissed(r)'
  <2>1. r.stirred = stirred /\ r.gone = gone /\ D = {} /\ W = {}
    BY <1>1, <1>2, <1>3, <1>4, <1>7
  <2>2. NoneMissed(r)
    BY <1>4, <2>1
  <2>3. \A b \in Live : b \in Live' /\ rows'[b] = rows[b]
    BY <1>1, <2>1 DEF Step, Moved, Live, Used
  <2>4. r.here \subseteq InGroups(r.filter)'
    BY <2>2, <2>3 DEF NoneMissed, InGroups
  <2>5. ASSUME NEW a \in r.here
        PROVE  a \in ToSet(r.out) \/ (r.pc = "page" /\ Before(r.key, r.filter, a)' >= Offset(r.page)')
    <3>1. a \in Live
      BY <2>2 DEF NoneMissed, InGroups
    <3>2. Before(r.key, r.filter, a)' >= Before(r.key, r.filter, a)
      BY <1>3, <2>3, <3>1, PlaceGrows
    <3>3. Before(r.key, r.filter, a) \in Nat
      BY PlaceIsNat
    <3>4. Before(r.key, r.filter, a)' \in Nat
      <4>1. {b \in {x \in Live' : rows'[x].group \in r.filter} : Sorted(r.key, b, a)'} \subseteq Used'
        BY DEF Live, Used
      <4>2. IsFiniteSet(Used')
        BY DEF Stored
      <4> QED BY <4>1, <4>2, FS_Subset, FS_CardinalityType DEF Before, InGroups
    <3>5. a \in ToSet(r.out) \/ (r.pc = "page" /\ Before(r.key, r.filter, a) >= Offset(r.page))
      BY <2>2, <2>5 DEF NoneMissed
    <3> QED BY <1>6, <3>2, <3>3, <3>4, <3>5
  <2> QED BY <2>4, <2>5 DEF NoneMissed
<1>8. ASSUME r.stirred = stirred', r.born = born' PROVE NoneTwice(r)'
  <2>1. r.stirred = stirred /\ r.born = born /\ N = {} /\ W = {}
    BY <1>1, <1>2, <1>3, <1>4, <1>8
  <2>2. NoneTwice(r)
    BY <1>4, <2>1
  <2>3. \A b \in Live' : b \in Live /\ rows'[b] = rows[b]
    BY <1>1, <2>1 DEF Step, Moved, Live, Used
  <2>4. InGroups(r.filter)' \subseteq r.here
    BY <2>2, <2>3 DEF NoneTwice, InGroups
  <2>5. ToSet(r.out) \subseteq r.here /\ IsInjective(r.out)
    BY <2>2 DEF NoneTwice
  <2>6. ASSUME r.pc = "page", NEW a \in ToSet(r.out) \intersect Live'
        PROVE  Before(r.key, r.filter, a)' < Offset(r.page)'
    <3>1. a \in Live /\ rows'[a] = rows[a]
      BY <2>3, <2>6
    <3>2. Before(r.key, r.filter, a)' <= Before(r.key, r.filter, a)
      BY <1>3, <2>3, <3>1, PlaceShrinks
    <3>3. Before(r.key, r.filter, a) \in Nat
      BY PlaceIsNat
    <3>4. Before(r.key, r.filter, a) < Offset(r.page)
      BY <2>2, <2>6, <3>1 DEF NoneTwice
    <3>5. Before(r.key, r.filter, a)' \in Nat
      <4>1. {b \in {x \in Live' : rows'[x].group \in r.filter} : Sorted(r.key, b, a)'} \subseteq Used'
        BY DEF Live, Used
      <4>2. IsFiniteSet(Used')
        BY DEF Stored
      <4> QED BY <4>1, <4>2, FS_Subset, FS_CardinalityType DEF Before, InGroups
    <3> QED BY <1>6, <3>2, <3>3, <3>4, <3>5
  <2>7. r.pc = "page" => \A a \in ToSet(r.out) \intersect Live' : Before(r.key, r.filter, a)' < Offset(r.page)'
    BY <2>6
  <2> QED BY <2>4, <2>5, <2>7 DEF NoneTwice
<1> QED BY <1>5, <1>7, <1>8 DEF Listed

-----------------------------------------------------------------------------
(* The request of the client that takes the step.                          *)

Fit(c) == req[c] \in Requests /\ (req[c] = Idle \/ req[c].op \in Menu)
Own(c) == /\ Fit(c)
          /\ CreateStale(req[c]) /\ ImportStale(req[c]) /\ GroupStale(req[c]) /\ DeleteStale(req[c])
          /\ Reported(req[c])
          /\ Listed(req[c])

Inv == TypeInv /\ IdsApart /\ ChecksInv /\ ReportInv /\ ListInv

LEMMA OwnOf == Inv <=> Stored /\ req \in [Clients -> Requests] /\ IdsApart /\ \A c \in Clients : Own(c)
BY DEF Inv, TypeInv, Asked, ChecksInv, ReportInv, ListInv, Own, Fit

\* Requests of whose kind no invariant speaks.
LEMMA PlainOwn ==
  ASSUME NEW c \in Clients, req'[c] \in Requests,
         req'[c] = Idle \/ req'[c].op \in Menu \intersect {"update", "move", "ungroup"}
  PROVE  Own(c)'
<1>1. req'[c].op \notin {"create", "import", "group", "invalid", "list"}
  BY DEF Idle
<1> QED BY <1>1 DEF Own, Fit, CreateStale, ImportStale, GroupStale, DeleteStale, Reported, Listed

LEMMA IdleOwn ==
  ASSUME NEW c \in Clients, req'[c] = Idle
  PROVE  Own(c)'
BY PlainOwn DEF Requests

LEMMA OwnKept ==
  ASSUME Stored, Stored', Asked, NEW N, NEW D, NEW W, Step(N, D, W), NEW c \in Clients, Own(c), req'[c] = req[c],
         groups' \subseteq groups \/ req[c].op # "group"
  PROVE  Own(c)'
<1>1. Fit(c)'
  BY DEF Own, Fit
<1>2. /\ CreateStale(req[c])' /\ ImportStale(req[c])' /\ GroupStale(req[c])' /\ DeleteStale(req[c])' /\ Reported(req[c])'
  BY StaleKept DEF Own
<1>3. Listed(req[c])'
  <2>1. CASE req[c].op = "list"
    <3>1. req[c] \in ListReq /\ Listed(req[c])
      BY <2>1, ReqOf DEF Own
    <3>2. PICK r \in ListReq : r = req[c]
      BY <3>1
    <3>3. Listed(r)'
      BY <3>1, <3>2, ListedKept
    <3> QED BY <3>2, <3>3
  <2>2. CASE req[c].op # "list"
    BY <2>2 DEF Listed
  <2> QED BY <2>1, <2>2
<1> QED BY <1>1, <1>2, <1>3 DEF Own

LEMMA Ops ==
  ASSUME Asked, NEW c \in Clients, req[c].op # "idle"
  PROVE  req[c].op \in Menu
BY DEF Asked, Idle

LEMMA CreateOwn ==
  ASSUME Stored, Quiet, NEW c \in Clients, req'[c] \in CreateReq, req'[c].op \in Menu, CreateStale(req[c])'
  PROVE  Own(c)'
BY DEF Own, Fit, Requests, CreateReq, ImportStale, GroupStale, DeleteStale, Reported, Listed

LEMMA OwnCreate ==
  ASSUME Stored, Asked, NEW c \in Clients, Own(c),
         \/ \E e \in Emails, g \in AllGroups, al \in AliasSets : CreateBegin(c, e, g, al)
         \/ EnsureAccountQuota(c) \/ EnsureEmailAvailable(c) \/ ValidateAliases(c)
  PROVE  Own(c)'
<1> DEFINE r == req[c]
<1>1. ASSUME NEW e \in Emails, NEW g \in AllGroups, NEW al \in AliasSets, CreateBegin(c, e, g, al)
      PROVE  Own(c)'
  <2>1. req'[c] = [op |-> "create", pc |-> "quota", email |-> e, group |-> g, alias |-> al, at |-> 0, mine |-> 0]
        /\ "create" \in Menu
    BY <1>1, BeginFrame DEF CreateBegin
  <2>2. req'[c] \in CreateReq /\ CreateStale(req[c])'
    BY <2>1 DEF CreateReq, CreateStale
  <2> QED BY <1>1, <2>1, <2>2, CreateOwn DEF CreateBegin
<1>2. CASE EnsureAccountQuota(c)
  <2>1. CASE req'[c] = Idle
    BY <2>1, IdleOwn
  <2>2. CASE req'[c] # Idle
    <3>1. r \in CreateReq /\ r.op \in Menu
      BY <1>2, ReqOf, Ops DEF EnsureAccountQuota, At
    <3>2. req'[c] = [r EXCEPT !.pc = "email", !.at = born] /\ CheckCount(MaxAccounts, CountMailAccounts, 1) /\ Quiet
      BY <1>2, <2>2, Frame DEF EnsureAccountQuota, End
    <3>3. req'[c] \in CreateReq /\ req'[c].op \in Menu /\ req'[c].at = born
      BY <3>1, <3>2 DEF CreateReq, Stored
    <3>4. (MaxAccounts # Unlimited => Cardinality(Live) + 1 <= MaxAccounts) /\ Live' = Live /\ born' = born
      BY <3>2 DEF CheckCount, CountMailAccounts, Quiet, Live
    <3>5. MaxAccounts # Unlimited => Cardinality(Live') + 1 <= MaxAccounts + (born' - born)
      BY <3>4, Limits DEF Stored
    <3>6. CreateStale(req[c])'
      BY <3>3, <3>5 DEF CreateStale
    <3> QED BY <3>2, <3>3, <3>6, CreateOwn
  <2> QED BY <2>1, <2>2
<1>3. ASSUME r.op = "create", r.pc # "quota", NEW p \in {"alias", "tx"}, req'[c] = [r EXCEPT !.pc = p], Quiet
      PROVE  Own(c)'
  <2>1. r \in CreateReq /\ r.op \in Menu
    BY <1>3, ReqOf, Ops
  <2>2. req'[c] \in CreateReq /\ req'[c].op \in Menu /\ req'[c].at = r.at
    BY <1>3, <2>1 DEF CreateReq
  <2>3. MaxAccounts # Unlimited => Cardinality(Live) + 1 <= MaxAccounts + (born - r.at)
    BY <1>3 DEF Own, CreateStale
  <2>4. Live' = Live /\ born' = born
    BY <1>3 DEF Quiet, Live
  <2>5. CreateStale(req[c])'
    BY <2>2, <2>3, <2>4 DEF CreateStale
  <2> QED BY <1>3, <2>2, <2>5, CreateOwn
<1>4. CASE EnsureEmailAvailable(c)
  <2>1. req'[c] = Idle \/ req'[c] = [r EXCEPT !.pc = "alias"]
    BY <1>4, Frame DEF EnsureEmailAvailable, End
  <2>2. r.op = "create" /\ r.pc # "quota" /\ Quiet
    BY <1>4 DEF EnsureEmailAvailable, At
  <2> QED BY <1>3, <2>1, <2>2, IdleOwn
<1>5. CASE ValidateAliases(c)
  <2>1. req'[c] = Idle \/ req'[c] = [r EXCEPT !.pc = "tx"]
    BY <1>5, Frame DEF ValidateAliases, End
  <2>2. r.op \in {"create", "update"} /\ r.pc # "quota" /\ Quiet
    BY <1>5 DEF ValidateAliases
  <2>3. ASSUME r.op = "update", req'[c] = [r EXCEPT !.pc = "tx"] PROVE Own(c)'
    <3>1. r \in UpdateReq /\ r.op \in Menu
      BY <2>3, ReqOf, Ops
    <3>2. req'[c] \in UpdateReq /\ req'[c].op \in Menu /\ req'[c].op = "update"
      BY <2>3, <3>1 DEF UpdateReq
    <3> QED BY <3>2, PlainOwn DEF Requests
  <2> QED BY <1>3, <2>1, <2>2, <2>3, IdleOwn
<1> QED BY <1>1, <1>2, <1>4, <1>5

LEMMA OwnPlain ==
  ASSUME Stored, Asked, NEW c \in Clients,
         \/ Edit(c)
         \/ \E S \in Batches, g \in AllGroups : BatchMoveBegin(c, S, g)
         \/ \E g \in Groups : GroupDeleteBegin(c, g)
         \/ ImportEnd(c) \/ GroupDeleteEnd(c) \/ CollectEnd(c)
  PROVE  Own(c)'
<1>1. CASE Edit(c)
  <2>0. PICK a \in Live : \E g \in AllGroups, inputs, given \in BOOLEAN, al \in AliasSets :
             \E st \in Switches \union {rows[a].status} : UpdateBegin(c, a, g, st, inputs, given, al)
    BY <1>1 DEF Edit
  <2>1. PICK g \in AllGroups, inputs \in BOOLEAN, given \in BOOLEAN, al \in AliasSets,
             st \in Switches \union {rows[a].status} : UpdateBegin(c, a, g, st, inputs, given, al)
    BY <2>0
  <2>2. rows[a] \in Row /\ a \in Ids
    BY <2>1, Finite, RowStates DEF GetMailAccount, Table, Live
  <2>3. rows[a].email \in Emails /\ st \in Statuses
    BY <2>2, MailboxAssumption DEF Row
  <2>4. req'[c] = [op |-> "update", pc |-> IF given THEN "alias" ELSE "tx",
                   id |-> a, email |-> rows[a].email, group |-> g, status |-> st,
                   changed |-> LoginInputsChanged(inputs, rows[a].status, st),
                   given |-> given, alias |-> al] /\ "update" \in Menu
    BY <2>1, BeginFrame DEF UpdateBegin
  <2>5. LoginInputsChanged(inputs, rows[a].status, st) \in BOOLEAN
    BY DEF LoginInputsChanged
  <2>6. req'[c] \in UpdateReq /\ req'[c].op = "update"
    BY <2>2, <2>3, <2>4, <2>5 DEF UpdateReq
  <2> QED BY <2>4, <2>6, PlainOwn DEF Requests
<1>2. ASSUME NEW S \in Batches, NEW g \in AllGroups, BatchMoveBegin(c, S, g) PROVE Own(c)'
  <2>1. req'[c] = [op |-> "move", pc |-> "tx", ids |-> S, group |-> g] /\ "move" \in Menu
    BY <1>2, BeginFrame DEF BatchMoveBegin
  <2>2. req'[c] \in MoveReq /\ req'[c].op = "move"
    BY <2>1 DEF MoveReq
  <2> QED BY <2>1, <2>2, PlainOwn DEF Requests
<1>3. ASSUME NEW g \in Groups, GroupDeleteBegin(c, g) PROVE Own(c)'
  <2>1. req'[c] = [op |-> "ungroup", pc |-> "tx", group |-> g] /\ "ungroup" \in Menu
    BY <1>3, BeginFrame DEF GroupDeleteBegin
  <2>2. req'[c] \in UngroupReq /\ req'[c].op = "ungroup"
    BY <2>1 DEF UngroupReq
  <2> QED BY <2>1, <2>2, PlainOwn DEF Requests
<1>4. CASE ImportEnd(c) \/ GroupDeleteEnd(c) \/ CollectEnd(c)
  <2>1. req'[c] = Idle
    BY <1>4, Frame DEF ImportEnd, GroupDeleteEnd, CollectEnd, End
  <2> QED BY <2>1, IdleOwn
<1> QED BY <1>1, <1>2, <1>3, <1>4

LEMMA OwnInvalid ==
  ASSUME Stored, Asked, NEW c \in Clients, (\E G \in Filters : ConfirmInvalid(c, G)) \/ CheckExpected(c)
  PROVE  Own(c)'
<1>1. ASSUME NEW G, CountMailAccountsByHealth(G, "invalid") \notin Nat PROVE FALSE
  BY <1>1, Finite DEF CountMailAccountsByHealth
<1>2. ASSUME req'[c] \in InvalidReq, req'[c].op \in Menu, DeleteStale(req[c])' PROVE Own(c)'
  BY <1>2 DEF Own, Fit, Requests, InvalidReq, CreateStale, ImportStale, GroupStale, Reported, Listed
<1>3. ASSUME NEW G \in Filters, ConfirmInvalid(c, G) PROVE Own(c)'
  <2>1. req'[c] = [op |-> "invalid", pc |-> "stats", filter |-> G,
                   expected |-> CountMailAccountsByHealth(G, "invalid"), at |-> 0] /\ "invalid" \in Menu
    BY <1>3, BeginFrame DEF ConfirmInvalid
  <2>2. req'[c] \in InvalidReq
    BY <1>1, <2>1 DEF InvalidReq
  <2>3. DeleteStale(req[c])'
    BY <2>1 DEF DeleteStale
  <2> QED BY <1>2, <2>1, <2>2, <2>3
<1>4. CASE CheckExpected(c)
  <2> DEFINE r == req[c]
             n == CountMailAccountsByHealth(r.filter, "invalid")
  <2>1. CASE req'[c] = Idle
    BY <2>1, IdleOwn
  <2>2. CASE req'[c] # Idle
    <3>1. r \in InvalidReq /\ r.op \in Menu
      BY <1>4, ReqOf, Ops DEF CheckExpected, At
    <3>2. req'[c] = [r EXCEPT !.pc = "delete", !.at = stirred] /\ r.expected = n /\ Quiet
      BY <1>4, <2>2, Frame DEF CheckExpected, End
    <3>3. req'[c] \in InvalidReq /\ req'[c].op \in Menu /\ req'[c].at = stirred /\ req'[c].expected = r.expected
          /\ req'[c].filter = r.filter
      BY <3>1, <3>2 DEF InvalidReq, Stored
    <3>4. n = Cardinality({a \in Live : rows[a].group \in r.filter /\ rows[a].health = "invalid"}) /\ n \in Nat
      BY <1>1 DEF CountMailAccountsByHealth
    <3>5. stirred' = stirred /\ rows' = rows /\ stirred \in Nat
      BY <3>2 DEF Quiet, Stored
    <3>6. CountMailAccountsByHealth(req[c].filter, "invalid")' = n
      BY <3>3, <3>4, <3>5 DEF CountMailAccountsByHealth, Live
    <3>7. n <= r.expected + (stirred' - stirred)
      BY <3>2, <3>4, <3>5
    <3>8. DeleteStale(req[c])'
      BY <3>3, <3>6, <3>7 DEF DeleteStale
    <3> QED BY <1>2, <3>3, <3>8
  <2> QED BY <2>1, <2>2
<1> QED BY <1>3, <1>4

LEMMA OwnGroup ==
  ASSUME Stored, Asked, NEW c \in Clients, GroupCreateBegin(c)
  PROVE  Own(c)'
<1>1. req'[c] = [op |-> "group", pc |-> "insert", others |-> 0] /\ "group" \in Menu
  BY BeginFrame DEF GroupCreateBegin
<1>2. (MaxGroups # Unlimited => Cardinality(groups) + 1 <= MaxGroups) /\ groups' = groups
  BY DEF GroupCreateBegin, CheckCount, CountMailGroups, Quiet
<1>3. req'[c] \in GroupReq
  BY <1>1 DEF GroupReq
<1>4. MaxGroups # Unlimited => Cardinality(groups') + 1 <= MaxGroups + 0
  BY <1>2, Limits
<1>5. GroupStale(req[c])'
  BY <1>1, <1>4 DEF GroupStale
<1> QED BY <1>1, <1>3, <1>5 DEF Own, Fit, Requests, GroupReq, CreateStale, ImportStale, DeleteStale, Reported, Listed

LEMMA ToSetConcat ==
  ASSUME NEW S, NEW p \in Seq(S), NEW q \in Seq(S)
  PROVE  /\ p \o q \in Seq(S)
         /\ ToSet(p \o q) = ToSet(p) \union ToSet(q)
         /\ IsInjective(p) /\ IsInjective(q) /\ ToSet(p) \intersect ToSet(q) = {} => IsInjective(p \o q)
<1> DEFINE m == Len(p)
           n == Len(q)
           pq == p \o q
<1>1. m \in Nat /\ n \in Nat /\ DOMAIN p = 1..m /\ DOMAIN q = 1..n
  OBVIOUS
<1>2. pq \in Seq(S) /\ Len(pq) = m + n /\ \A i \in 1..m + n : pq[i] = IF i <= m THEN p[i] ELSE q[i - m]
  BY ConcatProperties
<1>3. DOMAIN pq = 1..m + n
  BY <1>1, <1>2
<1> HIDE DEF m, n, pq
<1>4. \A i \in 1..m : i \in 1..m + n /\ pq[i] = p[i]
  BY <1>1, <1>2
<1>5. \A i \in 1..n : m + i \in 1..m + n /\ pq[m + i] = q[i]
  <2> TAKE i \in 1..n
  <2>1. m + i \in 1..m + n /\ ~(m + i <= m) /\ (m + i) - m = i
    BY <1>1
  <2> QED BY <1>2, <2>1
<1>6. \A k \in 1..m + n : (k \in 1..m /\ pq[k] = p[k]) \/ (k - m \in 1..n /\ pq[k] = q[k - m])
  BY <1>1, <1>2
<1>7. ToSet(pq) \subseteq ToSet(p) \union ToSet(q)
  BY <1>1, <1>3, <1>6 DEF ToSet
<1>8. ToSet(p) \union ToSet(q) \subseteq ToSet(pq)
  BY <1>1, <1>3, <1>4, <1>5 DEF ToSet
<1>9. ASSUME IsInjective(p), IsInjective(q), ToSet(p) \intersect ToSet(q) = {} PROVE IsInjective(pq)
  <2> SUFFICES ASSUME NEW j \in 1..m + n, NEW k \in 1..m + n, pq[j] = pq[k] PROVE j = k
    BY <1>3 DEF IsInjective
  <2>1. \A x \in 1..m : p[x] \in ToSet(p)
    BY <1>1 DEF ToSet
  <2>2. \A x \in 1..n : q[x] \in ToSet(q)
    BY <1>1 DEF ToSet
  <2>3. CASE j \in 1..m /\ pq[j] = p[j] /\ k \in 1..m /\ pq[k] = p[k]
    BY <1>1, <1>9, <2>3 DEF IsInjective
  <2>4. CASE j - m \in 1..n /\ pq[j] = q[j - m] /\ k - m \in 1..n /\ pq[k] = q[k - m]
    <3>1. j - m = k - m
      BY <1>1, <1>9, <2>4 DEF IsInjective
    <3> QED BY <1>1, <3>1
  <2>5. CASE j \in 1..m /\ pq[j] = p[j] /\ k - m \in 1..n /\ pq[k] = q[k - m]
    BY <1>9, <2>1, <2>2, <2>5
  <2>6. CASE k \in 1..m /\ pq[k] = p[k] /\ j - m \in 1..n /\ pq[j] = q[j - m]
    BY <1>9, <2>1, <2>2, <2>6
  <2> QED BY <1>6, <2>3, <2>4, <2>5, <2>6
<1> QED BY <1>2, <1>7, <1>8, <1>9 DEF pq

\* The next page adds what it should to what was shown.
LEMMA PageListed ==
  ASSUME Stored, NEW r \in ListReq, Listed(r), r.pc = "page", NEW s \in ListReq,
         LET q == ListMailAccountsPage(r.key, r.filter, r.page) IN
         s = [r EXCEPT !.out = @ \o q, !.page = @ + 1, !.pc = IF Len(q) < PageSize THEN "done" ELSE "page"]
  PROVE  Listed(s)
<1> DEFINE q == ListMailAccountsPage(r.key, r.filter, r.page)
           L == InGroups(r.filter)
           B(a) == Before(r.key, r.filter, a)
<1>1. /\ r.key \in SortKeys /\ r.page \in Nat \ {0} /\ r.op = "list" /\ r.out \in Seq(Ids) /\ s.op = "list"
      /\ s.key = r.key /\ s.filter = r.filter /\ s.here = r.here /\ s.out = r.out \o q /\ s.page = r.page + 1
      /\ s.pc = (IF Len(q) < PageSize THEN "done" ELSE "page")
      /\ s.born = r.born /\ s.gone = r.gone /\ s.stirred = r.stirred
  BY DEF ListReq
<1>2. /\ q \in Seq(L) /\ Len(q) <= PageSize
      /\ Offset(r.page) \in Nat /\ Offset(r.page + 1) = Offset(r.page) + PageSize
      /\ \A i \in DOMAIN q : B(q[i]) = Offset(r.page) + i - 1
      /\ \A a \in L : B(a) \in Nat
      /\ \A a \in L : B(a) >= Offset(r.page) => a \in ToSet(q) \/ (Len(q) = PageSize /\ B(a) >= Offset(r.page + 1))
  BY <1>1, PageRows
<1>3. L \subseteq Live /\ L \subseteq Ids
  BY Finite DEF InGroups
<1>4. q \in Seq(Ids)
  BY <1>2, <1>3, SeqMonotonic
<1>5. Len(q) \in Nat /\ DOMAIN q = 1..Len(q) /\ \A i \in DOMAIN q : q[i] \in L
  <2> HIDE DEF q, L
  <2> QED BY <1>2
<1>6. ToSet(s.out) = ToSet(r.out) \union ToSet(q)
  BY <1>1, <1>4, ToSetConcat
<1> HIDE DEF q, L, B
<1>7. /\ r.born <= born /\ r.gone <= gone /\ r.stirred <= stirred
      /\ r.stirred = stirred => (r.gone = gone => NoneMissed(r)) /\ (r.born = born => NoneTwice(r))
  BY <1>1 DEF Listed
<1>8. ASSUME NoneMissed(r) PROVE NoneMissed(s)
  <2>1. r.here \subseteq L /\ \A a \in r.here : a \in ToSet(r.out) \/ B(a) >= Offset(r.page)
    BY <1>8 DEF NoneMissed, L, B
  <2>2. ASSUME NEW a \in r.here, a \notin ToSet(s.out) PROVE s.pc = "page" /\ B(a) >= Offset(s.page)
    <3>1. Len(q) = PageSize /\ B(a) >= Offset(r.page + 1)
      BY <1>2, <1>6, <2>1, <2>2
    <3> QED BY <1>1, <3>1, Limits
  <2> QED BY <1>1, <2>1, <2>2 DEF NoneMissed, L, B
<1>9. ASSUME NoneTwice(r) PROVE NoneTwice(s)
  <2>1. /\ L \subseteq r.here /\ ToSet(r.out) \subseteq r.here /\ IsInjective(r.out)
        /\ \A a \in ToSet(r.out) \intersect Live : B(a) < Offset(r.page)
    BY <1>9 DEF NoneTwice, L, B
  <2>2. \A a \in ToSet(q) : a \in L /\ B(a) \in Nat /\ B(a) >= Offset(r.page) /\ B(a) < Offset(r.page + 1)
    <3> SUFFICES ASSUME NEW i \in DOMAIN q
                 PROVE  q[i] \in L /\ B(q[i]) \in Nat /\ B(q[i]) >= Offset(r.page) /\ B(q[i]) < Offset(r.page + 1)
      BY DEF ToSet
    <3>1. q[i] \in L /\ B(q[i]) = Offset(r.page) + i - 1 /\ B(q[i]) \in Nat
      BY <1>2, <1>5
    <3>2. i \in Nat /\ 1 <= i /\ i <= PageSize
      BY <1>2, <1>5, Limits
    <3> QED BY <1>2, <3>1, <3>2, Limits
  <2>3. IsInjective(q)
    <3> SUFFICES ASSUME NEW i \in DOMAIN q, NEW j \in DOMAIN q, q[i] = q[j] PROVE i = j
      BY DEF IsInjective
    <3>1. Offset(r.page) + i - 1 = Offset(r.page) + j - 1 /\ i \in Nat /\ j \in Nat
      BY <1>2, <1>5
    <3> QED BY <1>2, <3>1
  <2>4. ToSet(r.out) \intersect ToSet(q) = {}
    <3> SUFFICES ASSUME NEW a \in ToSet(r.out), a \in ToSet(q) PROVE FALSE
      OBVIOUS
    <3>1. a \in Live /\ B(a) < Offset(r.page)
      BY <1>3, <2>1, <2>2
    <3> QED BY <1>2, <2>2, <3>1
  <2>5. IsInjective(s.out)
    <3>1. IsInjective(r.out \o q)
      BY <1>1, <1>4, <2>1, <2>3, <2>4, ToSetConcat
    <3> QED BY <1>1, <3>1
  <2>6. ToSet(s.out) \subseteq r.here
    BY <1>6, <2>1, <2>2
  <2>7. ASSUME NEW a \in ToSet(s.out) \intersect Live PROVE B(a) < Offset(s.page)
    <3>1. CASE a \in ToSet(q)
      BY <1>1, <2>2, <3>1
    <3>2. CASE a \in ToSet(r.out)
      <4>1. B(a) < Offset(r.page) /\ B(a) \in Nat
        BY <2>1, <2>7, <3>2, PlaceIsNat DEF B
      <4> QED BY <1>1, <1>2, <4>1, Limits
    <3> QED BY <1>6, <2>7, <3>1, <3>2
  <2> QED BY <1>1, <2>1, <2>5, <2>6, <2>7 DEF NoneTwice, L, B
<1> QED BY <1>1, <1>7, <1>8, <1>9 DEF Listed

LEMMA OwnList ==
  ASSUME Stored, Asked, NEW c \in Clients, Own(c), Stored',
         (\E key \in Sorts, G \in Filters : CollectBegin(c, key, G)) \/ CollectPage(c)
  PROVE  Own(c)'
<1>1. Step({}, {}, {})
  BY QuietMoves DEF Quiet, CollectBegin, CollectPage
<1>2. ASSUME NEW s \in ListReq, req'[c] = s, "list" \in Menu, Listed(s) PROVE Own(c)'
  <2>1. Listed(s)'
    BY <1>1, <1>2, ListedKept
  <2>2. Listed(req[c])'
    BY <1>2, <2>1
  <2>3. req'[c] \in ListReq /\ req'[c].op = "list"
    BY <1>2 DEF ListReq
  <2> QED BY <1>2, <2>2, <2>3 DEF Own, Fit, Requests, CreateStale, ImportStale, GroupStale, DeleteStale, Reported
<1>3. ASSUME NEW key \in Sorts, NEW G \in Filters, CollectBegin(c, key, G) PROVE Own(c)'
  <2> DEFINE s == [op |-> "list", pc |-> "page", key |-> key, filter |-> G, page |-> 1, out |-> <<>>,
                   here |-> InGroups(G), born |-> born, gone |-> gone, stirred |-> stirred]
  <2>1. req'[c] = s /\ "list" \in Menu
    BY <1>3, BeginFrame DEF CollectBegin
  <2>2. s \in ListReq
    <3>1. InGroups(G) \in SUBSET Ids /\ key \in SortKeys /\ <<>> \in Seq(Ids)
      BY Finite, MailboxAssumption DEF InGroups
    <3> QED BY <3>1 DEF ListReq, Stored
  <2>3. ToSet(<<>>) = {} /\ IsInjective(<<>>)
    BY DEF ToSet, IsInjective
  <2>4. Offset(1) = 0
    BY Limits DEF Offset
  <2>5. \A a \in InGroups(G) : Before(key, G, a) >= Offset(1)
    BY <2>4, PlaceIsNat
  <2>6. NoneMissed(s) /\ NoneTwice(s)
    BY <2>3, <2>5 DEF NoneMissed, NoneTwice
  <2>7. Listed(s)
    BY <2>6 DEF Listed, Stored
  <2>8. PICK x \in ListReq : x = s
    BY <2>2
  <2> HIDE DEF s
  <2> QED BY <1>2, <2>1, <2>7, <2>8
<1>4. CASE CollectPage(c)
  <2> DEFINE q == ListMailAccountsPage(req[c].key, req[c].filter, req[c].page)
             s == [req[c] EXCEPT !.out = @ \o q, !.page = @ + 1, !.pc = IF Len(q) < PageSize THEN "done" ELSE "page"]
  <2>1. req[c] \in ListReq /\ req[c].pc = "page" /\ "list" \in Menu /\ Listed(req[c])
    BY <1>4, ReqOf, Ops DEF CollectPage, At, Own
  <2>2. req'[c] = s
    BY <1>4, Frame DEF CollectPage
  <2>3. s \in ListReq
    <3>1. req[c].key \in SortKeys /\ req[c].page \in Nat \ {0} /\ req[c].out \in Seq(Ids)
      BY <2>1 DEF ListReq
    <3>2. q \in Seq(InGroups(req[c].filter)) /\ InGroups(req[c].filter) \subseteq Ids
      BY <3>1, PageRows, Finite DEF InGroups
    <3> HIDE DEF q
    <3>3. q \in Seq(Ids)
      BY <3>2, SeqMonotonic
    <3>4. req[c].out \o q \in Seq(Ids) /\ req[c].page + 1 \in Nat \ {0}
      BY <3>1, <3>3, ConcatProperties
    <3> QED BY <2>1, <3>4 DEF ListReq
  <2>4. Listed(s)
    BY <2>1, <2>3, PageListed
  <2> HIDE DEF s
  <2>5. PICK x \in ListReq : x = s
    BY <2>3
  <2> QED BY <1>2, <2>1, <2>2, <2>4, <2>5
<1> QED BY <1>3, <1>4

-----------------------------------------------------------------------------
(* Imports.                                                                *)

LEMMA NoLines ==
  /\ Inserts(<<>>) = {} /\ Cardinality(Inserts(<<>>)) = 0 /\ Len(<<>>) = 0 /\ <<>> \in Seq(Line)
  /\ NewIds(<<>>) = {} /\ OldIds(<<>>) = {}
<1>1. Inserts(<<>>) = {}
  BY DEF Inserts
<1>2. NewIds(<<>>) = {} /\ OldIds(<<>>) = {}
  BY <1>1 DEF NewIds, OldIds
<1> QED BY <1>1, <1>2, FS_EmptySet

\* A line is one more insert or one more update of its batch.
LEMMA LineAdded ==
  ASSUME NEW batch \in Seq(Line), NEW p \in Line
  PROVE  LET more == Append(batch, p) IN
         /\ more \in Seq(Line) /\ Len(more) = Len(batch) + 1
         /\ p.new => /\ Cardinality(Inserts(more)) = Cardinality(Inserts(batch)) + 1
                     /\ NewIds(more) = NewIds(batch) \union {p.id} /\ OldIds(more) = OldIds(batch)
         /\ ~p.new => /\ Cardinality(Inserts(more)) = Cardinality(Inserts(batch))
                      /\ NewIds(more) = NewIds(batch) /\ OldIds(more) = OldIds(batch) \union {p.id}
<1> DEFINE more == Append(batch, p)
           n == Len(batch)
<1>1. /\ more \in Seq(Line) /\ Len(more) = n + 1 /\ n \in Nat /\ more[n + 1] = p
      /\ \A i \in 1..n : more[i] = batch[i]
  BY AppendProperties
<1>2. DOMAIN batch = 1..n /\ DOMAIN more = 1..(n + 1)
  BY <1>1
<1> HIDE DEF more, n
<1>3. DOMAIN more = DOMAIN batch \union {n + 1} /\ n + 1 \notin DOMAIN batch
  BY <1>1, <1>2
<1>4. \A i \in DOMAIN batch : more[i] = batch[i]
  BY <1>1, <1>2
<1>5. IsFiniteSet(Inserts(batch))
  <2>1. Inserts(batch) \in SUBSET (1..n) /\ IsFiniteSet(1..n)
    BY <1>1, <1>2, FS_Interval DEF Inserts
  <2> QED BY <2>1, FS_Subset
<1>6. CASE p.new
  <2>1. Inserts(more) = Inserts(batch) \union {n + 1} /\ n + 1 \notin Inserts(batch)
    BY <1>1, <1>3, <1>4, <1>6 DEF Inserts
  <2>2. Cardinality(Inserts(more)) = Cardinality(Inserts(batch)) + 1
    BY <1>5, <2>1, FS_AddElement
  <2>3. NewIds(more) = NewIds(batch) \union {p.id}
    BY <1>1, <1>3, <1>4, <2>1 DEF NewIds, Inserts
  <2>4. DOMAIN more \ Inserts(more) = DOMAIN batch \ Inserts(batch)
    BY <1>3, <2>1
  <2>5. OldIds(more) = OldIds(batch)
    BY <1>4, <2>4 DEF OldIds
  <2> QED BY <1>1, <1>6, <2>2, <2>3, <2>5 DEF more, n
<1>7. CASE ~p.new
  <2>1. Inserts(more) = Inserts(batch)
    BY <1>1, <1>3, <1>4, <1>7 DEF Inserts
  <2>2. NewIds(more) = NewIds(batch)
    BY <1>4, <2>1 DEF NewIds, Inserts
  <2>3. DOMAIN more \ Inserts(more) = (DOMAIN batch \ Inserts(batch)) \union {n + 1}
    BY <1>3, <2>1 DEF Inserts
  <2>4. OldIds(more) = OldIds(batch) \union {p.id}
    BY <1>1, <1>3, <1>4, <2>3 DEF OldIds
  <2> QED BY <1>1, <1>7, <2>1, <2>2, <2>4 DEF more, n
<1> QED BY <1>6, <1>7

LEMMA ImportOwn ==
  ASSUME NEW c \in Clients, req'[c] \in ImportReq, req'[c].op \in Menu, ImportStale(req[c])', Reported(req[c])'
  PROVE  Own(c)'
BY DEF Own, Fit, Requests, ImportReq, CreateStale, GroupStale, DeleteStale, Listed

LEMMA OwnImportBegin ==
  ASSUME Stored, Asked, NEW c \in Clients, NEW lines \in Contents, NEW g \in AllGroups, NEW update \in BOOLEAN,
         ImportBegin(c, lines, g, update)
  PROVE  Own(c)' /\ PlannedNew(c)' = {} /\ PlannedOld(c)' = {}
<1>1. req'[c] = [op |-> "import", pc |-> "count", lines |-> lines, group |-> g, update |-> update,
                 batch |-> <<>>, seen |-> {}, used |-> 0, report |-> NoReport,
                 at |-> 0, mine |-> 0, wrote |-> 0] /\ "import" \in Menu
  BY BeginFrame DEF ImportBegin
<1>2. lines \in Seq(Emails \union {0}) /\ NoReport \in Report
  BY MailboxAssumption DEF NoReport, Report
<1>3. req'[c] \in ImportReq
  BY <1>1, <1>2, NoLines DEF ImportReq
<1>4. ImportStale(req[c])' /\ Reported(req[c])'
  BY <1>1, NoLines DEF ImportStale, Reported, NoReport
<1>5. PlannedNew(c)' = {} /\ PlannedOld(c)' = {}
  BY <1>1, NoLines DEF PlannedNew, PlannedOld
<1> QED BY <1>1, <1>3, <1>4, <1>5, ImportOwn

LEMMA OwnPrepare ==
  ASSUME Stored, Asked, NEW c \in Clients, Own(c), PrepareImport(c)
  PROVE  Own(c)' /\ PlannedNew(c)' = {} /\ PlannedOld(c)' = {}
<1> DEFINE r == req[c]
<1>1. r \in ImportReq /\ r.op \in Menu /\ r.op = "import" /\ r.pc = "count" /\ Quiet /\ Reported(r)
  BY ReqOf, Ops DEF PrepareImport, At, Own
<1>2. req'[c] = [r EXCEPT !.pc = "lines", !.used = CountMailAccounts, !.at = born]
  BY Frame DEF PrepareImport
<1>3. Cardinality(Live) \in Nat /\ Live' = Live /\ born' = born /\ born \in Nat
  BY <1>1, Finite DEF Quiet, Live, Stored
<1>4. r.batch = <<>> /\ r.mine = 0
  BY <1>1 DEF Reported
<1>5. /\ req'[c] \in ImportReq /\ req'[c].op = "import" /\ req'[c].batch = <<>> /\ req'[c].mine = 0
      /\ req'[c].used = Cardinality(Live) /\ req'[c].at = born /\ req'[c].pc = "lines"
      /\ req'[c].report = r.report /\ req'[c].wrote = r.wrote
  BY <1>1, <1>2, <1>3, <1>4 DEF ImportReq, CountMailAccounts
<1>6. Cardinality(Live') + 0 + 0 <= Cardinality(Live) + (born' - born)
  BY <1>3
<1>7. ImportStale(req[c])'
  BY <1>5, <1>6, NoLines DEF ImportStale
<1>8. Reported(req[c])'
  BY <1>1, <1>4, <1>5, NoLines DEF Reported
<1>9. PlannedNew(c)' = {} /\ PlannedOld(c)' = {}
  BY <1>5, NoLines DEF PlannedNew, PlannedOld
<1> QED BY <1>1, <1>5, <1>7, <1>8, <1>9, ImportOwn

\* countLine adds to the total and to one of its parts.
Tallied(y, x, f) == /\ y \in Report /\ y.total = x.total + 1
                    /\ y.failed = IF f = "failed" THEN x.failed + 1 ELSE x.failed
                    /\ y.skipped = IF f = "skipped" THEN x.skipped + 1 ELSE x.skipped
                    /\ y.created = IF f = "created" THEN x.created + 1 ELSE x.created
                    /\ y.updated = IF f = "updated" THEN x.updated + 1 ELSE x.updated

LEMMA CountFields ==
  ASSUME NEW r, r.report \in Report, NEW f \in {"failed", "skipped", "created", "updated"}
  PROVE  Tallied(Count(r, f), r.report, f)
<1> DEFINE x == r.report
<1>1. CASE f = "failed"
  <2>1. PICK y : y = Count(r, "failed")
    OBVIOUS
  <2>2. y.total = x.total + 1 /\ y.failed = x.failed + 1 /\ y.skipped = x.skipped /\ y.created = x.created /\ y.updated = x.updated
    BY <2>1 DEF Report, Count
  <2>3. y \in Report
    <3> DEFINE t == x.total + 1
               u == x.failed + 1
    <3>1. y = [x EXCEPT !.total = t, !.failed = u] /\ x \in Report
      BY <2>1 DEF Report, Count
    <3>2. t \in Int /\ u \in Int
      BY <3>1 DEF Report
    <3> HIDE DEF t, u, x
    <3> QED BY <3>1, <3>2 DEF Report
  <2> QED BY <1>1, <2>1, <2>2, <2>3 DEF Tallied
<1>2. CASE f = "skipped"
  <2>1. PICK y : y = Count(r, "skipped")
    OBVIOUS
  <2>2. y.total = x.total + 1 /\ y.failed = x.failed /\ y.skipped = x.skipped + 1 /\ y.created = x.created /\ y.updated = x.updated
    BY <2>1 DEF Report, Count
  <2>3. y \in Report
    <3> DEFINE t == x.total + 1
               u == x.skipped + 1
    <3>1. y = [x EXCEPT !.total = t, !.skipped = u] /\ x \in Report
      BY <2>1 DEF Report, Count
    <3>2. t \in Int /\ u \in Int
      BY <3>1 DEF Report
    <3> HIDE DEF t, u, x
    <3> QED BY <3>1, <3>2 DEF Report
  <2> QED BY <1>2, <2>1, <2>2, <2>3 DEF Tallied
<1>3. CASE f = "created"
  <2>1. PICK y : y = Count(r, "created")
    OBVIOUS
  <2>2. y.total = x.total + 1 /\ y.failed = x.failed /\ y.skipped = x.skipped /\ y.created = x.created + 1 /\ y.updated = x.updated
    BY <2>1 DEF Report, Count
  <2>3. y \in Report
    <3> DEFINE t == x.total + 1
               u == x.created + 1
    <3>1. y = [x EXCEPT !.total = t, !.created = u] /\ x \in Report
      BY <2>1 DEF Report, Count
    <3>2. t \in Int /\ u \in Int
      BY <3>1 DEF Report
    <3> HIDE DEF t, u, x
    <3> QED BY <3>1, <3>2 DEF Report
  <2> QED BY <1>3, <2>1, <2>2, <2>3 DEF Tallied
<1>4. CASE f = "updated"
  <2>1. PICK y : y = Count(r, "updated")
    OBVIOUS
  <2>2. y.total = x.total + 1 /\ y.failed = x.failed /\ y.skipped = x.skipped /\ y.created = x.created /\ y.updated = x.updated + 1
    BY <2>1 DEF Report, Count
  <2>3. y \in Report
    <3> DEFINE t == x.total + 1
               u == x.updated + 1
    <3>1. y = [x EXCEPT !.total = t, !.updated = u] /\ x \in Report
      BY <2>1 DEF Report, Count
    <3>2. t \in Int /\ u \in Int
      BY <3>1 DEF Report
    <3> HIDE DEF t, u, x
    <3> QED BY <3>1, <3>2 DEF Report
  <2> QED BY <1>4, <2>1, <2>2, <2>3 DEF Tallied
<1> QED BY <1>1, <1>2, <1>3, <1>4

\* What planLine makes of a line.
LEMMA PlanCases ==
  ASSUME Stored, Asked, NEW c \in Clients, PlanLine(c)
  PROVE  LET r == req[c]
             s == req'[c]
         IN /\ r \in ImportReq /\ r.op \in Menu /\ r.pc = "lines" /\ Quiet
            /\ s \in ImportReq /\ s.pc \in {"lines", "flush"}
            /\ s.mine = r.mine /\ s.wrote = r.wrote /\ s.at = r.at
            /\ \/ /\ s.batch = r.batch /\ s.used = r.used
                  /\ s.report = Count(r, "failed") \/ s.report = Count(r, "skipped")
               \/ \E a \in Live, p \in Line :
                     /\ p.id = a /\ ~p.new /\ s.batch = Append(r.batch, p)
                     /\ s.used = r.used /\ s.report = Count(r, "updated")
               \/ \E a \in Fresh, p \in Line :
                     /\ p.id = a /\ p.new /\ s.batch = Append(r.batch, p)
                     /\ s.used = r.used + 1 /\ (MaxAccounts # Unlimited => r.used + 1 <= MaxAccounts) /\ s.report = Count(r, "created")
<1> DEFINE r == req[c]
           s == req'[c]
           e == Head(r.lines)
           known == GetMailAccountByEmail(e)
           next == [r EXCEPT !.lines = Tail(@), !.seen = @ \union {e}]
           line(id, new) == [id |-> id, email |-> e, new |-> new, group |-> IF new THEN r.group ELSE rows[id].group]
           Plan(id, new) == [next EXCEPT !.batch = Append(@, [id |-> id, email |-> e, new |-> new,
                                             group |-> IF new THEN r.group ELSE rows[id].group]),
                                         !.pc = IF Len(r.batch) + 1 >= BatchSize THEN "flush" ELSE "lines"]
<1>1. r \in ImportReq /\ r.op \in Menu /\ r.pc = "lines" /\ Quiet /\ r.lines # <<>>
  BY ReqOf, Ops DEF PlanLine, At
<1>2. e \in Emails \union {0} /\ Tail(r.lines) \in Seq(Emails \union {0})
  BY <1>1, HeadTailProperties DEF ImportReq
<1>3. Count(r, "failed") \in Report /\ Count(r, "skipped") \in Report /\ Count(r, "created") \in Report
      /\ Count(r, "updated") \in Report
  BY <1>1, CountFields DEF Tallied, ImportReq
<1>4. \/ /\ e = 0
         /\ s = [r EXCEPT !.lines = Tail(@), !.report = Count(r, "failed")]
      \/ /\ e # 0
         /\ s = [next EXCEPT !.report = Count(r, "skipped")]
      \/ /\ e # 0
         /\ \E a \in known : s = [Plan(a, FALSE) EXCEPT !.report = Count(r, "updated")]
      \/ /\ e # 0 /\ Allowance(MaxAccounts, r.used, 1) > 0
         /\ \E a \in Fresh : s = [Plan(a, TRUE) EXCEPT !.report = Count(r, "created"), !.used = @ + 1]
  <2>1. \A x : Goto(c, x) => s = x
    BY Frame
  <2>2. \/ /\ e = 0
           /\ Goto(c, [r EXCEPT !.lines = Tail(@), !.report = Count(r, "failed")])
        \/ /\ e # 0
           /\ Goto(c, [next EXCEPT !.report = Count(r, "skipped")])
        \/ /\ e # 0
           /\ \E a \in known : Goto(c, [Plan(a, FALSE) EXCEPT !.report = Count(r, "updated")])
        \/ /\ e # 0 /\ Allowance(MaxAccounts, r.used, 1) > 0
           /\ \E a \in Fresh : Goto(c, [Plan(a, TRUE) EXCEPT !.report = Count(r, "created"), !.used = @ + 1])
    BY Zenon DEF PlanLine
  <2> HIDE DEF Plan, next, e, known, r, s
  <2> QED BY <2>1, <2>2, Zenon
<1> HIDE DEF e, known
<1>5. e # 0 => r.seen \union {e} \in SUBSET Emails
  BY <1>1, <1>2 DEF ImportReq
<1>6. CASE e = 0 /\ s = [r EXCEPT !.lines = Tail(@), !.report = Count(r, "failed")]
  <2>1. s \in ImportReq /\ s.pc = "lines" /\ s.batch = r.batch /\ s.used = r.used /\ s.report = Count(r, "failed")
        /\ s.mine = r.mine /\ s.wrote = r.wrote /\ s.at = r.at
    BY <1>1, <1>2, <1>3, <1>6 DEF ImportReq
  <2> QED BY <1>1, <2>1
<1>7. CASE e # 0 /\ s = [next EXCEPT !.report = Count(r, "skipped")]
  <2>1. s \in ImportReq /\ s.pc = "lines" /\ s.batch = r.batch /\ s.used = r.used /\ s.report = Count(r, "skipped")
        /\ s.mine = r.mine /\ s.wrote = r.wrote /\ s.at = r.at
    BY <1>1, <1>2, <1>3, <1>7, <1>5 DEF ImportReq
  <2> QED BY <1>1, <2>1
<1>8. ASSUME e # 0, NEW a \in known, s = [Plan(a, FALSE) EXCEPT !.report = Count(r, "updated")]
      PROVE  /\ s \in ImportReq /\ s.pc \in {"lines", "flush"} /\ s.mine = r.mine /\ s.wrote = r.wrote /\ s.at = r.at
             /\ \E b \in Live, p \in Line : /\ p.id = b /\ ~p.new /\ s.batch = Append(r.batch, p)
                                            /\ s.used = r.used /\ s.report = Count(r, "updated")
  <2>1. a \in Live /\ a \in Ids /\ rows[a] \in Row
    BY <1>8, Finite, RowStates DEF known, GetMailAccountByEmail, Live, Table
  <2>2. line(a, FALSE) \in Line
    BY <1>2, <1>8, <2>1 DEF Line, Row
  <2>3. Append(r.batch, line(a, FALSE)) \in Seq(Line)
    BY <1>1, <2>2 DEF ImportReq
  <2>4. s = [r EXCEPT !.lines = Tail(@), !.seen = @ \union {e}, !.batch = Append(@, line(a, FALSE)),
                      !.pc = IF Len(r.batch) + 1 >= BatchSize THEN "flush" ELSE "lines", !.report = Count(r, "updated")]
    BY <1>1, <1>8 DEF ImportReq
  <2>5. line(a, FALSE).id = a /\ ~line(a, FALSE).new
    OBVIOUS
  <2> HIDE DEF line
  <2>6. s \in ImportReq /\ s.pc \in {"lines", "flush"} /\ s.mine = r.mine /\ s.wrote = r.wrote /\ s.at = r.at
        /\ s.batch = Append(r.batch, line(a, FALSE)) /\ s.used = r.used /\ s.report = Count(r, "updated")
    <3>1. PICK l \in Seq(Emails \union {0}), b \in Seq(Line), z \in SUBSET Emails, pc \in {"lines", "flush"},
               x \in Report :
            /\ l = Tail(r.lines) /\ b = Append(r.batch, line(a, FALSE)) /\ z = r.seen \union {e}
            /\ pc = (IF Len(r.batch) + 1 >= BatchSize THEN "flush" ELSE "lines") /\ x = Count(r, "updated")
      BY <1>2, <1>3, <1>5, <1>8, <2>3
    <3>2. s = [r EXCEPT !.lines = l, !.seen = z, !.batch = b, !.pc = pc, !.report = x]
      BY <2>4, <3>1 DEF ImportReq
    <3> HIDE DEF r, s
    <3>3. s \in ImportReq /\ s.pc = pc /\ s.mine = r.mine /\ s.wrote = r.wrote /\ s.at = r.at
          /\ s.batch = b /\ s.used = r.used /\ s.report = x
      BY <1>1, <3>2 DEF ImportReq
    <3> QED BY <3>1, <3>3
  <2> QED BY <2>1, <2>2, <2>5, <2>6
<1>9. ASSUME e # 0, NEW a \in Fresh, Allowance(MaxAccounts, r.used, 1) > 0,
             s = [Plan(a, TRUE) EXCEPT !.report = Count(r, "created"), !.used = @ + 1]
      PROVE  /\ s \in ImportReq /\ s.pc \in {"lines", "flush"} /\ s.mine = r.mine /\ s.wrote = r.wrote /\ s.at = r.at
             /\ \E b \in Fresh, p \in Line :
                   /\ p.id = b /\ p.new /\ s.batch = Append(r.batch, p)
                   /\ s.used = r.used + 1 /\ (MaxAccounts # Unlimited => r.used + 1 <= MaxAccounts) /\ s.report = Count(r, "created")
  <2>1. a \in Ids /\ r.group \in AllGroups /\ r.used \in Nat
    BY <1>1, <1>9 DEF Fresh, ImportReq
  <2>2. line(a, TRUE) \in Line
    BY <1>2, <1>9, <2>1 DEF Line
  <2>3. Append(r.batch, line(a, TRUE)) \in Seq(Line)
    BY <1>1, <2>2 DEF ImportReq
  <2>4. s = [r EXCEPT !.lines = Tail(@), !.seen = @ \union {e}, !.batch = Append(@, line(a, TRUE)),
                      !.pc = IF Len(r.batch) + 1 >= BatchSize THEN "flush" ELSE "lines", !.report = Count(r, "created"),
                      !.used = r.used + 1]
    BY <1>1, <1>9 DEF ImportReq
  <2>5. line(a, TRUE).id = a /\ line(a, TRUE).new
    OBVIOUS
  <2>6. (MaxAccounts # Unlimited => r.used + 1 <= MaxAccounts) /\ r.used + 1 \in Nat
    BY <1>9, <2>1, Limits DEF Allowance
  <2> HIDE DEF line
  <2>7. s \in ImportReq /\ s.pc \in {"lines", "flush"} /\ s.mine = r.mine /\ s.wrote = r.wrote /\ s.at = r.at
        /\ s.batch = Append(r.batch, line(a, TRUE)) /\ s.used = r.used + 1 /\ s.report = Count(r, "created")
    <3> DEFINE k == r.used + 1
    <3>1. k \in Nat
      BY <2>6
    <3> HIDE DEF k
    <3> DEFINE t == [r EXCEPT !.lines = Tail(@), !.seen = @ \union {e}, !.batch = Append(@, line(a, TRUE)),
                              !.pc = IF Len(r.batch) + 1 >= BatchSize THEN "flush" ELSE "lines",
                              !.report = Count(r, "created")]
    <3>2. s = [t EXCEPT !.used = k]
      BY <1>1, <2>4 DEF k, ImportReq
    <3>3. t \in ImportReq /\ t.pc \in {"lines", "flush"} /\ t.mine = r.mine /\ t.wrote = r.wrote /\ t.at = r.at
          /\ t.batch = Append(r.batch, line(a, TRUE)) /\ t.report = Count(r, "created")
      BY <1>1, <1>2, <1>3, <1>9, <1>5, <2>3 DEF ImportReq
    <3> HIDE DEF t
    <3>4. s \in ImportReq /\ s.pc = t.pc /\ s.mine = t.mine /\ s.wrote = t.wrote /\ s.at = t.at
          /\ s.batch = t.batch /\ s.used = k /\ s.report = t.report
      BY <3>1, <3>2, <3>3 DEF ImportReq
    <3> QED BY <3>3, <3>4 DEF k
  <2> QED BY <1>9, <2>2, <2>5, <2>6, <2>7
<1>10. CASE e # 0 /\ \E a \in known : s = [Plan(a, FALSE) EXCEPT !.report = Count(r, "updated")]
  BY <1>1, <1>8, <1>10
<1>11. CASE /\ e # 0 /\ Allowance(MaxAccounts, r.used, 1) > 0
            /\ \E a \in Fresh : s = [Plan(a, TRUE) EXCEPT !.report = Count(r, "created"), !.used = @ + 1]
  BY <1>1, <1>9, <1>11
<1> QED BY <1>4, <1>6, <1>7, <1>10, <1>11

LEMMA OwnPlan ==
  ASSUME Stored, Asked, NEW c \in Clients, Own(c), PlanLine(c)
  PROVE  /\ Own(c)'
         /\ PlannedNew(c)' = PlannedNew(c) \/ \E a \in Fresh : PlannedNew(c)' = PlannedNew(c) \union {a}
         /\ PlannedOld(c)' \subseteq PlannedOld(c) \union Live
<1> DEFINE r == req[c]
           s == req'[c]
           n == Cardinality(Inserts(r.batch))
           k == Cardinality(Inserts(s.batch))
           old == r.report
           new == s.report
<1>1. /\ r \in ImportReq /\ r.op \in Menu /\ r.pc = "lines" /\ Quiet
      /\ s \in ImportReq /\ s.pc \in {"lines", "flush"}
      /\ s.mine = r.mine /\ s.wrote = r.wrote /\ s.at = r.at
  BY PlanCases
<1>2. \/ /\ s.batch = r.batch /\ s.used = r.used
         /\ new = Count(r, "failed") \/ new = Count(r, "skipped")
      \/ \E a \in Live, p \in Line :
            /\ p.id = a /\ ~p.new /\ s.batch = Append(r.batch, p)
            /\ s.used = r.used /\ new = Count(r, "updated")
      \/ \E a \in Fresh, p \in Line :
            /\ p.id = a /\ p.new /\ s.batch = Append(r.batch, p)
            /\ s.used = r.used + 1 /\ (MaxAccounts # Unlimited => r.used + 1 <= MaxAccounts) /\ new = Count(r, "created")
  BY PlanCases
<1>3. r.op = "import" /\ s.op = "import" /\ s.op \in Menu
  BY <1>1 DEF ImportReq
<1>4. old.total = old.created + old.updated + old.skipped + old.failed
  BY <1>1, <1>3 DEF Own, Reported
<1>5. old.created = r.mine + n /\ old.updated = r.wrote + (Len(r.batch) - n)
  BY <1>1, <1>3 DEF Own, Reported
<1>6. Cardinality(Live) + r.mine + n <= r.used + (born - r.at)
  BY <1>1, <1>3 DEF Own, ImportStale
<1>7. n > 0 /\ MaxAccounts # Unlimited => r.used <= MaxAccounts
  BY <1>1, <1>3 DEF Own, ImportStale
<1>8. r.batch \in Seq(Line) /\ s.batch \in Seq(Line) /\ old \in Report
  BY <1>1 DEF ImportReq
<1>9. r.mine \in Nat /\ r.wrote \in Nat /\ r.used \in Nat /\ r.at \in Nat /\ n \in Nat /\ Len(r.batch) \in Nat
  BY <1>1, BatchCounts DEF ImportReq
<1>10. /\ old.total \in Int /\ old.created \in Int /\ old.updated \in Int /\ old.skipped \in Int /\ old.failed \in Int
       /\ old.total + 1 \in Int /\ old.created + 1 \in Int /\ old.updated + 1 \in Int /\ old.skipped + 1 \in Int
       /\ old.failed + 1 \in Int
  <2> HIDE DEF old
  <2> QED BY <1>8 DEF Report
<1>11. Cardinality(Live) \in Nat /\ Live' = Live /\ born' = born /\ born \in Nat /\ rows' = rows
  BY <1>1, Finite DEF Quiet, Live, Stored
<1>12. /\ new = Count(r, "failed") => /\ new.total = old.total + 1 /\ new.failed = old.failed + 1
                                       /\ new.skipped = old.skipped /\ new.created = old.created /\ new.updated = old.updated
       /\ new = Count(r, "skipped") => /\ new.total = old.total + 1 /\ new.failed = old.failed
                                       /\ new.skipped = old.skipped + 1 /\ new.created = old.created /\ new.updated = old.updated
       /\ new = Count(r, "created") => /\ new.total = old.total + 1 /\ new.failed = old.failed
                                       /\ new.skipped = old.skipped /\ new.created = old.created + 1 /\ new.updated = old.updated
       /\ new = Count(r, "updated") => /\ new.total = old.total + 1 /\ new.failed = old.failed
                                       /\ new.skipped = old.skipped /\ new.created = old.created /\ new.updated = old.updated + 1
  BY <1>1, CountFields DEF Tallied, ImportReq
<1>13. PlannedNew(c) = NewIds(r.batch) /\ PlannedNew(c)' = NewIds(s.batch)
       /\ PlannedOld(c) = OldIds(r.batch) /\ PlannedOld(c)' = OldIds(s.batch)
  BY <1>3 DEF PlannedNew, PlannedOld
<1>14. ASSUME /\ Cardinality(Live) + r.mine + k <= s.used + (born - r.at)
              /\ k > 0 /\ MaxAccounts # Unlimited => s.used <= MaxAccounts
              /\ new.total = new.created + new.updated + new.skipped + new.failed
              /\ new.created = r.mine + k
              /\ new.updated = r.wrote + (Len(s.batch) - k)
       PROVE  Own(c)'
  <2>1. ImportStale(req[c])'
    BY <1>1, <1>11, <1>14 DEF ImportStale
  <2>2. Reported(req[c])'
    BY <1>1, <1>14 DEF Reported
  <2> QED BY <1>1, <1>3, <2>1, <2>2, ImportOwn
<1> HIDE DEF r, s, n, k, old, new
<1>15. CASE /\ s.batch = r.batch /\ s.used = r.used
            /\ new = Count(r, "failed") \/ new = Count(r, "skipped")
  <2>1. k = n
    BY <1>15 DEF k, n
  <2>2. new.total = new.created + new.updated + new.skipped + new.failed
        /\ new.created = old.created /\ new.updated = old.updated
    BY <1>4, <1>12, <1>15, <1>10
  <2>3. Own(c)'
    BY <1>14, <1>15, <1>5, <1>6, <1>7, <2>1, <2>2
  <2> QED BY <1>13, <1>15, <2>3
<1>16. ASSUME NEW a \in Live, NEW p \in Line, p.id = a, ~p.new, s.batch = Append(r.batch, p),
              s.used = r.used, new = Count(r, "updated")
       PROVE  Own(c)' /\ PlannedNew(c)' = PlannedNew(c) /\ PlannedOld(c)' \subseteq PlannedOld(c) \union Live
  <2>1. k = n /\ Len(s.batch) = Len(r.batch) + 1
        /\ NewIds(s.batch) = NewIds(r.batch) /\ OldIds(s.batch) = OldIds(r.batch) \union {a}
    BY <1>8, <1>16, LineAdded DEF k, n
  <2>2. new.total = new.created + new.updated + new.skipped + new.failed
        /\ new.created = old.created /\ new.updated = old.updated + 1
    <3>1. /\ new.total = old.total + 1 /\ new.failed = old.failed
          /\ new.skipped = old.skipped /\ new.created = old.created /\ new.updated = old.updated + 1
      BY <1>12, <1>16
    <3> QED BY <1>4, <1>10, <3>1
  <2>3. new.updated = r.wrote + (Len(s.batch) - k)
    <3>1. k = n /\ Len(s.batch) = Len(r.batch) + 1
      BY <2>1
    <3>2. new.updated = old.updated + 1
      BY <2>2
    <3> QED BY <1>9, <1>5, <3>1, <3>2
  <2>4. Own(c)'
    BY <1>14, <1>16, <1>5, <1>6, <1>7, <2>1, <2>2, <2>3
  <2> QED BY <1>13, <1>16, <2>1, <2>4
<1>17. ASSUME NEW a \in Fresh, NEW p \in Line, p.id = a, p.new, s.batch = Append(r.batch, p),
              s.used = r.used + 1, MaxAccounts # Unlimited => r.used + 1 <= MaxAccounts,
              new = Count(r, "created")
       PROVE  Own(c)' /\ PlannedNew(c)' = PlannedNew(c) \union {a} /\ PlannedOld(c)' \subseteq PlannedOld(c) \union Live
  <2>1. k = n + 1 /\ Len(s.batch) = Len(r.batch) + 1
        /\ NewIds(s.batch) = NewIds(r.batch) \union {a} /\ OldIds(s.batch) = OldIds(r.batch)
    BY <1>8, <1>17, LineAdded DEF k, n
  <2>2. new.total = new.created + new.updated + new.skipped + new.failed
        /\ new.created = old.created + 1 /\ new.updated = old.updated
    <3>1. /\ new.total = old.total + 1 /\ new.failed = old.failed
          /\ new.skipped = old.skipped /\ new.created = old.created + 1 /\ new.updated = old.updated
      BY <1>12, <1>17
    <3> QED BY <1>4, <1>10, <3>1
  <2>3. new.created = r.mine + k /\ new.updated = r.wrote + (Len(s.batch) - k)
    <3>1. k = n + 1 /\ Len(s.batch) = Len(r.batch) + 1
      BY <2>1
    <3>2. new.created = old.created + 1 /\ new.updated = old.updated
      BY <2>2
    <3>0. PICK u \in Nat, v \in Nat, x \in Nat, l \in Nat : u = r.mine /\ v = n /\ x = r.wrote /\ l = Len(r.batch)
      BY <1>9
    <3>3. new.created = r.mine + k
      <4>1. (u + v) + 1 = u + (v + 1)
        OBVIOUS
      <4>2. new.created = (u + v) + 1
        BY <1>5, <3>0, <3>2
      <4>3. k = v + 1
        BY <3>0, <3>1
      <4> QED BY <3>0, <4>1, <4>2, <4>3
    <3>4. new.updated = r.wrote + (Len(s.batch) - k)
      <4>1. (l + 1) - (v + 1) = l - v
        OBVIOUS
      <4>2. new.updated = x + (l - v)
        BY <1>5, <3>0, <3>2
      <4>3. k = v + 1 /\ Len(s.batch) = l + 1
        BY <3>0, <3>1
      <4> QED BY <3>0, <4>1, <4>2, <4>3
    <3> QED BY <3>3, <3>4
  <2>4. Cardinality(Live) + r.mine + k <= s.used + (born - r.at)
        /\ (MaxAccounts # Unlimited => s.used <= MaxAccounts)
    <3> DEFINE x == Cardinality(Live) + r.mine + n
               y == r.used + (born - r.at)
    <3>1. x \in Int /\ y \in Int /\ x <= y
      <4>1. x \in Int
        BY <1>11, <1>9
      <4>2. y \in Int
        BY <1>11, <1>9
      <4> QED BY <1>6, <4>1, <4>2
    <3>2. Cardinality(Live) + r.mine + k = x + 1
      <4>1. PICK u \in Nat, v \in Nat, w \in Nat : u = Cardinality(Live) /\ v = r.mine /\ w = n
        BY <1>11, <1>9
      <4>2. k = w + 1
        BY <2>1, <4>1
      <4>3. u + v + (w + 1) = (u + v + w) + 1
        BY <4>1
      <4>4. x = u + v + w
        BY <4>1
      <4> HIDE DEF x, y
      <4> QED BY <4>1, <4>2, <4>3, <4>4
    <3>3. s.used + (born - r.at) = y + 1
      BY <1>11, <1>17, <1>9
    <3> HIDE DEF x, y
    <3> QED BY <1>17, <3>1, <3>2, <3>3
  <2>5. Own(c)'
    BY <1>14, <2>2, <2>3, <2>4
  <2> QED BY <1>13, <2>1, <2>5
<1>18. CASE \E a \in Live, p \in Line :
            /\ p.id = a /\ ~p.new /\ s.batch = Append(r.batch, p)
            /\ s.used = r.used /\ new = Count(r, "updated")
  BY <1>16, <1>18
<1>19. CASE \E a \in Fresh, p \in Line :
            /\ p.id = a /\ p.new /\ s.batch = Append(r.batch, p)
            /\ s.used = r.used + 1 /\ (MaxAccounts # Unlimited => r.used + 1 <= MaxAccounts) /\ new = Count(r, "created")
  BY <1>17, <1>19
<1> QED BY <1>2, <1>15, <1>18, <1>19

LEMMA OwnFlush ==
  ASSUME TypeInv, IdsApart, NEW c \in Clients, Own(c), Flush(c)
  PROVE  Own(c)' /\ PlannedNew(c)' = {} /\ PlannedOld(c)' = {}
<1> DEFINE r == req[c]
           s == req'[c]
           b == r.batch
           n == Cardinality(Inserts(b))
           old == r.report
<1>1. r \in ImportReq /\ r.op \in Menu /\ r.op = "import" /\ r.pc # "count" /\ Stored /\ Asked
  BY ReqOf, Ops DEF Flush, At, TypeInv
<1>2. /\ old.total = old.created + old.updated + old.skipped + old.failed
      /\ old.created = r.mine + n /\ old.updated = r.wrote + (Len(b) - n)
  BY <1>1 DEF Own, Reported
<1>3. Cardinality(Live) + r.mine + n <= r.used + (born - r.at)
  BY <1>1 DEF Own, ImportStale
<1>4. /\ r.mine \in Nat /\ r.used \in Nat /\ r.at \in Nat /\ n \in Nat
      /\ Cardinality(NewIds(b)) <= n /\ Cardinality(NewIds(b)) \in Nat
  BY <1>1, BatchCounts DEF ImportReq
<1>5. old.total \in Int /\ old.created \in Int /\ old.updated \in Int /\ old.skipped \in Int /\ old.failed \in Int
      /\ Len(b) \in Nat /\ n \in Nat
  BY <1>1, BatchCounts DEF ImportReq, Report
<1>6. /\ r.mine \in Nat /\ r.wrote \in Nat /\ r.used \in Nat /\ r.at \in Nat /\ n \in Nat /\ Len(b) \in Nat /\ n <= Len(b)
      /\ b \in Seq(Line) /\ old \in Report /\ Cardinality(NewIds(b)) <= n /\ Cardinality(NewIds(b)) \in Nat
  BY <1>1, BatchCounts DEF ImportReq
<1>7. Cardinality(Live) \in Nat /\ born \in Nat
  BY <1>1, Finite DEF Stored
<1>8. ASSUME s \in ImportReq, s.op = "import", s.batch = <<>>, s.pc = "lines", s.used = r.used, s.at = r.at,
             Cardinality(Live') + s.mine <= s.used + (born' - s.at),
             s.report.total = s.report.created + s.report.updated + s.report.skipped + s.report.failed,
             s.report.created = s.mine + 0, s.report.updated = s.wrote + (0 - 0)
      PROVE  Own(c)' /\ PlannedNew(c)' = {} /\ PlannedOld(c)' = {}
  <2>1. Cardinality(Live') + s.mine + 0 <= s.used + (born' - s.at)
    <3>1. s.mine \in Nat /\ Cardinality(Live') \in Nat
      <4>1. CASE BatchAllowed(b)
        BY <1>1, <1>8, <4>1, FlushMoves, Growth DEF ImportReq
      <4>2. CASE ~BatchAllowed(b)
        BY <1>1, <1>8, <4>2, FlushMoves, Growth DEF ImportReq
      <4> QED BY <4>1, <4>2
    <3> HIDE DEF s, r
    <3>2. \A x, y \in Nat : x + y + 0 = x + y
      OBVIOUS
    <3>3. Cardinality(Live') + s.mine + 0 = Cardinality(Live') + s.mine
      BY <3>1, <3>2
    <3> QED BY <1>8, <3>3
  <2>2. ImportStale(req[c])'
    BY <1>8, <2>1, NoLines DEF ImportStale
  <2>3. Reported(req[c])'
    BY <1>8, NoLines DEF Reported
  <2>4. PlannedNew(c)' = {} /\ PlannedOld(c)' = {}
    BY <1>8, NoLines DEF PlannedNew, PlannedOld
  <2> QED BY <1>1, <1>8, <2>2, <2>3, <2>4, ImportOwn
<1>9. CASE BatchAllowed(b)
  <2>1. s = [r EXCEPT !.pc = "lines", !.batch = <<>>, !.mine = r.mine + n, !.wrote = r.wrote + (Len(b) - n)]
    <3>1. s = [[r EXCEPT !.pc = "lines", !.batch = <<>>] EXCEPT !.mine = @ + n, !.wrote = @ + (Len(b) - n)]
      BY <1>1, <1>9, Frame DEF Flush
    <3> QED BY <1>1, <3>1 DEF ImportReq
  <2>2. r.mine + n \in Nat /\ r.wrote + (Len(b) - n) \in Nat
    <3> HIDE DEF r, n, b
    <3> QED BY <1>6
  <2>3. /\ s \in ImportReq /\ s.op = "import" /\ s.batch = <<>> /\ s.pc = "lines" /\ s.used = r.used /\ s.at = r.at
        /\ s.mine = r.mine + n /\ s.wrote = r.wrote + (Len(b) - n) /\ s.report = old
    <3> DEFINE m == r.mine + n
               w == r.wrote + (Len(b) - n)
    <3>1. s = [r EXCEPT !.pc = "lines", !.batch = <<>>, !.mine = m, !.wrote = w] /\ m \in Nat /\ w \in Nat
      BY <2>1, <2>2
    <3> HIDE DEF m, w
    <3>2. /\ s \in ImportReq /\ s.op = "import" /\ s.batch = <<>> /\ s.pc = "lines" /\ s.used = r.used /\ s.at = r.at
          /\ s.mine = m /\ s.wrote = w /\ s.report = old
      BY <1>1, <3>1, NoLines DEF ImportReq
    <3> QED BY <3>2 DEF m, w
  <2>4. born' = born + n /\ Cardinality(Live') \in Nat /\ Cardinality(Live') <= Cardinality(Live) + Cardinality(NewIds(b))
    BY <1>1, <1>9, FlushMoves, Growth
  <2> HIDE DEF s, r, b, n, old
  <2>5. Cardinality(Live') + s.mine <= s.used + (born' - s.at)
    <3> DEFINE x == Cardinality(Live) + r.mine + n
               y == r.used + (born - r.at)
    <3>1. x \in Int /\ y \in Int /\ x <= y
      BY <1>7, <1>3, <1>4
    <3>2. Cardinality(Live') + s.mine \in Int /\ Cardinality(Live') + s.mine <= x + n
      BY <1>7, <1>4, <2>3, <2>4
    <3>3. s.used + (born' - s.at) = y + n
      BY <1>7, <1>4, <2>3, <2>4
    <3>4. n \in Nat
      BY <1>4
    <3> HIDE DEF x, y
    <3> QED BY <3>1, <3>2, <3>3, <3>4
  <2>6. s.report.created = s.mine + 0 /\ s.report.updated = s.wrote + (0 - 0)
    BY <1>2, <1>6, <2>3
  <2>7. s.report.total = s.report.created + s.report.updated + s.report.skipped + s.report.failed
    BY <1>2, <2>3
  <2> QED BY <1>8, <2>3, <2>5, <2>6, <2>7
<1>10. CASE ~BatchAllowed(b)
  <2> DEFINE now == [old EXCEPT !.failed = old.failed + Len(b), !.created = old.created - n,
                                !.updated = old.updated - (Len(b) - n)]
  <2>1. s = [r EXCEPT !.pc = "lines", !.batch = <<>>, !.report = now]
    <3>1. s = [[r EXCEPT !.pc = "lines", !.batch = <<>>] EXCEPT !.report.failed = @ + Len(b),
                                       !.report.created = @ - n,
                                       !.report.updated = @ - (Len(b) - n)]
      BY <1>1, <1>10, Frame DEF Flush, CountNew
    <3> QED BY <1>1, <1>6, <3>1 DEF ImportReq, Report
  <2>2. now \in Report /\ now.total = old.total /\ now.skipped = old.skipped /\ now.failed = old.failed + Len(b)
        /\ now.created = old.created - n /\ now.updated = old.updated - (Len(b) - n)
    <3> HIDE DEF r, b, n, old
    <3>1. /\ old.failed + Len(b) \in Int /\ old.created - n \in Int /\ old.updated - (Len(b) - n) \in Int
      BY <1>6 DEF Report
    <3>3. now = [old EXCEPT !.failed = old.failed + Len(b), !.created = old.created - n,
                            !.updated = old.updated - (Len(b) - n)]
      OBVIOUS
    <3> DEFINE x == old.failed + Len(b)
               y == old.created - n
               z == old.updated - (Len(b) - n)
    <3>4. x \in Int /\ y \in Int /\ z \in Int /\ now = [old EXCEPT !.failed = x, !.created = y, !.updated = z]
      BY <3>1, <3>3
    <3> HIDE DEF now, x, y, z
    <3>5. now \in Report /\ now.total = old.total /\ now.skipped = old.skipped /\ now.failed = x /\ now.created = y /\ now.updated = z
      BY <1>6, <3>4 DEF Report
    <3> QED BY <3>5 DEF x, y, z
  <2> HIDE DEF now
  <2>3. /\ s \in ImportReq /\ s.op = "import" /\ s.batch = <<>> /\ s.pc = "lines" /\ s.used = r.used /\ s.at = r.at
        /\ s.mine = r.mine /\ s.wrote = r.wrote /\ s.report = now
    BY <1>1, <2>1, <2>2, NoLines DEF ImportReq
  <2>4. born' = born /\ Live' = Live
    <3>1. rows' = rows /\ born' = born
      BY <1>10 DEF Flush
    <3> QED BY <3>1 DEF Live
  <2> HIDE DEF s, r, b, n, old
  <2>5. Cardinality(Live') + s.mine <= s.used + (born' - s.at)
    BY <1>7, <1>3, <1>4, <2>3, <2>4
  <2>6. s.report.created = s.mine + 0 /\ s.report.updated = s.wrote + (0 - 0)
    BY <1>2, <1>6, <2>2, <2>3
  <2>7. s.report.total = s.report.created + s.report.updated + s.report.skipped + s.report.failed
    <3>1. PICK u \in Int, v \in Int, x \in Int, y \in Int, m \in Nat, l \in Nat :
            /\ u = old.created /\ v = old.updated /\ x = old.skipped /\ y = old.failed /\ m = n /\ l = Len(b)
      BY <1>5
    <3>2. u + v + x + y = (u - m) + (v - (l - m)) + x + (y + l)
      OBVIOUS
    <3>3. s.report.total = u + v + x + y
      BY <1>2, <2>2, <2>3, <3>1
    <3>4. s.report.created = u - m /\ s.report.updated = v - (l - m) /\ s.report.skipped = x /\ s.report.failed = y + l
      BY <2>2, <2>3, <3>1
    <3> QED BY <3>2, <3>3, <3>4
  <2> QED BY <1>8, <2>3, <2>5, <2>6, <2>7
<1> QED BY <1>9, <1>10

-----------------------------------------------------------------------------
(* A step of a client keeps the invariant.                                 *)

LEMMA NoPlans ==
  ASSUME NEW c \in Clients, req'[c].op # "import"
  PROVE  PlannedNew(c)' = {} /\ PlannedOld(c)' = {}
BY DEF PlannedNew, PlannedOld

LEMMA IdlePlans ==
  ASSUME NEW c \in Clients, req'[c] = Idle
  PROVE  Own(c)' /\ PlannedNew(c)' = {} /\ PlannedOld(c)' = {}
BY IdleOwn, NoPlans DEF Idle

\* What a client may have planned after its own step.
Plans(c) == /\ PlannedNew(c)' \subseteq PlannedNew(c) \union Fresh
            /\ PlannedOld(c)' \subseteq PlannedOld(c) \union Live

LEMMA NotImport ==
  ASSUME Stored, Asked, NEW c \in Clients,
         \/ \E e \in Emails, g \in AllGroups, al \in AliasSets : CreateBegin(c, e, g, al)
         \/ EnsureAccountQuota(c) \/ EnsureEmailAvailable(c) \/ ValidateAliases(c)
         \/ Edit(c)
         \/ ImportEnd(c)
         \/ \E S \in Batches, g \in AllGroups : BatchMoveBegin(c, S, g)
         \/ \E G \in Filters : ConfirmInvalid(c, G)
         \/ CheckExpected(c)
         \/ GroupCreateBegin(c)
         \/ \E g \in Groups : GroupDeleteBegin(c, g)
         \/ GroupDeleteEnd(c)
         \/ \E key \in Sorts, G \in Filters : CollectBegin(c, key, G)
         \/ CollectPage(c) \/ CollectEnd(c)
  PROVE  req'[c].op # "import"
<1> DEFINE r == req[c]
<1>1. CASE \E e \in Emails, g \in AllGroups, al \in AliasSets : CreateBegin(c, e, g, al)
  BY <1>1, BeginFrame DEF CreateBegin
<1>2. CASE Edit(c)
  BY <1>2, BeginFrame DEF Edit, UpdateBegin
<1>3. CASE \E S \in Batches, g \in AllGroups : BatchMoveBegin(c, S, g)
  BY <1>3, BeginFrame DEF BatchMoveBegin
<1>4. CASE \E G \in Filters : ConfirmInvalid(c, G)
  BY <1>4, BeginFrame DEF ConfirmInvalid
<1>5. CASE GroupCreateBegin(c)
  BY <1>5, BeginFrame DEF GroupCreateBegin
<1>6. CASE \E g \in Groups : GroupDeleteBegin(c, g)
  BY <1>6, BeginFrame DEF GroupDeleteBegin
<1>7. CASE \E key \in Sorts, G \in Filters : CollectBegin(c, key, G)
  BY <1>7, BeginFrame DEF CollectBegin
<1>8. CASE End(c)
  BY <1>8, Frame DEF End, Idle
<1>9. CASE ImportEnd(c) \/ GroupDeleteEnd(c) \/ CollectEnd(c)
  BY <1>8, <1>9 DEF ImportEnd, GroupDeleteEnd, CollectEnd
<1>10. CASE EnsureAccountQuota(c) \/ EnsureEmailAvailable(c)
  <2>1. r \in CreateReq
    BY <1>10, ReqOf DEF EnsureAccountQuota, EnsureEmailAvailable, At
  <2>2. End(c) \/ Goto(c, [r EXCEPT !.pc = "email", !.at = born]) \/ Goto(c, [r EXCEPT !.pc = "alias"])
    BY <1>10, Zenon DEF EnsureAccountQuota, EnsureEmailAvailable
  <2>3. req'[c] = Idle \/ req'[c] = [r EXCEPT !.pc = "email", !.at = born] \/ req'[c] = [r EXCEPT !.pc = "alias"]
    BY <2>2, Frame, Zenon DEF End
  <2>4. CASE req'[c] = [r EXCEPT !.pc = "email", !.at = born]
    <3>1. req'[c] \in CreateReq
      BY <2>1, <2>4 DEF CreateReq, Stored
    <3> QED BY <3>1 DEF CreateReq
  <2>5. CASE req'[c] = [r EXCEPT !.pc = "alias"]
    <3>1. req'[c] \in CreateReq
      BY <2>1, <2>5 DEF CreateReq
    <3> QED BY <3>1 DEF CreateReq
  <2> QED BY <2>3, <2>4, <2>5 DEF Idle
<1>11. CASE ValidateAliases(c)
  <2>1. r \in CreateReq \/ r \in UpdateReq
    BY <1>11, ReqOf DEF ValidateAliases
  <2>2. End(c) \/ Goto(c, [r EXCEPT !.pc = "tx"])
    BY <1>11, Zenon DEF ValidateAliases
  <2>3. req'[c] = Idle \/ req'[c] = [r EXCEPT !.pc = "tx"]
    BY <2>2, Frame, Zenon DEF End
  <2> QED BY <2>1, <2>3 DEF CreateReq, UpdateReq, Idle
<1>12. CASE CheckExpected(c)
  <2>1. r \in InvalidReq
    BY <1>12, ReqOf DEF CheckExpected, At
  <2>2. End(c) \/ Goto(c, [r EXCEPT !.pc = "delete", !.at = stirred])
    BY <1>12, Zenon DEF CheckExpected
  <2>3. req'[c] = Idle \/ req'[c] = [r EXCEPT !.pc = "delete", !.at = stirred]
    BY <2>2, Frame, Zenon DEF End
  <2>4. CASE req'[c] = [r EXCEPT !.pc = "delete", !.at = stirred]
    <3>1. req'[c] \in InvalidReq
      BY <2>1, <2>4 DEF InvalidReq, Stored
    <3> QED BY <3>1 DEF InvalidReq
  <2> QED BY <2>3, <2>4 DEF Idle
<1>13. CASE CollectPage(c)
  <2>1. r \in ListReq
    BY <1>13, ReqOf DEF CollectPage, At
  <2>2. PICK x, y : Goto(c, [r EXCEPT !.out = x, !.page = @ + 1, !.pc = y])
    BY <1>13, Zenon DEF CollectPage
  <2>3. req'[c] = [r EXCEPT !.out = x, !.page = @ + 1, !.pc = y]
    BY <2>2, Frame, Zenon
  <2> QED BY <2>1, <2>3 DEF ListReq
<1> QED BY <1>1, <1>2, <1>3, <1>4, <1>5, <1>6, <1>7, <1>9, <1>10, <1>11, <1>12, <1>13, Zenon

LEMMA OwnSilent ==
  ASSUME Stored, Asked, Stored', NEW c \in Clients, Own(c), Silent(c)
  PROVE  Own(c)' /\ Plans(c)
<1>1. CASE \E lines \in Contents, g \in AllGroups, update \in BOOLEAN : ImportBegin(c, lines, g, update)
  BY <1>1, OwnImportBegin DEF Plans
<1>2. CASE PrepareImport(c)
  BY <1>2, OwnPrepare DEF Plans
<1>3. CASE PlanLine(c)
  BY <1>3, OwnPlan DEF Plans
<1>4. ASSUME req'[c].op # "import", Own(c)' PROVE Own(c)' /\ Plans(c)
  BY <1>4, NoPlans DEF Plans
<1>5. CASE \/ \E e \in Emails, g \in AllGroups, al \in AliasSets : CreateBegin(c, e, g, al)
           \/ EnsureAccountQuota(c) \/ EnsureEmailAvailable(c) \/ ValidateAliases(c)
  BY <1>4, <1>5, OwnCreate, NotImport
<1>6. CASE \/ Edit(c)
           \/ \E S \in Batches, g \in AllGroups : BatchMoveBegin(c, S, g)
           \/ \E g \in Groups : GroupDeleteBegin(c, g)
           \/ ImportEnd(c) \/ GroupDeleteEnd(c) \/ CollectEnd(c)
  BY <1>4, <1>6, OwnPlain, NotImport
<1>7. CASE (\E G \in Filters : ConfirmInvalid(c, G)) \/ CheckExpected(c)
  BY <1>4, <1>7, OwnInvalid, NotImport
<1>8. CASE GroupCreateBegin(c)
  BY <1>4, <1>8, OwnGroup, NotImport
<1>9. CASE (\E key \in Sorts, G \in Filters : CollectBegin(c, key, G)) \/ CollectPage(c)
  BY <1>4, <1>9, OwnList, NotImport
<1> QED BY <1>1, <1>2, <1>3, <1>5, <1>6, <1>7, <1>8, <1>9, Zenon DEF Silent

LEMMA OwnStatement ==
  ASSUME TypeInv, IdsApart, NEW c \in Clients, Own(c), Statement(c)
  PROVE  Own(c)' /\ PlannedNew(c)' = {} /\ PlannedOld(c)' = {}
<1>1. Stored /\ Asked
  BY DEF TypeInv
<1>2. CASE Flush(c)
  BY <1>2, OwnFlush
<1>3. CASE CreateTx(c) \/ UpdateTx(c) \/ BatchMove(c) \/ DeleteInvalid(c)
  <2>1. req'[c] = Idle
    BY <1>1, <1>3, Frame DEF CreateTx, UpdateTx, BatchMove, DeleteInvalid, End
  <2> QED BY <2>1, IdlePlans
<1>4. CASE \/ \E a \in Ids : Delete(c, a)
           \/ \E S \in Batches : BatchDelete(c, S)
           \/ \E S \in Batches, st \in Switches : BatchStatus(c, S, st)
  <2>1. req'[c] = Idle
    BY <1>4 DEF Delete, BatchDelete, BatchStatus, Once
  <2> QED BY <2>1, IdlePlans
<1>5. CASE GroupDelete(c)
  <2> DEFINE r == req[c]
  <2>1. r \in UngroupReq /\ r.op \in Menu /\ r.op = "ungroup"
    BY <1>1, <1>5, ReqOf, Ops DEF GroupDelete, At
  <2>2. End(c) \/ \E p \in {"refused", "missing"} : Goto(c, [r EXCEPT !.pc = p])
    BY <1>5 DEF GroupDelete
  <2>3. CASE End(c)
    <3>1. req'[c] = Idle
      BY <1>1, <2>3, Frame DEF End
    <3> QED BY <3>1, IdlePlans
  <2>4. ASSUME NEW p \in {"refused", "missing"}, Goto(c, [r EXCEPT !.pc = p])
        PROVE  Own(c)' /\ PlannedNew(c)' = {} /\ PlannedOld(c)' = {}
    <3>1. req'[c] = [r EXCEPT !.pc = p]
      BY <1>1, <2>4, Frame, Zenon
    <3>2. req'[c] \in UngroupReq /\ req'[c].op = "ungroup"
      BY <2>1, <3>1 DEF UngroupReq
    <3> QED BY <2>1, <3>2, PlainOwn, NoPlans DEF Requests
  <2> QED BY <2>2, <2>3, <2>4
<1> QED BY <1>2, <1>3, <1>4, <1>5 DEF Statement

\* Fresh is what no other request has planned.
LEMMA PlansApart ==
  ASSUME IdsApart, Stored, NEW c \in Clients, Plans(c), NEW N, NEW D, NEW W, Step(N, D, W), Apart(c, N),
         PlannedNew(c)' \intersect N = {}, \A d \in Clients \ {c} : req'[d] = req[d]
  PROVE  IdsApart'
<1>1. Used' = Used \union N /\ Live \subseteq Used
  BY Effects, Finite
<1>2. \A d \in Clients \ {c} : PlannedNew(d)' = PlannedNew(d) /\ PlannedOld(d)' = PlannedOld(d)
  BY DEF PlannedNew, PlannedOld
<1>3. \A d \in Clients : PlannedNew(d) \intersect Used = {} /\ PlannedOld(d) \subseteq Used
  BY DEF IdsApart
<1>4. \A d \in Clients : Fresh \intersect PlannedNew(d) = {} /\ Fresh \intersect Used = {}
  BY DEF Fresh, Planned, PlannedNew, NewIds, Inserts, ToSet
<1>5. \A d \in Clients \ {c} : PlannedNew(c)' \intersect PlannedNew(d) = {}
  BY <1>4 DEF Plans, IdsApart
<1>6. PlannedNew(c)' \intersect Used' = {} /\ PlannedOld(c)' \subseteq Used'
  BY <1>1, <1>3, <1>4 DEF Plans
<1>7. \A d \in Clients \ {c} : PlannedNew(d)' \intersect Used' = {} /\ PlannedOld(d)' \subseteq Used'
  BY <1>1, <1>2, <1>3 DEF Apart
<1>8. \A d \in Clients : PlannedNew(d)' \intersect Used' = {} /\ PlannedOld(d)' \subseteq Used'
  BY <1>6, <1>7
<1>9. ASSUME NEW d \in Clients, NEW e \in Clients, d # e PROVE PlannedNew(d)' \intersect PlannedNew(e)' = {}
  BY <1>2, <1>5, <1>9 DEF IdsApart
<1> QED BY <1>8, <1>9 DEF IdsApart

LEMMA GroupCreateKeeps ==
  ASSUME Inv, NEW c \in Clients, NEW g \in Groups, GroupCreate(c, g)
  PROVE  Inv' /\ Cardinality(groups') = Cardinality(groups) + 1
<1>1. Stored /\ Asked /\ TypeInv /\ IdsApart /\ \A d \in Clients : Own(d)
  BY OwnOf DEF Inv, TypeInv
<1>2. Step({}, {}, {}) /\ Stored'
  BY <1>1, GroupCreateMoves
<1>3. Cardinality(groups') = Cardinality(groups) + 1 /\ Cardinality(groups) \in Nat
  BY <1>1, Finite, FS_AddElement DEF GroupCreate
<1>4. req'[c] = Idle
  BY DEF GroupCreate
<1>5. ASSUME NEW d \in Clients \ {c}, req[d].op = "group" PROVE req'[d] \in GroupReq /\ Own(d)'
  <2> DEFINE k == req[d].others
             m == k + 1
  <2>1. req[d] \in GroupReq /\ req[d].op \in Menu /\ At(d, "group", "insert")
    BY <1>1, <1>5, ReqOf, Ops DEF GroupReq, At
  <2>2. req'[d] = [req[d] EXCEPT !.others = m]
    BY <2>1 DEF GroupCreate
  <2>3. m \in Nat /\ k \in Nat
    BY <2>1 DEF GroupReq
  <2>4. MaxGroups # Unlimited => Cardinality(groups) + 1 <= MaxGroups + k
    BY <1>1, <1>5 DEF Own, GroupStale
  <2>5. MaxGroups # Unlimited => Cardinality(groups') + 1 <= MaxGroups + m
    BY <1>3, <2>3, <2>4, Limits
  <2> HIDE DEF m
  <2>6. req'[d] \in GroupReq /\ req'[d].op = "group" /\ req'[d].others = m
    BY <2>1, <2>2, <2>3 DEF GroupReq
  <2>7. GroupStale(req[d])'
    BY <2>5, <2>6 DEF GroupStale
  <2> QED BY <2>1, <2>6, <2>7 DEF Own, Fit, Requests, GroupReq, CreateStale, ImportStale, DeleteStale, Reported, Listed
<1>6. ASSUME NEW d \in Clients \ {c}, req[d].op # "group" PROVE req'[d] = req[d] /\ Own(d)'
  <2>1. req'[d] = req[d]
    BY <1>6 DEF GroupCreate, At
  <2> QED BY <1>1, <1>2, <1>6, <2>1, OwnKept
<1>7. \A d \in Clients : Own(d)'
  BY <1>4, <1>5, <1>6, IdleOwn
<1>8. req' \in [Clients -> Requests]
  <2>1. \A d \in Clients : req'[d] \in Requests
    BY <1>7 DEF Own, Fit
  <2> QED BY <2>1 DEF GroupCreate
<1>9. \A d \in Clients : PlannedNew(d)' \subseteq PlannedNew(d) /\ PlannedOld(d)' \subseteq PlannedOld(d)
  <2>1. ASSUME NEW d \in Clients, req'[d] = req[d]
        PROVE  PlannedNew(d)' \subseteq PlannedNew(d) /\ PlannedOld(d)' \subseteq PlannedOld(d)
    BY <2>1 DEF PlannedNew, PlannedOld
  <2>2. ASSUME NEW d \in Clients, req'[d] \in GroupReq
        PROVE  PlannedNew(d)' \subseteq PlannedNew(d) /\ PlannedOld(d)' \subseteq PlannedOld(d)
    BY <2>2, NoPlans DEF GroupReq
  <2> QED BY <1>4, <1>5, <1>6, <2>1, <2>2, IdlePlans
<1>10. IdsApart'
  <2>1. Used' = Used
    BY DEF GroupCreate, Used
  <2> QED BY <1>1, <1>9, <2>1 DEF IdsApart
<1>11. Inv' <=> Stored' /\ req' \in [Clients -> Requests] /\ IdsApart' /\ \A d \in Clients : Own(d)'
  BY DEF Inv, TypeInv, Asked, ChecksInv, ReportInv, ListInv, Own, Fit
<1> QED BY <1>2, <1>3, <1>7, <1>8, <1>10, <1>11

LEMMA ClientKeeps ==
  ASSUME Inv, NEW c \in Clients, Silent(c) \/ Statement(c)
  PROVE  Inv'
<1>1. Stored /\ Asked /\ TypeInv /\ IdsApart /\ \A d \in Clients : Own(d)
  BY OwnOf DEF Inv, TypeInv
<1>2. req' = [req EXCEPT ![c] = req'[c]]
  BY <1>1, OthersSame
<1>3. \A d \in Clients \ {c} : req'[d] = req[d]
  BY <1>1, <1>2 DEF Asked
<1>4. PICK N, D, W : /\ Step(N, D, W) /\ Stored' /\ Apart(c, N)
                     /\ Own(c)' /\ Plans(c) /\ PlannedNew(c)' \intersect N = {}
  <2>1. CASE Silent(c)
    <3>1. Step({}, {}, {}) /\ Stored' /\ Apart(c, {})
      BY <1>1, <2>1, SilentMoves DEF Apart
    <3>2. Own(c)' /\ Plans(c)
      BY <1>1, <2>1, <3>1, OwnSilent
    <3> QED BY <3>1, <3>2
  <2>2. CASE Statement(c)
    <3>1. PICK N, D, W : Step(N, D, W) /\ Stored' /\ Apart(c, N)
      BY <1>1, <2>2, StatementMoves
    <3>2. Own(c)' /\ PlannedNew(c)' = {} /\ PlannedOld(c)' = {}
      BY <1>1, <2>2, OwnStatement
    <3> QED BY <3>1, <3>2 DEF Plans
  <2> QED BY <2>1, <2>2
<1>5. IdsApart'
  BY <1>1, <1>3, <1>4, PlansApart
<1>6. groups' \subseteq groups
  <2>1. CASE Silent(c)
    BY <1>1, <2>1, SilentMoves DEF Quiet
  <2>2. CASE Statement(c)
    BY <2>2 DEF Statement, CreateTx, UpdateTx, Flush, Delete, BatchDelete, BatchStatus, BatchMove, DeleteInvalid, GroupDelete,
                Tables, Quiet
  <2> QED BY <2>1, <2>2
<1>7. \A d \in Clients : Own(d)'
  <2>1. ASSUME NEW d \in Clients \ {c} PROVE Own(d)'
    BY <1>1, <1>3, <1>4, <1>6, OwnKept
  <2> QED BY <1>4, <2>1
<1>8. req' \in [Clients -> Requests]
  <2>1. req'[c] \in Requests /\ req \in [Clients -> Requests]
    BY <1>1, <1>4 DEF Own, Fit, Asked
  <2> QED BY <1>2, <2>1
<1>9. Inv' <=> Stored' /\ req' \in [Clients -> Requests] /\ IdsApart' /\ \A d \in Clients : Own(d)'
  BY DEF Inv, TypeInv, Asked, ChecksInv, ReportInv, ListInv, Own, Fit
<1> QED BY <1>4, <1>5, <1>7, <1>8, <1>9

\* A step that changes no request: a health check.
LEMMA CheckKeeps ==
  ASSUME Inv, NEW W, Step({}, {}, W), Stored', UNCHANGED <<req, groups>>
  PROVE  Inv'
<1>1. Stored /\ Asked /\ IdsApart /\ \A d \in Clients : Own(d)
  BY OwnOf DEF Inv, TypeInv
<1>2. \A d \in Clients : Own(d)'
  BY <1>1, OwnKept
<1>3. Used' = Used
  BY <1>1, Effects
<1>4. IdsApart'
  BY <1>1, <1>3 DEF IdsApart, PlannedNew, PlannedOld
<1>5. req' \in [Clients -> Requests]
  BY <1>1 DEF Asked
<1>6. Inv' <=> Stored' /\ req' \in [Clients -> Requests] /\ IdsApart' /\ \A d \in Clients : Own(d)'
  BY DEF Inv, TypeInv, Asked, ChecksInv, ReportInv, ListInv, Own, Fit
<1> QED BY <1>2, <1>4, <1>5, <1>6

LEMMA InvStart == Init => Inv
<1> SUFFICES ASSUME Init PROVE Inv
  OBVIOUS
<1>1. rows \in [Ids -> {NoRow} \union Row]
  <2> DEFINE first(a) == [state |-> "live", email |-> a, group |-> System, status |-> "active",
                          health |-> "unknown", born |-> 0, seen |-> 0]
  <2>1. \A a \in Ids : a <= Preloaded => first(a) \in Row
    BY MailboxAssumption DEF Row, Statuses, Healths, AllGroups
  <2>2. rows = [a \in Ids |-> IF a <= Preloaded THEN first(a) ELSE NoRow]
    BY DEF Init
  <2> HIDE DEF first
  <2> QED BY <2>1, <2>2
<1>2. IsFiniteSet(Used)
  <2>1. \A a \in Used : a \in 0..Preloaded
    <3> TAKE a \in Used
    <3>1. a \in Ids /\ rows[a].state # "none"
      BY DEF Used
    <3>2. a <= Preloaded
      BY <3>1, RowStates DEF Init
    <3>3. Ids \subseteq Nat /\ Preloaded \in Nat
      BY MailboxAssumption
    <3> QED BY <3>1, <3>2, <3>3
  <2>2. IsFiniteSet(0..Preloaded)
    <3>1. Preloaded \in Int
      BY MailboxAssumption
    <3> QED BY <3>1, FS_Interval
  <2> QED BY <2>1, <2>2, FS_Subset
<1>3. Stored
  BY <1>1, <1>2 DEF Stored, Init, AllGroups
<1>4. \A c \in Clients : req[c] = Idle
  BY DEF Init
<1>5. req \in [Clients -> Requests]
  BY DEF Init, Requests
<1>6. \A c \in Clients : Own(c)
  BY <1>4 DEF Own, Fit, Requests, Idle, CreateStale, ImportStale, GroupStale, DeleteStale, Reported, Listed
<1>7. IdsApart
  BY <1>4 DEF IdsApart, PlannedNew, PlannedOld, Idle
<1> QED BY <1>3, <1>5, <1>6, <1>7, OwnOf

LEMMA InvStep == Inv /\ [Next]_vars => Inv'
<1> SUFFICES ASSUME Inv, [Next]_vars PROVE Inv'
  OBVIOUS
<1>1. Stored /\ TypeInv
  BY DEF Inv, TypeInv
<1>2. ASSUME NEW c \in Clients, Request(c) PROVE Inv'
  BY <1>2, Split, ClientKeeps, GroupCreateKeeps
<1>3. ASSUME NEW a \in Ids, NEW h \in {"ok", "invalid"}, Checked(a, h) PROVE Inv'
  <2>1. PICK W : Step({}, {}, W) /\ Stored'
    BY <1>1, <1>3, CheckedMoves
  <2>2. UNCHANGED <<req, groups>>
    BY <1>3 DEF Checked, Tables
  <2> QED BY <2>1, <2>2, CheckKeeps
<1>4. CASE UNCHANGED vars
  <2>1. Quiet /\ UNCHANGED <<req, groups>> /\ ops' \in Nat
    BY <1>1, <1>4 DEF vars, Quiet, Stored
  <2>2. Step({}, {}, {}) /\ Stored'
    BY <1>1, <2>1, QuietStep
  <2> QED BY <2>1, <2>2, CheckKeeps
<1> QED BY <1>2, <1>3, <1>4 DEF Next

\* The tables and the requests are what the inductive invariant says.
THEOREM Invariant == Spec => []Inv
<1> QED BY InvStart, InvStep, PTL DEF Spec

-----------------------------------------------------------------------------
(* The properties of the runs.                                             *)

\* The tables hold what their columns allow, whatever statements interleave:
\* aliases belong to rows, the default group stays, and each row is in a group
\* of the tenant's.
THEOREM TablesWellTyped == Spec => []TypeOK
<1>1. Inv => TypeOK
  BY DEF Inv, TypeInv, Stored, Asked, TypeOK
<1> QED BY <1>1, Invariant, PTL

\* account_import.go: when an import ends, each of its lines is counted once, and
\* its counts of created and updated accounts are the rows it wrote, whatever
\* batches failed and whatever other requests did between them.
THEOREM ImportReportTrue == Spec => []ImportAddsUp
<1>1. Inv => ImportAddsUp
  <2> SUFFICES ASSUME Inv, NEW c \in Clients, Imported(c)
               PROVE  LET r == req[c].report IN /\ r.total = r.created + r.updated + r.skipped + r.failed
                                                /\ r.created = req[c].mine
                                                /\ r.updated = req[c].wrote
    BY DEF ImportAddsUp
  <2> DEFINE r == req[c]
  <2>1. Asked /\ Reported(r)
    BY DEF Inv, TypeInv, ReportInv
  <2>2. r \in ImportReq /\ r.op = "import" /\ r.batch = <<>>
    BY <2>1, ReqOf DEF Imported, At
  <2>3. r.report \in Report /\ r.mine \in Nat /\ r.wrote \in Nat
    BY <2>2 DEF ImportReq
  <2>4. r.report.total = r.report.created + r.report.updated + r.report.skipped + r.report.failed
    BY <2>1, <2>2 DEF Reported
  <2>5. r.report.created = r.mine + 0 /\ r.report.updated = r.wrote + (0 - 0)
    BY <2>1, <2>2, NoLines DEF Reported
  <2>6. r.report.created = r.mine /\ r.report.updated = r.wrote
    BY <2>3, <2>5
  <2> QED BY <2>4, <2>6
<1> QED BY <1>1, Invariant, PTL

\* A list read page by page with OFFSET, in any of its orders: while it was
\* read no account was skipped unless one was deleted, and none repeated unless
\* one was inserted, or a write moved it.
THEOREM ListsExplained == Spec => []ListExplained
<1>1. Inv => ListExplained
  <2> SUFFICES ASSUME Inv, NEW c \in Clients, At(c, "list", "done"), req[c].stirred = stirred
               PROVE  LET r == req[c] IN
                      /\ r.gone = gone => r.here \subseteq ToSet(r.out)
                      /\ r.born = born => IsInjective(r.out)
                      /\ r.gone = gone /\ r.born = born => ToSet(r.out) = r.here
    BY DEF ListExplained
  <2> DEFINE r == req[c]
  <2>1. (r.gone = gone => NoneMissed(r)) /\ (r.born = born => NoneTwice(r)) /\ r.pc = "done"
    BY DEF Inv, ListInv, Listed, At
  <2>2. r.gone = gone => r.here \subseteq ToSet(r.out)
    BY <2>1 DEF NoneMissed
  <2>3. r.born = born => IsInjective(r.out) /\ ToSet(r.out) \subseteq r.here
    BY <2>1 DEF NoneTwice
  <2> QED BY <2>2, <2>3
<1> QED BY <1>1, Invariant, PTL

\* Which step inserts an account: the transaction of a create, or a batch.
LEMMA OnlyInserts ==
  ASSUME Stored, Asked, NEW d \in Clients, Request(d), born' # born
  PROVE  CreateTx(d) \/ Flush(d)
<1>1. born \in Nat /\ born + 0 = born
  BY DEF Stored
<1>2. ~Silent(d)
  BY SilentMoves DEF Quiet
<1>3. \A g \in Groups : ~GroupCreate(d, g)
  BY DEF GroupCreate
<1>4. Statement(d)
  BY <1>2, <1>3, Split
<1> QED BY <1>1, <1>4 DEF Statement, UpdateTx, Delete, BatchDelete, BatchStatus, BatchMove, DeleteInvalid, GroupDelete,
                         Tables, Quiet

LEMMA InsertStep ==
  ASSUME Inv, NEW c \in Clients, CreateTx(c) \/ Flush(c), born' > born, MaxAccounts # Unlimited
  PROVE  Cardinality(Live') <= MaxAccounts + (born' - req[c].at) - (req[c].mine + born' - born)
<1> DEFINE r == req[c]
<1>1. Stored /\ Asked /\ TypeInv /\ IdsApart /\ CreateStale(r) /\ ImportStale(r)
  BY DEF Inv, TypeInv, ChecksInv
<1>2. born \in Nat /\ born' # born /\ Cardinality(Live) \in Nat
  BY <1>1, Finite DEF Stored
<1>3. CASE CreateTx(c)
  <2>1. r \in CreateReq /\ r.op = "create" /\ r.pc = "tx"
    BY <1>1, <1>3, ReqOf DEF CreateTx, At
  <2>2. r.at \in Nat /\ r.mine = 0
    BY <2>1 DEF CreateReq
  <2>3. born' = born + 1
    BY <1>2, <1>3 DEF CreateTx, Tables, Quiet
  <2>4. PICK N : Step(N, {}, {})
    BY <1>1, <1>3, CreateTxMoves
  <2>5. Cardinality(Live') \in Nat /\ Cardinality(Live') <= Cardinality(Live) + Cardinality(N)
    BY <1>1, <2>4, Growth
  <2>6. Cardinality(N) \in Nat /\ born' >= born + Cardinality(N)
    BY <2>4, FS_CardinalityType DEF Step
  <2>7. Cardinality(Live) + 1 <= MaxAccounts + (born - r.at)
    BY <1>1, <2>1 DEF CreateStale
  <2> QED BY <1>2, <2>2, <2>3, <2>5, <2>6, <2>7, Limits
<1>4. CASE Flush(c)
  <2> DEFINE n == Cardinality(Inserts(r.batch))
  <2>1. r \in ImportReq /\ r.op = "import" /\ r.pc # "count"
    BY <1>1, <1>4, ReqOf DEF Flush, At
  <2>2. r.at \in Nat /\ r.mine \in Nat /\ r.used \in Nat /\ r.batch \in Seq(Line)
    BY <2>1 DEF ImportReq
  <2>3. BatchAllowed(r.batch) => Step(NewIds(r.batch), {}, OldIds(r.batch)) /\ born' = born + n
    BY <1>1, <1>4, FlushMoves
  <2>4. ~BatchAllowed(r.batch) => born' = born
    BY <1>1, <1>4, FlushMoves
  <2>5. Step(NewIds(r.batch), {}, OldIds(r.batch)) /\ born' = born + n
    BY <1>2, <2>3, <2>4
  <2>6. n \in Nat /\ Cardinality(NewIds(r.batch)) <= n /\ Cardinality(NewIds(r.batch)) \in Nat
    BY <2>2, BatchCounts
  <2>7. Cardinality(Live') \in Nat /\ Cardinality(Live') <= Cardinality(Live) + Cardinality(NewIds(r.batch))
    BY <1>1, <2>5, Growth
  <2>8. Cardinality(Live) + r.mine + n <= r.used + (born - r.at) /\ (n > 0 /\ MaxAccounts # Unlimited => r.used <= MaxAccounts)
    BY <1>1, <2>1 DEF ImportStale
  <2>9. n > 0
    BY <1>2, <2>5, <2>6
  <2>10. Cardinality(Live') <= Cardinality(Live) + n
    BY <1>2, <2>6, <2>7
  <2> HIDE DEF n, r
  <2>11. r.used <= MaxAccounts
    BY <2>8, <2>9
  <2>12. Cardinality(Live') <= MaxAccounts + (born' - r.at) - (r.mine + born' - born)
    <3>1. /\ born \in Nat /\ born' = born + n /\ n \in Nat /\ MaxAccounts \in Int
          /\ Cardinality(Live) \in Nat /\ Cardinality(Live') \in Nat
      BY <1>2, <2>5, <2>6, <2>7, Limits
    <3>2. r.at \in Nat /\ r.mine \in Nat /\ r.used \in Nat
      BY <2>2
    <3>3. Cardinality(Live) + r.mine + n <= r.used + (born - r.at)
      BY <2>8
    <3> QED BY <2>10, <2>11, <3>1, <3>2, <3>3
  <2> QED BY <2>12 DEF r
<1> QED BY <1>3, <1>4

\* A step changes the request of the client that takes it, and of no other but
\* for what a new group adds.
LEMMA WhoseStep ==
  ASSUME Asked, NEW c \in Clients, NEW d \in Clients, Request(d), req'[c] # req[c]
  PROVE  c = d \/ \E g \in Groups : GroupCreate(d, g)
<1>1. CASE Silent(d) \/ Statement(d)
  BY <1>1, OthersSame DEF Asked
<1> QED BY <1>1, Split

\* A limit on accounts, judged before the insert, is passed by no more than what
\* other requests inserted between the count and the insert.
LEMMA InsertsExplainedStep == Inv /\ [Next]_vars => [InsertsExplained]_vars
<1> SUFFICES ASSUME Inv, Next PROVE InsertsExplained
  OBVIOUS
<1> SUFFICES ASSUME NEW c \in Clients, born' > born, req'[c] # req[c], MaxAccounts # Unlimited
             PROVE  Cardinality(Live') <= MaxAccounts + (born' - req[c].at) - (req[c].mine + born' - born)
  BY DEF InsertsExplained
<1>1. Stored /\ Asked /\ born \in Nat /\ born' # born
  BY DEF Inv, TypeInv, Stored
<1>2. ASSUME NEW a \in Ids, NEW h \in {"ok", "invalid"}, Checked(a, h) PROVE FALSE
  BY <1>2 DEF Checked
<1>3. PICK d \in Clients : Request(d)
  BY <1>2 DEF Next
<1>4. CreateTx(d) \/ Flush(d)
  BY <1>1, <1>3, OnlyInserts
<1>5. c = d
  BY <1>1, <1>3, WhoseStep DEF GroupCreate
<1> QED BY <1>4, <1>5, InsertStep

LEMMA GroupsExplainedStep == Inv /\ [Next]_vars => [GroupsExplained]_vars
<1> SUFFICES ASSUME Inv, Next PROVE GroupsExplained
  OBVIOUS
<1> SUFFICES ASSUME NEW c \in Clients, groups' # groups, groups \subseteq groups', req'[c] = Idle, req[c] # Idle,
                    MaxGroups # Unlimited
             PROVE  Cardinality(groups') <= MaxGroups + req[c].others
  BY DEF GroupsExplained
<1>1. Stored /\ Asked
  BY DEF Inv, TypeInv
<1>2. ASSUME NEW a \in Ids, NEW h \in {"ok", "invalid"}, Checked(a, h) PROVE FALSE
  BY <1>2 DEF Checked, Tables
<1>3. PICK d \in Clients : Request(d)
  BY <1>2 DEF Next
<1>4. ~Silent(d)
  BY <1>1, SilentMoves DEF Quiet
<1>5. ~Statement(d)
  BY DEF Statement, CreateTx, UpdateTx, Flush, Delete, BatchDelete, BatchStatus, BatchMove, DeleteInvalid, GroupDelete,
         Tables, Quiet
<1>6. PICK g \in Groups : GroupCreate(d, g)
  BY <1>3, <1>4, <1>5, Split
<1>7. c = d
  <2> SUFFICES ASSUME c # d PROVE FALSE
    OBVIOUS
  <2>1. At(c, "group", "insert") /\ req'[c] = [req[c] EXCEPT !.others = @ + 1]
    BY <1>6 DEF GroupCreate
  <2>2. req[c] \in GroupReq
    BY <1>1, <2>1, ReqOf DEF At
  <2>3. [req[c] EXCEPT !.others = @ + 1].op = "group"
    BY <2>2 DEF GroupReq
  <2> QED BY <2>1, <2>3 DEF Idle
<1>8. req[c] \in GroupReq /\ req[c].op = "group"
  BY <1>1, <1>6, <1>7, ReqOf DEF GroupCreate, At
<1>9. Cardinality(groups) + 1 <= MaxGroups + req[c].others
  BY <1>8 DEF Inv, ChecksInv, GroupStale
<1>10. Cardinality(groups') = Cardinality(groups) + 1
  BY <1>6, GroupCreateKeeps
<1> QED BY <1>9, <1>10

LEMMA SurplusExplainedStep == Inv /\ [Next]_vars => [SurplusExplained]_vars
<1> SUFFICES ASSUME Inv, Next PROVE SurplusExplained
  OBVIOUS
<1> SUFFICES ASSUME NEW c \in Clients, At(c, "invalid", "delete"), req'[c] = Idle
             PROVE  gone' - gone <= req[c].expected + (stirred - req[c].at)
  BY DEF SurplusExplained
<1> DEFINE r == req[c]
           n == CountMailAccountsByHealth(r.filter, "invalid")
<1>1. Stored /\ Asked /\ gone \in Nat /\ DeleteStale(r)
  BY DEF Inv, TypeInv, ChecksInv, Stored
<1>2. r.op = "invalid" /\ r.pc = "delete" /\ req'[c] # r
  BY DEF At, Idle
<1>3. ASSUME NEW a \in Ids, NEW h \in {"ok", "invalid"}, Checked(a, h) PROVE FALSE
  BY <1>2, <1>3 DEF Checked
<1>4. PICK d \in Clients : Request(d)
  BY <1>3 DEF Next
<1>5. \A g \in Groups : ~GroupCreate(d, g)
  BY <1>2 DEF GroupCreate, At
<1>6. c = d
  BY <1>1, <1>2, <1>4, <1>5, WhoseStep
<1>7. ~Silent(c)
  BY <1>2 DEF Silent, CreateBegin, EnsureAccountQuota, EnsureEmailAvailable, ValidateAliases, Edit, UpdateBegin, ImportBegin,
              PrepareImport, PlanLine, ImportEnd, Imported, BatchMoveBegin, ConfirmInvalid, CheckExpected,
              GroupCreateBegin, GroupDeleteBegin, GroupDeleteEnd, CollectBegin, CollectPage, CollectEnd, Begin, At, Idle
<1>8. DeleteInvalid(c)
  BY <1>2, <1>4, <1>5, <1>6, <1>7, Split
     DEF Statement, CreateTx, UpdateTx, Flush, Delete, BatchDelete, BatchStatus, BatchMove, GroupDelete, Once, At, Idle
<1>9. gone' = gone + n
  BY <1>8 DEF DeleteInvalid, Tables
<1>10. n \in Nat
  BY <1>1, Finite DEF CountMailAccountsByHealth
<1>11. n <= r.expected + (stirred - r.at)
  BY <1>1, <1>2 DEF DeleteStale
<1> QED BY <1>1, <1>9, <1>10, <1>11

\* The limits on accounts and groups, and the number a user confirmed, are judged
\* on counts that are older than the statement they guard: what goes beyond them
\* is what other requests did in between, never more.
THEOREM StaleChecksBounded == Spec => StaleChecksExplained
<1>1. Inv /\ [Next]_vars => [InsertsExplained /\ GroupsExplained /\ SurplusExplained]_vars
  BY InsertsExplainedStep, GroupsExplainedStep, SurplusExplainedStep
<1> QED BY <1>1, Invariant, PTL DEF Spec, StaleChecksExplained
=============================================================================
