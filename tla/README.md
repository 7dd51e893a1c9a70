# Verification of emailbox

TLA+ models of the mailbox manager in this repository, the TLC configurations that check
them on small instances, and TLAPS proofs of the main theorems.  Paths and line numbers are
those of the repository; `PROJECT.json` maps every definition to the lines it models.

## The system

emailbox is a Go process (or several, over one PostgreSQL) that serves tenants from SQLite
(one connection) or PostgreSQL, talks to mail providers and to the payment provider Waffo,
and feeds a web client.

| Component | State | Operations | Interacts with | Modelled in |
|---|---|---|---|---|
| Job manager (`pkg/job`) | tables `jobs`, `job_items`; in memory `running`, the queue, the workers, the counters | Submit, run, dispatch, finish, Stop, heartbeat, Shutdown, ReapStale, retention | runners, the scheduler, the server's start and end | `JobManager`, `JobLifecycle` |
| Job event log and SSE | `job_events`; the counter of numbers, the subscribers, `lastSeq` of a stream | emit, Subscribe, Notify, Stream, drain, reconnect | the job manager writes it, clients read it | `JobStream` |
| Refresh scheduler, submission of refreshes and checks | `mail_groups.next_refresh_at`, `refresh_interval_minutes` | Tick: list due groups, count jobs, claim, submit; SubmitBatch | jobs, group edits, several processes | `RefreshScheduler` |
| Accounts, groups, aliases | `mail_accounts`, `mail_groups`, `mail_account_aliases` of a tenant | create, update, import, export, delete, move, batch, DeleteInvalid | limits of the plan, one another | `Mailbox` |
| Credentials, refresh and health runners | token, client, channel, status, health of one account | call, refresh, check, edit, delete, write-back of a rotated token | the provider, jobs, OAuth | `Credentials` |
| OAuth reauthorisation | `oauth_authorizations` | Start, callback, exchange, Complete, expiry, purge | the provider, the account | `OAuthFlow` (promise), `Credentials` |
| Mail fallback chain and protocols | none that lasts | channels, proxy candidates, token, login, batches, the verdict | mail servers, proxies | `MailCall` |
| Import and export of a line | none | FormatLine, ParseLine, the channel order of an account | mail chain | `Transfer` |
| Authentication, workspaces, members, administration, plans, quota | `users`, `sessions`, `tenants`, `tenant_members`, `plans`, `tenant_quotas`, `usage_counters` | login, register, passwords, roles, members, plans, CheckAndConsume | the middleware of every request | `Access` |
| Billing | `tenant_subscriptions`, `tenant_quotas`, `billing_checkout_sessions`, `billing_webhook_events` | CreateCheckout, SyncCheckouts, Cancel, ProcessWebhook, AssignPlan | Waffo calls it and is called | `Billing` |
| Prices | `plan_prices`, the products at Waffo | CreatePrice, UpdatePrice, SyncPrice | plans (`Access`), Waffo | `Pricing` |
| API keys, desktop sign-in, encryption, configuration, migrations, front end, probe | single rows or none | request-local | | no (see the end) |

What is hard here is what happens between two statements: stop requests against workers,
a shutdown whose cancelled context makes the last writes fail, restarts that must guess
which jobs are dead, numbers that are taken before rows are written, webhooks that come in
any order and twice, limits that are counted before an insert, and, everywhere, requests
that read a row, wait for a provider, and then write what they once read.  `hazards` in
`PROJECT.json` lists them, each with its line.

## Modules

**`JobLifecycle`** is the abstract promise about a job: the statuses and the moves between
them that the statements of `jobs.sql` allow (a job starts once, ends once, ends as
`stopped` only on request, is `interrupted` only by a reaper).

**`JobManager`** is the engine.  Each database statement is one atomic step, as it is in the
code (only `CreateJobItems` is a transaction of several), and each goes through `Calls`,
which fails when the context of the job is cancelled and otherwise at most `MaxFaults`
times.  `run[j]` is where the submission and then the goroutine of a job is, `at[j][w]`
where each worker is, `todo[j]` what the dispatcher has not handed out; the unbuffered
channel is a rendezvous (`TakeItem`).  `Crash` and `Exit` forget what is in memory and keep
the tables; `Restart` is the one call of `ReapStale`.  Time is the one bit `heartbeat[j]`
relative to the cutoff.

**`JobStream`** is the event log of one job.  An emission is three steps (`TakeNumber`,
`Insert`, `Notify`), a stream follows the loop of `Stream` (connect, subscribe, drain in
batches, judge, wait), and a client that loses its stream comes back with the last id it
received, until it has the finished event.  What was written to a connection that breaks
and never arrived counts as not sent, so `Break` may cut a batch at any place.  A failed
read of the highest number starts the counter at 1; it can only happen for the first event
of a job, where the log is empty.  `ReapStale` writes no event.
`JobManager` and `JobStream` are two views of one goroutine: what a job does to its tables
and what it tells.  They share no property, so they are not composed; `JobStream.stage` is
the coarse form of `JobManager.run`.

**`RefreshScheduler`** is the scan of every process next to requests, jobs and time.  A job
is what `JobManager` makes of it, in coarse form: active, with a process that runs it
(`host`) or without one, until it ends.  Time is relative: `due[g]` is `next_refresh_at`
minus now, in units of a day or more (an interval is 7 to 30 days, a scan comes each
minute); at most `Slack` units pass during one scan.  Lateness beyond `MaxLate` keeps the
order of the groups only (`Floor`).  A group that is deleted is one that is off.  Whether
`selectAccounts` finds accounts is a choice.  `quiet[g]` is a history variable: the time
since the last claim or change of schedule, counted up to `MaxQuiet`.

**`Mailbox`** is the tenant's tables and the requests that change them, statement by
statement; a transaction is one step.  Accounts and addresses are numbers, for the orders
lists are sorted by.  `req[c]` is what a request has read and where it is; `born`, `gone`
and `stirred` count inserts, deletes and writes, so that a property can say what happened
between two statements of a request.  An update forgets the verdict on an account only if
something that a login uses has changed, or the status (`LoginInputsChanged`), and leaves the
aliases alone unless it names some (`given`).  A limit is a number or `Unlimited`; the run has
numbers, as without a limit there is nothing to pass, and the theorem is about both.

**`Credentials`** is one account.  A refresh token is the authorisation it comes from and
its number among those issued for it; every actor reads the row, talks to the provider, and
writes some columns.  The history variable `stale` names the columns that were written on
the strength of an outdated read.  **`OAuthFlow`** is what reauthorisation promises of a
flow: an authorisation is installed once, in the step that consumes it, by no flow that
failed, expired or was purged.  `Credentials` implements it (`FlowSpec`).

**`MailCall`** is one operation on one account: the chain over channels, the proxy
candidates of a channel, token, login, work on the mailbox (`$batch` chunks and their
retries on Graph, UID commands on IMAP), and the verdict that is stored.  Every answer of a
proxy, a token endpoint and a server is a choice.  An id of Graph names its message or none
(a 404).  A UID names what is in the folder now: `names` says which message that is, perhaps
another than was meant, or none, as the UIDVALIDITY is never compared.  A server answers OK to
a `UID STORE` that names nothing, and `ops.go:242` reports every id of the command as done, so
`ImapApply` does the same.  A caller may go at any time (`Cancel`); a `$batch` that was on its
way then may have taken effect (`GiveUp`).  **`Transfer`** has the pure functions:
the text form of an account, its parser and the channel order.  A field of a line is known
by what the parser tests of it: its core between the dashes it begins and ends with.

**`Access`** is who may do what.  The middleware of a request is one step, the reads of a
service up to a write are one, every write and every transaction is one, and other requests
come between.  A fetch of mail reads its limit (`Fetch`), then the day (`Today`), then counts
(`Consume`), as `CheckAndConsume` does; a new day may begin between any two.  With `Serial` a statement that counts and writes excludes all others (SQLite);
without it, its count is of what was committed when it began (PostgreSQL).  A behaviour mixes the requests of
one of the `Menus`.  `req[i]` is a record with the same fields for every kind of request,
`None` or 0 where a field means nothing (`Idle`).  The history variables are `overlapped` (guards on a last one that two
requests were passing at once; two removals of members, whose guard is in the statement that
deletes, have a mark of their own), `cut`, `most` (the limits in force on a day), `carried`
(fetches counted on a day whose limit was read on the day before), and the marks of a session
that was opened while its user's sessions were deleted.

**`Billing`** is one tenant.  The provider is external: orders, sessions, payments, ends
and changes of plan, with one event and one new time for each change.  An event is
recorded and its transaction begins (`Receive`), it is applied and committed (`Commit`),
and it is marked processed (`MarkProcessed`), so a crash or a second delivery fits between.
Syncs and checkouts (`StartSync`, `FindOrder`, `BeginSync`, `Decide`, `OpenSession`) and
Cancel (`AskProvider`, `StoreAsk`) are split where the code calls the provider.

**`Pricing`** extends `Access` with the prices of the plans and Waffo's products: a request
reads the whole row, asks the provider, writes the whole row; a change may name an amount,
whether the price is for sale, or both.  That the row was written in between is noted in the request (`stale`), as comparing the rows would miss one that was
written twice.  The composition is
`PricingNext`: a step of `Access`, with the prices of a deleted plan deleted and the
requests of a dead process forgotten (`Cascade`), or a step of a price request.

`MC...` modules hold the constants of the instances.  A `...Proofs` module extends the module
it is named after with the theorems about it.

## Runs

Passing runs explore their instance to the end.

| Run | Instance | Shows |
|---|---|---|
| `jobs_safety` | 1 job, 3 items, 2 workers, 1 fault, 1 end of the process | the runner is called once per item; counters trail items by at most one per worker; a verdict is true; after a stop each worker starts at most one more item; a job that nobody runs is explained; terminal is final; `JobLifecycle` is implemented |
| `jobs_live` | 1 job, 3 items, 1 worker, 1 end of the process, fair | a started job ends; a cancelled job lets go of its goroutines, also with items left to hand out |
| `stream_safety` | 2 workers, 1 client, 3 worker events, batches of 2, 1 fault, 1 break, fair | numbers are fresh; a client sees events in order and once; finished is last, and reaches a watching client by notifications alone |
| `schedule_safety` | 2 groups of 1 tenant, 2 processes, 1 client, 2 requests, 2 faults or restarts | counted jobs do not stack up; a cycle is handed out once |
| `schedule_live` | 3 groups of 2 tenants, a scan of 2 rows, 1 process, 1 request, 1 fault, fair | a due group gets its turn unless jobs that nobody runs stand in its way |
| `mailbox_safety` | every pair of ten kinds of requests, 2 accounts to begin with, a limit of 3, batches of 2, pages of 1, 2 health checks | limits are passed, and more is deleted than was confirmed, only by what came between the check and the write; the report of an import adds up; what a paged list misses is explained |
| `credentials_safety` | 2 actors at once, 3 requests, 2 tokens per grant, 1 flow, 1 crash | a deleted account has no secrets and gets none; credentials, verdict and ban are in order unless an outdated read was written; `OAuthFlow` is implemented |
| `mail_safety` | 8 accounts: readings with 4 proxy settings and 4 natures of a proxy; batches without a proxy, of 3 messages in 2 folders in turn, chunks of 2, 1 retry, a message of another client, every way ids may name a message or none; 14,400 accounts exported | no call slides past a proxy; the report of a batch holds of what its ids name; export and import are inverse but for the lines that are named |
| `access_safety` | 3 users, 2 teams, 3 plans, limits of 1, 2 and none, 7 menus, 2 requests at once, PostgreSQL; in one menu 4 fetches and changes of plans around a midnight, in two 2 or 3 requests about prices; 1 restart | old sessions are gone or explained; an administrator, an owner's membership, a default plan remain; a day's use is within a limit of that day but for limits read before midnight; the price shown is the price charged |
| `billing_safety` | a checkout and a change of plan, one at a time (`Serial`), in order up to time 6, in any order up to time 5 with one click, 1 fault | grant and record agree; in order the plan converges to what is paid; the late end of an old order is harmless; canceled is final |
| `mail_invalid` | the instance of `mail_safety` | finding, below |
| `access_locked` | the instance of `access_safety`, one request at a time | finding, below |

Why the bounds are enough.  Two workers and three items give a worker that waits, one that
works and an item that is left, which is every relation between workers that the code tells
apart (they share only the queue, the counters and a flag).  One end of the process and one
failed call fall at every point of a run; a second would start from a state that is a first
state of another run (a restart keeps the tables only).  A batch of two gives full and short
batches, a page of one gives a boundary after every row.  Clients of a job share nothing
but its log.  Two requests at once are what a race between a check and a write takes; each
menu and the `Menu` constants hold the requests that touch the same rows, and requests of
different menus share no row but those of `deleteUser`, `updateUser` and `register`, which
are in several.  In `access_safety` the first user is an administrator and owns the team
without loss of generality; the others are anything.  Menus of fetches and prices have
fixed members, and fetches one workspace (`Billed`), as one does not count against another's
limit.  Four requests make two fetches and two changes of a plan or its limit, so that a limit
which was read before midnight lets a fetch pass that the new day's would not.  One price may be
there from the start, so two requests can meet over it, and a third can bring back what the first
has read before it writes.  A restart is left out of the menu of fetches, which it only drops, and of
that with three requests about prices.  The instance is PostgreSQL's (`Serial = FALSE`), which has
the more behaviours; the theorems hold on both engines.  `Credentials` could also make the mail service's own calls (`mail`); the run
leaves them out, as a `refresh` reads and writes back the same columns.  Two orders are the
current one and one other, which is all that `applyStatus` compares.  The two time bounds
of `billing_safety` let an order be opened, paid, changed and ended, and the second one
begin, next to one click of a user or an admin when the order is free.  With its one checkout
nothing is paid twice; what happens with more is the theorem's matter.  A batch of `mail_safety`
takes no proxy: what comes before the work on the mailbox is the same for every operation.  In
the scheduler two groups of one tenant compete for its one job, and three of two tenants overflow a scan
of two.  Where a property is proved, no bound is involved at all.

`CHECK_DEADLOCK FALSE` is set where bounded requests or provider times run out and nothing
else is left to do: the runs of `Access`, `Billing`, `Credentials` and `Mailbox`.  The
others check deadlock; a server that waits for requests (`Rest`) and a call that has
returned stutter explicitly.

Fairness.  `jobs_live` and `stream_safety`: weak fairness of the goroutines of a job and of
a stream (the Go scheduler runs what can run; a runner returns, because each upstream call
has a timeout), and of the reconnection of a stream that was cut (an EventSource does it by
itself).  Nobody must submit, stop, restart or watch, and the ticker may never fire, to show
that `Notify` is enough.  `schedule_live`: scans go on (a `time.Ticker`), a job that has a
goroutine ends (shown by `jobs_live`), time passes; no process must restart, and requests
by hand come to an end (`MaxAsks`), as a tenant that is kept busy for ever is not served.

Symmetry (workers, clients, requests, flows, processes and groups) is used in runs without
liveness properties only.

How the race properties are made.  The code has many races it lives with (see below).  A
property that forbade them would only be violated; a property that is silent about them
would say nothing.  So a history variable marks the race itself (a column written after an
outdated read, a guard passed by two requests at once, an insert between a count and a
write), and the property says that nothing goes wrong without that mark: the crash, the
failed call, the order of steps, the retry are all in it.

## What is proved

Every theorem is for any number of processes, workers, clients, requests, faults and ends.
Assumptions are the named `ASSUME`s of the modules (`ConstantsOK`, `ScheduleConstants`,
`CredentialsAssumption`, `AccessAssumption`, `MailAssumption`, `MailboxAssumption`); TLC evaluates them on the instances.  Most say
that names are distinct and bounds are numbers.  Those that say more: the items of a job and
its workers are finitely many (`JobManager`), as are users and workspaces, and the migrations
make one plan the default (`Access`); a tenant has finitely many groups and begins with finitely many
accounts, and a request names finitely many (`Mailbox`); and a batch names each message once (`MailCall`), as
the client does, which keeps the selected messages in a set (`MessageList.tsx`: a request that
names one twice is not modelled).  Invariants that are not inductive as a run states
them are strengthened; the strengthening is given below.

`JobManagerProofs`:

* `TypeCorrect`: `[]TypeOK`, one step per action.
* `OwnershipHolds`: `[]Ownership`.  `FinishJob` and `MarkJobInterrupted` are unconditional UPDATEs.
  They are safe because a job's status agrees with where its goroutine is: before
  `StartJob` it is pending or stopping, after it running or stopping, and when the process is down
  there is no goroutine.  This is inductive as it stands, given the types.
* `Implements`: `Spec => LifecycleSpec`, each step of the engine maps to a step of `JobLifecycle` or
  a stutter; it needs `Ownership` where a verdict is written and where a reaper runs.
* `TerminalStays`: `TerminalIsFinal`, from the same invariant.
* `RunnerCalledOnce`: `[]RunnerOnce`.  `HandedOutOnce` adds where an item can be
  before the call (on the list, or with exactly one worker), and that a job which has not got its
  list yet has called nothing.
* `CountsTrail` and `VerdictHolds`: `[]CountsLag` and `[]VerdictIsTrue`, from `BooksKept`.  These
  properties and the two below speak of what holds as long as no call of the database fails.  Then an item that is not done is on the list or with one worker (`Placed`), and for
  each result the items that have it are those counted plus one for each worker that is about to
  count (`Booked`).  Both are about jobs whose calls take effect; once a job is cancelled, what was
  true of the bound and of the verdict stays true because nothing of the job is written any more.
* `StopTakesHold`: `[]StopIsPrompt`.  `Prompt`: the runner calls since the stop and the workers
  that have passed the check and not started are together no more than the workers.
* `NoJobIsLost`: `[]OrphansExplained`.  `Attended`: while no process has ended no job is cancelled, so
  that each goroutine comes to its verdict; one without a `StartJob` has no heartbeat.

`JobStreamProofs`:

* `NumbersStayFresh`, `FinishedStaysLast` and `TypeCorrect` (of the emitters' state), from the
  inductive invariant `IInv` (theorem `Numbering`): the counter is never behind a row or a number
  that is held, except before the first event, when there is neither; and from `goodbye` on no
  worker emits.
* `EventsInOrder`: `[]InOrder`.  `SortedInv`: what a client has got ascends, and the position of a
  stream is the last id its client has got.  That the rows a query returns ascend and lie beyond
  this position is `RowsInOrder`; it rests on the fact that among the numbers of a finite set every
  rank is taken (`PlacesTaken`), an induction over finite sets that is made by a smallest
  counterexample (`SmallestSet`), as the rules of induction of the library cannot be used.

`RefreshSchedulerProofs`:

* `TypeCorrect`: `[]TypeOK` of the schedule, the scans and the jobs (finitely many).
* `NothingStacks`: `[]NoStacking`.  The strengthening `StackInv` says what a count is worth until the
  job is submitted: while a process stands between its count and its submission, or a request
  between its count and its insert, it has no counted job of that tenant (`Free`,
  `FreeToCheck`).  Jobs of a process that died lose their host, not their submitter.
* `CyclesAreSpaced`: `Spaced`, if the history counts as far as the longest interval
  (`LongMemory`).  The strengthening `SpaceInv` says that the time since the last claim and the
  time to the next one add up to the interval (`AddsUp`), also while a scan holds an interval that
  the user has changed since (`UpToDate`: then the group is not due and the claim is lost).

`CredentialsProofs`:

* `TypeCorrect` and `SecretsStayGone`: `[]TypeOK`, `[]SecretsGone`.  `TypeInv` says which kinds of
  requests there are and what each carries (`Sound`): a rotated token continues the one that was
  read, an edit keeps what it does not change, what a completion installs is a token of the
  configured client.
* `Explained`: `[]CredentialsExplained`.  `NewestInv` adds the versions: the row has the newest token
  of its grant, or a request that is about to write it back does, or a column is marked as
  written after an outdated read, or the token was lost.
* `Implements` and `InstalledOnce`: `Spec => FlowSpec`, step by step, and what `OAuthFlow` promises
  about `Spec`: a flow is installed at most once, and only if it is consumed.

`BillingProofs`:

* `TypeCorrect`: `[]TypeOK`, for both ways of running transactions; with it `Times`: no event, row
  or transaction is ahead of the provider's time.
* `GrantsBacked`, `LateCancelHarmless`, `CancelsFinal`: `[]GrantBacked`, `OldCancelHarmless` and
  `CanceledIsFinal` under `Serial`, which SQLite's one connection provides.  `IInv` adds that the end of
  an order is its last event (`EndsInv`), that the transaction under way has read what is there
  (`Fresh`), and that what was canceled here carries the time of the end (`CanceledAt`).  Without
  `Serial` the second is false (see below).
* `PlansConverge`: `[]PlanConverges` under `Serial`.  `ConvInv` speaks of behaviours in order without
  a click.  The provider's side (`OrdersInv`, `LastInv`): an order begins with its start and ends with
  its end, starts come in the order of creation, and unless something was paid twice the order in
  service is the last one.  The work under way (`WorkInv`): a transaction is of the next event or
  of an order that a sync found.  The row (`RowInv`, `StartsDone`, `EndsDone`): it is not of an order
  before one whose start was processed, and not in service once its end was.  The plan goes with
  the row (`PlanInv`).  The hard case is a sync that enters an order late, after its end was processed:
  then the row is of that order and carries the time of its end (`NotEnded`), so the entry is dropped.

`AccessProofs`:

* `TypeCorrect`: `[]TypeOK`.  `TypeInv` is in three parts: the rows and what they refer to (`RowsInv`),
  where each kind of request may be and what it holds (`ReqsInv`), and that no two sessions, nor a
  session and a request that is about to write one, share an id (`IdsInv`).
* `SessionsAreExplained`: `[]SessionsExplained`.  `SessInv` says the same of the requests that are about
  to write a session: a password that changed since (`Fresh`), a workspace that was deleted since
  (`Placed`), is noted in them.
* `SomeoneStaysInCharge`: `[]SomeoneInCharge`, on both engines.  Requests that pass the same guard at
  once are noted (`Alone`); then a request that has passed one is alone, and what its guard saw is
  still so when it writes: who takes an administrator or an owner away leaves another (`AdminInv`,
  `OwnerInv`), who writes a plan knows which one is the default (`PlanInv`).  On SQLite removals may
  pass their guard together, as the statement that deletes counts again (`Contested`); on
  PostgreSQL not even they may.  What stays is a membership, maybe of a deleted account.
* `UsageWithinLimits`: `[]UsageBounded`.  `UsageInv`: the limit in force is among those noted for the
  day; so is the one that a fetch has read, if the day has not changed since (`FetchFits`); what
  is counted with a limit of the day before is noted (`carried`).
* `PricesAreExplained`: `PricingSpec => []PricesExplained`, for any number of requests about prices.
  `PriceInv`: the id of a price is that of one plan, and of nothing that is yet to be created
  (`PriceIds`); a row names a product that was created for it (`OwnProduct`); a request whose row
  nobody has written since knows what the row is (`ReadInv`), and what it is about to store is
  what the provider charges (`AnswerInv`).  The two answers of the provider and the two writes of
  a row are one lemma each (`ProviderAnswers`, `RowWritten`).
* `PricesApart`: `PricingSpec => Spec`, so the theorems above hold of the composition the runs check.

`MailCallProofs`:

* `TypeCorrect`: `[]TypeOK`, in two parts: the chain (`ChainInv`), which has a channel while it goes
  on and a candidate while it is connected, and the work (`WorkInv`): what is left of a batch is an
  end of what was asked (`EndOf`).  A step that leaves the mailbox alone fails on its candidate or
  its channel, ends the call or goes on to the next stage (`QuietSteps`).
* `ProxiesHonoured`: `[]ProxyHonoured`.  `ProxyInv`: the candidates left are the end of the list, and
  every one before them could not be reached (`Crossed`).  As the list ends with no proxy, which is
  nowhere else on it (`CandidatesEndDirect`), a direct connection means that all were tried.
* `ReportsHold`: `[]ReportsExplained`.  `BatchInv` says that what is not spoken of is still to be
  treated (`Left`): on Graph it is exactly that and each message is in one place, so nothing is done
  twice in one batch; over IMAP a folder is spoken of as a whole, and what its UIDs name is in that
  folder and named once, so a sweep of what is flagged meets no message of another verdict.
  Nothing is assumed about which messages the UIDs name: a success is one of the message
  named, and of nothing if none is.  `Bounded`: before the work nothing is said and
  everything is to do, and the flags of a batch are set by its last channel, which it does not leave.

`MailboxProofs`:

* `TablesWellTyped`, `ImportReportTrue`, `ListsExplained` and `StaleChecksBounded`: `[]TypeOK`,
  `[]ImportAddsUp`, `[]ListExplained` and `StaleChecksExplained`, from one inductive invariant (`Inv`,
  theorem `Invariant`).  Every statement of the module is brought to one form first: `Step(N, D, W)`
  inserts the rows N, deletes D and writes W, and the history counters grow by at least as many
  (`StatementMoves`).  From this alone follow the bounds on the counts (`Growth`) and what another
  request's step leaves true of a request (`StaleKept`, `ListedKept`), so that 29 actions are
  compared with 8 kinds of requests once and not one by one.
* `ChecksInv`: a check that was passed, where there is a limit, still bounds what there is, by what
  came since; for an import
  it counts the lines planned and not yet written.  This needs `IdsApart`: the id of a line to be
  inserted is in no table and in no other batch.
* `ReportInv`: a report counts the batch under way as if it were written, which a failed batch takes
  back.
* `ListInv`: while nothing was deleted or written, what a list has not shown lies behind its offset;
  while nothing was inserted or written, what it has shown lies before.  A place in a list is
  the number of accounts that sort before; that each number below the length of the list is
  the place of exactly one account is `PlacesTaken` and `PlacesApart`, by a smallest counterexample.
  Each of the eight orders is a comparison of numbers with ties by id (`Keyed`).

Only model-checked: all liveness, which needs `ENABLED` under fairness, and what recursive functions
compute (`Transfer`, and with it `RoundTrip`), which needs induction over data; both are out of the
prover's reach.

Two attempts at a proof showed a property to be false.  With a third request about prices a row
can be brought back to what a request had read, and the outdated write is not seen as one when rows
are compared: `Pricing` notes the write now, and the run has a menu with three requests.  And with
two checkouts that were both paid the row is of the later order; when that one ends, the tenant
has the default plan, although the other is in service and paid for: `PlanConverges` exempts it now
(`PaidTwice`).

Some places of the models were changed for the proofs, without a change of what they say:
a request of `Access` has the same fields whatever it does; the workspaces of a user are
positions in the list of all of them; the first session of a user has a negative id.  In
`Mailbox` a page of a list is a function from its positions to the accounts of that rank, in place
of a sorted sequence that is cut, and the rows after a batch are a function of its lines, in
place of one write after the other.  In `MailCall` the candidates are a concatenation of what each setting gives, the channel order is
one of the five there are, and what is left of an IMAP batch begins with the next message whose
folder was not treated, instead of being filtered.

## Findings

Each is a run that TLC must find violated; `PROJECT.json` quotes the lines.

* `mail_invalid`: a connection that breaks during an IMAP login counts as a refusal; the
  account is called invalid, which `DeleteInvalid` acts on.
* `access_locked`: the guard on the last administrator counts disabled ones; one request
  after the other, the panel is locked for good.

The models also reach these, for which no run is kept.  Where a passing property has to
exempt one, it is named.

* Jobs: a stop that is accepted while a job is pending is completed by nobody
  (`worker.go:59`); after a restart within `StaleAfter` the interrupted jobs stay running
  (`manager.go:175`); both in `OrphansExplained`.  Two workers may insert events in the other
  order than their numbers, and a stream that read in between never sends the lower one
  (`NoEventSkipped`); the clients of an interrupted job reconnect for ever (`WatchingEnds`); a
  stream may close before the finished event has a row, which is harmless (`FinishReaches`).
* Scheduler: two processes, or a process and a request, may each submit for one tenant
  (`NoStacking` speaks of one); a claimed cycle is lost when the submission fails; a job that
  nobody runs keeps its tenant's groups unclaimed until a restart reaps it, and a pending one
  for good; enough such groups fill the head of every scan (`CrowdedOut`).
* Accounts: limits are judged before a separate insert, OFFSET pages skip and repeat rows,
  `DeleteInvalid` compares counts and not sets (`account_health.go:251`); one row that another
  request wrote fails the whole batch of an import, and the allowance it had used is not given
  back; aliases of deleted accounts stay taken; a new main address is not checked against
  existing aliases; an import overwrites whole rows.  A group that still has soft-deleted
  rows cannot be deleted (`GroupDeleteSucceeds`).  NULLs of `last_refresh_at` sort differently in
  the two engines.
* Credentials (`CredentialsExplained`): an edit writes the whole row it once read; a verdict is
  written after the credentials changed; the rotation of an old grant lands after `Complete` and
  leaves a client with another client's token; lifting a ban leaves `invalid`; a second callback
  marks an exchanged flow failed; the flow of a deleted account keeps its token until the
  purge; the second channel of a call uses the token the first one superseded.
* Mail: a Graph batch whose reply is lost is redone one by one, and one given up after some
  chunks forgets them (`ReportsExplained`); over IMAP success is reported for UIDs that no longer
  exist, and a command on a folder that was renumbered hits other messages (`names`; the same
  property speaks of what is named); an EXPUNGE without UIDPLUS takes what others had
  flagged; the last channel's error hides the first's; an export drops the second password and
  misreads some lines (`Misread`, `NotCarried`).
* Access: on PostgreSQL two concurrent removals leave a team without an owner, although
  `member_service.go:71` and `members.go:65` say that the one statement rules this out: each counts
  in its own snapshot (`RemovalsKeepOwner`).  Concurrent demotions do so on either engine.  The
  guards count memberships, those of soft-deleted users too: an owner's account is deleted, and
  then the other owner, the last who can log in, may be removed (`OwnerCanManage`, one request at
  a time).  Two administrators may demote each other; two default
  plans, or none, after concurrent edits (`SomeoneInCharge`).  A login that races a new password,
  or a crash between its two statements, leaves an old session (`SessionsExplained`).  A fetch is
  counted on a day under the limit of the day before (`quota.go:85` and `:95`; `UsageBounded`).
* Billing: canceled processed before activated of one order leaves it served, with the events
  out of order (`PlanConverges` is about events in order); a Cancel that is stored late writes
  over the end of its order (`CanceledIsFinal` exempts it); an activated event applied again
  after a crash takes the plan an admin assigned; with `Serial = FALSE` the end of an old order
  takes the plan of the new one; two checkouts with different keys may both be paid, and the end of
  the later order leaves the default plan (`PlanConverges` exempts it by `PaidTwice`).
* Prices (`PricesExplained`): `UpdatePrice` and `SyncPrice` write outdated rows whole, so that a
  price taken off the shelf is for sale again, or an amount is shown that is not the one
  charged; the idempotency key is that of the price, so a retry with a new amount gets the
  product with the old one.

## Not modelled, and why

* Of the modelled parts: the purge of events, logs and sessions (single deletes by age);
  frames and keepalives of SSE; the settings of billing, signature checks and `resolveOwner`
  (they reject, they change nothing); the reissue of a token for a repeated idempotency key (a
  read); equal provider times; the limits of five pending checkouts and of 24 hours; several
  prices of one plan; `Record` of the quota, which counts without a limit; names, colours and
  the order of groups; the log of refreshes and statistics; the parsing of messages, MIME parts,
  folders and search terms, which changes no state of the program.
* The text form of timestamps (`ListStaleJobs` does not normalise its cutoff to UTC, unlike the
  other queries): listed as a hazard.
* API keys: one row, each operation one statement (a key of a deleted workspace still
  authenticates; what it reaches is closed by the account queries).  Desktop sign-in: one
  conditional step on a nonce.  Store: the seam itself (a statement is atomic, a transaction
  serial or READ COMMITTED).  Encryption and configuration: pure functions read at the start.
  Migrations and generated queries: used through the modules' maps.  Front end: the
  `EventSource` of `jobStore.ts` is in `JobStream`, the rest shows what it is sent.  The probe:
  a diagnostic tool without state.

## Plan

Done, in this order: `JobLifecycle`, `JobManager`, `JobStream`, `Billing`, `Mailbox`,
`Credentials` over `OAuthFlow`, `MailCall` over `Transfer`, `RefreshScheduler`, `Access`,
`Pricing`; the proof modules of jobs, the stream, the scheduler, credentials, billing, access, the mail call and the mailbox.

Of what the runs check, the safety properties are proved but for `RoundTrip`.  Next would be the
parts of the code that are not modelled.
