---------------------------- MODULE Credentials ----------------------------
(***************************************************************************)
(* The credentials of one mail account and everything that reads and       *)
(* writes them at the same time: calls of the mail service, refreshes of   *)
(* the token, health checks, edits, imports, deletion, and OAuth           *)
(* reauthorisation (service/message_service.go, mail_chain.go,             *)
(* refresh_service.go, account_health.go, account_service.go,              *)
(* oauth_service.go over mail_accounts.sql and oauth_authorizations.sql).  *)
(*                                                                         *)
(* Every actor reads the row, talks to a provider for as long as that      *)
(* takes, and then writes some columns with the confidence of what it once *)
(* read.  A transaction is one step.                                       *)
(*                                                                         *)
(* A refresh token is [grant, ver]: the authorisation it comes from and    *)
(* how many tokens the provider had issued for it.                         *)
(***************************************************************************)
EXTENDS Integers, FiniteSets

CONSTANTS
    Workers,     \* requests and job items that may be under way at once
    Flows,       \* oauth_authorizations; each brings a grant of its own
    Own, Typed,  \* the grant the account starts with, and one a user types in
    App,         \* the client id OAuthOptions configures
    NoToken,     \* refresh_token_enc = ''
    Channels,    \* mail_accounts.auth_channel
    Graph,       \* the channel Complete writes
    Menu,        \* the requests of an instance
    MaxOps,      \* bound on the requests of a behaviour
    MaxIssued,   \* bound on the tokens a provider issues for one grant
    MaxCrashes   \* bound on the crashes of a behaviour

ASSUME CredentialsAssumption ==
    /\ Own # Typed /\ Own \notin Flows /\ Typed \notin Flows
    /\ App \notin {Own, Typed}
    /\ Graph \in Channels
    /\ MaxOps \in Nat /\ MaxIssued \in Nat \ {0} /\ MaxCrashes \in Nat

VARIABLES
    row,       \* the row of mail_accounts
    flows,     \* the rows of oauth_authorizations
    w,         \* what each worker's request has read, and where it is
    issued,    \* the provider: tokens issued for each grant
    ops, crashes,
    stale,     \* history: columns written on the strength of an outdated read
    lost,      \* history: grants of which an issued token was lost
    banned,    \* history: the provider's ban is on record and nobody lifted it
    installs   \* history: how often each flow was installed

vars == <<row, flows, w, issued, ops, crashes, stale, lost, banned, installs>>

Grants       == {Own, Typed} \union Flows
ClientOf(g)  == IF g \in Flows THEN App ELSE g
Token(g, v)  == [grant |-> g, ver |-> v]
Tokens       == [grant : Grants, ver : 1..MaxIssued]
Idle         == [op |-> "idle"]
NoFlow       == [status |-> "none", expired |-> FALSE, code |-> FALSE, secret |-> NoToken]

Init == /\ row = [live |-> TRUE, client |-> Own, token |-> Token(Own, 1), status |-> "active",
                  health |-> "unknown", channel |-> Graph, result |-> "never",
                  edition |-> 0, judged |-> 0]
        /\ flows = [f \in Flows |-> NoFlow]
        /\ w = [i \in Workers |-> Idle]
        /\ issued = [g \in Grants |-> IF g \in Flows THEN 0 ELSE 1]
        /\ ops = 0 /\ crashes = 0
        /\ stale = {} /\ lost = {} /\ banned = FALSE
        /\ installs = [f \in Flows |-> 0]

(***************************************************************************)
(* The statements: UPDATE mail_accounts ... WHERE deleted_at IS NULL.      *)
(***************************************************************************)
GetMailAccount == row.live

Set(new) == row' = IF row.live THEN new ELSE row

\* Mutant: the new token is written whatever has become of the row.
UpdateMailAccountRefreshToken_any(t) == row' = [row EXCEPT !.token = t]

UpdateMailAccountRefreshToken(t)     == Set([row EXCEPT !.token = t])
UpdateMailAccountAuthChannel(c)      == Set([row EXCEPT !.channel = c])
UpdateMailAccountRefreshResult(res)  == Set([row EXCEPT !.result = res])
UpdateMailAccountAccessResult(res, h, e) == Set([row EXCEPT !.result = res, !.health = h, !.judged = e])
UpdateMailAccountHealth(h, e)        == Set([row EXCEPT !.health = h, !.judged = e])
BatchUpdateMailAccountStatus(s)      == Set([row EXCEPT !.status = s])
SoftDeleteMailAccount                == Set([row EXCEPT !.live = FALSE, !.token = NoToken])

UpdateMailAccount(client, token, status) == [row EXCEPT !.client = client, !.token = token, !.status = status]

\* New credentials void the verdict on the old ones.
\* Mutant: an edit leaves the verdict.
ResetMailAccountHealth_no(r) == [r EXCEPT !.edition = @ + 1]

ResetMailAccountHealth(r) == [r EXCEPT !.health = "unknown", !.edition = @ + 1]

UpdateMailAccountAuthorization(token) ==
    Set([row EXCEPT !.client = App, !.token = token, !.channel = Graph, !.result = "success",
                    !.health = "unknown", !.edition = @ + 1])

(***************************************************************************)
(* The provider.  It takes a token from the client it was issued to; it    *)
(* may refuse one that has a successor; it may issue a successor.          *)
(***************************************************************************)
Takes(client, t)  == t # NoToken /\ ClientOf(t.grant) = client
Issue(g)          == /\ issued[g] < MaxIssued
                     /\ issued' = [issued EXCEPT ![g] = @ + 1]
Keep              == UNCHANGED issued

(***************************************************************************)
(* Frames.                                                                 *)
(***************************************************************************)
Begin(i, r) == /\ r.op \in Menu /\ ops < MaxOps /\ w[i] = Idle
               /\ ops' = ops + 1 /\ w' = [w EXCEPT ![i] = r] /\ UNCHANGED crashes
At(i, pc)   == w[i] # Idle /\ w[i].pc = pc
Goto(i, r)  == w' = [w EXCEPT ![i] = r] /\ UNCHANGED <<ops, crashes>>
Step(i, pc) == Goto(i, [w[i] EXCEPT !.pc = pc])
End(i)      == Goto(i, Idle)
Once(op)    == op \in Menu /\ ops < MaxOps /\ ops' = ops + 1 /\ UNCHANGED <<w, crashes>>
Told        == UNCHANGED <<flows, installs>>
Quiet       == UNCHANGED <<row, flows, stale, lost, banned, installs>>

\* Which of its columns a write puts back to, or bases on, an outdated read.
Outdated(new) == stale' = IF row.live THEN stale \union new ELSE stale
If(test, x)   == IF test THEN {x} ELSE {}

(***************************************************************************)
(* A call: credential, the chain of channels, writeResult.                 *)
(***************************************************************************)
CallOps == {"mail", "check", "refresh"}

\* credential refuses accounts that are banned or disabled: nothing reaches
\* the provider.  A health check writes the ban down as a verdict.
Credential(i, op) ==
    /\ GetMailAccount
    /\ \/ /\ row.status = "active" /\ (op = "refresh" => row.token # NoToken)
          /\ Begin(i, [op |-> op, pc |-> "token", client |-> row.client, token |-> row.token,
                       channel |-> row.channel, edition |-> row.edition,
                       tries |-> 1, held |-> NoToken, out |-> "none", cancelled |-> FALSE])
       \/ /\ row.status = "banned" /\ op = "check"
          /\ Begin(i, [op |-> op, pc |-> "local", edition |-> row.edition])
    /\ Quiet /\ Keep

RecordLocalFailure(i) ==
    /\ At(i, "local")
    /\ UpdateMailAccountHealth("invalid", w[i].edition)
    /\ Outdated(If(row.edition # w[i].edition, "health"))
    /\ End(i) /\ Told /\ Keep /\ UNCHANGED <<lost, banned>>

\* The request is abandoned, or the server shuts down.
\* (Between a reply and its result it makes no difference when.)
Cancel(i) == /\ w[i].op \in CallOps /\ w[i].pc \in {"token", "rotated", "mailbox", "result"} /\ ~w[i].cancelled
             /\ Goto(i, [w[i] EXCEPT !.cancelled = TRUE])
             /\ Quiet /\ Keep

\* fetchToken: refused, answered, answered with a new token, or not answered
\* at all although the provider has issued one.
FetchToken(i) ==
    LET r == w[i] IN
    /\ At(i, "token") /\ ~r.cancelled
    /\ \/ /\ ~Takes(r.client, r.token) \/ r.token.ver < issued[r.token.grant]
          /\ Goto(i, [r EXCEPT !.pc = "reply", !.out = "auth_failed"])
          /\ Keep /\ UNCHANGED lost
       \/ /\ Takes(r.client, r.token)
          /\ Step(i, "mailbox")
          /\ Keep /\ UNCHANGED lost
       \/ /\ Takes(r.client, r.token)
          /\ Issue(r.token.grant)
          /\ Goto(i, [r EXCEPT !.pc = "rotated", !.held = Token(r.token.grant, issued'[r.token.grant])])
          /\ UNCHANGED lost
       \/ /\ Takes(r.client, r.token)
          /\ Issue(r.token.grant)
          /\ lost' = lost \union {r.token.grant}
          /\ Goto(i, [r EXCEPT !.pc = "reply", !.out = "network"])
    /\ UNCHANGED <<row, flows, stale, banned, installs>>

\* OnTokenRotated: its context survives the request.
\* Mutant: it is the context of the request.
OnTokenRotated_request(i) ==
    /\ At(i, "rotated")
    /\ IF w[i].cancelled THEN UNCHANGED <<row, stale>>
       ELSE UpdateMailAccountRefreshToken(w[i].held) /\ UNCHANGED stale
    /\ Goto(i, [w[i] EXCEPT !.pc = "mailbox", !.held = NoToken])
    /\ Told /\ Keep /\ UNCHANGED <<lost, banned>>

OnTokenRotated(i) ==
    /\ At(i, "rotated")
    /\ UpdateMailAccountRefreshToken(w[i].held)
    /\ Outdated(If(row.token \notin {w[i].token, Token(w[i].held.grant, w[i].held.ver - 1)}
                   \/ row.client # w[i].client, "token"))
    /\ Goto(i, [w[i] EXCEPT !.pc = "mailbox", !.held = NoToken])
    /\ Told /\ Keep /\ UNCHANGED <<lost, banned>>

\* What the provider says with the access token.  A refresh asks nothing more.
Mailbox(i) ==
    /\ At(i, "mailbox") /\ ~w[i].cancelled
    /\ \E out \in IF w[i].op = "refresh" THEN {"ok"}
                  ELSE {"ok", "folder_unavailable", "auth_failed", "banned", "network"} :
          Goto(i, [w[i] EXCEPT !.pc = "reply", !.out = out])
    /\ Quiet /\ Keep

Abandoned(i) == /\ At(i, "token") \/ At(i, "mailbox")
                /\ w[i].cancelled
                /\ Goto(i, [w[i] EXCEPT !.pc = "reply", !.out = "canceled"])
                /\ Quiet /\ Keep

\* The next channel begins with the credentials as they were read.
NextChannel(i) == /\ At(i, "reply") /\ w[i].out \in {"auth_failed", "network"}
                  /\ w[i].tries < 2 /\ ~w[i].cancelled
                  /\ Goto(i, [w[i] EXCEPT !.pc = "token", !.tries = @ + 1, !.out = "none"])
                  /\ Quiet /\ Keep

OnChannelSuccess(i, c) ==
    /\ At(i, "reply") /\ w[i].out = "ok"
    /\ IF c # w[i].channel THEN UpdateMailAccountAuthChannel(c) ELSE UNCHANGED row
    /\ Goto(i, [w[i] EXCEPT !.pc = "result"])
    /\ Told /\ Keep /\ UNCHANGED <<stale, lost, banned>>

OnChannelFailure(i) == /\ At(i, "reply") /\ w[i].out # "ok"
                       /\ Step(i, "result")
                       /\ Quiet /\ Keep

\* healthOf: a verdict is about the account, never about the way to it.
HealthOf(out) == CASE out \in {"ok", "folder_unavailable"}  -> "ok"
                   [] out \in {"banned", "auth_failed"}     -> "invalid"
                   [] out = "network"                       -> "error"
                   [] out = "canceled"                      -> "none"

WriteResult(i) ==
    LET r == w[i]
        h == HealthOf(r.out)
        res == IF r.out = "ok" THEN "success" ELSE "failed"
        verdict == h # "none" /\ (r.op = "refresh" => h = "invalid")
    IN /\ At(i, "result")
       /\ \/ /\ r.cancelled /\ r.op # "refresh"
             /\ UNCHANGED <<row, stale>>
          \/ /\ ~(r.cancelled /\ r.op # "refresh") /\ verdict
             /\ UpdateMailAccountAccessResult(res, h, r.edition)
             /\ Outdated(If(row.edition # r.edition, "health"))
          \/ /\ ~(r.cancelled /\ r.op # "refresh") /\ ~verdict
             /\ UpdateMailAccountRefreshResult(res)
             /\ UNCHANGED stale
       /\ IF r.out = "banned" THEN Step(i, "ban") ELSE End(i)
       /\ Told /\ Keep /\ UNCHANGED <<lost, banned>>

MarkBanned(i) ==
    /\ At(i, "ban")
    /\ BatchUpdateMailAccountStatus("banned")
    /\ banned' = row.live
    /\ End(i) /\ Told /\ Keep /\ UNCHANGED <<stale, lost>>

(***************************************************************************)
(* Edits: Update and an import that updates; BatchStatus; deletion.        *)
(***************************************************************************)
Changes == {"secrets", "status", "remark", "import"}

UpdateBegin(i, change, s) ==
    /\ GetMailAccount
    /\ change # "status" => s = "active"
    /\ Begin(i, [op |-> "edit", pc |-> "tx", change |-> change, edition |-> row.edition,
                 before |-> [client |-> row.client, token |-> row.token, status |-> row.status],
                 after |-> [client |-> IF change \in {"secrets", "import"} THEN Typed ELSE row.client,
                            token  |-> IF change \in {"secrets", "import"} THEN Token(Typed, 1) ELSE row.token,
                            status |-> IF change \in {"status", "import"} THEN s ELSE row.status]])
    /\ Quiet /\ Keep

\* loginInputsChanged compares with what was read, not with what is there.
LoginInputsChanged(r) == r.change \in {"secrets", "import"} \/ r.before.status # r.after.status

UpdateTx(i) ==
    LET r == w[i]
        new == UpdateMailAccount(r.after.client, r.after.token, r.after.status)
        secrets == r.change \in {"secrets", "import"}
        status  == r.change \in {"status", "import"}
    IN /\ At(i, "tx") /\ r.op = "edit"
       /\ Set(IF LoginInputsChanged(r) THEN ResetMailAccountHealth(new) ELSE new)
       /\ Outdated(If(IF secrets THEN issued[Typed] > 1
                      ELSE <<row.client, row.token>> # <<r.before.client, r.before.token>>, "token")
                   \union If(~status /\ row.status # r.before.status, "status")
                   \union If(~LoginInputsChanged(r) /\ row.edition # r.edition, "health"))
       /\ banned' = IF row.live /\ status THEN r.after.status = "banned" ELSE banned
       /\ End(i) /\ Told /\ Keep /\ UNCHANGED lost

\* BatchStatus lifts a ban and leaves the verdict that came with it.
BatchStatus(s) ==
    /\ Once("status")
    /\ BatchUpdateMailAccountStatus(s)
    /\ banned' = (row.live /\ s = "banned")
    /\ Outdated(If(row.status # s, "health"))
    /\ Told /\ Keep /\ UNCHANGED lost

Delete == /\ Once("delete") /\ GetMailAccount
          /\ SoftDeleteMailAccount
          /\ Told /\ Keep /\ UNCHANGED <<stale, lost, banned>>

(***************************************************************************)
(* Reauthorisation.                                                        *)
(***************************************************************************)
Unexpired(f) == ~flows[f].expired

DeleteExpiredOAuthAuthorizations ==
    [g \in Flows |-> IF Unexpired(g) THEN flows[g] ELSE [NoFlow EXCEPT !.status = "purged"]]
CreateOAuthAuthorization == [NoFlow EXCEPT !.status = "started", !.code = TRUE]

\* The rows whose time is over make room for a new one.
Start(f) ==
    /\ "oauth" \in Menu
    /\ GetMailAccount /\ flows[f].status = "none"
    /\ flows' = [DeleteExpiredOAuthAuthorizations EXCEPT ![f] = CreateOAuthAuthorization]
    /\ Keep /\ UNCHANGED <<row, w, ops, crashes, stale, lost, banned, installs>>

Expire(f) == /\ flows[f].status \notin {"none", "purged"} /\ Unexpired(f)
             /\ flows' = [flows EXCEPT ![f].expired = TRUE]
             /\ Keep /\ UNCHANGED <<row, w, ops, crashes, stale, lost, banned, installs>>

Write(f, new) == flows' = [flows EXCEPT ![f] = new]

MarkOAuthAuthorizationExchanged(f, t) ==
    IF flows[f].status = "started" /\ Unexpired(f)
    THEN Write(f, [flows[f] EXCEPT !.status = "exchanged", !.secret = t]) ELSE UNCHANGED flows

MarkOAuthAuthorizationFailed(f) ==
    IF flows[f].status \in {"started", "exchanged"}
    THEN Write(f, [flows[f] EXCEPT !.status = "failed"]) ELSE UNCHANGED flows

\* Mutant: a flow is consumed whatever has become of it.
Consumable_any(f) == flows[f].status \in {"exchanged", "consumed"}

Consumable(f) == flows[f].status = "exchanged" /\ Unexpired(f)

\* Mutant: the token stays in a consumed flow.
ConsumeOAuthAuthorization_keep(f) == Write(f, [flows[f] EXCEPT !.status = "consumed"])

ConsumeOAuthAuthorization(f) == Write(f, [flows[f] EXCEPT !.status = "consumed", !.secret = NoToken])

CallbackFlow(i, f) ==
    /\ flows[f].status = "started" /\ Unexpired(f) /\ GetMailAccount
    /\ Begin(i, [op |-> "callback", pc |-> "code", flow |-> f, stored |-> row.token, token |-> NoToken])
    /\ Quiet /\ Keep

\* The provider's error, a code that is refused (it is good for one use), no
\* answer, another identity than the account's: the flow fails.  Without a
\* refresh token in the answer the stored one, read before, stands in.
ExchangeCode(i) ==
    LET r == w[i]
        f == r.flow
    IN /\ At(i, "code")
       /\ \/ /\ flows[f].code
             /\ \E t \in {Token(f, 1), r.stored} \ {NoToken} :
                   /\ Goto(i, [r EXCEPT !.pc = "mark", !.token = t])
                   /\ issued' = IF t = Token(f, 1) THEN [issued EXCEPT ![f] = 1] ELSE issued
             /\ Write(f, [flows[f] EXCEPT !.code = FALSE])
          \/ /\ Step(i, "fail")
             /\ \/ Write(f, [flows[f] EXCEPT !.code = FALSE])
                \/ UNCHANGED flows
             /\ Keep
       /\ UNCHANGED <<row, stale, lost, banned, installs>>

ExchangeMark(i) == /\ At(i, "mark")
                   /\ MarkOAuthAuthorizationExchanged(w[i].flow, w[i].token)
                   /\ End(i) /\ Keep /\ UNCHANGED <<row, stale, lost, banned, installs>>

RecordOAuthFailure(i) == /\ At(i, "fail")
                         /\ MarkOAuthAuthorizationFailed(w[i].flow)
                         /\ End(i) /\ Keep /\ UNCHANGED <<row, stale, lost, banned, installs>>

CompleteBegin(i, f) ==
    /\ flows[f].status = "exchanged" /\ Unexpired(f) /\ GetMailAccount
    /\ Begin(i, [op |-> "complete", pc |-> "refresh", flow |-> f, token |-> flows[f].secret, new |-> FALSE])
    /\ Quiet /\ Keep

\* The token is tried, with the client of the configuration, before it is kept.
CompleteRefresh(i) ==
    LET r == w[i]
        g == r.token.grant
    IN /\ At(i, "refresh")
       /\ \/ /\ Takes(App, r.token) /\ Step(i, "tx") /\ Keep /\ UNCHANGED lost
          \/ /\ Takes(App, r.token) /\ Issue(g)
             /\ Goto(i, [r EXCEPT !.pc = "tx", !.token.ver = issued'[g], !.new = TRUE])
             /\ UNCHANGED lost
          \/ /\ End(i) /\ Keep /\ UNCHANGED lost
       /\ UNCHANGED <<row, flows, stale, banned, installs>>

\* Both statements or none: the authorisation is written and the flow consumed.
CompleteTx(i) ==
    LET r == w[i]
        f == r.flow
    IN /\ At(i, "tx") /\ r.op = "complete"
       /\ \/ /\ row.live /\ Consumable(f)
             /\ UpdateMailAccountAuthorization(r.token)
             /\ ConsumeOAuthAuthorization(f)
             /\ installs' = [installs EXCEPT ![f] = @ + 1]
             /\ Outdated(If(issued[r.token.grant] # r.token.ver, "token"))
             /\ UNCHANGED lost
          \/ /\ ~(row.live /\ Consumable(f))
             /\ lost' = lost \union If(r.new, r.token.grant)
             /\ UNCHANGED <<row, flows, installs, stale>>
       /\ End(i) /\ Keep /\ UNCHANGED banned

(***************************************************************************)
(* The process dies: what a worker held in memory is gone.                 *)
(***************************************************************************)
Held(i) == IF w[i].op \in CallOps /\ w[i].pc = "rotated" THEN {w[i].held.grant}
           ELSE IF w[i].op = "complete" /\ w[i].new THEN {w[i].token.grant} ELSE {}

Crash == /\ crashes < MaxCrashes
         /\ \E i \in Workers : w[i] # Idle
         /\ crashes' = crashes + 1
         /\ lost' = lost \union UNION {Held(i) : i \in Workers}
         /\ w' = [i \in Workers |-> Idle]
         /\ UNCHANGED <<row, flows, issued, ops, stale, banned, installs>>

(***************************************************************************)
(* The specification.                                                      *)
(***************************************************************************)
Call(i) == \/ \E op \in CallOps : Credential(i, op)
           \/ RecordLocalFailure(i) \/ Cancel(i) \/ FetchToken(i) \/ OnTokenRotated(i) \/ Mailbox(i)
           \/ Abandoned(i) \/ NextChannel(i) \/ OnChannelFailure(i) \/ WriteResult(i) \/ MarkBanned(i)
           \/ \E c \in Channels : OnChannelSuccess(i, c)

Edit(i) == \/ \E change \in Changes, s \in {"active", "disabled"} : UpdateBegin(i, change, s)
           \/ UpdateTx(i)

Reauthorise(i) == \/ \E f \in Flows : CallbackFlow(i, f) \/ CompleteBegin(i, f)
                  \/ ExchangeCode(i) \/ ExchangeMark(i) \/ RecordOAuthFailure(i)
                  \/ CompleteRefresh(i) \/ CompleteTx(i)

Next == \/ \E i \in Workers : Call(i) \/ Edit(i) \/ Reauthorise(i)
        \/ \E s \in {"active", "banned"} : BatchStatus(s)
        \/ Delete
        \/ \E f \in Flows : Start(f) \/ Expire(f)
        \/ Crash

Spec == Init /\ [][Next]_vars

(***************************************************************************)
(* Properties.                                                             *)
(***************************************************************************)
\* The row is one the columns allow, and history runs with it.
TypeOK == /\ row.live \in BOOLEAN
          /\ row.client \in {Own, Typed, App}
          /\ row.token \in Tokens \union {NoToken}
          /\ row.status \in {"active", "disabled", "banned"}
          /\ row.health \in {"unknown", "ok", "invalid", "error"}
          /\ row.channel \in Channels
          /\ row.result \in {"never", "success", "failed"}
          /\ row.judged \in 0..row.edition
          /\ \A f \in Flows : /\ flows[f].status \in {"none", "started", "exchanged", "consumed", "failed", "purged"}
                              /\ flows[f].secret \in Tokens \union {NoToken}
                              /\ (flows[f].secret # NoToken) => flows[f].status \in {"exchanged", "failed"}
          /\ \A g \in Grants : issued[g] \in 0..MaxIssued

\* Softly deleted, an account has no secrets, and none of the calls, edits and
\* reauthorisations still under way brings one back (SoftDeleteMailAccount
\* clears the columns "in the same statement").
SecretsGone == ~row.live => row.token = NoToken

\* The token in the row is one its client can use ...
PairFits == ("token" \notin stale /\ row.live) => ClientOf(row.token.grant) = row.client

\* ... and the newest the provider has issued, or somebody holds the newest.
\* mail_accounts.sql: a rotation "cannot be skipped".
NewestIsKept ==
    ("token" \notin stale /\ row.live /\ row.token.grant \notin lost) =>
        \/ row.token.ver = issued[row.token.grant]
        \/ \E i \in Workers : row.token.grant \in Held(i)

\* A verdict is about the credentials in the row.
VerdictIsCurrent == ("health" \notin stale /\ row.health \in {"ok", "invalid"}) => row.judged = row.edition

\* A ban stays until somebody lifts it.
BanStays == (banned /\ row.live /\ "status" \notin stale) => row.status = "banned"

\* Whatever fails, is cancelled or crashes: credentials, verdict and ban are in
\* order unless a request wrote a column on the strength of an outdated read.
CredentialsExplained == PairFits /\ NewestIsKept /\ VerdictIsCurrent /\ BanStays

\* Reauthorisation is what OAuthFlow promises.
Flow == INSTANCE OAuthFlow WITH status <- [f \in Flows |-> flows[f].status]
FlowSpec == Flow!Spec
=============================================================================
