------------------------------ MODULE MailCall ------------------------------
(***************************************************************************)
(* One operation on one account, from the service to the provider's        *)
(* servers: the fallback chain over the channels (pkg/mailer/chain.go,     *)
(* errors.go), the proxy candidates of a channel (proxy.go,                *)
(* graph/graph.go, imapx/proxy.go), the token exchange (graph/token.go,    *)
(* imapx/auth.go, oauth_errors.go), the work on the mailbox                *)
(* (graph/batch.go, graph/messages.go, imapx/ops.go, imapx/messages.go)    *)
(* and the verdict the service keeps (service/message_service.go,          *)
(* service/account_health.go).  The operation "transfer" is another: an    *)
(* account is exported and its line imported again.                        *)
(*                                                                         *)
(* Every answer of a proxy, of the token endpoint and of a mail server is  *)
(* a choice.  The row the call reads and writes is the subject of the      *)
(* module Credentials; here it does not change under the call.             *)
(***************************************************************************)
EXTENDS Transfer, SequencesExt

CONSTANTS
  Operations,  \* those that a behaviour may be about
  Accounts,    \* the accounts that are exported
  Callers,     \* the accounts calls are made for, with the last good channel
  Direct,      \* no proxy
  Configs,     \* proxy settings: the address and two fallbacks, Direct where unset
  Natures,     \* what each proxy may be
  Asked,       \* the messages a batch names, in order
  Foreign,     \* a message of the mailbox that no request names
  Nobody,      \* what a UID names when there is no such message (any more)
  FolderOf,    \* the folder of each message
  Chunk,       \* how many operations a $batch carries
  MaxRetries   \* how often a request is repeated after a Retry-After

Batches   == {"delete", "mark"}

\* A batch names each message once.
ASSUME MailAssumption ==
  /\ Operations \subseteq {"list", "all", "detail", "refresh", "transfer"} \union Batches
  /\ Asked \in Seq(ToSet(Asked)) /\ IsInjective(Asked)
  /\ ToSet(Asked) \intersect Foreign = {} /\ Nobody \notin ToSet(Asked) \union Foreign
  /\ Chunk \in Nat \ {0} /\ MaxRetries \in Nat

VARIABLES
  op,         \* the operation
  account,    \* the account, decrypted
  own, group, \* the proxy settings of the account and of its group
  nature,     \* what each proxy is: fixed for a call
  ids,        \* which protocol's list the message ids come from
  uidplus,    \* whether the IMAP server can expunge by UID
  names,      \* the message that the id of each asked one names by now
  phase,
  order,      \* the channels left, the current one first
  cands,      \* the proxy candidates left, the current one first
  scope,      \* the scopes of Graph left to try
  tries,      \* the Retry-Afters followed for the current request
  rest,       \* the messages a batch has still to treat
  singles,    \* those of a refused chunk, sent one by one
  report,     \* what the batch says of each message
  attempts,   \* the failed channels of the chain, with their kinds
  first,      \* of a list of all folders, the outcome of the inbox
  verdict,    \* how the operation ended
  canceled,   \* whether the caller has gone
  done,       \* the messages the operation took effect on
  flagged,    \* the messages with a \Deleted flag
  unheard,    \* those it took effect on without a reply that says so
  aborted,    \* whether a batch was given up after part of its work
  refusal,    \* whether the provider, or the account's own state, refused the account
  copy        \* the account that was read back from an exported line

callVars == <<op, account, own, group, nature, ids, uidplus, names>>
mailVars == <<report, done, flagged, unheard, aborted>>
vars == <<callVars, phase, order, cands, scope, tries, rest, singles, mailVars,
          attempts, first, verdict, canceled, refusal, copy>>

OAuthIMAP == {"imap_new", "imap_old", "imap_gmail"}
Messages  == ToSet(Asked) \union Foreign
Scopes    == <<"configured", "read", "default">>

channel == Head(order)
proxy   == Head(cands)

-----------------------------------------------------------------------------
(* Errors: a kind, and whether an HTTP response carried it. *)

Error(kind, http) == [kind |-> kind, http |-> http]

Hopeless == {"banned", "account_unavailable", "auth_failed", "consent_required", "canceled"}

Retriable(e) == e.kind \notin Hopeless

RetriableFrom(c, e) ==
  IF e.kind \in {"auth_failed", "consent_required"} /\ c \in OAuthIMAP \union {"graph"}
  THEN e.http ELSE Retriable(e)

RetriableWithAnotherProxy(e) == e.kind \in {"proxy_failed", "network"}

ClassifyIMAPAuthError == {"banned", "account_unavailable", "provider_error", "auth_failed"}

\* The answers of a token endpoint that is reached: a status, and what the body
\* of a refusal says, in the order the rules look for it.
Bodies == [abuse : BOOLEAN, code : {"none", "auth_failed", "consent_required", "provider_error"},
           text : BOOLEAN, name : {"auth_failed", "consent_required", "provider_error"}]
Statuses == {400, 404, 407, 429, 500}

classifyOAuthName(name) == name

ClassifyOAuthError(status, body) ==
  CASE status = 407         -> "proxy_failed"
    [] status = 429         -> "rate_limited"
    [] status >= 500        -> "provider_error"
    [] body.abuse           -> "banned"
    [] body.code # "none"   -> body.code
    [] body.text            -> "consent_required"
    [] OTHER                -> classifyOAuthName(body.name)

\* The refusals there are, by kind, and whether Graph tries a smaller scope.
shouldDegradeScope(status, body) ==
  status \in {400, 401, 403} /\ ClassifyOAuthError(status, body) = "consent_required"
Refusals ==
  {[kind |-> ClassifyOAuthError(s, b), smaller |-> shouldDegradeScope(s, b)] :
     s \in Statuses, b \in Bodies}

\* A response of the Graph API that is no success.
classifyAPIStatus ==
  {"banned", "proxy_failed", "rate_limited", "auth_failed", "consent_required",
   "folder_unavailable", "provider_error"}

\* The kinds that blame the account: the check stores them as "invalid".
Invalid == {"banned", "account_unavailable", "auth_failed"}

-----------------------------------------------------------------------------
(* Proxies. *)

\* The settings of the account are taken whole, or else those of its group.
ResolveProxy(mine, groups) ==
  IF mine[1] # Direct THEN mine ELSE IF groups[1] # Direct THEN groups ELSE <<Direct, Direct, Direct>>

\* Each proxy that is set, once, and at last none.
ProxyCandidates(config) ==
  LET Given(n) == config[n] # Direct /\ \A k \in 1..n - 1 : config[k] # config[n]
      Some(n)  == IF Given(n) THEN <<config[n]>> ELSE <<>>
  IN  Some(1) \o Some(2) \o Some(3) \o <<Direct>>

AllCandidates == ProxyCandidates(ResolveProxy(own, group))

\* What HTTP clients and IMAP connections make of a proxy when it is set up.
NewHTTPClient == {"flaky", "refuses", "httponly"}
NewDialer     == {"flaky", "refuses"}

NatureOf == IF proxy = Direct THEN "flaky" ELSE nature[proxy]

-----------------------------------------------------------------------------
(* How a channel, a candidate and the operation end. *)

NoVerdict == [ok |-> FALSE, kind |-> "none", channel |-> "none"]
Good(c)   == [ok |-> TRUE, kind |-> "none", channel |-> c]
Bad(kind) == [ok |-> FALSE, kind |-> kind, channel |-> "none"]

\* A chain is through.  A list of all folders runs it twice, and fails when it
\* has nothing to show and one of the two failed.
Finish(v, tried) ==
  /\ UNCHANGED <<cands, scope, tries, rest, singles>>
  /\ IF op = "all" /\ first = NoVerdict
     THEN /\ first' = v /\ phase' = "pick" /\ attempts' = <<>>
          /\ order' = ChannelOrder(account.row, account.last)
          /\ UNCHANGED verdict
     ELSE /\ phase' = "done" /\ attempts' = tried /\ UNCHANGED <<order, first>>
          /\ \/ op # "all" /\ verdict' = v
             \/ op = "all" /\ (first.ok \/ v.ok) /\ verdict' = Good("none")
             \/ op = "all" /\ ~(first.ok /\ v.ok)
                /\ verdict' = Bad(IF first.ok THEN v.kind ELSE first.kind)

Succeeds == Finish(Good(channel), attempts)

\* A channel has failed: stop, or go on with the next.
ChannelFails(e) ==
  LET tried == Append(attempts, [channel |-> channel, kind |-> e.kind]) IN
  IF RetriableFrom(channel, e) /\ Len(order) > 1
  THEN /\ attempts' = tried /\ order' = Tail(order) /\ phase' = "pick"
       /\ UNCHANGED <<cands, scope, tries, rest, singles, first, verdict>>
  ELSE Finish(Bad(e.kind), tried)

\* What stops at a candidate: everything but a connection that fails.
StopsHere_network(e) == ~RetriableWithAnotherProxy(e)
StopsHere(e) == ~RetriableWithAnotherProxy(e) \/ e.kind = "proxy_failed"

\* A candidate has failed: the next one is tried only when it could not be reached.
CandidateFails(e) ==
  IF StopsHere(e) THEN ChannelFails(e)
  ELSE IF Len(cands) > 1
  THEN /\ cands' = Tail(cands) /\ phase' = "open"
       /\ UNCHANGED <<order, scope, tries, rest, singles, attempts, first, verdict>>
  ELSE ChannelFails(IF e.kind = "network" /\ Len(AllCandidates) > 1
                    THEN Error("proxy_failed", FALSE) ELSE e)

Enter(p) == phase' = p /\ UNCHANGED <<order, cands, attempts, first, verdict>>

-----------------------------------------------------------------------------
(* The chain. *)

\* Nothing compares the UIDVALIDITY of a folder: when a UID is used the message may be gone,
\* and the mailbox, renumbered or another one under the same name, may give the UID to another.
Naming ==
  {f \in [ToSet(Asked) -> Messages \union {Nobody}] :
     /\ \A m \in ToSet(Asked) : f[m] # Nobody => FolderOf[f[m]] = FolderOf[m]
     /\ \A m, k \in ToSet(Asked) : f[m] = f[k] => m = k \/ f[m] = Nobody}

Init ==
  /\ op \in Operations
  /\ IF op = "transfer"
     THEN \E a \in Accounts : account = [row |-> a, last |-> "none"]
     ELSE account \in Callers
  /\ IF op = "transfer" THEN own = <<Direct, Direct, Direct>> /\ group = own
     ELSE own \in Configs /\ group \in {c \in Configs : c[2] = Direct /\ c[3] = Direct}
  /\ nature \in {f \in [UNION {ToSet(c) : c \in Configs} \ {Direct} -> Natures] :
                   \A p \in DOMAIN f : p \notin ToSet(AllCandidates) => f[p] = "flaky"}
  /\ ids \in (IF op \in Batches \union {"detail"} THEN {"graph", "uid"} ELSE {"graph"})
  /\ uidplus \in (IF op = "delete" THEN BOOLEAN ELSE {TRUE})
  /\ names \in (IF op \in Batches /\ ids = "uid" THEN Naming ELSE {[m \in ToSet(Asked) |-> m]})
  /\ flagged \in (IF op = "delete" THEN SUBSET Foreign ELSE {{}})
  /\ phase = IF op = "transfer" THEN "export" ELSE "pick"
  /\ order = ChannelOrder(account.row, account.last)
  /\ cands = <<>> /\ scope = Scopes /\ tries = 0 /\ rest = <<>> /\ singles = <<>>
  /\ report = [m \in ToSet(Asked) |-> "none"]
  /\ attempts = <<>> /\ first = NoVerdict /\ verdict = NoVerdict
  /\ canceled = FALSE /\ done = {} /\ unheard = {} /\ aborted = FALSE /\ refusal = FALSE
  /\ copy = Refused

\* The password channel has no token to refresh.
NoRefresher == op = "refresh" /\ channel = "imap"

\* runChain: the next channel, unless the caller has gone.
Pick ==
  /\ phase = "pick"
  /\ IF canceled THEN Finish(Bad("canceled"), attempts) /\ UNCHANGED report
     ELSE IF NoRefresher
     THEN ChannelFails(Error("provider_error", FALSE)) /\ UNCHANGED report
     ELSE /\ cands' = AllCandidates /\ phase' = "open"
          /\ rest' = (IF op \in Batches THEN Asked ELSE <<>>) /\ singles' = <<>>
          /\ report' = [m \in DOMAIN report |-> "none"]
          /\ scope' = Scopes /\ tries' = 0
          /\ UNCHANGED <<order, attempts, first, verdict>>
  /\ UNCHANGED <<callVars, done, flagged, unheard, aborted, canceled, refusal, copy>>

Quiet == UNCHANGED <<callVars, mailVars, canceled, copy>>

\* withSession and withProxy: a candidate is set up.  A proxy that is set wrong
\* fails here; IMAP also connects, and Graph with its first request.
OverHTTP == channel = "graph" \/ op = "refresh"

Open ==
  /\ phase = "open" /\ Quiet
  /\ \/ canceled /\ ChannelFails(Error("canceled", FALSE))
     \/ ~canceled /\ OverHTTP /\ NatureOf \notin NewHTTPClient
          /\ ChannelFails(Error("proxy_failed", FALSE))
     \/ ~canceled /\ OverHTTP /\ NatureOf \in NewHTTPClient
          /\ Enter("token") /\ scope' = Scopes /\ tries' = 0
          /\ rest' = (IF op \in Batches THEN Asked ELSE <<>>) /\ singles' = <<>>
     \/ ~canceled /\ ~OverHTTP /\ channel = "imap" /\ imapServer(account.row) = Empty
          /\ CandidateFails(Error("provider_error", FALSE))
     \/ ~canceled /\ ~OverHTTP /\ ~(channel = "imap" /\ imapServer(account.row) = Empty)
          /\ IF NatureOf \notin NewDialer \/ NatureOf = "refuses"
             THEN CandidateFails(Error("proxy_failed", FALSE))
             ELSE \/ CandidateFails(Error("network", FALSE))
                  \/ /\ Enter(IF channel = "imap" THEN "login" ELSE "token")
                     /\ UNCHANGED <<scope, tries, rest, singles>>
  /\ UNCHANGED refusal

\* An error of the mail server or the token endpoint: it blames the account or not.
Answers(kind, http) ==
  /\ CandidateFails(Error(kind, http))
  /\ refusal' = (refusal \/ kind \in Invalid)
Fails(kind) == CandidateFails(Error(kind, FALSE)) /\ UNCHANGED refusal

\* postToken: no answer comes back.
Answered == ~canceled /\ NatureOf # "refuses"
Unanswered ==
  \/ canceled /\ Fails("canceled")
  \/ ~canceled /\ NatureOf = "refuses" /\ Fails("proxy_failed")
  \/ Answered /\ Fails("network")

\* acceptToken: an access token, or an answer that has none.  A refresh asks no more.
AcceptToken ==
  /\ Answered
  /\ \/ Fails("provider_error")
     \/ op = "refresh" /\ Succeeds /\ UNCHANGED refusal
     \/ /\ op # "refresh" /\ Enter(IF channel = "graph" THEN "work" ELSE "login")
        /\ UNCHANGED <<scope, tries, rest, singles, refusal>>

NoToken == account.row.token = Empty

\* Graph asks again for a smaller scope when the account has not consented to one.
FetchToken ==
  /\ phase = "token" /\ channel = "graph" /\ Quiet
  /\ \/ NoToken /\ Answers("auth_failed", FALSE)
     \/ ~NoToken /\ Unanswered
     \/ ~NoToken /\ AcceptToken
     \/ ~NoToken /\ Answered /\ \E r \in Refusals :
          IF r.smaller /\ Len(scope) > 1
          THEN /\ scope' = Tail(scope) /\ Enter("token")
               /\ UNCHANGED <<tries, rest, singles, refusal>>
          ELSE Answers(r.kind, TRUE)

\* The scope of an IMAP channel is fixed.
NoClient == account.row.client = Empty /\ account.row.provider = "gmail"

FetchAccessToken ==
  /\ phase = "token" /\ channel \in OAuthIMAP /\ Quiet
  /\ \/ NoClient /\ Fails("provider_error")
     \/ ~NoClient /\ NoToken /\ Answers("auth_failed", FALSE)
     \/ ~NoClient /\ ~NoToken /\ Unanswered
     \/ ~NoClient /\ ~NoToken /\ AcceptToken
     \/ ~NoClient /\ ~NoToken /\ Answered /\ \E r \in Refusals : Answers(r.kind, TRUE)

\* authenticate: LOGIN or XOAUTH2.  A connection that is lost here reads as a
\* refusal, for its error matches none of the known texts.
LoginMissing == channel = "imap" /\ account.row.password = Empty /\ account.row.imapPassword = Empty

Authenticate ==
  /\ phase = "login" /\ Quiet
  /\ \/ LoginMissing /\ Answers("auth_failed", FALSE)
     \/ ~LoginMissing /\ \E kind \in ClassifyIMAPAuthError : Answers(kind, FALSE)
     \/ ~LoginMissing /\ Fails("auth_failed")
     \/ /\ ~LoginMissing /\ Enter("work")
        /\ UNCHANGED <<scope, tries, rest, singles, refusal>>

-----------------------------------------------------------------------------
(* The work on Graph.  A message is found by an id that Graph gave out, until *)
(* it is deleted.                                                             *)

Found(m) == ids = "graph" /\ (op = "delete" => m \notin done)

\* doJSON: a Retry-After is followed a few times.
RetryAfter ==
  /\ phase = "work" /\ channel = "graph" /\ ~canceled /\ tries < MaxRetries
  /\ tries' = tries + 1
  /\ UNCHANGED <<callVars, mailVars, canceled, copy, refusal, phase, order, cands, scope,
                 rest, singles, attempts, first, verdict>>

\* List, Detail and Attachment.  The attachments of a detail are a second
\* request, which may fail without a word.
GraphRead ==
  /\ phase = "work" /\ channel = "graph" /\ op \notin Batches /\ Quiet
  /\ \/ canceled /\ Fails("canceled")
     \/ ~canceled /\ (op = "detail" => ids = "graph") /\ Succeeds /\ UNCHANGED refusal
     \/ ~canceled /\ Fails("network")
     \/ ~canceled /\ \E kind \in classifyAPIStatus : Answers(kind, TRUE)

batch_all == rest
batch == SubSeq(rest, 1, IF Len(rest) < Chunk THEN Len(rest) ELSE Chunk)
Tell(said) == report' = [m \in DOMAIN report |-> IF m \in DOMAIN said THEN said[m] ELSE report[m]]
Failed(ms) == [m \in ms |-> "failed"]

\* The operation takes effect on the messages hit; without a reply, nobody hears of it.
Applies(hit, heard) ==
  /\ done' = done \union hit
  /\ unheard' = IF heard THEN unheard ELSE unheard \union hit

Aside == UNCHANGED <<callVars, canceled, copy, phase, order, cands, scope, attempts, first, verdict>>

batchWorthFallback(kind) ==
  kind \notin {"auth_failed", "banned", "consent_required", "canceled", "rate_limited"}

\* runBatch: one request for a chunk.  When it is refused its messages are sent
\* one by one, or the batch is given up and what it did is forgotten.
\* Reply_unmatched takes every sub-request for done.
Reply_unmatched ==
  \E hit \in SUBSET {m \in ToSet(batch) : Found(m)} :
    /\ Tell([m \in ToSet(batch) |-> "ok"])
    /\ Applies(hit, TRUE)
    /\ rest' = SubSeq(rest, Len(batch) + 1, Len(rest)) /\ singles' = <<>> /\ tries' = 0
    /\ Aside /\ UNCHANGED <<flagged, aborted, refusal>>

Reply ==
  \E hit \in SUBSET {m \in ToSet(batch) : Found(m)} :
    /\ Tell([m \in ToSet(batch) |-> IF m \in hit THEN "ok" ELSE "failed"])
    /\ Applies(hit, TRUE)
    /\ rest' = SubSeq(rest, Len(batch) + 1, Len(rest)) /\ singles' = <<>> /\ tries' = 0
    /\ Aside /\ UNCHANGED <<flagged, aborted, refusal>>

OneByOne(hit) ==
  /\ Applies(hit, FALSE)
  /\ rest' = SubSeq(rest, Len(batch) + 1, Len(rest)) /\ singles' = batch /\ tries' = 0
  /\ Aside /\ UNCHANGED <<report, flagged, aborted, refusal>>

GiveUp(kind, hit) ==
  /\ report' = [m \in DOMAIN report |-> "none"] /\ Applies(hit, FALSE)
  /\ aborted' = (aborted \/ \E m \in DOMAIN report : report[m] # "none")
  /\ CandidateFails(Error(kind, TRUE)) /\ refusal' = (refusal \/ kind \in Invalid)
  /\ UNCHANGED <<callVars, canceled, copy, flagged>>

GraphBatch ==
  /\ phase = "work" /\ channel = "graph" /\ op \in Batches /\ rest # <<>> /\ singles = <<>>
  \* The request may have been on its way when the caller went.
  /\ \/ canceled /\ \E hit \in SUBSET {m \in ToSet(batch) : Found(m)} : GiveUp("canceled", hit)
     \/ ~canceled /\ Reply
     \/ ~canceled /\ \E hit \in SUBSET {m \in ToSet(batch) : Found(m)} : OneByOne(hit)
     \/ ~canceled /\ \E kind \in {k \in classifyAPIStatus : ~batchWorthFallback(k)} : GiveUp(kind, {})

\* runOneByOne: whatever happens to one message is its own failure.
GraphSingle ==
  /\ phase = "work" /\ channel = "graph" /\ singles # <<>>
  /\ LET m == Head(singles) IN
     \/ Tell([x \in {m} |-> "failed"]) /\ Applies({}, TRUE)
     \/ ~canceled /\ Found(m) /\ Tell([x \in {m} |-> "ok"]) /\ Applies({m}, TRUE)
     \/ Found(m) /\ Tell([x \in {m} |-> "failed"]) /\ Applies({m}, FALSE)
  /\ singles' = Tail(singles) /\ tries' = 0
  /\ Aside /\ UNCHANGED <<flagged, aborted, refusal, rest>>

BatchEnd ==
  /\ phase = "work" /\ op \in Batches /\ rest = <<>> /\ singles = <<>>
  /\ Succeeds /\ Quiet /\ UNCHANGED refusal

-----------------------------------------------------------------------------
(* The work over IMAP. *)

\* selectFolder: none of the names it knows, or that resemble, can be selected.
SelectFails == Fails("folder_unavailable")
\* An id that is no number is refused, and so is one of Graph's.
Numbered == ids = "uid"

ImapList ==
  /\ phase = "work" /\ channel # "graph" /\ op \in {"list", "all"} /\ Quiet
  /\ \/ SelectFails
     \/ Fails("provider_error")
     \/ Succeeds /\ UNCHANGED refusal

\* Detail and Attachment: the message may be gone, or not be read.
ImapDetail ==
  /\ phase = "work" /\ channel # "graph" /\ op = "detail" /\ Quiet
  /\ \/ SelectFails
     \/ Fails("provider_error")
     \/ Numbered /\ Fails("folder_unavailable")
     \/ Numbered /\ Succeeds /\ UNCHANGED refusal

\* groupByFolder: the messages of one folder at a time, up to the next message of a
\* folder that has not been treated.
Group == {m \in ToSet(rest) : FolderOf[m] = FolderOf[Head(rest)]}
Later == {n \in DOMAIN rest : rest[n] \notin Group /\ report[rest[n]] = "none"}

\* What the UIDs name; of those that name nothing a server says nothing.
Named == {names[m] : m \in Group} \ {Nobody}

\* What an EXPUNGE after the \Deleted flags removes: without UIDPLUS, whatever
\* is flagged in the folder.
Swept ==
  IF uidplus THEN Named
  ELSE Named \union {m \in flagged : FolderOf[m] = FolderOf[Head(rest)]}

\* apply: a failure of a command leaves it open what the server did; a command that
\* succeeds counts for every id it was given.
ImapApply(targets) ==
  \/ Tell(Failed(Group)) /\ \E hit \in SUBSET targets : Applies(hit, FALSE)
  \/ Tell([m \in Group |-> "ok"]) /\ Applies(targets, TRUE)

ImapBatch ==
  /\ phase = "work" /\ channel # "graph" /\ op \in Batches /\ rest # <<>>
  /\ rest' = IF Later = {} THEN <<>> ELSE SubSeq(rest, Min(Later), Len(rest))
  /\ \/ Tell(Failed(Group)) /\ Applies({}, TRUE) /\ UNCHANGED flagged
     \/ Numbered /\ op = "mark" /\ ImapApply(Named) /\ UNCHANGED flagged
     \/ Numbered /\ op = "delete" /\ ImapApply(Swept) /\ flagged' = flagged \union Named
  /\ Aside /\ UNCHANGED <<tries, singles, aborted, refusal>>

-----------------------------------------------------------------------------
(* Export and import, and the rest. *)

ImportOptions == [format |-> "auto", clientIDFirst |-> TRUE, host |-> Empty]

Export ==
  /\ phase = "export" /\ phase' = "done"
  /\ LET line == FormatLine(account.row) IN
     IF line = <<>> THEN verdict' = Bad("left_out") /\ UNCHANGED copy
     ELSE verdict' = Good("none") /\ copy' = ParseLine(line, ImportOptions)
  /\ UNCHANGED <<callVars, mailVars, canceled, refusal, order, cands, scope, tries, rest,
                 singles, attempts, first>>

Cancel ==
  /\ ~canceled /\ phase \notin {"done", "export"} /\ canceled' = TRUE
  /\ UNCHANGED <<callVars, mailVars, copy, refusal, phase, order, cands, scope, tries, rest,
                 singles, attempts, first, verdict>>

Returned == phase = "done" /\ UNCHANGED vars

Next ==
  \/ Pick \/ Open \/ FetchToken \/ FetchAccessToken \/ Authenticate
  \/ RetryAfter \/ GraphRead \/ GraphBatch \/ GraphSingle
  \/ ImapList \/ ImapDetail \/ ImapBatch \/ BatchEnd
  \/ Export \/ Cancel \/ Returned

Spec == Init /\ [][Next]_vars

-----------------------------------------------------------------------------
(* Properties. *)

Kinds == {"banned", "account_unavailable", "auth_failed", "consent_required", "proxy_failed",
          "network", "rate_limited", "folder_unavailable", "provider_error", "canceled"}
Channels == {"graph", "imap"} \union OAuthIMAP

EndOf(s, t) == \E n \in 0..Len(t) : s = SubSeq(t, n + 1, Len(t))

\* The state is of its types; a call under way has a channel, and a connection a candidate.
TypeOK ==
  /\ phase \in {"export", "pick", "open", "token", "login", "work", "done"}
  /\ ToSet(order) \subseteq Channels /\ IsInjective(order)
  /\ phase # "done" => order # <<>>
  /\ phase \in {"open", "token", "login", "work"} => cands # <<>>
  /\ ToSet(cands) \subseteq ToSet(AllCandidates)
  /\ EndOf(scope, Scopes) /\ scope # <<>>
  /\ tries \in 0..MaxRetries
  /\ EndOf(rest, Asked)
  /\ ToSet(singles) \subseteq ToSet(Asked) /\ Len(singles) <= Chunk
  /\ report \in [ToSet(Asked) -> {"none", "ok", "failed"}]
  /\ \A i \in DOMAIN attempts : attempts[i].channel \in Channels /\ attempts[i].kind \in Kinds
  /\ verdict.ok \in BOOLEAN /\ (phase = "done" /\ ~verdict.ok => verdict.kind \in Kinds \union {"left_out"})
  /\ names \in Naming
  /\ done \subseteq Messages /\ unheard \subseteq done /\ flagged \subseteq Messages

\* A call goes out directly only after every proxy that is set could not be
\* reached: no channel ever slides past a proxy that is set wrong or that
\* refuses its password (graph.go: withSession; imapx/proxy.go: withProxy).
ProxyHonoured ==
  phase \in {"token", "login", "work"} /\ proxy = Direct =>
    \A p \in ToSet(AllCandidates) \ {Direct} :
      nature[p] = "flaky" \/ (nature[p] = "httponly" /\ OverHTTP)

\* What a batch says of a message holds of what its id names: one reported done was
\* done, unless its id names none (a server takes a UID that names nothing, and the
\* program counts it); and one that was done without being reported so lost its reply,
\* or was in a batch that was given up, which the next channel repeated.  An id of Graph
\* names its own message, or none (404).  No message is touched that no id names, save
\* those another client had flagged on a server that cannot expunge by UID
\* (graph/batch.go: batchOp, runOneByOne; imapx/ops.go: batchOp, Delete).
ReportsExplained ==
  /\ \A m \in ToSet(Asked) : report[m] = "ok" => names[m] \in done \union {Nobody}
  /\ ids = "graph" => \A m \in ToSet(Asked) : report[m] = "ok" => m \in done
  /\ phase = "done" /\ op \in Batches =>
       /\ \A m \in ToSet(Asked) :
            names[m] \in done => report[m] = "ok" \/ names[m] \in unheard \/ aborted
       /\ verdict.ok => \A m \in ToSet(Asked) : report[m] # "none"
  /\ \A x \in done : (\E m \in ToSet(Asked) : names[m] = x) \/ (x \in flagged /\ ~uidplus)

\* The lines that do not come back as they went: a field that is read otherwise
\* than it was meant, or that the line has no place for.
Misread(a) ==
  LET line == FormatLine(a) IN
  \/ \E i \in 1..Len(line) - 1 : line[i].trail > 0
  \/ \E i \in DOMAIN line : line[i].core \in DOMAIN Untrimmed
  \/ a.token # Empty /\ isProbableClientID(a.token) /\ ~isProbableClientID(a.client)
  \/ a.token = Empty /\ Len(line) = 4 /\ ~looksLikeHost(a.host)
NotCarried(a) ==
  \/ a.token = Empty /\ a.password # Empty /\ a.imapPassword # Empty
  \/ (a.token # Empty) = (ChannelOrder(a, "none") = <<"imap">>)
  \/ a.token # Empty /\ (a.provider = "gmail") # (a.email = "gmail")
  \/ a.token = Empty /\ a.email = "outlook" /\ Len(FormatLine(a)) = 2

\* An account that is exported and imported again is one of the file, and logs
\* in the way it did, unless its line is one of those (exporter.go: FormatLine;
\* importer.go: ParseLine, detectFormat).
RoundTrip ==
  op = "transfer" /\ verdict.ok /\ ~Misread(account.row) /\ ~NotCarried(account.row) =>
    copy.ok /\ copy.email = account.row.email /\ Login(copy) = Login(account.row)

\* An account is called invalid, and may be deleted for it, only when the
\* provider refused it or it has nothing to log in with (account_health.go: healthOf).
InvalidIsEarned ==
  phase = "done" /\ ~verdict.ok /\ verdict.kind \in Invalid => refusal
=============================================================================
