------------------------- MODULE CredentialsProofs -------------------------
(***************************************************************************)
(* Theorems about Credentials, for any workers, flows, channels, requests  *)
(* and bounds: what the row holds is explained, a deleted account has no   *)
(* secrets, and reauthorisation implements OAuthFlow.                      *)
(***************************************************************************)
EXTENDS Credentials, TLAPS

-----------------------------------------------------------------------------
(* What a request in flight may hold.                                      *)

Clients == {Own, Typed, App}
Secrets == Tokens \union {NoToken}
Marks   == {"active", "disabled", "banned"}
Login   == [client : Clients, token : Secrets, status : Marks]

Rows == [live : BOOLEAN, client : Clients, token : Secrets, status : Marks,
         health : {"unknown", "ok", "invalid", "error"}, channel : Channels,
         result : {"never", "success", "failed"}, edition : Nat, judged : Nat]

FlowRows == [status : {"none", "started", "exchanged", "consumed", "failed", "purged"},
             expired : BOOLEAN, code : BOOLEAN, secret : Secrets]

Outs      == {"none", "ok", "folder_unavailable", "auth_failed", "banned", "network", "canceled"}
Calls     == [op : CallOps, pc : {"token", "rotated", "mailbox", "reply", "result", "ban"},
              client : Clients, token : Secrets, channel : Channels, edition : Nat,
              tries : Nat, held : Secrets, out : Outs, cancelled : BOOLEAN]
Locals    == [op : {"check"}, pc : {"local"}, edition : Nat]
Edits     == [op : {"edit"}, pc : {"tx"}, change : Changes, edition : Nat,
              before : Login, after : Login]
Callbacks == [op : {"callback"}, pc : {"code", "mark", "fail"}, flow : Flows,
              stored : Secrets, token : Secrets]
Completes == [op : {"complete"}, pc : {"refresh", "tx"}, flow : Flows, token : Secrets,
              new : BOOLEAN]
Requests  == {Idle} \union Calls \union Locals \union Edits \union Callbacks \union Completes

\* The provider has issued t, when it has issued iss[g] tokens for every grant g.
Known(t, iss)  == t \in Tokens /\ t.ver <= iss[t.grant]
IfAny(t, iss)  == t # NoToken => Known(t, iss)

\* What a request carries agrees with itself: a rotated token continues the one
\* that was read, an edit keeps what it does not change, a token that is about
\* to be installed belongs to the configured client.
RotatedFits(r, iss) == /\ Known(r.token, iss) /\ Known(r.held, iss)
                       /\ r.held.grant = r.token.grant
                       /\ r.token.ver < r.held.ver
                       /\ ClientOf(r.token.grant) = r.client
EditFits(r, iss) ==
    /\ Known(r.after.token, iss)
    /\ IF r.change \in {"secrets", "import"}
       THEN r.after.client = Typed /\ r.after.token = Token(Typed, 1)
       ELSE r.after.client = r.before.client /\ r.after.token = r.before.token
    /\ r.change \notin {"status", "import"} => r.after.status = r.before.status

Sound(r, e, iss) ==
    /\ r \in Calls => /\ r.edition <= e /\ IfAny(r.token, iss)
                      /\ r.pc = "rotated" => RotatedFits(r, iss)
                      /\ r.pc \in {"reply", "result"} => r.out # "none"
    /\ r \in Locals => r.edition <= e
    /\ r \in Edits => EditFits(r, iss)
    /\ r \in Callbacks => IfAny(r.stored, iss) /\ IfAny(r.token, iss)
    /\ r \in Completes => /\ IfAny(r.token, iss)
                          /\ r.pc = "tx" => Known(r.token, iss) /\ ClientOf(r.token.grant) = App
                          /\ r.new => r.pc = "tx"

\* A request that holds the newest token of grant g.
HasNewest(r, g, iss) ==
    \/ r \in Calls /\ r.pc = "rotated" /\ r.held.grant = g /\ r.held.ver = iss[g]
    \/ r \in Completes /\ r.new /\ r.token.grant = g /\ r.token.ver = iss[g]

-----------------------------------------------------------------------------
(* The inductive invariant.  CredentialsExplained is not inductive: it     *)
(* needs to know what the requests carry and which tokens exist.           *)

RowInv == /\ row \in Rows
          /\ row.judged <= row.edition
          /\ row.live => Known(row.token, issued)
          /\ ~row.live => row.token = NoToken

\* Until its code is used, nothing has been issued for a flow.
FlowInv == /\ flows \in [Flows -> FlowRows]
           /\ \A f \in Flows :
                 /\ flows[f].secret # NoToken => flows[f].status \in {"exchanged", "failed"}
                 /\ flows[f].expired => flows[f].status # "none"
                 /\ flows[f].status = "none" => ~flows[f].code
                 /\ flows[f].status = "none" \/ flows[f].code => issued[f] = 0
                 /\ IfAny(flows[f].secret, issued)

IssuedInv == issued \in [Grants -> 0..MaxIssued] /\ issued[Typed] >= 1

WorkerInv == /\ w \in [Workers -> Requests]
             /\ \A i \in Workers : Sound(w[i], row.edition, issued)

\* NewestIsKept, with the version that is held.
NewestInv ==
    ("token" \notin stale /\ row.live /\ row.token.grant \notin lost) =>
        \/ row.token.ver = issued[row.token.grant]
        \/ \E i \in Workers : HasNewest(w[i], row.token.grant, issued)

TypeInv == RowInv /\ FlowInv /\ IssuedInv /\ WorkerInv /\ installs \in [Flows -> Nat]
IInv    == TypeInv /\ NewestInv /\ PairFits /\ VerdictIsCurrent /\ BanStays

-----------------------------------------------------------------------------
(* The provider only issues more, and the edition of the row only grows:   *)
(* what a request carries stays in order.                                  *)

\* A table of counters, none of which went down.
Grows(iss, iss2) == /\ iss \in [Grants -> Nat] /\ iss2 \in [Grants -> Nat]
                    /\ \A g \in Grants : iss[g] <= iss2[g]

LEMMA KnownKept ==
  ASSUME NEW t, NEW iss, NEW iss2, Grows(iss, iss2), Known(t, iss)
  PROVE  Known(t, iss2)
BY CredentialsAssumption DEF Grows, Known, Tokens

LEMMA SoundKept ==
  ASSUME NEW r \in Requests, NEW e \in Nat, NEW e2 \in Nat, NEW iss, NEW iss2,
         e <= e2, Grows(iss, iss2), Sound(r, e, iss)
  PROVE  Sound(r, e2, iss2)
<1>1. r \in Calls => Sound(r, e2, iss2)
  BY KnownKept DEF Calls, Locals, Edits, Callbacks, Completes, CallOps, Sound, IfAny, RotatedFits
<1>2. r \in Locals => Sound(r, e2, iss2)
  BY KnownKept DEF Calls, Locals, Edits, Callbacks, Completes, CallOps, Sound
<1>3. r \in Edits => Sound(r, e2, iss2)
  BY KnownKept DEF Calls, Locals, Edits, Callbacks, Completes, CallOps, Sound, EditFits
<1>4. r \in Callbacks => Sound(r, e2, iss2)
  BY KnownKept DEF Calls, Locals, Edits, Callbacks, Completes, CallOps, Sound, IfAny
<1>5. r \in Completes => Sound(r, e2, iss2)
  BY KnownKept DEF Calls, Locals, Edits, Callbacks, Completes, CallOps, Sound, IfAny
<1>6. r = Idle => Sound(r, e2, iss2)
  BY DEF Calls, Locals, Edits, Callbacks, Completes, CallOps, Sound, Idle
<1> QED BY <1>1, <1>2, <1>3, <1>4, <1>5, <1>6 DEF Requests

\* Where a request stands says what it is.
LEMMA CallAt ==
  ASSUME WorkerInv, NEW i \in Workers,
         NEW pc \in {"token", "rotated", "mailbox", "reply", "result", "ban"}, At(i, pc)
  PROVE  w[i] \in Calls /\ w[i].pc = pc
BY DEF WorkerInv, Requests, At, Calls, Locals, Edits, Callbacks, Completes

LEMMA LocalAt ==
  ASSUME WorkerInv, NEW i \in Workers, At(i, "local")
  PROVE  w[i] \in Locals
BY DEF WorkerInv, Requests, At, Calls, Locals, Edits, Callbacks, Completes

LEMMA EditAt ==
  ASSUME WorkerInv, NEW i \in Workers, At(i, "tx"), w[i].op = "edit"
  PROVE  w[i] \in Edits
BY DEF WorkerInv, Requests, At, Calls, Locals, Edits, Callbacks, Completes

LEMMA CallbackAt ==
  ASSUME WorkerInv, NEW i \in Workers, NEW pc \in {"code", "mark", "fail"}, At(i, pc)
  PROVE  w[i] \in Callbacks /\ w[i].pc = pc
BY DEF WorkerInv, Requests, At, Calls, Locals, Edits, Callbacks, Completes

LEMMA CompleteAt ==
  ASSUME WorkerInv, NEW i \in Workers,
         NEW pc \in {"refresh", "tx"}, At(i, pc), pc = "tx" => w[i].op = "complete"
  PROVE  w[i] \in Completes /\ w[i].pc = pc
BY DEF WorkerInv, Requests, At, Calls, Locals, Edits, Callbacks, Completes

\* A request is of one kind.
LEMMA OneKind ==
  ASSUME NEW r
  PROVE  /\ r \in Calls => r \notin Locals \union Edits \union Callbacks \union Completes
         /\ r \in Locals => r \notin Calls \union Edits \union Callbacks \union Completes
         /\ r \in Edits => r \notin Calls \union Locals \union Callbacks \union Completes
         /\ r \in Callbacks => r \notin Calls \union Locals \union Edits \union Completes
         /\ r \in Completes => r \notin Calls \union Locals \union Edits \union Callbacks
         /\ r = Idle => r \notin Calls \union Locals \union Edits \union Callbacks \union Completes
BY DEF Calls, CallOps, Locals, Edits, Callbacks, Completes, Idle

\* One worker moves on.
LEMMA WorkerStep ==
  ASSUME TypeInv, NEW i \in Workers, NEW r \in Requests, w' = [w EXCEPT ![i] = r],
         row'.edition \in Nat, row.edition <= row'.edition, Grows(issued, issued'),
         Sound(r, row'.edition, issued')
  PROVE  WorkerInv'
<1>1. row.edition \in Nat
  BY DEF TypeInv, RowInv, Rows
<1>2. w' \in [Workers -> Requests]
  BY DEF TypeInv, WorkerInv
<1>3. ASSUME NEW k \in Workers PROVE Sound(w'[k], row'.edition, issued')
  <2>1. CASE k = i
    BY <2>1 DEF TypeInv, WorkerInv
  <2>2. CASE k # i
    <3>1. w'[k] = w[k] /\ w[k] \in Requests /\ Sound(w[k], row.edition, issued)
      BY <2>2 DEF TypeInv, WorkerInv
    <3> QED BY <1>1, <3>1, SoundKept
  <2> QED BY <2>1, <2>2
<1> QED BY <1>2, <1>3 DEF WorkerInv

\* Who holds the newest token goes on holding it, or it is lost.
LEMMA NewestStep ==
  ASSUME TypeInv, NewestInv, NEW i \in Workers, NEW r, w' = [w EXCEPT ![i] = r],
         issued' = issued, row'.token = row.token, row'.live = row.live,
         stale \subseteq stale', lost \subseteq lost',
         \A g : HasNewest(w[i], g, issued) => HasNewest(r, g, issued) \/ g \in lost'
  PROVE  NewestInv'
<1> SUFFICES ASSUME "token" \notin stale', row'.live, row'.token.grant \notin lost'
             PROVE  \/ row'.token.ver = issued'[row'.token.grant]
                    \/ \E k \in Workers : HasNewest(w'[k], row'.token.grant, issued')
  BY DEF NewestInv
<1> DEFINE g == row.token.grant
<1>1. row.token.ver = issued[g] \/ \E k \in Workers : HasNewest(w[k], g, issued)
  BY DEF NewestInv
<1>2. ASSUME NEW k \in Workers, HasNewest(w[k], g, issued)
      PROVE  \E j \in Workers : HasNewest(w'[j], g, issued)
  <2>1. CASE k = i
    <3>1. HasNewest(r, g, issued)
      BY <1>2, <2>1
    <3>2. w'[i] = r
      BY DEF TypeInv, WorkerInv
    <3> QED BY <3>1, <3>2
  <2>2. CASE k # i
    <3>1. w'[k] = w[k]
      BY <2>2 DEF TypeInv, WorkerInv
    <3> QED BY <1>2, <3>1
  <2> QED BY <2>1, <2>2
<1> QED BY <1>1, <1>2

\* The steps that write nothing but what a request remembers.
LEMMA QuietStep ==
  ASSUME IInv, NEW i \in Workers, NEW r \in Requests, w' = [w EXCEPT ![i] = r], Quiet, Keep,
         Sound(r, row.edition, issued),
         \A g : HasNewest(w[i], g, issued) => HasNewest(r, g, issued)
  PROVE  IInv'
<1> USE DEF IInv, Quiet, Keep
<1>1. Grows(issued, issued') /\ row.edition \in Nat
  BY CredentialsAssumption DEF Grows, TypeInv, IssuedInv, RowInv, Rows
<1>2. /\ row' = row /\ issued' = issued
      /\ row'.edition \in Nat /\ row.edition <= row'.edition
      /\ Sound(r, row'.edition, issued')
  BY <1>1
<1>3. WorkerInv' /\ NewestInv'
  BY <1>1, <1>2, WorkerStep, NewestStep
<1>4. (RowInv /\ FlowInv /\ IssuedInv /\ installs \in [Flows -> Nat])'
  BY DEF TypeInv, RowInv, FlowInv, IssuedInv, IfAny, Known
<1> QED BY <1>3, <1>4 DEF TypeInv, PairFits, VerdictIsCurrent, BanStays

-----------------------------------------------------------------------------
(* One lemma per action: calls.                                            *)

\* A request that ends is sound and holds nothing.
LEMMA IdleSound ==
  ASSUME NEW e, NEW iss
  PROVE  Idle \in Requests /\ Sound(Idle, e, iss) /\ \A g : ~HasNewest(Idle, g, iss)
BY OneKind DEF Requests, Sound, HasNewest

\* A call that is not about to write a rotated token needs what it has read only.
LEMMA CallSound ==
  ASSUME TypeInv, NEW i \in Workers, w[i] \in Calls, NEW r \in Calls,
         r.token = w[i].token, r.edition = w[i].edition,
         r.pc # "rotated", r.pc \in {"reply", "result"} => r.out # "none"
  PROVE  r \in Requests /\ Sound(r, row.edition, issued)
<1>1. Sound(w[i], row.edition, issued)
  BY DEF TypeInv, WorkerInv
<1> QED BY <1>1, OneKind DEF Requests, Sound

LEMMA CredentialStep ==
  ASSUME IInv, NEW i \in Workers, NEW op \in CallOps, Credential(i, op)
  PROVE  IInv'
<1>1. row \in Rows /\ Known(row.token, issued)
  BY DEF Credential, GetMailAccount, IInv, TypeInv, RowInv
<1>2. \A g : ~HasNewest(w[i], g, issued)
  BY IdleSound DEF Credential, Begin
<1>3. CASE row.status = "active"
  <2> DEFINE r == [op |-> op, pc |-> "token", client |-> row.client, token |-> row.token,
                   channel |-> row.channel, edition |-> row.edition,
                   tries |-> 1, held |-> NoToken, out |-> "none", cancelled |-> FALSE]
  <2>1. r \in Calls
    BY <1>1 DEF Rows, Calls, Outs, Secrets
  <2>2. Sound(r, row.edition, issued) /\ r \in Requests
    BY <1>1, <2>1, OneKind DEF Sound, Rows, IfAny, Requests
  <2>3. w' = [w EXCEPT ![i] = r] /\ Quiet /\ Keep
    BY <1>3 DEF Credential, Begin
  <2> HIDE DEF r
  <2> QED BY <1>2, <2>2, <2>3, QuietStep
<1>4. CASE row.status # "active"
  <2> DEFINE r == [op |-> op, pc |-> "local", edition |-> row.edition]
  <2>1. op = "check"
    BY <1>4 DEF Credential
  <2>2. r \in Locals
    BY <1>1, <2>1 DEF Rows, Locals
  <2>3. Sound(r, row.edition, issued) /\ r \in Requests
    BY <1>1, <2>2, OneKind DEF Sound, Rows, Requests
  <2>4. w' = [w EXCEPT ![i] = r] /\ Quiet /\ Keep
    BY <1>4 DEF Credential, Begin
  <2> HIDE DEF r
  <2> QED BY <1>2, <2>3, <2>4, QuietStep
<1> QED BY <1>3, <1>4

LEMMA CancelStep ==
  ASSUME IInv, NEW i \in Workers, Cancel(i)
  PROVE  IInv'
<1> DEFINE r == [w[i] EXCEPT !.cancelled = TRUE]
<1>1. w[i] \in Calls
  BY DEF Cancel, IInv, TypeInv, WorkerInv, Requests, CallOps, Idle, Locals, Edits, Callbacks, Completes
<1>2. r \in Calls /\ r.token = w[i].token /\ r.edition = w[i].edition /\ r.pc = w[i].pc
      /\ r.held = w[i].held /\ r.out = w[i].out /\ r.client = w[i].client
  BY <1>1 DEF Calls
<1>3. w' = [w EXCEPT ![i] = r] /\ Quiet /\ Keep
  BY DEF Cancel, Goto
<1> HIDE DEF r
<1>4. r \in Requests /\ Sound(r, row.edition, issued)
  <2>1. Sound(w[i], row.edition, issued)
    BY DEF IInv, TypeInv, WorkerInv
  <2> QED BY <1>1, <1>2, <2>1, OneKind DEF Requests, Sound, RotatedFits
<1>5. \A g : HasNewest(w[i], g, issued) => HasNewest(r, g, issued)
  BY <1>1, <1>2, OneKind DEF HasNewest
<1> QED BY <1>3, <1>4, <1>5, QuietStep

\* A call whose turn is not "rotated" holds no newest token.
LEMMA CallHolds ==
  ASSUME NEW r \in Calls, r.pc # "rotated", NEW iss
  PROVE  \A g : ~HasNewest(r, g, iss)
BY OneKind DEF HasNewest

\* The quiet steps of a call, between what it has read and what it writes.
LEMMA QuietCall ==
  ASSUME IInv, NEW i \in Workers, w[i] \in Calls, w[i].pc # "rotated", NEW r \in Calls,
         r.token = w[i].token, r.edition = w[i].edition,
         r.pc # "rotated", r.pc \in {"reply", "result"} => r.out # "none",
         w' = [w EXCEPT ![i] = r], Quiet, Keep
  PROVE  IInv'
<1>1. r \in Requests /\ Sound(r, row.edition, issued)
  BY CallSound DEF IInv
<1> QED BY <1>1, CallHolds, QuietStep

LEMMA MailboxStep ==
  ASSUME IInv, NEW i \in Workers, Mailbox(i)
  PROVE  IInv'
<1>1. w[i] \in Calls /\ w[i].pc = "mailbox"
  BY CallAt DEF Mailbox, IInv, TypeInv
<1>2. PICK out \in Outs \ {"none"} : w' = [w EXCEPT ![i] = [w[i] EXCEPT !.pc = "reply", !.out = out]]
  BY DEF Mailbox, Goto, Outs
<1> DEFINE r == [w[i] EXCEPT !.pc = "reply", !.out = out]
<1>3. r \in Calls /\ r.token = w[i].token /\ r.edition = w[i].edition /\ r.pc = "reply"
      /\ r.out # "none"
  BY <1>1 DEF Calls
<1>4. w' = [w EXCEPT ![i] = r] /\ Quiet /\ Keep
  BY <1>2 DEF Mailbox
<1> HIDE DEF r
<1> QED BY <1>1, <1>3, <1>4, QuietCall

LEMMA AbandonedStep ==
  ASSUME IInv, NEW i \in Workers, Abandoned(i)
  PROVE  IInv'
<1> DEFINE r == [w[i] EXCEPT !.pc = "reply", !.out = "canceled"]
<1>1. w[i] \in Calls /\ w[i].pc \in {"token", "mailbox"}
  BY CallAt DEF Abandoned, IInv, TypeInv
<1>2. r \in Calls /\ r.token = w[i].token /\ r.edition = w[i].edition /\ r.pc = "reply"
      /\ r.out # "none"
  BY <1>1 DEF Calls, Outs
<1>3. w' = [w EXCEPT ![i] = r] /\ Quiet /\ Keep
  BY DEF Abandoned, Goto
<1> HIDE DEF r
<1> QED BY <1>1, <1>2, <1>3, QuietCall

LEMMA NextChannelStep ==
  ASSUME IInv, NEW i \in Workers, NextChannel(i)
  PROVE  IInv'
<1> DEFINE r == [w[i] EXCEPT !.pc = "token", !.tries = @ + 1, !.out = "none"]
<1>1. w[i] \in Calls /\ w[i].pc = "reply"
  BY CallAt DEF NextChannel, IInv, TypeInv
<1>2. r \in Calls /\ r.token = w[i].token /\ r.edition = w[i].edition /\ r.pc = "token"
  <2>1. w[i].tries + 1 \in Nat
    BY <1>1 DEF Calls
  <2>2. ASSUME NEW c \in Calls, NEW n \in Nat
        PROVE  LET d == [c EXCEPT !.pc = "token", !.tries = n, !.out = "none"]
               IN  d \in Calls /\ d.token = c.token /\ d.edition = c.edition /\ d.pc = "token"
    BY DEF Calls, Outs
  <2> QED BY <1>1, <2>1, <2>2
<1>3. w' = [w EXCEPT ![i] = r] /\ Quiet /\ Keep
  BY DEF NextChannel, Goto
<1> HIDE DEF r
<1> QED BY <1>1, <1>2, <1>3, QuietCall

LEMMA OnChannelFailureStep ==
  ASSUME IInv, NEW i \in Workers, OnChannelFailure(i)
  PROVE  IInv'
<1> DEFINE r == [w[i] EXCEPT !.pc = "result"]
<1>1. w[i] \in Calls /\ w[i].pc = "reply"
  BY CallAt DEF OnChannelFailure, IInv, TypeInv
<1>2. r \in Calls /\ r.token = w[i].token /\ r.edition = w[i].edition /\ r.pc = "result"
      /\ r.out # "none"
  BY <1>1 DEF Calls, IInv, TypeInv, WorkerInv, Sound
<1>3. w' = [w EXCEPT ![i] = r] /\ Quiet /\ Keep
  BY DEF OnChannelFailure, Step, Goto
<1> HIDE DEF r
<1> QED BY <1>1, <1>2, <1>3, QuietCall

\* The steps that write columns other than the credentials and the edition.
LEMMA ColumnsStep ==
  ASSUME IInv, NEW i \in Workers, NEW r \in Requests, w' = [w EXCEPT ![i] = r],
         Told, Keep, UNCHANGED lost, stale \subseteq stale', row' \in Rows,
         row'.live = row.live, row'.token = row.token, row'.client = row.client,
         row'.edition = row.edition, row'.judged <= row.edition,
         Sound(r, row.edition, issued),
         \A g : HasNewest(w[i], g, issued) => HasNewest(r, g, issued)
  PROVE  (TypeInv /\ NewestInv /\ PairFits)'
<1> USE DEF Told, Keep
<1>1. /\ Grows(issued, issued') /\ row.edition \in Nat
      /\ row'.edition \in Nat /\ row.edition <= row'.edition /\ Sound(r, row'.edition, issued')
  BY CredentialsAssumption DEF Grows, IInv, TypeInv, IssuedInv, RowInv, Rows
<1>2. WorkerInv'
  BY <1>1, WorkerStep DEF IInv
<1>3. NewestInv'
  BY NewestStep DEF IInv
<1>4. RowInv'
  BY DEF IInv, TypeInv, RowInv
<1>5. (FlowInv /\ IssuedInv /\ installs \in [Flows -> Nat])'
  BY DEF IInv, TypeInv, FlowInv, IssuedInv, IfAny, Known
<1>6. PairFits'
  BY DEF IInv, PairFits
<1> QED BY <1>2, <1>3, <1>4, <1>5, <1>6 DEF TypeInv

\* A history of outdated writes only grows; what is not in it was written on a row
\* that still was as it had been read.
LEMMA OutdatedGrows ==
  ASSUME NEW new, Outdated(new)
  PROVE  stale \subseteq stale'
BY DEF Outdated

LEMMA RecordLocalFailureStep ==
  ASSUME IInv, NEW i \in Workers, RecordLocalFailure(i)
  PROVE  IInv'
<1>1. w[i] \in Locals
  BY LocalAt DEF RecordLocalFailure, IInv, TypeInv
<1>2. w[i].edition \in Nat /\ w[i].edition <= row.edition
  BY <1>1 DEF IInv, TypeInv, WorkerInv, Sound, Locals
<1>3. row \in Rows /\ row.judged <= row.edition
  BY DEF IInv, TypeInv, RowInv
<1>4. row' = IF row.live THEN [row EXCEPT !.health = "invalid", !.judged = w[i].edition] ELSE row
  BY DEF RecordLocalFailure, UpdateMailAccountHealth, Set
<1>5. /\ row' \in Rows /\ row'.live = row.live /\ row'.token = row.token
      /\ row'.client = row.client /\ row'.edition = row.edition /\ row'.judged <= row.edition
      /\ row'.status = row.status
  BY <1>2, <1>3, <1>4 DEF Rows
<1>6. /\ w' = [w EXCEPT ![i] = Idle] /\ Told /\ Keep /\ UNCHANGED <<lost, banned>>
      /\ Outdated(If(row.edition # w[i].edition, "health"))
  BY DEF RecordLocalFailure, End, Goto
<1>7. (TypeInv /\ NewestInv /\ PairFits)'
  <2>1. \A g : ~HasNewest(w[i], g, issued)
    BY <1>1, OneKind DEF HasNewest
  <2> QED BY <1>5, <1>6, <2>1, IdleSound, OutdatedGrows, ColumnsStep
<1>8. VerdictIsCurrent'
  BY <1>3, <1>4, <1>6 DEF IInv, VerdictIsCurrent, Rows, Outdated, If
<1>9. BanStays'
  BY <1>5, <1>6, OutdatedGrows DEF IInv, BanStays
<1> QED BY <1>7, <1>8, <1>9 DEF IInv

LEMMA OnChannelSuccessStep ==
  ASSUME IInv, NEW i \in Workers, NEW c \in Channels, OnChannelSuccess(i, c)
  PROVE  IInv'
<1> DEFINE r == [w[i] EXCEPT !.pc = "result"]
<1>1. w[i] \in Calls /\ w[i].pc = "reply"
  BY CallAt DEF OnChannelSuccess, IInv, TypeInv
<1>2. r \in Calls /\ r.token = w[i].token /\ r.edition = w[i].edition /\ r.pc = "result"
      /\ r.out = "ok"
  BY <1>1 DEF Calls, OnChannelSuccess
<1>3. row \in Rows /\ row.judged <= row.edition
  BY DEF IInv, TypeInv, RowInv
<1>4. row' = row \/ row' = [row EXCEPT !.channel = c]
  BY DEF OnChannelSuccess, UpdateMailAccountAuthChannel, Set
<1>5. /\ row' \in Rows /\ row'.live = row.live /\ row'.token = row.token
      /\ row'.client = row.client /\ row'.edition = row.edition /\ row'.judged = row.judged
      /\ row'.status = row.status /\ row'.health = row.health
  BY <1>3, <1>4 DEF Rows
<1>6. w' = [w EXCEPT ![i] = r] /\ Told /\ Keep /\ UNCHANGED <<stale, lost, banned>>
  BY DEF OnChannelSuccess, Goto
<1> HIDE DEF r
<1>7. (TypeInv /\ NewestInv /\ PairFits)'
  <2>1. r \in Requests /\ Sound(r, row.edition, issued)
    BY <1>1, <1>2, CallSound DEF IInv
  <2>2. \A g : ~HasNewest(w[i], g, issued)
    BY <1>1, CallHolds
  <2> QED BY <1>3, <1>5, <1>6, <2>1, <2>2, ColumnsStep
<1>8. VerdictIsCurrent' /\ BanStays'
  BY <1>5, <1>6 DEF IInv, VerdictIsCurrent, BanStays
<1> QED BY <1>7, <1>8 DEF IInv

LEMMA WriteResultStep ==
  ASSUME IInv, NEW i \in Workers, WriteResult(i)
  PROVE  IInv'
<1>1. w[i] \in Calls /\ w[i].pc = "result"
  BY CallAt DEF WriteResult, IInv, TypeInv
<1>2. w[i].edition \in Nat /\ w[i].edition <= row.edition
  BY <1>1 DEF IInv, TypeInv, WorkerInv, Sound, Calls
<1>3. row \in Rows /\ row.judged <= row.edition
  BY DEF IInv, TypeInv, RowInv
<1>4. PICK r \in Requests : /\ w' = [w EXCEPT ![i] = r]
                            /\ Sound(r, row.edition, issued)
  <2> DEFINE b == [w[i] EXCEPT !.pc = "ban"]
  <2>1. b \in Calls /\ b.token = w[i].token /\ b.edition = w[i].edition /\ b.pc = "ban"
    BY <1>1 DEF Calls
  <2>2. w' = [w EXCEPT ![i] = b] \/ w' = [w EXCEPT ![i] = Idle]
    BY DEF WriteResult, Step, End, Goto
  <2> HIDE DEF b
  <2>3. b \in Requests /\ Sound(b, row.edition, issued)
    BY <1>1, <2>1, CallSound DEF IInv
  <2> QED BY <2>2, <2>3, IdleSound
<1>5. Told /\ Keep /\ UNCHANGED <<lost, banned>>
  BY DEF WriteResult
<1>6. \A g : ~HasNewest(w[i], g, issued)
  BY <1>1, CallHolds
<1>7. CASE UNCHANGED <<row, stale>>
  <2>1. (TypeInv /\ NewestInv /\ PairFits)'
    BY <1>3, <1>4, <1>5, <1>6, <1>7, ColumnsStep
  <2> QED BY <1>5, <1>7, <2>1 DEF IInv, VerdictIsCurrent, BanStays
<1>8. ASSUME NEW res \in {"success", "failed"}, NEW h \in {"ok", "invalid", "error"},
             UpdateMailAccountAccessResult(res, h, w[i].edition),
             Outdated(If(row.edition # w[i].edition, "health"))
      PROVE  IInv'
  <2>1. row' = IF row.live THEN [row EXCEPT !.result = res, !.health = h, !.judged = w[i].edition]
               ELSE row
    BY <1>8 DEF UpdateMailAccountAccessResult, Set
  <2>2. /\ row' \in Rows /\ row'.live = row.live /\ row'.token = row.token
        /\ row'.client = row.client /\ row'.edition = row.edition /\ row'.judged <= row.edition
        /\ row'.status = row.status
        /\ row.live => row'.judged = w[i].edition
        /\ ~row.live => row' = row
    BY <1>2, <1>3, <1>8, <2>1 DEF Rows
  <2>3. (TypeInv /\ NewestInv /\ PairFits)'
    BY <1>4, <1>5, <1>6, <1>8, <2>2, OutdatedGrows, ColumnsStep
  <2>4. VerdictIsCurrent'
    BY <1>8, <2>2 DEF IInv, VerdictIsCurrent, Outdated, If
  <2>5. BanStays'
    BY <1>5, <1>8, <2>2, OutdatedGrows DEF IInv, BanStays
  <2> QED BY <2>3, <2>4, <2>5 DEF IInv
<1>9. ASSUME NEW res \in {"success", "failed"}, UpdateMailAccountRefreshResult(res), UNCHANGED stale
      PROVE  IInv'
  <2>1. row' = IF row.live THEN [row EXCEPT !.result = res] ELSE row
    BY <1>9 DEF UpdateMailAccountRefreshResult, Set
  <2>2. /\ row' \in Rows /\ row'.live = row.live /\ row'.token = row.token
        /\ row'.client = row.client /\ row'.edition = row.edition /\ row'.judged = row.judged
        /\ row'.status = row.status /\ row'.health = row.health
    BY <1>3, <1>9, <2>1 DEF Rows
  <2>3. (TypeInv /\ NewestInv /\ PairFits)'
    BY <1>3, <1>4, <1>5, <1>6, <1>9, <2>2, ColumnsStep
  <2> QED BY <1>5, <1>9, <2>2, <2>3 DEF IInv, VerdictIsCurrent, BanStays
<1> QED
  <2>1. HealthOf(w[i].out) # "none" => HealthOf(w[i].out) \in {"ok", "invalid", "error"}
    <3>1. w[i].out \in Outs \ {"none"}
      BY <1>1 DEF Calls, IInv, TypeInv, WorkerInv, Sound
    <3> QED BY <3>1 DEF HealthOf, Outs
  <2> QED BY <1>7, <1>8, <1>9, <2>1 DEF WriteResult

LEMMA MarkBannedStep ==
  ASSUME IInv, NEW i \in Workers, MarkBanned(i)
  PROVE  IInv'
<1>1. w[i] \in Calls /\ w[i].pc = "ban"
  BY CallAt DEF MarkBanned, IInv, TypeInv
<1>2. row \in Rows /\ row.judged <= row.edition
  BY DEF IInv, TypeInv, RowInv
<1>3. row' = IF row.live THEN [row EXCEPT !.status = "banned"] ELSE row
  BY DEF MarkBanned, BatchUpdateMailAccountStatus, Set
<1>4. /\ row' \in Rows /\ row'.live = row.live /\ row'.token = row.token
      /\ row'.client = row.client /\ row'.edition = row.edition /\ row'.judged = row.judged
      /\ row'.health = row.health
      /\ row.live => row'.status = "banned"
  BY <1>2, <1>3 DEF Rows, Marks
<1>5. /\ w' = [w EXCEPT ![i] = Idle] /\ Told /\ Keep /\ UNCHANGED <<stale, lost>>
      /\ banned' = row.live
  BY DEF MarkBanned, End, Goto
<1>6. (TypeInv /\ NewestInv /\ PairFits)'
  BY <1>1, <1>2, <1>4, <1>5, CallHolds, IdleSound, ColumnsStep
<1> QED BY <1>4, <1>5, <1>6 DEF IInv, VerdictIsCurrent, BanStays

-----------------------------------------------------------------------------
(* The provider issues a token.                                            *)

\* It issues one for a grant of which it has issued one before.
LEMMA IssueStep ==
  ASSUME TypeInv, NEW t, t # NoToken, IfAny(t, issued), Issue(t.grant), UNCHANGED flows
  PROVE  /\ t \in Tokens /\ t.ver <= issued[t.grant]
         /\ Grows(issued, issued') /\ IssuedInv' /\ FlowInv'
         /\ issued'[t.grant] = issued[t.grant] + 1
         /\ Token(t.grant, issued'[t.grant]) \in Tokens
         /\ \A g \in Grants : g # t.grant => issued'[g] = issued[g]
<1>1. t \in Tokens /\ t.grant \in Grants /\ t.ver \in 1..MaxIssued /\ t.ver <= issued[t.grant]
  BY DEF IfAny, Known, Tokens
<1>2. issued \in [Grants -> 0..MaxIssued] /\ Typed \in Grants /\ MaxIssued \in Nat
  BY CredentialsAssumption DEF TypeInv, IssuedInv, Grants
<1>3. /\ issued[t.grant] < MaxIssued /\ issued' = [issued EXCEPT ![t.grant] = @ + 1]
  BY DEF Issue
<1>4. issued[t.grant] \in 1..MaxIssued /\ issued[t.grant] + 1 \in 1..MaxIssued
  BY <1>1, <1>2, <1>3
<1>5. /\ issued' \in [Grants -> 0..MaxIssued]
      /\ issued'[t.grant] = issued[t.grant] + 1
      /\ \A g \in Grants : g # t.grant => issued'[g] = issued[g]
  BY <1>1, <1>2, <1>3, <1>4
<1>6. Grows(issued, issued') /\ IssuedInv'
  <2>1. \A g \in Grants : issued[g] <= issued'[g]
    BY <1>2, <1>4, <1>5
  <2> QED BY <1>2, <1>5, <2>1 DEF Grows, IssuedInv, TypeInv
<1>7. FlowInv'
  <2>1. \A f \in Flows : IfAny(flows[f].secret, issued) => IfAny(flows[f].secret, issued')
    BY <1>6, KnownKept DEF IfAny
  <2>2. \A f \in Flows : issued[f] = 0 => issued'[f] = 0
    BY <1>4, <1>5 DEF Grants
  <2> QED BY <2>1, <2>2 DEF TypeInv, FlowInv
<1>8. Token(t.grant, issued'[t.grant]) \in Tokens
  BY <1>1, <1>4, <1>5 DEF Tokens, Token
<1> QED BY <1>1, <1>5, <1>6, <1>7, <1>8

\* The newest token of its grant is now in worker i's hands, or lost.
LEMMA NewestIssued ==
  ASSUME TypeInv, NewestInv, NEW i \in Workers, NEW r, w' = [w EXCEPT ![i] = r],
         NEW h \in Grants, \A g \in Grants : g # h => issued'[g] = issued[g],
         UNCHANGED <<row, stale>>, lost \subseteq lost',
         \A g : ~HasNewest(w[i], g, issued),
         HasNewest(r, h, issued') \/ h \in lost'
  PROVE  NewestInv'
<1> SUFFICES ASSUME "token" \notin stale', row'.live, row'.token.grant \notin lost'
             PROVE  \/ row'.token.ver = issued'[row'.token.grant]
                    \/ \E k \in Workers : HasNewest(w'[k], row'.token.grant, issued')
  BY DEF NewestInv
<1> DEFINE g == row.token.grant
<1>1. g \in Grants
  BY DEF TypeInv, RowInv, Known, Tokens
<1>2. row.token.ver = issued[g] \/ \E k \in Workers : HasNewest(w[k], g, issued)
  BY DEF NewestInv
<1>3. CASE g = h
  <2>1. w'[i] = r
    BY DEF TypeInv, WorkerInv
  <2> QED BY <1>3, <2>1
<1>4. CASE g # h
  <2>1. issued'[g] = issued[g]
    BY <1>1, <1>4
  <2>2. ASSUME NEW k \in Workers, HasNewest(w[k], g, issued)
        PROVE  HasNewest(w'[k], g, issued')
    <3>1. k # i
      BY <2>2
    <3>2. w'[k] = w[k]
      BY <3>1 DEF TypeInv, WorkerInv
    <3> QED BY <2>1, <2>2, <3>2 DEF HasNewest
  <2> QED BY <1>2, <2>1, <2>2
<1> QED BY <1>3, <1>4

LEMMA FetchTokenStep ==
  ASSUME IInv, NEW i \in Workers, FetchToken(i)
  PROVE  IInv'
<1>1. w[i] \in Calls /\ w[i].pc = "token"
  BY CallAt DEF FetchToken, IInv, TypeInv
<1>2. \A g : ~HasNewest(w[i], g, issued)
  BY <1>1, CallHolds
<1>3. UNCHANGED <<row, flows, stale, banned, installs>>
  BY DEF FetchToken
<1>4. ASSUME NEW r \in Calls, r.token = w[i].token, r.edition = w[i].edition,
             r.pc # "rotated", r.pc \in {"reply", "result"} => r.out # "none",
             w' = [w EXCEPT ![i] = r], Keep, UNCHANGED lost
      PROVE  IInv'
  BY <1>1, <1>3, <1>4, QuietCall DEF Quiet
<1>5. CASE /\ Goto(i, [w[i] EXCEPT !.pc = "reply", !.out = "auth_failed"])
           /\ Keep /\ UNCHANGED lost
  <2> DEFINE r == [w[i] EXCEPT !.pc = "reply", !.out = "auth_failed"]
  <2>1. r \in Calls /\ r.token = w[i].token /\ r.edition = w[i].edition /\ r.pc = "reply"
        /\ r.out # "none"
    BY <1>1 DEF Calls, Outs
  <2>2. w' = [w EXCEPT ![i] = r]
    BY <1>5 DEF Goto
  <2> HIDE DEF r
  <2> QED BY <1>4, <1>5, <2>1, <2>2
<1>6. CASE Step(i, "mailbox") /\ Keep /\ UNCHANGED lost
  <2> DEFINE r == [w[i] EXCEPT !.pc = "mailbox"]
  <2>1. r \in Calls /\ r.token = w[i].token /\ r.edition = w[i].edition /\ r.pc = "mailbox"
    BY <1>1 DEF Calls
  <2>2. w' = [w EXCEPT ![i] = r]
    BY <1>6 DEF Step, Goto
  <2> HIDE DEF r
  <2> QED BY <1>4, <1>6, <2>1, <2>2
<1>7. ASSUME Takes(w[i].client, w[i].token), Issue(w[i].token.grant), lost \subseteq lost',
             NEW r \in Calls, r.token = w[i].token, r.edition = w[i].edition,
             w' = [w EXCEPT ![i] = r], Sound(r, row.edition, issued'),
             HasNewest(r, w[i].token.grant, issued') \/ w[i].token.grant \in lost'
      PROVE  IInv'
  <2>1. w[i].token # NoToken /\ IfAny(w[i].token, issued)
    BY <1>1, <1>7 DEF IInv, TypeInv, WorkerInv, Sound, Takes
  <2>2. /\ Grows(issued, issued') /\ IssuedInv' /\ FlowInv'
        /\ w[i].token.grant \in Grants
        /\ \A g \in Grants : g # w[i].token.grant => issued'[g] = issued[g]
    BY <1>3, <1>7, <2>1, IssueStep DEF IInv, Tokens
  <2>3. /\ row'.edition \in Nat /\ row.edition <= row'.edition /\ r \in Requests
        /\ Sound(r, row'.edition, issued')
    BY <1>3, <1>7 DEF IInv, TypeInv, RowInv, Rows, Requests
  <2>4. WorkerInv'
    BY <1>7, <2>2, <2>3, WorkerStep DEF IInv
  <2>5. NewestInv'
    BY <1>2, <1>3, <1>7, <2>2, NewestIssued DEF IInv
  <2>6. RowInv'
    BY <1>3, <2>2, KnownKept DEF IInv, TypeInv, RowInv
  <2> QED BY <1>3, <2>2, <2>4, <2>5, <2>6 DEF IInv, TypeInv, PairFits, VerdictIsCurrent, BanStays
<1>8. CASE /\ Takes(w[i].client, w[i].token)
           /\ Issue(w[i].token.grant)
           /\ Goto(i, [w[i] EXCEPT !.pc = "rotated",
                                   !.held = Token(w[i].token.grant, issued'[w[i].token.grant])])
           /\ UNCHANGED lost
  <2> DEFINE g == w[i].token.grant
             h == Token(g, issued'[g])
             r == [w[i] EXCEPT !.pc = "rotated", !.held = h]
  <2>1. w[i].token # NoToken /\ IfAny(w[i].token, issued) /\ ClientOf(g) = w[i].client
    BY <1>1, <1>8 DEF IInv, TypeInv, WorkerInv, Sound, Takes
  <2>2. /\ w[i].token \in Tokens /\ w[i].token.ver <= issued[g] /\ g \in Grants
        /\ Grows(issued, issued') /\ issued'[g] = issued[g] + 1 /\ h \in Tokens
    <3>1. PICK t : t = w[i].token
      OBVIOUS
    <3>2. TypeInv /\ t # NoToken /\ IfAny(t, issued) /\ Issue(t.grant) /\ UNCHANGED flows
      BY <1>3, <1>8, <2>1, <3>1 DEF IInv
    <3>3. /\ t \in Tokens /\ t.ver <= issued[t.grant] /\ Grows(issued, issued')
          /\ issued'[t.grant] = issued[t.grant] + 1 /\ Token(t.grant, issued'[t.grant]) \in Tokens
      BY <3>2, IssueStep
    <3> QED BY <3>1, <3>3 DEF Tokens
  <2>3. h.grant = g /\ h.ver = issued'[g]
    BY DEF Token
  <2> HIDE DEF h
  <2>4. /\ r \in Calls /\ r.token = w[i].token /\ r.edition = w[i].edition /\ r.pc = "rotated"
        /\ r.client = w[i].client /\ r.held = h
    BY <1>1, <2>2 DEF Calls, Secrets
  <2>5. w' = [w EXCEPT ![i] = r]
    BY <1>8 DEF Goto, h
  <2> HIDE DEF r
  <2>6. Known(r.token, issued') /\ Known(r.held, issued') /\ r.token.ver < r.held.ver
    BY <2>2, <2>3, <2>4 DEF Known, Tokens, Grows
  <2>7. Sound(r, row.edition, issued')
    <3>1. r.edition <= row.edition
      BY <1>1, <2>4 DEF IInv, TypeInv, WorkerInv, Sound
    <3> QED BY <2>1, <2>3, <2>4, <2>6, <3>1, OneKind DEF Sound, IfAny, RotatedFits
  <2>8. HasNewest(r, g, issued')
    BY <2>3, <2>4 DEF HasNewest
  <2> QED BY <1>7, <1>8, <2>4, <2>5, <2>7, <2>8
<1>9. CASE /\ Takes(w[i].client, w[i].token)
           /\ Issue(w[i].token.grant)
           /\ lost' = lost \union {w[i].token.grant}
           /\ Goto(i, [w[i] EXCEPT !.pc = "reply", !.out = "network"])
  <2> DEFINE r == [w[i] EXCEPT !.pc = "reply", !.out = "network"]
  <2>1. r \in Calls /\ r.token = w[i].token /\ r.edition = w[i].edition /\ r.pc = "reply"
        /\ r.out # "none"
    BY <1>1 DEF Calls, Outs
  <2>2. w' = [w EXCEPT ![i] = r]
    BY <1>9 DEF Goto
  <2> HIDE DEF r
  <2>3. r \in Requests /\ Sound(r, row.edition, issued)
    BY <1>1, <2>1, CallSound DEF IInv
  <2>4. w[i].token # NoToken /\ IfAny(w[i].token, issued)
    BY <1>1, <1>9 DEF IInv, TypeInv, WorkerInv, Sound, Takes
  <2>5. Grows(issued, issued') /\ row.edition \in Nat
    BY <1>3, <1>9, <2>4, IssueStep DEF IInv, TypeInv, RowInv, Rows
  <2>6. Sound(r, row.edition, issued')
    BY <2>3, <2>5, SoundKept
  <2> QED BY <1>7, <1>9, <2>1, <2>2, <2>6
<1> QED BY <1>5, <1>6, <1>8, <1>9 DEF FetchToken

\* The rotated token is written on the strength of what was read before; unless
\* that was outdated, the row goes on to the newest or somebody still holds it.
LEMMA OnTokenRotatedStep ==
  ASSUME IInv, NEW i \in Workers, OnTokenRotated(i)
  PROVE  IInv'
<1> DEFINE r == [w[i] EXCEPT !.pc = "mailbox", !.held = NoToken]
           t == w[i].held
<1>1. w[i] \in Calls /\ w[i].pc = "rotated"
  BY CallAt DEF OnTokenRotated, IInv, TypeInv
<1>2. RotatedFits(w[i], issued)
  BY <1>1 DEF IInv, TypeInv, WorkerInv, Sound
<1>3. /\ t \in Tokens /\ w[i].token \in Tokens /\ t.grant = w[i].token.grant
      /\ w[i].token.ver < t.ver /\ t.ver <= issued[t.grant]
      /\ t.grant \in Grants /\ t.ver \in Nat /\ w[i].token.ver \in Nat /\ issued[t.grant] \in Nat
  BY <1>2 DEF RotatedFits, Known, Tokens, IInv, TypeInv, IssuedInv
<1>4. row \in Rows /\ row.judged <= row.edition /\ row.edition \in Nat
  BY DEF IInv, TypeInv, RowInv, Rows
<1>5. row' = IF row.live THEN [row EXCEPT !.token = t] ELSE row
  BY DEF OnTokenRotated, UpdateMailAccountRefreshToken, Set
<1>6. /\ row' \in Rows /\ row'.live = row.live /\ row'.client = row.client
      /\ row'.edition = row.edition /\ row'.judged = row.judged
      /\ row'.status = row.status /\ row'.health = row.health
      /\ row.live => row'.token = t
      /\ ~row.live => row' = row
  BY <1>3, <1>4, <1>5 DEF Rows, Secrets
<1>7. r \in Calls /\ r.token = w[i].token /\ r.edition = w[i].edition /\ r.pc = "mailbox"
  BY <1>1 DEF Calls, Secrets
<1>8. w' = [w EXCEPT ![i] = r] /\ Told /\ Keep /\ UNCHANGED <<lost, banned>>
  BY DEF OnTokenRotated, Goto
<1>9. /\ stale \subseteq stale'
      /\ (row.live /\ "token" \notin stale') => /\ row.token \in {w[i].token, Token(t.grant, t.ver - 1)}
                                                /\ row.client = w[i].client
  BY DEF OnTokenRotated, Outdated, If
<1> HIDE DEF r
<1>10. WorkerInv'
  <2>1. r \in Requests /\ Sound(r, row.edition, issued)
    BY <1>1, <1>7, CallSound DEF IInv
  <2>2. Grows(issued, issued')
    BY <1>8, CredentialsAssumption DEF Keep, Grows, IInv, TypeInv, IssuedInv
  <2>3. issued' = issued /\ Sound(r, row'.edition, issued') /\ row'.edition \in Nat
        /\ row.edition <= row'.edition
    BY <1>4, <1>6, <1>8, <2>1 DEF Keep
  <2> QED BY <1>8, <2>1, <2>2, <2>3, WorkerStep DEF IInv
<1>11. RowInv'
  BY <1>2, <1>4, <1>6, <1>8 DEF IInv, TypeInv, RowInv, RotatedFits, Keep
<1>12. (FlowInv /\ IssuedInv /\ installs \in [Flows -> Nat])'
  BY <1>8 DEF Told, Keep, IInv, TypeInv, FlowInv, IssuedInv, IfAny, Known
<1>13. NewestInv'
  <2> SUFFICES ASSUME "token" \notin stale', row.live, row'.token.grant \notin lost'
               PROVE  \/ row'.token.ver = issued[row'.token.grant]
                      \/ \E k \in Workers : HasNewest(w'[k], row'.token.grant, issued)
    BY <1>6, <1>8 DEF NewestInv, Keep
  <2> DEFINE g == t.grant
  <2>1. row'.token = t /\ row.token \in {w[i].token, Token(g, t.ver - 1)}
    BY <1>6, <1>9
  <2>2. row.token.grant = g /\ row.token.ver < t.ver
    BY <1>3, <2>1 DEF Token
  <2>3. row.token.ver = issued[g] \/ \E k \in Workers : HasNewest(w[k], g, issued)
    BY <1>8, <1>9, <2>1, <2>2 DEF IInv, NewestInv
  <2>4. CASE t.ver = issued[g]
    BY <2>1, <2>4
  <2>5. CASE t.ver # issued[g]
    <3>1. row.token.ver # issued[g]
      BY <1>3, <2>1, <2>2 DEF Token
    <3>2. PICK k \in Workers : HasNewest(w[k], g, issued)
      BY <2>3, <3>1
    <3>3. k # i
      BY <1>1, <2>5, <3>2, OneKind DEF HasNewest
    <3>4. w'[k] = w[k]
      BY <1>8, <3>3 DEF IInv, TypeInv, WorkerInv
    <3> QED BY <2>1, <3>2, <3>4
  <2> QED BY <2>4, <2>5
<1>14. PairFits'
  BY <1>2, <1>6, <1>9 DEF PairFits, RotatedFits
<1>15. VerdictIsCurrent' /\ BanStays'
  <2>1. ("health" \in stale => "health" \in stale') /\ ("status" \in stale => "status" \in stale')
    BY <1>9
  <2> QED BY <1>6, <1>8, <2>1 DEF IInv, VerdictIsCurrent, BanStays
<1> QED BY <1>8, <1>10, <1>11, <1>12, <1>13, <1>14, <1>15 DEF IInv, TypeInv

-----------------------------------------------------------------------------
(* Edits.                                                                  *)

\* The token a user types in is the first of its grant.
LEMMA TypedKnown ==
  ASSUME TypeInv
  PROVE  Token(Typed, 1) \in Tokens /\ Known(Token(Typed, 1), issued)
BY CredentialsAssumption DEF TypeInv, IssuedInv, Known, Tokens, Token, Grants

LEMMA UpdateBeginStep ==
  ASSUME IInv, NEW i \in Workers, NEW change \in Changes, NEW s \in {"active", "disabled"},
         UpdateBegin(i, change, s)
  PROVE  IInv'
<1> DEFINE secrets == change \in {"secrets", "import"}
           before == [client |-> row.client, token |-> row.token, status |-> row.status]
           after == [client |-> IF secrets THEN Typed ELSE row.client,
                     token  |-> IF secrets THEN Token(Typed, 1) ELSE row.token,
                     status |-> IF change \in {"status", "import"} THEN s ELSE row.status]
           r == [op |-> "edit", pc |-> "tx", change |-> change, edition |-> row.edition,
                 before |-> before, after |-> after]
<1>1. row \in Rows /\ Known(row.token, issued)
  BY DEF UpdateBegin, GetMailAccount, IInv, TypeInv, RowInv
<1>2. /\ w[i] = Idle /\ w' = [w EXCEPT ![i] = r] /\ Quiet /\ Keep
  BY DEF UpdateBegin, Begin
<1>3. Token(Typed, 1) \in Tokens /\ Known(Token(Typed, 1), issued)
  BY TypedKnown DEF IInv
<1>4. before \in Login /\ after \in Login
  BY <1>1, <1>3 DEF Login, Rows, Secrets, Clients, Marks
<1>5. EditFits(r, issued)
  BY <1>1, <1>3 DEF EditFits
<1> HIDE DEF before, after
<1>6. r \in Edits
  BY <1>1, <1>4 DEF Edits, Rows
<1> HIDE DEF r
<1>7. r \in Requests /\ Sound(r, row.edition, issued)
  BY <1>5, <1>6, OneKind DEF Requests, Sound
<1>8. \A g : ~HasNewest(w[i], g, issued)
  BY <1>2, IdleSound
<1> QED BY <1>2, <1>7, <1>8, QuietStep

LEMMA UpdateTxStep ==
  ASSUME IInv, NEW i \in Workers, UpdateTx(i)
  PROVE  IInv'
<1> DEFINE r == w[i]
           a == r.after
           b == r.before
           secrets == r.change \in {"secrets", "import"}
           status == r.change \in {"status", "import"}
<1>1. r \in Edits /\ EditFits(r, issued) /\ a \in Login /\ b \in Login
  <2>1. r \in Edits
    BY EditAt DEF UpdateTx, IInv, TypeInv
  <2> QED BY <2>1 DEF IInv, TypeInv, WorkerInv, Sound, Edits
<1>2. /\ row \in Rows /\ row.judged <= row.edition /\ row.edition \in Nat
      /\ row.edition + 1 \in Nat /\ row.judged \in Nat
  BY DEF IInv, TypeInv, RowInv, Rows
<1>3. w' = [w EXCEPT ![i] = Idle] /\ Told /\ Keep /\ UNCHANGED lost
  BY DEF UpdateTx, End, Goto
<1>4. row' = IF row.live
             THEN IF LoginInputsChanged(r)
                  THEN [row EXCEPT !.client = a.client, !.token = a.token, !.status = a.status,
                                   !.health = "unknown", !.edition = row.edition + 1]
                  ELSE [row EXCEPT !.client = a.client, !.token = a.token, !.status = a.status]
             ELSE row
  BY <1>2 DEF UpdateTx, Set, ResetMailAccountHealth, UpdateMailAccount, Rows
<1>5. /\ row' \in Rows /\ row'.live = row.live /\ row'.judged = row.judged
      /\ row.edition <= row'.edition
      /\ row.live => row'.client = a.client /\ row'.token = a.token /\ row'.status = a.status
      /\ row.live /\ LoginInputsChanged(r) => row'.health = "unknown"
      /\ row.live /\ ~LoginInputsChanged(r) => row'.health = row.health /\ row'.edition = row.edition
      /\ ~row.live => row' = row
  <2>1. ASSUME NEW c \in Clients, NEW t \in Secrets, NEW st \in Marks,
               row' = [row EXCEPT !.client = c, !.token = t, !.status = st,
                                  !.health = "unknown", !.edition = row.edition + 1]
        PROVE  /\ row' \in Rows /\ row'.live = row.live /\ row'.judged = row.judged
               /\ row'.edition = row.edition + 1 /\ row'.health = "unknown"
               /\ row'.client = c /\ row'.token = t /\ row'.status = st
    BY <1>2, <2>1 DEF Rows
  <2>2. ASSUME NEW c \in Clients, NEW t \in Secrets, NEW st \in Marks,
               row' = [row EXCEPT !.client = c, !.token = t, !.status = st]
        PROVE  /\ row' \in Rows /\ row'.live = row.live /\ row'.judged = row.judged
               /\ row'.edition = row.edition /\ row'.health = row.health
               /\ row'.client = c /\ row'.token = t /\ row'.status = st
    BY <1>2, <2>2 DEF Rows
  <2>3. a.client \in Clients /\ a.token \in Secrets /\ a.status \in Marks
    BY <1>1 DEF Login
  <2>4. CASE ~row.live
    BY <1>2, <1>4, <2>4
  <2>5. CASE row.live /\ LoginInputsChanged(r)
    <3>1. row' = [row EXCEPT !.client = a.client, !.token = a.token, !.status = a.status,
                             !.health = "unknown", !.edition = row.edition + 1]
      BY <1>4, <2>5
    <3> HIDE DEF a, r
    <3>2. /\ row' \in Rows /\ row'.live = row.live /\ row'.judged = row.judged
          /\ row'.edition = row.edition + 1 /\ row'.health = "unknown"
          /\ row'.client = a.client /\ row'.token = a.token /\ row'.status = a.status
      BY <2>1, <2>3, <3>1
    <3> QED BY <1>2, <2>5, <3>2
  <2>6. CASE row.live /\ ~LoginInputsChanged(r)
    <3>1. row' = [row EXCEPT !.client = a.client, !.token = a.token, !.status = a.status]
      BY <1>4, <2>6
    <3> HIDE DEF a, r
    <3>2. /\ row' \in Rows /\ row'.live = row.live /\ row'.judged = row.judged
          /\ row'.edition = row.edition /\ row'.health = row.health
          /\ row'.client = a.client /\ row'.token = a.token /\ row'.status = a.status
      BY <2>2, <2>3, <3>1
    <3> QED BY <1>2, <2>6, <3>2
  <2> QED BY <2>4, <2>5, <2>6
<1>6. /\ stale \subseteq stale'
      /\ row.live /\ "token" \notin stale' =>
            IF secrets THEN issued[Typed] <= 1 ELSE row.client = b.client /\ row.token = b.token
      /\ row.live /\ "status" \notin stale' /\ ~status => row.status = b.status
  <2>1. issued[Typed] \in Nat
    BY CredentialsAssumption DEF IInv, TypeInv, IssuedInv, Grants
  <2> QED BY <2>1 DEF UpdateTx, Outdated, If
<1>7. banned' = IF row.live /\ status THEN a.status = "banned" ELSE banned
  BY DEF UpdateTx
<1> HIDE DEF a, b, r
<1>8. WorkerInv'
  <2>1. Grows(issued, issued') /\ row'.edition \in Nat
    BY <1>3, <1>5, CredentialsAssumption DEF Keep, Grows, IInv, TypeInv, IssuedInv, Rows
  <2> QED BY <1>3, <1>5, <2>1, IdleSound, WorkerStep DEF IInv
<1>9. RowInv'
  <2>1. row'.judged <= row'.edition
    BY <1>2, <1>5 DEF Rows
  <2>2. row.live => Known(row'.token, issued')
    BY <1>1, <1>3, <1>5 DEF EditFits, Keep, a
  <2> QED BY <1>5, <2>1, <2>2 DEF IInv, TypeInv, RowInv
<1>10. (FlowInv /\ IssuedInv /\ installs \in [Flows -> Nat])'
  BY <1>3 DEF Told, Keep, IInv, TypeInv, FlowInv, IssuedInv, IfAny, Known
<1>11. NewestInv'
  <2> SUFFICES ASSUME "token" \notin stale', row.live, row'.token.grant \notin lost
               PROVE  \/ row'.token.ver = issued[row'.token.grant]
                      \/ \E k \in Workers : HasNewest(w'[k], row'.token.grant, issued)
    BY <1>3, <1>5 DEF NewestInv, Keep
  <2>1. CASE secrets
    <3>1. row'.token = Token(Typed, 1)
      BY <1>1, <1>5, <2>1 DEF EditFits, a
    <3>2. issued[Typed] = 1
      BY <1>6, <2>1, CredentialsAssumption DEF IInv, TypeInv, IssuedInv, Grants
    <3> QED BY <3>1, <3>2 DEF Token
  <2>2. CASE ~secrets
    <3>1. row'.token = row.token
      BY <1>1, <1>5, <1>6, <2>2 DEF EditFits, a, b
    <3>2. \/ row.token.ver = issued[row.token.grant]
          \/ \E k \in Workers : HasNewest(w[k], row.token.grant, issued)
      BY <1>6, <3>1 DEF IInv, NewestInv
    <3>3. ASSUME NEW k \in Workers, HasNewest(w[k], row.token.grant, issued)
          PROVE  HasNewest(w'[k], row.token.grant, issued)
      <4>1. k # i
        BY <1>1, <3>3, OneKind DEF HasNewest, r
      <4>2. w'[k] = w[k]
        BY <1>3, <4>1 DEF IInv, TypeInv, WorkerInv
      <4> QED BY <3>3, <4>2
    <3> QED BY <3>1, <3>2, <3>3
  <2> QED BY <2>1, <2>2
<1>12. PairFits'
  <2> SUFFICES ASSUME "token" \notin stale', row.live
               PROVE  ClientOf(row'.token.grant) = row'.client
    BY <1>5 DEF PairFits
  <2>1. CASE secrets
    BY <1>1, <1>5, <2>1, CredentialsAssumption DEF EditFits, a, Token, ClientOf
  <2>2. CASE ~secrets
    <3>1. row'.token = row.token /\ row'.client = row.client
      BY <1>1, <1>5, <1>6, <2>2 DEF EditFits, a, b
    <3> QED BY <1>6, <3>1 DEF IInv, PairFits
  <2> QED BY <2>1, <2>2
<1>13. VerdictIsCurrent'
  BY <1>5, <1>6 DEF IInv, VerdictIsCurrent
<1>14. BanStays'
  <2> SUFFICES ASSUME banned', row.live, "status" \notin stale' PROVE row'.status = "banned"
    BY <1>5 DEF BanStays
  <2>1. CASE status
    BY <1>5, <1>7, <2>1
  <2>2. CASE ~status
    <3>1. row'.status = row.status
      BY <1>1, <1>5, <1>6, <2>2 DEF EditFits, a, b
    <3> QED BY <1>6, <1>7, <2>2, <3>1 DEF IInv, BanStays
  <2> QED BY <2>1, <2>2
<1> QED BY <1>3, <1>8, <1>9, <1>10, <1>11, <1>12, <1>13, <1>14 DEF IInv, TypeInv, Told

LEMMA BatchStatusStep ==
  ASSUME IInv, NEW s \in {"active", "banned"}, BatchStatus(s)
  PROVE  IInv'
<1>1. row \in Rows
  BY DEF IInv, TypeInv, RowInv
<1>2. row' = IF row.live THEN [row EXCEPT !.status = s] ELSE row
  BY DEF BatchStatus, BatchUpdateMailAccountStatus, Set
<1>3. /\ row' \in Rows /\ row'.live = row.live /\ row'.token = row.token
      /\ row'.client = row.client /\ row'.edition = row.edition /\ row'.judged = row.judged
      /\ row'.health = row.health
      /\ row.live => row'.status = s
  BY <1>1, <1>2 DEF Rows, Marks
<1>4. /\ UNCHANGED <<w, flows, installs, issued, lost>> /\ stale \subseteq stale'
      /\ banned' = (row.live /\ s = "banned")
  BY DEF BatchStatus, Once, Told, Keep, Outdated
<1>5. TypeInv'
  BY <1>3, <1>4 DEF IInv, TypeInv, RowInv, FlowInv, IssuedInv, WorkerInv, IfAny, Known
<1>6. NewestInv'
  BY <1>3, <1>4 DEF IInv, NewestInv
<1>7. PairFits' /\ VerdictIsCurrent' /\ BanStays'
  <2>1. ("health" \in stale => "health" \in stale') /\ ("token" \in stale => "token" \in stale')
    BY <1>4
  <2>2. PairFits' /\ VerdictIsCurrent'
    BY <1>3, <1>4, <2>1 DEF IInv, PairFits, VerdictIsCurrent
  <2>3. BanStays'
    BY <1>3, <1>4 DEF BanStays
  <2> QED BY <2>2, <2>3
<1> QED BY <1>5, <1>6, <1>7 DEF IInv

LEMMA DeleteStep ==
  ASSUME IInv, Delete
  PROVE  IInv'
<1>1. row \in Rows /\ row.judged <= row.edition
  BY DEF IInv, TypeInv, RowInv
<1>2. row' = [row EXCEPT !.live = FALSE, !.token = NoToken]
  BY DEF Delete, GetMailAccount, SoftDeleteMailAccount, Set
<1>3. /\ row' \in Rows /\ ~row'.live /\ row'.token = NoToken
      /\ row'.edition = row.edition /\ row'.judged = row.judged /\ row'.health = row.health
  BY <1>1, <1>2 DEF Rows, Secrets
<1>4. UNCHANGED <<w, flows, installs, issued, lost, stale>>
  BY DEF Delete, Once, Told, Keep
<1>5. TypeInv'
  BY <1>1, <1>3, <1>4 DEF IInv, TypeInv, RowInv, FlowInv, IssuedInv, WorkerInv, IfAny, Known
<1>6. NewestInv' /\ PairFits' /\ BanStays'
  BY <1>3 DEF NewestInv, PairFits, BanStays
<1>7. VerdictIsCurrent'
  BY <1>3, <1>4 DEF IInv, VerdictIsCurrent
<1> QED BY <1>5, <1>6, <1>7 DEF IInv

-----------------------------------------------------------------------------
(* Reauthorisation.                                                        *)

\* A flow is written, and the account is left alone.
LEMMA FlowStep ==
  ASSUME IInv, FlowInv', WorkerInv', NewestInv', UNCHANGED <<row, stale, banned, issued>>,
         installs' \in [Flows -> Nat]
  PROVE  IInv'
<1>1. RowInv' /\ IssuedInv'
  BY DEF IInv, TypeInv, RowInv, IssuedInv
<1>2. PairFits' /\ VerdictIsCurrent' /\ BanStays'
  BY DEF IInv, PairFits, VerdictIsCurrent, BanStays
<1> QED BY <1>1, <1>2 DEF IInv, TypeInv

\* A flow keeps a token only between exchange and consumption, whatever is written.
LEMMA FlowWritten ==
  ASSUME TypeInv, NEW f \in Flows, NEW new \in FlowRows, Write(f, new), UNCHANGED issued,
         new.secret # NoToken => new.status \in {"exchanged", "failed"},
         new.expired => new.status # "none",
         new.status # "none", new.code => flows[f].code,
         IfAny(new.secret, issued)
  PROVE  FlowInv'
<1>1. flows' \in [Flows -> FlowRows]
  BY DEF Write, TypeInv, FlowInv
<1>2. ASSUME NEW g \in Flows
      PROVE  /\ flows'[g].secret # NoToken => flows'[g].status \in {"exchanged", "failed"}
             /\ flows'[g].expired => flows'[g].status # "none"
             /\ flows'[g].status = "none" => ~flows'[g].code
             /\ flows'[g].status = "none" \/ flows'[g].code => issued[g] = 0
             /\ IfAny(flows'[g].secret, issued)
  <2>1. flows'[g] = IF g = f THEN new ELSE flows[g]
    BY DEF Write, TypeInv, FlowInv
  <2> QED BY <2>1 DEF TypeInv, FlowInv
<1> QED BY <1>1, <1>2 DEF FlowInv, IfAny, Known

\* A flow that does not exist, that was purged, or that just began has no token.
LEMMA NoFlowType ==
  /\ NoFlow \in FlowRows /\ NoFlow.secret = NoToken /\ ~NoFlow.expired /\ ~NoFlow.code
  /\ NoFlow.status = "none"
  /\ [NoFlow EXCEPT !.status = "purged"] \in FlowRows
  /\ [NoFlow EXCEPT !.status = "purged"].status = "purged"
  /\ [NoFlow EXCEPT !.status = "purged"].secret = NoToken
  /\ ~[NoFlow EXCEPT !.status = "purged"].code
  /\ ~[NoFlow EXCEPT !.status = "purged"].expired
  /\ CreateOAuthAuthorization \in FlowRows
  /\ CreateOAuthAuthorization.status = "started"
  /\ CreateOAuthAuthorization.secret = NoToken
  /\ ~CreateOAuthAuthorization.expired
BY DEF NoFlow, FlowRows, CreateOAuthAuthorization, Secrets

LEMMA StartStep ==
  ASSUME IInv, NEW f \in Flows, Start(f)
  PROVE  IInv'
<1> DEFINE purged == [NoFlow EXCEPT !.status = "purged"]
           new == CreateOAuthAuthorization
<1>1. flows \in [Flows -> FlowRows] /\ issued[f] = 0
  BY DEF Start, IInv, TypeInv, FlowInv
<1>2. UNCHANGED <<row, w, issued, stale, lost, banned, installs>>
  BY DEF Start, Keep
<1>3. flows' = [g \in Flows |-> IF g = f THEN new
                                ELSE IF ~flows[g].expired THEN flows[g] ELSE purged]
  BY DEF Start, DeleteExpiredOAuthAuthorizations, Unexpired
<1>4. /\ purged \in FlowRows /\ purged.secret = NoToken /\ ~purged.code /\ ~purged.expired
      /\ purged.status = "purged"
      /\ new \in FlowRows /\ new.secret = NoToken /\ new.status = "started" /\ ~new.expired
  BY NoFlowType
<1> HIDE DEF purged, new
<1>5. FlowInv'
  <2>1. flows' \in [Flows -> FlowRows]
    BY <1>1, <1>3, <1>4
  <2>2. ASSUME NEW g \in Flows
        PROVE  /\ flows'[g].secret # NoToken => flows'[g].status \in {"exchanged", "failed"}
               /\ flows'[g].expired => flows'[g].status # "none"
               /\ flows'[g].status = "none" => ~flows'[g].code
               /\ flows'[g].status = "none" \/ flows'[g].code => issued[g] = 0
               /\ IfAny(flows'[g].secret, issued)
    <3>1. flows'[g] \in {new, flows[g], purged} /\ (flows'[g] = new => g = f \/ flows'[g] = flows[g])
      BY <1>3, <1>4
    <3>2. CASE flows'[g] = flows[g]
      BY <3>2 DEF IInv, TypeInv, FlowInv
    <3>3. CASE flows'[g] = purged
      BY <1>4, <3>3 DEF IfAny
    <3>4. CASE flows'[g] = new /\ g = f
      BY <1>1, <1>4, <3>4 DEF IfAny
    <3> QED BY <3>1, <3>2, <3>3, <3>4
  <2> QED BY <1>2, <2>1, <2>2 DEF FlowInv, IfAny, Known
<1>6. WorkerInv' /\ NewestInv' /\ installs' \in [Flows -> Nat]
  BY <1>2 DEF IInv, TypeInv, WorkerInv, NewestInv
<1> QED BY <1>2, <1>5, <1>6, FlowStep

LEMMA ExpireStep ==
  ASSUME IInv, NEW f \in Flows, Expire(f)
  PROVE  IInv'
<1> DEFINE new == [flows[f] EXCEPT !.expired = TRUE]
<1>1. flows[f] \in FlowRows
  BY DEF IInv, TypeInv, FlowInv
<1>2. UNCHANGED <<row, w, issued, stale, lost, banned, installs>>
  BY DEF Expire, Keep
<1>3. new \in FlowRows /\ new.status = flows[f].status /\ new.secret = flows[f].secret
      /\ new.code = flows[f].code
  BY <1>1 DEF FlowRows
<1>4. Write(f, new)
  BY DEF Expire, Write
<1> HIDE DEF new
<1>5. flows[f].status # "none" /\ IfAny(flows[f].secret, issued)
      /\ (flows[f].secret # NoToken => flows[f].status \in {"exchanged", "failed"})
  BY DEF Expire, IInv, TypeInv, FlowInv
<1>6. FlowInv'
  BY <1>2, <1>3, <1>4, <1>5, FlowWritten DEF IInv
<1>7. WorkerInv' /\ NewestInv' /\ installs' \in [Flows -> Nat]
  BY <1>2 DEF IInv, TypeInv, WorkerInv, NewestInv
<1> QED BY <1>2, <1>6, <1>7, FlowStep

\* Callback and completion begin with what the row and the flow hold.
LEMMA CallbackFlowStep ==
  ASSUME IInv, NEW i \in Workers, NEW f \in Flows, CallbackFlow(i, f)
  PROVE  IInv'
<1> DEFINE r == [op |-> "callback", pc |-> "code", flow |-> f, stored |-> row.token, token |-> NoToken]
<1>1. row \in Rows /\ Known(row.token, issued)
  BY DEF CallbackFlow, GetMailAccount, IInv, TypeInv, RowInv
<1>2. w[i] = Idle /\ w' = [w EXCEPT ![i] = r] /\ Quiet /\ Keep
  BY DEF CallbackFlow, Begin
<1>3. r \in Callbacks
  BY <1>1 DEF Callbacks, Rows, Secrets
<1>4. r \in Requests /\ Sound(r, row.edition, issued)
  BY <1>1, <1>3, OneKind DEF Requests, Sound, IfAny
<1> HIDE DEF r
<1> QED BY <1>2, <1>4, IdleSound, QuietStep

LEMMA CompleteBeginStep ==
  ASSUME IInv, NEW i \in Workers, NEW f \in Flows, CompleteBegin(i, f)
  PROVE  IInv'
<1> DEFINE r == [op |-> "complete", pc |-> "refresh", flow |-> f, token |-> flows[f].secret,
                 new |-> FALSE]
<1>1. flows[f].secret \in Secrets /\ IfAny(flows[f].secret, issued)
  BY DEF IInv, TypeInv, FlowInv, FlowRows
<1>2. w[i] = Idle /\ w' = [w EXCEPT ![i] = r] /\ Quiet /\ Keep
  BY DEF CompleteBegin, Begin
<1>3. r \in Completes
  BY <1>1 DEF Completes
<1>4. r \in Requests /\ Sound(r, row.edition, issued)
  BY <1>1, <1>3, OneKind DEF Requests, Sound
<1> HIDE DEF r
<1> QED BY <1>2, <1>4, IdleSound, QuietStep

\* The end of a callback, whatever it writes into its flow.
LEMMA CallbackEnds ==
  ASSUME IInv, NEW i \in Workers, w[i] \in Callbacks, End(i), Keep, FlowInv',
         UNCHANGED <<row, stale, lost, banned, installs>>
  PROVE  IInv'
<1>1. w' = [w EXCEPT ![i] = Idle] /\ issued' = issued
  BY DEF End, Goto, Keep
<1>2. \A g : ~HasNewest(w[i], g, issued)
  BY OneKind DEF HasNewest
<1>3. NewestInv'
  BY <1>1, <1>2, NewestStep DEF IInv
<1>4. row'.edition \in Nat /\ row.edition <= row'.edition /\ Grows(issued, issued')
  BY <1>1, CredentialsAssumption DEF IInv, TypeInv, RowInv, Rows, IssuedInv, Grows
<1>5. WorkerInv'
  BY <1>1, <1>4, IdleSound, WorkerStep DEF IInv
<1> QED BY <1>1, <1>3, <1>5, FlowStep DEF IInv, TypeInv

LEMMA ExchangeMarkStep ==
  ASSUME IInv, NEW i \in Workers, ExchangeMark(i)
  PROVE  IInv'
<1> DEFINE f == w[i].flow
           t == w[i].token
           new == [flows[f] EXCEPT !.status = "exchanged", !.secret = t]
<1>1. w[i] \in Callbacks
  BY CallbackAt DEF ExchangeMark, IInv, TypeInv
<1>2. f \in Flows /\ t \in Secrets /\ IfAny(t, issued)
  BY <1>1 DEF Callbacks, IInv, TypeInv, WorkerInv, Sound
<1>3. flows[f] \in FlowRows
  BY <1>2 DEF IInv, TypeInv, FlowInv
<1> HIDE DEF f, t
<1>4. /\ new \in FlowRows /\ new.status = "exchanged" /\ new.secret = t
      /\ new.code = flows[f].code /\ new.expired = flows[f].expired
  BY <1>2, <1>3 DEF FlowRows
<1>5. Write(f, new) \/ UNCHANGED flows
  BY DEF ExchangeMark, MarkOAuthAuthorizationExchanged, f, t
<1> HIDE DEF new
<1>6. UNCHANGED <<row, stale, lost, banned, installs, issued>> /\ End(i) /\ Keep
  BY DEF ExchangeMark, Keep
<1>7. FlowInv'
  <2>1. CASE Write(f, new)
    BY <1>2, <1>4, <1>6, <2>1, FlowWritten DEF IInv
  <2>2. CASE UNCHANGED flows
    BY <1>6, <2>2 DEF IInv, TypeInv, FlowInv, IfAny, Known
  <2> QED BY <1>5, <2>1, <2>2
<1> QED BY <1>1, <1>6, <1>7, CallbackEnds

LEMMA RecordOAuthFailureStep ==
  ASSUME IInv, NEW i \in Workers, RecordOAuthFailure(i)
  PROVE  IInv'
<1> DEFINE f == w[i].flow
           new == [flows[f] EXCEPT !.status = "failed"]
<1>1. w[i] \in Callbacks
  BY CallbackAt DEF RecordOAuthFailure, IInv, TypeInv
<1>2. f \in Flows
  BY <1>1 DEF Callbacks
<1>3. flows[f] \in FlowRows /\ IfAny(flows[f].secret, issued)
  BY <1>2 DEF IInv, TypeInv, FlowInv
<1> HIDE DEF f
<1>4. /\ new \in FlowRows /\ new.status = "failed" /\ new.secret = flows[f].secret
      /\ new.code = flows[f].code /\ new.expired = flows[f].expired
  BY <1>3 DEF FlowRows
<1>5. Write(f, new) \/ UNCHANGED flows
  BY DEF RecordOAuthFailure, MarkOAuthAuthorizationFailed, f
<1> HIDE DEF new
<1>6. UNCHANGED <<row, stale, lost, banned, installs, issued>> /\ End(i) /\ Keep
  BY DEF RecordOAuthFailure, Keep
<1>7. FlowInv'
  <2>1. CASE Write(f, new)
    BY <1>2, <1>3, <1>4, <1>6, <2>1, FlowWritten DEF IInv
  <2>2. CASE UNCHANGED flows
    BY <1>6, <2>2 DEF IInv, TypeInv, FlowInv, IfAny, Known
  <2> QED BY <1>5, <2>1, <2>2
<1> QED BY <1>1, <1>6, <1>7, CallbackEnds

\* A code is good for one use: the first token of the flow's grant.
LEMMA ExchangeCodeStep ==
  ASSUME IInv, NEW i \in Workers, ExchangeCode(i)
  PROVE  IInv'
<1> DEFINE f == w[i].flow
           used == [flows[f] EXCEPT !.code = FALSE]
<1>1. w[i] \in Callbacks /\ w[i].pc = "code"
  BY CallbackAt DEF ExchangeCode, IInv, TypeInv
<1>2. /\ f \in Flows /\ f \in Grants /\ w[i].stored \in Secrets
      /\ IfAny(w[i].stored, issued) /\ IfAny(w[i].token, issued)
  BY <1>1 DEF Callbacks, IInv, TypeInv, WorkerInv, Sound, Grants
<1>3. /\ flows[f] \in FlowRows /\ IfAny(flows[f].secret, issued)
      /\ flows[f].code => issued[f] = 0 /\ flows[f].status # "none"
  BY <1>2 DEF IInv, TypeInv, FlowInv
<1>4. UNCHANGED <<row, stale, lost, banned, installs>>
  BY DEF ExchangeCode
<1>5. \A g : ~HasNewest(w[i], g, issued)
  BY <1>1, OneKind DEF HasNewest
<1>6. /\ row.edition \in Nat /\ row'.edition = row.edition /\ installs' \in [Flows -> Nat]
      /\ issued \in [Grants -> 0..MaxIssued] /\ issued[Typed] >= 1 /\ 1 \in 0..MaxIssued
      /\ Typed \in Grants /\ f # Typed
  BY <1>2, <1>4, CredentialsAssumption DEF IInv, TypeInv, RowInv, Rows, IssuedInv, Grants
<1>7. /\ used \in FlowRows /\ used.status = flows[f].status /\ used.secret = flows[f].secret
      /\ used.expired = flows[f].expired /\ ~used.code
  BY <1>3 DEF FlowRows
<1>8. CASE /\ flows[f].code
           /\ \E t \in {Token(f, 1), w[i].stored} \ {NoToken} :
                 /\ Goto(i, [w[i] EXCEPT !.pc = "mark", !.token = t])
                 /\ issued' = IF t = Token(f, 1) THEN [issued EXCEPT ![f] = 1] ELSE issued
           /\ Write(f, used)
  <2>1. PICK t \in {Token(f, 1), w[i].stored} \ {NoToken} :
              /\ Goto(i, [w[i] EXCEPT !.pc = "mark", !.token = t])
              /\ issued' = IF t = Token(f, 1) THEN [issued EXCEPT ![f] = 1] ELSE issued
    BY <1>8
  <2> DEFINE r == [w[i] EXCEPT !.pc = "mark", !.token = t]
  <2>2. Token(f, 1) \in Tokens /\ Token(f, 1).grant = f /\ Token(f, 1).ver = 1
    BY <1>2, CredentialsAssumption DEF Tokens, Token
  <2>3. /\ r \in Callbacks /\ r.stored = w[i].stored /\ r.token = t
    BY <1>1, <1>2, <2>1, <2>2 DEF Callbacks, Secrets
  <2>4. w' = [w EXCEPT ![i] = r]
    BY <2>1 DEF Goto
  <2> HIDE DEF r, f, used
  <2>5. issued[f] = 0
    BY <1>3, <1>8
  <2>6. /\ issued' \in [Grants -> 0..MaxIssued] /\ issued'[Typed] >= 1
        /\ \A g \in Grants : g # f => issued'[g] = issued[g]
        /\ t = Token(f, 1) => issued'[f] = 1
        /\ t # Token(f, 1) => issued' = issued
        /\ \A g \in Grants : issued[g] <= issued'[g]
    BY <1>2, <1>6, <2>1, <2>5
  <2>7. Grows(issued, issued') /\ IssuedInv'
    BY <1>6, <2>6, CredentialsAssumption DEF Grows, IssuedInv
  <2>8. Known(t, issued')
    <3>1. CASE t = Token(f, 1)
      BY <2>2, <2>6, <3>1 DEF Known
    <3>2. CASE t # Token(f, 1)
      BY <1>2, <2>1, <2>6, <3>2 DEF IfAny
    <3> QED BY <3>1, <3>2
  <2>9. Sound(r, row'.edition, issued') /\ r \in Requests
    BY <1>2, <2>3, <2>7, <2>8, KnownKept, OneKind DEF Sound, Requests, IfAny
  <2>10. WorkerInv'
    <3>1. row'.edition \in Nat /\ row.edition <= row'.edition
      BY <1>6
    <3> QED BY <2>4, <2>7, <2>9, <3>1, WorkerStep DEF IInv
  <2>11. FlowInv'
    <3>1. flows' \in [Flows -> FlowRows]
      BY <1>7, <1>8 DEF Write, IInv, TypeInv, FlowInv
    <3>2. ASSUME NEW g \in Flows
          PROVE  /\ flows'[g].secret # NoToken => flows'[g].status \in {"exchanged", "failed"}
                 /\ flows'[g].expired => flows'[g].status # "none"
                 /\ flows'[g].status = "none" => ~flows'[g].code
                 /\ flows'[g].status = "none" \/ flows'[g].code => issued'[g] = 0
                 /\ IfAny(flows'[g].secret, issued')
      <4>1. CASE g = f
        <5>1. flows'[g] = used
          BY <1>2, <1>8, <4>1 DEF Write, IInv, TypeInv, FlowInv
        <5>2. IfAny(flows[f].secret, issued')
          BY <1>3, <2>7, KnownKept DEF IfAny
        <5> QED BY <1>2, <1>3, <1>7, <1>8, <5>1, <5>2 DEF IInv, TypeInv, FlowInv
      <4>2. CASE g # f
        <5>1. flows'[g] = flows[g] /\ issued'[g] = issued[g]
          BY <1>8, <2>6, <4>2 DEF Write, IInv, TypeInv, FlowInv, Grants
        <5>2. IfAny(flows[g].secret, issued')
          BY <2>7, KnownKept DEF IfAny, IInv, TypeInv, FlowInv
        <5> QED BY <5>1, <5>2 DEF IInv, TypeInv, FlowInv
      <4> QED BY <4>1, <4>2
    <3> QED BY <3>1, <3>2 DEF FlowInv
  <2>12. RowInv'
    BY <1>4, <2>7, KnownKept DEF IInv, TypeInv, RowInv
  <2>13. NewestInv'
    <3> SUFFICES ASSUME "token" \notin stale, row.live, row.token.grant \notin lost
                 PROVE  \/ row.token.ver = issued'[row.token.grant]
                        \/ \E k \in Workers : HasNewest(w'[k], row.token.grant, issued')
      BY <1>4 DEF NewestInv
    <3> DEFINE g == row.token.grant
    <3>1. g \in Grants /\ g # f
      <4>1. Known(row.token, issued)
        BY DEF IInv, TypeInv, RowInv
      <4>2. g \in Grants /\ row.token.ver \in 1..MaxIssued /\ row.token.ver <= issued[g]
        BY <4>1 DEF Known, Tokens
      <4> QED BY <2>5, <4>2
    <3>2. issued'[g] = issued[g]
      BY <2>6, <3>1
    <3>3. ASSUME NEW k \in Workers, HasNewest(w[k], g, issued)
          PROVE  HasNewest(w'[k], g, issued')
      <4>1. w'[k] = w[k]
        BY <1>5, <2>4, <3>3 DEF IInv, TypeInv, WorkerInv
      <4> QED BY <3>2, <3>3, <4>1 DEF HasNewest
    <3>4. row.token.ver = issued[g] \/ \E k \in Workers : HasNewest(w[k], g, issued)
      BY DEF IInv, NewestInv
    <3> QED BY <3>2, <3>3, <3>4
  <2>14. PairFits' /\ VerdictIsCurrent' /\ BanStays'
    BY <1>4 DEF IInv, PairFits, VerdictIsCurrent, BanStays
  <2> QED BY <1>6, <2>7, <2>10, <2>11, <2>12, <2>13, <2>14 DEF IInv, TypeInv
<1>9. CASE /\ Step(i, "fail")
           /\ Write(f, used) \/ UNCHANGED flows
           /\ Keep
  <2> DEFINE r == [w[i] EXCEPT !.pc = "fail"]
  <2>1. r \in Callbacks /\ r.stored = w[i].stored /\ r.token = w[i].token
    BY <1>1 DEF Callbacks
  <2>2. w' = [w EXCEPT ![i] = r]
    BY <1>9 DEF Step, Goto
  <2> HIDE DEF r, f, used
  <2>3. Sound(r, row.edition, issued) /\ r \in Requests
    BY <1>2, <2>1, OneKind DEF Sound, Requests
  <2>4. issued' = issued /\ Grows(issued, issued')
    BY <1>6, <1>9, CredentialsAssumption DEF Keep, Grows
  <2>5. WorkerInv'
    <3>1. row'.edition \in Nat /\ row.edition <= row'.edition /\ Sound(r, row'.edition, issued')
      BY <1>6, <2>3, <2>4
    <3> QED BY <2>2, <2>3, <2>4, <3>1, WorkerStep DEF IInv
  <2>6. NewestInv'
    BY <1>4, <1>5, <2>2, <2>4, NewestStep DEF IInv
  <2>7. FlowInv'
    <3>1. CASE UNCHANGED flows
      BY <2>4, <3>1 DEF IInv, TypeInv, FlowInv, IfAny, Known
    <3>2. CASE Write(f, used)
      <4>1. CASE flows[f].status # "none"
        BY <1>2, <1>3, <1>7, <2>4, <3>2, <4>1, FlowWritten DEF IInv, TypeInv, FlowInv
      <4>2. CASE flows[f].status = "none"
        <5>1. used = flows[f]
          <6>1. flows[f].code = FALSE
            BY <1>2, <1>3, <4>2 DEF IInv, TypeInv, FlowInv, FlowRows
          <6> QED BY <1>3, <6>1 DEF used, FlowRows
        <5>2. UNCHANGED flows
          BY <1>2, <3>2, <5>1 DEF Write, IInv, TypeInv, FlowInv
        <5> QED BY <2>4, <5>2 DEF IInv, TypeInv, FlowInv, IfAny, Known
      <4> QED BY <4>1, <4>2
    <3> QED BY <1>9, <3>1, <3>2
  <2> QED BY <1>4, <1>6, <2>4, <2>5, <2>6, <2>7, FlowStep
<1> QED BY <1>8, <1>9 DEF ExchangeCode

LEMMA CompleteRefreshStep ==
  ASSUME IInv, NEW i \in Workers, CompleteRefresh(i)
  PROVE  IInv'
<1> DEFINE t == w[i].token
           g == t.grant
<1>1. w[i] \in Completes /\ w[i].pc = "refresh" /\ IfAny(t, issued) /\ ~w[i].new
  <2>1. w[i] \in Completes /\ w[i].pc = "refresh"
    BY CompleteAt DEF CompleteRefresh, IInv, TypeInv
  <2> QED BY <2>1 DEF IInv, TypeInv, WorkerInv, Sound
<1>2. \A h : ~HasNewest(w[i], h, issued)
  BY <1>1, OneKind DEF HasNewest
<1>3. UNCHANGED <<row, flows, stale, banned, installs, lost>>
  BY DEF CompleteRefresh
<1>4. CASE Takes(App, t) /\ Step(i, "tx") /\ Keep
  <2> DEFINE r == [w[i] EXCEPT !.pc = "tx"]
  <2>1. r \in Completes /\ r.token = t /\ r.new = w[i].new /\ r.pc = "tx"
    BY <1>1 DEF Completes
  <2>2. w' = [w EXCEPT ![i] = r]
    BY <1>4 DEF Step, Goto
  <2> HIDE DEF r
  <2>3. r \in Requests /\ Sound(r, row.edition, issued)
    BY <1>1, <1>4, <2>1, OneKind DEF Requests, Sound, Takes, IfAny
  <2> QED BY <1>2, <1>3, <1>4, <2>2, <2>3, QuietStep DEF Quiet
<1>5. CASE /\ Takes(App, t) /\ Issue(g)
           /\ Goto(i, [w[i] EXCEPT !.pc = "tx", !.token.ver = issued'[g], !.new = TRUE])
  <2> DEFINE h == Token(g, issued'[g])
             r == [w[i] EXCEPT !.pc = "tx", !.token = h, !.new = TRUE]
  <2>1. /\ t \in Tokens /\ t.ver <= issued[g] /\ g \in Grants
        /\ Grows(issued, issued') /\ IssuedInv' /\ FlowInv' /\ h \in Tokens
        /\ \A k \in Grants : k # g => issued'[k] = issued[k]
    BY <1>1, <1>3, <1>5, IssueStep DEF Takes, IInv, Tokens
  <2>2. w' = [w EXCEPT ![i] = r]
    <3>1. [t EXCEPT !.ver = issued'[g]] = h
      BY <2>1 DEF Tokens, Token
    <3>2. w' = [w EXCEPT ![i] = [w[i] EXCEPT !.pc = "tx", !.token = [t EXCEPT !.ver = issued'[g]],
                                             !.new = TRUE]]
      BY <1>1, <1>5 DEF Goto, Completes
    <3> QED BY <3>1, <3>2
  <2>3. h.grant = g /\ h.ver = issued'[g]
    BY DEF Token
  <2> HIDE DEF h
  <2>4. r \in Completes /\ r.token = h /\ r.new = TRUE /\ r.pc = "tx"
    BY <1>1, <2>1 DEF Completes, Secrets
  <2> HIDE DEF r, t, g
  <2>5. Known(h, issued') /\ HasNewest(r, g, issued')
    BY <2>1, <2>3, <2>4 DEF Known, HasNewest, Grows
  <2>6. ClientOf(h.grant) = App
    BY <1>5, <2>3 DEF Takes, g
  <2>7. r \in Requests /\ Sound(r, row'.edition, issued')
    BY <2>4, <2>5, <2>6, OneKind DEF Requests, Sound, IfAny
  <2>8. WorkerInv'
    <3>1. row'.edition \in Nat /\ row.edition <= row'.edition
      BY <1>3 DEF IInv, TypeInv, RowInv, Rows
    <3> QED BY <2>1, <2>2, <2>7, <3>1, WorkerStep DEF IInv
  <2>9. NewestInv'
    BY <1>2, <1>3, <2>1, <2>2, <2>5, NewestIssued DEF IInv
  <2>10. RowInv'
    BY <1>3, <2>1, KnownKept DEF IInv, TypeInv, RowInv
  <2> QED BY <1>3, <2>1, <2>8, <2>9, <2>10 DEF IInv, TypeInv, PairFits, VerdictIsCurrent, BanStays
<1>6. CASE End(i) /\ Keep
  BY <1>2, <1>3, <1>6, IdleSound, QuietStep DEF End, Goto, Quiet
<1> QED BY <1>3, <1>4, <1>5, <1>6 DEF CompleteRefresh

LEMMA CompleteTxStep ==
  ASSUME IInv, NEW i \in Workers, CompleteTx(i)
  PROVE  IInv'
<1> DEFINE f == w[i].flow
           t == w[i].token
           used == [flows[f] EXCEPT !.status = "consumed", !.secret = NoToken]
<1>1. /\ w[i] \in Completes /\ f \in Flows
      /\ Known(t, issued) /\ ClientOf(t.grant) = App
  <2>1. w[i] \in Completes /\ w[i].pc = "tx"
    BY CompleteAt DEF CompleteTx, IInv, TypeInv
  <2> QED BY <2>1 DEF IInv, TypeInv, WorkerInv, Sound, Completes
<1>2. /\ row \in Rows /\ row.judged <= row.edition /\ row.edition \in Nat /\ row.judged \in Nat
      /\ row.edition + 1 \in Nat
  BY DEF IInv, TypeInv, RowInv, Rows
<1>3. /\ w' = [w EXCEPT ![i] = Idle] /\ issued' = issued /\ UNCHANGED banned
  BY DEF CompleteTx, End, Goto, Keep
<1>4. Grows(issued, issued')
  BY <1>3, CredentialsAssumption DEF IInv, TypeInv, IssuedInv, Grows
<1>5. CASE /\ row.live /\ Consumable(f)
           /\ UpdateMailAccountAuthorization(t)
           /\ ConsumeOAuthAuthorization(f)
           /\ installs' = [installs EXCEPT ![f] = @ + 1]
           /\ Outdated(If(issued[t.grant] # t.ver, "token"))
           /\ UNCHANGED lost
  <2>1. row' = [row EXCEPT !.client = App, !.token = t, !.channel = Graph, !.result = "success",
                           !.health = "unknown", !.edition = row.edition + 1]
    BY <1>2, <1>5 DEF UpdateMailAccountAuthorization, Set, Rows
  <2>2. t \in Secrets /\ Graph \in Channels
    BY <1>1, CredentialsAssumption DEF Known, Secrets
  <2> HIDE DEF t, f
  <2>3. /\ row' \in Rows /\ row'.live = row.live /\ row'.client = App /\ row'.token = t
        /\ row'.health = "unknown" /\ row'.edition = row.edition + 1 /\ row'.judged = row.judged
        /\ row'.status = row.status
    BY <1>2, <2>1, <2>2 DEF Rows, Clients
  <2>4. RowInv'
    BY <1>1, <1>2, <1>3, <1>5, <2>3 DEF RowInv
  <2>5. FlowInv'
    <3>1. flows[f] \in FlowRows /\ flows[f].status = "exchanged"
      BY <1>1, <1>5 DEF Consumable, IInv, TypeInv, FlowInv
    <3>2. /\ used \in FlowRows /\ used.status = "consumed" /\ used.secret = NoToken
          /\ used.code = flows[f].code
      BY <3>1 DEF FlowRows, Secrets
    <3>3. Write(f, used)
      BY <1>5 DEF ConsumeOAuthAuthorization
    <3> HIDE DEF used
    <3> QED BY <1>1, <1>3, <3>2, <3>3, FlowWritten DEF IInv, IfAny
  <2>6. WorkerInv'
    <3>1. row'.edition \in Nat /\ row.edition <= row'.edition
      BY <1>2, <2>3
    <3> QED BY <1>3, <1>4, <3>1, IdleSound, WorkerStep DEF IInv
  <2>7. IssuedInv' /\ installs' \in [Flows -> Nat]
    BY <1>1, <1>3, <1>5 DEF IInv, TypeInv, IssuedInv
  <2>8. NewestInv'
    BY <1>3, <1>5, <2>3 DEF NewestInv, Outdated, If
  <2>9. PairFits' /\ VerdictIsCurrent'
    BY <1>1, <2>3 DEF PairFits, VerdictIsCurrent
  <2>10. BanStays'
    BY <1>3, <1>5, <2>3, OutdatedGrows DEF IInv, BanStays
  <2> QED BY <2>4, <2>5, <2>6, <2>7, <2>8, <2>9, <2>10 DEF IInv, TypeInv
<1>6. CASE /\ lost' = lost \union If(w[i].new, t.grant)
           /\ UNCHANGED <<row, flows, installs, stale>>
  <2>1. FlowInv' /\ installs' \in [Flows -> Nat]
    BY <1>3, <1>6 DEF IInv, TypeInv, FlowInv, IfAny, Known
  <2>2. WorkerInv'
    <3>1. row'.edition \in Nat /\ row.edition <= row'.edition
      BY <1>2, <1>6
    <3> QED BY <1>3, <1>4, <3>1, IdleSound, WorkerStep DEF IInv
  <2>3. NewestInv'
    <3>1. \A g : HasNewest(w[i], g, issued) => g \in lost'
      BY <1>1, <1>6, OneKind DEF HasNewest, If
    <3> QED BY <1>3, <1>6, <3>1, NewestStep DEF IInv
  <2>4. RowInv' /\ IssuedInv'
    BY <1>3, <1>6 DEF IInv, TypeInv, RowInv, IssuedInv
  <2>5. PairFits' /\ VerdictIsCurrent' /\ BanStays'
    BY <1>3, <1>6 DEF IInv, PairFits, VerdictIsCurrent, BanStays
  <2> QED BY <2>1, <2>2, <2>3, <2>4, <2>5 DEF IInv, TypeInv
<1> QED BY <1>5, <1>6 DEF CompleteTx

\* Whoever has the newest token of a grant holds it in the sense of Held.
LEMMA NewestHeld ==
  ASSUME NEW i \in Workers, NEW g, HasNewest(w[i], g, issued)
  PROVE  g \in Held(i)
<1>1. CASE w[i] \in Calls
  BY <1>1, OneKind DEF HasNewest, Held, Calls
<1>2. CASE w[i] \in Completes
  BY <1>2, OneKind DEF HasNewest, Held, Completes, CallOps
<1> QED BY <1>1, <1>2 DEF HasNewest

LEMMA CrashStep ==
  ASSUME IInv, Crash
  PROVE  IInv'
<1>1. /\ w' = [i \in Workers |-> Idle] /\ lost' = lost \union UNION {Held(i) : i \in Workers}
      /\ UNCHANGED <<row, flows, issued, stale, banned, installs>>
  BY DEF Crash
<1>2. WorkerInv'
  BY <1>1, IdleSound DEF WorkerInv
<1>3. NewestInv'
  <2>1. ASSUME NEW g, NEW i \in Workers, HasNewest(w[i], g, issued) PROVE g \in lost'
    BY <1>1, <2>1, NewestHeld
  <2> QED BY <1>1, <2>1 DEF IInv, NewestInv
<1>4. RowInv' /\ FlowInv' /\ IssuedInv' /\ installs' \in [Flows -> Nat]
  BY <1>1 DEF IInv, TypeInv, RowInv, FlowInv, IssuedInv, IfAny, Known
<1>5. PairFits' /\ VerdictIsCurrent' /\ BanStays'
  BY <1>1 DEF IInv, PairFits, VerdictIsCurrent, BanStays
<1> QED BY <1>2, <1>3, <1>4, <1>5 DEF IInv, TypeInv

-----------------------------------------------------------------------------
(* The invariant holds.                                                    *)

LEMMA InitInv == Init => IInv
<1> SUFFICES ASSUME Init PROVE IInv
  OBVIOUS
<1> USE CredentialsAssumption
<1>1. issued = [g \in Grants |-> IF g \in Flows THEN 0 ELSE 1]
  BY DEF Init
<1>2. IssuedInv
  BY <1>1 DEF IssuedInv, Grants
<1>3. Own \in Grants /\ issued[Own] = 1 /\ Token(Own, 1) \in Tokens
      /\ Token(Own, 1).grant = Own /\ Token(Own, 1).ver = 1 /\ Known(Token(Own, 1), issued)
  BY <1>1 DEF Grants, Tokens, Token, Known
<1>4. row = [live |-> TRUE, client |-> Own, token |-> Token(Own, 1), status |-> "active",
             health |-> "unknown", channel |-> Graph, result |-> "never",
             edition |-> 0, judged |-> 0]
  BY DEF Init
<1>5. RowInv
  <2>1. row \in Rows
    BY <1>3, <1>4 DEF Rows, Clients, Secrets, Marks
  <2> QED BY <1>3, <1>4, <2>1 DEF RowInv
<1>6. FlowInv
  <2>1. flows = [f \in Flows |-> NoFlow]
    BY DEF Init
  <2>2. \A f \in Flows : issued[f] = 0
    BY <1>1 DEF Grants
  <2> QED BY <2>1, <2>2, NoFlowType DEF FlowInv, IfAny
<1>7. WorkerInv
  BY IdleSound DEF Init, WorkerInv
<1>8. installs \in [Flows -> Nat]
  BY DEF Init
<1>9. NewestInv /\ VerdictIsCurrent /\ BanStays
  BY <1>3, <1>4 DEF Init, NewestInv, VerdictIsCurrent, BanStays
<1>10. PairFits
  BY <1>3, <1>4 DEF PairFits, ClientOf
<1> QED BY <1>2, <1>5, <1>6, <1>7, <1>8, <1>9, <1>10 DEF IInv, TypeInv

LEMMA StepInv == IInv /\ [Next]_vars => IInv'
<1> SUFFICES ASSUME IInv, [Next]_vars PROVE IInv'
  OBVIOUS
<1>1. ASSUME NEW i \in Workers, Call(i) PROVE IInv'
  BY <1>1, CredentialStep, RecordLocalFailureStep, CancelStep, FetchTokenStep, OnTokenRotatedStep,
     MailboxStep, AbandonedStep, NextChannelStep, OnChannelFailureStep, WriteResultStep,
     MarkBannedStep, OnChannelSuccessStep DEF Call
<1>2. ASSUME NEW i \in Workers, Edit(i) PROVE IInv'
  BY <1>2, UpdateBeginStep, UpdateTxStep DEF Edit
<1>3. ASSUME NEW i \in Workers, Reauthorise(i) PROVE IInv'
  BY <1>3, CallbackFlowStep, CompleteBeginStep, ExchangeCodeStep, ExchangeMarkStep,
     RecordOAuthFailureStep, CompleteRefreshStep, CompleteTxStep DEF Reauthorise
<1>4. ASSUME NEW s \in {"active", "banned"}, BatchStatus(s) PROVE IInv'
  BY <1>4, BatchStatusStep
<1>5. CASE Delete
  BY <1>5, DeleteStep
<1>6. ASSUME NEW f \in Flows, Start(f) \/ Expire(f) PROVE IInv'
  BY <1>6, StartStep, ExpireStep
<1>7. CASE Crash
  BY <1>7, CrashStep
<1>8. CASE UNCHANGED vars
  BY <1>8 DEF vars, IInv, TypeInv, RowInv, FlowInv, IssuedInv, WorkerInv, NewestInv, PairFits,
              VerdictIsCurrent, BanStays, IfAny, Known
<1> QED BY <1>1, <1>2, <1>3, <1>4, <1>5, <1>6, <1>7, <1>8 DEF Next

\* What the row, the flows and the requests under way hold agrees at every step.
THEOREM Inductive == Spec => []IInv
BY InitInv, StepInv, PTL DEF Spec

\* The columns keep to their values, a flow keeps its token only until it is consumed.
THEOREM TypeCorrect == Spec => []TypeOK
<1>1. IInv => TypeOK
  <2> SUFFICES ASSUME IInv PROVE TypeOK
    OBVIOUS
  <2>1. row \in Rows /\ row.judged <= row.edition /\ issued \in [Grants -> 0..MaxIssued]
    BY DEF IInv, TypeInv, RowInv, IssuedInv
  <2>2. ASSUME NEW f \in Flows
        PROVE  /\ flows[f] \in FlowRows
               /\ (flows[f].secret # NoToken) => flows[f].status \in {"exchanged", "failed"}
    BY DEF IInv, TypeInv, FlowInv
  <2> QED BY <2>1, <2>2 DEF TypeOK, Rows, FlowRows, Clients, Secrets, Marks
<1> QED BY <1>1, Inductive, PTL

\* Deleted, an account has no secrets, and nothing under way brings one back.
THEOREM SecretsStayGone == Spec => []SecretsGone
<1>1. IInv => SecretsGone
  BY DEF IInv, TypeInv, RowInv, SecretsGone
<1> QED BY <1>1, Inductive, PTL

\* Pair, token, verdict and ban are in order unless a request wrote on the strength of
\* an outdated read, or the token was lost on the way.
THEOREM Explained == Spec => []CredentialsExplained
<1>1. IInv => CredentialsExplained
  <2> SUFFICES ASSUME IInv PROVE NewestIsKept
    BY DEF IInv, CredentialsExplained
  <2> QED BY NewestHeld DEF IInv, NewestInv, NewestIsKept
<1> QED BY <1>1, Inductive, PTL

-----------------------------------------------------------------------------
(* Credentials implements OAuthFlow.                                       *)

\* Writing a flow moves its status, and that of no other.
LEMMA StatusWritten ==
  ASSUME TypeInv, NEW f \in Flows, NEW new, Write(f, new)
  PROVE  [g \in Flows |-> flows'[g].status]
           = [[g \in Flows |-> flows[g].status] EXCEPT ![f] = new.status]
BY DEF TypeInv, FlowInv, Write

LEMMA FlowStutters ==
  ASSUME UNCHANGED <<flows, installs>>
  PROVE  UNCHANGED Flow!vars
BY DEF Flow!vars

\* Writing something else than the status is no step of OAuthFlow.
LEMMA StatusKept ==
  ASSUME TypeInv, NEW f \in Flows, NEW new, Write(f, new), new.status = flows[f].status,
         UNCHANGED installs
  PROVE  UNCHANGED Flow!vars
BY StatusWritten DEF Flow!vars

\* What becomes of a flow is a step OAuthFlow allows: an authorisation reaches the
\* account once, in the step that consumes it, whatever callbacks, completions,
\* expiry and crashes run at the same time.
THEOREM Implements == Spec => FlowSpec
<1> DEFINE FlowNext == Flow!Next \/ UNCHANGED Flow!vars
           status == [f \in Flows |-> flows[f].status]
<1>1. Init => Flow!Init
  BY NoFlowType DEF Init, Flow!Init
<1>2. IInv /\ [Next]_vars => [Flow!Next]_(Flow!vars)
  <2> SUFFICES ASSUME IInv, [Next]_vars PROVE FlowNext
    OBVIOUS
  <2>1. ASSUME NEW i \in Workers, Call(i) PROVE UNCHANGED <<flows, installs>>
    BY <2>1 DEF Call, Credential, RecordLocalFailure, Cancel, FetchToken, OnTokenRotated, Mailbox,
                Abandoned, NextChannel, OnChannelFailure, WriteResult, MarkBanned,
                OnChannelSuccess, Told, Quiet
  <2>2. ASSUME NEW i \in Workers, Edit(i) PROVE UNCHANGED <<flows, installs>>
    BY <2>2 DEF Edit, UpdateBegin, UpdateTx, Told, Quiet
  <2>3. ASSUME NEW i \in Workers, Reauthorise(i) PROVE FlowNext
    <3>1. ASSUME NEW f \in Flows, CallbackFlow(i, f) \/ CompleteBegin(i, f)
          PROVE  UNCHANGED <<flows, installs>>
      BY <3>1 DEF CallbackFlow, CompleteBegin, Quiet
    <3>2. CASE CompleteRefresh(i)
      BY <3>2, FlowStutters DEF CompleteRefresh
    <3>3. CASE ExchangeCode(i)
      <4> DEFINE f == w[i].flow
      <4>1. f \in Flows /\ flows[f] \in FlowRows
        BY <3>3, CallbackAt DEF ExchangeCode, IInv, TypeInv, FlowInv, Callbacks
      <4>2. /\ Write(f, [flows[f] EXCEPT !.code = FALSE]) \/ UNCHANGED flows
            /\ UNCHANGED installs
        BY <3>3 DEF ExchangeCode
      <4>3. [flows[f] EXCEPT !.code = FALSE].status = flows[f].status
        BY <4>1 DEF FlowRows
      <4> HIDE DEF f
      <4> QED BY <4>1, <4>2, <4>3, StatusKept, FlowStutters DEF IInv
    <3>4. CASE ExchangeMark(i)
      <4>0. PICK f \in Flows : f = w[i].flow
        BY <3>4, CallbackAt DEF ExchangeMark, IInv, TypeInv, Callbacks
      <4> DEFINE new == [flows[f] EXCEPT !.status = "exchanged", !.secret = w[i].token]
      <4>1. flows[f] \in FlowRows
        BY DEF IInv, TypeInv, FlowInv
      <4>2. new.status = "exchanged"
        BY <4>1 DEF FlowRows
      <4>3. /\ (flows[f].status = "started" /\ Write(f, new)) \/ UNCHANGED flows
            /\ UNCHANGED installs
        BY <3>4, <4>0 DEF ExchangeMark, MarkOAuthAuthorizationExchanged
      <4> HIDE DEF new
      <4>4. CASE UNCHANGED flows
        BY <4>3, <4>4, FlowStutters
      <4>5. CASE flows[f].status = "started" /\ Write(f, new)
        <5>1. Flow!Exchange(f)
          BY <4>1, <4>2, <4>3, <4>5, StatusWritten DEF IInv, Flow!Exchange, Flow!Move
        <5> QED BY <4>1, <5>1 DEF Flow!Next
      <4> QED BY <4>3, <4>4, <4>5
    <3>5. CASE RecordOAuthFailure(i)
      <4>0. PICK f \in Flows : f = w[i].flow
        BY <3>5, CallbackAt DEF RecordOAuthFailure, IInv, TypeInv, Callbacks
      <4> DEFINE new == [flows[f] EXCEPT !.status = "failed"]
      <4>1. flows[f] \in FlowRows
        BY DEF IInv, TypeInv, FlowInv
      <4>2. new.status = "failed"
        BY <4>1 DEF FlowRows
      <4>3. /\ (flows[f].status \in {"started", "exchanged"} /\ Write(f, new)) \/ UNCHANGED flows
            /\ UNCHANGED installs
        BY <3>5, <4>0 DEF RecordOAuthFailure, MarkOAuthAuthorizationFailed
      <4> HIDE DEF new
      <4>4. CASE UNCHANGED flows
        BY <4>3, <4>4, FlowStutters
      <4>5. CASE flows[f].status \in {"started", "exchanged"} /\ Write(f, new)
        <5>1. Flow!Fail(f)
          BY <4>1, <4>2, <4>3, <4>5, StatusWritten DEF IInv, Flow!Fail, Flow!Move, Flow!Open
        <5> QED BY <4>1, <5>1 DEF Flow!Next
      <4> QED BY <4>3, <4>4, <4>5
    <3>6. CASE CompleteTx(i)
      <4>0. PICK f \in Flows : f = w[i].flow
        BY <3>6, CompleteAt DEF CompleteTx, IInv, TypeInv, Completes
      <4> DEFINE new == [flows[f] EXCEPT !.status = "consumed", !.secret = NoToken]
      <4>1. flows[f] \in FlowRows
        BY DEF IInv, TypeInv, FlowInv
      <4>2. new.status = "consumed"
        BY <4>1 DEF FlowRows
      <4>3. \/ UNCHANGED <<flows, installs>>
            \/ /\ flows[f].status = "exchanged" /\ Write(f, new)
               /\ installs' = [installs EXCEPT ![f] = @ + 1]
        BY <3>6, <4>0 DEF CompleteTx, Consumable, ConsumeOAuthAuthorization
      <4> HIDE DEF new
      <4>4. CASE UNCHANGED <<flows, installs>>
        BY <4>4, FlowStutters
      <4>5. CASE /\ flows[f].status = "exchanged" /\ Write(f, new)
                 /\ installs' = [installs EXCEPT ![f] = @ + 1]
        <5>1. Flow!Install(f)
          BY <4>1, <4>2, <4>5, StatusWritten DEF IInv, Flow!Install, Flow!Move
        <5> QED BY <4>1, <5>1 DEF Flow!Next
      <4> QED BY <4>3, <4>4, <4>5
    <3> QED BY <2>3, <3>1, <3>2, <3>3, <3>4, <3>5, <3>6, FlowStutters DEF Reauthorise
  <2>4. ASSUME NEW s \in {"active", "banned"}, BatchStatus(s) PROVE UNCHANGED <<flows, installs>>
    BY <2>4 DEF BatchStatus, Told
  <2>5. CASE Delete \/ Crash \/ UNCHANGED vars
    BY <2>5, FlowStutters DEF Delete, Told, Crash, vars
  <2>6. ASSUME NEW f \in Flows, Expire(f) PROVE UNCHANGED Flow!vars
    <3> DEFINE new == [flows[f] EXCEPT !.expired = TRUE]
    <3>1. new.status = flows[f].status
      BY DEF IInv, TypeInv, FlowInv, FlowRows
    <3>2. Write(f, new) /\ UNCHANGED installs
      BY <2>6 DEF Expire, Write
    <3> HIDE DEF new
    <3> QED BY <3>1, <3>2, StatusKept DEF IInv
  <2>7. ASSUME NEW f \in Flows, Start(f) PROVE FlowNext
    <3>0. PICK old \in SUBSET Flows : old = {g \in Flows : flows[g].expired}
      OBVIOUS
    <3> DEFINE purged == [NoFlow EXCEPT !.status = "purged"]
               new == CreateOAuthAuthorization
    <3>1. /\ flows[f].status = "none" /\ UNCHANGED installs
          /\ flows' = [g \in Flows |-> IF g = f THEN new
                                       ELSE IF ~flows[g].expired THEN flows[g] ELSE purged]
      BY <2>7 DEF Start, DeleteExpiredOAuthAuthorizations, Unexpired
    <3>2. purged.status = "purged" /\ new.status = "started"
      BY NoFlowType
    <3> HIDE DEF purged, new
    <3>3. \A g \in old : status[g] # "none"
      BY <3>0 DEF IInv, TypeInv, FlowInv
    <3>4. [g \in Flows |-> flows'[g].status]
            = [g \in Flows |-> IF g = f THEN "started" ELSE IF g \in old THEN "purged" ELSE status[g]]
      <4>1. \A g \in Flows : flows'[g].status = IF g = f THEN "started"
                                               ELSE IF g \in old THEN "purged" ELSE flows[g].status
        BY <3>0, <3>1, <3>2
      <4> QED BY <4>1
    <3>5. Flow!Start(f, old)
      BY <3>1, <3>3, <3>4 DEF Flow!Start
    <3> QED BY <3>5 DEF Flow!Next
  <2> QED BY <2>1, <2>2, <2>3, <2>4, <2>5, <2>6, <2>7, FlowStutters DEF Next
<1>3. QED
  BY <1>1, <1>2, Inductive, PTL DEF Spec, FlowSpec, Flow!Spec

\* However often callback and completion are repeated, a flow is installed at most
\* once, and one that was installed is consumed, or purged since.
THEOREM InstalledOnce ==
  Spec => [](\A f \in Flows : /\ installs[f] \in {0, 1}
                              /\ installs[f] = 1 => flows[f].status \in {"consumed", "purged"})
<1> DEFINE status == [f \in Flows |-> flows[f].status]
           Once1 == /\ installs \in [Flows -> {0, 1}]
                    /\ \A f \in Flows : installs[f] = 1 => status[f] \in {"consumed", "purged"}
<1>1. Flow!Init => Once1
  BY DEF Flow!Init
<1>2. Once1 /\ [Flow!Next]_(Flow!vars) => Once1'
  <2> SUFFICES ASSUME Once1, Flow!Next \/ UNCHANGED Flow!vars PROVE Once1'
    OBVIOUS
  <2>1. ASSUME NEW f \in Flows, Flow!Exchange(f) PROVE Once1'
    BY <2>1 DEF Flow!Exchange, Flow!Move
  <2>2. ASSUME NEW f \in Flows, Flow!Fail(f) PROVE Once1'
    BY <2>2 DEF Flow!Fail, Flow!Move, Flow!Open
  <2>3. ASSUME NEW f \in Flows, Flow!Install(f) PROVE Once1'
    <3>1. /\ status[f] = "exchanged" /\ status' = [status EXCEPT ![f] = "consumed"]
          /\ installs' = [installs EXCEPT ![f] = installs[f] + 1]
      BY <2>3 DEF Flow!Install, Flow!Move
    <3>2. \A g \in Flows : status'[g] = IF g = f THEN "consumed" ELSE status[g]
      BY <3>1
    <3> HIDE DEF status
    <3>3. installs[f] = 0
      BY <3>1
    <3>4. installs' = [installs EXCEPT ![f] = 1]
      BY <3>1, <3>3
    <3> QED BY <3>2, <3>4
  <2>4. ASSUME NEW f \in Flows, NEW old, Flow!Start(f, old) PROVE Once1'
    <3>1. /\ installs' = installs /\ status[f] = "none"
          /\ status' = [g \in Flows |-> IF g = f THEN "started"
                                        ELSE IF g \in old THEN "purged" ELSE status[g]]
      BY <2>4 DEF Flow!Start
    <3> HIDE DEF status
    <3> QED BY <3>1
  <2>5. CASE UNCHANGED Flow!vars
    BY <2>5 DEF Flow!vars
  <2> QED BY <2>1, <2>2, <2>3, <2>4, <2>5 DEF Flow!Next
<1>3. Once1 => \A f \in Flows : /\ installs[f] \in {0, 1}
                                /\ installs[f] = 1 => flows[f].status \in {"consumed", "purged"}
  OBVIOUS
<1> QED BY <1>1, <1>2, <1>3, Implements, PTL DEF FlowSpec, Flow!Spec
=============================================================================
