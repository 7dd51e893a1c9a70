------------------------------ MODULE Transfer ------------------------------
(***************************************************************************)
(* The text form of an account (pkg/mailer: importer.go, exporter.go and   *)
(* provider.go) and what an account logs in with (chain.go, imapx,         *)
(* service/mail_chain.go).                                                 *)
(*                                                                         *)
(* A field of a line is a record: a core, which is all that the parser's   *)
(* tests of form look at, between the dashes it begins and ends with.  An  *)
(* address is known by the provider its domain stands for.                 *)
(***************************************************************************)
EXTENDS Naturals, Sequences, FiniteSetsExt

Text(c) == [core |-> c, lead |-> 0, trail |-> 0]
Dashed(c) == [Text(c) EXCEPT !.trail = 1]
Empty == Text("")

\* The shapes the parser tells apart; "google" is the client id of a Google application.
UUIDs     == {"ms_client", "own_client", "uuid_token"}
HostNames == {"imap.live", "imap.gmail", "imap.qq", "mail.own", "google"}
Ports     == {"993", "143"}
Separated == {"p----w"}
Untrimmed == [c \in {"pw "} |-> "pw"]

DefaultMicrosoftOAuthClientID == Text("ms_client")
DefaultIMAPPort == Text("993")

-----------------------------------------------------------------------------
(* provider.go *)

Provider(code, host, type) == [code |-> code, host |-> Text(host), type |-> type]

Providers ==
  [outlook |-> Provider("outlook", "imap.live", "outlook"),
   gmail   |-> Provider("gmail", "imap.gmail", "imap"),
   qq      |-> Provider("qq", "imap.qq", "imap"),
   custom  |-> Provider("custom", "", "imap")]

\* A domain the table does not list is the custom provider's.
ProviderForEmail(email) == Providers[email]

-----------------------------------------------------------------------------
(* importer.go *)

isProbableClientID(f) == f.core \in UUIDs /\ f.lead = 0 /\ f.trail = 0
looksLikeHost(f)      == f.core \in HostNames
isPort(f)             == f.core \in Ports /\ f.lead = 0 /\ f.trail = 0

\* A line is cut at the leftmost separators, so the dashes a field ends with go
\* to the next one; fields are trimmed and the empty ones at the end dropped.
splitFields(line) ==
  LET n == Len(line)
      moved[i \in 1..n] ==
        IF i = 1 THEN 0
        ELSE line[i - 1].trail
             + (IF line[i - 1].core = "" THEN line[i - 1].lead + moved[i - 1] ELSE 0)
      Kept(i) == IF line[i].core = "" /\ i < n THEN 0 ELSE line[i].lead + moved[i]
      Trim(c) == IF c \in DOMAIN Untrimmed THEN Untrimmed[c] ELSE c
      cut == [i \in 1..n |-> [core  |-> Trim(line[i].core),
                              lead  |-> Kept(i),
                              trail |-> IF i < n THEN 0 ELSE line[i].trail]]
      filled == {i \in 1..n : cut[i] # Empty}
  IN  IF filled = {} THEN <<>> ELSE SubSeq(cut, 1, Max(filled))

\* Every third field is a client id here: four fields are custom IMAP.
detectFormat_any(parts) ==
  IF Len(parts) < 4 THEN "imap"
  ELSE IF ~isProbableClientID(parts[3]) /\ looksLikeHost(parts[3])
       THEN "custom_imap" ELSE "outlook_oauth"

detectFormat(parts) ==
  IF Len(parts) < 4 THEN "imap"
  ELSE IF ~isProbableClientID(parts[3]) /\ looksLikeHost(parts[3]) /\ isPort(parts[4])
       THEN "custom_imap" ELSE "outlook_oauth"

Refused == [ok |-> FALSE]

Parsed(email, password, client, token, host, port, provider, type) ==
  [ok |-> TRUE, email |-> email, password |-> password, imapPassword |-> Empty,
   client |-> client, token |-> token, host |-> host, port |-> port,
   provider |-> provider, type |-> type]

parseIMAP(email, parts) ==
  LET p == ProviderForEmail(email) IN
  IF parts[2] = Empty \/ p.code = "custom" THEN Refused
  ELSE Parsed(email, parts[2], Empty, Empty, p.host, DefaultIMAPPort, p.code, p.type)

parseCustomIMAP(email, parts, opts) ==
  LET Given(i) == Len(parts) >= i /\ parts[i] # Empty
      host == IF Given(3) THEN parts[3] ELSE opts.host
      port == IF Given(4) THEN parts[4] ELSE DefaultIMAPPort
  IN  IF parts[2] = Empty \/ ~isPort(port) \/ host = Empty THEN Refused
      ELSE Parsed(email, parts[2], Empty, Empty, host, port, "custom", "imap")

parseOutlookOAuth(email, parts, opts) ==
  LET p == ProviderForEmail(email)
      a == parts[3]  b == parts[4]
      clientFirst == IF isProbableClientID(a) # isProbableClientID(b)
                     THEN isProbableClientID(a) ELSE opts.clientIDFirst
      client == IF clientFirst THEN a ELSE b
      token  == IF clientFirst THEN b ELSE a
  IN  IF Len(parts) < 4 THEN Refused
      ELSE IF token = Empty THEN Refused
      ELSE Parsed(email, parts[2],
                  IF client = Empty /\ p.code = "outlook"
                    THEN DefaultMicrosoftOAuthClientID ELSE client,
                  token,
                  IF p.code = "gmail" THEN p.host ELSE Providers["outlook"].host,
                  DefaultIMAPPort,
                  IF p.code = "custom" THEN "outlook" ELSE p.code,
                  IF p.code = "gmail" THEN "imap" ELSE "outlook")

ParseLine(line, opts) ==
  LET parts  == splitFields(line)
      format == IF opts.format = "auto" THEN detectFormat(parts) ELSE opts.format
  IN  IF Len(parts) < 2 \/ parts[1].core \notin DOMAIN Providers THEN Refused
      ELSE CASE format = "imap"          -> parseIMAP(parts[1].core, parts)
             [] format = "custom_imap"   -> parseCustomIMAP(parts[1].core, parts, opts)
             [] format = "outlook_oauth" -> parseOutlookOAuth(parts[1].core, parts, opts)
             [] OTHER                    -> Refused

-----------------------------------------------------------------------------
(* exporter.go.  Export leaves the provider and the type of the account out. *)

exportFields(a) ==
  LET p == ProviderForEmail(a.email)
      password == IF a.password # Empty THEN a.password ELSE a.imapPassword
  IN  IF a.token # Empty THEN <<Text(a.email), password, a.client, a.token>>
      ELSE IF password = Empty THEN <<>>
      ELSE IF p.code # "custom" /\ p.host = a.host /\ a.port = DefaultIMAPPort
           THEN <<Text(a.email), password>>
      ELSE IF a.host = Empty THEN <<>>
      ELSE <<Text(a.email), password, a.host, a.port>>

\* The line, or <<>> when the account is left out of the file.
FormatLine(a) ==
  LET fields == exportFields(a) IN
  IF \E i \in DOMAIN fields : fields[i].core \in Separated THEN <<>> ELSE fields

-----------------------------------------------------------------------------
(* What a call logs in with. *)

\* The channels of an account, in the order they are tried: the last good one first.
ChannelOrder(a, last) ==
  IF a.provider = "gmail" /\ a.token # Empty THEN <<"imap_gmail">>
  ELSE IF a.type # "outlook" THEN <<"imap">>
  ELSE CASE last = "imap_new" -> <<"imap_new", "graph", "imap_old">>
         [] last = "imap_old" -> <<"imap_old", "graph", "imap_new">>
         [] OTHER             -> <<"graph", "imap_new", "imap_old">>

\* The server of the password channel; the OAuth channels have one each.
imapServer(a) == IF a.host # Empty THEN a.host ELSE ProviderForEmail(a.email).host

Login(a) ==
  IF ChannelOrder(a, "graph") = <<"imap">>
  THEN [host |-> imapServer(a), port |-> a.port,
        password |-> IF a.imapPassword # Empty THEN a.imapPassword ELSE a.password]
  ELSE [channels |-> ChannelOrder(a, "graph"), token |-> a.token,
        client |-> IF a.client = Empty /\ a.provider # "gmail"
                   THEN DefaultMicrosoftOAuthClientID ELSE a.client]
=============================================================================
