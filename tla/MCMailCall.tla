----------------------------- MODULE MCMailCall -----------------------------
(* Small instances of MailCall for TLC. *)
EXTENDS MailCall

Account(e, p, t, w, i, c, k, h, n) ==
  [email |-> e, provider |-> p, type |-> t, password |-> w, imapPassword |-> i,
   client |-> c, token |-> k, host |-> h, port |-> Text(n)]

\* An account may be made by hand, with any provider, type and server.
AllAccounts ==
  {Account(e, p, t, w, i, c, k, h, n) :
     e \in DOMAIN Providers, p \in DOMAIN Providers, t \in {"outlook", "imap"},
     w \in {Empty, Text("pw"), Text("pw "), Dashed("pw"), Text("p----w")},
     i \in {Empty, Text("app")}, c \in {Empty, Text("own_client"), Text("google")},
     k \in {Empty, Text("rt"), Text("uuid_token")},
     h \in {Empty, Text("imap.live"), Text("imap.qq"), Text("localhost"), Dashed("mail.own")},
     n \in {"993"}}

SomeCallers ==
  LET Outlook == Account("outlook", "outlook", "outlook", Empty, Empty, Text("own_client"),
                         Text("rt"), Text("imap.live"), "993")
      Gmail   == Account("gmail", "gmail", "imap", Empty, Empty, Text("google"),
                         Text("rt"), Text("imap.gmail"), "993")
      Own     == Account("custom", "custom", "imap", Text("pw"), Empty, Empty,
                         Empty, Text("mail.own"), "993")
  IN  {[row |-> Outlook, last |-> l] : l \in {"none", "imap_old"}}
      \union {[row |-> a, last |-> "none"] :
                a \in {Gmail, Own, [Gmail EXCEPT !.client = Empty], [Outlook EXCEPT !.token = Empty],
                       [Own EXCEPT !.password = Empty], [Own EXCEPT !.host = Empty]}}

\* The operations that are no batches.
Readings      == {"list", "all", "detail", "refresh", "transfer"}
AllOperations == Readings \union Batches

CONSTANTS p1, p2, p3
SomeConfigs == {<<Direct, Direct, Direct>>, <<Direct, p2, Direct>>, <<p3, Direct, Direct>>, <<p1, p1, p2>>}
FourNatures == {"flaky", "refuses", "httponly", "illegal"}

CONSTANTS m1, m2, m3, other
ThreeMessages == <<m1, m2, m3>>
TwoFolders == [m \in {m1, m2, m3, other} |-> IF m = m2 THEN "junk" ELSE "inbox"]

\* What comes before the work on the mailbox is the same for each operation: the proxies are
\* left to the readings, and the batches do without.
NoProxy == <<Direct, Direct, Direct>>
InstanceInit ==
  /\ Init
  /\ op \in Batches => own = NoProxy /\ group = NoProxy
Instance == InstanceInit /\ [][Next]_vars
=============================================================================
