--------------------------- MODULE MailCallProofs ---------------------------
(***************************************************************************)
(* Theorems about MailCall, for any accounts, proxies, messages, chunks    *)
(* and retries.                                                            *)
(***************************************************************************)
EXTENDS MailCall, SequenceTheorems, WellFoundedInduction, NaturalsInduction, TLAPS

-----------------------------------------------------------------------------
(* The inductive invariants.                                               *)

Connected == {"open", "token", "login", "work"}
Phases    == {"export", "pick", "done"} \union Connected
Ops       == {"list", "all", "detail", "refresh", "transfer"} \union Batches
Tried     == [channel : Channels, kind : Kinds]
Verdicts  == [ok : BOOLEAN, kind : Kinds \union {"none", "left_out"}, channel : Channels \union {"none"}]

\* Something has come of a channel, or of the whole.
Judged(v) == v \in Verdicts /\ (v.ok \/ v.kind \in Kinds)

\* The chain is on a channel and a candidate, and whatever has ended has a reason.
ChainInv ==
  /\ op \in Ops /\ phase \in Phases /\ (phase = "export" => op = "transfer")
  /\ order \in Seq(Channels) /\ IsInjective(order) /\ (phase # "done" => order # <<>>)
  /\ cands \in Seq(ToSet(AllCandidates)) /\ (phase \in Connected => cands # <<>>)
  /\ EndOf(scope, Scopes) /\ scope # <<>>
  /\ tries \in 0..MaxRetries
  /\ attempts \in Seq(Tried)
  /\ first = NoVerdict \/ Judged(first)
  /\ verdict \in Verdicts
  /\ phase = "done" => Judged(verdict) \/ verdict.kind = "left_out"

\* The messages still to treat are named ones, and only messages are touched.
WorkInv ==
  /\ EndOf(rest, Asked)
  /\ singles \in Seq(ToSet(Asked)) /\ Len(singles) <= Chunk
  /\ report \in [ToSet(Asked) -> {"none", "ok", "failed"}]
  /\ names \in Naming /\ (ids = "graph" => \A m \in ToSet(Asked) : names[m] = m)
  /\ done \subseteq Messages /\ unheard \subseteq done /\ flagged \subseteq Messages

\* A candidate that was passed over could not be reached.
Crossed(p) == p = Direct \/ nature[p] = "flaky" \/ (nature[p] = "httponly" /\ OverHTTP)

\* The candidates left are the end of the list, and those before them were passed over; past
\* the token no proxy is in use that refuses.
ProxyInv ==
  /\ phase \in Connected =>
       \E n \in 0..Len(AllCandidates) - 1 :
         /\ cands = SubSeq(AllCandidates, n + 1, Len(AllCandidates))
         /\ \A i \in 1..n : Crossed(AllCandidates[i])
  /\ phase = "token" => Crossed(proxy) \/ NatureOf = "refuses"
  /\ phase \in {"login", "work"} => Crossed(proxy)

\* A batch is under way.
Treating == phase = "work" /\ op \in Batches

\* What the batch says holds, and what it did is said, but for lost replies and a batch given up.
Honest ==
  /\ \A m \in ToSet(Asked) : report[m] = "ok" => names[m] \in done \union {Nobody}
  /\ \A m \in ToSet(Asked) : names[m] \in done => report[m] = "ok" \/ names[m] \in unheard \/ aborted
  /\ \A x \in done : (\E m \in ToSet(Asked) : names[m] = x) \/ (x \in flagged /\ ~uidplus)

\* Until the work begins nothing is said and everything is to do; the messages of the batch
\* are flagged by its last channel only; a batch that succeeds has treated every message.
Bounded ==
  /\ op \notin Batches \/ phase \notin {"work", "done"} => \A m \in ToSet(Asked) : report[m] = "none"
  /\ op \in Batches /\ phase \in {"open", "token", "login"} => rest = Asked
  /\ singles # <<>> => Treating /\ channel = "graph"
  /\ \A m \in flagged \intersect ToSet(Asked) :
       op \in Batches /\ (phase = "done" \/ (phase = "work" /\ channel # "graph" /\ report[m] # "none"))
  /\ phase = "done" /\ op \in Batches /\ verdict.ok => \A m \in ToSet(Asked) : report[m] # "none"

\* What is not spoken of is still to be treated: on Graph it is exactly that, once each, and over
\* IMAP a folder is spoken of as a whole.
Left ==
  /\ Treating => \A m \in ToSet(Asked) : report[m] = "none" => m \in ToSet(rest) \union ToSet(singles)
  /\ Treating /\ channel = "graph" =>
       /\ \A m \in ToSet(rest) \union ToSet(singles) : report[m] = "none"
       /\ ToSet(rest) \intersect ToSet(singles) = {} /\ IsInjective(singles)
  /\ Treating /\ channel # "graph" =>
       /\ rest # <<>> => report[Head(rest)] = "none"
       /\ \A m, k \in ToSet(Asked) :
            FolderOf[m] = FolderOf[k] => (report[m] = "none" <=> report[k] = "none")

BatchInv == Honest /\ Bounded /\ Left

-----------------------------------------------------------------------------
(* Ends of sequences.                                                      *)

LEMMA EndIsSeq ==
  ASSUME NEW S, NEW t \in Seq(S), NEW s, EndOf(s, t)
  PROVE  s \in Seq(S) /\ ToSet(s) \subseteq ToSet(t)
<1>1. PICK n \in 0..Len(t) : s = SubSeq(t, n + 1, Len(t))
  BY DEF EndOf
<1>2. Len(t) \in Nat /\ n + 1 \in Int /\ \A i \in n + 1..Len(t) : t[i] \in S
  BY ElementOfSeq
<1>3. /\ s \in Seq(S)
      /\ Len(s) = Len(t) - n
      /\ \A i \in 1..Len(t) - n : s[i] = t[n + i]
  <2>1. /\ s \in Seq(S)
        /\ Len(s) = IF n + 1 <= Len(t) THEN Len(t) - (n + 1) + 1 ELSE 0
        /\ \A i \in 1..Len(t) - (n + 1) + 1 : s[i] = t[n + 1 + i - 1]
    BY <1>1, <1>2, SubSeqProperties
  <2> QED BY <2>1, <1>2
<1>4. ASSUME NEW x \in ToSet(s) PROVE x \in ToSet(t)
  <2>1. PICK i \in 1..Len(t) - n : x = s[i]
    BY <1>2, <1>3 DEF ToSet
  <2>2. x = t[n + i] /\ n + i \in 1..Len(t)
    BY <2>1, <1>2, <1>3
  <2> QED BY <2>2 DEF ToSet
<1> QED BY <1>3, <1>4

LEMMA WholeIsEnd ==
  ASSUME NEW S, NEW t \in Seq(S)
  PROVE  EndOf(t, t) /\ EndOf(<<>>, t)
<1>1. SubSeq(t, 0 + 1, Len(t)) = t
  BY SubSeqFull
<1>2. SubSeq(t, Len(t) + 1, Len(t)) = <<>>
  BY SubSeqEmpty
<1> QED BY <1>1, <1>2 DEF EndOf

\* What is left of an end is an end.
LEMMA EndOfEnd ==
  ASSUME NEW S, NEW t \in Seq(S), NEW s, EndOf(s, t), NEW k \in 0..Len(s)
  PROVE  EndOf(SubSeq(s, k + 1, Len(s)), t)
<1>1. PICK n \in 0..Len(t) : s = SubSeq(t, n + 1, Len(t))
  BY DEF EndOf
<1>2. Len(t) \in Nat /\ \A i \in n + 1..Len(t) : t[i] \in S
  BY ElementOfSeq
<1>3. s \in Seq(S) /\ Len(s) = Len(t) - n
  <2>1. s \in Seq(S) /\ Len(s) = IF n + 1 <= Len(t) THEN Len(t) - (n + 1) + 1 ELSE 0
    BY <1>1, <1>2, SubSeqProperties
  <2> QED BY <2>1, <1>2
<1>4. CASE k = Len(s)
  <2>1. SubSeq(s, k + 1, Len(s)) = <<>>
    BY <1>2, <1>3, <1>4, SubSeqEmpty
  <2> QED BY <2>1, WholeIsEnd
<1>5. CASE k # Len(s)
  <2>0. /\ n + 1 \in 1..Len(t) /\ Len(t) \in 1..Len(t)
        /\ k + 1 \in 1..Len(t) - (n + 1) + 1 /\ Len(s) \in 1..Len(t) - (n + 1) + 1
    BY <1>2, <1>3, <1>5
  <2>1. SubSeq(SubSeq(t, n + 1, Len(t)), k + 1, Len(s))
           = SubSeq(t, n + 1 + (k + 1) - 1, n + 1 + Len(s) - 1)
    BY <2>0, SubSeqOfSubSeq
  <2>2. SubSeq(s, k + 1, Len(s)) = SubSeq(t, (n + k) + 1, Len(t)) /\ n + k \in 0..Len(t)
    <3>1. /\ n + 1 + (k + 1) - 1 = (n + k) + 1 /\ n + 1 + Len(s) - 1 = Len(t)
          /\ n + k \in 0..Len(t)
      BY <1>2, <1>3, <1>5
    <3> QED BY <1>1, <2>1, <3>1
  <2> QED BY <2>2 DEF EndOf
<1> QED BY <1>4, <1>5

LEMMA SeqOfToSet ==
  ASSUME NEW S, NEW s \in Seq(S)
  PROVE  s \in Seq(ToSet(s))
<1>1. Len(s) \in Nat /\ s \in [1..Len(s) -> S] /\ DOMAIN s = 1..Len(s)
  BY LenProperties
<1>2. s \in [1..Len(s) -> ToSet(s)]
  BY <1>1 DEF ToSet
<1> QED BY <1>1, <1>2, SeqDef

LEMMA TailOfEnd ==
  ASSUME NEW S, NEW t \in Seq(S), NEW s, EndOf(s, t), s # <<>>
  PROVE  EndOf(Tail(s), t) /\ Tail(s) \in Seq(S)
<1>1. s \in Seq(S)
  BY EndIsSeq
<1>2. Tail(s) = SubSeq(s, 1 + 1, Len(s)) /\ Tail(s) \in Seq(S) /\ 1 \in 0..Len(s)
  BY <1>1, TailIsSubSeq, HeadTailProperties, EmptySeq
<1> QED BY <1>2, EndOfEnd

LEMMA TailInjective ==
  ASSUME NEW S, NEW s \in Seq(S), s # <<>>, IsInjective(s)
  PROVE  IsInjective(Tail(s)) /\ ToSet(Tail(s)) = ToSet(s) \ {Head(s)}
<1>1. /\ Tail(s) \in Seq(S) /\ Len(Tail(s)) = Len(s) - 1 /\ Len(s) \in Nat \ {0}
      /\ \A i \in 1..Len(Tail(s)) : Tail(s)[i] = s[i + 1]
  BY HeadTailProperties, EmptySeq
<1>2. Head(s) = s[1] /\ DOMAIN s = 1..Len(s) /\ DOMAIN Tail(s) = 1..Len(Tail(s))
  BY <1>1
<1>3. IsInjective(Tail(s))
  <2> SUFFICES ASSUME NEW a \in DOMAIN Tail(s), NEW b \in DOMAIN Tail(s), Tail(s)[a] = Tail(s)[b]
               PROVE  a = b
    BY DEF IsInjective
  <2>1. s[a + 1] = s[b + 1] /\ a + 1 \in DOMAIN s /\ b + 1 \in DOMAIN s
    BY <1>1, <1>2
  <2> QED BY <2>1, <1>1, <1>2 DEF IsInjective
<1>4. ASSUME NEW i \in 2..Len(s) PROVE s[i] \in ToSet(Tail(s)) /\ s[i] # Head(s)
  <2>1. i - 1 \in DOMAIN Tail(s) /\ Tail(s)[i - 1] = s[i]
    BY <1>1, <1>2
  <2>2. s[i] # s[1]
    BY <1>1, <1>2 DEF IsInjective
  <2> QED BY <2>1, <2>2, <1>2 DEF ToSet
<1>5. ASSUME NEW x \in ToSet(Tail(s)) PROVE x \in ToSet(s) \ {Head(s)}
  <2>1. PICK k \in 1..Len(Tail(s)) : x = Tail(s)[k]
    BY <1>2 DEF ToSet
  <2>2. x = s[k + 1] /\ k + 1 \in 2..Len(s)
    BY <2>1, <1>1
  <2> QED BY <2>2, <1>2, <1>4 DEF ToSet
<1>6. ASSUME NEW x \in ToSet(s) \ {Head(s)} PROVE x \in ToSet(Tail(s))
  <2>1. PICK k \in 1..Len(s) : x = s[k]
    BY <1>2 DEF ToSet
  <2>2. k # 1
    BY <2>1, <1>2
  <2> QED BY <2>1, <2>2, <1>1, <1>4
<1> QED BY <1>3, <1>5, <1>6

-----------------------------------------------------------------------------
(* The chain keeps its types.                                              *)

LEMMA OrderIsFine ==
  ASSUME NEW a, NEW last
  PROVE  /\ ChannelOrder(a, last) \in Seq(Channels)
         /\ IsInjective(ChannelOrder(a, last))
         /\ ChannelOrder(a, last) # <<>>
<1> DEFINE Good3(q) == q \in Seq(Channels) /\ IsInjective(q) /\ q # <<>>
<1>1. Good3(<<"imap_gmail">>) /\ Good3(<<"imap">>)
  BY DEF Channels, OAuthIMAP, IsInjective
<1>2. /\ Good3(<<"imap_new", "graph", "imap_old">>)
      /\ Good3(<<"imap_old", "graph", "imap_new">>)
      /\ Good3(<<"graph", "imap_new", "imap_old">>)
  BY DEF Channels, OAuthIMAP, IsInjective
<1>3. ChannelOrder(a, last) \in {<<"imap_gmail">>, <<"imap">>, <<"imap_new", "graph", "imap_old">>,
        <<"imap_old", "graph", "imap_new">>, <<"graph", "imap_new", "imap_old">>}
  BY DEF ChannelOrder
<1> QED BY <1>1, <1>2, <1>3

LEMMA JoinedProxies ==
  ASSUME NEW S, NEW x \in Seq(S), NEW y \in Seq(S),
         \A i \in 1..Len(x) : x[i] # Direct, \A i \in 1..Len(y) : y[i] # Direct
  PROVE  /\ x \o y \in Seq(S) /\ Len(x \o y) = Len(x) + Len(y)
         /\ \A i \in 1..Len(x \o y) : (x \o y)[i] # Direct
<1>1. /\ x \o y \in Seq(S) /\ Len(x \o y) = Len(x) + Len(y)
      /\ \A i \in 1..Len(x) + Len(y) : (x \o y)[i] = IF i <= Len(x) THEN x[i] ELSE y[i - Len(x)]
  BY ConcatProperties
<1>2. Len(x) \in Nat /\ Len(y) \in Nat
  OBVIOUS
<1> QED BY <1>1, <1>2

\* The candidates are a list that ends with no proxy, which is nowhere else on it.
LEMMA CandidatesEndDirect ==
  /\ AllCandidates \in Seq(ToSet(AllCandidates))
  /\ Len(AllCandidates) \in Nat \ {0}
  /\ AllCandidates[Len(AllCandidates)] = Direct
  /\ \A i \in 1..Len(AllCandidates) - 1 : AllCandidates[i] # Direct
<1> DEFINE c == ResolveProxy(own, group)
           Given(n) == c[n] # Direct /\ \A k \in 1..n - 1 : c[k] # c[n]
           Some(n) == IF Given(n) THEN <<c[n]>> ELSE <<>>
           S == {c[1], c[2], c[3], Direct}
<1>1. AllCandidates = Some(1) \o Some(2) \o Some(3) \o <<Direct>>
  BY DEF AllCandidates, ProxyCandidates
<1>2. \A n \in {1, 2, 3} : /\ Some(n) \in Seq(S) /\ Len(Some(n)) \in {0, 1}
                           /\ \A i \in 1..Len(Some(n)) : Some(n)[i] # Direct
  <2> SUFFICES ASSUME NEW n \in {1, 2, 3}
               PROVE  /\ Some(n) \in Seq(S) /\ Len(Some(n)) \in {0, 1}
                      /\ \A i \in 1..Len(Some(n)) : Some(n)[i] # Direct
    OBVIOUS
  <2>1. CASE Given(n)
    <3>1. Some(n) = <<c[n]>> /\ c[n] # Direct /\ c[n] \in S
      BY <2>1
    <3> HIDE DEF S, Some, c
    <3> QED BY <3>1
  <2>2. CASE ~Given(n)
    <3>1. Some(n) = <<>>
      BY <2>2
    <3> HIDE DEF S, Some
    <3> QED BY <3>1
  <2> QED BY <2>1, <2>2
<1> HIDE DEF Some, S
<1>3. PICK x \in Seq(S), y \in Seq(S), z \in Seq(S) :
        /\ x = Some(1) /\ y = Some(2) /\ z = Some(3)
        /\ Len(x) \in {0, 1} /\ Len(y) \in {0, 1} /\ Len(z) \in {0, 1}
        /\ \A i \in 1..Len(x) : x[i] # Direct
        /\ \A i \in 1..Len(y) : y[i] # Direct
        /\ \A i \in 1..Len(z) : z[i] # Direct
  BY <1>2
<1>4. <<Direct>> \in Seq(S) /\ Len(<<Direct>>) = 1 /\ <<Direct>>[1] = Direct
  BY DEF S
<1>5. PICK u \in Seq(S) : u = x \o y /\ \A i \in 1..Len(u) : u[i] # Direct
  <2>1. x \o y \in Seq(S) /\ \A i \in 1..Len(x \o y) : (x \o y)[i] # Direct
    BY <1>3, JoinedProxies
  <2> QED BY <2>1
<1>6. PICK v \in Seq(S) : v = u \o z /\ \A i \in 1..Len(v) : v[i] # Direct
  <2>1. u \o z \in Seq(S) /\ \A i \in 1..Len(u \o z) : (u \o z)[i] # Direct
    BY <1>3, <1>5, JoinedProxies
  <2> QED BY <2>1
<1>7. /\ AllCandidates = v \o <<Direct>> /\ AllCandidates \in Seq(S)
      /\ Len(AllCandidates) = Len(v) + 1
      /\ \A i \in 1..Len(v) + 1 : AllCandidates[i] = IF i <= Len(v) THEN v[i] ELSE Direct
  <2>1. AllCandidates = v \o <<Direct>>
    BY <1>1, <1>3, <1>5, <1>6
  <2>2. PICK w \in Seq(S) : w = <<Direct>> /\ Len(w) = 1 /\ w[1] = Direct
    BY <1>4
  <2>3. /\ v \o w \in Seq(S) /\ Len(v \o w) = Len(v) + 1 /\ Len(v) \in Nat
        /\ \A i \in 1..Len(v) + 1 : (v \o w)[i] = IF i <= Len(v) THEN v[i] ELSE w[i - Len(v)]
    BY <2>2, ConcatProperties
  <2>4. PICK l \in Nat : l = Len(v)
    BY <2>3
  <2>5. \A i \in 1..l + 1 : i <= l \/ i - l = 1
    OBVIOUS
  <2> QED BY <2>1, <2>2, <2>3, <2>4, <2>5
<1>8. AllCandidates \in Seq(ToSet(AllCandidates))
  BY <1>7, SeqOfToSet
<1> QED BY <1>6, <1>7, <1>8

LEMMA SameCandidates ==
  ASSUME UNCHANGED callVars
  PROVE  AllCandidates' = AllCandidates
BY DEF callVars, AllCandidates

LEMMA FinishKeeps ==
  ASSUME ChainInv, UNCHANGED callVars, NEW v, Judged(v), NEW tried \in Seq(Tried),
         phase # "export", Finish(v, tried)
  PROVE  ChainInv'
<1>1. AllCandidates' = AllCandidates
  BY SameCandidates
<1>2. UNCHANGED <<op, cands, scope, tries>>
  BY DEF Finish, callVars
<1>3. CASE op = "all" /\ first = NoVerdict
  <2>1. /\ first' = v /\ phase' = "pick" /\ attempts' = <<>> /\ verdict' = verdict
        /\ order' = ChannelOrder(account.row, account.last)
    BY <1>3 DEF Finish
  <2>2. <<>> \in Seq(Tried)
    OBVIOUS
  <2> QED BY <1>1, <1>2, <2>1, <2>2, OrderIsFine DEF ChainInv, Phases, Connected
<1>4. CASE ~(op = "all" /\ first = NoVerdict)
  <2>1. /\ phase' = "done" /\ attempts' = tried /\ UNCHANGED <<order, first>>
        /\ \/ verdict' = v
           \/ op = "all" /\ (first.ok \/ v.ok) /\ verdict' = Good("none")
           \/ op = "all" /\ ~(first.ok /\ v.ok)
              /\ verdict' = Bad(IF first.ok THEN v.kind ELSE first.kind)
    BY <1>4 DEF Finish
  <2>2. Judged(verdict')
    <3>1. CASE verdict' = v
      BY <3>1
    <3>2. CASE verdict' = Good("none")
      BY <3>2 DEF Judged, Verdicts, Good
    <3>3. CASE op = "all" /\ ~(first.ok /\ v.ok) /\ verdict' = Bad(IF first.ok THEN v.kind ELSE first.kind)
      <4>1. Judged(first) /\ Judged(v)
        BY <3>3, <1>4 DEF ChainInv
      <4>2. (IF first.ok THEN v.kind ELSE first.kind) \in Kinds
        BY <4>1, <3>3 DEF Judged
      <4> QED BY <4>2, <3>3 DEF Judged, Verdicts, Bad
    <3> QED BY <2>1, <3>1, <3>2, <3>3
  <2>3. verdict' \in Verdicts
    BY <2>2 DEF Judged
  <2> QED BY <1>1, <1>2, <2>1, <2>2, <2>3 DEF ChainInv, Phases, Connected
<1> QED BY <1>3, <1>4

LEMMA ChannelFailsKeeps ==
  ASSUME ChainInv, UNCHANGED callVars, phase \in Connected \union {"pick"},
         NEW e, e.kind \in Kinds, ChannelFails(e)
  PROVE  ChainInv'
<1> DEFINE tried == Append(attempts, [channel |-> channel, kind |-> e.kind])
<1>1. order \in Seq(Channels) /\ order # <<>> /\ IsInjective(order) /\ channel \in Channels
  BY HeadTailProperties DEF ChainInv, Connected, channel
<1>2. tried \in Seq(Tried)
  BY <1>1, AppendProperties DEF ChainInv, Tried
<1> HIDE DEF tried
<1>3. CASE RetriableFrom(channel, e) /\ Len(order) > 1
  <2>1. /\ attempts' = tried /\ order' = Tail(order) /\ phase' = "pick"
        /\ UNCHANGED <<op, cands, scope, tries, first, verdict>>
    BY <1>3 DEF ChannelFails, callVars, tried
  <2>2. Tail(order) \in Seq(Channels) /\ Tail(order) # <<>> /\ IsInjective(Tail(order))
    <3>1. Tail(order) \in Seq(Channels) /\ Len(Tail(order)) = Len(order) - 1
      BY <1>1, HeadTailProperties
    <3>2. Len(Tail(order)) # 0
      BY <1>1, <3>1, <1>3
    <3> QED BY <1>1, <3>1, <3>2, TailInjective, EmptySeq
  <2> QED BY <1>2, <2>1, <2>2, SameCandidates DEF ChainInv, Phases, Connected
<1>4. CASE ~(RetriableFrom(channel, e) /\ Len(order) > 1)
  <2>1. Finish(Bad(e.kind), tried)
    BY <1>4 DEF ChannelFails, tried
  <2>2. Judged(Bad(e.kind))
    BY DEF Judged, Verdicts, Bad
  <2> QED BY <1>2, <2>1, <2>2, FinishKeeps DEF Connected
<1> QED BY <1>3, <1>4

LEMMA CandidateFailsKeeps ==
  ASSUME ChainInv, UNCHANGED callVars, phase \in Connected,
         NEW e, e.kind \in Kinds, CandidateFails(e)
  PROVE  ChainInv'
<1>1. CASE StopsHere(e)
  BY <1>1, ChannelFailsKeeps DEF CandidateFails
<1>2. CASE ~StopsHere(e) /\ Len(cands) > 1
  <2>1. /\ cands' = Tail(cands) /\ phase' = "open"
        /\ UNCHANGED <<op, order, scope, tries, attempts, first, verdict>>
    BY <1>2 DEF CandidateFails, callVars
  <2>2. cands \in Seq(ToSet(AllCandidates)) /\ cands # <<>>
    BY DEF ChainInv
  <2>3. Tail(cands) \in Seq(ToSet(AllCandidates)) /\ Tail(cands) # <<>>
    <3>1. Tail(cands) \in Seq(ToSet(AllCandidates)) /\ Len(Tail(cands)) = Len(cands) - 1
      BY <2>2, HeadTailProperties
    <3>2. Len(Tail(cands)) # 0
      BY <2>2, <3>1, <1>2
    <3> QED BY <3>1, <3>2, EmptySeq
  <2> QED BY <2>1, <2>3, SameCandidates DEF ChainInv, Phases, Connected
<1>3. CASE ~StopsHere(e) /\ ~(Len(cands) > 1)
  <2>1. PICK f : /\ f = (IF e.kind = "network" /\ Len(AllCandidates) > 1
                         THEN Error("proxy_failed", FALSE) ELSE e)
                 /\ ChannelFails(f)
    BY <1>3 DEF CandidateFails
  <2>2. f.kind \in Kinds
    BY <2>1 DEF Error, Kinds
  <2> QED BY <2>1, <2>2, ChannelFailsKeeps
<1> QED BY <1>1, <1>2, <1>3

-----------------------------------------------------------------------------
(* How a step between a candidate and its end goes on.                     *)

\* The steps that leave the mailbox alone.
Quietly == Open \/ FetchToken \/ FetchAccessToken \/ Authenticate \/ GraphRead
           \/ ImapList \/ ImapDetail \/ BatchEnd

\* The next stage on the same candidate; past the token its proxy is known not to refuse.
Onward ==
  \/ /\ phase = "open" /\ phase' = "token" /\ OverHTTP /\ NatureOf \in NewHTTPClient
     /\ rest' = (IF op \in Batches THEN Asked ELSE <<>>) /\ singles' = <<>>
     /\ scope' = Scopes /\ tries' = 0
     /\ UNCHANGED <<order, cands, attempts, first, verdict>>
  \/ /\ phase = "open" /\ phase' \in {"token", "login"} /\ NatureOf \in NewDialer \ {"refuses"}
     /\ UNCHANGED <<order, cands, attempts, first, verdict, scope, tries, rest, singles>>
  \/ /\ phase = "token" /\ phase' \in {"token", "login", "work"}
     /\ phase' \in {"login", "work"} => NatureOf # "refuses"
     /\ EndOf(scope', Scopes) /\ scope' # <<>>
     /\ UNCHANGED <<order, cands, attempts, first, verdict, tries, rest, singles>>
  \/ /\ phase = "login" /\ phase' = "work"
     /\ UNCHANGED <<order, cands, attempts, first, verdict, scope, tries, rest, singles>>

\* A candidate that is given up for the next one could not be reached.
Unreached == \/ phase = "open" /\ NatureOf \in NewDialer \ {"refuses"}
             \/ phase = "token" /\ NatureOf # "refuses"
             \/ phase = "work"

LEMMA RefusalKinds ==
  ASSUME NEW r \in Refusals
  PROVE  r.kind \in Kinds \ {"network"}
<1>1. PICK s \in Statuses, b \in Bodies :
        r = [kind |-> ClassifyOAuthError(s, b), smaller |-> shouldDegradeScope(s, b)]
  BY DEF Refusals
<1>2. /\ b.code \in {"none", "auth_failed", "consent_required", "provider_error"}
      /\ b.name \in {"auth_failed", "consent_required", "provider_error"}
  BY DEF Bodies
<1>3. ClassifyOAuthError(s, b) \in Kinds \ {"network"}
  BY <1>2 DEF ClassifyOAuthError, classifyOAuthName, Kinds
<1> QED BY <1>1, <1>3

LEMMA ScopeShrinks ==
  ASSUME ChainInv, Len(scope) > 1
  PROVE  EndOf(Tail(scope), Scopes) /\ Tail(scope) # <<>>
<1> DEFINE Wordings == {"configured", "read", "default"}
<1>1. Scopes \in Seq(Wordings)
  BY DEF Scopes
<1>2. scope \in Seq(Wordings) /\ EndOf(scope, Scopes) /\ scope # <<>>
  BY <1>1, EndIsSeq DEF ChainInv
<1>3. EndOf(Tail(scope), Scopes)
  BY <1>1, <1>2, TailOfEnd
<1>4. Tail(scope) \in Seq(Wordings) /\ Len(Tail(scope)) = Len(scope) - 1 /\ Len(scope) \in Nat
  BY <1>2, HeadTailProperties
<1>5. Tail(scope) # <<>>
  BY <1>4, EmptySeq
<1> QED BY <1>3, <1>5

\* A quiet step fails on the candidate or on the channel, ends the call, or goes on.
LEMMA QuietSteps ==
  ASSUME ChainInv, Quietly
  PROVE  /\ Quiet /\ phase \in Connected
         /\ \/ \E e : /\ e.kind \in Kinds /\ CandidateFails(e)
                      /\ e.kind = "network" => Unreached
            \/ \E e : e.kind \in Kinds /\ ChannelFails(e)
            \/ /\ Succeeds /\ phase \in {"token", "work"}
               /\ op \in Batches => phase = "work" /\ rest = <<>> /\ singles = <<>>
            \/ Onward
<1> USE DEF Connected
<1>a. ASSUME NEW kind \in Kinds, NEW http \in BOOLEAN
      PROVE  Error(kind, http).kind = kind
  BY DEF Error
<1>b. ASSUME NEW kind \in Kinds, Fails(kind), kind = "network" => Unreached
      PROVE  \E e : e.kind \in Kinds /\ CandidateFails(e) /\ (e.kind = "network" => Unreached)
  BY <1>a, <1>b DEF Fails
<1>c. ASSUME NEW kind \in Kinds \ {"network"}, NEW http \in BOOLEAN, Answers(kind, http)
      PROVE  \E e : e.kind \in Kinds /\ CandidateFails(e) /\ (e.kind = "network" => Unreached)
  BY <1>a, <1>c DEF Answers
<1>d. {"auth_failed", "provider_error", "canceled", "proxy_failed", "folder_unavailable"} \subseteq Kinds
  BY DEF Kinds
<1>e. "network" \in Kinds
  BY DEF Kinds
<1>1. CASE Open
  <2>1. phase = "open" /\ Quiet
    BY <1>1 DEF Open
  <2>2. CASE \E k \in {"canceled", "proxy_failed"} : ChannelFails(Error(k, FALSE))
    BY <1>a, <1>d, <2>1, <2>2
  <2>3. CASE OverHTTP /\ NatureOf \in NewHTTPClient /\ Enter("token") /\ scope' = Scopes /\ tries' = 0
             /\ rest' = (IF op \in Batches THEN Asked ELSE <<>>) /\ singles' = <<>>
    BY <2>1, <2>3 DEF Onward, Enter
  <2>4. CASE \E k \in {"provider_error", "proxy_failed"} : CandidateFails(Error(k, FALSE))
    BY <1>a, <1>d, <2>1, <2>4
  <2>5. CASE NatureOf \in NewDialer \ {"refuses"} /\ CandidateFails(Error("network", FALSE))
    BY <1>a, <1>e, <2>1, <2>5 DEF Unreached
  <2>6. CASE /\ NatureOf \in NewDialer \ {"refuses"} /\ Enter(IF channel = "imap" THEN "login" ELSE "token")
             /\ UNCHANGED <<scope, tries, rest, singles>>
    BY <2>1, <2>6 DEF Onward, Enter
  <2> QED BY <1>1, <2>2, <2>3, <2>4, <2>5, <2>6 DEF Open
<1>2. CASE phase = "token" /\ Quiet /\ Unanswered
  <2>1. CASE Fails("canceled") \/ Fails("proxy_failed")
    BY <1>b, <1>d, <1>2, <2>1
  <2>2. CASE NatureOf # "refuses" /\ Fails("network")
    BY <1>b, <1>e, <1>2, <2>2 DEF Unreached
  <2> QED BY <1>2, <2>1, <2>2 DEF Unanswered, Answered
<1>3. CASE phase = "token" /\ Quiet /\ AcceptToken
  <2>1. CASE Fails("provider_error")
    BY <1>b, <1>d, <1>3, <2>1
  <2>2. CASE op = "refresh" /\ Succeeds
    BY <1>3, <2>2 DEF Batches
  <2>3. CASE /\ NatureOf # "refuses" /\ Enter(IF channel = "graph" THEN "work" ELSE "login")
             /\ UNCHANGED <<scope, tries, rest, singles>>
    BY <1>3, <2>3 DEF Onward, Enter, ChainInv
  <2> QED BY <1>3, <2>1, <2>2, <2>3 DEF AcceptToken, Answered
<1>4. CASE FetchToken
  <2>1. phase = "token" /\ Quiet
    BY <1>4 DEF FetchToken
  <2>2. CASE Answers("auth_failed", FALSE)
    BY <1>c, <1>d, <2>1, <2>2
  <2>3. CASE \E r \in Refusals : Answers(r.kind, TRUE)
    BY <1>c, <2>1, <2>3, RefusalKinds
  <2>4. CASE Len(scope) > 1 /\ scope' = Tail(scope) /\ Enter("token") /\ UNCHANGED <<tries, rest, singles>>
    BY <2>1, <2>4, ScopeShrinks DEF Onward, Enter
  <2> QED BY <1>2, <1>3, <1>4, <2>1, <2>2, <2>3, <2>4 DEF FetchToken
<1>5. CASE FetchAccessToken
  <2>1. phase = "token" /\ Quiet
    BY <1>5 DEF FetchAccessToken
  <2>2. CASE Answers("auth_failed", FALSE)
    BY <1>c, <1>d, <2>1, <2>2
  <2>3. CASE \E r \in Refusals : Answers(r.kind, TRUE)
    BY <1>c, <2>1, <2>3, RefusalKinds
  <2>4. CASE Fails("provider_error")
    BY <1>b, <1>d, <2>1, <2>4
  <2> QED BY <1>2, <1>3, <1>5, <2>1, <2>2, <2>3, <2>4 DEF FetchAccessToken
<1>6. CASE Authenticate
  <2>1. phase = "login" /\ Quiet
    BY <1>6 DEF Authenticate
  <2>2. CASE \E kind \in ClassifyIMAPAuthError \union {"auth_failed"} : Answers(kind, FALSE)
    BY <1>c, <2>1, <2>2 DEF ClassifyIMAPAuthError, Kinds
  <2>3. CASE Fails("auth_failed")
    BY <1>b, <1>d, <2>1, <2>3
  <2>4. CASE Enter("work") /\ UNCHANGED <<scope, tries, rest, singles>>
    BY <2>1, <2>4 DEF Onward, Enter
  <2> QED BY <1>6, <2>2, <2>3, <2>4 DEF Authenticate
<1>7. CASE GraphRead
  <2>1. phase = "work" /\ Quiet /\ op \notin Batches
    BY <1>7 DEF GraphRead
  <2>2. CASE Fails("canceled") \/ Fails("network")
    BY <1>b, <1>d, <1>e, <2>1, <2>2 DEF Unreached
  <2>3. CASE Succeeds
    BY <2>1, <2>3
  <2>4. CASE \E kind \in classifyAPIStatus : Answers(kind, TRUE)
    BY <1>c, <2>1, <2>4 DEF classifyAPIStatus, Kinds
  <2> QED BY <1>7, <2>2, <2>3, <2>4 DEF GraphRead
<1>8. CASE ImapList \/ ImapDetail
  <2>1. phase = "work" /\ Quiet /\ op \notin Batches
    BY <1>8 DEF ImapList, ImapDetail, Batches
  <2>2. CASE Fails("folder_unavailable") \/ Fails("provider_error")
    BY <1>b, <1>d, <2>1, <2>2
  <2>3. CASE Succeeds
    BY <2>1, <2>3
  <2> QED BY <1>8, <2>2, <2>3 DEF ImapList, ImapDetail, SelectFails
<1>9. CASE BatchEnd
  BY <1>9 DEF BatchEnd
<1> QED BY <1>1, <1>4, <1>5, <1>6, <1>7, <1>8, <1>9 DEF Quietly

-----------------------------------------------------------------------------
(* Type correctness.                                                       *)

LEMMA ScopesAreAnEnd == EndOf(Scopes, Scopes) /\ Scopes # <<>>
<1>1. Scopes \in Seq({"configured", "read", "default"}) /\ Scopes # <<>>
  BY DEF Scopes
<1> QED BY <1>1, WholeIsEnd

LEMMA ChainInit ==
  ASSUME Init
  PROVE  ChainInv
<1>1. order \in Seq(Channels) /\ IsInjective(order) /\ order # <<>>
  BY OrderIsFine DEF Init
<1>2. <<>> \in Seq(ToSet(AllCandidates)) /\ <<>> \in Seq(Tried)
  OBVIOUS
<1>3. NoVerdict \in Verdicts
  BY DEF NoVerdict, Verdicts
<1>4. op \in Ops /\ phase \in {"export", "pick"} /\ (phase = "export" => op = "transfer")
  BY MailAssumption DEF Init, Ops
<1>5. 0 \in 0..MaxRetries
  BY MailAssumption
<1>6. /\ cands = <<>> /\ scope = Scopes /\ tries = 0 /\ attempts = <<>>
      /\ first = NoVerdict /\ verdict = NoVerdict
  BY DEF Init
<1> QED BY <1>1, <1>2, <1>3, <1>4, <1>5, <1>6, ScopesAreAnEnd DEF ChainInv, Phases, Connected

LEMMA OnwardKeeps ==
  ASSUME ChainInv, Onward, UNCHANGED callVars
  PROVE  ChainInv'
<1>1. AllCandidates' = AllCandidates /\ op' = op
  BY SameCandidates DEF callVars
<1>2. /\ UNCHANGED <<order, cands, attempts, first, verdict>>
      /\ phase \in Connected /\ phase' \in Connected
  BY DEF Onward, Connected
<1>3. EndOf(scope', Scopes) /\ scope' # <<>>
  BY ScopesAreAnEnd DEF Onward, ChainInv
<1>4. tries' \in 0..MaxRetries
  BY MailAssumption DEF Onward, ChainInv
<1> QED BY <1>1, <1>2, <1>3, <1>4 DEF ChainInv, Connected, Phases

LEMMA SucceedsKeeps ==
  ASSUME ChainInv, Succeeds, phase # "export", phase # "done", UNCHANGED callVars
  PROVE  ChainInv'
<1>1. channel \in Channels
  BY HeadTailProperties DEF ChainInv, channel
<1>2. Judged(Good(channel))
  BY <1>1 DEF Judged, Verdicts, Good
<1>3. attempts \in Seq(Tried)
  BY DEF ChainInv
<1> QED BY <1>2, <1>3, FinishKeeps DEF Succeeds

\* A batch is given up; its request may have taken effect.
GivenUp ==
  \E kind \in Kinds \ {"network"}, hit \in SUBSET {m \in ToSet(batch) : Found(m)} : GiveUp(kind, hit)

LEMMA GiveUpKinds ==
  ASSUME GraphBatch
  PROVE  \/ Reply
         \/ \E hit \in SUBSET {m \in ToSet(batch) : Found(m)} : OneByOne(hit)
         \/ GivenUp
BY DEF GivenUp, GraphBatch, classifyAPIStatus, batchWorthFallback, Kinds

LEMMA ChainStep ==
  ASSUME ChainInv, [Next]_vars
  PROVE  ChainInv'
<1> USE DEF Connected
<1>1. CASE Pick
  <2>1. phase = "pick" /\ UNCHANGED callVars
    BY <1>1 DEF Pick
  <2>2. CASE Finish(Bad("canceled"), attempts)
    <3>1. Judged(Bad("canceled")) /\ attempts \in Seq(Tried)
      BY DEF Judged, Verdicts, Bad, Kinds, ChainInv
    <3> QED BY <2>1, <2>2, <3>1, FinishKeeps
  <2>3. CASE ChannelFails(Error("provider_error", FALSE))
    <3>1. Error("provider_error", FALSE).kind \in Kinds
      BY DEF Error, Kinds
    <3> QED BY <2>1, <2>3, <3>1, ChannelFailsKeeps
  <2>4. CASE /\ cands' = AllCandidates /\ phase' = "open"
             /\ scope' = Scopes /\ tries' = 0 /\ UNCHANGED <<order, attempts, first, verdict>>
    <3>1. AllCandidates' = AllCandidates /\ op' = op
      BY <2>1, SameCandidates DEF callVars
    <3>2. cands' \in Seq(ToSet(AllCandidates)) /\ cands' # <<>>
      BY <2>4, CandidatesEndDirect, EmptySeq
    <3>3. EndOf(scope', Scopes) /\ scope' # <<>> /\ tries' \in 0..MaxRetries
      BY <2>4, ScopesAreAnEnd, MailAssumption
    <3> QED BY <2>1, <2>4, <3>1, <3>2, <3>3 DEF ChainInv, Phases
  <2> QED BY <1>1, <2>2, <2>3, <2>4 DEF Pick
<1>2. CASE Quietly
  <2>1. UNCHANGED callVars
    BY <1>2, QuietSteps DEF Quiet
  <2> QED BY <1>2, <2>1, QuietSteps, CandidateFailsKeeps, ChannelFailsKeeps, SucceedsKeeps, OnwardKeeps
<1>3. CASE RetryAfter
  BY <1>3, MailAssumption, SameCandidates DEF RetryAfter, ChainInv, callVars
<1>4. CASE GraphBatch \/ GraphSingle \/ ImapBatch
  <2>1. CASE GivenUp
    <3>1. PICK kind \in Kinds \ {"network"}, hit \in SUBSET {m \in ToSet(batch) : Found(m)} : GiveUp(kind, hit)
      BY <2>1 DEF GivenUp
    <3>2. Error(kind, TRUE).kind \in Kinds
      BY DEF Error
    <3>3. UNCHANGED callVars /\ CandidateFails(Error(kind, TRUE))
      BY <3>1 DEF GiveUp
    <3>4. phase = "work" \/ ~ GraphBatch
      BY DEF GraphBatch
    <3>5. CASE GraphBatch
      BY <3>2, <3>3, <3>4, <3>5, CandidateFailsKeeps
    <3>6. CASE GraphSingle \/ ImapBatch
      <4>1. phase = "work"
        BY <3>6 DEF GraphSingle, ImapBatch
      <4> QED BY <4>1, <3>2, <3>3, CandidateFailsKeeps
    <3> QED BY <1>4, <3>5, <3>6
  <2>2. CASE ~GivenUp
    <3>1. /\ UNCHANGED <<callVars, phase, order, cands, scope, attempts, first, verdict>>
          /\ tries' \in {tries, 0}
      BY <1>4, <2>2, GiveUpKinds DEF Reply, OneByOne, GraphSingle, ImapBatch, Aside
    <3> QED BY <3>1, MailAssumption, SameCandidates DEF ChainInv, callVars
  <2> QED BY <2>1, <2>2
<1>5. CASE Export
  <2>1. /\ phase = "export" /\ phase' = "done"
        /\ UNCHANGED <<callVars, order, cands, scope, tries, attempts, first>>
        /\ verdict' = Bad("left_out") \/ verdict' = Good("none")
    BY <1>5 DEF Export
  <2>2. verdict' \in Verdicts /\ (Judged(verdict') \/ verdict'.kind = "left_out")
    <3>1. Bad("left_out") \in Verdicts /\ Bad("left_out").kind = "left_out"
      BY DEF Verdicts, Bad
    <3>2. Good("none") \in Verdicts /\ Judged(Good("none"))
      BY DEF Verdicts, Judged, Good
    <3> QED BY <2>1, <3>1, <3>2
  <2> QED BY <2>1, <2>2, SameCandidates DEF ChainInv, Phases, callVars
<1>6. CASE Cancel \/ Returned \/ UNCHANGED vars
  <2>1. UNCHANGED <<callVars, phase, order, cands, scope, tries, attempts, first, verdict>>
    BY <1>6 DEF Cancel, Returned, vars
  <2> QED BY <2>1, SameCandidates DEF ChainInv, callVars
<1> QED BY <1>1, <1>2, <1>3, <1>4, <1>5, <1>6 DEF Next, Quietly

\* The next chunk, and what is left after it.
LEMMA BatchIsPrefix ==
  ASSUME WorkInv
  PROVE  /\ rest \in Seq(ToSet(Asked)) /\ ToSet(rest) \subseteq ToSet(Asked)
         /\ batch \in Seq(ToSet(Asked)) /\ Len(batch) <= Chunk /\ Len(batch) <= Len(rest)
         /\ Len(batch) \in Nat /\ \A i \in 1..Len(batch) : batch[i] = rest[i]
         /\ EndOf(SubSeq(rest, Len(batch) + 1, Len(rest)), Asked)
<1>1. rest \in Seq(ToSet(Asked)) /\ ToSet(rest) \subseteq ToSet(Asked)
  BY MailAssumption, EndIsSeq DEF WorkInv
<1> DEFINE n == IF Len(rest) < Chunk THEN Len(rest) ELSE Chunk
<1>2. n \in 0..Len(rest) /\ n <= Chunk /\ n \in Nat /\ Len(rest) \in Nat
  BY <1>1, MailAssumption
<1> HIDE DEF n
<1>3. batch = SubSeq(rest, 1, n)
  BY DEF batch, n
<1>4. \A i \in 1..n : rest[i] \in ToSet(Asked)
  BY <1>1, <1>2, ElementOfSeq
<1>5. /\ batch \in Seq(ToSet(Asked)) /\ Len(batch) = n
      /\ \A i \in 1..n : batch[i] = rest[i]
  <2>1. /\ batch \in Seq(ToSet(Asked))
        /\ Len(batch) = IF 1 <= n THEN n - 1 + 1 ELSE 0
        /\ \A i \in 1..n - 1 + 1 : batch[i] = rest[1 + i - 1]
    BY <1>2, <1>3, <1>4, SubSeqProperties
  <2> QED BY <2>1, <1>2
<1>6. EndOf(SubSeq(rest, n + 1, Len(rest)), Asked)
  BY <1>1, <1>2, MailAssumption, EndOfEnd DEF WorkInv
<1> QED BY <1>1, <1>2, <1>5, <1>6

\* What is said is said of named messages.
LEMMA TellType ==
  ASSUME report \in [ToSet(Asked) -> {"none", "ok", "failed"}], NEW said, Tell(said),
         \A m \in DOMAIN said : said[m] \in {"ok", "failed"}
  PROVE  /\ report' \in [ToSet(Asked) -> {"none", "ok", "failed"}]
         /\ \A m \in ToSet(Asked) :
              report'[m] = IF m \in DOMAIN said THEN said[m] ELSE report[m]
BY DEF Tell

LEMMA SmallestNumber ==
  ASSUME NEW S \in SUBSET Nat, S # {}
  PROVE  Min(S) \in S /\ \A x \in S : Min(S) <= x
<1>1. PICK n \in S : \A m \in S : ~(<<m, n>> \in OpToRel(<, Nat))
  BY NatLessThanWellFounded, WFMin
<1>2. \A m \in S : ~(m < n)
  BY <1>1 DEF OpToRel
<1>3. \A m \in S : n <= m
  BY <1>2
<1> QED BY <1>3 DEF Min

\* The messages after the folder at the head, if any.
LEMMA NextFolder ==
  ASSUME WorkInv, rest # <<>>
  PROVE  /\ EndOf(IF Later = {} THEN <<>> ELSE SubSeq(rest, Min(Later), Len(rest)), Asked)
         /\ Later # {} => /\ Min(Later) \in Later /\ \A n \in Later : Min(Later) <= n
                          /\ Min(Later) \in 1..Len(rest)
<1>1. rest \in Seq(ToSet(Asked)) /\ DOMAIN rest = 1..Len(rest) /\ Len(rest) \in Nat
  BY BatchIsPrefix
<1>2. Later \in SUBSET (1..Len(rest)) /\ Later \in SUBSET Nat
  BY <1>1 DEF Later
<1>3. CASE Later = {}
  BY <1>3, MailAssumption, WholeIsEnd
<1>4. CASE Later # {}
  <2>1. Min(Later) \in Later /\ (\A n \in Later : Min(Later) <= n) /\ Min(Later) \in 1..Len(rest)
    BY <1>2, <1>4, SmallestNumber
  <2>2. PICK k \in 0..Len(rest) : Min(Later) = k + 1
    <3>1. Min(Later) - 1 \in 0..Len(rest) /\ Min(Later) = (Min(Later) - 1) + 1
      BY <1>1, <2>1
    <3> QED BY <3>1
  <2>3. EndOf(SubSeq(rest, k + 1, Len(rest)), Asked)
    BY <1>1, MailAssumption, EndOfEnd DEF WorkInv
  <2> QED BY <1>4, <2>1, <2>2, <2>3
<1> QED BY <1>3, <1>4

LEMMA FailingKeepsWork ==
  ASSUME NEW e, CandidateFails(e) \/ ChannelFails(e)
  PROVE  UNCHANGED <<rest, singles>>
BY DEF CandidateFails, ChannelFails, Finish

LEMMA WorkInit ==
  ASSUME Init
  PROVE  WorkInv
<1>1. EndOf(<<>>, Asked) /\ <<>> \in Seq(ToSet(Asked)) /\ Len(<<>>) <= Chunk
  BY MailAssumption, WholeIsEnd
<1>2. report = [m \in ToSet(Asked) |-> "none"] /\ rest = <<>> /\ singles = <<>>
  BY DEF Init
<1>3. done = {} /\ unheard = {} /\ flagged \subseteq Foreign
  BY DEF Init
<1>4. names \in Naming /\ (ids = "graph" => \A m \in ToSet(Asked) : names[m] = m)
  <2>1. PICK f : f = [m \in ToSet(Asked) |-> m]
    OBVIOUS
  <2>2. f \in Naming
    BY <2>1, MailAssumption DEF Naming, Messages
  <2>3. names = f \/ (names \in Naming /\ ids = "uid")
    BY <2>1 DEF Init
  <2> QED BY <2>1, <2>2, <2>3
<1> QED BY <1>1, <1>2, <1>3, <1>4 DEF WorkInv, Messages

\* What an id names is a message of its folder, or none.
LEMMA NamedIsMessage ==
  ASSUME WorkInv, NEW m \in ToSet(Asked)
  PROVE  /\ names[m] = Nobody \/ (names[m] \in Messages /\ FolderOf[names[m]] = FolderOf[m])
         /\ ids = "graph" => names[m] = m
BY DEF WorkInv, Naming

\* What a folder's command leads to, and what is said of it.
LEMMA ImapTells ==
  ASSUME ImapBatch, Named \subseteq Swept
  PROVE  \E said \in {"ok", "failed"}, hit \in SUBSET Swept, lost \in SUBSET Swept :
           /\ Tell([m \in Group |-> said])
           /\ done' = done \union hit /\ unheard' = unheard \union lost
           /\ said = "ok" => Named \subseteq hit /\ lost = {}
           /\ said = "failed" => lost = hit
<1> DEFINE Said(said, hit, lost) ==
      /\ Tell([m \in Group |-> said])
      /\ done' = done \union hit /\ unheard' = unheard \union lost
      /\ said = "ok" => Named \subseteq hit /\ lost = {}
      /\ said = "failed" => lost = hit
<1>1. CASE Tell([m \in Group |-> "failed"]) /\ done' = done /\ unheard' = unheard
  <2>1. Said("failed", {}, {})
    BY <1>1
  <2> HIDE DEF Said
  <2>2. \E said \in {"ok", "failed"}, hit \in SUBSET Swept, lost \in SUBSET Swept : Said(said, hit, lost)
    BY <2>1
  <2> QED BY <2>2 DEF Said
<1>2. ASSUME NEW hit \in SUBSET Swept, Tell([m \in Group |-> "failed"]),
             done' = done \union hit, unheard' = unheard \union hit
      PROVE  \E said \in {"ok", "failed"}, h \in SUBSET Swept, lost \in SUBSET Swept : Said(said, h, lost)
  <2>1. Said("failed", hit, hit)
    BY <1>2
  <2> HIDE DEF Said
  <2> QED BY <2>1
<1>3. ASSUME NEW targets \in {Named, Swept}, Tell([m \in Group |-> "ok"]),
             done' = done \union targets, unheard' = unheard
      PROVE  \E said \in {"ok", "failed"}, h \in SUBSET Swept, lost \in SUBSET Swept : Said(said, h, lost)
  <2>1. Said("ok", targets, {}) /\ targets \in SUBSET Swept
    BY <1>3
  <2> HIDE DEF Said
  <2> QED BY <2>1
<1>4. \/ Tell([m \in Group |-> "failed"]) /\ done' = done /\ unheard' = unheard
      \/ \E targets \in {Named, Swept} : ImapApply(targets)
  BY DEF ImapBatch, Applies, Failed
<1>5. ASSUME NEW targets \in {Named, Swept}, ImapApply(targets)
      PROVE  \/ \E hit \in SUBSET Swept : /\ Tell([m \in Group |-> "failed"])
                                          /\ done' = done \union hit /\ unheard' = unheard \union hit
             \/ Tell([m \in Group |-> "ok"]) /\ done' = done \union targets /\ unheard' = unheard
  BY <1>5 DEF ImapApply, Applies, Failed
<1> QED BY <1>1, <1>2, <1>3, <1>4, <1>5

LEMMA WorkStep ==
  ASSUME ChainInv, WorkInv, [Next]_vars
  PROVE  WorkInv'
<1>0. EndOf(<<>>, Asked) /\ EndOf(Asked, Asked) /\ <<>> \in Seq(ToSet(Asked)) /\ Len(<<>>) <= Chunk
  BY MailAssumption, WholeIsEnd
<1>n. UNCHANGED <<names, ids>>
  <2>1. UNCHANGED callVars
    BY QuietSteps, GiveUpKinds
       DEF Next, vars, Pick, Quietly, Quiet, RetryAfter, GivenUp, GiveUp, Reply, OneByOne, Aside,
           GraphSingle, ImapBatch, Export, Cancel, Returned
  <2> QED BY <2>1 DEF callVars
<1> USE <1>n
<1>1. CASE Pick
  <2>1. \/ UNCHANGED <<rest, singles>>
        \/ rest' \in {Asked, <<>>} /\ singles' = <<>>
    BY <1>1, FailingKeepsWork DEF Pick, Finish
  <2>2. report' = report \/ report' = [m \in DOMAIN report |-> "none"]
    BY <1>1 DEF Pick
  <2>3. UNCHANGED <<done, unheard, flagged>>
    BY <1>1 DEF Pick
  <2> QED BY <1>0, <2>1, <2>2, <2>3 DEF WorkInv
<1>2. CASE Quietly
  <2>1. UNCHANGED mailVars
    BY <1>2, QuietSteps DEF Quiet
  <2>2. \/ UNCHANGED <<rest, singles>>
        \/ rest' \in {Asked, <<>>} /\ singles' = <<>>
    BY <1>2, QuietSteps, FailingKeepsWork DEF Succeeds, Finish, Onward
  <2> QED BY <1>0, <2>1, <2>2 DEF WorkInv, mailVars
<1>3. CASE GraphBatch
  <2>1. CASE Reply
    <3>1. PICK hit \in SUBSET {m \in ToSet(batch) : Found(m)} :
            /\ Tell([m \in ToSet(batch) |-> IF m \in hit THEN "ok" ELSE "failed"])
            /\ done' = done \union hit /\ unheard' = unheard /\ flagged' = flagged
            /\ rest' = SubSeq(rest, Len(batch) + 1, Len(rest)) /\ singles' = <<>>
      BY <2>1 DEF Reply, Applies
    <3>2. report' \in [ToSet(Asked) -> {"none", "ok", "failed"}]
      BY <3>1, TellType DEF WorkInv
    <3>3. ToSet(batch) \subseteq ToSet(Asked) /\ EndOf(rest', Asked)
      BY <3>1, BatchIsPrefix DEF ToSet
    <3> QED BY <1>0, <3>1, <3>2, <3>3 DEF WorkInv, Messages
  <2>2. CASE \E hit \in SUBSET {m \in ToSet(batch) : Found(m)} : OneByOne(hit)
    <3>1. PICK hit \in SUBSET {m \in ToSet(batch) : Found(m)} : OneByOne(hit)
      BY <2>2
    <3>2. ToSet(batch) \subseteq ToSet(Asked) /\ EndOf(rest', Asked)
      BY <3>1, BatchIsPrefix DEF ToSet, OneByOne
    <3>3. singles' = batch /\ UNCHANGED <<report, flagged>>
          /\ done' = done \union hit /\ unheard' = unheard \union hit
      BY <3>1 DEF OneByOne, Applies
    <3> QED BY <3>1, <3>2, <3>3, BatchIsPrefix DEF WorkInv, Messages
  <2>3. CASE GivenUp
    <3>1. PICK kind \in Kinds \ {"network"}, hit \in SUBSET {m \in ToSet(batch) : Found(m)} : GiveUp(kind, hit)
      BY <2>3 DEF GivenUp
    <3>2. UNCHANGED <<rest, singles, flagged>> /\ report' = [m \in DOMAIN report |-> "none"]
          /\ done' = done \union hit /\ unheard' = unheard \union hit
      BY <3>1, FailingKeepsWork DEF GiveUp, Applies
    <3>3. ToSet(batch) \subseteq ToSet(Asked)
      BY BatchIsPrefix DEF ToSet
    <3> QED BY <3>2, <3>3 DEF WorkInv, Messages
  <2> QED BY <1>3, <2>1, <2>2, <2>3, GiveUpKinds
<1>4. CASE GraphSingle
  <2>1. Head(singles) \in ToSet(Asked) /\ singles # <<>>
    BY <1>4, HeadTailProperties DEF GraphSingle, WorkInv
  <2>2. PICK said \in {"ok", "failed"}, hit \in {{}, {Head(singles)}} :
          /\ Tell([x \in {Head(singles)} |-> said])
          /\ done' = done \union hit /\ unheard' \in {unheard, unheard \union hit}
    BY <1>4 DEF GraphSingle, Applies
  <2>3. report' \in [ToSet(Asked) -> {"none", "ok", "failed"}]
    BY <2>2, TellType DEF WorkInv
  <2>4. Tail(singles) \in Seq(ToSet(Asked)) /\ Len(Tail(singles)) <= Chunk
    <3>1. Tail(singles) \in Seq(ToSet(Asked)) /\ Len(Tail(singles)) = Len(singles) - 1
          /\ Len(singles) \in Nat
      BY <2>1, HeadTailProperties, EmptySeq DEF WorkInv
    <3> QED BY <3>1, MailAssumption DEF WorkInv
  <2>5. singles' = Tail(singles) /\ UNCHANGED <<rest, flagged>>
    BY <1>4 DEF GraphSingle
  <2> QED BY <2>1, <2>2, <2>3, <2>4, <2>5 DEF WorkInv, Messages
<1>5. CASE ImapBatch
  <2>1. Group \subseteq ToSet(Asked) /\ Named \subseteq Swept /\ Swept \subseteq Messages
    <3>1. Group \subseteq ToSet(Asked)
      BY BatchIsPrefix DEF Group
    <3>2. Named \subseteq Messages
      BY <3>1, NamedIsMessage DEF Named
    <3> QED BY <3>1, <3>2 DEF Swept, WorkInv
  <2>2. PICK said \in {"ok", "failed"}, hit \in SUBSET Swept :
          /\ Tell([m \in Group |-> said])
          /\ done' = done \union hit /\ unheard' \in {unheard, unheard \union hit}
    BY <1>5, <2>1, ImapTells
  <2>3. report' \in [ToSet(Asked) -> {"none", "ok", "failed"}]
    BY <2>2, TellType DEF WorkInv
  <2>4. EndOf(rest', Asked)
    BY <1>5, NextFolder DEF ImapBatch
  <2>5. singles' = singles /\ flagged' \in {flagged, flagged \union Named}
    BY <1>5 DEF ImapBatch
  <2> QED BY <2>1, <2>2, <2>3, <2>4, <2>5 DEF WorkInv, Messages
<1>6. CASE RetryAfter \/ Export \/ Cancel \/ Returned \/ UNCHANGED vars
  BY <1>6 DEF RetryAfter, Export, Cancel, Returned, vars, mailVars, WorkInv
<1> QED BY <1>1, <1>2, <1>3, <1>4, <1>5, <1>6 DEF Next, Quietly

\* A call keeps to its channels, candidates, scopes and chunks, and says no more than it may.
THEOREM TypeCorrect == Spec => []TypeOK
<1>1. Init => ChainInv /\ WorkInv
  BY ChainInit, WorkInit
<1>2. ChainInv /\ WorkInv /\ [Next]_vars => (ChainInv /\ WorkInv)'
  BY ChainStep, WorkStep
<1>3. ChainInv /\ WorkInv => TypeOK
  <2> SUFFICES ASSUME ChainInv, WorkInv PROVE TypeOK
    OBVIOUS
  <2>1. ToSet(order) \subseteq Channels /\ ToSet(cands) \subseteq ToSet(AllCandidates)
        /\ ToSet(singles) \subseteq ToSet(Asked)
    BY DEF ChainInv, WorkInv, ToSet
  <2>2. \A i \in DOMAIN attempts : attempts[i].channel \in Channels /\ attempts[i].kind \in Kinds
    <3>1. \A i \in DOMAIN attempts : attempts[i] \in Tried
      BY DEF ChainInv
    <3> QED BY <3>1 DEF Tried
  <2>3. verdict.ok \in BOOLEAN /\ (phase = "done" /\ ~verdict.ok => verdict.kind \in Kinds \union {"left_out"})
    BY DEF ChainInv, Judged, Verdicts
  <2> QED BY <2>1, <2>2, <2>3 DEF ChainInv, WorkInv, TypeOK, Phases, Connected
<1> QED BY <1>1, <1>2, <1>3, PTL DEF Spec

-----------------------------------------------------------------------------
(* No candidate is passed over that could be reached.                      *)

LEMMA CandidatesAt ==
  ASSUME NEW n \in 0..Len(AllCandidates) - 1,
         cands = SubSeq(AllCandidates, n + 1, Len(AllCandidates))
  PROVE  /\ proxy = AllCandidates[n + 1]
         /\ Len(cands) = Len(AllCandidates) - n
         /\ n + 1 < Len(AllCandidates) =>
              Tail(cands) = SubSeq(AllCandidates, (n + 1) + 1, Len(AllCandidates))
<1>1. /\ AllCandidates \in Seq(ToSet(AllCandidates)) /\ Len(AllCandidates) \in Nat \ {0}
      /\ n + 1 \in 1..Len(AllCandidates) /\ Len(AllCandidates) \in n + 1..Len(AllCandidates)
  BY CandidatesEndDirect
<1>2. /\ Head(cands) = AllCandidates[n + 1]
      /\ Tail(cands) = SubSeq(AllCandidates, (n + 1) + 1, Len(AllCandidates))
  BY <1>1, HeadTailOfSubSeq
<1>3. Len(cands) = IF n + 1 <= Len(AllCandidates) THEN Len(AllCandidates) - (n + 1) + 1 ELSE 0
  BY <1>1, SubSeqProperties
<1> QED BY <1>1, <1>2, <1>3 DEF proxy

\* A connection without a proxy that is in use was preceded by every proxy there is.
LEMMA HonouredNow ==
  ASSUME ChainInv, ProxyInv
  PROVE  ProxyHonoured
<1> SUFFICES ASSUME phase \in {"token", "login", "work"}, proxy = Direct,
                    NEW p \in ToSet(AllCandidates) \ {Direct}
             PROVE  nature[p] = "flaky" \/ (nature[p] = "httponly" /\ OverHTTP)
  BY DEF ProxyHonoured
<1>1. PICK n \in 0..Len(AllCandidates) - 1 :
        /\ cands = SubSeq(AllCandidates, n + 1, Len(AllCandidates))
        /\ \A i \in 1..n : Crossed(AllCandidates[i])
  BY DEF ProxyInv, Connected
<1>2. AllCandidates[n + 1] = Direct
  BY <1>1, CandidatesAt
<1>3. Len(AllCandidates) \in Nat \ {0} /\ n = Len(AllCandidates) - 1
  <2>1. Len(AllCandidates) \in Nat \ {0} /\ \A i \in 1..Len(AllCandidates) - 1 : AllCandidates[i] # Direct
    BY CandidatesEndDirect
  <2>2. n + 1 \notin 1..Len(AllCandidates) - 1
    BY <1>2, <2>1
  <2> QED BY <2>1, <2>2
<1>4. PICK i \in 1..Len(AllCandidates) : p = AllCandidates[i]
  <2>1. DOMAIN AllCandidates = 1..Len(AllCandidates)
    BY CandidatesEndDirect
  <2> QED BY <2>1 DEF ToSet
<1>5. i \in 1..n
  BY <1>2, <1>3, <1>4
<1> QED BY <1>1, <1>4, <1>5 DEF Crossed

\* A step away from the candidates, or back to the first.
LEMMA ProxyAway ==
  ASSUME phase' \notin Connected
  PROVE  ProxyInv'
BY DEF ProxyInv, Connected

LEMMA ProxySame ==
  ASSUME ProxyInv, UNCHANGED <<callVars, order, cands, phase>>
  PROVE  ProxyInv'
<1>1. AllCandidates' = AllCandidates /\ nature' = nature
  BY SameCandidates DEF callVars
<1>2. OverHTTP' = OverHTTP /\ proxy' = proxy /\ NatureOf' = NatureOf
  BY DEF OverHTTP, proxy, NatureOf, callVars, channel
<1> QED BY <1>1, <1>2 DEF ProxyInv, Crossed

LEMMA ProxyChannelFails ==
  ASSUME NEW e, ChannelFails(e)
  PROVE  ProxyInv'
<1>1. phase' \in {"pick", "done"}
  BY DEF ChannelFails, Finish
<1> QED BY <1>1, ProxyAway DEF Connected

LEMMA ProxyCandidateFails ==
  ASSUME ChainInv, ProxyInv, phase \in Connected, UNCHANGED callVars,
         NEW e, CandidateFails(e), e.kind = "network" => Unreached
  PROVE  ProxyInv'
<1>1. CASE \E f : ChannelFails(f)
  BY <1>1, ProxyChannelFails
<1>2. CASE ~StopsHere(e) /\ Len(cands) > 1 /\ cands' = Tail(cands) /\ phase' = "open" /\ order' = order
  <2>1. e.kind = "network"
    BY <1>2 DEF StopsHere, RetriableWithAnotherProxy
  <2>2. Crossed(proxy)
    BY <2>1 DEF Unreached, ProxyInv, Crossed, NatureOf, NewDialer
  <2>3. PICK n \in 0..Len(AllCandidates) - 1 :
          /\ cands = SubSeq(AllCandidates, n + 1, Len(AllCandidates))
          /\ \A i \in 1..n : Crossed(AllCandidates[i])
    BY DEF ProxyInv
  <2>4. /\ proxy = AllCandidates[n + 1] /\ n + 1 < Len(AllCandidates)
        /\ Tail(cands) = SubSeq(AllCandidates, (n + 1) + 1, Len(AllCandidates))
    <3>1. Len(AllCandidates) \in Nat
      BY CandidatesEndDirect
    <3>2. Len(cands) = Len(AllCandidates) - n
      BY <2>3, CandidatesAt
    <3>3. n + 1 < Len(AllCandidates)
      BY <1>2, <3>1, <3>2
    <3> QED BY <2>3, <3>3, CandidatesAt
  <2>5. \A i \in 1..n + 1 : Crossed(AllCandidates[i])
    <3> SUFFICES ASSUME NEW i \in 1..n + 1 PROVE Crossed(AllCandidates[i])
      OBVIOUS
    <3>1. CASE i = n + 1
      BY <3>1, <2>2, <2>4
    <3>2. CASE i # n + 1
      <4>1. i \in 1..n
        BY <3>2
      <4> QED BY <4>1, <2>3
    <3> QED BY <3>1, <3>2
  <2>6. AllCandidates' = AllCandidates /\ nature' = nature /\ OverHTTP' = OverHTTP
    BY <1>2, SameCandidates DEF callVars, OverHTTP, channel
  <2>7. n + 1 \in 0..Len(AllCandidates) - 1
    BY <2>4, CandidatesEndDirect
  <2>8. \E k \in 0..Len(AllCandidates) - 1 :
          /\ cands' = SubSeq(AllCandidates, k + 1, Len(AllCandidates))
          /\ \A i \in 1..k : Crossed(AllCandidates[i])
    BY <1>2, <2>4, <2>5, <2>7
  <2>9. (\E k \in 0..Len(AllCandidates) - 1 :
           /\ cands = SubSeq(AllCandidates, k + 1, Len(AllCandidates))
           /\ \A i \in 1..k : Crossed(AllCandidates[i]))'
    BY <2>6, <2>8 DEF Crossed
  <2> QED BY <1>2, <2>9 DEF ProxyInv
<1> QED BY <1>1, <1>2 DEF CandidateFails

LEMMA ProxyOnward ==
  ASSUME ChainInv, ProxyInv, UNCHANGED callVars, Onward
  PROVE  ProxyInv'
<1>1. AllCandidates' = AllCandidates /\ nature' = nature
  BY SameCandidates DEF callVars
<1>2. UNCHANGED <<order, cands>> /\ phase \in Connected
  BY DEF Onward, Connected
<1>3. OverHTTP' = OverHTTP /\ proxy' = proxy /\ NatureOf' = NatureOf
  BY <1>2 DEF OverHTTP, proxy, NatureOf, callVars, channel
<1>4. phase' \in {"token", "login", "work"}
  BY DEF Onward
<1>5. \/ Crossed(proxy)
      \/ phase' = "token" /\ NatureOf = "refuses"
  BY DEF Onward, ProxyInv, Crossed, NatureOf, NewDialer, NewHTTPClient
<1>6. Crossed(proxy)' <=> Crossed(proxy)
  BY <1>1, <1>3 DEF Crossed
<1>7. \E n \in 0..Len(AllCandidates) - 1 :
        /\ cands = SubSeq(AllCandidates, n + 1, Len(AllCandidates))
        /\ \A i \in 1..n : Crossed(AllCandidates[i])
  BY <1>2 DEF ProxyInv
<1>8. (\E n \in 0..Len(AllCandidates) - 1 :
         /\ cands = SubSeq(AllCandidates, n + 1, Len(AllCandidates))
         /\ \A i \in 1..n : Crossed(AllCandidates[i]))'
  BY <1>1, <1>2, <1>3, <1>7 DEF Crossed
<1> QED BY <1>3, <1>4, <1>5, <1>6, <1>8 DEF ProxyInv

LEMMA ProxyStep ==
  ASSUME ChainInv, ProxyInv, [Next]_vars
  PROVE  ProxyInv'
<1>1. CASE Pick
  <2>1. CASE phase' \notin Connected
    BY <2>1, ProxyAway
  <2>2. CASE cands' = AllCandidates /\ phase' = "open" /\ UNCHANGED callVars
    <3>1. AllCandidates' = AllCandidates
      BY <2>2, SameCandidates
    <3>2. /\ 0 \in 0..Len(AllCandidates) - 1
          /\ AllCandidates = SubSeq(AllCandidates, 0 + 1, Len(AllCandidates))
      BY CandidatesEndDirect, SubSeqFull
    <3>3. \A i \in 1..0 : Crossed(AllCandidates[i])'
      OBVIOUS
    <3> QED BY <2>2, <3>1, <3>2, <3>3 DEF ProxyInv
  <2> QED BY <1>1, <2>1, <2>2 DEF Pick, Finish, ChannelFails, Connected
<1>2. CASE Quietly
  <2>1. UNCHANGED callVars /\ phase \in Connected
    BY <1>2, QuietSteps DEF Quiet
  <2>2. CASE Succeeds
    <3>1. phase' \in {"pick", "done"}
      BY <2>2 DEF Succeeds, Finish
    <3> QED BY <3>1, ProxyAway DEF Connected
  <2> QED BY <1>2, <2>1, <2>2, QuietSteps, ProxyCandidateFails, ProxyChannelFails, ProxyOnward
<1>3. CASE GraphBatch \/ GraphSingle \/ ImapBatch
  <2>1. CASE GraphBatch /\ GivenUp
    <3>1. PICK kind \in Kinds \ {"network"}, hit \in SUBSET {m \in ToSet(batch) : Found(m)} : GiveUp(kind, hit)
      BY <2>1 DEF GivenUp
    <3>2. Error(kind, TRUE).kind # "network"
      BY DEF Error
    <3>3. UNCHANGED callVars /\ CandidateFails(Error(kind, TRUE)) /\ phase \in Connected
      BY <2>1, <3>1 DEF GiveUp, GraphBatch, Connected
    <3> QED BY <3>2, <3>3, ProxyCandidateFails
  <2>2. CASE ~(GraphBatch /\ GivenUp)
    <3>1. UNCHANGED <<callVars, phase, order, cands>>
      BY <1>3, <2>2, GiveUpKinds DEF Reply, OneByOne, GraphSingle, ImapBatch, Aside
    <3> QED BY <3>1, ProxySame
  <2> QED BY <2>1, <2>2
<1>4. CASE Export
  BY <1>4, ProxyAway DEF Export, Connected
<1>5. CASE RetryAfter \/ Cancel \/ Returned \/ UNCHANGED vars
  BY <1>5, ProxySame DEF RetryAfter, Cancel, Returned, vars
<1> QED BY <1>1, <1>2, <1>3, <1>4, <1>5 DEF Next, Quietly

\* No call goes out directly while a proxy that is set could have been reached, whatever the
\* channels, the candidates and the answers of proxies and servers (withSession, withProxy).
THEOREM ProxiesHonoured == Spec => []ProxyHonoured
<1>1. Init => ChainInv /\ ProxyInv
  <2>1. Init => phase \notin Connected
    BY DEF Init, Connected
  <2> QED BY <2>1, ChainInit DEF ProxyInv, Connected
<1>2. ChainInv /\ ProxyInv /\ [Next]_vars => (ChainInv /\ ProxyInv)'
  BY ChainStep, ProxyStep
<1>3. ChainInv /\ ProxyInv => ProxyHonoured
  BY HonouredNow
<1> QED BY <1>1, <1>2, <1>3, PTL DEF Spec


-----------------------------------------------------------------------------
(* What a batch says is true, and what it did is said.                     *)

\* Nothing is said after the step: the work has not begun, or it was given up.
LEMMA NothingSaid ==
  ASSUME WorkInv, BatchInv, UNCHANGED <<callVars, flagged>>,
         NEW hit, done' = done \union hit, unheard' = unheard \union hit,
         \A x \in hit : x \in ToSet(Asked) /\ names[x] = x,
         \A m \in ToSet(Asked) : report'[m] = "none", singles' = <<>>,
         flagged \intersect ToSet(Asked) = {},
         aborted' <=> (aborted \/ \E m \in ToSet(Asked) : report[m] # "none"),
         op \in Batches =>
           /\ phase' \in Connected => rest' = Asked
           /\ phase' = "done" => ~verdict'.ok
  PROVE  BatchInv'
<1>1. op' = op /\ uidplus' = uidplus /\ names' = names /\ flagged' = flagged
  BY DEF callVars
<1>2. Honest'
  <2>1. \A m \in ToSet(Asked) : names[m] \in done' => names[m] \in unheard' \/ aborted'
    BY DEF BatchInv, Honest
  <2>2. \A x \in done' : (\E m \in ToSet(Asked) : names[m] = x) \/ (x \in flagged /\ ~uidplus)
    BY DEF BatchInv, Honest
  <2> QED BY <1>1, <2>1, <2>2 DEF Honest
<1>3. Bounded'
  BY <1>1 DEF Bounded, Connected
<1>4. Left'
  <2>1. Treating' => rest' = Asked
    BY <1>1 DEF Treating, Connected
  <2>2. ToSet(<<>>) = {} /\ IsInjective(<<>>)
    BY DEF ToSet, IsInjective
  <2>3. Asked # <<>> => Head(Asked) \in ToSet(Asked)
    <3>1. Asked # <<>> => 1 \in DOMAIN Asked /\ Head(Asked) = Asked[1]
      BY MailAssumption, EmptySeq
    <3> QED BY <3>1 DEF ToSet
  <2> QED BY <2>1, <2>2, <2>3 DEF Left
<1> QED BY <1>2, <1>3, <1>4 DEF BatchInv

\* A failure ends the chain badly, or leads to the next channel or candidate.
LEMMA FailureGoesOn ==
  ASSUME op \in Batches, NEW e, CandidateFails(e) \/ ChannelFails(e)
  PROVE  /\ UNCHANGED <<rest, singles>> /\ phase' \in {"pick", "open", "done"}
         /\ phase' = "done" => ~verdict'.ok
         /\ ChannelFails(e) \/ StopsHere(e) => phase' # "open"
<1>1. ASSUME NEW f, ChannelFails(f)
      PROVE  /\ UNCHANGED <<rest, singles>> /\ phase' \in {"pick", "done"}
             /\ phase' = "done" => ~verdict'.ok
  <2>1. ~Bad(f.kind).ok
    BY DEF Bad
  <2>2. op # "all"
    BY DEF Batches
  <2> QED BY <1>1, <2>1, <2>2 DEF ChannelFails, Finish
<1>2. CASE StopsHere(e) \/ ChannelFails(e)
  BY <1>1, <1>2 DEF CandidateFails
<1>3. CASE ~StopsHere(e) /\ ~ChannelFails(e) /\ Len(cands) > 1
  BY <1>3 DEF CandidateFails
<1>4. CASE ~StopsHere(e) /\ ~ChannelFails(e) /\ ~(Len(cands) > 1)
  BY <1>1, <1>4 DEF CandidateFails
<1> QED BY <1>2, <1>3, <1>4

LEMMA BatchInit ==
  ASSUME Init
  PROVE  BatchInv
<1>1. /\ report = [m \in ToSet(Asked) |-> "none"] /\ rest = <<>> /\ singles = <<>>
      /\ phase \in {"export", "pick"} /\ done = {} /\ flagged \subseteq Foreign
  BY DEF Init
<1> QED BY <1>1, MailAssumption DEF BatchInv, Honest, Bounded, Left, Treating

\* The steps before and after the work on a batch.
LEMMA BatchQuiet ==
  ASSUME ChainInv, WorkInv, BatchInv, Pick \/ (Quietly /\ ~(op \in Batches /\ phase = "work"))
  PROVE  BatchInv'
<1>1. UNCHANGED <<callVars, done, flagged, unheard, aborted>> /\ phase \in Connected \union {"pick"}
  BY QuietSteps DEF Pick, Quiet, mailVars
<1>2. ~(op \in Batches /\ phase = "work") /\ phase # "done"
  BY <1>1 DEF Pick, Connected
<1>3. \A m \in ToSet(Asked) : report[m] = "none"
  BY <1>2 DEF BatchInv, Bounded
<1>4. \A m \in ToSet(Asked) : report'[m] = "none"
  <2>1. report' = report \/ report' = [m \in DOMAIN report |-> "none"]
    BY QuietSteps DEF Pick, Quiet, mailVars
  <2> QED BY <2>1, <1>3 DEF WorkInv
<1>5. singles = <<>> /\ flagged \intersect ToSet(Asked) = {}
  BY <1>2 DEF BatchInv, Bounded, Treating
<1>6. singles' = <<>>
  <2>1. CASE Pick
    BY <1>5, <2>1, FailingKeepsWork DEF Pick, Finish
  <2>2. CASE Quietly
    BY <1>5, <2>2, QuietSteps, FailingKeepsWork DEF Succeeds, Finish, Onward
  <2> QED BY <2>1, <2>2
<1>7. ASSUME op \in Batches
      PROVE  /\ phase' \in Connected => rest' = Asked
             /\ phase' = "done" => ~verdict'.ok
  <2>1. CASE Pick
    <3>1. CASE Finish(Bad("canceled"), attempts)
      BY <1>7, <3>1 DEF Finish, Batches, Bad, Connected
    <3>2. CASE ChannelFails(Error("provider_error", FALSE))
      BY <1>7, <3>2, FailureGoesOn DEF Connected
    <3>3. CASE phase' = "open" /\ rest' = Asked
      BY <3>3
    <3> QED BY <1>7, <2>1, <3>1, <3>2, <3>3 DEF Pick
  <2>2. CASE Quietly
    <3>1. phase \in {"open", "token", "login"}
      BY <1>2, <1>7, <2>2, QuietSteps DEF Connected
    <3>2. rest = Asked
      BY <1>7, <3>1 DEF BatchInv, Bounded
    <3>3. CASE Onward
      BY <1>7, <3>2, <3>3 DEF Onward
    <3>4. CASE \E e : CandidateFails(e) \/ ChannelFails(e)
      BY <1>7, <3>2, <3>4, FailureGoesOn
    <3> QED BY <1>7, <2>2, <3>1, <3>3, <3>4, QuietSteps
  <2> QED BY <2>1, <2>2
<1>8. PICK hit : hit = {}
  OBVIOUS
<1>h. done' = done \union hit /\ unheard' = unheard \union hit
  BY <1>1, <1>8
<1>9. aborted' <=> (aborted \/ \E m \in ToSet(Asked) : report[m] # "none")
  BY <1>1, <1>3
<1> QED BY <1>1, <1>4, <1>5, <1>6, <1>7, <1>8, <1>h, <1>9, NothingSaid

LEMMA EndInjective ==
  ASSUME NEW S, NEW t \in Seq(S), IsInjective(t), NEW s, EndOf(s, t)
  PROVE  IsInjective(s)
<1>1. PICK n \in 0..Len(t) : s = SubSeq(t, n + 1, Len(t))
  BY DEF EndOf
<1>2. Len(t) \in Nat /\ n + 1 \in Int /\ \A i \in n + 1..Len(t) : t[i] \in S
  BY ElementOfSeq
<1>3. /\ s \in Seq(S)
      /\ Len(s) = Len(t) - n
      /\ \A i \in 1..Len(t) - n : s[i] = t[n + i]
  <2>1. /\ s \in Seq(S)
        /\ Len(s) = IF n + 1 <= Len(t) THEN Len(t) - (n + 1) + 1 ELSE 0
        /\ \A i \in 1..Len(t) - (n + 1) + 1 : s[i] = t[n + 1 + i - 1]
    BY <1>1, <1>2, SubSeqProperties
  <2> QED BY <2>1, <1>2
<1> SUFFICES ASSUME NEW a \in DOMAIN s, NEW b \in DOMAIN s, s[a] = s[b]
             PROVE  a = b
  BY DEF IsInjective
<1>4. a \in 1..Len(t) - n /\ b \in 1..Len(t) - n
  BY <1>3
<1>5. t[n + a] = t[n + b] /\ n + a \in DOMAIN t /\ n + b \in DOMAIN t
  <2>1. DOMAIN t = 1..Len(t)
    OBVIOUS
  <2> QED BY <2>1, <1>2, <1>3, <1>4
<1>6. n + a = n + b
  BY <1>5 DEF IsInjective
<1> QED BY <1>4, <1>6

\* A chunk and what is left after it make up what there was, and share nothing.
LEMMA BatchSplits ==
  ASSUME WorkInv
  PROVE  /\ ToSet(rest) = ToSet(batch) \union ToSet(SubSeq(rest, Len(batch) + 1, Len(rest)))
         /\ ToSet(batch) \intersect ToSet(SubSeq(rest, Len(batch) + 1, Len(rest))) = {}
         /\ IsInjective(batch) /\ ToSet(rest) \subseteq ToSet(Asked)
<1>1. /\ rest \in Seq(ToSet(Asked)) /\ ToSet(rest) \subseteq ToSet(Asked)
      /\ batch \in Seq(ToSet(Asked)) /\ Len(batch) <= Len(rest)
      /\ Len(batch) \in Nat /\ \A i \in 1..Len(batch) : batch[i] = rest[i]
  BY BatchIsPrefix
<1>2. IsInjective(rest) /\ Len(rest) \in Nat /\ DOMAIN rest = 1..Len(rest)
      /\ DOMAIN batch = 1..Len(batch)
  BY <1>1, MailAssumption, EndInjective DEF WorkInv
<1> DEFINE k == Len(batch)
           R == SubSeq(rest, k + 1, Len(rest))
<1>3. /\ DOMAIN R = 1..Len(rest) - k
      /\ \A i \in 1..Len(rest) - k : R[i] = rest[k + i]
  <2>1. \A i \in k + 1..Len(rest) : rest[i] \in ToSet(Asked)
    BY <1>1, <1>2, ElementOfSeq
  <2>2. /\ R \in Seq(ToSet(Asked))
        /\ Len(R) = IF k + 1 <= Len(rest) THEN Len(rest) - (k + 1) + 1 ELSE 0
        /\ \A i \in 1..Len(rest) - (k + 1) + 1 : R[i] = rest[k + 1 + i - 1]
    BY <1>1, <1>2, <2>1, SubSeqProperties
  <2> QED BY <2>2, <1>1, <1>2
<1> HIDE DEF R
<1>4. ASSUME NEW x \in ToSet(rest) PROVE x \in ToSet(batch) \union ToSet(R)
  <2>1. PICK i \in 1..Len(rest) : x = rest[i]
    BY <1>2 DEF ToSet
  <2>2. CASE i <= k
    BY <1>1, <1>2, <2>1, <2>2 DEF ToSet
  <2>3. CASE ~(i <= k)
    <3>1. i - k \in 1..Len(rest) - k /\ k + (i - k) = i
      BY <1>1, <1>2, <2>1, <2>3
    <3>2. x = R[i - k] /\ i - k \in DOMAIN R
      BY <1>3, <2>1, <3>1
    <3> QED BY <3>2 DEF ToSet
  <2> QED BY <2>2, <2>3
<1>5. ASSUME NEW x \in ToSet(batch) PROVE \E i \in 1..k : x = rest[i]
  BY <1>1, <1>2, <1>5 DEF ToSet
<1>6. ASSUME NEW x \in ToSet(R) PROVE \E i \in k + 1..Len(rest) : x = rest[i]
  <2>1. PICK i \in 1..Len(rest) - k : x = rest[k + i]
    BY <1>3, <1>6 DEF ToSet
  <2>2. k + i \in k + 1..Len(rest)
    BY <1>1, <1>2, <2>1
  <2> QED BY <2>1, <2>2
<1>7. ToSet(batch) \subseteq ToSet(rest) /\ ToSet(R) \subseteq ToSet(rest)
  <2>1. \A i \in 1..Len(rest) : rest[i] \in ToSet(rest)
    BY <1>2 DEF ToSet
  <2>2. 1..k \subseteq 1..Len(rest) /\ k + 1..Len(rest) \subseteq 1..Len(rest)
    BY <1>1, <1>2
  <2> QED BY <1>5, <1>6, <2>1, <2>2
<1>8. ToSet(batch) \intersect ToSet(R) = {}
  <2> SUFFICES ASSUME NEW x \in ToSet(batch), x \in ToSet(R) PROVE FALSE
    OBVIOUS
  <2>1. PICK i \in 1..k : x = rest[i]
    BY <1>5
  <2>2. PICK j \in k + 1..Len(rest) : x = rest[j]
    BY <1>6
  <2>3. i \in DOMAIN rest /\ j \in DOMAIN rest /\ i # j
    BY <1>1, <1>2
  <2> QED BY <1>2, <2>1, <2>2, <2>3 DEF IsInjective
<1>9. IsInjective(batch)
  <2> SUFFICES ASSUME NEW a \in 1..k, NEW b \in 1..k, batch[a] = batch[b] PROVE a = b
    BY <1>2 DEF IsInjective
  <2>1. rest[a] = rest[b] /\ a \in DOMAIN rest /\ b \in DOMAIN rest
    BY <1>1, <1>2
  <2> QED BY <1>2, <2>1 DEF IsInjective
<1> QED BY <1>1, <1>4, <1>7, <1>8, <1>9 DEF R

\* On Graph, what is said of a few messages that were still to be treated.
LEMMA GraphTells ==
  ASSUME WorkInv, BatchInv, Treating, channel = "graph",
         UNCHANGED <<callVars, phase, order, verdict, flagged, aborted>>,
         NEW said, Tell(said), NEW hit, NEW lost \in SUBSET hit,
         hit # {} => ids = "graph",
         hit \subseteq DOMAIN said, DOMAIN said \subseteq ToSet(rest) \union ToSet(singles),
         \A m \in DOMAIN said : said[m] \in {"ok", "failed"},
         \A m \in DOMAIN said : said[m] = "ok" <=> m \in hit \ lost,
         done' = done \union hit, unheard' = unheard \union lost,
         ToSet(rest') \union ToSet(singles') = (ToSet(rest) \union ToSet(singles)) \ DOMAIN said,
         ToSet(rest') \intersect ToSet(singles') = {}, IsInjective(singles')
  PROVE  BatchInv'
<1>1. /\ \A m \in ToSet(rest) \union ToSet(singles) : report[m] = "none"
      /\ \A m \in ToSet(Asked) : report[m] = "none" => m \in ToSet(rest) \union ToSet(singles)
  BY DEF BatchInv, Left
<1>2. /\ report' \in [ToSet(Asked) -> {"none", "ok", "failed"}]
      /\ \A m \in ToSet(Asked) : report'[m] = IF m \in DOMAIN said THEN said[m] ELSE report[m]
  BY TellType DEF WorkInv
<1>3. channel' = channel /\ Treating' = Treating /\ phase = "work" /\ op \in Batches
      /\ op' = op /\ phase' = phase /\ uidplus' = uidplus /\ flagged' = flagged /\ names' = names
  BY DEF channel, Treating, callVars
<1>4. ToSet(rest) \union ToSet(singles) \subseteq ToSet(Asked)
  BY BatchSplits DEF WorkInv, ToSet
<1>5. Honest'
  <2>0. \A m \in ToSet(Asked) : hit # {} => names[m] = m
    BY NamedIsMessage
  <2>1. ASSUME NEW m \in ToSet(Asked), report'[m] = "ok"
        PROVE  names[m] \in done' \union {Nobody}
    <3>1. CASE m \in DOMAIN said
      <4>1. m \in hit
        BY <1>2, <2>1, <3>1
      <4> QED BY <2>0, <4>1
    <3>2. CASE m \notin DOMAIN said
      BY <1>2, <2>1, <3>2 DEF BatchInv, Honest
    <3> QED BY <3>1, <3>2
  <2>2. ASSUME NEW m \in ToSet(Asked), names[m] \in done'
        PROVE  report'[m] = "ok" \/ names[m] \in unheard' \/ aborted'
    <3>1. CASE names[m] \in hit
      <4>1. m = names[m] /\ m \in DOMAIN said
        BY <2>0, <3>1
      <4> QED BY <1>2, <3>1, <4>1
    <3>2. CASE names[m] \notin hit /\ m \in DOMAIN said
      <4>1. report[m] = "none"
        BY <1>1, <3>2
      <4> QED BY <2>2, <3>2, <4>1 DEF BatchInv, Honest
    <3>3. CASE names[m] \notin hit /\ m \notin DOMAIN said
      BY <1>2, <2>2, <3>3 DEF BatchInv, Honest
    <3> QED BY <3>1, <3>2, <3>3
  <2>3. \A x \in hit : x \in ToSet(Asked) /\ names[x] = x
    BY <1>4, <2>0
  <2>4. \A x \in done' : (\E m \in ToSet(Asked) : names[m] = x) \/ (x \in flagged /\ ~uidplus)
    BY <2>3 DEF BatchInv, Honest
  <2> QED BY <1>3, <2>1, <2>2, <2>4 DEF Honest
<1>6. Bounded'
  BY <1>3 DEF BatchInv, Bounded
<1>7. Left'
  <2>1. \A m \in ToSet(Asked) : report'[m] = "none" => m \in ToSet(rest') \union ToSet(singles')
    BY <1>1, <1>2
  <2>2. \A m \in ToSet(rest') \union ToSet(singles') : report'[m] = "none"
    BY <1>1, <1>2, <1>4
  <2> QED BY <1>3, <2>1, <2>2 DEF Left
<1> QED BY <1>5, <1>6, <1>7 DEF BatchInv

LEMMA BatchGraph ==
  ASSUME WorkInv, BatchInv, GraphBatch
  PROVE  BatchInv'
<1>1. Treating /\ channel = "graph" /\ singles = <<>> /\ phase = "work" /\ op \in Batches
  BY DEF GraphBatch, Treating
<1>2. ToSet(<<>>) = {} /\ IsInjective(<<>>)
  BY DEF ToSet, IsInjective
<1> DEFINE R == SubSeq(rest, Len(batch) + 1, Len(rest))
<1>3. /\ ToSet(rest) = ToSet(batch) \union ToSet(R) /\ ToSet(batch) \intersect ToSet(R) = {}
      /\ IsInjective(batch) /\ ToSet(rest) \subseteq ToSet(Asked)
  BY BatchSplits
<1> HIDE DEF R
<1>4. CASE Reply
  <2>1. PICK hit \in SUBSET ToSet(batch) :
          /\ hit # {} => ids = "graph"
          /\ Tell([m \in ToSet(batch) |-> IF m \in hit THEN "ok" ELSE "failed"])
          /\ done' = done \union hit /\ unheard' = unheard
          /\ rest' = R /\ singles' = <<>>
          /\ UNCHANGED <<callVars, phase, order, verdict, flagged, aborted>>
    BY <1>4 DEF Reply, Applies, Aside, R, Found
  <2> DEFINE said == [m \in ToSet(batch) |-> IF m \in hit THEN "ok" ELSE "failed"]
  <2>2. /\ DOMAIN said = ToSet(batch) /\ \A m \in ToSet(batch) : said[m] \in {"ok", "failed"}
        /\ \A m \in ToSet(batch) : said[m] = "ok" <=> m \in hit
    OBVIOUS
  <2> HIDE DEF said
  <2>3. Tell(said)
    BY <2>1 DEF said
  <2>4. {} \in SUBSET hit /\ unheard' = unheard \union {} /\ hit \ {} = hit
    BY <2>1
  <2>5. /\ ToSet(rest') \union ToSet(singles') = (ToSet(rest) \union ToSet(singles)) \ DOMAIN said
        /\ ToSet(rest') \intersect ToSet(singles') = {} /\ IsInjective(singles')
        /\ DOMAIN said \subseteq ToSet(rest) \union ToSet(singles)
    BY <1>1, <1>2, <1>3, <2>1, <2>2
  <2> QED BY <1>1, <2>1, <2>2, <2>3, <2>4, <2>5, GraphTells
<1>5. CASE \E hit \in SUBSET {m \in ToSet(batch) : Found(m)} : OneByOne(hit)
  <2>1. PICK hit \in SUBSET ToSet(batch) :
          /\ hit # {} => ids = "graph"
          /\ done' = done \union hit /\ unheard' = unheard \union hit
          /\ rest' = R /\ singles' = batch
          /\ UNCHANGED <<callVars, phase, order, verdict, report, flagged, aborted>>
    BY <1>5 DEF OneByOne, Applies, Aside, R, Found
  <2>2. Honest'
    <3>1. \A x \in hit : x \in ToSet(Asked) /\ names[x] = x
      BY <1>3, <2>1, NamedIsMessage
    <3>2. names' = names /\ uidplus' = uidplus
      BY <2>1 DEF callVars
    <3>3. \A x \in done' : (\E m \in ToSet(Asked) : names[m] = x) \/ (x \in flagged /\ ~uidplus)
      BY <2>1, <3>1 DEF BatchInv, Honest
    <3> QED BY <2>1, <3>2, <3>3 DEF BatchInv, Honest
  <2>3. channel' = channel /\ Treating' = Treating /\ op' = op
    BY <2>1 DEF channel, Treating, callVars
  <2>4. Bounded'
    BY <1>1, <2>1, <2>3 DEF BatchInv, Bounded
  <2>5. Left'
    BY <1>1, <1>2, <1>3, <2>1, <2>3 DEF BatchInv, Left
  <2> QED BY <2>2, <2>4, <2>5 DEF BatchInv
<1>6. CASE GivenUp
  <2>1. PICK kind \in Kinds \ {"network"}, hit \in SUBSET {m \in ToSet(batch) : Found(m)} : GiveUp(kind, hit)
    BY <1>6 DEF GivenUp
  <2>2. PICK e : e = Error(kind, TRUE) /\ CandidateFails(e) /\ StopsHere(e)
    BY <2>1 DEF GiveUp, Error, StopsHere, RetriableWithAnotherProxy
  <2>3. /\ UNCHANGED <<rest, singles>> /\ phase' \in {"pick", "done"}
        /\ phase' = "done" => ~verdict'.ok
    BY <1>1, <2>2, FailureGoesOn
  <2>4. /\ UNCHANGED <<callVars, flagged>>
        /\ done' = done \union hit /\ unheard' = unheard \union hit
        /\ \A m \in ToSet(Asked) : report'[m] = "none"
        /\ aborted' <=> (aborted \/ \E m \in ToSet(Asked) : report[m] # "none")
    BY <2>1 DEF GiveUp, Applies, WorkInv
  <2>5. flagged \intersect ToSet(Asked) = {}
    BY <1>1 DEF BatchInv, Bounded
  <2>6. \A x \in hit : x \in ToSet(Asked) /\ names[x] = x
    BY <1>3, NamedIsMessage DEF Found
  <2> QED BY <1>1, <2>3, <2>4, <2>5, <2>6, NothingSaid DEF Connected
<1> QED BY <1>4, <1>5, <1>6, GiveUpKinds

LEMMA BatchSingle ==
  ASSUME WorkInv, BatchInv, GraphSingle
  PROVE  BatchInv'
<1>1. Treating /\ channel = "graph" /\ singles # <<>>
  BY DEF GraphSingle, BatchInv, Bounded
<1>2. /\ ToSet(rest) \intersect ToSet(singles) = {} /\ IsInjective(singles)
      /\ singles \in Seq(ToSet(Asked))
  BY <1>1 DEF BatchInv, Left, WorkInv
<1>3. Head(singles) \in ToSet(singles)
  <2>1. 1 \in DOMAIN singles /\ Head(singles) = singles[1]
    BY <1>1, <1>2, EmptySeq
  <2> QED BY <2>1 DEF ToSet
<1>4. IsInjective(Tail(singles)) /\ ToSet(Tail(singles)) = ToSet(singles) \ {Head(singles)}
  BY <1>1, <1>2, TailInjective
<1>5. PICK m : m = Head(singles)
  OBVIOUS
<1>6. PICK word \in {"ok", "failed"}, hit \in SUBSET {m}, lost \in SUBSET {m} :
        /\ hit # {} => ids = "graph"
        /\ Tell([x \in {m} |-> word]) /\ (word = "ok" <=> m \in hit \ lost)
        /\ done' = done \union hit /\ unheard' = unheard \union lost /\ lost \subseteq hit
  <2> DEFINE Said(word, hit, lost) ==
        /\ hit # {} => ids = "graph"
        /\ Tell([x \in {m} |-> word]) /\ (word = "ok" <=> m \in hit \ lost)
        /\ done' = done \union hit /\ unheard' = unheard \union lost /\ lost \subseteq hit
  <2>1. \/ Tell([x \in {m} |-> "failed"]) /\ done' = done /\ unheard' = unheard
        \/ ids = "graph" /\ Tell([x \in {m} |-> "ok"]) /\ done' = done \union {m} /\ unheard' = unheard
        \/ ids = "graph" /\ Tell([x \in {m} |-> "failed"]) /\ done' = done \union {m} /\ unheard' = unheard \union {m}
    BY <1>5 DEF GraphSingle, Applies, Found
  <2>2. Said("failed", {}, {}) \/ Said("ok", {m}, {}) \/ Said("failed", {m}, {m})
    BY <2>1
  <2> QED BY <2>2
<1>7. /\ singles' = Tail(singles) /\ rest' = rest
      /\ UNCHANGED <<callVars, phase, order, verdict, flagged, aborted>>
  BY DEF GraphSingle, Aside
<1> DEFINE said == [x \in {m} |-> word]
<1>8. /\ DOMAIN said = {m} /\ said[m] = word
  OBVIOUS
<1> HIDE DEF said
<1>9. Tell(said)
  BY <1>6 DEF said
<1>10. /\ ToSet(rest') \union ToSet(singles') = (ToSet(rest) \union ToSet(singles)) \ DOMAIN said
       /\ ToSet(rest') \intersect ToSet(singles') = {} /\ IsInjective(singles')
       /\ DOMAIN said \subseteq ToSet(rest) \union ToSet(singles)
  BY <1>2, <1>3, <1>4, <1>5, <1>7, <1>8
<1>11. hit \subseteq DOMAIN said /\ lost \in SUBSET hit
  BY <1>6, <1>8
<1>12. \A x \in DOMAIN said : said[x] \in {"ok", "failed"}
  BY <1>6, <1>8
<1>13. \A x \in DOMAIN said : said[x] = "ok" <=> x \in hit \ lost
  BY <1>6, <1>8
<1>14. done' = done \union hit /\ unheard' = unheard \union lost
  BY <1>6
<1>15. Treating /\ channel = "graph"
       /\ UNCHANGED <<callVars, phase, order, verdict, flagged, aborted>>
  BY <1>1, <1>7
<1>16. ToSet(rest') \intersect ToSet(singles') = {} /\ IsInjective(singles')
  BY <1>10
<1>17. DOMAIN said \subseteq ToSet(rest) \union ToSet(singles)
  BY <1>10
<1>18. ToSet(rest') \union ToSet(singles') = (ToSet(rest) \union ToSet(singles)) \ DOMAIN said
  BY <1>10
<1>19. hit # {} => ids = "graph"
  BY <1>6
<1> QED BY <1>9, <1>19, <1>11, <1>12, <1>13, <1>14, <1>15, <1>16, <1>17, <1>18, GraphTells

LEMMA BatchEnds ==
  ASSUME BatchInv, BatchEnd
  PROVE  BatchInv'
<1>1. /\ Treating /\ op \in Batches /\ rest = <<>> /\ singles = <<>> /\ phase = "work"
      /\ UNCHANGED <<callVars, mailVars>>
  BY DEF BatchEnd, Treating, Quiet
<1>2. phase' = "done" /\ UNCHANGED <<rest, singles>>
  BY <1>1 DEF BatchEnd, Succeeds, Finish, Batches
<1>3. \A m \in ToSet(Asked) : report[m] # "none"
  BY <1>1 DEF BatchInv, Left, ToSet
<1>4. Honest'
  BY <1>1 DEF BatchInv, Honest, callVars, mailVars
<1>5. Bounded'
  BY <1>1, <1>2, <1>3 DEF BatchInv, Bounded, callVars, mailVars, Treating
<1>6. Left'
  BY <1>2 DEF Left, Treating
<1> QED BY <1>4, <1>5, <1>6 DEF BatchInv

\* The messages of the folder at the head are those of whom nothing is said there.
LEMMA FolderIsFresh ==
  ASSUME WorkInv, BatchInv, Treating, channel # "graph", rest # <<>>
  PROVE  /\ \A m \in ToSet(Asked) : m \in Group <=> FolderOf[m] = FolderOf[Head(rest)]
         /\ \A m \in Group : report[m] = "none"
         /\ Group \subseteq ToSet(Asked) /\ Head(rest) \in ToSet(Asked) /\ report[Head(rest)] = "none"
<1>1. rest \in Seq(ToSet(Asked)) /\ ToSet(rest) \subseteq ToSet(Asked)
  BY BatchIsPrefix
<1>2. Head(rest) \in ToSet(Asked) /\ report[Head(rest)] = "none"
  BY <1>1, HeadTailProperties DEF BatchInv, Left
<1>3. ToSet(singles) = {}
  BY DEF BatchInv, Bounded, ToSet
<1>4. \A m \in ToSet(Asked) : FolderOf[m] = FolderOf[Head(rest)] => report[m] = "none" /\ m \in ToSet(rest)
  BY <1>2, <1>3 DEF BatchInv, Left
<1> QED BY <1>1, <1>2, <1>4 DEF Group

\* What comes after the folder at the head begins with a message of whom nothing is said, and
\* holds every such message.
LEMMA LaterIsLeft ==
  ASSUME WorkInv, rest # <<>>,
         NEW r, r = IF Later = {} THEN <<>> ELSE SubSeq(rest, Min(Later), Len(rest))
  PROVE  /\ \A m \in ToSet(rest) : m \notin Group /\ report[m] = "none" => m \in ToSet(r)
         /\ r # <<>> => /\ Head(r) \in ToSet(rest) /\ Head(r) \notin Group
                        /\ report[Head(r)] = "none"
<1>1. rest \in Seq(ToSet(Asked)) /\ DOMAIN rest = 1..Len(rest) /\ Len(rest) \in Nat
  BY BatchIsPrefix
<1>2. \A m \in ToSet(rest) : m \notin Group /\ report[m] = "none" => \E n \in Later : m = rest[n]
  BY DEF ToSet, Later
<1>3. CASE Later = {}
  BY <1>2, <1>3
<1>4. CASE Later # {}
  <2>1. PICK k \in 1..Len(rest) : k = Min(Later) /\ k \in Later /\ \A n \in Later : k <= n
    BY <1>4, NextFolder
  <2>2. \A i \in k..Len(rest) : rest[i] \in ToSet(Asked)
    BY <1>1, <2>1, ElementOfSeq
  <2>3. r = SubSeq(rest, k, Len(rest))
    BY <1>4, <2>1
  <2>4. /\ r \in Seq(ToSet(Asked)) /\ Len(r) = Len(rest) - k + 1
        /\ \A i \in 1..Len(rest) - k + 1 : r[i] = rest[k + i - 1]
    <3>1. k \in Int /\ Len(rest) \in Int
      BY <1>1
    <3>2. /\ SubSeq(rest, k, Len(rest)) \in Seq(ToSet(Asked))
          /\ Len(SubSeq(rest, k, Len(rest))) = IF k <= Len(rest) THEN Len(rest) - k + 1 ELSE 0
          /\ \A i \in 1..Len(rest) - k + 1 : SubSeq(rest, k, Len(rest))[i] = rest[k + i - 1]
      BY <1>1, <3>1, <2>2, SubSeqProperties
    <3>3. k <= Len(rest)
      BY <1>1
    <3> HIDE DEF Later
    <3> QED BY <2>3, <3>2, <3>3, Zenon
  <2>5. Head(r) = rest[k] /\ r # <<>>
    <3>1. r[1] = rest[k + 1 - 1] /\ k + 1 - 1 = k /\ Len(r) # 0
      BY <1>1, <2>1, <2>4
    <3>2. r # <<>>
      BY <3>1, <2>4, EmptySeq
    <3>3. Head(r) = r[1]
      BY <3>2, <2>4
    <3> QED BY <3>1, <3>2, <3>3
  <2>6. Head(r) \in ToSet(rest) /\ Head(r) \notin Group /\ report[Head(r)] = "none"
    BY <1>1, <2>1, <2>5 DEF Later, ToSet
  <2>7. ASSUME NEW m \in ToSet(rest), m \notin Group, report[m] = "none"
        PROVE  m \in ToSet(r)
    <3>1. PICK n \in Later : m = rest[n]
      BY <1>2, <2>7
    <3>2. n \in 1..Len(rest) /\ k <= n
      BY <1>1, <2>1 DEF Later
    <3>3. n - k + 1 \in 1..Len(rest) - k + 1 /\ k + (n - k + 1) - 1 = n
      BY <1>1, <2>1, <3>2
    <3>4. PICK p \in 1..Len(rest) - k + 1 : k + p - 1 = n
      BY <3>3
    <3>5. r[p] = rest[k + p - 1] /\ DOMAIN r = 1..Len(r)
      BY <2>4
    <3>6. r[p] = m /\ p \in DOMAIN r
      BY <2>4, <3>1, <3>4, <3>5
    <3> QED BY <3>6 DEF ToSet
  <2> QED BY <2>6, <2>7
<1> QED BY <1>3, <1>4

LEMMA BatchFolder ==
  ASSUME WorkInv, BatchInv, ImapBatch
  PROVE  BatchInv'
<1>1. Treating /\ channel # "graph" /\ rest # <<>> /\ op \in Batches /\ phase = "work"
  BY DEF ImapBatch, Treating
<1>2. /\ \A m \in ToSet(Asked) : m \in Group <=> FolderOf[m] = FolderOf[Head(rest)]
      /\ \A m \in Group : report[m] = "none"
      /\ Group \subseteq ToSet(Asked) /\ Head(rest) \in ToSet(Asked) /\ report[Head(rest)] = "none"
  BY <1>1, FolderIsFresh
<1>3. /\ singles = <<>> /\ singles' = <<>> /\ op' = op /\ uidplus' = uidplus /\ names' = names
      /\ channel' = channel /\ Treating' = Treating /\ phase' = phase /\ aborted' = aborted
  BY <1>1 DEF BatchInv, Bounded, ImapBatch, Aside, callVars, Treating, channel
<1>4. /\ Named \subseteq Swept
      /\ \A x \in Swept : (\E m \in Group : names[m] = x) \/ (x \in flagged /\ ~uidplus)
  BY DEF Swept, Named
<1>n. ASSUME NEW m \in ToSet(Asked), names[m] \in Swept
      PROVE  m \in Group
  <2>1. CASE names[m] \in Named
    <3>1. PICK k \in Group : names[m] = names[k] /\ names[m] # Nobody
      BY <2>1 DEF Named
    <3>2. m = k
      BY <1>2, <3>1 DEF WorkInv, Naming
    <3> QED BY <3>2
  <2>2. CASE names[m] \in flagged /\ FolderOf[names[m]] = FolderOf[Head(rest)]
    <3>1. names[m] # Nobody
      BY <2>2, MailAssumption DEF WorkInv, Messages
    <3>2. FolderOf[m] = FolderOf[Head(rest)]
      BY <2>2, <3>1, NamedIsMessage
    <3> QED BY <1>2, <3>2
  <2> QED BY <1>n, <2>1, <2>2 DEF Swept
<1>5. PICK word \in {"ok", "failed"}, hit \in SUBSET Swept, lost \in SUBSET Swept :
        /\ Tell([m \in Group |-> word])
        /\ done' = done \union hit /\ unheard' = unheard \union lost
        /\ word = "ok" => Named \subseteq hit /\ lost = {}
        /\ word = "failed" => lost = hit
  BY <1>4, ImapTells
<1>6. \A m \in ToSet(Asked) : report'[m] = IF m \in Group THEN word ELSE report[m]
  BY <1>5, TellType DEF WorkInv
<1>7. \/ flagged' = flagged
      \/ flagged' = flagged \union Named
  BY DEF ImapBatch
<1>8. Honest'
  <2>1. ASSUME NEW m \in ToSet(Asked), report'[m] = "ok"
        PROVE  names[m] \in done' \union {Nobody}
    <3>1. CASE m \in Group
      <4>1. word = "ok" /\ (names[m] = Nobody \/ names[m] \in Named)
        BY <1>6, <2>1, <3>1 DEF Named
      <4> QED BY <1>5, <4>1
    <3>2. CASE m \notin Group
      BY <1>5, <1>6, <2>1, <3>2 DEF BatchInv, Honest
    <3> QED BY <3>1, <3>2
  <2>2. ASSUME NEW m \in ToSet(Asked), names[m] \in done'
        PROVE  report'[m] = "ok" \/ names[m] \in unheard' \/ aborted'
    <3>1. CASE names[m] \in hit
      <4>1. report'[m] = word
        BY <1>n, <1>6, <3>1
      <4> QED BY <1>5, <3>1, <4>1
    <3>2. CASE names[m] \notin hit
      <4>1. report[m] = "ok" \/ names[m] \in unheard \/ aborted
        BY <1>5, <2>2, <3>2 DEF BatchInv, Honest
      <4>2. report[m] = "ok" => report'[m] = "ok"
        BY <1>2, <1>6
      <4> QED BY <1>3, <1>5, <4>1, <4>2
    <3> QED BY <3>1, <3>2
  <2>3. ASSUME NEW x \in done'
        PROVE  (\E m \in ToSet(Asked) : names[m] = x) \/ (x \in flagged /\ ~uidplus)
    <3>1. CASE x \in hit
      BY <1>2, <1>4, <3>1
    <3>2. CASE x \notin hit
      BY <1>5, <2>3, <3>2 DEF BatchInv, Honest
    <3> QED BY <3>1, <3>2
  <2>4. flagged \subseteq flagged'
    BY <1>7
  <2> QED BY <1>3, <2>1, <2>2, <2>3, <2>4 DEF Honest
<1>9. Bounded'
  <2>1. ASSUME NEW x \in flagged' \intersect ToSet(Asked)
        PROVE  report'[x] # "none"
    <3>1. CASE x \in flagged
      BY <1>1, <1>6, <2>1, <3>1 DEF BatchInv, Bounded
    <3>2. CASE x \in Named
      <4>1. PICK k \in Group : x = names[k] /\ x # Nobody
        BY <3>2 DEF Named
      <4>2. FolderOf[x] = FolderOf[k]
        BY <1>2, <4>1, NamedIsMessage
      <4>3. x \in Group
        BY <1>2, <2>1, <4>2
      <4> QED BY <1>6, <2>1, <4>3
    <3> QED BY <1>7, <2>1, <3>1, <3>2
  <2> QED BY <1>1, <1>3, <2>1 DEF BatchInv, Bounded
<1>10. Left'
  <2>1. rest' = IF Later = {} THEN <<>> ELSE SubSeq(rest, Min(Later), Len(rest))
    BY DEF ImapBatch
  <2>2. /\ \A m \in ToSet(rest) : m \notin Group /\ report[m] = "none" => m \in ToSet(rest')
        /\ rest' # <<>> => /\ Head(rest') \in ToSet(rest) /\ Head(rest') \notin Group
                           /\ report[Head(rest')] = "none"
    BY <1>1, <2>1, LaterIsLeft
  <2>3. ToSet(singles) = {} /\ ToSet(singles') = {}
    BY <1>3 DEF ToSet
  <2>4. \A m \in ToSet(Asked) : report'[m] = "none" => m \in ToSet(rest')
    BY <1>1, <1>6, <2>2, <2>3 DEF BatchInv, Left
  <2>5. rest' # <<>> => report'[Head(rest')] = "none"
    BY <1>6, <2>2, BatchIsPrefix
  <2>6. ASSUME NEW m \in ToSet(Asked), NEW k \in ToSet(Asked), FolderOf[m] = FolderOf[k]
        PROVE  report'[m] = "none" <=> report'[k] = "none"
    BY <1>1, <1>2, <1>6, <2>6 DEF BatchInv, Left
  <2> QED BY <1>1, <1>3, <2>4, <2>5, <2>6 DEF Left
<1> QED BY <1>8, <1>9, <1>10 DEF BatchInv

LEMMA BatchStep ==
  ASSUME ChainInv, WorkInv, BatchInv, [Next]_vars
  PROVE  BatchInv'
<1>1. CASE Pick
  BY <1>1, BatchQuiet
<1>2. CASE Quietly
  <2>1. CASE ~(op \in Batches /\ phase = "work")
    BY <1>2, <2>1, BatchQuiet
  <2>2. CASE op \in Batches /\ phase = "work"
    <3>1. BatchEnd
      BY <1>2, <2>2 DEF Quietly, Open, FetchToken, FetchAccessToken, Authenticate, GraphRead,
                        ImapList, ImapDetail, Batches
    <3> QED BY <3>1, BatchEnds
  <2> QED BY <2>1, <2>2
<1>3. CASE GraphBatch \/ GraphSingle \/ ImapBatch
  BY <1>3, BatchGraph, BatchSingle, BatchFolder
<1>4. CASE Export
  <2>1. /\ phase = "export" /\ op \notin Batches
        /\ UNCHANGED <<callVars, report, done, flagged, unheard, aborted, singles>>
    BY <1>4 DEF Export, ChainInv, Batches, mailVars
  <2>2. /\ \A m \in ToSet(Asked) : report[m] = "none"
        /\ singles = <<>> /\ flagged \intersect ToSet(Asked) = {}
    BY <2>1 DEF BatchInv, Bounded, Treating
  <2>3. PICK hit : hit = {}
    OBVIOUS
  <2>6. done' = done \union hit /\ unheard' = unheard \union hit
    BY <2>1, <2>3
  <2>4. aborted' <=> (aborted \/ \E m \in ToSet(Asked) : report[m] # "none")
    BY <2>1, <2>2
  <2>5. \A m \in ToSet(Asked) : report'[m] = "none"
    BY <2>1, <2>2
  <2> QED BY <2>1, <2>2, <2>3, <2>4, <2>5, <2>6, NothingSaid
<1>5. CASE RetryAfter \/ Cancel \/ Returned \/ UNCHANGED vars
  <2>1. UNCHANGED <<callVars, mailVars, phase, order, rest, singles, verdict>>
    BY <1>5 DEF RetryAfter, Cancel, Returned, vars
  <2>2. channel' = channel /\ Treating' = Treating /\ op' = op
    BY <2>1 DEF channel, Treating, callVars
  <2>3. Honest'
    BY <2>1 DEF BatchInv, Honest, callVars, mailVars
  <2>4. Bounded'
    BY <2>1, <2>2 DEF BatchInv, Bounded, mailVars
  <2>5. Left'
    BY <2>1, <2>2 DEF BatchInv, Left, mailVars
  <2> QED BY <2>3, <2>4, <2>5 DEF BatchInv
<1> QED BY <1>1, <1>2, <1>3, <1>4, <1>5 DEF Next, Quietly

\* What a batch reports done was done to the message that the id names, if it names one; what
\* it did unreported lost its reply or was given up and done again; and no message is touched
\* that no id names but one that was flagged already on a server without UIDPLUS: for any
\* messages, folders, chunks and UIDs gone stale (graph/batch.go, imapx/ops.go).
THEOREM ReportsHold == Spec => []ReportsExplained
<1>1. Init => ChainInv /\ WorkInv /\ BatchInv
  BY ChainInit, WorkInit, BatchInit
<1>2. ChainInv /\ WorkInv /\ BatchInv /\ [Next]_vars => (ChainInv /\ WorkInv /\ BatchInv)'
  BY ChainStep, WorkStep, BatchStep
<1>3. ASSUME WorkInv, BatchInv PROVE ReportsExplained
  <2>1. \A m \in ToSet(Asked) : m # Nobody /\ (ids = "graph" => names[m] = m)
    BY <1>3, MailAssumption DEF WorkInv
  <2> QED BY <1>3, <2>1 DEF BatchInv, Honest, Bounded, ReportsExplained
<1> QED BY <1>1, <1>2, <1>3, PTL DEF Spec

=============================================================================
