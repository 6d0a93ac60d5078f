-------------------------- MODULE ReplyStreamProofs --------------------------
(***************************************************************************)
(* The reply stream, for any users, rights, pages, connections, replies,   *)
(* edits and failures: a connection passes on what concerns its user, all  *)
(* of it, once and in order; and a page never shows a reply twice nor one  *)
(* that was meant for the user before.                                     *)
(***************************************************************************)
EXTENDS ReplyStream, SequenceTheorems, TLAPS

Version == [groups: SUBSET Group, member: SUBSET (Group \X Account)]

Opening == {"resolving", "loading", "accepting", "subscribing"}

Connection ==
    [pc: Opening \cup {"off", "loop", "sending", "closing"},
     user: User \cup {None}, tab: Tab \cup {None},
     on: BOOLEAN, gone: BOOLEAN, accepted: BOOLEAN,
     code: {0, Refused, Internal}, groups: SUBSET Group, visible: SUBSET Account,
     queue: Seq(Nat), hand: Seq(Nat), since: Nat, sent: Seq(Nat), past: Seq(Version)]

Page == [user: User \cup {None}, timer: BOOLEAN]

Shown == [at: Nat, user: User \cup {None}]

StreamTypes ==
    /\ grant \in [User -> SUBSET Group]
    /\ member \in SUBSET (Group \X Account)
    /\ valid \subseteq User
    /\ tab \in [Tab -> Page]
    /\ sock \in [Socket -> Connection]
    /\ published \in Seq(Account)
    /\ shown \in [Tab -> Seq(Shown)]

-----------------------------------------------------------------------------
(* What a connection knows and holds                                       *)

\* The last version of the rights c has to reckon with is the one in force; what
\* it took is from one version, or from two in their order.
Righted(c) ==
    /\ c.pc \in {"resolving", "loading"} =>
          /\ c.user \in User
          /\ c.past # <<>>
          /\ c.past[Len(c.past)] = [groups |-> grant[c.user], member |-> member]
    /\ c.pc = "loading" =>
          c.user \notin Admins /\ \E i \in DOMAIN c.past : c.groups = c.past[i].groups
    /\ c.pc \in {"accepting", "subscribing", "loop", "sending"} =>
          IF c.user \in Admins THEN c.visible = Account
          ELSE \E v \in Pairs(c) : c.visible = Shows(c, v)

Before(x, y) == \A m \in Range(x), n \in Range(y) : m < n

Held(c) == Range(c.sent) \cup Range(c.hand) \cup Range(c.queue)

\* Since its subscription c has missed nothing, and passed on or taken in hand
\* only what it may.
Fed(c) ==
    /\ c.pc \in Opening => c.sent = <<>> /\ c.hand = <<>> /\ c.queue = <<>>
    /\ c.pc = "loop" => c.hand = <<>>
    /\ c.pc = "sending" => Len(c.hand) = 1
    /\ Served(c) =>
          /\ c.since <= Len(published)
          /\ Increasing(c.sent) /\ Increasing(c.queue)
          /\ Before(c.sent, c.hand) /\ Before(c.sent, c.queue) /\ Before(c.hand, c.queue)
          /\ Held(c) \subseteq (c.since + 1)..Len(published)
          /\ \A i \in (c.since + 1)..Len(published) :
                published[i] \in c.visible => i \in Held(c)
          /\ \A i \in Range(c.sent) \cup Range(c.hand) : published[i] \in c.visible

ConnectionInv == \A s \in Socket : Righted(sock[s]) /\ Fed(sock[s])

-----------------------------------------------------------------------------
(* What ties pages to connections                                          *)

\* A connection is refused only before it is accepted.
Coded(c) ==
    /\ c.pc # "closing" => c.code = 0
    /\ c.pc \in {"resolving", "loading", "accepting"} => ~c.accepted
    /\ c.code = Refused => ~c.accepted

CodeInv == \A s \in Socket : Coded(sock[s])

\* A page listens to one connection, of its own user, or to none.
PageInv ==
    \A s \in Socket :
        sock[s].on =>
            /\ sock[s].pc # "off" /\ ~sock[s].gone
            /\ sock[s].tab \in Tab
            /\ tab[sock[s].tab].user = sock[s].user /\ ~tab[sock[s].tab].timer
            /\ \A r \in Socket : sock[r].on /\ sock[r].tab = sock[s].tab => r = s

Ats(x) == [k \in DOMAIN x |-> x[k].at]

\* What a page has shown is older than all it may still be sent.
ShownInv ==
    /\ \A t \in Tab : Range(Ats(shown[t])) \subseteq 1..Len(published)
    /\ \A s \in Socket :
          sock[s].on /\ Served(sock[s]) =>
              /\ Before(Ats(shown[sock[s].tab]), sock[s].hand)
              /\ Before(Ats(shown[sock[s].tab]), sock[s].queue)

StreamInv == StreamTypes /\ ConnectionInv /\ CodeInv /\ PageInv /\ ShownInv /\ ShownOnce

-----------------------------------------------------------------------------
(* Sequences of numbers that increase                                      *)

LEMMA NothingIn == Range(<<>>) = {} /\ Increasing(<<>>)
BY DEF Range, Increasing

LEMMA JustOne == \A n : Range(<<n>>) = {n} /\ Increasing(<<n>>)
BY DEF Range, Increasing

LEMMA OneInHand ==
    ASSUME NEW h \in Seq(Nat), Len(h) = 1
    PROVE  h[1] \in Nat /\ h = <<h[1]>> /\ Range(h) = {h[1]}
BY DEF Range

LEMMA IncreasingConcat ==
    ASSUME NEW x \in Seq(Nat), NEW y \in Seq(Nat)
    PROVE  Increasing(x \o y) <=> Increasing(x) /\ Increasing(y) /\ Before(x, y)
<1> DEFINE z == x \o y
<1>1. /\ z \in Seq(Nat) /\ Len(z) = Len(x) + Len(y)
      /\ \A i \in 1..(Len(x) + Len(y)) : z[i] = IF i <= Len(x) THEN x[i] ELSE y[i - Len(x)]
  BY ConcatProperties
<1>2. /\ Len(x) \in Nat /\ Len(y) \in Nat
      /\ DOMAIN x = 1..Len(x) /\ DOMAIN y = 1..Len(y) /\ DOMAIN z = 1..(Len(x) + Len(y))
      /\ \A i \in 1..Len(x) : x[i] \in Nat
      /\ \A i \in 1..Len(y) : y[i] \in Nat
  BY <1>1
<1> HIDE DEF z
<1>3. \A i \in 1..Len(x) : i \in DOMAIN z /\ z[i] = x[i]
  BY <1>1, <1>2
<1>4. \A j \in 1..Len(y) : Len(x) + j \in DOMAIN z /\ z[Len(x) + j] = y[j]
  <2> SUFFICES ASSUME NEW j \in 1..Len(y)
               PROVE  Len(x) + j \in DOMAIN z /\ z[Len(x) + j] = y[j]
    OBVIOUS
  <2>1. /\ Len(x) + j \in 1..(Len(x) + Len(y))
        /\ ~(Len(x) + j <= Len(x)) /\ (Len(x) + j) - Len(x) = j
    BY <1>2
  <2> QED
    BY <1>1, <1>2, <2>1
<1>5. ASSUME Increasing(z) PROVE Increasing(x) /\ Increasing(y) /\ Before(x, y)
  <2>1. Increasing(x)
    BY <1>2, <1>3, <1>5 DEF Increasing
  <2>2. Increasing(y)
    <3> SUFFICES ASSUME NEW i \in 1..Len(y), NEW j \in 1..Len(y), i < j PROVE y[i] < y[j]
      BY <1>2 DEF Increasing
    <3>1. Len(x) + i < Len(x) + j
      BY <1>2
    <3> QED
      BY <1>4, <1>5, <3>1 DEF Increasing
  <2>3. Before(x, y)
    <3> SUFFICES ASSUME NEW i \in 1..Len(x), NEW j \in 1..Len(y) PROVE x[i] < y[j]
      BY <1>2 DEF Before, Range
    <3>1. i < Len(x) + j
      BY <1>2
    <3> QED
      BY <1>3, <1>4, <1>5, <3>1 DEF Increasing
  <2> QED
    BY <2>1, <2>2, <2>3
<1>6. ASSUME Increasing(x), Increasing(y), Before(x, y) PROVE Increasing(z)
  <2> SUFFICES ASSUME NEW i \in DOMAIN z, NEW j \in DOMAIN z, i < j PROVE z[i] < z[j]
    BY DEF Increasing
  <2>1. CASE j <= Len(x)
    <3>1. i \in 1..Len(x) /\ j \in 1..Len(x)
      BY <1>2, <2>1
    <3> QED
      BY <1>2, <1>3, <1>6, <3>1 DEF Increasing
  <2>2. CASE i <= Len(x) /\ Len(x) < j
    <3>1. i \in 1..Len(x) /\ (j - Len(x)) \in 1..Len(y) /\ z[j] = y[j - Len(x)]
      BY <1>1, <1>2, <2>2
    <3>2. x[i] \in Range(x) /\ y[j - Len(x)] \in Range(y)
      BY <1>2, <3>1 DEF Range
    <3> QED
      BY <1>3, <1>6, <3>1, <3>2 DEF Before
  <2>3. CASE Len(x) < i
    <3>1. /\ i \in 1..(Len(x) + Len(y)) /\ j \in 1..(Len(x) + Len(y))
          /\ ~(i <= Len(x)) /\ ~(j <= Len(x))
          /\ (i - Len(x)) \in 1..Len(y) /\ (j - Len(x)) \in 1..Len(y)
          /\ i - Len(x) < j - Len(x)
      BY <1>2, <2>3
    <3>2. z[i] = y[i - Len(x)] /\ z[j] = y[j - Len(x)]
      BY <1>1, <3>1
    <3> QED
      BY <1>2, <1>6, <3>1, <3>2 DEF Increasing
  <2> QED
    BY <1>2, <2>1, <2>2, <2>3
<1> QED
  BY <1>5, <1>6 DEF z

\* The first of a sequence and the rest.
LEMMA FirstAndRest ==
    ASSUME NEW q \in Seq(Nat), q # <<>>
    PROVE  /\ Head(q) \in Nat /\ Tail(q) \in Seq(Nat) /\ Head(q) \in Range(q)
           /\ Range(q) = {Head(q)} \cup Range(Tail(q))
           /\ Increasing(q) => Increasing(Tail(q)) /\ \A n \in Range(Tail(q)) : Head(q) < n
<1>1. q = <<Head(q)>> \o Tail(q) /\ Head(q) \in Nat /\ Tail(q) \in Seq(Nat)
  OBVIOUS
<1>2. <<Head(q)>> \in Seq(Nat)
  BY <1>1
<1>3. Range(q) = Range(<<Head(q)>>) \cup Range(Tail(q))
  BY <1>1, <1>2, RangeConcatenation
<1>4. Increasing(q) => Increasing(Tail(q)) /\ Before(<<Head(q)>>, Tail(q))
  BY <1>1, <1>2, IncreasingConcat
<1> QED
  BY <1>1, <1>3, <1>4, JustOne DEF Before

LEMMA AppendRange ==
    ASSUME NEW q \in Seq(Nat), NEW n \in Nat
    PROVE  Append(q, n) = q \o <<n>> /\ Range(Append(q, n)) = Range(q) \cup {n}
<1>1. Append(q, n) = q \o <<n>> /\ <<n>> \in Seq(Nat)
  BY AppendIsConcat
<1>2. Range(Append(q, n)) = Range(q) \cup Range(<<n>>)
  BY <1>1, RangeConcatenation
<1> QED
  BY <1>1, <1>2, JustOne

LEMMA AppendedLast ==
    ASSUME NEW q \in Seq(Nat), NEW n \in Nat, Increasing(q), \A m \in Range(q) : m < n
    PROVE  /\ Append(q, n) \in Seq(Nat) /\ Increasing(Append(q, n))
           /\ Range(Append(q, n)) = Range(q) \cup {n}
<1>1. Append(q, n) = q \o <<n>> /\ <<n>> \in Seq(Nat)
  BY AppendRange
<1>2. Increasing(q \o <<n>>)
  <2>1. Before(q, <<n>>) /\ Increasing(<<n>>)
    BY JustOne DEF Before
  <2> QED
    BY <1>1, <2>1, IncreasingConcat
<1>3. Append(q, n) \in Seq(Nat) /\ Increasing(Append(q, n))
  <2>1. Append(q, n) \in Seq(Nat)
    OBVIOUS
  <2>2. Increasing(Append(q, n))
    BY <1>1, <1>2
  <2> QED
    BY <2>1, <2>2
<1>4. Range(Append(q, n)) = Range(q) \cup {n}
  BY AppendRange
<1> QED
  BY <1>3, <1>4

-----------------------------------------------------------------------------
(* Types                                                                   *)

LEMMA OffFacts ==
    /\ Off \in Connection
    /\ Off.pc = "off" /\ ~Off.on /\ ~Off.gone /\ ~Off.accepted /\ Off.code = 0
    /\ Off.sent = <<>> /\ Off.hand = <<>> /\ Off.queue = <<>>
BY DEF Off, Connection

\* What a step may put in the place of a field keeps a connection one.
LEMMA Updated ==
    ASSUME NEW c \in Connection
    PROVE  /\ \A q \in Seq(Nat) : [c EXCEPT !.queue = q] \in Connection
           /\ \A p \in Seq(Version) : [c EXCEPT !.past = p] \in Connection
           /\ [c EXCEPT !.on = FALSE, !.gone = TRUE] \in Connection
           /\ [c EXCEPT !.gone = TRUE, !.on = FALSE] \in Connection
           /\ \A h \in Seq(Nat), x \in Seq(Nat) :
                 [c EXCEPT !.pc = "loop", !.hand = h, !.sent = x] \in Connection
           /\ \A h \in Seq(Nat), q \in Seq(Nat) :
                 [c EXCEPT !.pc = "sending", !.hand = h, !.queue = q] \in Connection
BY DEF Connection, Opening

LEMMA FreshFacts ==
    ASSUME StreamTypes, NEW t \in Tab, NEW u \in User
    PROVE  /\ Fresh(t, u) \in Connection
           /\ Fresh(t, u).pc = "resolving" /\ Fresh(t, u).user = u /\ Fresh(t, u).tab = t
           /\ Fresh(t, u).on /\ ~Fresh(t, u).gone /\ ~Fresh(t, u).accepted
           /\ Fresh(t, u).code = 0
           /\ Fresh(t, u).sent = <<>> /\ Fresh(t, u).hand = <<>> /\ Fresh(t, u).queue = <<>>
           /\ Fresh(t, u).past = <<[groups |-> grant[u], member |-> member]>>
<1>1. [groups |-> grant[u], member |-> member] \in Version
  BY DEF StreamTypes, Version
<1>2. <<[groups |-> grant[u], member |-> member]>> \in Seq(Version)
  BY <1>1
<1> DEFINE p == <<[groups |-> grant[u], member |-> member]>>
<1>3. /\ Fresh(t, u) = [Off EXCEPT !.pc = "resolving", !.user = u, !.tab = t, !.on = TRUE,
                                   !.past = p]
      /\ p \in Seq(Version)
  BY <1>2 DEF Fresh
<1> HIDE DEF p
<1>4. Fresh(t, u) \in Connection
  BY <1>3, OffFacts DEF Connection, Opening
<1>5. /\ Fresh(t, u).pc = "resolving" /\ Fresh(t, u).user = u /\ Fresh(t, u).tab = t
      /\ Fresh(t, u).on /\ ~Fresh(t, u).gone /\ ~Fresh(t, u).accepted
      /\ Fresh(t, u).code = 0
      /\ Fresh(t, u).sent = <<>> /\ Fresh(t, u).hand = <<>> /\ Fresh(t, u).queue = <<>>
      /\ Fresh(t, u).past = p
  BY <1>3, OffFacts DEF Connection
<1> QED
  BY <1>4, <1>5 DEF p

LEMMA TornDownFacts ==
    ASSUME StreamTypes, NEW t \in Tab
    PROVE  /\ TornDown(t) \in [Socket -> Connection]
           /\ \A s \in Socket :
                 IF sock[s].tab = t
                 THEN TornDown(t)[s] = [sock[s] EXCEPT !.on = FALSE, !.gone = TRUE]
                 ELSE TornDown(t)[s] = sock[s]
BY Updated DEF StreamTypes, TornDown

LEMMA MembersAreAccounts == \A G, M : MembersOf(G, M) \subseteq Account
BY DEF MembersOf

LEMMA OnClosePage ==
    ASSUME StreamTypes, NEW c, c.on => c.tab \in Tab
    PROVE  OnClose(c) \in [Tab -> Page]
<1>1. \A t \in Tab : [tab[t] EXCEPT !.timer = TRUE] \in Page
  BY DEF StreamTypes, Page
<1>2. [user |-> None, timer |-> FALSE] \in Page
  BY DEF Page
<1> QED
  BY <1>1, <1>2 DEF StreamTypes, OnClose

\* A handler's step gives one connection, of the same user, page and client.
Handled(s) ==
    \E d \in Connection :
        /\ sock' = [sock EXCEPT ![s] = d]
        /\ d = Off \/ /\ d.user = sock[s].user /\ d.tab = sock[s].tab
                      /\ d.on = sock[s].on /\ d.gone = sock[s].gone /\ d.past = sock[s].past
        /\ UNCHANGED <<rights, published>>

LEMMA ServeHandled ==
    ASSUME StreamTypes, NEW s \in Socket,
           \/ Resolve(s) \/ Load(s) \/ Accept(s) \/ Subscribe(s)
           \/ Take(s) \/ SendReply(s) \/ PingRaises(s) \/ SendRaises(s) \/ Closed(s)
           \/ ResolveFails(s) \/ LoadFails(s) \/ SubscribeFails(s) \/ TakeFails(s)
    PROVE  Handled(s)
<1> DEFINE c == sock[s]
<1>1. c \in Connection /\ sock \in [Socket -> Connection]
  BY DEF StreamTypes
<1>2. CASE Resolve(s)
  <2>1. CASE c.user \notin valid
    <3> DEFINE d == [c EXCEPT !.pc = "closing", !.code = Refused]
    <3>1. d \in Connection
      BY <1>1 DEF Connection
    <3> QED
      BY <1>1, <1>2, <2>1, <3>1 DEF Resolve, Goes, Handled, Connection
  <2>2. CASE c.user \in valid /\ c.user \in Admins
    <3> DEFINE d == [c EXCEPT !.pc = "accepting", !.visible = Account]
    <3>1. d \in Connection
      BY <1>1 DEF Connection, Opening
    <3> QED
      BY <1>1, <1>2, <2>2, <3>1 DEF Resolve, Goes, Handled, Connection
  <2>3. CASE c.user \in valid /\ c.user \notin Admins
    <3> DEFINE d == [c EXCEPT !.pc = "loading", !.groups = grant[c.user]]
    <3>1. c.user \in User
      BY <2>3 DEF StreamTypes
    <3>2. d \in Connection
      BY <1>1, <3>1 DEF Connection, Opening, StreamTypes
    <3> QED
      BY <1>1, <1>2, <2>3, <3>2 DEF Resolve, Goes, Handled, Connection
  <2> QED
    BY <2>1, <2>2, <2>3
<1>3. CASE Load(s)
  <2> DEFINE d == [c EXCEPT !.pc = "accepting", !.visible = Visible(c)]
  <2>1. d \in Connection
    BY <1>1, MembersAreAccounts DEF Connection, Opening, Visible
  <2> QED
    BY <1>1, <1>3, <2>1 DEF Load, Goes, Handled, Connection
<1>4. CASE Accept(s)
  <2> DEFINE d == [c EXCEPT !.pc = "subscribing", !.accepted = TRUE]
  <2>1. d \in Connection
    BY <1>1 DEF Connection, Opening
  <2> QED
    BY <1>1, <1>4, <2>1 DEF Accept, Goes, Handled, Connection
<1>5. CASE Subscribe(s)
  <2> DEFINE n == Len(published)
             d == [c EXCEPT !.pc = "loop", !.since = n]
  <2>0. n \in Nat
    BY DEF StreamTypes
  <2> HIDE DEF n
  <2>1. d \in Connection
    BY <1>1, <2>0 DEF Connection
  <2>2. d.user = c.user /\ d.tab = c.tab /\ d.on = c.on /\ d.gone = c.gone /\ d.past = c.past
    BY <1>1 DEF Connection
  <2>3. sock' = [sock EXCEPT ![s] = d] /\ UNCHANGED <<rights, published>>
    BY <1>5 DEF Subscribe, Goes, n
  <2> HIDE DEF d
  <2> QED
    BY <2>1, <2>2, <2>3 DEF Handled
<1>6. CASE Take(s)
  <2>1. Head(c.queue) \in Nat /\ Tail(c.queue) \in Seq(Nat)
    BY <1>1, <1>6 DEF Take, Connection
  <2>2. CASE published[Head(c.queue)] \in c.visible
    <3> DEFINE d == [c EXCEPT !.pc = "sending", !.hand = <<Head(c.queue)>>,
                              !.queue = Tail(@)]
    <3>1. d \in Connection
      <4>1. <<Head(c.queue)>> \in Seq(Nat)
        BY <2>1
      <4> QED
        BY <1>1, <2>1, <4>1, Updated
    <3>2. d.user = c.user /\ d.tab = c.tab /\ d.on = c.on /\ d.gone = c.gone
          /\ d.past = c.past
      BY <1>1 DEF Connection
    <3>3. sock' = [sock EXCEPT ![s] = d] /\ UNCHANGED <<rights, published>>
      BY <1>6, <2>2 DEF Take, Goes
    <3> HIDE DEF d
    <3> QED
      BY <3>1, <3>2, <3>3 DEF Handled
  <2>3. CASE published[Head(c.queue)] \notin c.visible
    <3> DEFINE d == [c EXCEPT !.queue = Tail(@)]
    <3>1. d \in Connection
      BY <1>1, <2>1 DEF Connection
    <3> QED
      BY <1>1, <1>6, <2>3, <3>1 DEF Take, Goes, Handled, Connection
  <2> QED
    BY <2>2, <2>3
<1>7. CASE SendReply(s)
  <2> DEFINE d == [c EXCEPT !.pc = "loop", !.hand = <<>>, !.sent = @ \o c.hand]
  <2>1. d \in Connection
    <3>1. c.sent \o c.hand \in Seq(Nat) /\ <<>> \in Seq(Nat)
      BY <1>1 DEF Connection
    <3> QED
      BY <1>1, <3>1, Updated
  <2>2. d.user = c.user /\ d.tab = c.tab /\ d.on = c.on /\ d.gone = c.gone /\ d.past = c.past
    BY <1>1 DEF Connection
  <2>3. sock' = [sock EXCEPT ![s] = d] /\ UNCHANGED <<rights, published>>
    BY <1>7 DEF SendReply
  <2> HIDE DEF d
  <2> QED
    BY <2>1, <2>2, <2>3 DEF Handled
<1>8. CASE PingRaises(s) \/ SendRaises(s) \/ Closed(s)
  BY <1>8, OffFacts DEF PingRaises, SendRaises, Closed, Goes, Handled
<1>9. CASE ResolveFails(s) \/ LoadFails(s) \/ SubscribeFails(s) \/ TakeFails(s)
  <2> DEFINE d(code) == [c EXCEPT !.pc = "closing", !.code = code]
  <2>1. d(Refused) \in Connection /\ d(Internal) \in Connection
    BY <1>1 DEF Connection
  <2> QED
    BY <1>1, <1>9, <2>1
    DEF ResolveFails, LoadFails, SubscribeFails, TakeFails, Goes, Handled, Connection
<1> QED
  BY <1>2, <1>3, <1>4, <1>5, <1>6, <1>7, <1>8, <1>9

LEMMA InitTypes == ASSUME Init PROVE StreamTypes
<1>1. tab \in [Tab -> Page] /\ sock \in [Socket -> Connection]
  BY OffFacts DEF Init, Page
<1>2. published \in Seq(Account) /\ shown \in [Tab -> Seq(Shown)]
  BY DEF Init
<1> QED
  BY <1>1, <1>2, StreamAssumption DEF Init, StreamTypes

\* The steps that leave every page's account of what it has shown alone.
LEMMA EditedTypes ==
    ASSUME StreamTypes, NEW g \in [User -> SUBSET Group], NEW m \in SUBSET (Group \X Account),
           Edited(g, m), ConnectionInv
    PROVE  /\ StreamTypes'
           /\ \A s \in Socket :
                 IF sock[s].pc \in {"resolving", "loading"}
                 THEN sock'[s] = [sock[s] EXCEPT !.past =
                                    Append(@, [groups |-> g[sock[s].user], member |-> m])]
                 ELSE sock'[s] = sock[s]
           /\ \A s \in Socket : 
                 sock[s].pc \in {"resolving", "loading"} =>
                     [groups |-> g[sock[s].user], member |-> m] \in Version
<1>1. ASSUME NEW s \in Socket, sock[s].pc \in {"resolving", "loading"}
      PROVE  /\ [groups |-> g[sock[s].user], member |-> m] \in Version
             /\ [sock[s] EXCEPT !.past =
                   Append(@, [groups |-> g[sock[s].user], member |-> m])] \in Connection
  <2>1. sock[s].user \in User /\ sock[s] \in Connection
    BY <1>1 DEF ConnectionInv, Righted, StreamTypes
  <2>2. [groups |-> g[sock[s].user], member |-> m] \in Version
    BY <2>1 DEF Version
  <2>3. Append(sock[s].past, [groups |-> g[sock[s].user], member |-> m]) \in Seq(Version)
    BY <2>1, <2>2 DEF Connection
  <2> QED
    BY <2>1, <2>2, <2>3, Updated
<1>2. sock' \in [Socket -> Connection]
  BY <1>1 DEF Edited, StreamTypes
<1> QED
  BY <1>1, <1>2 DEF Edited, StreamTypes

LEMMA PublishTypes ==
    ASSUME StreamTypes, NEW a \in Account, Publish(a)
    PROVE  StreamTypes'
<1>1. sock' \in [Socket -> Connection]
  <2>1. Len(published) + 1 \in Nat
    BY DEF StreamTypes
  <2>2. \A s \in Socket : [sock[s] EXCEPT !.queue = Append(@, Len(published) + 1)]
                              \in Connection
    <3> SUFFICES ASSUME NEW s \in Socket
                 PROVE  [sock[s] EXCEPT !.queue = Append(@, Len(published) + 1)] \in Connection
      OBVIOUS
    <3>1. sock[s] \in Connection /\ Append(sock[s].queue, Len(published) + 1) \in Seq(Nat)
      BY <2>1 DEF StreamTypes, Connection
    <3> QED
      BY <3>1, Updated
  <2> QED
    BY <2>2 DEF Publish, StreamTypes
<1> QED
  BY <1>1 DEF Publish, StreamTypes, rights

LEMMA ConnectTypes ==
    ASSUME StreamTypes, NEW t \in Tab, Connect(t)
    PROVE  StreamTypes' /\ tab[t].user \in User
<1>1. tab[t].user \in User
  BY DEF Connect, StreamTypes, Page
<1>2. Fresh(t, tab[t].user) \in Connection
  BY <1>1, FreshFacts
<1>3. sock' \in [Socket -> Connection] /\ tab' \in [Tab -> Page]
  BY <1>2 DEF Connect, StreamTypes, Page
<1> QED
  BY <1>1, <1>3 DEF Connect, StreamTypes, rights

LEMMA SwitchTypes ==
    ASSUME StreamTypes, NEW t \in Tab, NEW u \in User \cup {None}, Switch(t, u)
    PROVE  StreamTypes'
<1>1. sock' \in [Socket -> Connection]
  <2>1. TornDown(t) \in [Socket -> Connection]
    BY TornDownFacts
  <2>2. CASE u = None
    BY <2>1, <2>2 DEF Switch
  <2>3. CASE u # None
    <3>1. Fresh(t, u) \in Connection
      BY <2>3, FreshFacts
    <3> QED
      BY <2>1, <2>3, <3>1 DEF Switch
  <2> QED
    BY <2>2, <2>3
<1>2. tab' \in [Tab -> Page] /\ shown' \in [Tab -> Seq(Shown)]
  BY DEF Switch, AfterSwitch, StreamTypes, Page
<1> QED
  BY <1>1, <1>2 DEF Switch, StreamTypes, rights

LEMMA HandlerTypes ==
    ASSUME StreamTypes, ConnectionInv, PageInv, NEW s \in Socket, Serve(s) \/ Breaks(s)
    PROVE  StreamTypes'
<1> DEFINE c == sock[s]
<1>1. c \in Connection /\ (c.on => c.tab \in Tab)
  BY DEF StreamTypes, PageInv
<1>2. CASE Cut(s)
  <2>1. sock' = [sock EXCEPT ![s] = [c EXCEPT !.gone = TRUE, !.on = FALSE]]
    BY <1>2 DEF Cut, StreamTypes
  <2>2. sock' \in [Socket -> Connection]
    BY <1>1, <2>1, Updated DEF StreamTypes
  <2>3. tab' \in [Tab -> Page]
    <3>1. [c EXCEPT !.code = Abnormal].on = c.on /\ [c EXCEPT !.code = Abnormal].tab = c.tab
      BY <1>1 DEF Connection
    <3> QED
      BY <1>1, <1>2, <3>1, OnClosePage DEF Cut
  <2> QED
    BY <1>2, <2>2, <2>3 DEF Cut, StreamTypes, rights
<1>3. CASE ~Cut(s)
  <2>1. sock' \in [Socket -> Connection] /\ UNCHANGED <<rights, published>>
    BY <1>3, ServeHandled DEF Handled, Serve, Breaks, StreamTypes
  <2>2. tab' \in [Tab -> Page]
    <3>1. CASE Closed(s)
      BY <1>1, <3>1, OnClosePage DEF Closed, StreamTypes
    <3>2. CASE ~Closed(s)
      BY <1>3, <3>2
      DEF StreamTypes, Serve, Breaks, Goes, Resolve, Load, Accept, Subscribe, Take, SendReply,
          PingRaises, SendRaises, ResolveFails, LoadFails, SubscribeFails, TakeFails
    <3> QED
      BY <3>1, <3>2
  <2>3. shown' \in [Tab -> Seq(Shown)]
    <3>1. CASE SendReply(s) /\ c.on
      <4>1. Len(c.hand) = 1
        BY <1>1, <3>1 DEF ConnectionInv, Fed, SendReply
      <4>2. <<[at |-> c.hand[1], user |-> c.user]>> \in Seq(Shown)
        BY <1>1, <4>1, OneInHand DEF Connection, Shown
      <4> QED
        BY <1>1, <3>1, <4>2 DEF SendReply, StreamTypes
    <3>2. CASE ~(SendReply(s) /\ c.on)
      BY <1>3, <3>2
      DEF StreamTypes, Serve, Breaks, Goes, Resolve, Load, Accept, Subscribe, Take, SendReply,
          PingRaises, SendRaises, Closed, ResolveFails, LoadFails, SubscribeFails, TakeFails
    <3> QED
      BY <3>1, <3>2
  <2> QED
    BY <2>1, <2>2, <2>3 DEF StreamTypes, rights
<1> QED
  BY <1>2, <1>3

-----------------------------------------------------------------------------
(* What a connection knows and holds, step by step                         *)

\* Neither depends on who listens at the other end.
LEMMA Alike ==
    ASSUME NEW c \in Connection, NEW d \in Connection,
           d.pc = c.pc, d.user = c.user, d.groups = c.groups, d.visible = c.visible,
           d.queue = c.queue, d.hand = c.hand, d.since = c.since, d.sent = c.sent,
           d.past = c.past
    PROVE  (Righted(c) => Righted(d)) /\ (Fed(c) => Fed(d))
<1>1. Pairs(d) = Pairs(c) /\ (\A v : Shows(d, v) = Shows(c, v))
  BY DEF Pairs, Shows
<1>2. Held(d) = Held(c) /\ Served(d) = Served(c)
  BY DEF Held, Served
<1>3. Righted(c) => Righted(d)
  BY <1>1 DEF Righted
<1>4. Fed(c) => Fed(d)
  BY <1>2 DEF Fed
<1> QED
  BY <1>3, <1>4

LEMMA Idle ==
    ASSUME NEW c, c.pc \in {"off", "closing"}
    PROVE  Righted(c) /\ Fed(c)
BY DEF Righted, Fed, Served, Opening

LEMMA FreshKnows ==
    ASSUME StreamTypes, NEW t \in Tab, NEW u \in User
    PROVE  Righted(Fresh(t, u)) /\ Fed(Fresh(t, u))
<1> DEFINE v == [groups |-> grant[u], member |-> member]
           c == Fresh(t, u)
<1>1. c.pc = "resolving" /\ c.user = u /\ c.sent = <<>> /\ c.hand = <<>> /\ c.queue = <<>>
      /\ c.past = <<v>>
  BY FreshFacts
<1>2. c.past # <<>> /\ c.past[Len(c.past)] = v
  BY <1>1
<1> HIDE DEF c
<1>3. Righted(c)
  BY <1>1, <1>2 DEF Righted
<1>4. Fed(c)
  BY <1>1 DEF Fed, Served, Opening
<1> QED
  BY <1>3, <1>4 DEF c

\* Once it has read the rights, what it may see is settled.
LEMMA RightedOn ==
    ASSUME NEW c \in Connection, NEW d \in Connection, Righted(c),
           d.user = c.user, d.past = c.past, d.visible = c.visible,
           c.pc \in {"accepting", "subscribing", "loop", "sending"},
           d.pc \in {"subscribing", "loop", "sending"}
    PROVE  Righted(d)
<1>1. Pairs(d) = Pairs(c) /\ (\A v : Shows(d, v) = Shows(c, v))
  BY DEF Pairs, Shows
<1> QED
  BY <1>1 DEF Righted

\* While it opens, it holds nothing.
LEMMA FedOpening ==
    ASSUME NEW c \in Connection, NEW d \in Connection, Fed(c), c.pc \in Opening,
           d.pc \in Opening, d.sent = c.sent, d.hand = c.hand, d.queue = c.queue
    PROVE  Fed(d)
BY DEF Fed, Served, Opening

LEMMA ResolveKnows ==
    ASSUME StreamTypes, ConnectionInv, NEW s \in Socket, Resolve(s)
    PROVE  Righted(sock'[s]) /\ Fed(sock'[s])
<1> DEFINE c == sock[s]
<1>1. c \in Connection /\ Righted(c) /\ Fed(c) /\ c.pc = "resolving"
  BY DEF StreamTypes, ConnectionInv, Resolve, Goes
<1>2. CASE c.user \notin valid
  <2>1. sock'[s].pc = "closing"
    BY <1>1, <1>2 DEF Resolve, Goes, StreamTypes, Connection
  <2> QED
    BY <2>1, Idle
<1>3. CASE c.user \in valid /\ c.user \in Admins
  <2> DEFINE d == [c EXCEPT !.pc = "accepting", !.visible = Account]
  <2>1. sock'[s] = d
    BY <1>3 DEF Resolve, Goes, StreamTypes
  <2>2. /\ d \in Connection /\ d.pc = "accepting" /\ d.visible = Account /\ d.user = c.user
        /\ d.sent = c.sent /\ d.hand = c.hand /\ d.queue = c.queue
    BY <1>1 DEF Connection, Opening
  <2> HIDE DEF d
  <2>3. Righted(d)
    BY <1>3, <2>2 DEF Righted
  <2>4. Fed(d)
    BY <1>1, <2>2, FedOpening DEF Opening
  <2> QED
    BY <2>1, <2>3, <2>4
<1>4. CASE c.user \in valid /\ c.user \notin Admins
  <2> DEFINE d == [c EXCEPT !.pc = "loading", !.groups = grant[c.user]]
  <2>1. sock'[s] = d
    BY <1>4 DEF Resolve, Goes, StreamTypes
  <2>2. c.user \in User /\ grant[c.user] \in SUBSET Group
    BY <1>4 DEF StreamTypes
  <2>3. /\ d \in Connection /\ d.pc = "loading" /\ d.groups = grant[c.user] /\ d.user = c.user
        /\ d.sent = c.sent /\ d.hand = c.hand /\ d.queue = c.queue /\ d.past = c.past
    BY <1>1, <2>2 DEF Connection, Opening
  <2> HIDE DEF d
  <2>4. /\ c.past # <<>> /\ c.past \in Seq(Version)
        /\ c.past[Len(c.past)] = [groups |-> grant[c.user], member |-> member]
    BY <1>1 DEF Righted, Connection
  <2>5. Len(c.past) \in DOMAIN c.past
    BY <2>4
  <2>6. Righted(d)
    BY <1>4, <2>2, <2>3, <2>4, <2>5 DEF Righted
  <2>7. Fed(d)
    BY <1>1, <2>3, FedOpening DEF Opening
  <2> QED
    BY <2>1, <2>6, <2>7
<1> QED
  BY <1>2, <1>3, <1>4

LEMMA LoadKnows ==
    ASSUME StreamTypes, ConnectionInv, NEW s \in Socket, Load(s)
    PROVE  Righted(sock'[s]) /\ Fed(sock'[s])
<1> DEFINE c == sock[s]
           d == [c EXCEPT !.pc = "accepting", !.visible = Visible(c)]
<1>1. c \in Connection /\ Righted(c) /\ Fed(c) /\ c.pc = "loading"
  BY DEF StreamTypes, ConnectionInv, Load, Goes
<1>2. sock'[s] = d
  BY DEF Load, Goes, StreamTypes
<1>3. /\ d \in Connection /\ d.pc = "accepting" /\ d.user = c.user
      /\ d.visible = MembersOf(c.groups, member)
      /\ d.sent = c.sent /\ d.hand = c.hand /\ d.queue = c.queue /\ d.past = c.past
  BY <1>1, MembersAreAccounts DEF Connection, Opening, Visible
<1> HIDE DEF d
<1>4. /\ c.past # <<>> /\ c.past \in Seq(Version)
      /\ c.past[Len(c.past)].member = member /\ c.user \notin Admins
  BY <1>1 DEF Righted, Connection
<1>5. PICK i \in DOMAIN c.past : c.groups = c.past[i].groups
  BY <1>1 DEF Righted
<1>6. Len(c.past) \in DOMAIN c.past /\ i <= Len(c.past)
  BY <1>4, <1>5
<1>7. <<i, Len(c.past)>> \in Pairs(d)
  BY <1>3, <1>5, <1>6 DEF Pairs
<1>8. d.visible = Shows(d, <<i, Len(c.past)>>)
  BY <1>3, <1>4, <1>5 DEF Shows
<1>9. Righted(d)
  BY <1>3, <1>4, <1>7, <1>8 DEF Righted
<1>10. Fed(d)
  BY <1>1, <1>3, FedOpening DEF Opening
<1> QED
  BY <1>2, <1>9, <1>10

LEMMA OpenKnows ==
    ASSUME StreamTypes, ConnectionInv, NEW s \in Socket, Accept(s) \/ Subscribe(s)
    PROVE  Righted(sock'[s]) /\ Fed(sock'[s])
<1> DEFINE c == sock[s]
<1>1. c \in Connection /\ Righted(c) /\ Fed(c)
  BY DEF StreamTypes, ConnectionInv
<1>2. CASE Accept(s)
  <2> DEFINE d == [c EXCEPT !.pc = "subscribing", !.accepted = TRUE]
  <2>1. sock'[s] = d /\ c.pc = "accepting"
    BY <1>2 DEF Accept, Goes, StreamTypes
  <2>2. /\ d \in Connection /\ d.pc = "subscribing" /\ d.user = c.user
        /\ d.visible = c.visible /\ d.past = c.past
        /\ d.sent = c.sent /\ d.hand = c.hand /\ d.queue = c.queue
    BY <1>1 DEF Connection, Opening
  <2> HIDE DEF d
  <2> QED
    BY <1>1, <2>1, <2>2, RightedOn, FedOpening DEF Opening
<1>3. CASE Subscribe(s)
  <2> DEFINE n == Len(published)
             d == [c EXCEPT !.pc = "loop", !.since = n]
  <2>1. sock'[s] = d /\ c.pc = "subscribing"
    BY <1>3 DEF Subscribe, Goes, StreamTypes
  <2>2. n \in Nat
    BY DEF StreamTypes
  <2> HIDE DEF n
  <2>3. /\ d \in Connection /\ d.pc = "loop" /\ d.since = n /\ d.user = c.user
        /\ d.visible = c.visible /\ d.past = c.past
        /\ d.sent = c.sent /\ d.hand = c.hand /\ d.queue = c.queue
    BY <1>1, <2>2 DEF Connection, Opening
  <2> HIDE DEF d
  <2>4. d.sent = <<>> /\ d.hand = <<>> /\ d.queue = <<>>
    BY <1>1, <2>1, <2>3 DEF Fed, Opening
  <2>5. Held(d) = {}
    BY <2>4, NothingIn DEF Held
  <2>6. (d.since + 1)..Len(published) = {}
    BY <2>2, <2>3 DEF n
  <2>7. d.since <= Len(published)
    BY <2>2, <2>3 DEF n
  <2>8. Before(d.sent, d.hand) /\ Before(d.sent, d.queue) /\ Before(d.hand, d.queue)
    BY <2>4, NothingIn DEF Before
  <2>9. Fed(d)
    BY <2>3, <2>4, <2>5, <2>6, <2>7, <2>8, NothingIn DEF Fed, Opening
  <2> QED
    BY <1>1, <2>1, <2>3, <2>9, RightedOn
<1> QED
  BY <1>2, <1>3

\* The reply at the head of the queue is taken in hand, or left out for good.
LEMMA TakeKnows ==
    ASSUME StreamTypes, ConnectionInv, NEW s \in Socket, Take(s)
    PROVE  Righted(sock'[s]) /\ Fed(sock'[s])
<1> DEFINE c == sock[s]
           q == c.queue
<1>1. c \in Connection /\ Righted(c) /\ Fed(c) /\ c.pc = "loop" /\ q # <<>>
      /\ q \in Seq(Nat) /\ c.sent \in Seq(Nat)
  BY DEF StreamTypes, ConnectionInv, Take, Goes, Connection
<1>2. /\ Increasing(c.sent) /\ Increasing(q) /\ c.hand = <<>> /\ Before(c.sent, q)
      /\ c.since <= Len(published)
      /\ Held(c) \subseteq (c.since + 1)..Len(published)
      /\ \A i \in (c.since + 1)..Len(published) :
            published[i] \in c.visible => i \in Held(c)
      /\ \A i \in Range(c.sent) : published[i] \in c.visible
  BY <1>1 DEF Fed, Served
<1>3. /\ Head(q) \in Nat /\ Tail(q) \in Seq(Nat) /\ Head(q) \in Range(q)
      /\ Range(q) = {Head(q)} \cup Range(Tail(q))
      /\ Increasing(Tail(q)) /\ \A n \in Range(Tail(q)) : Head(q) < n
  BY <1>1, <1>2, FirstAndRest
<1>4. Held(c) = Range(c.sent) \cup {Head(q)} \cup Range(Tail(q))
  BY <1>2, <1>3, NothingIn DEF Held
<1>5. CASE published[Head(q)] \in c.visible
  <2> DEFINE d == [c EXCEPT !.pc = "sending", !.hand = <<Head(q)>>, !.queue = Tail(@)]
  <2>1. sock'[s] = d
    BY <1>5 DEF Take, Goes, StreamTypes
  <2>2. <<Head(q)>> \in Seq(Nat) /\ Len(<<Head(q)>>) = 1 /\ Range(<<Head(q)>>) = {Head(q)}
    BY <1>3, JustOne
  <2>3. d \in Connection
    BY <1>1, <1>3, <2>2, Updated
  <2>4. /\ d.pc = "sending" /\ d.hand = <<Head(q)>> /\ d.queue = Tail(q)
        /\ d.user = c.user /\ d.visible = c.visible /\ d.past = c.past
        /\ d.since = c.since /\ d.sent = c.sent
    BY <1>1 DEF Connection
  <2> HIDE DEF d
  <2>5. Held(d) = Held(c)
    BY <1>4, <2>2, <2>4 DEF Held
  <2>6. Before(d.sent, d.hand) /\ Before(d.sent, d.queue) /\ Before(d.hand, d.queue)
    BY <1>2, <1>3, <2>2, <2>4 DEF Before
  <2>7. \A i \in Range(d.sent) \cup Range(d.hand) : published[i] \in d.visible
    BY <1>2, <1>5, <2>2, <2>4
  <2>8. Fed(d)
    BY <1>2, <1>3, <2>2, <2>4, <2>5, <2>6, <2>7 DEF Fed, Opening
  <2> QED
    BY <1>1, <2>1, <2>3, <2>4, <2>8, RightedOn
<1>6. CASE published[Head(q)] \notin c.visible
  <2> DEFINE d == [c EXCEPT !.queue = Tail(@)]
  <2>1. sock'[s] = d
    BY <1>6 DEF Take, Goes, StreamTypes
  <2>2. d \in Connection
    BY <1>1, <1>3, Updated
  <2>3. /\ d.pc = "loop" /\ d.hand = <<>> /\ d.queue = Tail(q)
        /\ d.user = c.user /\ d.visible = c.visible /\ d.past = c.past
        /\ d.since = c.since /\ d.sent = c.sent
    BY <1>1, <1>2 DEF Connection
  <2> HIDE DEF d
  <2>4. Held(d) \subseteq Held(c) /\ Held(c) \subseteq Held(d) \cup {Head(q)}
    BY <1>4, <2>3, NothingIn DEF Held
  <2>5. Before(d.sent, d.hand) /\ Before(d.sent, d.queue) /\ Before(d.hand, d.queue)
    BY <1>2, <1>3, <2>3, NothingIn DEF Before
  <2>6. \A i \in (d.since + 1)..Len(published) :
            published[i] \in d.visible => i \in Held(d)
    BY <1>2, <1>6, <2>3, <2>4
  <2>7. \A i \in Range(d.sent) \cup Range(d.hand) : published[i] \in d.visible
    BY <1>2, <2>3, NothingIn
  <2>8. Fed(d)
    BY <1>2, <1>3, <2>3, <2>4, <2>5, <2>6, <2>7 DEF Fed, Opening
  <2> QED
    BY <1>1, <2>1, <2>2, <2>3, <2>8, RightedOn
<1> QED
  BY <1>5, <1>6

LEMMA SendKnows ==
    ASSUME StreamTypes, ConnectionInv, NEW s \in Socket, SendReply(s)
    PROVE  Righted(sock'[s]) /\ Fed(sock'[s])
<1> DEFINE c == sock[s]
           d == [c EXCEPT !.pc = "loop", !.hand = <<>>, !.sent = @ \o c.hand]
<1>1. c \in Connection /\ Righted(c) /\ Fed(c) /\ c.pc = "sending"
      /\ c.queue \in Seq(Nat) /\ c.sent \in Seq(Nat) /\ c.hand \in Seq(Nat)
  BY DEF StreamTypes, ConnectionInv, SendReply, Connection
<1>2. /\ Increasing(c.sent) /\ Increasing(c.queue) /\ Len(c.hand) = 1
      /\ Before(c.sent, c.hand) /\ Before(c.sent, c.queue) /\ Before(c.hand, c.queue)
      /\ c.since <= Len(published)
      /\ Held(c) \subseteq (c.since + 1)..Len(published)
      /\ \A i \in (c.since + 1)..Len(published) :
            published[i] \in c.visible => i \in Held(c)
      /\ \A i \in Range(c.sent) \cup Range(c.hand) : published[i] \in c.visible
  BY <1>1 DEF Fed, Served
<1>3. sock'[s] = d
  BY DEF SendReply, StreamTypes
<1>4. c.sent \o c.hand \in Seq(Nat) /\ <<>> \in Seq(Nat)
  BY <1>1
<1>5. d \in Connection
  BY <1>1, <1>4, Updated
<1>6. /\ d.pc = "loop" /\ d.hand = <<>> /\ d.sent = c.sent \o c.hand /\ d.queue = c.queue
      /\ d.user = c.user /\ d.visible = c.visible /\ d.past = c.past /\ d.since = c.since
  BY <1>1 DEF Connection
<1> HIDE DEF d
<1>7. Range(d.sent) = Range(c.sent) \cup Range(c.hand)
  BY <1>1, <1>6, RangeConcatenation
<1>8. Increasing(d.sent)
  <2>1. Increasing(c.hand)
    <3>1. c.hand = <<c.hand[1]>>
      BY <1>1, <1>2, OneInHand
    <3> QED
      BY <3>1, JustOne
  <2> QED
    BY <1>1, <1>2, <1>6, <2>1, IncreasingConcat
<1>9. Held(d) = Held(c)
  BY <1>6, <1>7, NothingIn DEF Held
<1>10. Before(d.sent, d.hand) /\ Before(d.sent, d.queue) /\ Before(d.hand, d.queue)
  BY <1>2, <1>6, <1>7, NothingIn DEF Before
<1>11. \A i \in Range(d.sent) \cup Range(d.hand) : published[i] \in d.visible
  BY <1>2, <1>6, <1>7, NothingIn
<1>12. Fed(d)
  BY <1>2, <1>6, <1>8, <1>9, <1>10, <1>11 DEF Fed, Opening
<1> QED
  BY <1>1, <1>3, <1>5, <1>6, <1>12, RightedOn

\* A new reply goes to the end of every queue that is read.
LEMMA PublishKnows ==
    ASSUME StreamTypes, ConnectionInv, NEW a \in Account, Publish(a), NEW s \in Socket
    PROVE  Righted(sock[s])' /\ Fed(sock[s])'
<1> DEFINE c == sock[s]
           L == Len(published)
           n == L + 1
<1>1. c \in Connection /\ Righted(c) /\ Fed(c) /\ c.queue \in Seq(Nat) /\ c.since \in Nat
      /\ c.sent \in Seq(Nat) /\ c.hand \in Seq(Nat)
  BY DEF StreamTypes, ConnectionInv, Connection
<1>2. /\ L \in Nat /\ Len(published') = n /\ published'[n] = a
      /\ \A i \in 1..L : published'[i] = published[i]
  BY DEF Publish, StreamTypes
<1>3. CASE ~Served(c)
  <2>1. sock'[s] = c /\ UNCHANGED rights
    BY <1>3 DEF Publish
  <2> QED
    BY <1>1, <1>3, <2>1 DEF Righted, Fed, Served, Pairs, Shows, rights
<1>4. CASE Served(c)
  <2> DEFINE d == [c EXCEPT !.queue = Append(@, n)]
  <2>1. sock'[s] = d /\ UNCHANGED rights
    BY <1>4 DEF Publish
  <2>2. /\ Increasing(c.sent) /\ Increasing(c.queue)
        /\ Before(c.sent, c.hand) /\ Before(c.sent, c.queue) /\ Before(c.hand, c.queue)
        /\ c.since <= L
        /\ Held(c) \subseteq (c.since + 1)..L
        /\ \A i \in (c.since + 1)..L : published[i] \in c.visible => i \in Held(c)
        /\ \A i \in Range(c.sent) \cup Range(c.hand) : published[i] \in c.visible
    BY <1>1, <1>4 DEF Fed
  <2>3. \A m \in Held(c) : m \in 1..L /\ m < n
    BY <1>1, <1>2, <2>2
  <2>4. /\ Append(c.queue, n) \in Seq(Nat) /\ Increasing(Append(c.queue, n))
        /\ Range(Append(c.queue, n)) = Range(c.queue) \cup {n}
    BY <1>1, <1>2, <2>2, <2>3, AppendedLast DEF Held
  <2>5. d \in Connection
    BY <1>1, <2>4, Updated
  <2>6. /\ d.pc = c.pc /\ d.hand = c.hand /\ d.sent = c.sent /\ d.queue = Append(c.queue, n)
        /\ d.user = c.user /\ d.visible = c.visible /\ d.past = c.past /\ d.since = c.since
    BY <1>1 DEF Connection
  <2> HIDE DEF d, n
  <2>7. Held(d) = Held(c) \cup {n}
    BY <2>4, <2>6 DEF Held
  <2>8. /\ Before(d.sent, d.hand) /\ Before(d.sent, d.queue) /\ Before(d.hand, d.queue)
    BY <2>2, <2>3, <2>4, <2>6 DEF Before, Held
  <2>9. Held(d) \subseteq (d.since + 1)..Len(published')
    <3> SUFFICES ASSUME NEW i \in Held(d) PROVE i \in (d.since + 1)..Len(published')
      OBVIOUS
    <3>1. n \in (c.since + 1)..n
      BY <1>1, <1>2, <2>2 DEF n
    <3>2. (c.since + 1)..L \subseteq (c.since + 1)..n
      BY <1>1, <1>2 DEF n
    <3> QED
      BY <1>2, <2>2, <2>6, <2>7, <3>1, <3>2
  <2>10. \A i \in (d.since + 1)..Len(published') :
            published'[i] \in d.visible => i \in Held(d)
    <3> SUFFICES ASSUME NEW i \in (c.since + 1)..n, published'[i] \in c.visible
                 PROVE  i \in Held(c) \cup {n}
      BY <1>2, <2>6, <2>7
    <3>0. \A k, l \in Nat : \A j \in (k + 1)..(l + 1) :
             j = l + 1 \/ (j \in (k + 1)..l /\ j \in 1..l)
      OBVIOUS
    <3>1. i = n \/ (i \in (c.since + 1)..L /\ i \in 1..L)
      BY <1>1, <1>2, <3>0 DEF n
    <3> QED
      BY <1>2, <2>2, <3>1
  <2>11. \A i \in Range(d.sent) \cup Range(d.hand) : published'[i] \in d.visible
    BY <1>2, <2>2, <2>3, <2>6 DEF Held
  <2>12. d.since <= Len(published')
    BY <1>1, <1>2, <2>2, <2>6 DEF n
  <2>13. Righted(sock[s])'
    <3>1. Righted(d)
      BY <1>1, <1>4, <2>5, <2>6, RightedOn DEF Served
    <3> QED
      BY <2>1, <3>1 DEF Righted, Pairs, Shows, rights
  <2>14. Fed(sock[s])'
    <3>1. d.pc \in {"loop", "sending"} /\ (d.pc = "loop" => d.hand = <<>>)
          /\ (d.pc = "sending" => Len(d.hand) = 1)
      BY <1>1, <1>4, <2>6 DEF Served, Fed
    <3>2. Increasing(d.sent) /\ Increasing(d.queue)
      BY <2>2, <2>4, <2>6
    <3> QED
      BY <2>1, <2>8, <2>9, <2>10, <2>11, <2>12, <3>1, <3>2 DEF Fed, Opening, Held
  <2> QED
    BY <2>13, <2>14
<1> QED
  BY <1>3, <1>4

\* Who has still to read his rights has to reckon with the version there is now.
LEMMA EditedKnows ==
    ASSUME StreamTypes, NEW g \in [User -> SUBSET Group], NEW m \in SUBSET (Group \X Account),
           Edited(g, m), ConnectionInv, NEW s \in Socket
    PROVE  Righted(sock[s])' /\ Fed(sock[s])'
<1> DEFINE c == sock[s]
           v == [groups |-> g[c.user], member |-> m]
<1>1. c \in Connection /\ Righted(c) /\ Fed(c) /\ c.past \in Seq(Version)
  BY DEF StreamTypes, ConnectionInv, Connection
<1>2. grant' = g /\ member' = m /\ UNCHANGED published
  BY DEF Edited
<1>3. CASE c.pc \in {"resolving", "loading"}
  <2> DEFINE d == [c EXCEPT !.past = Append(@, v)]
  <2>1. sock'[s] = d /\ v \in Version
    BY <1>3, EditedTypes
  <2>2. v.groups = g[c.user] /\ v.member = m
    OBVIOUS
  <2>3. v = [groups |-> grant'[c.user], member |-> member']
    BY <1>2
  <2> HIDE DEF v
  <2>4. Append(c.past, v) \in Seq(Version)
    BY <1>1, <2>1
  <2>5. d \in Connection
    BY <1>1, <2>4, Updated
  <2>6. /\ d.pc = c.pc /\ d.hand = c.hand /\ d.sent = c.sent /\ d.queue = c.queue
        /\ d.user = c.user /\ d.groups = c.groups /\ d.past = Append(c.past, v)
    BY <1>1 DEF Connection
  <2> HIDE DEF d
  <2>7. /\ d.past # <<>> /\ d.past[Len(d.past)] = v
        /\ \A i \in DOMAIN c.past : i \in DOMAIN d.past /\ d.past[i] = c.past[i]
    BY <1>1, <2>1, <2>6
  <2>8. Righted(sock[s])'
    <3>1. d.user \in User
      BY <1>1, <1>3, <2>6 DEF Righted
    <3>2. d.pc = "loading" => d.user \notin Admins
                               /\ \E i \in DOMAIN d.past : d.groups = d.past[i].groups
      BY <1>1, <2>6, <2>7 DEF Righted
    <3> QED
      BY <1>3, <2>1, <2>3, <2>6, <2>7, <3>1, <3>2 DEF Righted
  <2>9. Fed(sock[s])'
    <3>1. Fed(d)
      BY <1>1, <1>3, <2>5, <2>6, FedOpening DEF Opening
    <3> QED
      BY <1>2, <2>1, <3>1 DEF Fed, Served, Held
  <2> QED
    BY <2>8, <2>9
<1>4. CASE c.pc \notin {"resolving", "loading"}
  <2>1. sock'[s] = c
    BY <1>4, EditedTypes
  <2> QED
    BY <1>1, <1>2, <1>4, <2>1 DEF Righted, Fed, Served, Held, Pairs, Shows
<1> QED
  BY <1>3, <1>4

LEMMA HandlerKnows ==
    ASSUME StreamTypes, ConnectionInv, NEW s \in Socket, Serve(s) \/ Breaks(s)
    PROVE  /\ Righted(sock'[s]) /\ Fed(sock'[s])
           /\ \A r \in Socket : r # s => sock'[r] = sock[r]
           /\ UNCHANGED <<rights, published>>
<1>1. CASE Cut(s)
  <2> DEFINE c == sock[s]
             d == [c EXCEPT !.gone = TRUE, !.on = FALSE]
  <2>1. c \in Connection /\ Righted(c) /\ Fed(c)
    BY DEF StreamTypes, ConnectionInv
  <2>2. sock' = [sock EXCEPT ![s] = d] /\ UNCHANGED <<rights, published>>
    BY <1>1 DEF Cut, StreamTypes
  <2>3. d \in Connection
    BY <2>1, Updated
  <2>4. /\ d.pc = c.pc /\ d.user = c.user /\ d.groups = c.groups /\ d.visible = c.visible
        /\ d.queue = c.queue /\ d.hand = c.hand /\ d.since = c.since /\ d.sent = c.sent
        /\ d.past = c.past
    BY <2>1 DEF Connection
  <2> HIDE DEF d
  <2>5. Righted(d) /\ Fed(d)
    BY <2>1, <2>3, <2>4, Alike
  <2> QED
    BY <2>2, <2>5 DEF StreamTypes
<1>2. CASE ~Cut(s)
  <2>1. /\ \A r \in Socket : r # s => sock'[r] = sock[r]
        /\ UNCHANGED <<rights, published>>
    BY <1>2, ServeHandled DEF Handled, Serve, Breaks, StreamTypes
  <2>2. CASE Resolve(s) \/ Load(s) \/ Accept(s) \/ Subscribe(s) \/ Take(s) \/ SendReply(s)
    BY <2>1, <2>2, ResolveKnows, LoadKnows, OpenKnows, TakeKnows, SendKnows
  <2>3. CASE PingRaises(s) \/ SendRaises(s) \/ Closed(s)
    <3>1. sock'[s] = Off
      BY <2>3 DEF PingRaises, SendRaises, Closed, Goes, StreamTypes
    <3> QED
      BY <2>1, <3>1, OffFacts, Idle
  <2>4. CASE ResolveFails(s) \/ LoadFails(s) \/ SubscribeFails(s) \/ TakeFails(s)
    <3>1. sock'[s].pc = "closing"
      BY <2>4
      DEF ResolveFails, LoadFails, SubscribeFails, TakeFails, Goes, StreamTypes, Connection
    <3> QED
      BY <2>1, <3>1, Idle
  <2> QED
    BY <1>2, <2>2, <2>3, <2>4 DEF Serve, Breaks
<1> QED
  BY <1>1, <1>2

\* A page's side makes a connection and tears others down.
LEMMA PageKnows ==
    ASSUME StreamTypes, ConnectionInv, NEW t \in Tab,
           Connect(t) \/ \E u \in User \cup {None} : Switch(t, u), NEW s \in Socket
    PROVE  /\ Righted(sock'[s]) /\ Fed(sock'[s])
           /\ UNCHANGED <<rights, published>>
<1> DEFINE c == sock[s]
           d == [c EXCEPT !.on = FALSE, !.gone = TRUE]
<1>1. c \in Connection /\ Righted(c) /\ Fed(c)
  BY DEF StreamTypes, ConnectionInv
<1>2. Righted(d) /\ Fed(d)
  <2>1. d \in Connection
    BY <1>1, Updated
  <2>2. /\ d.pc = c.pc /\ d.user = c.user /\ d.groups = c.groups /\ d.visible = c.visible
        /\ d.queue = c.queue /\ d.hand = c.hand /\ d.since = c.since /\ d.sent = c.sent
        /\ d.past = c.past
    BY <1>1 DEF Connection
  <2> HIDE DEF d
  <2> QED
    BY <1>1, <2>1, <2>2, Alike
<1>3. UNCHANGED <<rights, published>>
  BY DEF Connect, Switch
<1>4. CASE Connect(t)
  <2>1. tab[t].user \in User
    BY <1>4, ConnectTypes
  <2>2. sock'[s] = c \/ sock'[s] = Fresh(t, tab[t].user)
    BY <1>4 DEF Connect, StreamTypes
  <2> QED
    BY <1>1, <1>3, <2>1, <2>2, FreshKnows
<1>5. ASSUME NEW u \in User \cup {None}, Switch(t, u) PROVE Righted(sock'[s]) /\ Fed(sock'[s])
  <2>1. TornDown(t)[s] = c \/ TornDown(t)[s] = d
    BY TornDownFacts
  <2>2. sock'[s] = TornDown(t)[s] \/ (u \in User /\ sock'[s] = Fresh(t, u))
    <3>1. TornDown(t) \in [Socket -> Connection]
      BY TornDownFacts
    <3>2. CASE u = None
      BY <1>5, <3>2 DEF Switch
    <3>3. CASE u # None
      <4>1. PICK r \in Socket : sock' = [TornDown(t) EXCEPT ![r] = Fresh(t, u)]
        BY <1>5, <3>3 DEF Switch
      <4> QED
        BY <1>5, <3>1, <3>3, <4>1
    <3> QED
      BY <3>2, <3>3
  <2> QED
    BY <1>1, <1>2, <2>1, <2>2, FreshKnows
<1> QED
  BY <1>3, <1>4, <1>5

LEMMA InitKnows == ASSUME Init PROVE ConnectionInv
BY OffFacts, Idle DEF Init, ConnectionInv

-----------------------------------------------------------------------------
(* Codes                                                                   *)

LEMMA OffCoded == Coded(Off)
BY OffFacts DEF Coded, Refused

LEMMA FreshCoded ==
    ASSUME StreamTypes, NEW t \in Tab, NEW u \in User
    PROVE  Coded(Fresh(t, u))
BY FreshFacts DEF Coded, Refused

LEMMA CodedAlike ==
    ASSUME NEW c, NEW d, Coded(c), d.pc = c.pc, d.code = c.code, d.accepted = c.accepted
    PROVE  Coded(d)
BY DEF Coded

LEMMA HandlerCoded ==
    ASSUME StreamTypes, CodeInv, NEW s \in Socket, Serve(s) \/ Breaks(s)
    PROVE  Coded(sock'[s])
<1> DEFINE c == sock[s]
<1>1. c \in Connection /\ Coded(c)
  BY DEF StreamTypes, CodeInv
<1>2. CASE Resolve(s)
  BY <1>1, <1>2 DEF Resolve, Goes, StreamTypes, Connection, Coded, Refused
<1>3. CASE Load(s) \/ Accept(s) \/ Subscribe(s)
  <2>1. /\ c.pc # "closing" /\ sock'[s].pc \notin {"closing", "resolving", "loading"}
        /\ sock'[s].code = c.code
        /\ Load(s) => c.pc = "loading" /\ sock'[s].accepted = c.accepted
        /\ ~Load(s) => sock'[s].pc \in {"subscribing", "loop"}
    <3>1. CASE Load(s)
      BY <1>1, <3>1 DEF Load, Goes, StreamTypes, Connection
    <3>2. CASE Accept(s)
      BY <1>1, <3>2 DEF Accept, Load, Goes, StreamTypes, Connection
    <3>3. CASE Subscribe(s)
      BY <1>1, <3>3 DEF Subscribe, Load, Goes, StreamTypes, Connection
    <3> QED
      BY <1>3, <3>1, <3>2, <3>3
  <2> QED
    BY <1>1, <2>1 DEF Coded, Refused
<1>4. CASE Take(s) \/ SendReply(s)
  <2>1. /\ c.pc # "closing" /\ sock'[s].pc \in {"loop", "sending"}
        /\ sock'[s].code = c.code
    <3>1. CASE Take(s) /\ published[Head(c.queue)] \in c.visible
      BY <1>1, <3>1 DEF Take, Goes, StreamTypes, Connection
    <3>2. CASE Take(s) /\ published[Head(c.queue)] \notin c.visible
      BY <1>1, <3>2 DEF Take, Goes, StreamTypes, Connection
    <3>3. CASE SendReply(s)
      BY <1>1, <3>3 DEF SendReply, StreamTypes, Connection
    <3> QED
      BY <1>4, <3>1, <3>2, <3>3
  <2> QED
    BY <1>1, <2>1 DEF Coded, Refused
<1>5. CASE PingRaises(s) \/ SendRaises(s) \/ Closed(s)
  BY <1>5, OffCoded DEF PingRaises, SendRaises, Closed, Goes, StreamTypes
<1>6. CASE ResolveFails(s) \/ LoadFails(s) \/ SubscribeFails(s) \/ TakeFails(s)
  <2>1. /\ sock'[s].pc = "closing" /\ sock'[s].accepted = c.accepted
        /\ sock'[s].code = Internal \/ (sock'[s].code = Refused /\ c.pc = "resolving")
    <3>1. CASE ResolveFails(s)
      BY <1>1, <3>1 DEF ResolveFails, Goes, StreamTypes, Connection
    <3>2. CASE LoadFails(s)
      BY <1>1, <3>2 DEF LoadFails, Goes, StreamTypes, Connection
    <3>3. CASE SubscribeFails(s)
      BY <1>1, <3>3 DEF SubscribeFails, Goes, StreamTypes, Connection
    <3>4. CASE TakeFails(s)
      BY <1>1, <3>4 DEF TakeFails, Goes, StreamTypes, Connection
    <3> QED
      BY <1>6, <3>1, <3>2, <3>3, <3>4
  <2> QED
    BY <1>1, <2>1 DEF Coded, Refused, Internal
<1>7. CASE Cut(s)
  BY <1>1, <1>7 DEF Cut, StreamTypes, Connection, Coded
<1> QED
  BY <1>2, <1>3, <1>4, <1>5, <1>6, <1>7 DEF Serve, Breaks

\* Told why it was closed, a page never hears that it was refused.
LEMMA NeverSeenRefused ==
    ASSUME StreamTypes, NEW c \in Connection, Coded(c), c.on => c.tab \in Tab
    PROVE  /\ OnClose(c) = IF c.on THEN [tab EXCEPT ![c.tab].timer = TRUE] ELSE tab
           /\ OnClose([c EXCEPT !.code = Abnormal]) = OnClose(c)
<1> DEFINE d == [c EXCEPT !.code = Abnormal]
<1>1. d.on = c.on /\ d.tab = c.tab /\ d.accepted = c.accepted /\ d.code = Abnormal
  BY DEF Connection
<1>2. Seen(c) # Refused /\ Seen(d) # Refused
  BY <1>1 DEF Seen, Coded, Refused, Abnormal
<1> QED
  BY <1>1, <1>2 DEF OnClose

-----------------------------------------------------------------------------
(* Pages and their connections                                             *)

LEMMA PageKept ==
    ASSUME PageInv, tab' = tab,
           \A s \in Socket : sock'[s].on =>
              /\ sock[s].on /\ sock'[s].user = sock[s].user /\ sock'[s].tab = sock[s].tab
              /\ ~sock'[s].gone /\ sock'[s].pc # "off"
    PROVE  PageInv'
BY DEF PageInv

\* The page of an attached connection that ends waits to try again.
LEMMA PageLeft ==
    ASSUME StreamTypes, PageInv, NEW s \in Socket,
           \A r \in Socket : r # s => sock'[r] = sock[r],
           ~sock'[s].on,
           tab' = IF sock[s].on THEN [tab EXCEPT ![sock[s].tab].timer = TRUE] ELSE tab
    PROVE  PageInv'
<1> SUFFICES ASSUME NEW r \in Socket, sock'[r].on
             PROVE  /\ sock'[r].pc # "off" /\ ~sock'[r].gone
                    /\ sock'[r].tab \in Tab
                    /\ tab'[sock'[r].tab].user = sock'[r].user /\ ~tab'[sock'[r].tab].timer
                    /\ \A q \in Socket : sock'[q].on /\ sock'[q].tab = sock'[r].tab => q = r
  BY DEF PageInv
<1>1. r # s /\ sock'[r] = sock[r] /\ sock[r].on
  OBVIOUS
<1>2. /\ sock[r].pc # "off" /\ ~sock[r].gone /\ sock[r].tab \in Tab
      /\ tab[sock[r].tab].user = sock[r].user /\ ~tab[sock[r].tab].timer
      /\ \A q \in Socket : sock[q].on /\ sock[q].tab = sock[r].tab => q = r
  BY <1>1 DEF PageInv
<1>3. tab'[sock[r].tab] = tab[sock[r].tab]
  <2>1. sock[s].on => sock[s].tab # sock[r].tab
    BY <1>1, <1>2
  <2> QED
    BY <1>2, <2>1 DEF StreamTypes
<1>4. \A q \in Socket : sock'[q].on => sock'[q] = sock[q] /\ sock[q].on
  OBVIOUS
<1> QED
  BY <1>1, <1>2, <1>3, <1>4

LEMMA ConnectPage ==
    ASSUME StreamTypes, PageInv, NEW t \in Tab, Connect(t)
    PROVE  PageInv'
<1>1. PICK s \in Socket : sock[s] = Off /\ sock' = [sock EXCEPT ![s] = Fresh(t, tab[t].user)]
  BY DEF Connect
<1>2. /\ tab[t].user \in User /\ tab[t].timer
      /\ tab'[t].user = tab[t].user /\ ~tab'[t].timer
      /\ \A p \in Tab : p # t => tab'[p] = tab[p]
  <2>1. tab[t].user \in User /\ tab[t].timer
    BY ConnectTypes DEF Connect
  <2>2. tab' = [tab EXCEPT ![t] = [tab[t] EXCEPT !.timer = FALSE]] /\ tab[t] \in Page
    BY DEF Connect, StreamTypes
  <2>3. [tab[t] EXCEPT !.timer = FALSE].user = tab[t].user
        /\ ~[tab[t] EXCEPT !.timer = FALSE].timer
    BY <2>2 DEF Page
  <2> QED
    BY <2>1, <2>2, <2>3 DEF StreamTypes
<1> DEFINE d == Fresh(t, tab[t].user)
<1>3. d.pc = "resolving" /\ d.user = tab[t].user /\ d.tab = t /\ d.on /\ ~d.gone
  BY <1>2, FreshFacts
<1> HIDE DEF d
<1>4. /\ sock'[s] = d /\ (\A r \in Socket : r # s => sock'[r] = sock[r])
      /\ tab'[t].user = tab[t].user /\ ~tab'[t].timer
      /\ \A p \in Tab : p # t => tab'[p] = tab[p]
  BY <1>1, <1>2 DEF StreamTypes, d
<1>5. \A r \in Socket : sock[r].on => sock[r].tab # t
  BY <1>2 DEF PageInv
<1> HIDE DEF d
<1> SUFFICES ASSUME NEW r \in Socket, sock'[r].on
             PROVE  /\ sock'[r].pc # "off" /\ ~sock'[r].gone
                    /\ sock'[r].tab \in Tab
                    /\ tab'[sock'[r].tab].user = sock'[r].user /\ ~tab'[sock'[r].tab].timer
                    /\ \A q \in Socket : sock'[q].on /\ sock'[q].tab = sock'[r].tab => q = r
  BY DEF PageInv
<1>6. CASE r = s
  BY <1>3, <1>4, <1>5, <1>6
<1>7. CASE r # s
  BY <1>3, <1>4, <1>5, <1>7 DEF PageInv
<1> QED
  BY <1>6, <1>7

LEMMA SwitchPage ==
    ASSUME StreamTypes, PageInv, NEW t \in Tab, NEW u \in User \cup {None}, Switch(t, u)
    PROVE  PageInv'
<1>1. /\ tab'[t] = [user |-> u, timer |-> FALSE]
      /\ \A p \in Tab : p # t => tab'[p] = tab[p]
  BY DEF Switch, AfterSwitch, StreamTypes
<1>2. \A r \in Socket : TornDown(t)[r].on =>
          TornDown(t)[r] = sock[r] /\ sock[r].tab # t /\ sock[r].on
  <2> SUFFICES ASSUME NEW r \in Socket, TornDown(t)[r].on
               PROVE  TornDown(t)[r] = sock[r] /\ sock[r].tab # t
    OBVIOUS
  <2>1. ~[sock[r] EXCEPT !.on = FALSE, !.gone = TRUE].on
    BY DEF StreamTypes, Connection
  <2> QED
    BY <2>1, TornDownFacts
<1>3. TornDown(t) \in [Socket -> Connection]
  BY TornDownFacts
<1>4. CASE u = None
  <2>1. sock' = TornDown(t)
    BY <1>4 DEF Switch
  <2> QED
    BY <1>1, <1>2, <2>1 DEF PageInv
<1>5. CASE u # None
  <2>1. PICK s \in Socket : sock' = [TornDown(t) EXCEPT ![s] = Fresh(t, u)]
    BY <1>5 DEF Switch
  <2> DEFINE d == Fresh(t, u)
  <2>2. d.pc = "resolving" /\ d.user = u /\ d.tab = t /\ d.on /\ ~d.gone
    BY <1>5, FreshFacts
  <2>3. sock'[s] = d /\ (\A r \in Socket : r # s => sock'[r] = TornDown(t)[r])
    BY <1>3, <2>1
  <2> HIDE DEF d
  <2> SUFFICES ASSUME NEW r \in Socket, sock'[r].on
               PROVE  /\ sock'[r].pc # "off" /\ ~sock'[r].gone
                      /\ sock'[r].tab \in Tab
                      /\ tab'[sock'[r].tab].user = sock'[r].user /\ ~tab'[sock'[r].tab].timer
                      /\ \A q \in Socket : sock'[q].on /\ sock'[q].tab = sock'[r].tab => q = r
    BY DEF PageInv
  <2>4. CASE r = s
    <3>1. \A q \in Socket : sock'[q].on /\ q # s => sock'[q].tab # t
      BY <1>2, <2>3
    <3> QED
      BY <1>1, <2>2, <2>3, <2>4, <3>1
  <2>5. CASE r # s
    BY <1>1, <1>2, <2>2, <2>3, <2>5 DEF PageInv
  <2> QED
    BY <2>4, <2>5
<1> QED
  BY <1>4, <1>5

-----------------------------------------------------------------------------
(* What the pages have shown                                               *)

LEMMA AtsAppend ==
    ASSUME NEW x \in Seq(Shown), NEW e \in Shown
    PROVE  /\ Ats(x) \in Seq(Nat)
           /\ Ats(x \o <<e>>) = Append(Ats(x), e.at)
           /\ \A k \in DOMAIN (x \o <<e>>) : k \in DOMAIN x \/ (x \o <<e>>)[k] = e
           /\ \A k \in DOMAIN x : (x \o <<e>>)[k] = x[k]
<1> DEFINE L == Len(x)
           y == x \o <<e>>
<1>1. L \in Nat /\ DOMAIN x = 1..L /\ \A k \in 1..L : x[k].at \in Nat
  <2>1. L \in Nat /\ DOMAIN x = 1..L /\ \A k \in 1..L : x[k] \in Shown
    OBVIOUS
  <2> QED
    BY <2>1 DEF Shown
<1>2. /\ y = Append(x, e) /\ DOMAIN y = 1..(L + 1) /\ y[L + 1] = e
      /\ \A k \in 1..L : y[k] = x[k]
  BY AppendIsConcat, <1>1
<1>3. Ats(x) \in Seq(Nat) /\ Len(Ats(x)) = L /\ \A k \in 1..L : Ats(x)[k] = x[k].at
  BY <1>1 DEF Ats
<1> HIDE DEF y, L
<1>4. \A k \in 1..(L + 1) : k \in 1..L \/ k = L + 1
  BY <1>1
<1>5. e.at \in Nat
  BY DEF Shown
<1>6. Ats(y) = Append(Ats(x), e.at)
  <2> DEFINE z == Append(Ats(x), e.at)
  <2>1. /\ z \in Seq(Nat) /\ Len(z) = L + 1 /\ z[L + 1] = e.at
        /\ \A k \in 1..L : z[k] = x[k].at
    BY <1>1, <1>3, <1>5
  <2>2. DOMAIN Ats(y) = 1..(L + 1) /\ \A k \in 1..(L + 1) : Ats(y)[k] = y[k].at
    BY <1>2 DEF Ats
  <2>3. \A k \in 1..(L + 1) : Ats(y)[k] = z[k]
    BY <1>2, <1>4, <2>1, <2>2
  <2>4. Ats(y) = [k \in 1..(L + 1) |-> y[k].at]
    BY <1>2 DEF Ats
  <2>5. z = [k \in 1..(L + 1) |-> z[k]]
    BY <1>1, <2>1
  <2> QED
    BY <2>2, <2>3, <2>4, <2>5
<1> QED
  BY <1>1, <1>2, <1>3, <1>4, <1>6 DEF y

\* All that is new to a connection is newer than what had been published.
LEMMA ShownKept ==
    ASSUME StreamTypes, StreamTypes', ShownInv, ShownOnce, PageInv', shown' = shown,
           Len(published') >= Len(published),
           \A t \in Tab : tab'[t].user = tab[t].user,
           \A s \in Socket : sock'[s].on /\ Served(sock'[s]) =>
              /\ sock[s].on /\ sock'[s].tab = sock[s].tab
              /\ \A n \in Range(sock'[s].hand) \cup Range(sock'[s].queue) :
                    \/ Served(sock[s]) /\ n \in Range(sock[s].hand) \cup Range(sock[s].queue)
                    \/ n > Len(published)
    PROVE  ShownInv' /\ ShownOnce'
<1>1. ShownOnce'
  BY DEF ShownOnce
<1>2. Len(published) \in Nat /\ Len(published') \in Nat
  BY DEF StreamTypes
<1>3. \A t \in Tab : Range(Ats(shown[t])) \subseteq 1..Len(published)
  BY DEF ShownInv
<1>4. \A t \in Tab : Range(Ats(shown'[t])) \subseteq 1..Len(published')
  BY <1>2, <1>3
<1>5. ASSUME NEW s \in Socket, sock'[s].on, Served(sock'[s])
      PROVE  /\ Before(Ats(shown'[sock'[s].tab]), sock'[s].hand)
             /\ Before(Ats(shown'[sock'[s].tab]), sock'[s].queue)
  <2> DEFINE t == sock[s].tab
  <2>1. sock[s].on /\ sock'[s].tab = t /\ t \in Tab
    BY <1>5 DEF PageInv
  <2> SUFFICES ASSUME NEW m \in Range(Ats(shown[t])),
                      NEW n \in Range(sock'[s].hand) \cup Range(sock'[s].queue)
               PROVE  m < n
    BY <2>1 DEF Before
  <2>2. m \in Nat /\ m <= Len(published)
    BY <1>2, <1>3, <2>1
  <2>3. CASE Served(sock[s]) /\ n \in Range(sock[s].hand) \cup Range(sock[s].queue)
    BY <2>1, <2>3 DEF ShownInv, Before
  <2>4. CASE n > Len(published)
    <3>1. n \in Nat
      BY DEF StreamTypes, Connection, Range
    <3> QED
      BY <1>2, <2>2, <2>4, <3>1
  <2> QED
    BY <1>5, <2>3, <2>4
<1> QED
  BY <1>1, <1>4, <1>5 DEF ShownInv

\* The page is sent the reply in hand, which is newer than all it has shown.
LEMMA SentShown ==
    ASSUME StreamInv, StreamTypes', PageInv', NEW s \in Socket, SendReply(s), sock[s].on
    PROVE  ShownInv' /\ ShownOnce'
<1> DEFINE c == sock[s]
           t == c.tab
           x == shown[t]
           e == [at |-> c.hand[1], user |-> c.user]
<1>1. /\ c \in Connection /\ c.pc = "sending" /\ c.hand \in Seq(Nat) /\ Len(c.hand) = 1
      /\ c.queue \in Seq(Nat)
  BY DEF StreamInv, StreamTypes, ConnectionInv, Fed, SendReply, Connection
<1>2. t \in Tab /\ tab[t].user = c.user /\ ~c.gone
      /\ \A r \in Socket : sock[r].on /\ sock[r].tab = t => r = s
  BY DEF StreamInv, PageInv
<1>3. c.hand[1] \in Nat /\ Range(c.hand) = {c.hand[1]}
  BY <1>1, OneInHand
<1>4. e \in Shown /\ e.at = c.hand[1] /\ e.user = c.user /\ x \in Seq(Shown)
  BY <1>1, <1>2, <1>3 DEF Shown, StreamInv, StreamTypes, Connection
<1>5. shown' = [shown EXCEPT ![t] = x \o <<e>>]
  BY <1>2 DEF SendReply
<1>6. shown'[t] = x \o <<e>> /\ \A p \in Tab : p # t => shown'[p] = shown[p]
  BY <1>2, <1>5 DEF StreamInv, StreamTypes
<1>7. UNCHANGED <<tab, published>> /\ \A r \in Socket : r # s => sock'[r] = sock[r]
  BY DEF SendReply, StreamInv, StreamTypes
<1>8. sock'[s].hand = <<>> /\ sock'[s].queue = c.queue /\ sock'[s].tab = t /\ sock'[s].on
  BY <1>1 DEF SendReply, StreamInv, StreamTypes, Connection
<1> HIDE DEF e
<1>9. /\ Ats(x) \in Seq(Nat) /\ Ats(shown'[t]) = Append(Ats(x), e.at)
      /\ \A k \in DOMAIN shown'[t] : k \in DOMAIN x \/ shown'[t][k] = e
      /\ \A k \in DOMAIN x : shown'[t][k] = x[k]
  <2> DEFINE y == x \o <<e>>
  <2>1. /\ Ats(x) \in Seq(Nat) /\ Ats(y) = Append(Ats(x), e.at)
        /\ \A k \in DOMAIN y : k \in DOMAIN x \/ y[k] = e
        /\ \A k \in DOMAIN x : y[k] = x[k]
    BY <1>4, AtsAppend, Zenon
  <2>2. shown'[t] = y
    BY <1>6
  <2> HIDE DEF y
  <2> QED
    BY <2>1, <2>2
<1>10. /\ Increasing(Ats(x)) /\ Before(Ats(x), c.hand) /\ Before(Ats(x), c.queue)
       /\ \A k \in DOMAIN x : x[k].user = tab[t].user
       /\ Range(Ats(x)) \subseteq 1..Len(published)
  BY <1>1, <1>2 DEF StreamInv, ShownInv, ShownOnce, Served, Ats
<1>11. \A m \in Range(Ats(x)) : m < e.at
  BY <1>3, <1>4, <1>10 DEF Before
<1>12. Increasing(Ats(shown'[t])) /\ Range(Ats(shown'[t])) = Range(Ats(x)) \cup {e.at}
  BY <1>3, <1>4, <1>9, <1>10, <1>11, AppendedLast
<1>13. e.at \in 1..Len(published) /\ \A n \in Range(c.queue) : e.at < n
  <2>1. /\ Held(c) \subseteq (c.since + 1)..Len(published) /\ Before(c.hand, c.queue)
        /\ c.since \in Nat
    BY <1>1 DEF StreamInv, ConnectionInv, Fed, Served, Connection
  <2>2. (c.since + 1)..Len(published) \subseteq 1..Len(published)
    BY <2>1 DEF StreamInv, StreamTypes
  <2> QED
    BY <1>3, <1>4, <2>1, <2>2 DEF Held, Before
<1>14. ShownOnce'
  <2> SUFFICES ASSUME NEW p \in Tab
               PROVE  /\ \A k \in DOMAIN shown'[p] : shown'[p][k].user = tab'[p].user
                      /\ Increasing(Ats(shown'[p]))
    BY DEF ShownOnce, Ats
  <2>1. CASE p = t
    BY <1>2, <1>4, <1>7, <1>9, <1>10, <1>12, <2>1
  <2>2. CASE p # t
    BY <1>6, <1>7, <2>2 DEF StreamInv, ShownOnce, Ats
  <2> QED
    BY <2>1, <2>2
<1>15. \A p \in Tab : Range(Ats(shown'[p])) \subseteq 1..Len(published')
  <2> TAKE p \in Tab
  <2>1. CASE p = t
    BY <1>7, <1>10, <1>12, <1>13, <2>1
  <2>2. CASE p # t
    BY <1>6, <1>7, <2>2 DEF StreamInv, ShownInv
  <2> QED
    BY <2>1, <2>2
<1>16. ASSUME NEW r \in Socket, sock'[r].on, Served(sock'[r])
       PROVE  /\ Before(Ats(shown'[sock'[r].tab]), sock'[r].hand)
              /\ Before(Ats(shown'[sock'[r].tab]), sock'[r].queue)
  <2>1. CASE r = s
    BY <1>8, <1>10, <1>12, <1>13, <2>1, NothingIn DEF Before
  <2>2. CASE r # s
    <3>1. sock'[r] = sock[r] /\ sock[r].tab \in Tab /\ sock[r].tab # t
      BY <1>2, <1>7, <1>16, <2>2 DEF StreamInv, PageInv
    <3> QED
      BY <1>6, <1>16, <3>1 DEF StreamInv, ShownInv
  <2> QED
    BY <2>1, <2>2
<1> QED
  BY <1>14, <1>15, <1>16 DEF ShownInv

\* After a switch the page has shown nothing, and is connected anew.
LEMMA SwitchShown ==
    ASSUME StreamInv, StreamTypes', PageInv', NEW t \in Tab,
           NEW u \in User \cup {None}, Switch(t, u)
    PROVE  ShownInv' /\ ShownOnce'
<1>1. /\ shown'[t] = <<>> /\ UNCHANGED published
      /\ \A p \in Tab : p # t => shown'[p] = shown[p] /\ tab'[p] = tab[p]
  BY DEF Switch, StreamInv, StreamTypes
<1>2. Ats(<<>>) = <<>>
  BY DEF Ats
<1>3. ShownOnce'
  <2> SUFFICES ASSUME NEW p \in Tab
               PROVE  /\ \A k \in DOMAIN shown'[p] : shown'[p][k].user = tab'[p].user
                      /\ Increasing(Ats(shown'[p]))
    BY DEF ShownOnce, Ats
  <2>1. CASE p = t
    BY <1>1, <1>2, <2>1, NothingIn
  <2>2. CASE p # t
    BY <1>1, <2>2 DEF StreamInv, ShownOnce, Ats
  <2> QED
    BY <2>1, <2>2
<1>4. \A p \in Tab : Range(Ats(shown'[p])) \subseteq 1..Len(published')
  BY <1>1, <1>2, NothingIn DEF StreamInv, ShownInv
<1>5. ASSUME NEW s \in Socket, sock'[s].on, Served(sock'[s])
      PROVE  sock'[s] = sock[s] /\ sock[s].on /\ sock[s].tab # t /\ sock[s].tab \in Tab
  <2>1. TornDown(t) \in [Socket -> Connection] /\ StreamTypes
    BY TornDownFacts DEF StreamInv
  <2>2. ~[sock[s] EXCEPT !.on = FALSE, !.gone = TRUE].on
    BY <2>1 DEF StreamTypes, Connection
  <2>3. sock'[s] = TornDown(t)[s]
    <3>1. CASE u = None
      BY <3>1 DEF Switch
    <3>2. CASE u # None
      <4>1. PICK r \in Socket : sock' = [TornDown(t) EXCEPT ![r] = Fresh(t, u)]
        BY <3>2 DEF Switch
      <4>2. Fresh(t, u).pc = "resolving"
        BY <2>1, <3>2, FreshFacts
      <4> QED
        BY <1>5, <2>1, <4>1, <4>2 DEF Served
    <3> QED
      BY <3>1, <3>2
  <2>4. sock'[s] = sock[s] /\ sock[s].tab # t
    BY <1>5, <2>1, <2>2, <2>3, TornDownFacts
  <2> QED
    BY <1>5, <2>4 DEF StreamInv, PageInv
<1>6. ASSUME NEW s \in Socket, sock'[s].on, Served(sock'[s])
      PROVE  /\ Before(Ats(shown'[sock'[s].tab]), sock'[s].hand)
             /\ Before(Ats(shown'[sock'[s].tab]), sock'[s].queue)
  BY <1>1, <1>5, <1>6 DEF StreamInv, ShownInv
<1> QED
  BY <1>3, <1>4, <1>6 DEF ShownInv

\* A handler's step that sends nothing to its page: what it takes in hand it had.
LEMMA HandlerHolds ==
    ASSUME StreamTypes, ConnectionInv, NEW s \in Socket, Serve(s) \/ Breaks(s),
           Served(sock'[s]), ~Cut(s)
    PROVE  /\ sock'[s].on = sock[s].on /\ sock'[s].tab = sock[s].tab
           /\ \A n \in Range(sock'[s].hand) \cup Range(sock'[s].queue) :
                 Served(sock[s]) /\ n \in Range(sock[s].hand) \cup Range(sock[s].queue)
<1> DEFINE c == sock[s]
<1>1. c \in Connection /\ Fed(c)
  BY DEF StreamTypes, ConnectionInv
<1>2. sock'[s].pc \in {"loop", "sending"}
  BY DEF Served
<1>3. CASE Take(s)
  <2>1. /\ c.queue \in Seq(Nat) /\ c.queue # <<>> /\ c.pc = "loop" /\ c.hand = <<>>
    BY <1>1, <1>3 DEF Take, Goes, Connection, Fed
  <2>2. /\ Head(c.queue) \in Range(c.queue)
        /\ Range(Tail(c.queue)) \subseteq Range(c.queue)
    <3> DEFINE q == c.queue
    <3>1. /\ q = <<Head(q)>> \o Tail(q) /\ Head(q) \in Nat /\ Tail(q) \in Seq(Nat)
          /\ <<Head(q)>> \in Seq(Nat)
      BY <2>1
    <3>2. Range(q) = Range(<<Head(q)>>) \cup Range(Tail(q))
      BY <3>1, RangeConcatenation
    <3> QED
      BY <3>2, JustOne
  <2>3. CASE published[Head(c.queue)] \in c.visible
    <3>1. /\ sock'[s].hand = <<Head(c.queue)>> /\ sock'[s].queue = Tail(c.queue)
          /\ sock'[s].on = c.on /\ sock'[s].tab = c.tab
      BY <1>1, <1>3, <2>3 DEF Take, Goes, StreamTypes, Connection
    <3> QED
      BY <2>1, <2>2, <3>1, JustOne DEF Served
  <2>4. CASE published[Head(c.queue)] \notin c.visible
    <3>1. /\ sock'[s].hand = c.hand /\ sock'[s].queue = Tail(c.queue)
          /\ sock'[s].on = c.on /\ sock'[s].tab = c.tab
      BY <1>1, <1>3, <2>4 DEF Take, Goes, StreamTypes, Connection
    <3> QED
      BY <2>1, <2>2, <3>1 DEF Served
  <2> QED
    BY <2>3, <2>4
<1>4. CASE SendReply(s)
  <2>1. /\ sock'[s].hand = <<>> /\ sock'[s].queue = c.queue /\ c.pc = "sending"
        /\ sock'[s].on = c.on /\ sock'[s].tab = c.tab
    BY <1>1, <1>4 DEF SendReply, StreamTypes, Connection
  <2> QED
    BY <2>1, NothingIn DEF Served
<1>5. CASE Subscribe(s)
  <2>1. /\ sock'[s].hand = c.hand /\ sock'[s].queue = c.queue /\ c.pc = "subscribing"
        /\ sock'[s].on = c.on /\ sock'[s].tab = c.tab
    BY <1>1, <1>5 DEF Subscribe, Goes, StreamTypes, Connection
  <2>2. c.hand = <<>> /\ c.queue = <<>>
    BY <1>1, <2>1 DEF Fed, Opening
  <2> QED
    BY <2>1, <2>2, NothingIn
<1>6. CASE Resolve(s)
  <2>1. sock'[s].pc \in {"closing", "accepting", "loading"}
    BY <1>1, <1>6 DEF Resolve, Goes, StreamTypes, Connection
  <2> QED
    BY <1>2, <2>1
<1>7. CASE Load(s) \/ Accept(s)
  <2>1. sock'[s].pc \in {"accepting", "subscribing"}
    BY <1>1, <1>7 DEF Load, Accept, Goes, StreamTypes, Connection
  <2> QED
    BY <1>2, <2>1
<1>8. CASE PingRaises(s) \/ SendRaises(s) \/ Closed(s)
  <2>1. sock'[s] = Off
    BY <1>8 DEF PingRaises, SendRaises, Closed, Goes, StreamTypes
  <2> QED
    BY <1>2, <2>1, OffFacts
<1>9. CASE ResolveFails(s) \/ LoadFails(s) \/ SubscribeFails(s) \/ TakeFails(s)
  <2>1. sock'[s].pc = "closing"
    BY <1>9
    DEF ResolveFails, LoadFails, SubscribeFails, TakeFails, Goes, StreamTypes, Connection
  <2> QED
    BY <1>2, <2>1
<1> QED
  BY <1>3, <1>4, <1>5, <1>6, <1>7, <1>8, <1>9 DEF Serve, Breaks

LEMMA HandlerPage ==
    ASSUME StreamInv, NEW s \in Socket, Serve(s) \/ Breaks(s)
    PROVE  PageInv' /\ \A t \in Tab : tab'[t].user = tab[t].user
<1> DEFINE c == sock[s]
<1>1. c \in Connection /\ Coded(c) /\ StreamTypes /\ ConnectionInv /\ PageInv
      /\ (c.on => c.tab \in Tab /\ ~c.gone /\ c.pc # "off")
  BY DEF StreamInv, StreamTypes, CodeInv, PageInv
<1>2. \A r \in Socket : r # s => sock'[r] = sock[r]
  BY <1>1, HandlerKnows
<1>3. CASE Closed(s) \/ Cut(s)
  <2>1. tab' = IF c.on THEN [tab EXCEPT ![c.tab].timer = TRUE] ELSE tab
    BY <1>1, <1>3, NeverSeenRefused DEF Closed, Cut
  <2>2. ~sock'[s].on
    <3>1. CASE Closed(s)
      BY <3>1, OffFacts DEF Closed, StreamInv, StreamTypes
    <3>2. CASE Cut(s)
      <4>1. ~[c EXCEPT !.gone = TRUE, !.on = FALSE].on
        BY <1>1 DEF Connection
      <4> QED
        BY <3>2, <4>1 DEF Cut, StreamInv, StreamTypes
    <3> QED
      BY <1>3, <3>1, <3>2
  <2>3. PageInv'
    BY <1>1, <1>2, <2>1, <2>2, PageLeft
  <2>4. \A t \in Tab : tab'[t].user = tab[t].user
    <3> TAKE t \in Tab
    <3>1. tab[t] \in Page
      BY <1>1 DEF StreamTypes
    <3>2. [tab[t] EXCEPT !.timer = TRUE].user = tab[t].user
      BY <3>1 DEF Page
    <3>3. tab'[t] = tab[t] \/ tab'[t] = [tab[t] EXCEPT !.timer = TRUE]
      BY <1>1, <2>1 DEF StreamTypes
    <3> QED
      BY <3>2, <3>3
  <2> QED
    BY <2>3, <2>4
<1>4. CASE ~(Closed(s) \/ Cut(s))
  <2>1. tab' = tab
    BY <1>4
    DEF Serve, Breaks, Goes, Resolve, Load, Accept, Subscribe, Take, SendReply,
        PingRaises, SendRaises, ResolveFails, LoadFails, SubscribeFails, TakeFails
  <2>2. \/ sock'[s] = Off
        \/ /\ sock'[s].user = c.user /\ sock'[s].tab = c.tab
           /\ sock'[s].on = c.on /\ sock'[s].gone = c.gone
    BY <1>1, <1>4, ServeHandled DEF Serve, Breaks, Handled, StreamTypes
  <2>3. sock'[s].pc # "off" \/ sock[s].gone
    <3>1. CASE PingRaises(s) \/ SendRaises(s)
      BY <3>1 DEF PingRaises, SendRaises
    <3>2. CASE Resolve(s)
      BY <1>1, <3>2 DEF Resolve, Goes, StreamTypes, Connection
    <3>3. CASE Load(s) \/ Accept(s) \/ Subscribe(s)
      BY <1>1, <3>3 DEF Load, Accept, Subscribe, Goes, StreamTypes, Connection
    <3>4. CASE Take(s)
      BY <1>1, <3>4 DEF Take, Goes, StreamTypes, Connection
    <3>5. CASE SendReply(s)
      BY <1>1, <3>5 DEF SendReply, StreamTypes, Connection
    <3>6. CASE ResolveFails(s) \/ LoadFails(s) \/ SubscribeFails(s) \/ TakeFails(s)
      BY <1>1, <3>6
      DEF ResolveFails, LoadFails, SubscribeFails, TakeFails, Goes, StreamTypes, Connection
    <3> QED
      BY <1>4, <3>1, <3>2, <3>3, <3>4, <3>5, <3>6 DEF Serve, Breaks
  <2>4. \A r \in Socket : sock'[r].on =>
              /\ sock[r].on /\ sock'[r].user = sock[r].user /\ sock'[r].tab = sock[r].tab
              /\ ~sock'[r].gone /\ sock'[r].pc # "off"
    <3> SUFFICES ASSUME NEW r \in Socket, sock'[r].on
                 PROVE  /\ sock[r].on /\ sock'[r].user = sock[r].user
                        /\ sock'[r].tab = sock[r].tab
                        /\ ~sock'[r].gone /\ sock'[r].pc # "off"
      OBVIOUS
    <3>1. CASE r = s
      BY <1>1, <2>2, <2>3, <3>1, OffFacts
    <3>2. CASE r # s
      BY <1>1, <1>2, <3>2 DEF PageInv
    <3> QED
      BY <3>1, <3>2
  <2> QED
    BY <1>1, <2>1, <2>4, PageKept
<1> QED
  BY <1>3, <1>4

-----------------------------------------------------------------------------
(* Every step keeps the invariant                                          *)

LEMMA HandlerStep ==
    ASSUME StreamInv, NEW s \in Socket, Serve(s) \/ Breaks(s)
    PROVE  StreamInv'
<1>1. StreamTypes /\ ConnectionInv /\ CodeInv /\ PageInv /\ ShownInv /\ ShownOnce
  BY DEF StreamInv
<1>2. StreamTypes'
  BY <1>1, HandlerTypes
<1>3. /\ Righted(sock'[s]) /\ Fed(sock'[s]) /\ UNCHANGED <<rights, published>>
      /\ \A r \in Socket : r # s => sock'[r] = sock[r]
  BY <1>1, HandlerKnows
<1>4. ConnectionInv'
  <2>1. \A r \in Socket : Righted(sock'[r]) /\ Fed(sock'[r])
    BY <1>1, <1>3 DEF ConnectionInv
  <2> QED
    BY <1>3, <2>1
    DEF ConnectionInv, Righted, Fed, Served, Held, Pairs, Shows, rights
<1>5. CodeInv'
  <2>1. \A r \in Socket : Coded(sock'[r])
    BY <1>1, <1>3, HandlerCoded DEF CodeInv
  <2> QED
    BY <2>1 DEF CodeInv, Coded
<1>6. PageInv' /\ \A t \in Tab : tab'[t].user = tab[t].user
  BY HandlerPage
<1>7. ShownInv' /\ ShownOnce'
  <2>1. CASE SendReply(s) /\ sock[s].on
    BY <1>2, <1>6, <2>1, SentShown
  <2>2. CASE ~(SendReply(s) /\ sock[s].on)
    <3>1. shown' = shown
      BY <2>2
      DEF Serve, Breaks, Goes, Resolve, Load, Accept, Subscribe, Take, SendReply, Closed, Cut,
          PingRaises, SendRaises, ResolveFails, LoadFails, SubscribeFails, TakeFails
    <3>2. ASSUME NEW r \in Socket, sock'[r].on, Served(sock'[r])
          PROVE  /\ sock[r].on /\ sock'[r].tab = sock[r].tab
                 /\ \A n \in Range(sock'[r].hand) \cup Range(sock'[r].queue) :
                      \/ Served(sock[r]) /\ n \in Range(sock[r].hand) \cup Range(sock[r].queue)
                      \/ n > Len(published)
      <4>1. CASE r = s
        <5>1. ~Cut(s)
          <6>1. ASSUME Cut(s) PROVE ~sock'[s].on
            BY <1>1, <6>1 DEF Cut, StreamTypes, Connection
          <6> QED
            BY <3>2, <4>1, <6>1
        <5> QED
          BY <1>1, <3>2, <4>1, <5>1, HandlerHolds
      <4>2. CASE r # s
        BY <1>3, <3>2, <4>2
      <4> QED
        BY <4>1, <4>2
    <3>3. Len(published') >= Len(published)
      BY <1>1, <1>3 DEF StreamTypes
    <3> QED
      BY <1>1, <1>2, <1>6, <3>1, <3>2, <3>3, ShownKept
  <2> QED
    BY <2>1, <2>2
<1> QED
  BY <1>2, <1>4, <1>5, <1>6, <1>7 DEF StreamInv

LEMMA ConnectStep ==
    ASSUME StreamInv, NEW t \in Tab, Connect(t)
    PROVE  StreamInv'
<1>1. StreamTypes /\ ConnectionInv /\ CodeInv /\ PageInv /\ ShownInv /\ ShownOnce
  BY DEF StreamInv
<1>2. StreamTypes' /\ PageInv' /\ tab[t].user \in User
  BY <1>1, ConnectTypes, ConnectPage
<1>3. PICK s \in Socket : sock[s] = Off /\ sock' = [sock EXCEPT ![s] = Fresh(t, tab[t].user)]
  BY DEF Connect
<1>4. sock'[s] = Fresh(t, tab[t].user) /\ \A r \in Socket : r # s => sock'[r] = sock[r]
  BY <1>1, <1>3 DEF StreamTypes
<1>5. ConnectionInv'
  <2>1. /\ \A r \in Socket : Righted(sock'[r]) /\ Fed(sock'[r])
        /\ UNCHANGED <<rights, published>>
    BY <1>1, <1>3, PageKnows
  <2> QED
    BY <2>1 DEF ConnectionInv, Righted, Fed, Served, Held, Pairs, Shows, rights
<1>6. CodeInv'
  BY <1>1, <1>2, <1>4, FreshCoded DEF CodeInv, Coded
<1>7. ShownInv' /\ ShownOnce'
  <2>1. shown' = shown /\ Len(published') >= Len(published)
    BY <1>1 DEF Connect, StreamTypes
  <2>2. \A p \in Tab : tab'[p].user = tab[p].user
    BY <1>1 DEF Connect, StreamTypes, Page
  <2>3. ASSUME NEW r \in Socket, sock'[r].on, Served(sock'[r])
        PROVE  sock'[r] = sock[r] /\ Served(sock[r])
    <3>1. Fresh(t, tab[t].user).pc = "resolving"
      BY <1>1, <1>2, FreshFacts
    <3>2. r # s
      BY <1>4, <2>3, <3>1 DEF Served
    <3> QED
      BY <1>4, <2>3, <3>2
  <2> QED
    BY <1>1, <1>2, <2>1, <2>2, <2>3, ShownKept
<1> QED
  BY <1>2, <1>5, <1>6, <1>7 DEF StreamInv

LEMMA SwitchStep ==
    ASSUME StreamInv, NEW t \in Tab, NEW u \in User \cup {None}, Switch(t, u)
    PROVE  StreamInv'
<1>1. StreamTypes /\ ConnectionInv /\ CodeInv /\ PageInv /\ ShownInv /\ ShownOnce
  BY DEF StreamInv
<1>2. StreamTypes' /\ PageInv'
  BY <1>1, SwitchTypes, SwitchPage
<1>3. ConnectionInv'
  <2>1. \A r \in Socket : /\ Righted(sock'[r]) /\ Fed(sock'[r])
                          /\ UNCHANGED <<rights, published>>
    BY <1>1, PageKnows
  <2>2. UNCHANGED <<rights, published>>
    BY DEF Switch
  <2> QED
    BY <2>1, <2>2 DEF ConnectionInv, Righted, Fed, Served, Held, Pairs, Shows, rights
<1>4. CodeInv'
  <2> SUFFICES ASSUME NEW s \in Socket PROVE Coded(sock'[s])
    BY DEF CodeInv, Coded
  <2>1. TornDown(t) \in [Socket -> Connection]
    BY <1>1, TornDownFacts
  <2>2. Coded(TornDown(t)[s])
    <3> DEFINE d == [sock[s] EXCEPT !.on = FALSE, !.gone = TRUE]
    <3>1. d.pc = sock[s].pc /\ d.code = sock[s].code /\ d.accepted = sock[s].accepted
      BY <1>1 DEF StreamTypes, Connection
    <3>2. TornDown(t)[s] = d \/ TornDown(t)[s] = sock[s]
      BY <1>1, TornDownFacts
    <3> HIDE DEF d
    <3> QED
      BY <1>1, <3>1, <3>2, CodedAlike DEF CodeInv
  <2>3. CASE u = None
    BY <2>2, <2>3 DEF Switch
  <2>4. CASE u # None
    <3>1. PICK r \in Socket : sock' = [TornDown(t) EXCEPT ![r] = Fresh(t, u)]
      BY <2>4 DEF Switch
    <3>2. Coded(Fresh(t, u))
      BY <1>1, <2>4, FreshCoded
    <3>3. sock'[s] = Fresh(t, u) \/ sock'[s] = TornDown(t)[s]
      BY <2>1, <3>1
    <3> QED
      BY <2>2, <3>2, <3>3
  <2> QED
    BY <2>3, <2>4
<1>5. ShownInv' /\ ShownOnce'
  BY <1>2, SwitchShown
<1> QED
  BY <1>2, <1>3, <1>4, <1>5 DEF StreamInv

LEMMA PublishStep ==
    ASSUME StreamInv, NEW a \in Account, Publish(a)
    PROVE  StreamInv'
<1> DEFINE L == Len(published)
           q(s) == [sock[s] EXCEPT !.queue = Append(@, L + 1)]
<1>1. StreamTypes /\ ConnectionInv /\ CodeInv /\ PageInv /\ ShownInv /\ ShownOnce
  BY DEF StreamInv
<1>2. StreamTypes'
  BY <1>1, PublishTypes
<1>3. ConnectionInv'
  BY <1>1, PublishKnows DEF ConnectionInv
<1>4. L \in Nat /\ Len(published') = L + 1
  BY <1>1 DEF Publish, StreamTypes
<1>5. \A s \in Socket :
          /\ sock'[s].pc = sock[s].pc /\ sock'[s].code = sock[s].code
          /\ sock'[s].accepted = sock[s].accepted
          /\ sock'[s].user = sock[s].user /\ sock'[s].tab = sock[s].tab
          /\ sock'[s].on = sock[s].on /\ sock'[s].gone = sock[s].gone
          /\ sock'[s].hand = sock[s].hand
          /\ sock'[s].queue = IF Served(sock[s]) THEN Append(sock[s].queue, L + 1)
                              ELSE sock[s].queue
  <2> TAKE s \in Socket
  <2>1. sock'[s] = IF Served(sock[s]) THEN q(s) ELSE sock[s]
    BY DEF Publish
  <2>2. /\ q(s).pc = sock[s].pc /\ q(s).code = sock[s].code
        /\ q(s).accepted = sock[s].accepted
        /\ q(s).user = sock[s].user /\ q(s).tab = sock[s].tab
        /\ q(s).on = sock[s].on /\ q(s).gone = sock[s].gone
        /\ q(s).hand = sock[s].hand /\ q(s).queue = Append(sock[s].queue, L + 1)
    BY <1>1 DEF StreamTypes, Connection
  <2> HIDE DEF q
  <2> QED
    BY <2>1, <2>2
<1>6. CodeInv'
  BY <1>1, <1>5 DEF CodeInv, Coded
<1>7. PageInv'
  <2>1. tab' = tab
    BY DEF Publish
  <2> QED
    BY <1>1, <1>5, <2>1 DEF PageInv
<1>8. ShownInv' /\ ShownOnce'
  <2>1. shown' = shown /\ tab' = tab /\ Len(published') >= Len(published)
    BY <1>4 DEF Publish
  <2>2. ASSUME NEW s \in Socket, sock'[s].on, Served(sock'[s]),
               NEW n \in Range(sock'[s].hand) \cup Range(sock'[s].queue)
        PROVE  \/ Served(sock[s]) /\ n \in Range(sock[s].hand) \cup Range(sock[s].queue)
               \/ n > Len(published)
    <3>1. Served(sock[s]) /\ sock[s].queue \in Seq(Nat) /\ L + 1 \in Nat
      BY <1>1, <1>4, <1>5, <2>2 DEF Served, StreamTypes, Connection
    <3>2. Range(Append(sock[s].queue, L + 1)) = Range(sock[s].queue) \cup {L + 1}
      <4> HIDE DEF L
      <4> QED
        BY <3>1, AppendRange
    <3>3. n \in Range(sock[s].hand) \cup Range(sock[s].queue) \/ n = L + 1
      BY <1>5, <2>2, <3>1, <3>2
    <3> QED
      BY <1>4, <3>1, <3>3
  <2>3. \A s \in Socket : sock'[s].on => sock[s].on /\ sock'[s].tab = sock[s].tab
    BY <1>5
  <2> QED
    BY <1>1, <1>2, <1>7, <2>1, <2>2, <2>3, ShownKept
<1> QED
  BY <1>2, <1>3, <1>6, <1>7, <1>8 DEF StreamInv

LEMMA EditedStep ==
    ASSUME StreamInv, NEW g \in [User -> SUBSET Group], NEW m \in SUBSET (Group \X Account),
           Edited(g, m)
    PROVE  StreamInv'
<1>1. StreamTypes /\ ConnectionInv /\ CodeInv /\ PageInv /\ ShownInv /\ ShownOnce
  BY DEF StreamInv
<1>2. StreamTypes'
  BY <1>1, EditedTypes
<1>3. ConnectionInv'
  BY <1>1, EditedKnows DEF ConnectionInv
<1>4. \A s \in Socket :
          /\ sock'[s].pc = sock[s].pc /\ sock'[s].code = sock[s].code
          /\ sock'[s].accepted = sock[s].accepted
          /\ sock'[s].user = sock[s].user /\ sock'[s].tab = sock[s].tab
          /\ sock'[s].on = sock[s].on /\ sock'[s].gone = sock[s].gone
          /\ sock'[s].hand = sock[s].hand /\ sock'[s].queue = sock[s].queue
  <2> TAKE s \in Socket
  <2> DEFINE d == [sock[s] EXCEPT !.past =
                      Append(@, [groups |-> g[sock[s].user], member |-> m])]
  <2>1. sock'[s] = d \/ sock'[s] = sock[s]
    BY <1>1, EditedTypes
  <2>2. /\ d.pc = sock[s].pc /\ d.code = sock[s].code
        /\ d.accepted = sock[s].accepted
        /\ d.user = sock[s].user /\ d.tab = sock[s].tab
        /\ d.on = sock[s].on /\ d.gone = sock[s].gone
        /\ d.hand = sock[s].hand /\ d.queue = sock[s].queue
    BY <1>1 DEF StreamTypes, Connection
  <2> HIDE DEF d
  <2> QED
    BY <2>1, <2>2
<1>5. CodeInv'
  BY <1>1, <1>4 DEF CodeInv, Coded
<1>6. tab' = tab /\ shown' = shown /\ published' = published
  BY DEF Edited
<1>7. PageInv'
  BY <1>1, <1>4, <1>6 DEF PageInv
<1>8. ShownInv' /\ ShownOnce'
  <2>1. Len(published') >= Len(published)
    BY <1>1, <1>6 DEF StreamTypes
  <2>2. \A s \in Socket : sock'[s].on /\ Served(sock'[s]) =>
          /\ sock[s].on /\ sock'[s].tab = sock[s].tab
          /\ \A n \in Range(sock'[s].hand) \cup Range(sock'[s].queue) :
                Served(sock[s]) /\ n \in Range(sock[s].hand) \cup Range(sock[s].queue)
    BY <1>4 DEF Served
  <2> QED
    BY <1>1, <1>2, <1>6, <1>7, <2>1, <2>2, ShownKept
<1> QED
  BY <1>2, <1>3, <1>5, <1>7, <1>8 DEF StreamInv

\* An edit of somebody's status, and a step that changes nothing that counts.
LEMMA StatusStep ==
    ASSUME StreamInv, UNCHANGED <<grant, member, tab, sock, published, shown>>,
           valid' \subseteq User
    PROVE  StreamInv'
<1>1. StreamTypes'
  BY DEF StreamInv, StreamTypes
<1>2. ConnectionInv'
  BY DEF StreamInv, ConnectionInv, Righted, Fed, Served, Held, Pairs, Shows
<1>3. CodeInv'
  BY DEF StreamInv, CodeInv, Coded
<1>4. PageInv'
  BY DEF StreamInv, PageInv
<1>5. ShownInv' /\ ShownOnce'
  BY DEF StreamInv, ShownInv, ShownOnce, Served
<1> QED
  BY <1>1, <1>2, <1>3, <1>4, <1>5 DEF StreamInv

LEMMA InitStep == ASSUME Init PROVE StreamInv
<1>1. StreamTypes /\ ConnectionInv
  BY InitTypes, InitKnows
<1>2. CodeInv
  BY OffCoded DEF Init, CodeInv
<1>3. PageInv
  BY OffFacts DEF Init, PageInv
<1>4. Ats(<<>>) = <<>>
  BY DEF Ats
<1>5. ShownInv
  BY <1>4, NothingIn, OffFacts DEF Init, ShownInv
<1>6. ShownOnce
  BY <1>4, NothingIn DEF Init, ShownOnce, Ats
<1> QED
  BY <1>1, <1>2, <1>3, <1>5, <1>6 DEF StreamInv

LEMMA NextStep ==
    ASSUME StreamInv, [Next]_vars
    PROVE  StreamInv'
<1>1. CASE \E t \in Tab : Connect(t) \/ \E u \in User \cup {None} : Switch(t, u)
  BY <1>1, ConnectStep, SwitchStep
<1>2. CASE \E s \in Socket : Serve(s) \/ Breaks(s)
  BY <1>2, HandlerStep
<1>3. CASE \E a \in Account : Publish(a)
  BY <1>3, PublishStep
<1>4. grant \in [User -> SUBSET Group] /\ member \in SUBSET (Group \X Account)
      /\ valid \subseteq User
  BY DEF StreamInv, StreamTypes
<1>5. ASSUME NEW a \in Account, NEW g \in Group, AddMember(g, a) \/ RemoveMember(g, a)
      PROVE  StreamInv'
  <2>1. /\ member \cup {<<g, a>>} \in SUBSET (Group \X Account)
        /\ member \ {<<g, a>>} \in SUBSET (Group \X Account)
    BY <1>4
  <2>2. PICK m \in SUBSET (Group \X Account) : Edited(grant, m)
    BY <1>5, <2>1 DEF AddMember, RemoveMember
  <2> QED
    BY <1>4, <2>2, EditedStep
<1>6. ASSUME NEW u \in User, NEW G \in SUBSET Group, ReplacePermissions(u, G)
      PROVE  StreamInv'
  <2>1. [grant EXCEPT ![u] = G] \in [User -> SUBSET Group]
    BY <1>4
  <2> QED
    BY <1>4, <1>6, <2>1, EditedStep DEF ReplacePermissions
<1>7. ASSUME NEW u \in User, SetStatus(u) PROVE StreamInv'
  BY <1>4, <1>7, StatusStep DEF SetStatus
<1>8. CASE UNCHANGED vars
  BY <1>4, <1>8, StatusStep DEF vars, rights
<1> QED
  BY <1>1, <1>2, <1>3, <1>5, <1>6, <1>7, <1>8 DEF Next

-----------------------------------------------------------------------------
(* Theorems                                                                *)

\* What a served connection holds is what it has passed on, has in hand and has
\* still to read, in this order.
LEMMA FedIsComplete ==
    ASSUME StreamInv, NEW s \in Socket, Served(sock[s])
    PROVE  LET c     == sock[s]
               given == c.sent \o c.hand
           IN  /\ Increasing(given \o c.queue)
               /\ \A i \in (c.since + 1)..Len(published) :
                     c.user \in Admins \/ published[i] \in Must(c)
                         => i \in Range(given \o c.queue)
               /\ c.user \notin Admins => \A i \in Range(given) : published[i] \in May(c)
<1> DEFINE c == sock[s]
           given == c.sent \o c.hand
<1>1. /\ c \in Connection /\ c.sent \in Seq(Nat) /\ c.hand \in Seq(Nat)
      /\ c.queue \in Seq(Nat) /\ c.since \in Nat /\ c.visible \subseteq Account
      /\ Righted(c) /\ Fed(c) /\ published \in Seq(Account)
  BY DEF StreamInv, StreamTypes, ConnectionInv, Connection
<1>2. /\ Increasing(c.sent) /\ Increasing(c.queue)
      /\ Before(c.sent, c.hand) /\ Before(c.sent, c.queue) /\ Before(c.hand, c.queue)
      /\ Held(c) \subseteq (c.since + 1)..Len(published)
      /\ \A i \in (c.since + 1)..Len(published) :
            published[i] \in c.visible => i \in Held(c)
      /\ \A i \in Range(c.sent) \cup Range(c.hand) : published[i] \in c.visible
  BY <1>1 DEF Fed
<1>3. Increasing(c.hand)
  <2>1. CASE c.pc = "loop"
    BY <1>1, <2>1, NothingIn DEF Fed
  <2>2. CASE c.pc = "sending"
    <3>1. Len(c.hand) = 1
      BY <1>1, <2>2 DEF Fed
    <3>2. c.hand = <<c.hand[1]>>
      BY <1>1, <3>1, OneInHand
    <3> QED
      BY <3>2, JustOne
  <2> QED
    BY <2>1, <2>2 DEF Served
<1>4. given \in Seq(Nat) /\ Range(given) = Range(c.sent) \cup Range(c.hand)
  BY <1>1, RangeConcatenation
<1>5. Increasing(given)
  BY <1>1, <1>2, <1>3, IncreasingConcat
<1>6. Before(given, c.queue)
  BY <1>2, <1>4 DEF Before
<1> HIDE DEF given
<1>7. Range(given \o c.queue) = Held(c)
  BY <1>1, <1>4, RangeConcatenation DEF Held
<1>8. Increasing(given \o c.queue)
  BY <1>1, <1>2, <1>4, <1>5, <1>6, IncreasingConcat
<1>9. /\ c.user \in Admins => c.visible = Account
      /\ c.user \notin Admins => Must(c) \subseteq c.visible /\ c.visible \subseteq May(c)
  <2>1. c.user \in Admins => c.visible = Account
    BY <1>1 DEF Righted, Served
  <2>2. ASSUME c.user \notin Admins
        PROVE  Must(c) \subseteq c.visible /\ c.visible \subseteq May(c)
    <3>1. PICK v \in Pairs(c) : c.visible = Shows(c, v)
      BY <1>1, <2>2 DEF Righted, Served
    <3> QED
      BY <1>1, <3>1 DEF Must, May
  <2> QED
    BY <2>1, <2>2
<1>10. \A i \in (c.since + 1)..Len(published) : published[i] \in Account
  <2>1. \A k, l \in Nat : \A i \in (k + 1)..l : i \in 1..l
    OBVIOUS
  <2>2. Len(published) \in Nat /\ \A i \in 1..Len(published) : published[i] \in Account
    BY <1>1
  <2> QED
    BY <1>1, <2>1, <2>2
<1>11. \A i \in (c.since + 1)..Len(published) :
          c.user \in Admins \/ published[i] \in Must(c) => i \in Range(given \o c.queue)
  BY <1>2, <1>7, <1>9, <1>10
<1>12. c.user \notin Admins => \A i \in Range(given) : published[i] \in May(c)
  BY <1>2, <1>4, <1>9
<1> QED
  BY <1>8, <1>11, <1>12 DEF given

LEMMA StreamInvariant == Spec => []StreamInv
<1>1. Init => StreamInv
  BY InitStep
<1>2. StreamInv /\ [Next]_vars => StreamInv'
  BY NextStep
<1> QED
  BY <1>1, <1>2, PTL DEF Spec

\* Whatever the users, their rights and the edits of them, however many replies
\* and failures: a connection passes on what concerns its user since it
\* subscribed, all of it, once and in order, and nothing else (ws.py 86-147).
THEOREM StreamIsComplete == Spec => []StreamComplete
<1>1. StreamInv => StreamComplete
  BY FedIsComplete DEF StreamComplete
<1> QED
  BY <1>1, StreamInvariant, PTL

\* However its connections break and its timers cross a login, a page shows a
\* reply once, in order, and only what was sent to the user it has now
\* (Replies.vue 868-895, 944-959).
THEOREM PageShowsOnce == Spec => []ShownOnce
<1>1. StreamInv => ShownOnce
  BY DEF StreamInv
<1> QED
  BY <1>1, StreamInvariant, PTL
==============================================================================
