------------------------------ MODULE ReplyStream ------------------------------
(***************************************************************************)
(* New replies as they come in: the page of a user keeps a WebSocket open, *)
(* its handler subscribes to Redis and passes on what concerns the         *)
(* accounts of the user's groups (api/routes/ws.py, services/reply_bus.py, *)
(* permissions.py, the page's side in frontend/src/views/Replies.vue).     *)
(*                                                                         *)
(* The handler reads the user in one transaction, the members of his       *)
(* groups in a second, and never looks again.  A support agent without     *)
(* groups stands for merchants and business agents, who have none.         *)
(***************************************************************************)
EXTENDS Integers, SequencesExt

CONSTANTS
    Tab,          \* browser tabs that may show the page
    Socket,       \* connections at a time
    User, Admins, \* Admins see every account
    Account, Group,
    None,
    InitialGrants, InitialMembers,  \* the rights there are at first
    MaxEvents,    \* bound: replies published
    MaxEdits,     \* bound: edits of grants, members and users
    MaxSwitches,  \* bound: logins, logouts, visits of the page
    MaxFaults     \* bound: failures of Redis, the database, the network

ASSUME StreamAssumption ==
    /\ Admins \subseteq User
    /\ None \notin User \cup Tab \cup Socket
    /\ InitialGrants \subseteq [User -> SUBSET Group]
    /\ InitialMembers \subseteq SUBSET (Group \X Account)
    /\ {MaxEvents, MaxEdits, MaxSwitches, MaxFaults} \subseteq Nat

VARIABLES
    grant,      \* support_agent_group_permissions, the groups of a user
    member,     \* account_group_members, <<group, account>>
    valid,      \* users who are enabled and whose token has not expired
    tab,        \* the pages: who is logged in, and whether reconnectTimer runs
    sock,       \* the connections, both ends
    published,  \* the account of each reply, in the order of REPLY_CHANNEL
    shown,      \* observation: the replies a tab has got since its last switch
    edits, switches, faults

rights == <<grant, member, valid>>
vars == <<rights, tab, sock, published, shown, edits, switches, faults>>

-----------------------------------------------------------------------------
Refused == 1008
Internal == 1011
Abnormal == 1006

\* on: the page's handlers are attached; gone: the client's end is closed;
\* hand: the reply between get_message and send_text.
\* Observations: since, how many replies there were before it subscribed; sent,
\* what it has passed on; past, the versions of the rights until it had read them.
Off ==
    [pc |-> "off", user |-> None, tab |-> None, on |-> FALSE, gone |-> FALSE,
     accepted |-> FALSE, code |-> 0, groups |-> {}, visible |-> {}, queue |-> <<>>,
     hand |-> <<>>, since |-> 0, sent |-> <<>>, past |-> <<>>]

Fresh(t, u) ==
    [Off EXCEPT !.pc = "resolving", !.user = u, !.tab = t, !.on = TRUE,
                !.past = <<[groups |-> grant[u], member |-> member]>>]

MembersOf(G, M) == {a \in Account : \E g \in G : <<g, a>> \in M}

\* What the browser is told: a close before accept is an HTTP 403 to it.
Seen(c) == IF c.accepted THEN c.code ELSE Abnormal

Served(c) == c.pc \in {"loop", "sending"}

-----------------------------------------------------------------------------
(* The page                                                                *)

\* connect
Connect(t) ==
    /\ tab[t].timer /\ tab[t].user # None
    /\ \E s \in Socket :
          /\ sock[s] = Off
          /\ sock' = [sock EXCEPT ![s] = Fresh(t, tab[t].user)]
    /\ tab' = [tab EXCEPT ![t].timer = FALSE]
    /\ UNCHANGED <<rights, published, shown, edits, switches, faults>>

\* tearDownWs: the handlers are taken off before the socket is closed.
TornDown(t) ==
    [s \in Socket |-> IF sock[s].tab = t THEN [sock[s] EXCEPT !.on = FALSE, !.gone = TRUE]
                      ELSE sock[s]]

\* Bug: the timer of the last connection still runs.
AfterSwitchTimer(t, u) == [user |-> u, timer |-> tab[t].timer]

AfterSwitch(t, u) == [user |-> u, timer |-> FALSE]

\* The watch on the token, and the page's mounting and unmounting.
Switch(t, u) ==
    /\ switches < MaxSwitches /\ switches' = switches + 1
    /\ u # None \/ tab[t].user # None
    /\ tab' = [tab EXCEPT ![t] = AfterSwitch(t, u)]
    /\ IF u = None THEN sock' = TornDown(t)
       ELSE \E s \in Socket : /\ sock[s] = Off
                              /\ sock' = [TornDown(t) EXCEPT ![s] = Fresh(t, u)]
    /\ shown' = [shown EXCEPT ![t] = <<>>]
    /\ UNCHANGED <<rights, published, edits, faults>>

\* Bug: it tries again only if the connection has broken, not after the server's errors.
OnCloseStops(c) ==
    IF c.on /\ Seen(c) = Abnormal THEN [tab EXCEPT ![c.tab].timer = TRUE] ELSE tab

\* onclose: told that it was refused, the page logs out; else it tries again.
OnClose(c) ==
    IF ~c.on THEN tab
    ELSE IF Seen(c) = Refused THEN [tab EXCEPT ![c.tab] = [user |-> None, timer |-> FALSE]]
    ELSE [tab EXCEPT ![c.tab].timer = TRUE]

-----------------------------------------------------------------------------
(* The handler, replies_stream                                             *)

\* The handler of s goes from one place to another; other variables stay.
Goes(s, from, c) ==
    /\ sock[s].pc = from
    /\ sock' = [sock EXCEPT ![s] = c]
    /\ UNCHANGED <<rights, tab, published, shown, edits, switches>>

Fault == faults < MaxFaults /\ faults' = faults + 1

\* An administrator's visible_account_ids stay None, which filters nothing.
Resolve(s) ==
    LET c == sock[s]
    IN  /\ Goes(s, "resolving",
              IF c.user \notin valid THEN [c EXCEPT !.pc = "closing", !.code = Refused]
              ELSE IF c.user \in Admins THEN [c EXCEPT !.pc = "accepting", !.visible = Account]
              ELSE [c EXCEPT !.pc = "loading", !.groups = grant[c.user]])
        /\ UNCHANGED faults

ResolveFails(s) ==
    /\ Goes(s, "resolving", [sock[s] EXCEPT !.pc = "closing", !.code = Refused])
    /\ Fault

\* Bug: a user without groups is not filtered.
VisibleOrAll(c) == IF c.groups = {} THEN Account ELSE MembersOf(c.groups, member)

Visible(c) == MembersOf(c.groups, member)

Load(s) ==
    /\ Goes(s, "loading", [sock[s] EXCEPT !.pc = "accepting", !.visible = Visible(sock[s])])
    /\ UNCHANGED faults

\* The exception leaves the handler before it has accepted.
LoadFails(s) ==
    /\ Goes(s, "loading", [sock[s] EXCEPT !.pc = "closing", !.code = Internal])
    /\ Fault

Accept(s) ==
    /\ Goes(s, "accepting", [sock[s] EXCEPT !.pc = "subscribing", !.accepted = TRUE])
    /\ UNCHANGED faults

Subscribe(s) ==
    /\ Goes(s, "subscribing", [sock[s] EXCEPT !.pc = "loop", !.since = Len(published)])
    /\ UNCHANGED faults

SubscribeFails(s) ==
    /\ Goes(s, "subscribing", [sock[s] EXCEPT !.pc = "closing", !.code = Internal])
    /\ Fault

\* get_message and the filter.
Take(s) ==
    LET c == sock[s]
    IN  /\ c.queue # <<>>
        /\ Goes(s, "loop",
              IF published[Head(c.queue)] \in c.visible
              THEN [c EXCEPT !.pc = "sending", !.hand = <<Head(c.queue)>>, !.queue = Tail(@)]
              ELSE [c EXCEPT !.queue = Tail(@)])
        /\ UNCHANGED faults

\* get_message raises: Redis is gone, and so is the subscription.
TakeFails(s) ==
    /\ Goes(s, "loop", [sock[s] EXCEPT !.pc = "closing", !.code = Internal])
    /\ Fault

\* send_text of a reply; to a client that is gone it is lost, or raises.
SendReply(s) ==
    LET c == sock[s]
    IN  /\ c.pc = "sending"
        /\ sock' = [sock EXCEPT ![s] =
              [c EXCEPT !.pc = "loop", !.hand = <<>>, !.sent = @ \o c.hand]]
        /\ shown' = IF c.on /\ ~c.gone
                    THEN [shown EXCEPT ![c.tab] = @ \o <<[at |-> c.hand[1], user |-> c.user]>>]
                    ELSE shown
        /\ UNCHANGED <<rights, tab, published, edits, switches, faults>>

\* Bug: no ping, the handler waits for the next reply.
PingRaisesNever(s) == FALSE

\* Nothing came for a second, and the ping does not arrive.
PingRaises(s) ==
    /\ sock[s].gone /\ sock[s].queue = <<>>
    /\ Goes(s, "loop", Off) /\ UNCHANGED faults

SendRaises(s) ==
    /\ sock[s].gone
    /\ Goes(s, "sending", Off) /\ UNCHANGED faults

\* The end of the handler reaches the browser.
Closed(s) ==
    /\ sock[s].pc = "closing"
    /\ tab' = IF sock[s].gone THEN tab ELSE OnClose(sock[s])
    /\ sock' = [sock EXCEPT ![s] = Off]
    /\ UNCHANGED <<rights, published, shown, edits, switches, faults>>

-----------------------------------------------------------------------------
(* What else happens                                                       *)

\* publish_reply: Redis keeps nothing for who has not subscribed.
Publish(a) ==
    /\ Len(published) < MaxEvents
    /\ published' = Append(published, a)
    /\ sock' = [s \in Socket |->
          IF Served(sock[s]) THEN [sock[s] EXCEPT !.queue = Append(@, Len(published) + 1)]
          ELSE sock[s]]
    /\ UNCHANGED <<rights, tab, shown, edits, switches, faults>>

\* The connection is cut: the page learns of it, the handler only by a ping.
Cut(s) ==
    /\ sock[s].pc # "off" /\ ~sock[s].gone
    /\ Fault
    /\ tab' = OnClose([sock[s] EXCEPT !.code = Abnormal])
    /\ sock' = [sock EXCEPT ![s].gone = TRUE, ![s].on = FALSE]
    /\ UNCHANGED <<rights, published, shown, edits, switches>>

\* An administrator's edit; who is still connecting may read either version.
Edited(g, m) ==
    /\ edits < MaxEdits /\ edits' = edits + 1
    /\ grant' = g /\ member' = m
    /\ sock' = [s \in Socket |->
          IF sock[s].pc \in {"resolving", "loading"}
          THEN [sock[s] EXCEPT !.past = Append(@, [groups |-> g[sock[s].user], member |-> m])]
          ELSE sock[s]]
    /\ UNCHANGED <<valid, tab, published, shown, switches, faults>>

\* replace_group_permissions
ReplacePermissions(u, G) == grant[u] # G /\ Edited([grant EXCEPT ![u] = G], member)

AddMember(g, a) == <<g, a>> \notin member /\ Edited(grant, member \cup {<<g, a>>})
RemoveMember(g, a) == <<g, a>> \in member /\ Edited(grant, member \ {<<g, a>>})

\* A user is disabled, his token expires; he is enabled, or logs in again.
SetStatus(u) ==
    /\ edits < MaxEdits /\ edits' = edits + 1
    /\ valid' = IF u \in valid THEN valid \ {u} ELSE valid \cup {u}
    /\ UNCHANGED <<grant, member, tab, sock, published, shown, switches, faults>>

-----------------------------------------------------------------------------
Init ==
    /\ grant \in InitialGrants /\ member \in InitialMembers
    /\ valid = User
    /\ tab = [t \in Tab |-> [user |-> None, timer |-> FALSE]]
    /\ sock = [s \in Socket |-> Off]
    /\ published = <<>> /\ shown = [t \in Tab |-> <<>>]
    /\ edits = 0 /\ switches = 0 /\ faults = 0

Serve(s) ==
    \/ Resolve(s) \/ Load(s) \/ Accept(s) \/ Subscribe(s)
    \/ Take(s) \/ SendReply(s) \/ PingRaises(s) \/ SendRaises(s) \/ Closed(s)

Breaks(s) ==
    ResolveFails(s) \/ LoadFails(s) \/ SubscribeFails(s) \/ TakeFails(s) \/ Cut(s)

Next ==
    \/ \E t \in Tab : Connect(t) \/ \E u \in User \cup {None} : Switch(t, u)
    \/ \E s \in Socket : Serve(s) \/ Breaks(s)
    \/ \E a \in Account : Publish(a) \/ \E g \in Group : AddMember(g, a) \/ RemoveMember(g, a)
    \/ \E u \in User : SetStatus(u) \/ \E G \in SUBSET Group : ReplacePermissions(u, G)

\* The event loop runs every handler on, the browser's timer fires.
Fairness == /\ \A s \in Socket : WF_vars(Serve(s))
            /\ \A t \in Tab : WF_vars(Connect(t))

Spec == Init /\ [][Next]_vars /\ Fairness

-----------------------------------------------------------------------------
\* The handler takes the groups of one version and the members of that or of a
\* later one: a pair may show less than each version does alone, as when the user
\* leaves a group for another and an account of both then leaves the first.
\* Must: accounts that each such pair shows; May: accounts that one shows.
Pairs(c) == {v \in (DOMAIN c.past) \X (DOMAIN c.past) : v[1] <= v[2]}
Shows(c, v) == MembersOf(c.past[v[1]].groups, c.past[v[2]].member)

Must(c) == {a \in Account : \A v \in Pairs(c) : a \in Shows(c, v)}
May(c) == {a \in Account : \E v \in Pairs(c) : a \in Shows(c, v)}

Increasing(seq) == \A i, j \in DOMAIN seq : i < j => seq[i] < seq[j]

(* From its subscription on a connection passes on, in order and once,     *)
(* every reply that concerns its user whichever two versions of the rights *)
(* its two transactions read, and no reply that concerns him by none of    *)
(* them (ws.py 86-99, 111-147).                                            *)
StreamComplete ==
    \A s \in Socket :
        LET c     == sock[s]
            given == c.sent \o c.hand
        IN  Served(c) =>
              /\ Increasing(given \o c.queue)
              /\ \A i \in (c.since + 1)..Len(published) :
                    c.user \in Admins \/ published[i] \in Must(c) => i \in Range(given \o c.queue)
              /\ c.user \notin Admins => \A i \in Range(given) : published[i] \in May(c)

(* A page shows a reply once, in order, across connections that break and  *)
(* timers that cross a login, and after a switch nothing that was meant    *)
(* for the user before (Replies.vue 944-959; docs/roadmap.md 161).         *)
ShownOnce ==
    \A t \in Tab :
        /\ \A k \in DOMAIN shown[t] : shown[t][k].user = tab[t].user
        /\ Increasing([k \in DOMAIN shown[t] |-> shown[t][k].at])

(* A handler whose client is gone ends, so that its subscription does not  *)
(* stay for ever: a ping finds out once no reply comes for a second        *)
(* (ws.py 123-130).                                                        *)
GoneIsClosed == \A s \in Socket : sock[s].gone ~> sock[s].pc = "off"

(* A page that stays open for a valid user is connected in the end, for    *)
(* whatever reason it was cut off (Replies.vue 868-895).                   *)
ConnectedInTheEnd ==
    \A t \in Tab, u \in User :
        <>[](tab[t].user = u /\ u \in valid)
            => <>[](\E s \in Socket : sock[s].tab = t /\ sock[s].on /\ Served(sock[s]))
=============================================================================
