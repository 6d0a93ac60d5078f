----------------------------- MODULE ReplyIntake -----------------------------
(***************************************************************************)
(* Replies: the listener files each incoming message under a customer it   *)
(* finds or creates, then publishes it (workers/listen_worker.py), while   *)
(* admins rescan and promote unmatched messages (orphan_threads.py),       *)
(* customers are deleted (customers.py) and accounts too (accounts.py).    *)
(* All of them create customers under the same unique key, customers.phone.*)
(*                                                                         *)
(* The handler never awaits between its first read and its commit, so the  *)
(* listener's accounts take turns; API requests interleave with it.  A     *)
(* transaction reads the snapshot its first read opened; an INSERT waits   *)
(* for an uncommitted row with the same key, and fails on a committed one. *)
(***************************************************************************)
EXTENDS Integers, FiniteSets

CONSTANTS
    Message,    \* incoming messages
    Sender, Account,
    From, To,   \* the sender and the receiving account of a message
    Shown,      \* senders whose phone number Telegram shows
    Unnamed,    \* messages whose sender Telegram does not give: no tg_user_id
    Legacy,     \* messages stored before the listener created customers
    Request,    \* slots of the API for concurrent requests
    Id, NoId,   \* customers.id
    NoMessage,
    MaxDeletes, \* bound: deletions
    MaxFaults,  \* bound: crashes, rollbacks and failed flushes
    Fragile     \* bound: messages for whose customer the flush may fail so

ASSUME IntakeAssumption ==
    /\ From \in [Message -> Sender]
    /\ To \in [Message -> Account]
    /\ Shown \subseteq Sender
    /\ Legacy \subseteq Message
    /\ Unnamed \subseteq Message
    /\ NoId \notin Id
    /\ NoMessage \notin Message
    /\ MaxDeletes \in Nat
    /\ MaxFaults \in Nat
    /\ Fragile \subseteq Message

VARIABLES
    cust,      \* the committed customers: the id under each key, or NoId
    stored,    \* messages with a committed row
    bound,     \* their customer_id
    pending,   \* messages Telegram has still to deliver
    lis,       \* the listener's handler
    req,       \* the rescan and promote requests and their transactions
    published, \* messages sent to the reply stream
    gone,      \* accounts whose row is deleted: account_id is NULL in their messages
    \* Observability.
    deleted,   \* senders of whom a customer was deleted
    stumbled,  \* messages whose customer failed to insert for another reason than its key
    deletes, faults

ghosts == <<deleted, stumbled, deletes>>

vars == <<cust, stored, bound, pending, lis, req, published, gone, ghosts, faults>>

-----------------------------------------------------------------------------
\* customers.phone: the placeholder tg:<id>, or the number as Telegram shows it.
\* An imported customer is under "+" and the number, which nothing here looks up.
Key == [kind: {"tg", "phone"}, who: Sender]

TgKey(s) == [kind |-> "tg", who |-> s]
PhoneKey(s) == [kind |-> "phone", who |-> s]

\* The key of a customer made for the sender of m.
NewKey(m) == IF From[m] \in Shown THEN PhoneKey(From[m]) ELSE TgKey(From[m])

MaybeId == Id \cup {NoId}

Quiet == [pc |-> "idle", msg |-> NoMessage, id |-> NoId, mine |-> FALSE]

\* mine: the customer under id was inserted by this transaction.
Handler ==
    [pc: {"idle", "insert", "again", "commit", "publish"},
     msg: Message \cup {NoMessage}, id: MaybeId, mine: BOOLEAN]

\* seen: the unmatched messages of the snapshot, todo: the pairs still to
\* promote, tags: the customer_id set on each message, own: the customers
\* inserted, held: the messages whose tag has been flushed.
Closed ==
    [pc |-> "idle", seen |-> {}, todo |-> {},
     tags |-> [m \in Message |-> NoId], own |-> [k \in Key |-> NoId], held |-> {}]

Transaction ==
    [pc: {"idle", "rescan", "promote", "commit"},
     seen: SUBSET Message, todo: SUBSET (Account \X Key),
     tags: [Message -> MaybeId], own: [Key -> MaybeId], held: SUBSET Message]

Tagged(t) == {m \in Message : t.tags[m] # NoId}
Ids(f) == {f[x] : x \in DOMAIN f} \ {NoId}

\* Every id somebody may still refer to.
Used == Ids(cust) \cup {lis.id}
        \cup UNION {Ids(req[r].tags) \cup Ids(req[r].own) : r \in Request}

\* AUTO_INCREMENT: an id nobody refers to.
NewId == CHOOSE i \in Id : i \notin Used

\* Neither the listener nor another request holds an uncommitted customer under k.
KeyFree(r, k) ==
    /\ \A q \in Request \ {r} : req[q].own[k] = NoId
    /\ ~(lis.mine /\ NewKey(lis.msg) = k)

\* Nobody else has flushed a tag for one of the messages M.
RowsFree(r, M) == \A q \in Request \ {r} : M \cap req[q].held = {}

Orphans == {m \in stored : bound[m] = NoId}

-----------------------------------------------------------------------------
(* _persist_reply                                                          *)

\* By the phone shown, then by the placeholder; nobody without a tg_user_id.
Match(m) ==
    LET s == From[m]
    IN  CASE m \in Unnamed -> NoId
          [] m \notin Unnamed /\ s \in Shown /\ cust[PhoneKey(s)] # NoId -> cust[PhoneKey(s)]
          [] OTHER -> cust[TgKey(s)]

\* A customer is made for whoever has an id and matches nobody.
Receive(m) ==
    /\ lis.pc = "idle"
    /\ m \in pending
    /\ pending' = pending \ {m}
    /\ lis' = [pc |-> IF Match(m) = NoId /\ m \notin Unnamed THEN "insert" ELSE "commit",
               msg |-> m, id |-> Match(m), mine |-> FALSE]
    /\ UNCHANGED <<cust, stored, bound, req, published, gone, ghosts, faults>>

\* The flush of a new customer.  Whatever makes it fail, the transaction rolls back
\* and looks again: its unique key, or its account, deleted since.
InsertCustomer ==
    LET k == NewKey(lis.msg)
    IN  /\ lis.pc = "insert"
        /\ \A r \in Request : req[r].own[k] = NoId
        /\ lis' = IF cust[k] = NoId /\ To[lis.msg] \notin gone
                  THEN [lis EXCEPT !.pc = "commit", !.id = NewId, !.mine = TRUE]
                  ELSE [lis EXCEPT !.pc = "again"]
        /\ UNCHANGED <<cust, stored, bound, pending, req, published, gone, ghosts, faults>>

\* A deadlock, a lock wait timeout or a lost connection fails the flush as well.
InsertFails ==
    /\ lis.pc = "insert"
    /\ lis.msg \in Fragile
    /\ faults < MaxFaults
    /\ faults' = faults + 1
    /\ lis' = [lis EXCEPT !.pc = "again"]
    /\ stumbled' = stumbled \cup {lis.msg}
    /\ UNCHANGED <<cust, stored, bound, pending, req, published, gone, deleted, deletes>>

\* Mutant: the loser of the race files the message without a customer.
LookNoFurther ==
    /\ lis.pc = "again"
    /\ lis' = [lis EXCEPT !.pc = "commit"]
    /\ UNCHANGED <<cust, stored, bound, pending, req, published, gone, ghosts, faults>>

\* Only for the key just tried, and without a second insert.
LookAgain ==
    /\ lis.pc = "again"
    /\ lis' = [lis EXCEPT !.pc = "commit", !.id = cust[NewKey(lis.msg)]]
    /\ UNCHANGED <<cust, stored, bound, pending, req, published, gone, ghosts, faults>>

\* The row, the new customer and the customer's last_reply_* commit together; a
\* customer or an account deleted since it was read makes that fail, and the handler
\* only logs it.
PersistReply ==
    LET m == lis.msg
    IN  /\ lis.pc = "commit"
        /\ \/ /\ lis.mine \/ lis.id \in Ids(cust) \cup {NoId}
              /\ To[m] \notin gone
              /\ stored' = stored \cup {m}
              /\ bound' = [bound EXCEPT ![m] = lis.id]
              /\ cust' = IF lis.mine THEN [cust EXCEPT ![NewKey(m)] = lis.id] ELSE cust
              /\ lis' = [lis EXCEPT !.pc = "publish", !.id = NoId, !.mine = FALSE]
           \/ /\ \/ ~lis.mine /\ lis.id \notin Ids(cust) \cup {NoId}
                 \/ To[m] \in gone
              /\ lis' = Quiet
              /\ UNCHANGED <<cust, stored, bound>>
        /\ UNCHANGED <<pending, req, published, gone, ghosts, faults>>

PublishReply ==
    /\ lis.pc = "publish"
    /\ published' = published \cup {lis.msg}
    /\ lis' = Quiet
    /\ UNCHANGED <<cust, stored, bound, pending, req, gone, ghosts, faults>>

\* The process dies, or the database fails the handler in any other place, which is
\* only logged.  The message is not delivered again: the next client starts from
\* Telegram's state at that moment.
CrashListener ==
    /\ lis.pc # "idle"
    /\ faults < MaxFaults
    /\ faults' = faults + 1
    /\ lis' = Quiet
    /\ UNCHANGED <<cust, stored, bound, pending, req, published, gone, ghosts>>

-----------------------------------------------------------------------------
(* _rescan_and_retag_promoted                                              *)

\* The rows the rescan selects: without a tg_user_id nothing can be done for them.
Findable == Orphans \ Unnamed

\* Mutant: phase 1 is missing.
OpenRescanPhase2(r) ==
    /\ req[r].pc = "idle"
    /\ Findable # {}
    /\ req' = [req EXCEPT ![r] =
          [Closed EXCEPT !.pc = "rescan", !.seen = Findable,
             !.todo = {<<To[m], TgKey(From[m])>> :
                          m \in {n \in Findable : cust[TgKey(From[n])] = NoId /\ To[n] \notin gone}}]]
    /\ UNCHANGED <<cust, stored, bound, pending, lis, published, gone, ghosts, faults>>

\* Phase 1: messages whose sender has a placeholder customer are tagged.  What is
\* left is for phase 2, but for the rows whose account_id is NULL.
OpenRescan(r) ==
    LET found == [m \in Message |-> IF m \in Findable THEN cust[TgKey(From[m])] ELSE NoId]
        left  == {m \in Findable : found[m] = NoId /\ To[m] \notin gone}
    IN  /\ req[r].pc = "idle"
        /\ Findable # {}
        /\ req' = [req EXCEPT ![r] =
              [Closed EXCEPT !.pc = "rescan", !.seen = Findable, !.tags = found,
                             !.todo = {<<To[m], TgKey(From[m])>> : m \in left}]]
        /\ UNCHANGED <<cust, stored, bound, pending, lis, published, gone, ghosts, faults>>

\* The messages of the pair p, in the snapshot.
Thread(t, p) == {m \in t.seen : <<To[m], TgKey(From[m])>> = p}

Tag(tags, M, i) == [m \in Message |-> IF m \in M THEN i ELSE tags[m]]

\* Every customer t refers to exists: the foreign key.
KeysHold(t) == \A i \in Ids(t.tags) : i \in Ids(cust) \cup Ids(t.own)

\* Phase 2, one sender: the flush writes the tags so far and a new customer.
PromoteSender(r, p) ==
    LET t == req[r]
        k == p[2]
        i == NewId
    IN  /\ t.pc = "rescan"
        /\ p \in t.todo
        /\ KeyFree(r, k)
        /\ RowsFree(r, Tagged(t))
        /\ cust[k] = NoId /\ t.own[k] = NoId /\ KeysHold(t) /\ p[1] \notin gone
        /\ req' = [req EXCEPT ![r] =
              [t EXCEPT !.todo = @ \ {p}, !.own[k] = i, !.held = Tagged(t),
                        !.tags = Tag(@, Thread(t, p), i)]]
        /\ UNCHANGED <<cust, stored, bound, pending, lis, published, gone, ghosts, faults>>

\* The flush fails: the key is taken, by a committed customer or by one this very
\* transaction inserted for another account, a tagged customer or the account is
\* gone, or the database breaks a deadlock.  The rollback drops everything done so far.
PromoteFails(r, p) ==
    LET t == req[r]
        k == p[2]
        blocked == ~KeyFree(r, k) \/ ~RowsFree(r, Tagged(t))
    IN  /\ t.pc = "rescan"
        /\ p \in t.todo
        /\ \/ blocked \/ cust[k] # NoId \/ t.own[k] # NoId
           \/ ~KeysHold(t) \/ p[1] \in gone
        /\ req' = [req EXCEPT ![r] =
              [Closed EXCEPT !.pc = "rescan", !.seen = t.seen, !.todo = t.todo \ {p},
                 !.tags = Tag(@, Thread(t, p), cust[k])]]
        /\ UNCHANGED <<cust, stored, bound, pending, lis, published, gone, ghosts, faults>>

\* Tags and customers commit together, or not at all.
CommitTags(r) ==
    LET t == req[r]
    IN  /\ \/ t.pc = "rescan" /\ t.todo = {}
           \/ t.pc = "commit"
        /\ RowsFree(r, Tagged(t))
        /\ IF KeysHold(t)
           THEN /\ bound' = [m \in Message |-> IF m \in Tagged(t) THEN t.tags[m] ELSE bound[m]]
                /\ cust' = [k \in Key |-> IF t.own[k] # NoId THEN t.own[k] ELSE cust[k]]
           ELSE UNCHANGED <<bound, cust>>
        /\ req' = [req EXCEPT ![r] = Closed]
        /\ UNCHANGED <<stored, pending, lis, published, gone, ghosts, faults>>

-----------------------------------------------------------------------------
(* promote_to_customer, delete_customer                                    *)

\* 409 if the snapshot has the customer; the page names an account and a sender.
OpenPromote(r, m) ==
    /\ req[r].pc = "idle"
    /\ m \in Findable
    /\ To[m] \notin gone
    /\ cust[NewKey(m)] = NoId
    /\ req' = [req EXCEPT ![r] =
          [Closed EXCEPT !.pc = "promote", !.todo = {<<To[m], NewKey(m)>>},
             !.seen = {n \in Findable : From[n] = From[m] /\ To[n] = To[m]}]]
    /\ UNCHANGED <<cust, stored, bound, pending, lis, published, gone, ghosts, faults>>

\* The insert fails on its key or on its account.
InsertPromoted(r, p) ==
    LET t == req[r]
        k == p[2]
    IN  /\ t.pc = "promote"
        /\ p \in t.todo
        /\ KeyFree(r, k)
        /\ req' = [req EXCEPT ![r] =
              IF cust[k] # NoId \/ p[1] \in gone THEN Closed
              ELSE [t EXCEPT !.pc = "commit", !.todo = {}, !.own[k] = NewId,
                             !.tags = Tag(@, t.seen, NewId)]]
        /\ UNCHANGED <<cust, stored, bound, pending, lis, published, gone, ghosts, faults>>

\* A rollback: a deadlock, a timeout, the end of the process.
Fail(r) ==
    /\ req[r].pc # "idle"
    /\ faults < MaxFaults
    /\ faults' = faults + 1
    /\ req' = [req EXCEPT ![r] = Closed]
    /\ UNCHANGED <<cust, stored, bound, pending, lis, published, gone, ghosts>>

\* Mutant: the messages keep the deleted customer's id.
DeleteOnly(k) ==
    /\ deletes < MaxDeletes
    /\ cust[k] # NoId
    /\ cust' = [cust EXCEPT ![k] = NoId]
    /\ deleted' = deleted \cup {k.who}
    /\ deletes' = deletes + 1
    /\ UNCHANGED <<stored, bound, pending, lis, req, published, gone, stumbled, faults>>

\* Its messages become unmatched again.  It waits for requests that hold them, or
\* that have flushed a tag naming the customer.
DeleteCustomer(k) ==
    /\ deletes < MaxDeletes
    /\ cust[k] # NoId
    /\ \A r \in Request : \A m \in req[r].held :
          bound[m] # cust[k] /\ req[r].tags[m] # cust[k]
    /\ bound' = [m \in Message |-> IF bound[m] = cust[k] THEN NoId ELSE bound[m]]
    /\ cust' = [cust EXCEPT ![k] = NoId]
    /\ deleted' = deleted \cup {k.who}
    /\ deletes' = deletes + 1
    /\ UNCHANGED <<stored, pending, lis, req, published, gone, stumbled, faults>>

\* batch_delete_accounts: the account's messages stay, with account_id NULL.  It
\* waits for requests that have flushed tags of them, and for whoever has inserted a
\* customer assigned to it.
DeleteAccount(a) ==
    /\ deletes < MaxDeletes
    /\ a \notin gone
    /\ \A r \in Request, m \in Message : To[m] = a =>
          m \notin req[r].held /\ req[r].tags[m] \notin Ids(req[r].own)
    /\ ~(lis.mine /\ To[lis.msg] = a)
    /\ gone' = gone \cup {a}
    /\ deletes' = deletes + 1
    /\ UNCHANGED <<cust, stored, bound, pending, lis, req, published, deleted, stumbled, faults>>

-----------------------------------------------------------------------------
Init ==
    /\ cust = [k \in Key |-> NoId]
    /\ stored = Legacy
    /\ bound = [m \in Message |-> NoId]
    /\ pending = Message \ Legacy
    /\ lis = Quiet
    /\ req = [r \in Request |-> Closed]
    /\ published = {}
    /\ gone = {}
    /\ deleted = {}
    /\ stumbled = {}
    /\ deletes = 0
    /\ faults = 0

Listen ==
    \/ \E m \in Message : Receive(m)
    \/ InsertCustomer \/ LookAgain \/ PersistReply \/ PublishReply

Advance(r) ==
    \/ \E p \in Account \X Key :
          PromoteSender(r, p) \/ PromoteFails(r, p) \/ InsertPromoted(r, p)
    \/ CommitTags(r)

Next ==
    \/ Listen \/ InsertFails \/ CrashListener
    \/ \E r \in Request : \/ OpenRescan(r) \/ Advance(r) \/ Fail(r)
                          \/ \E m \in Message : OpenPromote(r, m)
    \/ \E k \in Key : DeleteCustomer(k)
    \/ \E a \in Account : DeleteAccount(a)

Spec == Init /\ [][Next]_vars

\* The listener keeps going, requests run to their end, an admin keeps opening the
\* list of unmatched messages, and an INSERT that waits for a key or a row is served
\* when its holder lets go: two rescans do not break each other's deadlocks forever.
Fairness ==
    /\ WF_vars(Listen)
    /\ WF_vars(\E r \in Request : OpenRescan(r))
    /\ \A r \in Request :
          /\ WF_vars(Advance(r))
          /\ \A p \in {<<To[m], TgKey(From[m])>> : m \in Message} :
                SF_vars(PromoteSender(r, p))

FairSpec == Spec /\ Fairness

-----------------------------------------------------------------------------
(* Properties                                                              *)

TypeOK ==
    /\ cust \in [Key -> MaybeId]
    /\ stored \subseteq Message
    /\ bound \in [Message -> MaybeId]
    /\ pending \subseteq Message
    /\ lis \in Handler
    /\ req \in [Request -> Transaction]
    /\ published \subseteq Message
    /\ gone \subseteq Account
    /\ deleted \subseteq Sender
    /\ stumbled \subseteq Message
    /\ deletes \in Nat
    /\ faults \in Nat

\* A message is never filed under somebody else's customer, nor under one that no
\* longer exists, however ids read before a deletion are used after it.
BoundToSender ==
    \A m \in Message : bound[m] # NoId =>
        \E k \in Key : cust[k] = bound[m] /\ k.who = From[m]

\* A message the stream announces can be loaded, and one the listener stored is
\* unmatched for three reasons only: a customer of its sender was deleted, Telegram
\* gave no sender, or the insert of the customer failed otherwise than on its key,
\* which the handler takes for the same thing.  Losing the race for the key, or
\* dying after the commit, does not orphan it.
OrphansComeFromDeletes ==
    /\ published \subseteq stored
    /\ \A m \in Orphans \ Legacy :
          From[m] \in deleted \/ m \in Unnamed \/ m \in stumbled

\* The account is there for a rescan to assign a customer to, or no new one is needed.
Drainable(m) == To[m] \notin gone \/ cust[TgKey(From[m])] # NoId

\* Unmatched messages do not stay so ("drains the orphan bucket"), whatever
\* deletions, crashes, other rescans and the listener undo, with two exceptions that
\* stay for ever: no sender, or an account deleted before its sender had a customer.
\* It needs senders that write to one account: a second account makes every rescan
\* collide with itself (PromoteFails with t.own[k] # NoId), for ever.
OrphansDrain ==
    \A m \in Message \ Unnamed : []<>(m \notin Orphans \/ ~Drainable(m))

=============================================================================
