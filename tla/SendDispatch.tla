---------------------------- MODULE SendDispatch ----------------------------
(***************************************************************************)
(* The broadcast send queue: overlapping ticks of dispatch_send_queue      *)
(* (workers/send_tasks.py) over the message, campaign and account tables,  *)
(* the per-account Redis send lock, the campaign endpoints that write the  *)
(* same rows, the midnight quota reset, and crashes of a worker process.   *)
(*                                                                         *)
(* The database is InnoDB at REPEATABLE READ behind an ORM session that    *)
(* does not autoflush.  A tick reads from the snapshot its transaction     *)
(* opened, changes its own copy, and at flush or commit writes back only   *)
(* the columns it changed, taking the rows' locks.  After a commit the     *)
(* next read opens a new snapshot.                                         *)
(***************************************************************************)
EXTENDS Integers, FiniteSets

CONSTANTS
    Worker,           \* processes of the `send` queue that may run a tick
    Message,          \* ids of message_records rows, in id order
    Campaign,         \* broadcast campaigns
    Account,          \* sending accounts
    NoWorker, NoAccount, NoRequest,
    CampaignOf,       \* [Message -> Campaign]
    AssignedTo,       \* [Message -> Account], the account picked at creation
    PoolOf,           \* [Campaign -> SUBSET Account], members of its groups
    NoTarget,         \* messages with neither target_tg_user_id nor phone
    DailyLimit,       \* [Account -> Nat], 0 is "no limit"
    BatchSize,        \* settings.dispatch_batch_size
    MaxAttempts,      \* settings.max_failed_attempts
    Outcome,          \* the send results considered, a subset of AllOutcomes
    CanHold,          \* quiet hours, a disabled or full group, hourly cap occur
    Slow,             \* accounts whose sends may outlast the lock's TTL
    Ops,              \* the outside requests that occur, a subset of AllOps
    MaxFaults,        \* bound: crashes and lost replies
    MaxOps,           \* bound: outside requests
    MaxTicks          \* bound: ticks started, 0 is "no bound"

AllOutcomes ==
    {"ok", "kill", "fail_fast", "flood_wait", "unauthorized", "transient"}

AllOps == {"start", "pause", "cancel", "requeue", "enable", "validate"}

ASSUME ConstantsAssumption ==
    /\ Message \subseteq Nat
    /\ IsFiniteSet(Message)
    /\ NoWorker \notin Worker
    /\ NoAccount \notin Account
    /\ CampaignOf \in [Message -> Campaign]
    /\ AssignedTo \in [Message -> Account]
    /\ PoolOf \in [Campaign -> SUBSET Account]
    /\ NoTarget \subseteq Message
    /\ Message \cap Campaign = {}
    /\ Message \cap Account = {}
    /\ Campaign \cap Account = {}
    /\ DailyLimit \in [Account -> Nat]
    /\ BatchSize \in Nat \ {0}
    /\ MaxAttempts \in Nat \ {0}
    /\ Outcome \subseteq AllOutcomes
    /\ CanHold \in BOOLEAN
    /\ Slow \subseteq Account
    /\ Ops \subseteq AllOps
    /\ MaxFaults \in Nat
    /\ MaxOps \in Nat
    /\ MaxTicks \in Nat

VARIABLES
    db,         \* the committed tables
    lock,       \* send_lock:<account> in Redis, the worker whose token it holds
    tick,       \* per worker: where its tick is, and its open transaction
    req,        \* the requeue-failed request in flight, or NoRequest
    \* Observability: what Telegram saw, and the bounds.
    delivered,  \* messages accepted by Telegram, per message
    sentDay,    \* messages accepted by Telegram since the last reset, per account
    faults,     \* crashes and lost replies so far
    ops,        \* outside requests so far
    ticks       \* ticks started so far, when they are bounded

vars == <<db, lock, tick, req, delivered, sentDay, faults, ops, ticks>>

-----------------------------------------------------------------------------
(* Rows and tables                                                         *)

Pending == {"queued", "retry"}
Dead == {"failed", "failed_permanent"}
Terminal == {"completed", "partially_failed", "failed"}

\* err abstracts error_code: "recoverable" stands for the codes in
\* RECOVERABLE_ERROR_CODES.  due is next_run_at being NULL or in the past.
MessageRecord ==
    [status: Pending \cup Dead \cup {"sending", "sent"}, account: Account,
     due: BOOLEAN, attempts: Nat, err: {"none", "recoverable", "fatal"}]

CampaignRow ==
    [status: {"queued", "running", "paused", "cancelled"} \cup Terminal,
     sent: Nat, failed: Nat]

AccountRow ==
    [enabled: BOOLEAN, status: {"active", "limited", "error"}, sentToday: Nat]

Tables ==
    [msg: [Message -> MessageRecord], camp: [Campaign -> CampaignRow],
     acct: [Account -> AccountRow]]

Row == Message \cup Campaign \cup Account
Column == {"status", "account", "due", "attempts", "err", "sent", "failed",
           "enabled", "sentToday"}

\* What create_campaign and the importers leave behind.
InitTables ==
    [msg  |-> [m \in Message |-> [status |-> "queued", account |-> AssignedTo[m],
                                  due |-> TRUE, attempts |-> 0, err |-> "none"]],
     camp |-> [c \in Campaign |-> [status |-> "queued", sent |-> 0, failed |-> 0]],
     acct |-> [a \in Account |-> [enabled |-> TRUE, status |-> "active",
                                  sentToday |-> 0]]]

\* Columns in which two versions of the tables differ.
Changed(old, new) ==
    {p \in Message \X {"status", "account", "due", "attempts", "err"} :
        old.msg[p[1]][p[2]] # new.msg[p[1]][p[2]]}
    \cup {p \in Campaign \X {"status", "sent", "failed"} :
        old.camp[p[1]][p[2]] # new.camp[p[1]][p[2]]}
    \cup {p \in Account \X {"enabled", "status", "sentToday"} :
        old.acct[p[1]][p[2]] # new.acct[p[1]][p[2]]}

\* The rows of base with the dirty columns taken from own: one UPDATE per row.
Merge(base, own, dirty) ==
    LET Pick(r, f, o, b) == IF <<r, f>> \in dirty THEN o ELSE b
    IN  [msg |-> [m \in Message |->
            LET o == own.msg[m]  b == base.msg[m]
            IN  [status   |-> Pick(m, "status", o.status, b.status),
                 account  |-> Pick(m, "account", o.account, b.account),
                 due      |-> Pick(m, "due", o.due, b.due),
                 attempts |-> Pick(m, "attempts", o.attempts, b.attempts),
                 err      |-> Pick(m, "err", o.err, b.err)]],
         camp |-> [c \in Campaign |->
            LET o == own.camp[c]  b == base.camp[c]
            IN  [status |-> Pick(c, "status", o.status, b.status),
                 sent   |-> Pick(c, "sent", o.sent, b.sent),
                 failed |-> Pick(c, "failed", o.failed, b.failed)]],
         acct |-> [a \in Account |->
            LET o == own.acct[a]  b == base.acct[a]
            IN  [enabled   |-> Pick(a, "enabled", o.enabled, b.enabled),
                 status    |-> Pick(a, "status", o.status, b.status),
                 sentToday |-> Pick(a, "sentToday", o.sentToday, b.sentToday)]]]

PutMsg(v, m, row)  == [v EXCEPT !.msg[m] = row]
PutCamp(v, c, row) == [v EXCEPT !.camp[c] = row]
PutAcct(v, a, row) == [v EXCEPT !.acct[a] = row]

-----------------------------------------------------------------------------
(* What the loop body does to the session's copy v for message m           *)

Promoted(v, c) == PutCamp(v, c, [v.camp[c] EXCEPT !.status = "running"])

\* Mutant: the reroute clears the account instead of replacing it.
ReroutedNowhere(v, m, a) ==
    PutMsg(v, m, [v.msg[m] EXCEPT !.account = NoAccount, !.err = "none"])

Rerouted(v, m, a) == PutMsg(v, m, [v.msg[m] EXCEPT !.account = a, !.err = "none"])

Postponed(v, m) == PutMsg(v, m, [v.msg[m] EXCEPT !.due = FALSE])

CountFailed(v, c) == PutCamp(v, c, [v.camp[c] EXCEPT !.failed = @ + 1])

\* Given up without a send: no account, or no target.
GivenUp(v, m, s) ==
    CountFailed(PutMsg(v, m, [v.msg[m] EXCEPT !.status = s, !.err = "recoverable"]),
                CampaignOf[m])

MarkedSending(v, m) ==
    PutMsg(v, m, [v.msg[m] EXCEPT !.status = "sending", !.attempts = @ + 1])

CountSent(v, c, a) ==
    PutAcct(PutCamp(v, c, [v.camp[c] EXCEPT !.sent = @ + 1]),
            a, [v.acct[a] EXCEPT !.sentToday = @ + 1])

\* Mutant: sent_count is only incremented for a first attempt.
SentFirstTime(v, m) ==
    LET told == PutMsg(v, m, [v.msg[m] EXCEPT !.status = "sent", !.err = "none",
                                              !.due = FALSE])
    IN  IF v.msg[m].attempts = 1 THEN CountSent(told, CampaignOf[m], v.msg[m].account)
                                 ELSE told

Sent(v, m) ==
    CountSent(PutMsg(v, m, [v.msg[m] EXCEPT !.status = "sent", !.err = "none",
                                            !.due = FALSE]),
              CampaignOf[m], v.msg[m].account)

\* A failed send with result o, attempt_count being already incremented.
Exhausted(v, m) == v.msg[m].attempts >= MaxAttempts

Hopeless(v, m, o) == o \in {"kill", "fail_fast"} \/ Exhausted(v, m)

\* The account's row after result o: the kill switch, a rest, or an error.
Punished(row, o, fatal) ==
    [row EXCEPT
       !.enabled = @ /\ o # "kill",
       !.status = CASE o = "kill" \/ (o = "flood_wait" /\ ~fatal) -> "limited"
                    [] o = "unauthorized" /\ fatal -> "error"
                    [] OTHER -> @]

NotSent(v, m, o) ==
    LET a     == v.msg[m].account
        fatal == Hopeless(v, m, o)
        told  == PutMsg(v, m,
                   [v.msg[m] EXCEPT
                      !.status = IF fatal THEN "failed_permanent" ELSE "retry",
                      !.err = IF o = "flood_wait" THEN "recoverable" ELSE "fatal",
                      !.due = FALSE])
    IN  PutAcct(IF fatal THEN CountFailed(told, CampaignOf[m]) ELSE told,
                a, Punished(v.acct[a], o, fatal))

-----------------------------------------------------------------------------
(* A tick and its transaction                                              *)

\* batch: the selected messages not yet passed, visited in id order.
\* open: the transaction has a snapshot; view is then the session's copy of it.
\* dirty: the columns changed since the last commit.  rows: the rows flushed,
\* hence X-locked.  held: the account whose send lock this tick acquired.
Idle ==
    [pc |-> "idle", batch |-> {}, open |-> FALSE, view |-> InitTables,
     dirty |-> {}, rows |-> {}, held |-> NoAccount]

Tick ==
    [pc: {"idle", "scan", "locked", "send", "commit", "release", "finish"},
     batch: SUBSET Message, open: BOOLEAN, view: Tables,
     dirty: SUBSET (Row \X Column), rows: SUBSET Row,
     held: Account \cup {NoAccount}]

\* The tables a tick reads: its view, or a fresh snapshot if it has none.
View(t) == IF t.open THEN t.view ELSE db

\* The session's copy becomes new.
Write(t, new) ==
    [t EXCEPT !.open = TRUE, !.view = new,
              !.dirty = @ \cup Changed(View(t), new)]

Touched(t) == {p[1] : p \in t.dirty}

\* db.flush(): the dirty rows are sent to the database and stay locked.
Flush(t) == [t EXCEPT !.rows = @ \cup Touched(t)]

\* No other transaction holds a row lock that flushing t needs.
Free(w, t) == \A v \in Worker \ {w} : Touched(t) \cap tick[v].rows = {}

\* A request's own short transaction can write these rows.
Unlocked(R) == \A v \in Worker : R \cap tick[v].rows = {}

\* What a SELECT inside the transaction sees: a row it flushed is the latest
\* committed version with its own columns on top, any other is the snapshot's.
Seen(t) ==
    LET own == Merge(db, t.view, t.dirty)
    IN  [msg  |-> [m \in Message |-> IF m \in t.rows THEN own.msg[m] ELSE t.view.msg[m]],
         camp |-> [c \in Campaign |-> IF c \in t.rows THEN own.camp[c] ELSE t.view.camp[c]],
         acct |-> [a \in Account |-> IF a \in t.rows THEN own.acct[a] ELSE t.view.acct[a]]]

\* m is the message the loop of tick t has reached.
At(t, m) == m \in t.batch /\ \A n \in t.batch : m <= n
Pass(t, m) == [t EXCEPT !.batch = @ \ {m}]

\* Mutant: the kill switch is not looked at.
UsableByStatus(a) == a.status # "error"

\* "active" stands for both usable statuses, active and imported.
Usable(a) == a.enabled /\ a.status = "active"

Due(m) == db.msg[m].status \in Pending /\ db.msg[m].due

\* The select at the head of the tick: no join on the campaign, so messages of
\* paused and cancelled campaigns take their share of the limit.
StartTick(w) ==
    LET ready == {m \in Message : Due(m)}
    IN  /\ tick[w].pc = "idle"
        /\ MaxTicks = 0 \/ ticks < MaxTicks
        /\ ticks' = IF MaxTicks = 0 THEN 0 ELSE ticks + 1
        /\ tick' = [tick EXCEPT ![w] =
              [Idle EXCEPT !.pc = "scan", !.open = TRUE, !.view = db,
                           !.batch = {m \in ready :
                              Cardinality({n \in ready : n < m}) < BatchSize}]]
        /\ UNCHANGED <<db, lock, req, delivered, sentDay, faults, ops>>

\* The loop body up to the send works on the session's copy only: w leaves
\* message m with the copy changed to new.
Leave(w, t, m, new) ==
    /\ tick' = [tick EXCEPT ![w] = Pass(Write(t, new), m)]
    /\ UNCHANGED <<db, lock, req, delivered, sentDay, faults, ops, ticks>>

Scanning(w, m) == tick[w].pc = "scan" /\ At(tick[w], m)

SkipCampaign(w, m) ==
    LET v == View(tick[w])
    IN  /\ Scanning(w, m)
        /\ v.camp[CampaignOf[m]].status \notin {"running", "queued"}
        /\ Leave(w, tick[w], m, v)

\* The first tick that meets a queued campaign starts it.
Promote(w, m) ==
    LET v == View(tick[w])
        c == CampaignOf[m]
    IN  /\ Scanning(w, m)
        /\ v.camp[c].status = "queued"
        /\ tick' = [tick EXCEPT ![w] = Write(@, Promoted(v, c))]
        /\ UNCHANGED <<db, lock, req, delivered, sentDay, faults, ops, ticks>>

\* Another usable account of the campaign's groups, the least loaded first (the
\* tie on id is left open).
Alternates(t, m) ==
    LET seen == Seen(t).acct
        pool == {a \in PoolOf[CampaignOf[m]] : Usable(seen[a]) /\ a # t.view.msg[m].account}
    IN  {a \in pool : \A b \in pool : seen[a].sentToday <= seen[b].sentToday}

\* The message's account can no longer send: flush, then reroute or fail.
AccountGone(w, m) ==
    LET t == Write(tick[w], View(tick[w]))
        v == t.view
        f == Flush(t)
        c == CampaignOf[m]
    IN  /\ Scanning(w, m)
        /\ v.camp[c].status = "running"
        /\ ~Usable(v.acct[v.msg[m].account])
        /\ Free(w, t)
        /\ \/ \E a \in Alternates(f, m) :
                 Leave(w, f, m, Rerouted(v, m, a))
           \/ /\ Alternates(f, m) = {}
              /\ Leave(w, f, m, GivenUp(v, m, "failed"))

\* Message m passed the campaign and account checks.
Sendable(w, m) ==
    LET v == View(tick[w])
    IN  /\ Scanning(w, m)
        /\ v.camp[CampaignOf[m]].status = "running"
        /\ Usable(v.acct[v.msg[m].account])

\* Mutant: off by one.
OverQuotaLate(a, row) == DailyLimit[a] # 0 /\ row.sentToday > DailyLimit[a]

OverQuota(a, row) == DailyLimit[a] # 0 /\ row.sentToday >= DailyLimit[a]

\* next_run_at is pushed back.  Quiet hours, the group's switch and cap and the
\* hourly cap are data outside this module: CanHold lets any of them strike.
Postpone(w, m) ==
    LET v == View(tick[w])
        a == v.msg[m].account
    IN  /\ Sendable(w, m)
        /\ CanHold \/ OverQuota(a, v.acct[a])
        /\ Leave(w, tick[w], m, Postponed(v, m))

WithinQuota(w, m) ==
    LET v == View(tick[w])
        a == v.msg[m].account
    IN  Sendable(w, m) /\ ~OverQuota(a, v.acct[a])

FailNoTarget(w, m) ==
    LET v == View(tick[w])
    IN  /\ WithinQuota(w, m)
        /\ m \in NoTarget
        /\ Leave(w, tick[w], m, GivenUp(v, m, "failed_permanent"))

\* Mutant: the SET has lost its NX.
LockIgnored(a) == FALSE

LockTaken(a) == lock[a] # NoWorker

LockBusy(w, m) ==
    LET v == View(tick[w])
    IN  /\ WithinQuota(w, m)
        /\ m \notin NoTarget
        /\ LockTaken(v.msg[m].account)
        /\ Leave(w, tick[w], m, Postponed(v, m))

\* SET NX EX succeeded; neither the message nor the quota is read again.
AcquireLock(w, m) ==
    LET v == View(tick[w])
        a == v.msg[m].account
    IN  /\ WithinQuota(w, m)
        /\ m \notin NoTarget
        /\ ~LockTaken(a)
        /\ lock' = [lock EXCEPT ![a] = w]
        /\ tick' = [tick EXCEPT ![w] =
              [Write(@, MarkedSending(v, m)) EXCEPT !.pc = "locked", !.held = a]]
        /\ UNCHANGED <<db, req, delivered, sentDay, faults, ops, ticks>>

\* Mutant: the mark is committed, as an autocommit session would.
FlushSendingCommits(w) ==
    /\ tick[w].pc = "locked"
    /\ Free(w, tick[w])
    /\ db' = Merge(db, tick[w].view, tick[w].dirty)
    /\ tick' = [tick EXCEPT ![w] = [Flush(@) EXCEPT !.pc = "send"]]
    /\ UNCHANGED <<lock, req, delivered, sentDay, faults, ops, ticks>>

FlushSending(w) ==
    /\ tick[w].pc = "locked"
    /\ Free(w, tick[w])
    /\ tick' = [tick EXCEPT ![w] = [Flush(@) EXCEPT !.pc = "send"]]
    /\ UNCHANGED <<db, lock, req, delivered, sentDay, faults, ops, ticks>>

\* The call to Telegram and the bookkeeping of its result, all in the session.
Telegram(w, m, new, reached) ==
    LET a == tick[w].view.msg[m].account
    IN  /\ tick[w].pc = "send"
        /\ At(tick[w], m)
        /\ tick' = [tick EXCEPT ![w] = [Write(@, new) EXCEPT !.pc = "commit"]]
        /\ delivered' = [delivered EXCEPT ![m] = IF reached THEN @ + 1 ELSE @]
        /\ sentDay' = [sentDay EXCEPT ![a] = IF reached THEN @ + 1 ELSE @]
        /\ UNCHANGED <<db, lock, req, ops, ticks>>

SendOk(w, m) ==
    /\ "ok" \in Outcome
    /\ Telegram(w, m, Sent(tick[w].view, m), TRUE)
    /\ UNCHANGED faults

SendError(w, m) ==
    \E o \in Outcome \ {"ok"} :
        /\ Telegram(w, m, NotSent(tick[w].view, m, o), FALSE)
        /\ UNCHANGED faults

\* Telegram took the message but the connection broke before its answer.
ReplyLost(w, m) ==
    /\ faults < MaxFaults
    /\ "transient" \in Outcome
    /\ Telegram(w, m, NotSent(tick[w].view, m, "transient"), TRUE)
    /\ faults' = faults + 1

\* The transaction's changes become durable and the session expires its copy.
Closed(t) ==
    [t EXCEPT !.open = FALSE, !.view = InitTables, !.dirty = {}, !.rows = {}]

\* Mutant: the message is left without a commit.
CommitRollsBack(w, m) ==
    /\ tick[w].pc = "commit"
    /\ At(tick[w], m)
    /\ tick' = [tick EXCEPT ![w] = [Closed(Pass(@, m)) EXCEPT !.pc = "release"]]
    /\ UNCHANGED <<db, lock, req, delivered, sentDay, faults, ops, ticks>>

\* Commit BEFORE releasing the lock.
Commit(w, m) ==
    LET t == tick[w]
    IN  /\ t.pc = "commit"
        /\ At(t, m)
        /\ Free(w, t)
        /\ db' = Merge(db, t.view, t.dirty)
        /\ tick' = [tick EXCEPT ![w] = [Closed(Pass(t, m)) EXCEPT !.pc = "release"]]
        /\ UNCHANGED <<lock, req, delivered, sentDay, faults, ops, ticks>>

\* Mutant: the key is deleted without comparing the token.
ReleasedBlindly(w) == [a \in Account |-> IF a = tick[w].held THEN NoWorker ELSE lock[a]]

\* The Lua script: delete the key only while it still carries this token.
Released(w) == [a \in Account |-> IF a = tick[w].held /\ lock[a] = w
                                  THEN NoWorker ELSE lock[a]]

Release(w) ==
    /\ tick[w].pc = "release"
    /\ lock' = Released(w)
    /\ tick' = [tick EXCEPT ![w].pc = "scan", ![w].held = NoAccount]
    /\ UNCHANGED <<db, req, delivered, sentDay, faults, ops, ticks>>

\* The end of the tick: every running campaign with nothing pending is closed.
FinalStatus(row) ==
    CASE row.failed > 0 /\ row.sent = 0 -> "failed"
      [] row.failed > 0 /\ row.sent > 0 -> "partially_failed"
      [] OTHER -> "completed"

\* Mutant: the sweep looks for queued messages only.
UnfinishedQueued == {"queued"}

Unfinished == Pending \cup {"sending"}

Over(seen, c) ==
    /\ seen.camp[c].status = "running"
    /\ \A m \in Message : CampaignOf[m] = c => seen.msg[m].status \notin Unfinished

Finished(row) == [row EXCEPT !.status = FinalStatus(row)]

\* Mutant: only the campaigns touched since the last commit are looked at.
ClosedIfTouched(t) ==
    LET seen == Seen(t)
    IN  [t.view EXCEPT !.camp = [c \in Campaign |->
            IF Over(seen, c) /\ c \in Touched(t) THEN Finished(@[c]) ELSE @[c]]]

SweptTables(t) ==
    LET seen == Seen(t)
    IN  [t.view EXCEPT !.camp = [c \in Campaign |->
            IF Over(seen, c) THEN Finished(@[c]) ELSE @[c]]]

Sweep(w) ==
    LET t == Flush(Write(tick[w], View(tick[w])))
    IN  /\ tick[w].pc = "scan"
        /\ tick[w].batch = {}
        /\ Free(w, t)
        /\ tick' = [tick EXCEPT ![w] =
              [Write(t, SweptTables(t)) EXCEPT !.pc = "finish"]]
        /\ UNCHANGED <<db, lock, req, delivered, sentDay, faults, ops, ticks>>

FinalCommit(w) ==
    /\ tick[w].pc = "finish"
    /\ Free(w, tick[w])
    /\ db' = Merge(db, tick[w].view, tick[w].dirty)
    /\ tick' = [tick EXCEPT ![w] = Idle]
    /\ UNCHANGED <<lock, req, delivered, sentDay, faults, ops, ticks>>

\* w is about to flush and must wait for a row another tick has locked.
Blocked(w) ==
    LET t == tick[w]
    IN  /\ \/ t.pc \in {"locked", "commit", "finish"}
           \/ t.pc = "scan" /\ t.batch = {}
           \/ \E m \in Message :
                 /\ Scanning(w, m)
                 /\ View(t).camp[CampaignOf[m]].status = "running"
                 /\ ~Usable(View(t).acct[View(t).msg[m].account])
        /\ ~Free(w, t)

\* A deadlock or a lock wait timeout: the flush raises, the context managers
\* release the send lock and roll the session back, the task ends.
Abort(w) ==
    /\ Blocked(w)
    /\ lock' = Released(w)
    /\ tick' = [tick EXCEPT ![w] = Idle]
    /\ UNCHANGED <<db, req, delivered, sentDay, faults, ops, ticks>>

\* The process dies: the database rolls back, the lock stays until its TTL.
Crash(w) ==
    /\ tick[w].pc # "idle"
    /\ faults < MaxFaults
    /\ faults' = faults + 1
    /\ tick' = [tick EXCEPT ![w] = Idle]
    /\ UNCHANGED <<db, lock, req, delivered, sentDay, ops, ticks>>

-----------------------------------------------------------------------------
(* Time                                                                    *)

LockExpires(a) ==
    /\ lock[a] # NoWorker
    /\ a \in Slow \/ tick[lock[a]].held # a
    /\ lock' = [lock EXCEPT ![a] = NoWorker]
    /\ UNCHANGED <<db, tick, req, delivered, sentDay, faults, ops, ticks>>

\* next_run_at passes.
BecomesDue(m) ==
    /\ db.msg[m].status \in Pending
    /\ ~db.msg[m].due
    /\ db' = PutMsg(db, m, [db.msg[m] EXCEPT !.due = TRUE])
    /\ UNCHANGED <<lock, tick, req, delivered, sentDay, faults, ops, ticks>>

\* reset_daily_quota, at midnight UTC, in another process of the send worker.
ResetDailyQuota ==
    /\ \E a \in Account : db.acct[a].sentToday + sentDay[a] > 0
    /\ Unlocked({a \in Account : db.acct[a].sentToday > 0})
    /\ db' = [db EXCEPT !.acct = [a \in Account |-> [db.acct[a] EXCEPT !.sentToday = 0]]]
    /\ sentDay' = [a \in Account |-> 0]
    /\ UNCHANGED <<lock, tick, req, delivered, faults, ops, ticks>>

-----------------------------------------------------------------------------
(* Operators and the validation task                                       *)

Operation(kind) == kind \in Ops /\ ops < MaxOps /\ ops' = ops + 1

\* start, resume, pause and cancel write the status whatever it was.
SetCampaign(c, kind, s) ==
    /\ Operation(kind)
    /\ db.camp[c].status # s
    /\ Unlocked({c})
    /\ db' = PutCamp(db, c, [db.camp[c] EXCEPT !.status = s])
    /\ UNCHANGED <<lock, tick, req, delivered, sentDay, faults, ticks>>

StartCampaign(c)  == SetCampaign(c, "start", "running")
PauseCampaign(c)  == SetCampaign(c, "pause", "paused")
CancelCampaign(c) == SetCampaign(c, "cancel", "cancelled")

\* Mutant: whatever the queue has done with is requeued.
RequeueReadAny(c) ==
    LET lost == {m \in Message : CampaignOf[m] = c /\ db.msg[m].status \notin Pending}
    IN  /\ req = NoRequest
        /\ Operation("requeue")
        /\ lost # {}
        /\ req' = [camp |-> c, lost |-> lost, row |-> db.camp[c]]
        /\ UNCHANGED <<db, lock, tick, delivered, sentDay, faults, ticks>>

\* requeue_failed reads the campaign and its recoverable failures, then writes
\* from what it read: a tick may commit between the two.
RequeueRead(c) ==
    LET lost == {m \in Message : /\ CampaignOf[m] = c
                                 /\ db.msg[m].status \in Dead
                                 /\ db.msg[m].err = "recoverable"}
    IN  /\ req = NoRequest
        /\ Operation("requeue")
        /\ lost # {}
        /\ req' = [camp |-> c, lost |-> lost, row |-> db.camp[c]]
        /\ UNCHANGED <<db, lock, tick, delivered, sentDay, faults, ticks>>

Requeued(row) ==
    [row EXCEPT !.status = "queued", !.err = "none", !.due = TRUE, !.attempts = 0]

RequeueWrite ==
    LET c   == req.camp
        n   == Cardinality(req.lost)
        low == IF req.row.failed > n THEN req.row.failed - n ELSE 0
        row == [db.camp[c] EXCEPT
                  !.failed = IF low = req.row.failed THEN @ ELSE low,
                  !.status = IF req.row.status \in Terminal THEN "running" ELSE @]
    IN  /\ req # NoRequest
        /\ Unlocked(req.lost \cup {c})
        /\ db' = PutCamp([db EXCEPT !.msg = [m \in Message |->
                              IF m \in req.lost THEN Requeued(@[m]) ELSE @[m]]],
                         c, row)
        /\ req' = NoRequest
        /\ UNCHANGED <<lock, tick, delivered, sentDay, faults, ops, ticks>>

\* PATCH and batch edit of accounts, and validate_all_sessions.
EnableAccount(a) ==
    /\ Operation("enable")
    /\ Unlocked({a})
    /\ \E e \in BOOLEAN :
          /\ db.acct[a].enabled # e
          /\ db' = PutAcct(db, a, [db.acct[a] EXCEPT !.enabled = e])
    /\ UNCHANGED <<lock, tick, req, delivered, sentDay, faults, ticks>>

ValidateAccount(a) ==
    /\ Operation("validate")
    /\ Unlocked({a})
    /\ \E s \in {"active", "error"} :
          /\ db.acct[a].status # s
          /\ db' = PutAcct(db, a, [db.acct[a] EXCEPT !.status = s])
    /\ UNCHANGED <<lock, tick, req, delivered, sentDay, faults, ticks>>

-----------------------------------------------------------------------------
Init ==
    /\ db = InitTables
    /\ lock = [a \in Account |-> NoWorker]
    /\ tick = [w \in Worker |-> Idle]
    /\ req = NoRequest
    /\ delivered = [m \in Message |-> 0]
    /\ sentDay = [a \in Account |-> 0]
    /\ faults = 0
    /\ ops = 0
    /\ ticks = 0

\* The steps a running tick takes by itself.
Run(w) ==
    \/ \E m \in Message :
          \/ SkipCampaign(w, m) \/ Promote(w, m) \/ AccountGone(w, m)
          \/ Postpone(w, m) \/ FailNoTarget(w, m) \/ LockBusy(w, m)
          \/ AcquireLock(w, m) \/ SendOk(w, m) \/ SendError(w, m) \/ Commit(w, m)
    \/ FlushSending(w) \/ Release(w) \/ Sweep(w) \/ FinalCommit(w) \/ Abort(w)

Environment ==
    \/ \E a \in Account : LockExpires(a)
    \/ \E m \in Message : BecomesDue(m)
    \/ ResetDailyQuota

Outside ==
    \/ \E c \in Campaign : \/ StartCampaign(c) \/ PauseCampaign(c)
                           \/ CancelCampaign(c) \/ RequeueRead(c)
    \/ RequeueWrite
    \/ \E a \in Account : EnableAccount(a) \/ ValidateAccount(a)

Next ==
    \/ \E w \in Worker : \/ StartTick(w) \/ Run(w) \/ Crash(w)
                         \/ \E m \in Message : ReplyLost(w, m)
    \/ Environment
    \/ Outside

Spec == Init /\ [][Next]_vars

\* Beat fires a tick every minute, a tick runs to its end, keys expire and time
\* passes.  The reset waits for row locks that come and go, and gets them.
Fairness ==
    /\ \A w \in Worker : WF_vars(StartTick(w)) /\ WF_vars(Run(w))
    /\ \A a \in Account : WF_vars(LockExpires(a))
    /\ \A m \in Message : WF_vars(BecomesDue(m))
    /\ SF_vars(ResetDailyQuota)

FairSpec == Spec /\ Fairness

-----------------------------------------------------------------------------
(* Properties                                                              *)

\* The tables, the ticks and the lock keep their types (models/*.py columns).
TypeOK ==
    /\ db \in Tables
    /\ lock \in [Account -> Worker \cup {NoWorker}]
    /\ tick \in [Worker -> Tick]
    /\ req \in [camp: Campaign, lost: SUBSET Message, row: CampaignRow]
               \cup {NoRequest}
    /\ delivered \in [Message -> Nat]
    /\ sentDay \in [Account -> Nat]
    /\ faults \in Nat
    /\ ops \in Nat
    /\ ticks \in Nat

\* No committed row is ever `sending`: dispatch commits the result together with
\* the mark, so a crash cannot strand a message that no select picks up again.
NeverDurablySending == \A m \in Message : db.msg[m].status # "sending"

\* An account never sends for two ticks at once, unless a send outlasts the TTL
\* (account_send_lock around the send in dispatch_send_queue).
SendExclusion ==
    \A v, w \in Worker :
        /\ tick[v].pc = "send" /\ tick[w].pc = "send"
        /\ tick[v].held = tick[w].held
        /\ tick[v].held \notin Slow
        => v = w

\* A message is accepted by Telegram once, and once more for each crash or lost
\* reply at most: what the commit inside the lock is for.
AtMostOnce == \A m \in Message : delivered[m] <= 1 + faults

\* A row committed as sent was accepted by Telegram.
SentIsDelivered ==
    \A m \in Message : db.msg[m].status = "sent" => delivered[m] > 0

\* sent_count is the number of the campaign's messages that are sent, whatever
\* crashes and operators do between; failed_count is that of the dead ones until
\* an operator acts: requeue_failed and a tick each write a failed_count computed
\* from an earlier read, so a requeue under a tick can leave it off either way.
CountersExact ==
    \A c \in Campaign :
        LET with(S) == {m \in Message : CampaignOf[m] = c /\ db.msg[m].status \in S}
        IN  /\ db.camp[c].sent = Cardinality(with({"sent"}))
            /\ ops = 0 => db.camp[c].failed = Cardinality(with(Dead))

\* A campaign the sweep closed has no message left to retry, and none left queued
\* but what an operator put back: a requeue that read the campaign as running and
\* writes after the sweep closed it leaves its messages to nobody.
TerminalHasNoPending ==
    \A m \in Message :
        db.camp[CampaignOf[m]].status \in Terminal /\ db.msg[m].status \in Pending
            => db.msg[m].status = "queued" /\ ops > 0

\* The number of real sends of an account since the reset stays within its
\* daily_limit, up to the sends a crash or a lost reply left uncounted.
WithinDailyLimit ==
    \A a \in Account : DailyLimit[a] # 0 => sentDay[a] <= DailyLimit[a] + faults

\* No send is under way from an account that is disabled: the kill switch on
\* PeerFloodError and its kin takes effect for the very next message.
NoSendFromKilled ==
    \A w \in Worker : tick[w].pc = "send" => db.acct[tick[w].held].enabled

\* A tick only ever deletes its own lock (the token compare in the Lua script):
\* it cannot free an account another tick locked after its own lock expired.
NoStolenLock ==
    [][\A a \in Account, w \in Worker :
          tick'[w] # tick[w] /\ lock'[a] # lock[a] => lock[a] \in {w, NoWorker}]_vars

\* A campaign left alone comes to its end: daily limits, retries, crashed
\* workers and busy locks delay it but do not stop it.
CampaignsFinish ==
    \A c \in Campaign : db.camp[c].status \in {"queued", "running"}
        ~> db.camp[c].status \notin {"queued", "running"}

\* Seen from outside, the tables implement the ledger of what was promised.
Standing(m) ==
    IF db.msg[m].status # "sent"
       /\ \E w \in Worker : tick[w].pc = "commit" /\ tick[w].view.msg[m].status = "sent"
    THEN "accepted"
    ELSE CASE db.msg[m].status \in Dead -> "dead"
           [] db.msg[m].status = "sent" -> "sent"
           [] OTHER -> "pending"

Ledger == INSTANCE DeliveryLedger WITH outcome <- [m \in Message |-> Standing(m)]

\* Every acceptance by Telegram is either on record (or being committed) or was
\* lost to a crash or a dropped reply.
EverySendPaidFor == Ledger!PaidFor

\* Every step of the queue is a step of the ledger or invisible to it.
KeepsLedger == Ledger!Spec

=============================================================================
