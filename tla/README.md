# Telegram Support Hub in TLA+

A verification project for the backend under `src/backend`: a FastAPI service,
three Celery workers (`send`, `account`, beat) and a reply listener, over one
MariaDB database and one Redis, that send broadcasts from a pool of Telegram
accounts and collect the replies, and a Vue page that shows them as they come.
The models are written from the code; where the code and its documents or
comments disagree, the code is modelled and the disagreement is listed in
section 4.

## 1. Inventory

State lives in the database and in Redis. Processes share nothing else.

| Part | Code | State it keeps | Operations | Talks to | What makes it correct |
| --- | --- | --- | --- | --- | --- |
| Send queue | `workers/send_tasks.py` | `message_records`, `campaigns`, `accounts`, `account_groups` rows | `dispatch_send_queue` (one *tick* a minute), `reset_daily_quota` | send lock, Telegram adapter, campaign endpoints | a message is not sent twice, no row is stranded, counters and limits are exact, campaigns end |
| Send lock | `core/redis_client.py` | `send_lock:<account>` with a token and a TTL | acquire (SET NX EX), release (compare and delete), expiry | send queue | one sender per account; nobody deletes another's lock |
| Campaign endpoints | `api/routes/campaigns.py` | campaigns and their messages | create, start, pause, resume, cancel, requeue-failed, preflight | send queue, operation campaigns | an operator's decision is not undone by a worker |
| Operation campaigns | `workers/execute_operation.py` | campaign status and counters, audit | one task per start, over every eligible account | adapter, campaign endpoints | each account once per start; counters match what was done |
| Account validation, proxies, friends, ports | `workers/account_tasks.py` | account and proxy status, friends, `ports_used` | every 10, 15, 60 minutes, or on demand | send queue (reads what they write) | a verdict is not older than what it overwrites |
| Account endpoints | `api/routes/accounts.py` | accounts, group membership, session files | zip import, edit, batch edit, delete, validate, bind a proxy, test send | port quota, proxy pool, validation | files and rows agree whatever fails; limits hold |
| Port quota | `services/port_quota.py` | `merchants.ports_used` beside the count of active accounts | check before activation, recompute | account endpoints, port reset | active accounts stay within `ports_total` |
| Proxy pool | `services/proxy_pool.py`, `api/routes/proxies.py`, `proxy_groups.py` | proxies and their status, account → proxy | allocate, bind, edit, delete, probe | account import, periodic and requested probes | caps hold; an operator's decision outlives a probe |
| Customers and assignment | `services/assignment.py`, `api/routes/customers.py` | customer → account | import, assign, edit, delete | accounts | limits hold, shares are even, nobody is dealt who was not asked for |
| Imported targets | `services/imported_target.py` | none (writes message rows) | build records, render once | campaigns, templates | |
| Reply listener | `workers/listen_worker.py`, `listen_incoming` of `telegram/adapter.py` | inbound `message_records`, customers, friends; one asyncio task per account, the update state in its session file | persist a reply, supervise listeners, publish | send queue's rows, WebSocket | every reply stored once and filed under its sender; every enabled account has one listener, no other has |
| Orphan threads | `api/routes/orphan_threads.py` | inbound rows without a customer | list, rescan, promote | listener, customers | the bucket drains |
| Reply stream | `api/routes/ws.py`, `services/reply_bus.py`, `frontend/src/views/Replies.vue` | open sockets and what each may see; the page's socket and timer | connect, subscribe, filter, send, ping, reconnect | listener through Redis pub/sub | a page gets all of its user's replies once and no other; dead sockets end, live pages come back |
| Telegram adapter | `telegram/adapter.py` | a copy of the session file and a client per call; for a phone number, an entry in the account's contacts | send, file, operation, resolve, validate, listen | queue, chat, operations, listener | whatever step fails nothing is left behind, and the error reaches whoever must act on it |
| Customer chat | `api/routes/customers.py` | outbound rows sent by hand | send text or a file | adapter | the row tells what happened |
| Scheduling, templates | `services/scheduling.py`, `template_engine.py` | none | quiet hours, intervals, backoff, TTL; render with entities | send queue, adapter | boundaries of time and text offsets |
| Tenancy and roles | `services/tenant_scope.py`, `permissions.py`, `api/deps.py`, `auth.py` | agents, merchants, permissions | scope a query, check a flag, log in | every endpoint | rows stay inside their tenant |
| CRUD, reports, conversion, translation, other pages | remaining `api/routes`, `services/*`, `src/frontend` | their own rows | one request, one row; reads; outside calls | | |

**What is hard.** Beat starts a tick every minute whether or not the last one is
over, and the `send` worker is a process pool: ticks overlap. A tick is one ORM
session over a REPEATABLE READ database (MariaDB 11.4, where
`innodb_snapshot_isolation` is off): what it read at the start stays what it
sees until it commits, and what it writes goes over whatever others committed
meanwhile. It sends to Telegram in the middle of a transaction, so a crash rolls
back the record of a send that happened. A lock may expire under its holder.
Operators write the same rows at any time. The API has the same stale snapshots
between requests: an import, an assignment, a validation or a probe decides by
what it read and commits later. Files and Telegram's own state (contacts, update
state) take no part in a rollback. In the listener a cancellation may land on any
`await`. A socket's two ends learn of a break at different times. `PROJECT.json`
lists each hazard at its line.

## 2. Modules

| Module | What it is |
| --- | --- |
| `SendDispatch` | the send queue, its lock, the daily reset, the campaign endpoints and account edits that write the same rows, crashes |
| `DeliveryLedger` | what the queue promises for each message, without workers, sessions or locks; `SendDispatch` implements it (`KeepsLedger`) |
| `SendAttempt` | one message from its template to its last attempt: every step of an adapter call, the error codes, their consequences; the chat's and the operations' calls beside it |
| `Scheduling`, `MessageText` | the pure functions `SendAttempt` computes with: quiet hours, jitter and backoff; text and entities of a template |
| `PortQuota` | the batch edit of accounts with its quota check and recount, beside the writers of the same rows that do neither |
| `ProxyPool` | allocations of proxies, bindings, the operators' edits of the pool, the probes |
| `SessionStore` | session files and account rows: zip import, deletion, validation |
| `OperationRun` | one batch-operation or modify-info campaign: starts, overlapping runs, the single commit, operators, crashes |
| `CustomerBook` | import and assignment of customers, beside edits and deletions |
| `ListenSupervisor` | the listener's supervisor and its asyncio tasks, connections, cancellations, what each client is given |
| `ReplyIntake` | the listener's handler, the orphan rescan and promote, and the deletion of customers and accounts, over the same customers and messages |
| `ReplyStream` | the WebSocket handler, the page that keeps it open, the rights it reads, Redis pub/sub |
| `MC...` | finite instances of the module of that name |
| `SendDispatchProofs` | the send queue: types, the lock, what committed statuses mean; for ticks that do not overlap the ledger, counters, quota, kill switch and sweep |
| `PortQuotaProofs` | types, admission within the quota, the recount |
| `ProxyPoolProofs` | what a disabled proxy needs to come back; allocations within their caps |
| `OperationAndBookProofs` | operation campaigns: types, one attempt per dispatch, counters below the audit log; customers: the deal is even, within the limit, and of those asked for |
| `ListenSupervisorProofs` | one listener per account, one row per message |
| `ReplyIntakeProofs` | messages under their own sender, the three causes of an unmatched one |
| `ReplyStreamProofs` | a connection passes on all it should and nothing else, a page shows it once |
| `SendAttemptProofs` | calls clean up, errors have their effect, attempts keep their distance, entities cover their tags; and of `SessionStore`, the session files those calls copy |

How they fit together: a reply goes through `ListenSupervisor` (is anyone
listening, how often is it handed over), `ReplyIntake` (where it is filed) and
`ReplyStream` (who is shown it); each takes the one before as a choice of what
arrives. A message goes through `SendDispatch` (which tick sends it, what is
committed) and `SendAttempt` (what happens inside that one send, and when the
next may be); `SendDispatch` takes the result of a send as a choice from
`AllOutcomes`. `SendAttempt` extends `Scheduling` and `MessageText`.
The proofs of two components share a module where both are short (`OperationRun` and
`CustomerBook`) or belong together (`SendAttempt` and `SessionStore`), so those name
their states and constants apart: `StoreSpec`, `BookSpec`, `Null`, `Member`.

### SendDispatch and the code

`db` holds the committed tables, one record per row with the columns the
properties tell apart. `tick[w]` is worker *w*'s run of `dispatch_send_queue`:
where it is (`pc`), the selected messages still to visit (`batch`, in id order),
and its transaction: the session's copy of the tables (`view`), the columns it
changed (`dirty`), the rows it flushed and therefore locked (`rows`), and the
account whose send lock it acquired (`held`).

* A read is from `view`; the first read after a commit takes a new snapshot
  (`View`), and the selected rows are read again then, because the session expires
  them. `Write` records changed columns; `Flush` locks their rows and waits for
  other ticks' locks (`Free`); a commit merges the dirty columns into `db`
  (`Merge`), which is what one `UPDATE` per row does.
* One action per way through the loop body: `SkipCampaign`, `Promote`,
  `AccountGone` (reroute or give up), `Postpone`, `FailNoTarget`, `LockBusy`,
  `AcquireLock`, then `FlushSending`, `SendOk` / `SendError` / `ReplyLost`,
  `Commit`, `Release`, and after the loop `Sweep` and `FinalCommit`. The points
  between them are where others can interleave: before a flush, during the send,
  before and after the commit, before the release.
* `Abort` is a flush that fails on a deadlock or a lock wait timeout; `Crash` is
  the death of the process; `LockExpires` is the key's TTL, under a holder only for
  the accounts in `Slow`.
* `SetCampaign`, `RequeueRead`/`RequeueWrite`, `EnableAccount`, `ValidateAccount`
  are what the endpoints and the validation task write. `RequeueRead` and
  `RequeueWrite` are apart because a tick may commit between them.

Abstractions, each of which loses nothing a property looks at: `due` is
`next_run_at` being empty or past, two future times are not told apart, and it
can become due at any moment. `err` keeps only whether requeue-failed picks the code. The
status `sent` stands for `sent`, `read` and `replied` (the listener moves a row
among them, never out). `active` stands for `active` and `imported`. Quiet hours,
the group's switch and cap and the hourly cap are one nondeterministic reason to
postpone (`CanHold`), so the runs with it cover any values of those settings.
The alternate account is the least loaded in the code; the model keeps that
order.

### PortQuota and the code

`acct` and `port` are the committed statuses and port columns, `req[r]` a
`POST /accounts/batch` and its transaction: the accounts as its snapshot shows
them and the `ports_used` of that snapshot (`seen`, `base`, opened when the token is
checked), the merchants still to check or recount (`todo`), the rows and merchants it has locked, and the counters
it has written. `OpenBatch`, `CheckQuota` or `Refuse` for each merchant,
`FlushStatuses`, `Recount` for each merchant and `CommitBatch` are the handler's
database round trips. The check reads the latest merchant row, but the object it
reads into is a local variable and the session holds it weakly: `Recount` loads the
row from the snapshot again, and writes nothing if the count equals what it loads. Every other writer (`SetStatus` for PATCH, validation and
failed sends, `DeleteAccounts`, `UpdateMerchant`, `ResetPorts`) sets columns to values
that do not depend on what it read, so one step at its commit says all of it.
Clock and cycle are free choices (`Expiry`, which merchants `ResetPorts` takes). The
statuses other than `active` are a parameter, `Inactive`.

### OperationRun and the code

`camp` is the campaign's row, `queue` the dispatched tasks nobody has taken, and
`run[w]` a run of `execute_operation_campaign`: the row it read before its first
call, the accounts still to call, its two local counters. Nothing is written
before `FinishRun`, whose `Tallied` names only the columns that differ from what
was read (`Written`). A crashed run is not redelivered: Celery acknowledges a task
when it is taken, the default this code keeps. `StartCampaign` commits before it dispatches, and the dispatch
may fail. `called`, `audited` and `dispatched` record what the properties relate.
The order of the accounts, proxies and error texts are left out.

### ReplyIntake and the code

`cust`, `stored` and `bound` are the committed customers under their unique key
`phone`, the message rows and their `customer_id`. `lis` is the handler: `Receive`
looks the customer up, `InsertCustomer` flushes a new one, `LookAgain` is the
`except` branch after the rollback, `PersistReply` the commit, `PublishReply` what
follows it. The handler has no `await` between its first read and its commit, so one
`lis` stands for all accounts. `req[r]` is a rescan or a promotion and its
transaction: the unmatched messages its snapshot showed (`seen`), the pairs still to
promote (`todo`), the `customer_id` set on each message (`tags`), the customers
it inserted (`own`), the messages whose tag is flushed and locked (`held`).
`PromoteFails` is the loop's `except`: the rollback takes all earlier tags with it.
`InsertFails` is the handler's flush failing for any reason but the key or a deleted
account (a deadlock, a lock wait timeout, a lost connection): `except Exception`
takes it for the key's race, and the second lookup may find nobody. A message of
`Unnamed` has no `tg_user_id`: it is stored unmatched and no rescan selects it
(`Findable`). `DeleteAccount` leaves the account's messages with an `account_id` that
is NULL (`gone`), and the rescan's second phase passes those over. A message whose
handler dies or raises is not delivered again.
An `INSERT` waits for an uncommitted row with the same key (`KeyFree`) and the
foreign key refuses a customer that is gone (`KeysHold`). The order of the pairs is
left open. Left out: friends, texts, the outbound row's reply columns and the counters.

### ProxyPool and the code

`proxy` and `bound` are the committed proxy rows and `accounts.proxy_id`.
`req[r]` is an import with a proxy group, or `POST /accounts/{id}/proxy/auto`,
and its transaction: the candidates of its snapshot with their caps (`cand`), the
bindings as it sees them (`own`: the snapshot and its own flushed rows), the
accounts it has bound and so locked (`mine`). `Assign` is one turn of
`auto_assign_proxy`, `Skip` its `PoolError`, `AssignFails` the foreign key.
`probe` are the periodic probe and an operator's: what they read, until
`WriteVerdicts` commits seconds later. Everything else is a short blind write.
`late` and `parked` record what the properties relate. Left out: names,
addresses, the lists.

### SessionStore and the code

`rows` is the accounts table with the columns an import or a validation may
write, `disk` says whom each session file logs in. `imp[r]` is an import: it
writes a file (`WriteFile`) before it looks at the row, either changes one
(`Reimport`) or inserts and flushes one (`Insert`, `InsertFails`), and commits
once (`CommitImport`, `CommitFails`, which unlinks what was written). `ImportDies`
leaves the files. `val` is a validation with its snapshot and its verdicts;
`CommitVerdicts` writes them all or `VerdictsLost` none. Beat's validation takes the
enabled accounts (`Selected`), an operator's the one asked for, enabled or not;
`SetEnabled` is the operator's switch. `Identity` is the
resolution of an entry's id from sidecar and name. Left out: reading the zip and
the sidecar's other fields, proxies (`ProxyPool`), the listing.

### ListenSupervisor and the code

`row` is what the select of `_supervise` looks at, `held` its dict of tasks,
`task[a][s]` the asyncio tasks of an account, forgotten ones included. A task's
`pc` names the await it is at, because that decides what a cancellation does
(`Cancelled`): in `armed` it starts the cleanup, in `settling` it lands on `await
heartbeat_task`, where `except (CancelledError, Exception)` swallows it. `Refresh`
is one turn of the supervisor, `Connect` / `ConnectFails` / `Disconnected` /
`Settle` / `Close` a turn of the task. Telegram's side is `sent`, each client's
`pts`, who gets the pushes (`tuned`), and `Heartbeat`, the `catch_up` every 15
seconds. A client is built without `catch_up=True`, so it does not load the update
state of the session file: `Connect` begins with the present, and what was sent
before goes into `missed`. Whether it knows an update state before its first update
is left open (`aware`); a client that does not has nothing to catch up from, and stays
`Numb` if its pushes have gone to another. `_persist_reply` is one step here; `ReplyIntake` takes it apart. `deaf`, `shaken`, `missed` name the
causes the properties allow for.

### SendAttempt, Scheduling, MessageText and the code

`call` is the call of the adapter under way. `Opens`, `Connect`, `Authorize`,
`Resolve`, `Import`, `Forget`, `Act`, `Disconnect` are its steps, each of which
may raise any of `Errors`; a phone number is resolved by importing and deleting a
contact. `said` records every exception with its step (`Hears`), those that end the
call (`Raises`) and those the adapter swallows: in `is_user_authorized`, which asks
Telegram and answers its errors with False, in `get_entity` for a phone and in
`DeleteContacts` (together `Dropped`). `CodeOf` is what the except clauses make of an exception, `Verdict` what
`dispatch_send_queue` makes of the code. Exceptions are class names, as the code
compares them. The chat's and the operations' calls (`OtherCall`) go the same way
and leave message and account alone. Calls do not overlap here: each has its own
copy and client, and the contact list is the one thing they share. The message
is rendered at the start (`Enqueue`). `tick` is when the tick began that has the
message in its batch: `StartTick` selects it, and the clock goes on while the
messages before it are sent, until it `TakesTurn` (`PassOver`, `Unavailable`,
`Postpone` or `Attempt`). All its times are the tick's, as `now` is in the code. It
waits through quiet hours and backoff by the operators of `Scheduling`, on a day of `DayLength` units with `Cap` for the
hour; any draw of the jitter may come. `MessageText` takes the body as the pieces
the tag regex cuts, a character as one or two UTF-16 units; its loops are recursive
functions of the number of turns. `Units` is the reference: the code units of a
text, out of which `Span` cuts what an entity covers.

### CustomerBook and the code

`customer` is the table by its unique key, `req[r]` an import or an assignment
and its transaction: `Line` is one line of the import (a flush), `DealOut`
`assign_customers` and its flush, `Commit` what follows. `Turn` is the inner loop:
the next account after the cursor that is not full, the accounts in the order of
their keys, since the query names none; the cursor is kept modulo their number,
which is all the code uses of it. `Deal` is the outer loop, customers by id. Which accounts a caller may deal to is a choice of `Scopes`.
`status` changes with the account and is left out.

### ReplyStream and the code

`sock[s]` are the two ends of a connection: the handler's place in
`replies_stream` (`pc`), whether it has accepted, the groups and accounts it read
in two transactions, its Redis queue and the reply in its hand; and whether the
page's handlers are still attached (`on`) and its end is closed (`gone`). `tab` is
the page: who is logged in and whether its reconnect timer runs. `Switch` is the
watch on the token and the mounting, `OnClose` the page's `onclose`, which sees
1006 instead of a code if the handler had not accepted (`Seen`). `Publish` reaches
whoever has subscribed, as Redis pub/sub does. `grant`, `member`, `valid` are the
rights, edited at any time.

## 3. What is checked and proved

### Runs

| Run | Instance | Shows |
| --- | --- | --- |
| `queue` | 1 worker, 2 messages on one account with a substitute, batch 2, daily limit 1, two attempts, results ok / kill / flood wait / transient, 1 crash or lost reply, 1 of requeue / start / pause, fair | ticks that do not overlap implement `DeliveryLedger`, keep counters, quota, kill switch and sweep, and a campaign left alone ends |
| `two_ticks` | 2 workers, 2 ticks, 4 messages on 2 accounts (one without a target), batch 2, sends from one account outlast their lock, any reason to postpone, 1 of enable / validate / cancel | the lock and the status mark survive overlapping ticks |
| `v_double_send` | 2 workers, 2 ticks, 2 messages | TLC's counterexample, see section 4 |
| `attempts` | 3 settings (quiet hours over midnight, within a day, not set with an end that cannot be read; swapped jitter; waits that reach the cap), every template of up to 3 pieces, 4 exceptions, 3 attempts, time up to 6 on a day of 4, 1 call of the chat or an operation, 1 crash | nothing is left behind, errors reach their consequence or are named as dropped, ticks that attempt keep their distance, entities cover their text |
| `ports` | 2 overlapping batches, 1 merchant with 2 accounts, totals 0 and 1, every other writer | a batch that nothing overtook keeps the quota, and repairs the count it found |
| `proxies` | 2 allocations, 2 accounts, 2 proxies (the second created on the way), caps 1 or none, both probes, 1 operator's request | a cap is exceeded only by what overlapped; a disabled proxy stays out |
| `sessions` | 2 imports of 1 or 2 entries (by phone, by sidecar, both, in a folder), 3 rows, one user whose key is revoked, accounts switched off and on, 1 deletion, fair | files stay where they must and go where they must; the lockout of an enabled account is found out |
| `operations` | 2 workers, 2 accounts, 2 starts, 1 fault, pause / resume / cancel / account changes, fair | attempts and counters are bounded by what was dispatched and audited; a dispatched campaign ends |
| `customers` | 2 imports or assignments, 3 customers and a new phone, 2 accounts, limits 1, 2 or none, 1 other request | limits, even shares, and that nobody is dealt who was not asked for |
| `listen` | 1 account, 2 tasks of it, 2 messages, 2 edits of its row, 3 faults, fair | one listener, one row per message, stopped accounts go silent, what reaches a client of a wanted one is stored |
| `replies` | 4 messages of 2 senders to 2 accounts, one sender with a visible phone, one message without a sender, one from before the listener created customers, 2 requests, 1 deletion of a customer or an account, 1 crash, rollback or failed insert, fair | a message is filed under its own sender's existing customer, losing the race for a key orphans nothing, unmatched messages drain if a rescan can do anything for them |
| `stream` | 1 page, 2 connections, an administrator and an agent of one group, 2 accounts, 2 replies, 1 edit of rights, 2 logins or visits, 1 fault, fair | a connection passes on what it should, once, in order; a page shows nothing twice and nothing of the user before; dead handlers end, live pages come back |

Bounds. Two messages are the least at which a batch has an order, a quota can be
used up and a second row is seen through an old snapshot; three with a batch of two
make a message wait for a later tick. Two accounts give a reroute a place to go. Two
workers with a tick each cover a tick that starts, or is, in the middle of
another. Attempts are bounded by `MaxAttempts`, a first try and a retry. One
fault or outside request shows each property with its price and can fall at any
step; more would only pay more often. Two requests, or two runs, are the least that
overlap; two accounts and a quota or cap of one the least that overshoot; a total
of 0 is the unlimited case, and changing it to 1 under a checked request is the
case the row lock is there for. Two slots are a listener and the one it replaces;
accounts do not interact there. Three faults let a client be lost, its successor lose
a handler, and the process die after that. The flush fails otherwise than on its key
for one message only (`Fragile`), since one is orphaned so as well as three. Two replies have an order, a second connection is
the one opened while the first still closes. A day of four units holds a window
over midnight, and six reach the second day's window; a tick may begin at any of them
and go on past any other. Deadlock checking is off
because the bounds may stop everything. Symmetry is used only in runs without
liveness.

Fairness. `queue`: beat fires every minute and a tick runs to its end (weak
fairness of `StartTick` and `Run`), keys expire and time passes (`LockExpires`,
`BecomesDue`), the midnight reset waits for row locks that come and go and gets
them (strong). `operations`: a worker takes the tasks there are and carries each
to its end. `sessions`: beat's validation comes round again and again although one
may be under way (strong fairness of opening one over the enabled accounts), validations and imports run to
their end. `listen`: the event loop runs what is ready, timers fire, a handler
that is not cancelled ends, a connection is granted in the end, and Telegram pushes what it has to the client it
knows of, if it keeps knowing that one. `replies`: the listener and the requests run to their end, an admin
keeps opening the list of unmatched messages (each opening rescans), an insert that
waits for a lock gets it when it is free often enough (strong: InnoDB queues
waiters). `stream`: the handlers run on, the browser's timer fires. Nothing else is
assumed of operators, Telegram's answers or crashes.

### Theorems

Each is proved for every value of the constants, from the module's named assumption
and, where a theorem says so, from one of three hypotheses:

* `Serial`: ticks take turns. It always holds of one worker, the instance of `queue`.
  Of more it is what beat's minute is meant to give; without it the properties fail
  (section 4, overlapping ticks), so no theorem without it is to be had. Types, the
  lock, its token and the committed statuses do not need it.
* `"enable" \notin Ops`, for the kill switch only: an operator who enables an account
  again is entitled to its next message.
* `IdLeft`: some id is free. `AUTO_INCREMENT` never runs out in practice, and
  `IdsNeverRunOut` proves the hypothesis when `Id` is infinite and senders, messages
  and requests are finitely many.

TLC checked every strengthening below, except for the parts that only give types, on
the instance of the component's run, before it was proved.

* Send queue, any ticks. `TypeCorrect`: `Spec => []TypeOK`. `ExclusionCorrect`: `Spec =>
  []SendExclusion`, `TokenCorrect`: `Spec => NoStolenLock`. The inductive invariant
  is `LockInv`: a tick holds an account exactly at the four points between acquire
  and release, and, unless its sends may outlast the lock, Redis holds that tick's
  token. Exclusion follows because a key holds one token; the token compare is what
  keeps `LockInv` through another tick's late release. `NeverStranded`: `Spec =>
  []NeverDurablySending`, and `RecordedIsDelivered`: a row committed as sent was
  accepted by Telegram (this one has no run: `KeepsLedger` implies it).
  `StatusInv` adds what each open transaction may hold: a `sending` in a view is dirty
  only for the message the tick is at, between mark and result, and a `sent` in a
  view is backed by an acceptance. Neither is inductive without it, since a
  commit copies the view.
* Send queue, ticks in turn. The steps are first sorted by what they do to the columns
  the properties are about (`Starts`, `Scans`, `Locks`, `Calls`, `Commits`, `Sweeps`,
  `Dies`, and the requests), so that each invariant has a case for each kind and not
  for each of two dozen actions. The invariants come in layers. `SyncInv` says how a
  tick's copy of the statuses may differ from the committed ones: where the tick wrote,
  or where a requeue revived a row the tick had seen dead. On it stand `CountInv` (the
  counters of the tables and of every copy count its messages; a counter not written
  is the committed one), `QuotaInv` (the committed `sent_today` lags by at most the one
  send whose commit is next; a tick past the lock holds an enabled account within its
  limit), `EnabledInv` (a copy shows no account enabled that is not) and `TerminalInv`
  (what the sweep decided by is still so when it commits). `CountersKept`, `LimitKept`,
  `SweptClean` and `KillSwitchHolds` follow. `LedgerImplemented`: `Spec /\ []Serial =>
  KeepsLedger`, step by step from these layers; `LedgerPaidFor` is the abstract
  machine's own invariant, and `SendsPaidFor` is what it means for the queue:
  every acceptance is on record, about to be, or paid for by a crash or a lost reply.
* Port quota. `PortTypeCorrect`, and `AdmissionCorrect`: `Spec =>
  AdmittedWithinTotal`. `CheckInv` says that a request past its check of a merchant
  still satisfies it, against the total as it is now, and holds that merchant's row:
  whoever changes the total needs the row. `RowsInv` ties what the request will
  commit to what it counted, and `CountGained` adds the two counts.
  `RecountCorrect`: `Spec => RecountIsLive`, from `RecountInv`: a merchant the request
  no longer has to recount has its count written, or its snapshot's `ports_used` is
  that count. In the second case the committed value may have changed since, which
  is the exception the property names.
* Proxy pool. `DisabledHolds` needs only `ReadInv`: no probe under way has read a
  proxy that was disabled while none was. `AllocationCorrect` needs `WithinInv`: an
  open allocation knows every binding but those others committed since (`late`), and
  has filled no candidate beyond its cap; the choice of `PickAvailable`, the candidate
  with the least load, keeps it because a candidate is a choice only below its cap.
* Operation campaigns. `OneAttemptCorrect`: a call is paid for by a dispatch, so
  `CallsInv` counts calls made, calls a run still owes and tasks still queued
  together. `CountersCorrect` is inductive with `ReadInv`: what a run read of the
  counters had already been audited.
* Listener. `OneListenerHolds` rests on `ForgottenIsQuiet`: a task the supervisor no
  longer holds is off or on its way there, unless it swallowed its cancellation.
  `StoredOnceHolds` rests on `StoredInv`: of an account with one client at a time,
  what is stored or being handled is behind that client's place in the updates, and the
  next client begins where Telegram is, which `Behind` says no place is ahead of.
* Reply intake. `FiledUnderSender` and `OrphansExplained`: `Spec /\ []IdLeft =>` the
  two invariants. For the second, a message the handler is about to file without a
  customer has one of the three reasons, or its account is gone and it will not be
  filed at all (`Excused`). `IdsInv` says that a customer, committed or still in somebody's
  transaction, has one key, and that whoever is about to file a message under it means
  that key's sender; `KeysInv` that who inserts a key holds it alone to the end of the
  transaction (the unique index); `PromoteInv` and `ListenInv` what promote and the
  listener's handler know at each of their steps. Every insert must take a new id,
  hence `IdLeft`.
* Reply stream. `StreamIsComplete` and `PageShowsOnce`. `Righted`: what a
  connection will show is what the groups of one version and the members of that or
  of a later one give. `Fed`: since it subscribed it holds (passed on, in hand, in its
  queue, in this order and increasing) every reply it may show, and has shown or taken
  in hand no other. `CodeInv`: a connection is refused only before it is accepted, so
  `onclose` never sees 1008. `PageInv`: a page listens to at most one connection, of
  its own user, and its reconnect timer is off while it does; `ShownInv`: all that
  connection still holds is newer than what the page has shown. The last two together
  are what `tearDownWs` is for.
* Adapter. `CallCleansUpHolds` rests on `CopyInv` (an open call has one copy) and
  `ContactInv` (a contact that is not the account's own is removed in the next step
  or stuck; its own is lost only after `get_entity` missed it).
  `ErrorsHaveTheirEffectHolds` rests on `Told`: until it ends, a campaign's call has
  heard only what `get_entity` or `DeleteContacts` dropped; when it has ended, its code
  names the one exception that was not dropped (or `flood_wait` stands for it), and
  is `session_unauthorized` if `is_user_authorized` dropped one. `AttemptsSpacedHolds`
  rests on `SpacedInv` (a message that is to be tried again is not due before the
  beginning of its last tick plus the wait; a tick has it in its batch only when it
  was due at that tick's beginning; no tick and no call is of the future), on lemmas about
  jitter and backoff, and on `QuietIsWindow`: the two comparisons of the code and the
  clock's window agree, over midnight too. That is arithmetic modulo a day of any length.
* Session files. `SessionsKeptHolds` and `NoStrayFilesHolds`. `StoreInv` says what an
  open import is good for (`Standing`): its rows point to files it wrote or to where
  they pointed before, each file it wrote belongs to one of its rows or was replaced
  by it, the ids it inserts nobody else has, and where the rows it read pointed is
  still a row's path or known as a stray. Without the last, a commit could not be
  shown to leave nothing behind: another import may have moved the row in the
  meantime. A validation changes no path (`Watching`).
* Text of a message. `EntitiesCoverValuesHolds`: for every body and name made of
  pieces, what is passed to Telegram has one entity per tag, and entity *k* cuts the
  units of the *k*-th tag's own text out of the whole. `Covers` is the loop's invariant:
  the offset so far is the length of the text in units, and each tag so far has its
  entity. A later turn keeps it because a longer text begins with the same units
  (`UnitsConcat`, `SpanStays`).
* Customers. `EvenSharesHold`, `AssignedWithinCapHolds`, `OnlyTheAskedHolds`.
  `DealtFairly` is the invariant of the deal: the list of accounts has been gone
  through some number of times, those before the cursor once more, and who has got
  fewer than that was full (`InTurn`); nobody dealt to is beyond the limit. The shares
  follow: no account is two turns behind. `BookInv` carries it to the commit. A
  request knows the book but for its own inserts and what others changed since
  (`Reading`, from which the limit's allowance for `late`); no two requests hold the
  same customer; a flushed one has dealt as it should (`Settled`).

The last two are about loops over data. Their operators are recursive functions, and a
theorem on each comes in two parts: that the function exists (`Loop`, `LoopExists`) and that an
invariant holds after each turn. Both are inductions, done over the set of turns, or
of subsets of customers, at which the claim fails: were it not empty, it would have a
least element (`LeastNat`, `LeastSubset`, from the library's theorems on well-founded
relations that take sets and not operators), and the turn before that one contradicts it.

The attempt to prove `StreamComplete` refuted an earlier statement of it, which the run's
one edit could not: see section 4, reply stream.

Every safety property of the passing runs is stated by a theorem. Only model-checked is
liveness under fairness, out of the prover's reach: `CampaignsFinish`, `DispatchedEnds`,
`LockoutNoticed`, `DroppedGoesSilent`, `WantedIsHeard`, `OrphansDrain`, `GoneIsClosed`,
`ConnectedInTheEnd`.

## 4. Where code and expectation part

One disagreement has a run of its own, refuted by TLC: `v_double_send`.
Overlapping ticks send a message twice without any fault. The commit before the
release (send_tasks.py:322-327) does not help a tick whose snapshot is older.

The others were met while modelling. The properties that run state the exception
they make, or their instance leaves the cause out.

* *Port quota.* Two activations of one merchant both pass. `FOR UPDATE` makes the
  second wait and read the latest merchant row (port_quota.py:70-72 promises no
  more is needed), but the count after it (line 100) is a plain select from the
  older snapshot. `AdmittedWithinTotal` is about activations nothing overtook. The
  recount means to "Set `ports_used` to the live active-account count"
  (port_quota.py:49), and the session compares that count with the snapshot's
  `ports_used`: if they are equal nothing is written, although a reset or another
  batch has changed the row since, and the wrong value stays.
* *Reply stream.* A page whose token is refused asks again for ever: ws.py:58, 78
  and 83 close with 1008 before accepting, which the browser sees as 1006, so the
  branch for 1008 (Replies.vue:884-888) is never taken. A stream reads its user's
  rights once, and keeps them when they are taken away. It reads them in two
  transactions (ws.py:24-47 and 92-99): if in between an agent is moved from one
  group to another and an account of both is then taken out of the first, the old
  groups meet the new members and the account's replies are missing until the page
  connects again, although the agent had a right to them all the time; `Must` says
  which accounts are sure. Merchants and business agents may connect but see no
  account.
* *Requeue under a tick.* `requeue_failed` and a tick each write a `failed_count`
  computed from an earlier read, so the count can end too low or too high; and a
  request that reads a running campaign and writes after the sweep closed it leaves its
  messages queued under a closed campaign, although it means to "flip it back to running"
  (campaigns.py:534-538). `CountersExact` and `TerminalHasNoPending` say so.
* *Overlapping ticks.* With two workers, `WithinDailyLimit` and
  `NoSendFromKilled` fail like `AtMostOnce`. A tick that is sending at midnight
  commits yesterday's `sent_today` plus one over the reset. A tick writes
  `running` or `completed` over an operator's `cancelled`.
* *Paused campaigns.* The select at the head of a tick does not look at the
  campaign: as many due rows of paused campaigns as the batch size starve all others.
* *Operation campaigns.* Resume dispatches nothing, and nothing else closes them.
* *Validation.* A row under its made-up id whose real id another row has fails
  the commit of all verdicts, each time again; `LockoutNoticed` leaves that case out.
  An account that is disabled is not validated by beat at all (account_tasks.py:52):
  its lockout shows only when somebody asks for it.
* *Import.* A failed commit unlinks every file it wrote, also over the file of an
  account committed earlier; `SessionsKept` names the cause (`undone`).
* *Listener.* A cancellation on `await heartbeat_task` is swallowed
  (adapter.py:784-789): a forgotten task goes on. A new proxy binding reaches a
  listener only at its next connection. Replies that come between one client's close
  and the next one's connection (30 seconds after a refusal, the minute of the
  supervisor, a restart) are never stored: the client is built without `catch_up`
  (adapter.py:224-231), and the heartbeat that "pulls missed updates"
  (adapter.py:758-764) only knows those of its own client. A client whose pushes were
  taken before it was given its first update may stay silent in spite of the
  heartbeat. `WantedIsHeard` names all three.
* *Adapter.* `FloodWaitError` while a contact is imported carries the class name
  and not `flood_wait`, and one on the last attempt does not rest the account.
  `modify_password` returns the class name where its docstring says
  `password_invalid`. A contact of the account's own that `get_entity` missed is
  deleted with the temporary one. An account that Telegram has closed is to be
  disabled "immediately" (send_tasks.py:273-284), but `is_user_authorized`, which runs
  first, answers Telegram's errors with False: the code is `session_unauthorized`, the
  account stays enabled, and its status becomes `error` with each message's last
  attempt only. What Telegram answers to `get_entity` for a phone or to
  `DeleteContacts` (adapter.py:342-345, 370-373), a flood included, has no effect.
* *Ticks.* A tick takes the time once (send_tasks.py:111) and uses it for every message
  of its batch: one that began before the quiet hours goes on sending inside them,
  and intervals and backoff count from the tick's beginning, so that two attempts may
  be closer than the interval by as long as the first tick had been running.
* *Assignment.* A limit per account is exceeded by overlapping requests. An empty
  list of groups means every account, also for a caller who has no groups.
* *Bootstrap.* Looks for an administrator, then inserts one (auth.py:79).
* *Unmatched messages.* The listener takes every failure of its flush for a "Concurrent
  insert" (listen_worker.py:77-80): after a deadlock or a lost connection the second
  lookup may find nobody, and the message is stored without a customer. The rescan
  that "drains the orphan bucket" (orphan_threads.py:34) leaves two kinds there
  for ever: without a `tg_user_id`, and of a deleted account whose sender has no
  placeholder customer (82-83, accounts.py:583-585). One sender with unmatched messages on two accounts makes
  two pairs with the same placeholder: the second insert fails on the first, the
  rollback drops both, and every later rescan repeats it. `OrphansDrain` holds for
  senders that write to one account; to see the other case, give one sender's messages
  different accounts in `MCReplyIntake`.

## 5. Plan

Next, in this order:

1. `SendQuota`: the hourly cache, the group's count, chat sends beside ticks, with
   the `CanHold` of `SendDispatch` replaced by the real conditions.
2. The rest of the reply path in `ReplyIntake`: the reply columns and counters of
   the outbound row beside a tick, and the phone as two formats (the listener's
   number carries no `+`, the importer's rows do).
3. `Access`: tenant scope and roles, as predicates shared by the endpoints.

Theorems worth proving next: that the scan of `SendDispatch` leaves no due message of
its batch unvisited, and the invariants that the liveness properties rest on (a
listener that is wanted is held or about to be).

## 6. Not modelled

`PROJECT.json` gives each part's reason. Reports, exports and lists only read.
Plain CRUD endpoints write one row in one transaction. Session conversion, health,
translation and the proxy checker are calls to outside services; their results
are inputs here. Roles and tenants are predicates over one request's rows; what the
reply stream loads of them is in `ReplyStream`. Of the frontend, only the page of
replies holds a protocol of its own.
