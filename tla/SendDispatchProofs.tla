------------------------- MODULE SendDispatchProofs -------------------------
(***************************************************************************)
(* First, what the send queue keeps however its ticks overlap, abort and   *)
(* crash: types; the per-account Redis lock, which no tick takes from      *)
(* another; and what a committed status means.                             *)
(*                                                                         *)
(* Then, what it keeps as long as its ticks do not overlap: every delivery *)
(* is on record or paid for by a crash, the counters of a campaign are     *)
(* exact, the daily limit and the kill switch hold, and the sweep closes   *)
(* no campaign with work left.  Overlapping ticks break the first of       *)
(* these, which is what run v_double_send shows.                           *)
(***************************************************************************)
EXTENDS SendDispatch, FiniteSetTheorems, TLAPS

-----------------------------------------------------------------------------
(* Types                                                                   *)

LEMMA MergeType ==
    ASSUME NEW base \in Tables, NEW own \in Tables, NEW dirty
    PROVE  Merge(base, own, dirty) \in Tables
BY DEF Merge, Tables, MessageRecord, CampaignRow, AccountRow

LEMMA InitTablesType == InitTables \in Tables
BY ConstantsAssumption
   DEF InitTables, Tables, MessageRecord, CampaignRow, AccountRow, Pending, Terminal

LEMMA WriteType ==
    ASSUME db \in Tables, NEW t \in Tick, NEW new \in Tables
    PROVE  Write(t, new) \in Tick
<1>1. Changed(View(t), new) \subseteq Row \X Column
  BY DEF Changed, Row, Column
<1>2. QED
  BY <1>1 DEF Write, Tick

LEMMA PutType ==
    ASSUME NEW v \in Tables
    PROVE  /\ \A m \in Message, row \in MessageRecord : PutMsg(v, m, row) \in Tables
           /\ \A c \in Campaign, row \in CampaignRow : PutCamp(v, c, row) \in Tables
           /\ \A a \in Account, row \in AccountRow : PutAcct(v, a, row) \in Tables
BY DEF PutMsg, PutCamp, PutAcct, Tables

LEMMA RowType ==
    ASSUME NEW v \in Tables
    PROVE  /\ \A m \in Message : v.msg[m] \in MessageRecord /\ CampaignOf[m] \in Campaign
           /\ \A c \in Campaign : v.camp[c] \in CampaignRow
           /\ \A a \in Account : v.acct[a] \in AccountRow
           /\ \A m \in Message : v.msg[m].account \in Account
BY ConstantsAssumption DEF Tables, MessageRecord

LEMMA StepType ==
    ASSUME NEW v \in Tables, NEW m \in Message, NEW c \in Campaign, NEW a \in Account
    PROVE  /\ Promoted(v, c) \in Tables
           /\ Rerouted(v, m, a) \in Tables
           /\ Postponed(v, m) \in Tables
           /\ CountFailed(v, c) \in Tables
           /\ MarkedSending(v, m) \in Tables
           /\ CountSent(v, c, a) \in Tables
<1>1. Promoted(v, c) \in Tables
  <2>1. [v.camp[c] EXCEPT !.status = "running"] \in CampaignRow
    BY RowType DEF CampaignRow
  <2>2. QED
    BY <2>1, PutType DEF Promoted
<1>2. Rerouted(v, m, a) \in Tables
  <2>1. [v.msg[m] EXCEPT !.account = a, !.err = "none"] \in MessageRecord
    BY RowType DEF MessageRecord
  <2>2. QED
    BY <2>1, PutType DEF Rerouted
<1>3. Postponed(v, m) \in Tables
  <2>1. [v.msg[m] EXCEPT !.due = FALSE] \in MessageRecord
    BY RowType DEF MessageRecord
  <2>2. QED
    BY <2>1, PutType DEF Postponed
<1>4. CountFailed(v, c) \in Tables
  <2>1. [v.camp[c] EXCEPT !.failed = @ + 1] \in CampaignRow
    BY RowType DEF CampaignRow
  <2>2. QED
    BY <2>1, PutType DEF CountFailed
<1>5. MarkedSending(v, m) \in Tables
  <2>1. v.msg[m] \in MessageRecord /\ v.msg[m].attempts + 1 \in Nat
    BY RowType DEF MessageRecord
  <2>2. [v.msg[m] EXCEPT !.status = "sending", !.attempts = @ + 1] \in MessageRecord
    BY <2>1 DEF MessageRecord
  <2>3. QED
    BY <2>2, PutType DEF MarkedSending
<1>6. CountSent(v, c, a) \in Tables
  <2>1. [v.camp[c] EXCEPT !.sent = @ + 1] \in CampaignRow
    BY RowType DEF CampaignRow
  <2>2. [v.acct[a] EXCEPT !.sentToday = @ + 1] \in AccountRow
    BY RowType DEF AccountRow
  <2>3. QED
    BY <2>1, <2>2, PutType DEF CountSent
<1>7. QED
  BY <1>1, <1>2, <1>3, <1>4, <1>5, <1>6

LEMMA ResultType ==
    ASSUME NEW v \in Tables, NEW m \in Message
    PROVE  /\ \A s \in Dead : GivenUp(v, m, s) \in Tables
           /\ Sent(v, m) \in Tables
           /\ \A o : NotSent(v, m, o) \in Tables
<1>1. ASSUME NEW s \in Dead PROVE GivenUp(v, m, s) \in Tables
  <2>1. [v.msg[m] EXCEPT !.status = s, !.err = "recoverable"] \in MessageRecord
    BY RowType DEF MessageRecord
  <2>2. QED
    BY <2>1, PutType, RowType, StepType DEF GivenUp
<1>2. Sent(v, m) \in Tables
  <2> DEFINE row == [v.msg[m] EXCEPT !.status = "sent", !.err = "none", !.due = FALSE]
  <2>1. row \in MessageRecord
    BY RowType DEF MessageRecord
  <2>2. PutMsg(v, m, row) \in Tables
    BY <2>1, PutType
  <2>3. QED
    BY <2>2, RowType, StepType DEF Sent
<1>3. ASSUME NEW o PROVE NotSent(v, m, o) \in Tables
  <2> DEFINE a     == v.msg[m].account
             fatal == Hopeless(v, m, o)
             row   == [v.msg[m] EXCEPT
                         !.status = IF fatal THEN "failed_permanent" ELSE "retry",
                         !.err = IF o = "flood_wait" THEN "recoverable" ELSE "fatal",
                         !.due = FALSE]
             told  == PutMsg(v, m, row)
  <2>1. row \in MessageRecord
    BY RowType DEF MessageRecord, Pending, Dead
  <2>2. told \in Tables
    BY <2>1, PutType
  <2>3. Punished(v.acct[a], o, fatal) \in AccountRow
    BY RowType DEF Punished, AccountRow
  <2>4. (IF fatal THEN CountFailed(told, CampaignOf[m]) ELSE told) \in Tables
    BY <2>2, RowType, StepType
  <2>5. QED
    BY <2>3, <2>4, RowType, PutType DEF NotSent
<1>4. QED
  BY <1>1, <1>2, <1>3

LEMMA TickType ==
    ASSUME db \in Tables, NEW t \in Tick
    PROVE  /\ View(t) \in Tables
           /\ Flush(t) \in Tick
           /\ \A m \in Message : Pass(t, m) \in Tick
           /\ Closed(t) \in Tick
           /\ Idle \in Tick
<1>1. View(t) \in Tables
  BY DEF View, Tick
<1>2. Flush(t) \in Tick
  <2>1. Touched(t) \subseteq Row
    BY DEF Touched, Tick
  <2>2. QED
    BY <2>1 DEF Flush, Tick
<1>3. \A m \in Message : Pass(t, m) \in Tick
  BY DEF Pass, Tick
<1>4. Closed(t) \in Tick
  BY InitTablesType DEF Closed, Tick
<1>5. Idle \in Tick
  BY InitTablesType DEF Idle, Tick
<1>6. QED
  BY <1>1, <1>2, <1>3, <1>4, <1>5

LEMMA SweepType ==
    ASSUME NEW t \in Tick
    PROVE  SweptTables(t) \in Tables
<1>1. \A c \in Campaign : Finished(t.view.camp[c]) \in CampaignRow
  <2>1. \A c \in Campaign : t.view.camp[c] \in CampaignRow
    BY DEF Tick, Tables
  <2>2. \A c \in Campaign : FinalStatus(t.view.camp[c]) \in Terminal
    BY DEF FinalStatus, Terminal
  <2>3. QED
    BY <2>1, <2>2 DEF Finished, CampaignRow
<1>2. QED
  BY <1>1 DEF SweptTables, Tick, Tables

\* The variables an action of a tick leaves alone keep their types.
LEMMA TickStepType ==
    ASSUME TypeOK, NEW w \in Worker, NEW t \in Tick,
           tick' = [tick EXCEPT ![w] = t],
           UNCHANGED <<db, req, delivered, sentDay, faults, ops>>,
           lock' \in [Account -> Worker \cup {NoWorker}], ticks' \in Nat
    PROVE  TypeOK'
BY DEF TypeOK

LEMMA LeaveType ==
    ASSUME TypeOK, NEW w \in Worker, NEW t \in Tick, NEW m \in Message,
           NEW new \in Tables, Leave(w, t, m, new)
    PROVE  TypeOK'
<1>1. db \in Tables
  BY DEF TypeOK
<1>2. Pass(Write(t, new), m) \in Tick
  BY <1>1, WriteType, TickType
<1>3. QED
  BY <1>2, TickStepType DEF Leave, TypeOK

LEMMA ReleasedType ==
    ASSUME TypeOK, NEW w
    PROVE  Released(w) \in [Account -> Worker \cup {NoWorker}]
BY DEF Released, TypeOK

LEMMA StartType ==
    ASSUME TypeOK, NEW w \in Worker, StartTick(w)
    PROVE  TypeOK'
<1>0. db \in Tables /\ tick[w] \in Tick
  BY DEF TypeOK
<1> DEFINE ready == {n \in Message : Due(n)}
           batch == {n \in ready : Cardinality({k \in ready : k < n}) < BatchSize}
           t == [Idle EXCEPT !.pc = "scan", !.open = TRUE, !.view = db, !.batch = batch]
<1>1. batch \in SUBSET Message
  OBVIOUS
<1>2. t \in Tick
  <2> HIDE DEF batch
  <2> QED
    BY <1>0, <1>1, TickType DEF Idle, Tick
<1>3. tick' = [tick EXCEPT ![w] = t]
  BY DEF StartTick
<1>4. ticks' \in Nat /\ lock' \in [Account -> Worker \cup {NoWorker}]
  BY DEF StartTick, TypeOK
<1>5. UNCHANGED <<db, req, delivered, sentDay, faults, ops>>
  BY DEF StartTick
<1> HIDE DEF t
<1>6. QED
  BY <1>2, <1>3, <1>4, <1>5, TickStepType

\* The steps of the loop body that leave the message without a send.
LEMMA ScanType ==
    ASSUME TypeOK, NEW w \in Worker, NEW m \in Message,
           \/ SkipCampaign(w, m) \/ Promote(w, m)
           \/ AccountGone(w, m) \/ Postpone(w, m) \/ FailNoTarget(w, m)
           \/ LockBusy(w, m)
    PROVE  TypeOK'
<1> DEFINE v == View(tick[w])
<1>1. db \in Tables /\ tick[w] \in Tick
  BY DEF TypeOK
<1>2. v \in Tables
  BY <1>1, TickType
<1>3. CampaignOf[m] \in Campaign
  BY ConstantsAssumption
<1>5. CASE SkipCampaign(w, m)
  BY <1>1, <1>2, <1>5, LeaveType DEF SkipCampaign
<1>6. CASE Promote(w, m)
  <2>1. Write(tick[w], Promoted(v, CampaignOf[m])) \in Tick
    BY <1>1, <1>2, <1>3, StepType, WriteType, ConstantsAssumption
  <2>2. QED
    BY <1>6, <2>1, TickStepType DEF Promote, TypeOK
<1>7. CASE AccountGone(w, m)
  <2> DEFINE t == Write(tick[w], v)
             f == Flush(t)
  <2>1. t \in Tick
    BY <1>1, <1>2, WriteType
  <2>2. f \in Tick
    BY <1>1, <2>1, TickType
  <2>3. t.view = v
    BY <1>1 DEF Write, Tick
  <2>4. ASSUME NEW a \in Alternates(f, m), Leave(w, f, m, Rerouted(v, m, a))
        PROVE  TypeOK'
    <3>1. a \in Account
      BY <1>3, ConstantsAssumption DEF Alternates
    <3>2. Rerouted(v, m, a) \in Tables
      BY <1>2, <1>3, <3>1, StepType
    <3> HIDE DEF f, v
    <3>3. QED
      BY <2>2, <2>4, <3>2, LeaveType
  <2>5. ASSUME Leave(w, f, m, GivenUp(v, m, "failed"))
        PROVE  TypeOK'
    <3>1. GivenUp(v, m, "failed") \in Tables
      BY <1>2, ResultType DEF Dead
    <3> HIDE DEF f, v
    <3>2. QED
      BY <2>2, <2>5, <3>1, LeaveType
  <2>6. QED
    BY <1>7, <2>3, <2>4, <2>5 DEF AccountGone
<1>8. CASE Postpone(w, m) \/ LockBusy(w, m)
  <2>1. Postponed(v, m) \in Tables
    BY <1>2, <1>3, StepType, RowType
  <2>2. Leave(w, tick[w], m, Postponed(v, m))
    BY <1>8 DEF Postpone, LockBusy
  <2>3. QED
    BY <1>1, <2>1, <2>2, LeaveType
<1>9. CASE FailNoTarget(w, m)
  <2>1. GivenUp(v, m, "failed_permanent") \in Tables
    BY <1>2, ResultType DEF Dead
  <2>2. QED
    BY <1>1, <1>9, <2>1, LeaveType DEF FailNoTarget
<1>10. QED
  BY <1>5, <1>6, <1>7, <1>8, <1>9

\* From the lock to the release.
LEMMA TelegramType ==
    ASSUME TypeOK, NEW w \in Worker, NEW m \in Message, NEW new \in Tables,
           NEW reached \in BOOLEAN, Telegram(w, m, new, reached), faults' \in Nat
    PROVE  TypeOK'
<1>1. Write(tick[w], new) \in Tick
  BY WriteType DEF TypeOK
<1>2. [Write(tick[w], new) EXCEPT !.pc = "commit"] \in Tick
  BY <1>1 DEF Tick
<1>3. tick' \in [Worker -> Tick]
  BY <1>2 DEF Telegram, TypeOK
<1>4. delivered' \in [Message -> Nat] /\ sentDay' \in [Account -> Nat]
  <2>1. \A k \in Message : delivered[k] \in Nat /\ delivered[k] + 1 \in Nat
    BY DEF TypeOK
  <2>2. \A b \in Account : sentDay[b] \in Nat /\ sentDay[b] + 1 \in Nat
    BY DEF TypeOK
  <2>3. delivered' \in [Message -> Nat]
    BY <2>1 DEF Telegram, TypeOK
  <2>4. sentDay' \in [Account -> Nat]
    BY <2>2 DEF Telegram, TypeOK
  <2>5. QED
    BY <2>3, <2>4
<1>5. UNCHANGED <<db, lock, req, ops, ticks>>
  BY DEF Telegram
<1>6. QED
  BY <1>3, <1>4, <1>5 DEF TypeOK

LEMMA SendType ==
    ASSUME TypeOK, NEW w \in Worker, NEW m \in Message,
           \/ AcquireLock(w, m) \/ SendOk(w, m) \/ SendError(w, m)
           \/ ReplyLost(w, m) \/ Commit(w, m)
    PROVE  TypeOK'
<1> DEFINE v == View(tick[w])
<1>1. db \in Tables /\ tick[w] \in Tick /\ tick[w].view \in Tables
  BY DEF TypeOK, Tick
<1>2. v \in Tables
  BY <1>1, TickType
<1>3. CampaignOf[m] \in Campaign
  BY ConstantsAssumption
<1>4. CASE AcquireLock(w, m)
  <2> DEFINE a == v.msg[m].account
             t == [Write(tick[w], MarkedSending(v, m)) EXCEPT !.pc = "locked", !.held = a]
  <2>1. a \in Account
    BY <1>2, RowType
  <2>2. MarkedSending(v, m) \in Tables
    BY <1>2, <1>3, <2>1, StepType
  <2>3. Write(tick[w], MarkedSending(v, m)) \in Tick
    BY <1>1, <2>2, WriteType
  <2>4. t \in Tick
    BY <2>1, <2>3 DEF Tick
  <2>5. /\ tick' = [tick EXCEPT ![w] = t]
        /\ lock' = [lock EXCEPT ![a] = w]
        /\ UNCHANGED <<db, req, delivered, sentDay, faults, ops, ticks>>
    BY <1>4 DEF AcquireLock
  <2>6. lock' \in [Account -> Worker \cup {NoWorker}] /\ ticks' \in Nat
    BY <2>5 DEF TypeOK
  <2> HIDE DEF t, a
  <2>7. QED
    BY <2>4, <2>5, <2>6, TickStepType
<1>6. CASE SendOk(w, m)
  BY <1>1, <1>6, ResultType, TelegramType DEF SendOk, TypeOK
<1>7. CASE SendError(w, m)
  <2>1. PICK o \in Outcome : Telegram(w, m, NotSent(tick[w].view, m, o), FALSE)
    BY <1>7 DEF SendError
  <2>2. NotSent(tick[w].view, m, o) \in Tables
    BY <1>1, ResultType
  <2>3. faults' \in Nat
    BY <1>7 DEF SendError, TypeOK
  <2>4. QED
    BY <2>1, <2>2, <2>3, TelegramType
<1>8. CASE ReplyLost(w, m)
  <2>1. NotSent(tick[w].view, m, "transient") \in Tables
    BY <1>1, ResultType
  <2>2. faults' \in Nat
    BY <1>8 DEF ReplyLost, TypeOK
  <2>3. QED
    BY <1>8, <2>1, <2>2, TelegramType DEF ReplyLost
<1>9. CASE Commit(w, m)
  <2>1. Pass(tick[w], m) \in Tick
    BY <1>1, TickType
  <2>2. Closed(Pass(tick[w], m)) \in Tick
    BY <1>1, <2>1, TickType
  <2>3. [Closed(Pass(tick[w], m)) EXCEPT !.pc = "release"] \in Tick
    BY <2>2 DEF Tick
  <2>4. db' \in Tables
    BY <1>1, <1>9, MergeType DEF Commit
  <2>5. tick' \in [Worker -> Tick]
    BY <1>9, <2>3 DEF Commit, TypeOK
  <2>6. UNCHANGED <<lock, req, delivered, sentDay, faults, ops, ticks>>
    BY <1>9 DEF Commit
  <2>7. QED
    BY <2>4, <2>5, <2>6 DEF TypeOK
<1>10. QED
  BY <1>4, <1>6, <1>7, <1>8, <1>9

LEMMA HoldType ==
    ASSUME TypeOK, NEW w \in Worker, FlushSending(w) \/ Release(w)
    PROVE  TypeOK'
<1>1. db \in Tables /\ tick[w] \in Tick
  BY DEF TypeOK
<1>2. CASE FlushSending(w)
  <2>1. Flush(tick[w]) \in Tick
    BY <1>1, TickType
  <2>2. [Flush(tick[w]) EXCEPT !.pc = "send"] \in Tick
    BY <2>1 DEF Tick
  <2>3. QED
    BY <1>2, <2>2, TickStepType DEF FlushSending, TypeOK
<1>3. CASE Release(w)
  <2> DEFINE t == [[tick[w] EXCEPT !.pc = "scan"] EXCEPT !.held = NoAccount]
  <2>a. t \in Tick
    BY <1>1 DEF Tick
  <2>b. tick' = [tick EXCEPT ![w] = t]
    BY <1>3 DEF Release, TypeOK
  <2>1. tick' \in [Worker -> Tick]
    <3> HIDE DEF t
    <3> QED
      BY <2>a, <2>b DEF TypeOK
  <2>2. lock' \in [Account -> Worker \cup {NoWorker}]
    BY <1>3, ReleasedType DEF Release
  <2>3. QED
    BY <1>3, <2>1, <2>2 DEF Release, TypeOK
<1>4. QED
  BY <1>2, <1>3

\* The end of a tick, however it comes.
LEMMA EndType ==
    ASSUME TypeOK, NEW w \in Worker,
           Sweep(w) \/ FinalCommit(w) \/ Abort(w) \/ Crash(w)
    PROVE  TypeOK'
<1>1. db \in Tables /\ tick[w] \in Tick /\ tick[w].view \in Tables
  BY DEF TypeOK, Tick
<1>2. Idle \in Tick
  BY <1>1, TickType
<1>3. CASE Sweep(w)
  <2> DEFINE t == Flush(Write(tick[w], View(tick[w])))
             u == Write(t, SweptTables(t))
  <2>1. Write(tick[w], View(tick[w])) \in Tick
    BY <1>1, TickType, WriteType
  <2>2. t \in Tick
    BY <1>1, <2>1, TickType
  <2>3. u \in Tick
    BY <1>1, <2>2, SweepType, WriteType
  <2>4. [u EXCEPT !.pc = "finish"] \in Tick
    BY <2>3 DEF Tick
  <2>5. tick' = [tick EXCEPT ![w] = [u EXCEPT !.pc = "finish"]]
    BY <1>3 DEF Sweep
  <2>6. UNCHANGED <<db, lock, req, delivered, sentDay, faults, ops, ticks>>
    BY <1>3 DEF Sweep
  <2> HIDE DEF u
  <2>7. QED
    BY <2>4, <2>5, <2>6, TickStepType DEF TypeOK
<1>4. CASE FinalCommit(w)
  <2>1. db' \in Tables
    BY <1>1, <1>4, MergeType DEF FinalCommit
  <2>2. tick' \in [Worker -> Tick]
    BY <1>2, <1>4 DEF FinalCommit, TypeOK
  <2>3. QED
    BY <1>4, <2>1, <2>2 DEF FinalCommit, TypeOK
<1>5. CASE Abort(w)
  <2>1. lock' \in [Account -> Worker \cup {NoWorker}]
    BY <1>5, ReleasedType DEF Abort
  <2>2. QED
    BY <1>2, <1>5, <2>1, TickStepType DEF Abort, TypeOK
<1>6. CASE Crash(w)
  <2>1. tick' \in [Worker -> Tick] /\ faults' \in Nat
    BY <1>2, <1>6 DEF Crash, TypeOK
  <2>2. QED
    BY <1>6, <2>1 DEF Crash, TypeOK
<1>7. QED
  BY <1>3, <1>4, <1>5, <1>6

LEMMA EnvironmentType ==
    ASSUME TypeOK, Environment
    PROVE  TypeOK'
<1>1. CASE \E a \in Account : LockExpires(a)
  BY <1>1 DEF LockExpires, TypeOK
<1>2. ASSUME NEW m \in Message, BecomesDue(m)
      PROVE  TypeOK'
  <2>1. [db.msg[m] EXCEPT !.due = TRUE] \in MessageRecord
    BY RowType DEF TypeOK, MessageRecord
  <2>2. db' \in Tables
    BY <1>2, <2>1, PutType DEF BecomesDue, TypeOK
  <2>3. QED
    BY <1>2, <2>2 DEF BecomesDue, TypeOK
<1>3. CASE ResetDailyQuota
  <2>1. \A a \in Account : [db.acct[a] EXCEPT !.sentToday = 0] \in AccountRow
    BY RowType DEF TypeOK, AccountRow
  <2>2. db' \in Tables
    BY <1>3, <2>1 DEF ResetDailyQuota, TypeOK, Tables
  <2>3. sentDay' \in [Account -> Nat]
    BY <1>3 DEF ResetDailyQuota
  <2>4. QED
    BY <1>3, <2>2, <2>3 DEF ResetDailyQuota, TypeOK
<1>4. QED
  BY <1>1, <1>2, <1>3 DEF Environment

LEMMA SetCampaignType ==
    ASSUME TypeOK, NEW c \in Campaign, NEW kind,
           NEW s \in {"running", "paused", "cancelled"}, SetCampaign(c, kind, s)
    PROVE  TypeOK'
<1>1. [db.camp[c] EXCEPT !.status = s] \in CampaignRow
  BY RowType DEF TypeOK, CampaignRow
<1>2. db' \in Tables
  BY <1>1, PutType DEF SetCampaign, TypeOK
<1>3. ops' \in Nat
  BY DEF SetCampaign, Operation, TypeOK
<1>4. QED
  BY <1>2, <1>3 DEF SetCampaign, TypeOK

LEMMA RequeueType ==
    ASSUME TypeOK, RequeueWrite \/ \E c \in Campaign : RequeueRead(c)
    PROVE  TypeOK'
<1>1. ASSUME NEW c \in Campaign, RequeueRead(c)
      PROVE  TypeOK'
  <2>1. db.camp[c] \in CampaignRow
    BY RowType DEF TypeOK
  <2>2. req' \in [camp: Campaign, lost: SUBSET Message, row: CampaignRow]
    BY <1>1, <2>1 DEF RequeueRead
  <2>3. ops' \in Nat
    BY <1>1 DEF RequeueRead, Operation, TypeOK
  <2>4. QED
    BY <1>1, <2>2, <2>3 DEF RequeueRead, TypeOK
<1>2. CASE RequeueWrite
  <2> DEFINE n   == Cardinality(req.lost)
             low == IF req.row.failed > n THEN req.row.failed - n ELSE 0
             row == [db.camp[req.camp] EXCEPT
                       !.failed = IF low = req.row.failed THEN @ ELSE low,
                       !.status = IF req.row.status \in Terminal THEN "running" ELSE @]
             mid == [db EXCEPT !.msg = [m \in Message |->
                       IF m \in req.lost THEN Requeued(@[m]) ELSE @[m]]]
  <2>1. req \in [camp: Campaign, lost: SUBSET Message, row: CampaignRow]
    BY <1>2 DEF RequeueWrite, TypeOK
  <2>2. n \in Nat /\ low \in Nat
    <3>1. IsFiniteSet(req.lost)
      BY <2>1, ConstantsAssumption, FS_Subset
    <3>2. n \in Nat /\ req.row.failed \in Nat
      BY <2>1, <3>1, FS_CardinalityType DEF CampaignRow
    <3> HIDE DEF n
    <3>3. QED
      BY <3>2
  <2>3. mid \in Tables
    <3>1. \A m \in Message : Requeued(db.msg[m]) \in MessageRecord
      BY RowType DEF TypeOK, Requeued, MessageRecord, Pending
    <3>2. QED
      BY <3>1 DEF TypeOK, Tables
  <2>4. row \in CampaignRow
    <3>1. db.camp[req.camp] \in CampaignRow
      BY <2>1, RowType DEF TypeOK
    <3> HIDE DEF low
    <3>2. QED
      BY <2>2, <3>1 DEF CampaignRow
  <2>5. PutCamp(mid, req.camp, row) \in Tables
    <3> HIDE DEF mid, row
    <3> QED
      BY <2>1, <2>3, <2>4, PutType
  <2>6. db' \in Tables
    BY <1>2, <2>5 DEF RequeueWrite
  <2>7. QED
    BY <1>2, <2>6 DEF RequeueWrite, TypeOK
<1>3. QED
  BY <1>1, <1>2

LEMMA AccountEditType ==
    ASSUME TypeOK, NEW a \in Account, EnableAccount(a) \/ ValidateAccount(a)
    PROVE  TypeOK'
<1>1. \A e \in BOOLEAN : [db.acct[a] EXCEPT !.enabled = e] \in AccountRow
  BY RowType DEF TypeOK, AccountRow
<1>2. \A s \in {"active", "error"} : [db.acct[a] EXCEPT !.status = s] \in AccountRow
  BY RowType DEF TypeOK, AccountRow
<1>3. db' \in Tables
  BY <1>1, <1>2, PutType DEF EnableAccount, ValidateAccount, TypeOK
<1>4. ops' \in Nat /\ UNCHANGED <<lock, tick, req, delivered, sentDay, faults, ticks>>
  BY DEF EnableAccount, ValidateAccount, Operation, TypeOK
<1>5. QED
  BY <1>3, <1>4 DEF TypeOK

LEMMA TypeInit == Init => TypeOK
<1> SUFFICES ASSUME Init PROVE TypeOK
  OBVIOUS
<1>1. InitTables \in Tables
  BY InitTablesType
<1>2. Idle \in Tick
  BY <1>1 DEF Idle, Tick
<1>3. QED
  BY <1>1, <1>2 DEF Init, TypeOK

LEMMA TypeStep == TypeOK /\ [Next]_vars => TypeOK'
<1> SUFFICES ASSUME TypeOK, [Next]_vars PROVE TypeOK'
  OBVIOUS
<1>1. ASSUME NEW w \in Worker, StartTick(w) \/ Run(w) \/ Crash(w)
                               \/ \E m \in Message : ReplyLost(w, m)
      PROVE  TypeOK'
  <2>1. CASE StartTick(w) \/ \E m \in Message :
               \/ SkipCampaign(w, m) \/ Promote(w, m) \/ AccountGone(w, m)
               \/ Postpone(w, m) \/ FailNoTarget(w, m) \/ LockBusy(w, m)
    BY <2>1, StartType, ScanType
  <2>2. CASE \/ FlushSending(w) \/ Release(w)
             \/ \E m \in Message : \/ AcquireLock(w, m) \/ SendOk(w, m)
                                   \/ SendError(w, m) \/ ReplyLost(w, m)
                                   \/ Commit(w, m)
    BY <2>2, SendType, HoldType
  <2>3. CASE Sweep(w) \/ FinalCommit(w) \/ Abort(w) \/ Crash(w)
    BY <2>3, EndType
  <2>4. QED
    BY <1>1, <2>1, <2>2, <2>3 DEF Run
<1>2. CASE Environment
  BY <1>2, EnvironmentType
<1>3. CASE Outside
  <2>1. CASE \E c \in Campaign : StartCampaign(c) \/ PauseCampaign(c) \/ CancelCampaign(c)
    BY <2>1, SetCampaignType DEF StartCampaign, PauseCampaign, CancelCampaign
  <2>2. CASE RequeueWrite \/ \E c \in Campaign : RequeueRead(c)
    BY <2>2, RequeueType
  <2>3. CASE \E a \in Account : EnableAccount(a) \/ ValidateAccount(a)
    BY <2>3, AccountEditType
  <2>4. QED
    BY <1>3, <2>1, <2>2, <2>3 DEF Outside
<1>4. CASE UNCHANGED vars
  BY <1>4 DEF vars, TypeOK
<1>5. QED
  BY <1>1, <1>2, <1>3, <1>4 DEF Next

\* Every reachable state is well typed, for any sets of workers, messages,
\* campaigns and accounts.
THEOREM TypeCorrect == Spec => []TypeOK
BY TypeInit, TypeStep, PTL DEF Spec

-----------------------------------------------------------------------------
(* The lock: no tick deletes another tick's, and no account sends for two  *)
(* ticks at once as long as its sends are over before their lock expires.  *)

\* The steps of tick w that neither take nor give back a lock.
Lockless(w) ==
    \/ StartTick(w) \/ FlushSending(w) \/ Sweep(w)
    \/ \E m \in Message :
          \/ SkipCampaign(w, m) \/ Promote(w, m) \/ AccountGone(w, m)
          \/ Postpone(w, m) \/ FailNoTarget(w, m) \/ LockBusy(w, m)
          \/ SendOk(w, m) \/ SendError(w, m) \/ ReplyLost(w, m) \/ Commit(w, m)

\* Every step of the specification, sorted by what it does to locks.
LEMMA StepsByLock ==
    ASSUME Next
    PROVE  \/ \E w \in Worker : \/ Lockless(w) \/ Release(w) \/ Abort(w)
                                \/ FinalCommit(w) \/ Crash(w)
                                \/ \E m \in Message : AcquireLock(w, m)
           \/ \E a \in Account : LockExpires(a)
           \/ UNCHANGED <<lock, tick>>
<1>1. ASSUME NEW c \in Campaign, StartCampaign(c) \/ PauseCampaign(c) \/ CancelCampaign(c)
      PROVE  UNCHANGED <<lock, tick>>
  BY <1>1 DEF StartCampaign, PauseCampaign, CancelCampaign, SetCampaign
<1>2. ASSUME NEW c \in Campaign, RequeueRead(c)
      PROVE  UNCHANGED <<lock, tick>>
  BY <1>2 DEF RequeueRead
<1>3. ASSUME NEW a \in Account, EnableAccount(a) \/ ValidateAccount(a)
      PROVE  UNCHANGED <<lock, tick>>
  BY <1>3 DEF EnableAccount, ValidateAccount
<1>4. RequeueWrite => UNCHANGED <<lock, tick>>
  BY DEF RequeueWrite
<1>5. Outside => UNCHANGED <<lock, tick>>
  BY <1>1, <1>2, <1>3, <1>4 DEF Outside
<1>6. ASSUME NEW m \in Message, BecomesDue(m)
      PROVE  UNCHANGED <<lock, tick>>
  BY <1>6 DEF BecomesDue
<1>7. ResetDailyQuota => UNCHANGED <<lock, tick>>
  BY DEF ResetDailyQuota
<1>8. Environment => (\E a \in Account : LockExpires(a)) \/ UNCHANGED <<lock, tick>>
  BY <1>6, <1>7 DEF Environment
<1>9. QED
  BY <1>5, <1>8 DEF Next, Run, Lockless

Holding == {"locked", "send", "commit", "release"}

\* A tick holds an account exactly between taking and releasing its lock, and
\* Redis agrees unless the key can expire under its holder.
LockInv ==
    \A w \in Worker :
        /\ tick[w].held # NoAccount <=> tick[w].pc \in Holding
        /\ tick[w].held \notin Slow \cup {NoAccount} => lock[tick[w].held] = w

\* Tick t keeps what it holds when it becomes u.
Keeps(t, u) == u.held = t.held /\ (u.pc \in Holding <=> t.pc \in Holding)

LEMMA SessionKeeps ==
    ASSUME NEW t \in Tick, NEW new, NEW m, NEW pc
    PROVE  /\ Write(t, new).held = t.held /\ Write(t, new).pc = t.pc
           /\ Flush(t).held = t.held /\ Flush(t).pc = t.pc
           /\ Pass(Write(t, new), m).held = t.held
           /\ Pass(Write(t, new), m).pc = t.pc
           /\ [Write(t, new) EXCEPT !.pc = pc].held = t.held
           /\ [Write(t, new) EXCEPT !.pc = pc].pc = pc
           /\ [Flush(t) EXCEPT !.pc = pc].held = t.held
           /\ [Flush(t) EXCEPT !.pc = pc].pc = pc
           /\ [Closed(Pass(t, m)) EXCEPT !.pc = pc].held = t.held
           /\ [Closed(Pass(t, m)) EXCEPT !.pc = pc].pc = pc
BY DEF Write, Flush, Pass, Closed, Tick

LEMMA FlushedKeeps ==
    ASSUME db \in Tables, NEW t \in Tick
    PROVE  LET f == Flush(Write(t, View(t)))
           IN  f \in Tick /\ f.held = t.held /\ f.pc = t.pc
<1> DEFINE u == Write(t, View(t))
<1>1. u \in Tick
  BY TickType, WriteType
<1>2. u.held = t.held /\ u.pc = t.pc
  BY SessionKeeps
<1> HIDE DEF u
<1>3. Flush(u) \in Tick /\ Flush(u).held = u.held /\ Flush(u).pc = u.pc
  BY <1>1, TickType, SessionKeeps
<1>4. QED
  BY <1>2, <1>3 DEF u

\* Only tick w moves, and it keeps what it holds.
OnlyKeeps(w) ==
    /\ lock' = lock
    /\ tick' = [tick EXCEPT ![w] = tick'[w]]
    /\ Keeps(tick[w], tick'[w])

LEMMA KeepsIntro ==
    ASSUME TypeOK, NEW w \in Worker, NEW t, Keeps(tick[w], t),
           tick' = [tick EXCEPT ![w] = t], lock' = lock
    PROVE  OnlyKeeps(w)
BY DEF TypeOK, OnlyKeeps

LEMMA LocklessStep ==
    ASSUME TypeOK, LockInv, NEW w \in Worker, Lockless(w)
    PROVE  OnlyKeeps(w)
<1>1. db \in Tables /\ tick[w] \in Tick
  BY DEF TypeOK
<1>2. CASE StartTick(w)
  <2>1. tick[w].held = NoAccount /\ tick[w].pc = "idle"
    BY <1>2 DEF LockInv, StartTick, Holding
  <2>2. PICK b : tick' = [tick EXCEPT ![w] =
                   [Idle EXCEPT !.pc = "scan", !.open = TRUE, !.view = db, !.batch = b]]
    BY <1>2 DEF StartTick
  <2> DEFINE t == [Idle EXCEPT !.pc = "scan", !.open = TRUE, !.view = db, !.batch = b]
  <2>3. t.held = NoAccount /\ t.pc = "scan"
    BY DEF Idle
  <2>4. Keeps(tick[w], t)
    BY <2>1, <2>3 DEF Keeps, Holding
  <2> HIDE DEF t
  <2>5. QED
    BY <1>2, <2>2, <2>4, KeepsIntro DEF StartTick, t
<1>3. CASE FlushSending(w)
  <2> DEFINE t == [Flush(tick[w]) EXCEPT !.pc = "send"]
  <2>1. t.held = tick[w].held /\ t.pc = "send"
    BY <1>1, SessionKeeps
  <2>2. tick' = [tick EXCEPT ![w] = t] /\ lock' = lock /\ tick[w].pc = "locked"
    BY <1>3 DEF FlushSending
  <2> HIDE DEF t
  <2>3. QED
    BY <2>1, <2>2, KeepsIntro DEF Keeps, Holding
<1>4. CASE Sweep(w)
  <2> DEFINE t == Flush(Write(tick[w], View(tick[w])))
             u == [Write(t, SweptTables(t)) EXCEPT !.pc = "finish"]
  <2>1. t \in Tick
    BY <1>1, TickType, WriteType
  <2>2. t.held = tick[w].held
    BY <1>1, FlushedKeeps
  <2>3. u.held = tick[w].held /\ u.pc = "finish"
    <3> HIDE DEF t
    <3> QED
      BY <2>1, <2>2, SessionKeeps
  <2>4. tick' = [tick EXCEPT ![w] = u] /\ tick[w].pc = "scan" /\ lock' = lock
    BY <1>4 DEF Sweep
  <2> HIDE DEF u
  <2>5. QED
    BY <2>3, <2>4, KeepsIntro DEF Keeps, Holding
<1>5. ASSUME NEW t \in Tick, Keeps(tick[w], t), NEW m, NEW new, Leave(w, t, m, new)
      PROVE  OnlyKeeps(w)
  <2> DEFINE u == Pass(Write(t, new), m)
  <2>1. u.held = t.held /\ u.pc = t.pc
    BY SessionKeeps
  <2>2. tick' = [tick EXCEPT ![w] = u] /\ lock' = lock
    BY <1>5 DEF Leave
  <2> HIDE DEF u
  <2>3. QED
    BY <1>5, <2>1, <2>2, KeepsIntro DEF Keeps
<1>6. ASSUME NEW m \in Message,
             SkipCampaign(w, m) \/ Postpone(w, m) \/ FailNoTarget(w, m) \/ LockBusy(w, m)
      PROVE  OnlyKeeps(w)
  BY <1>1, <1>5, <1>6 DEF SkipCampaign, Postpone, FailNoTarget, LockBusy, Keeps
<1>7. ASSUME NEW m \in Message, Promote(w, m)
      PROVE  OnlyKeeps(w)
  <2> DEFINE u == Write(tick[w], Promoted(View(tick[w]), CampaignOf[m]))
  <2>1. u.held = tick[w].held /\ u.pc = tick[w].pc
    BY <1>1, SessionKeeps
  <2>2. tick' = [tick EXCEPT ![w] = u] /\ lock' = lock
    BY <1>7 DEF Promote
  <2> HIDE DEF u
  <2>3. QED
    BY <2>1, <2>2, KeepsIntro DEF Keeps
<1>8. ASSUME NEW m \in Message, AccountGone(w, m)
      PROVE  OnlyKeeps(w)
  <2> DEFINE f == Flush(Write(tick[w], View(tick[w])))
  <2>1. f \in Tick /\ Keeps(tick[w], f)
    BY <1>1, FlushedKeeps DEF Keeps
  <2>2. \E new : Leave(w, f, m, new)
    BY <1>8 DEF AccountGone
  <2> HIDE DEF f
  <2>3. QED
    BY <1>5, <2>1, <2>2
<1>9. ASSUME NEW m \in Message, SendOk(w, m) \/ SendError(w, m) \/ ReplyLost(w, m)
      PROVE  OnlyKeeps(w)
  <2>1. PICK new, reached : Telegram(w, m, new, reached)
    BY <1>9 DEF SendOk, SendError, ReplyLost
  <2> DEFINE u == [Write(tick[w], new) EXCEPT !.pc = "commit"]
  <2>2. u.held = tick[w].held /\ u.pc = "commit"
    BY <1>1, SessionKeeps
  <2>3. tick' = [tick EXCEPT ![w] = u] /\ lock' = lock /\ tick[w].pc = "send"
    BY <2>1 DEF Telegram
  <2> HIDE DEF u
  <2>4. QED
    BY <2>2, <2>3, KeepsIntro DEF Keeps, Holding
<1>10. ASSUME NEW m \in Message, Commit(w, m)
       PROVE  OnlyKeeps(w)
  <2> DEFINE u == [Closed(Pass(tick[w], m)) EXCEPT !.pc = "release"]
  <2>1. u.held = tick[w].held /\ u.pc = "release"
    BY <1>1, SessionKeeps
  <2>2. tick' = [tick EXCEPT ![w] = u] /\ lock' = lock /\ tick[w].pc = "commit"
    BY <1>10 DEF Commit
  <2> HIDE DEF u
  <2>3. QED
    BY <2>1, <2>2, KeepsIntro DEF Keeps, Holding
<1>11. QED
  BY <1>2, <1>3, <1>4, <1>6, <1>7, <1>8, <1>9, <1>10 DEF Lockless

LEMMA LockInvInit == Init => LockInv
BY DEF Init, LockInv, Idle, Holding

LEMMA LockInvStep == TypeOK /\ LockInv /\ [Next]_vars => LockInv'
<1> SUFFICES ASSUME TypeOK, LockInv, [Next]_vars PROVE LockInv'
  OBVIOUS
<1>0. tick \in [Worker -> Tick] /\ lock \in [Account -> Worker \cup {NoWorker}]
  BY DEF TypeOK
<1>1. ASSUME NEW w \in Worker, Lockless(w)
      PROVE  LockInv'
  <2>1. OnlyKeeps(w)
    BY <1>1, LocklessStep
  <2>2. \A v \in Worker : Keeps(tick[v], tick'[v])
    BY <1>0, <2>1 DEF OnlyKeeps, Keeps
  <2>3. QED
    BY <2>1, <2>2 DEF LockInv, OnlyKeeps, Keeps
<1>2. ASSUME NEW w \in Worker, NEW m \in Message, AcquireLock(w, m)
      PROVE  LockInv'
  <2> DEFINE a == View(tick[w]).msg[m].account
  <2>1. a \in Account
    BY <1>0, TickType, RowType DEF TypeOK
  <2>2. PICK t : tick' = [tick EXCEPT ![w] = t] /\ t.pc = "locked" /\ t.held = a
    <3>1. tick[w] \in Tick
      BY <1>0
    <3>2. [Write(tick[w], MarkedSending(View(tick[w]), m))
             EXCEPT !.pc = "locked", !.held = a].held = a
      BY <3>1 DEF Write, Tick
    <3>3. [Write(tick[w], MarkedSending(View(tick[w]), m))
             EXCEPT !.pc = "locked", !.held = a].pc = "locked"
      BY <3>1 DEF Write, Tick
    <3>4. QED
      BY <1>2, <3>2, <3>3 DEF AcquireLock
  <2>3. lock[a] = NoWorker /\ lock' = [lock EXCEPT ![a] = w]
    BY <1>2 DEF AcquireLock, LockTaken
  <2> HIDE DEF a
  <2>4. QED
    BY <1>0, <2>1, <2>2, <2>3, ConstantsAssumption DEF LockInv, Holding
<1>3. ASSUME NEW w \in Worker, Release(w)
      PROVE  LockInv'
  BY <1>0, <1>3 DEF Release, Released, LockInv, Holding, Tick
<1>4. ASSUME NEW w \in Worker, Abort(w) \/ FinalCommit(w) \/ Crash(w)
      PROVE  LockInv'
  <2>1. tick' = [tick EXCEPT ![w] = Idle] /\ (lock' = lock \/ lock' = Released(w))
    BY <1>4 DEF Abort, FinalCommit, Crash
  <2>2. Idle.held = NoAccount /\ Idle.pc \notin Holding
    BY DEF Idle, Holding
  <2>3. ASSUME NEW v \in Worker, v # w, tick[v].held \notin Slow \cup {NoAccount}
        PROVE  lock'[tick[v].held] = v
    BY <1>0, <2>1, <2>3 DEF LockInv, Released, Tick
  <2>4. QED
    BY <1>0, <2>1, <2>2, <2>3 DEF LockInv
<1>5. ASSUME NEW a \in Account, LockExpires(a)
      PROVE  LockInv'
  <2>1. lock' = [lock EXCEPT ![a] = NoWorker] /\ tick' = tick
    BY <1>5 DEF LockExpires
  <2>2. a \notin Slow => \A w \in Worker : tick[w].held # a
    BY <1>0, <1>5, ConstantsAssumption DEF LockExpires, LockInv
  <2>3. QED
    BY <1>0, <2>1, <2>2 DEF LockInv
<1>6. CASE UNCHANGED <<lock, tick>>
  BY <1>6 DEF LockInv
<1>7. QED
  BY <1>1, <1>2, <1>3, <1>4, <1>5, <1>6, StepsByLock DEF vars

LEMMA LockCorrect == Spec => []LockInv
BY TypeCorrect, LockInvInit, LockInvStep, PTL DEF Spec

\* No account sends for two ticks at once, for any number of workers, unless its
\* sends may outlast their lock.
THEOREM ExclusionCorrect == Spec => []SendExclusion
<1>1. TypeOK /\ LockInv => SendExclusion
  <2> SUFFICES ASSUME TypeOK, LockInv, NEW v \in Worker, NEW w \in Worker,
                      tick[v].pc = "send", tick[w].pc = "send",
                      tick[v].held = tick[w].held, tick[v].held \notin Slow
               PROVE  v = w
    BY DEF SendExclusion
  <2>1. lock[tick[v].held] = v /\ lock[tick[w].held] = w
    BY DEF LockInv, Holding
  <2>2. QED
    BY <2>1
<1>2. QED
  BY <1>1, TypeCorrect, LockCorrect, PTL

\* A tick deletes no lock but its own, even when keys expire under their holder:
\* the token compare is enough.
THEOREM TokenCorrect == Spec => NoStolenLock
<1> DEFINE Own == \A a \in Account, w \in Worker :
                     tick'[w] # tick[w] /\ lock'[a] # lock[a] => lock[a] \in {w, NoWorker}
<1>1. TypeOK /\ LockInv /\ [Next]_vars => [Own]_vars
  <2> SUFFICES ASSUME TypeOK, LockInv, Next, NEW a \in Account, NEW w \in Worker,
                      tick'[w] # tick[w], lock'[a] # lock[a]
               PROVE  lock[a] \in {w, NoWorker}
    BY DEF vars
  <2>0. tick \in [Worker -> Tick] /\ lock \in [Account -> Worker \cup {NoWorker}]
    BY DEF TypeOK
  <2>1. ASSUME NEW v \in Worker, Lockless(v) PROVE FALSE
    BY <2>1, LocklessStep DEF OnlyKeeps
  <2>2. ASSUME NEW v \in Worker, NEW m \in Message, AcquireLock(v, m)
        PROVE  lock[a] = NoWorker
    BY <2>0, <2>2 DEF AcquireLock, LockTaken
  <2>3. ASSUME NEW v \in Worker, Release(v) \/ Abort(v)
        PROVE  lock[a] = w
    <3>1. lock' = Released(v) /\ \E t : tick' = [tick EXCEPT ![v] = t]
      BY <2>3 DEF Release, Abort
    <3>2. v = w
      BY <2>0, <3>1
    <3>3. QED
      BY <2>0, <3>1, <3>2 DEF Released
  <2>4. ASSUME NEW v \in Worker, FinalCommit(v) \/ Crash(v) PROVE FALSE
    BY <2>4 DEF FinalCommit, Crash
  <2>5. ASSUME NEW b \in Account, LockExpires(b) PROVE FALSE
    BY <2>5 DEF LockExpires
  <2>6. QED
    BY <2>1, <2>2, <2>3, <2>4, <2>5, StepsByLock
<1>2. QED
  BY <1>1, TypeCorrect, LockCorrect, PTL DEF Spec, NoStolenLock

-----------------------------------------------------------------------------
(* The committed status of a message tells the truth: `sending` is never   *)
(* committed, and `sent` is committed only for a message Telegram took.    *)

\* v shows no message as being sent, and as sent only delivered ones.
ViewOK(v, d) ==
    \A k \in Message : /\ v.msg[k].status # "sending"
                       /\ v.msg[k].status = "sent" => d[k] > 0

\* Only the message tick t is sending may be marked so in its session.
TickOK(t, d) ==
    \A k \in Message :
        /\ t.view.msg[k].status = "sending" => t.pc \in {"locked", "send"} /\ At(t, k)
        /\ t.view.msg[k].status = "sent" => d[k] > 0

\* The inductive invariant.  NeverDurablySending and SentIsDelivered are its
\* first conjunct: what a commit makes durable was a session's copy before.
StatusInv ==
    /\ ViewOK(db, delivered)
    /\ \A w \in Worker : TickOK(tick[w], delivered)

LEMMA PutStatus ==
    ASSUME NEW v \in Tables, NEW m \in Message
    PROVE  /\ \A row : \A k \in Message :
                 PutMsg(v, m, row).msg[k] = IF k = m THEN row ELSE v.msg[k]
           /\ \A c, row : PutCamp(v, c, row).msg = v.msg
           /\ \A a, row : PutAcct(v, a, row).msg = v.msg
BY DEF PutMsg, PutCamp, PutAcct, Tables

\* new is v with the status of m set to s.
Becomes(new, v, m, s) ==
    \A k \in Message : new.msg[k].status = IF k = m THEN s ELSE v.msg[k].status

LEMMA RowStatus ==
    ASSUME NEW v \in Tables, NEW m \in Message, NEW row \in MessageRecord
    PROVE  /\ PutMsg(v, m, row) \in Tables
           /\ Becomes(PutMsg(v, m, row), v, m, row.status)
BY PutType, PutStatus DEF Becomes

LEMMA StepStatus ==
    ASSUME NEW v \in Tables, NEW m \in Message
    PROVE  /\ Promoted(v, CampaignOf[m]).msg = v.msg
           /\ \A a \in Account : Becomes(Rerouted(v, m, a), v, m, v.msg[m].status)
           /\ Becomes(Postponed(v, m), v, m, v.msg[m].status)
           /\ \A s \in Dead : Becomes(GivenUp(v, m, s), v, m, s)
           /\ Becomes(MarkedSending(v, m), v, m, "sending")
           /\ Becomes(Sent(v, m), v, m, "sent")
           /\ \A o : \E s \in {"failed_permanent", "retry"} :
                        Becomes(NotSent(v, m, o), v, m, s)
<1>0. v.msg[m] \in MessageRecord
  BY RowType
<1>1. Promoted(v, CampaignOf[m]).msg = v.msg
  BY PutStatus DEF Promoted
<1>2. ASSUME NEW a \in Account PROVE Becomes(Rerouted(v, m, a), v, m, v.msg[m].status)
  <2> DEFINE row == [v.msg[m] EXCEPT !.account = a, !.err = "none"]
  <2>1. row.status = v.msg[m].status
    BY <1>0 DEF MessageRecord
  <2>2. Rerouted(v, m, a) = PutMsg(v, m, row)
    BY DEF Rerouted
  <2> HIDE DEF row
  <2>3. QED
    BY <2>1, <2>2, PutStatus DEF Becomes
<1>3. Becomes(Postponed(v, m), v, m, v.msg[m].status)
  <2> DEFINE row == [v.msg[m] EXCEPT !.due = FALSE]
  <2>1. row.status = v.msg[m].status
    BY <1>0 DEF MessageRecord
  <2>2. Postponed(v, m) = PutMsg(v, m, row)
    BY DEF Postponed
  <2> HIDE DEF row
  <2>3. QED
    BY <2>1, <2>2, PutStatus DEF Becomes
<1>4. ASSUME NEW s \in Dead PROVE Becomes(GivenUp(v, m, s), v, m, s)
  <2> DEFINE row == [v.msg[m] EXCEPT !.status = s, !.err = "recoverable"]
             mid == PutMsg(v, m, row)
  <2>1. row \in MessageRecord /\ row.status = s
    BY <1>0 DEF MessageRecord
  <2>2. GivenUp(v, m, s) = CountFailed(mid, CampaignOf[m])
    BY DEF GivenUp
  <2> HIDE DEF row
  <2>3. mid \in Tables /\ Becomes(mid, v, m, s)
    BY <2>1, RowStatus
  <2> HIDE DEF mid
  <2>4. CountFailed(mid, CampaignOf[m]).msg = mid.msg
    BY <2>3, PutStatus DEF CountFailed
  <2>5. QED
    BY <2>2, <2>3, <2>4 DEF Becomes
<1>5. Becomes(MarkedSending(v, m), v, m, "sending")
  <2> DEFINE row == [v.msg[m] EXCEPT !.status = "sending", !.attempts = @ + 1]
  <2>1. row.status = "sending"
    BY <1>0 DEF MessageRecord
  <2>2. MarkedSending(v, m) = PutMsg(v, m, row)
    BY DEF MarkedSending
  <2> HIDE DEF row
  <2>3. QED
    BY <2>1, <2>2, PutStatus DEF Becomes
<1>6. Becomes(Sent(v, m), v, m, "sent")
  <2> DEFINE row == [v.msg[m] EXCEPT !.status = "sent", !.err = "none", !.due = FALSE]
             mid == PutMsg(v, m, row)
             c == CampaignOf[m]
             a == v.msg[m].account
             crow == [mid.camp[c] EXCEPT !.sent = @ + 1]
             arow == [mid.acct[a] EXCEPT !.sentToday = @ + 1]
  <2>1. row \in MessageRecord /\ row.status = "sent"
    BY <1>0 DEF MessageRecord
  <2>2. Sent(v, m) = PutAcct(PutCamp(mid, c, crow), a, arow)
    BY DEF Sent, CountSent
  <2> HIDE DEF row
  <2>3. mid \in Tables /\ Becomes(mid, v, m, "sent")
    BY <2>1, RowStatus
  <2> HIDE DEF mid
  <2>4. c \in Campaign /\ crow \in CampaignRow
    BY <2>3, RowType DEF CampaignRow
  <2> HIDE DEF crow, arow
  <2>5. PutCamp(mid, c, crow) \in Tables
    BY <2>3, <2>4, PutType
  <2>6. Sent(v, m).msg = mid.msg
    BY <2>2, <2>3, <2>5, PutStatus
  <2>7. QED
    BY <2>3, <2>6 DEF Becomes
<1>7. ASSUME NEW o
      PROVE  \E s \in {"failed_permanent", "retry"} : Becomes(NotSent(v, m, o), v, m, s)
  <2> DEFINE fatal == Hopeless(v, m, o)
             s     == IF fatal THEN "failed_permanent" ELSE "retry"
             row   == [v.msg[m] EXCEPT
                         !.status = s,
                         !.err = IF o = "flood_wait" THEN "recoverable" ELSE "fatal",
                         !.due = FALSE]
             told  == PutMsg(v, m, row)
             mid   == IF fatal THEN CountFailed(told, CampaignOf[m]) ELSE told
             a     == v.msg[m].account
             arow  == Punished(v.acct[a], o, fatal)
  <2>1. row \in MessageRecord /\ row.status = s
    BY <1>0 DEF MessageRecord, Dead, Pending
  <2>2. NotSent(v, m, o) = PutAcct(mid, a, arow)
    BY DEF NotSent
  <2> HIDE DEF row
  <2>3. told \in Tables /\ Becomes(told, v, m, s)
    BY <2>1, RowStatus
  <2> HIDE DEF told, arow, fatal
  <2>4. CountFailed(told, CampaignOf[m]).msg = told.msg
    BY <2>3, PutStatus DEF CountFailed
  <2>5. CountFailed(told, CampaignOf[m]) \in Tables
    BY <2>3, RowType, StepType
  <2>6. mid \in Tables /\ mid.msg = told.msg
    BY <2>3, <2>4, <2>5
  <2>7. NotSent(v, m, o).msg = told.msg
    BY <2>2, <2>6, PutStatus
  <2>8. s \in {"failed_permanent", "retry"}
    OBVIOUS
  <2> HIDE DEF s
  <2>9. QED
    BY <2>3, <2>7, <2>8 DEF Becomes
<1>8. QED
  BY <1>1, <1>2, <1>3, <1>4, <1>5, <1>6, <1>7

\* Which copies are fit to be committed.
LEMMA StepOK ==
    ASSUME NEW v \in Tables, NEW m \in Message, NEW d, ViewOK(v, d)
    PROVE  /\ ViewOK(Promoted(v, CampaignOf[m]), d)
           /\ \A a \in Account : ViewOK(Rerouted(v, m, a), d)
           /\ ViewOK(Postponed(v, m), d)
           /\ \A s \in Dead : ViewOK(GivenUp(v, m, s), d)
<1>1. ViewOK(Promoted(v, CampaignOf[m]), d)
  BY StepStatus DEF ViewOK
<1>2. \A a \in Account : ViewOK(Rerouted(v, m, a), d)
  BY StepStatus DEF ViewOK, Becomes
<1>3. ViewOK(Postponed(v, m), d)
  BY StepStatus DEF ViewOK, Becomes
<1>4. \A s \in Dead : ViewOK(GivenUp(v, m, s), d)
  <2>1. \A s \in Dead : s # "sending" /\ s # "sent"
    BY DEF Dead
  <2>2. QED
    BY <2>1, StepStatus DEF ViewOK, Becomes
<1>5. QED
  BY <1>1, <1>2, <1>3, <1>4

LEMMA MergeOK ==
    ASSUME NEW base, NEW own, NEW dirty, NEW d, ViewOK(base, d), ViewOK(own, d)
    PROVE  ViewOK(Merge(base, own, dirty), d)
BY DEF Merge, ViewOK

LEMMA InitOK == \A d : ViewOK(InitTables, d)
BY DEF ViewOK, InitTables

\* What the session operations leave alone.
LEMMA SessionStatus ==
    ASSUME NEW t \in Tick, NEW new, NEW m, NEW pc
    PROVE  /\ Write(t, new).view = new /\ Write(t, new).batch = t.batch
           /\ Flush(t).view = t.view /\ Flush(t).batch = t.batch
           /\ Flush(t).pc = t.pc
           /\ Pass(Write(t, new), m).view = new
           /\ [Write(t, new) EXCEPT !.pc = pc].view = new
           /\ [Flush(t) EXCEPT !.pc = pc].view = t.view
           /\ [Flush(t) EXCEPT !.pc = pc].batch = t.batch
           /\ [Flush(t) EXCEPT !.pc = pc].pc = pc
           /\ [Closed(Pass(t, m)) EXCEPT !.pc = pc].view = InitTables
BY DEF Write, Flush, Pass, Closed, Tick

\* One tick moves, to a record t that is fit.
LEMMA MoveOK ==
    ASSUME TypeOK, StatusInv, NEW w \in Worker, NEW t, tick' = [tick EXCEPT ![w] = t],
           TickOK(t, delivered'), ViewOK(db', delivered'),
           \A m \in Message : delivered[m] > 0 => delivered'[m] > 0
    PROVE  StatusInv'
<1>1. \A v \in Worker : TickOK(tick'[v], delivered')
  BY DEF StatusInv, TickOK, TypeOK
<1>2. QED
  BY <1>1 DEF StatusInv

\* A tick outside the lock sees an honest copy of the tables.
LEMMA ScanView ==
    ASSUME TypeOK, StatusInv, NEW w \in Worker, tick[w].pc \notin {"locked", "send"}
    PROVE  /\ tick[w] \in Tick /\ tick[w].view \in Tables /\ View(tick[w]) \in Tables
           /\ ViewOK(tick[w].view, delivered) /\ ViewOK(View(tick[w]), delivered)
<1>1. tick[w] \in Tick /\ db \in Tables
  BY DEF TypeOK
<1>2. View(tick[w]) \in Tables /\ tick[w].view \in Tables
  BY <1>1, TickType DEF Tick
<1>3. ViewOK(tick[w].view, delivered)
  BY DEF StatusInv, TickOK, ViewOK
<1>4. QED
  BY <1>1, <1>2, <1>3 DEF StatusInv, View

LEMMA LeaveOK ==
    ASSUME TypeOK, StatusInv, NEW w \in Worker, NEW t \in Tick, NEW m, NEW new,
           ViewOK(new, delivered), Leave(w, t, m, new)
    PROVE  StatusInv'
<1> DEFINE u == Pass(Write(t, new), m)
<1>1. u.view = new
  BY SessionStatus
<1>2. tick' = [tick EXCEPT ![w] = u] /\ UNCHANGED <<db, delivered>>
  BY DEF Leave
<1> HIDE DEF u
<1>3. TickOK(u, delivered') /\ ViewOK(db', delivered')
  BY <1>1, <1>2 DEF TickOK, ViewOK, StatusInv
<1>4. QED
  BY <1>2, <1>3, MoveOK

LEMMA ScanStatus ==
    ASSUME TypeOK, StatusInv, NEW w \in Worker, NEW m \in Message,
           \/ SkipCampaign(w, m) \/ Promote(w, m) \/ AccountGone(w, m)
           \/ Postpone(w, m) \/ FailNoTarget(w, m) \/ LockBusy(w, m)
    PROVE  StatusInv'
<1> DEFINE v == View(tick[w])
<1>0. tick[w].pc = "scan" /\ db \in Tables
  BY DEF SkipCampaign, Promote, AccountGone, Postpone, FailNoTarget, LockBusy,
         Sendable, WithinQuota, Scanning, TypeOK
<1>1. /\ tick[w] \in Tick /\ tick[w].view \in Tables /\ v \in Tables
      /\ ViewOK(tick[w].view, delivered) /\ ViewOK(v, delivered)
  BY <1>0, ScanView
<1>2. \A s \in Dead : ViewOK(GivenUp(v, m, s), delivered)
  BY <1>1, StepOK
<1>3. ViewOK(Postponed(v, m), delivered)
  BY <1>1, StepOK
<1>4. CASE SkipCampaign(w, m)
  BY <1>1, <1>4, LeaveOK DEF SkipCampaign
<1>5. CASE Promote(w, m)
  <2> DEFINE new == Promoted(v, CampaignOf[m])
             u == Write(tick[w], new)
  <2>1. ViewOK(new, delivered)
    BY <1>1, StepOK
  <2>2. tick' = [tick EXCEPT ![w] = u] /\ UNCHANGED <<db, delivered>>
    BY <1>5 DEF Promote
  <2> HIDE DEF new
  <2>3. u.view = new
    BY <1>1, SessionStatus
  <2> HIDE DEF u
  <2>4. TickOK(u, delivered') /\ ViewOK(db', delivered')
    BY <2>1, <2>2, <2>3 DEF TickOK, ViewOK, StatusInv
  <2>5. QED
    BY <2>2, <2>4, MoveOK
<1>6. CASE AccountGone(w, m)
  <2> DEFINE t == Write(tick[w], v)
             f == Flush(t)
  <2>1. t \in Tick /\ t.view = v
    BY <1>0, <1>1, WriteType, SessionStatus
  <2>2. f \in Tick
    BY <1>0, <2>1, TickType
  <2>3. \/ \E a \in Alternates(f, m) : Leave(w, f, m, Rerouted(v, m, a))
        \/ Leave(w, f, m, GivenUp(v, m, "failed"))
    BY <1>6, <2>1 DEF AccountGone
  <2>4. \A a \in Alternates(f, m) : a \in Account
    BY ConstantsAssumption DEF Alternates
  <2>5. ViewOK(GivenUp(v, m, "failed"), delivered)
    BY <1>2 DEF Dead
  <2>6. \A a \in Account : ViewOK(Rerouted(v, m, a), delivered)
    BY <1>1, StepOK
  <2> HIDE DEF f, v
  <2>7. QED
    BY <2>2, <2>3, <2>4, <2>5, <2>6, LeaveOK
<1>7. CASE Postpone(w, m) \/ LockBusy(w, m)
  <2>1. Leave(w, tick[w], m, Postponed(v, m))
    BY <1>7 DEF Postpone, LockBusy
  <2>2. QED
    BY <1>1, <1>3, <2>1, LeaveOK
<1>8. CASE FailNoTarget(w, m)
  <2>1. Leave(w, tick[w], m, GivenUp(v, m, "failed_permanent"))
    BY <1>8 DEF FailNoTarget
  <2>2. ViewOK(GivenUp(v, m, "failed_permanent"), delivered)
    BY <1>2 DEF Dead
  <2>3. QED
    BY <1>1, <2>1, <2>2, LeaveOK
<1>9. QED
  BY <1>4, <1>5, <1>6, <1>7, <1>8

\* The message of the loop is one.
LEMMA AtUnique ==
    ASSUME NEW t, NEW m, NEW k, At(t, m), At(t, k), t.batch \subseteq Message
    PROVE  m = k
<1>1. m \in Nat /\ k \in Nat /\ m <= k /\ k <= m
  BY ConstantsAssumption DEF At
<1>2. QED
  BY <1>1

\* The result of a send is booked: `sent` exactly if Telegram took the message.
LEMMA TelegramStatus ==
    ASSUME TypeOK, StatusInv, NEW w \in Worker, NEW m \in Message, NEW new,
           NEW s, NEW reached, Telegram(w, m, new, reached),
           Becomes(new, tick[w].view, m, s), s # "sending",
           s = "sent" => reached = TRUE
    PROVE  StatusInv'
<1>1. tick[w] \in Tick /\ delivered \in [Message -> Nat]
  BY DEF TypeOK
<1>2. \A k \in Message : tick[w].view.msg[k].status = "sending" => k = m
  <2>1. At(tick[w], m) /\ tick[w].batch \subseteq Message
    BY <1>1 DEF Telegram, Tick
  <2>2. QED
    BY <2>1, AtUnique DEF StatusInv, TickOK
<1>3. \A k \in Message : /\ delivered[k] > 0 => delivered'[k] > 0
                         /\ k = m /\ reached = TRUE => delivered'[k] > 0
  BY <1>1 DEF Telegram
<1>4. ViewOK(new, delivered')
  BY <1>2, <1>3 DEF Becomes, ViewOK, StatusInv, TickOK
<1> DEFINE u == [Write(tick[w], new) EXCEPT !.pc = "commit"]
<1>5. u.view = new
  BY <1>1, SessionStatus
<1>6. tick' = [tick EXCEPT ![w] = u] /\ db' = db
  BY DEF Telegram
<1> HIDE DEF u
<1>7. TickOK(u, delivered') /\ ViewOK(db', delivered')
  BY <1>3, <1>4, <1>5, <1>6 DEF TickOK, ViewOK, StatusInv
<1>8. QED
  BY <1>3, <1>6, <1>7, MoveOK

LEMMA SendStatus ==
    ASSUME TypeOK, StatusInv, NEW w \in Worker, NEW m \in Message,
           \/ AcquireLock(w, m) \/ SendOk(w, m) \/ SendError(w, m)
           \/ ReplyLost(w, m) \/ Commit(w, m)
    PROVE  StatusInv'
<1>1. tick[w] \in Tick /\ tick[w].view \in Tables /\ db \in Tables
  BY DEF TypeOK, Tick
<1>2. CASE AcquireLock(w, m)
  <2> DEFINE v == View(tick[w])
             new == MarkedSending(v, m)
             a == v.msg[m].account
             u == [Write(tick[w], new) EXCEPT !.pc = "locked", !.held = a]
  <2>1. tick[w].pc = "scan" /\ At(tick[w], m)
    BY <1>2 DEF AcquireLock, WithinQuota, Sendable, Scanning
  <2>2. v \in Tables /\ ViewOK(v, delivered)
    BY <2>1, ScanView
  <2>3. Becomes(new, v, m, "sending")
    BY <2>2, StepStatus
  <2>4. tick' = [tick EXCEPT ![w] = u] /\ UNCHANGED <<db, delivered>>
    BY <1>2 DEF AcquireLock
  <2> HIDE DEF new, a, v
  <2>5. u.view = new /\ u.pc = "locked" /\ u.batch = tick[w].batch
    BY <1>1 DEF Write, Tick
  <2> HIDE DEF u
  <2>6. At(u, m)
    BY <2>1, <2>5 DEF At
  <2>7. TickOK(u, delivered') /\ ViewOK(db', delivered')
    BY <2>2, <2>3, <2>4, <2>5, <2>6 DEF TickOK, ViewOK, Becomes, StatusInv
  <2>8. QED
    BY <2>4, <2>7, MoveOK
<1>3. CASE SendOk(w, m)
  <2>1. Becomes(Sent(tick[w].view, m), tick[w].view, m, "sent")
    BY <1>1, StepStatus
  <2>2. Telegram(w, m, Sent(tick[w].view, m), TRUE)
    BY <1>3 DEF SendOk
  <2>3. QED
    BY <2>1, <2>2, TelegramStatus
<1>4. CASE SendError(w, m) \/ ReplyLost(w, m)
  <2>1. PICK o, reached : Telegram(w, m, NotSent(tick[w].view, m, o), reached)
    BY <1>4 DEF SendError, ReplyLost
  <2>2. PICK s \in {"failed_permanent", "retry"} :
           Becomes(NotSent(tick[w].view, m, o), tick[w].view, m, s)
    BY <1>1, StepStatus
  <2>3. s # "sending" /\ s # "sent"
    OBVIOUS
  <2>4. QED
    BY <2>1, <2>2, <2>3, TelegramStatus
<1>5. CASE Commit(w, m)
  <2> DEFINE u == [Closed(Pass(tick[w], m)) EXCEPT !.pc = "release"]
  <2>1. tick[w].pc = "commit" /\ tick' = [tick EXCEPT ![w] = u] /\ delivered' = delivered
        /\ db' = Merge(db, tick[w].view, tick[w].dirty)
    BY <1>5 DEF Commit
  <2>2. ViewOK(tick[w].view, delivered)
    BY <2>1, ScanView
  <2>3. ViewOK(db', delivered')
    BY <2>1, <2>2, MergeOK DEF StatusInv
  <2>4. u.view = InitTables
    BY <1>1, SessionStatus
  <2> HIDE DEF u
  <2>5. TickOK(u, delivered')
    BY <2>4, InitOK DEF TickOK, ViewOK
  <2>6. QED
    BY <2>1, <2>3, <2>5, MoveOK
<1>6. QED
  BY <1>2, <1>3, <1>4, <1>5

\* The steps of a tick that are not about one message.
LEMMA WholeTickStatus ==
    ASSUME TypeOK, StatusInv, NEW w \in Worker,
           \/ StartTick(w) \/ FlushSending(w) \/ Release(w) \/ Sweep(w)
           \/ FinalCommit(w) \/ Abort(w) \/ Crash(w)
    PROVE  StatusInv'
<1>1. tick[w] \in Tick /\ db \in Tables
  BY DEF TypeOK
<1>2. CASE StartTick(w)
  <2>1. PICK b : tick' = [tick EXCEPT ![w] =
                   [Idle EXCEPT !.pc = "scan", !.open = TRUE, !.view = db, !.batch = b]]
    BY <1>2 DEF StartTick
  <2> DEFINE t == [Idle EXCEPT !.pc = "scan", !.open = TRUE, !.view = db, !.batch = b]
  <2>2. t.view = db
    BY DEF Idle
  <2>3. UNCHANGED <<db, delivered>>
    BY <1>2 DEF StartTick
  <2>4. tick' = [tick EXCEPT ![w] = t]
    BY <2>1
  <2> HIDE DEF t
  <2>5. TickOK(t, delivered') /\ ViewOK(db', delivered')
    BY <2>2, <2>3 DEF StatusInv, TickOK, ViewOK
  <2>6. QED
    BY <2>3, <2>4, <2>5, MoveOK
<1>3. CASE FlushSending(w)
  <2> DEFINE t == [Flush(tick[w]) EXCEPT !.pc = "send"]
  <2>1. t.view = tick[w].view /\ t.batch = tick[w].batch /\ t.pc = "send"
    BY <1>1, SessionStatus
  <2>2. tick' = [tick EXCEPT ![w] = t] /\ UNCHANGED <<db, delivered>>
    BY <1>3 DEF FlushSending
  <2> HIDE DEF t
  <2>3. TickOK(t, delivered') /\ ViewOK(db', delivered')
    BY <2>1, <2>2 DEF StatusInv, TickOK, At
  <2>4. QED
    BY <2>2, <2>3, MoveOK
<1>4. CASE Release(w)
  <2> DEFINE t == [[tick[w] EXCEPT !.pc = "scan"] EXCEPT !.held = NoAccount]
  <2>1. t.view = tick[w].view
    BY <1>1 DEF Tick
  <2>2. tick' = [tick EXCEPT ![w] = t] /\ UNCHANGED <<db, delivered>>
    BY <1>4 DEF Release, TypeOK
  <2>3. ViewOK(tick[w].view, delivered)
    BY <1>4, ScanView DEF Release
  <2> HIDE DEF t
  <2>4. TickOK(t, delivered') /\ ViewOK(db', delivered')
    BY <2>1, <2>2, <2>3 DEF StatusInv, TickOK, ViewOK
  <2>5. QED
    BY <2>2, <2>4, MoveOK
<1>5. CASE Sweep(w)
  <2> DEFINE v == View(tick[w])
             f == Flush(Write(tick[w], v))
             u == [Write(f, SweptTables(f)) EXCEPT !.pc = "finish"]
  <2>1. v \in Tables /\ ViewOK(v, delivered)
    BY <1>5, ScanView DEF Sweep
  <2>2. Write(tick[w], v) \in Tick /\ Write(tick[w], v).view = v
    BY <1>1, <2>1, WriteType, SessionStatus
  <2>3. f \in Tick /\ f.view = v
    BY <1>1, <2>2, TickType, SessionStatus
  <2>4. tick' = [tick EXCEPT ![w] = u] /\ UNCHANGED <<db, delivered>>
    BY <1>5 DEF Sweep
  <2> HIDE DEF f, v
  <2>5. SweptTables(f).msg = v.msg
    BY <2>1, <2>3 DEF SweptTables, Tables
  <2>6. u.view = SweptTables(f)
    BY <2>3, SessionStatus
  <2> HIDE DEF u
  <2>7. TickOK(u, delivered') /\ ViewOK(db', delivered')
    BY <2>1, <2>4, <2>5, <2>6 DEF TickOK, ViewOK, StatusInv
  <2>8. QED
    BY <2>4, <2>7, MoveOK
<1>6. CASE FinalCommit(w) \/ Abort(w) \/ Crash(w)
  <2>1. tick' = [tick EXCEPT ![w] = Idle] /\ delivered' = delivered
    BY <1>6 DEF FinalCommit, Abort, Crash
  <2>2. TickOK(Idle, delivered')
    BY InitOK DEF Idle, TickOK, ViewOK
  <2>3. ViewOK(db', delivered')
    <3>1. CASE FinalCommit(w)
      <4>1. ViewOK(tick[w].view, delivered)
        BY <3>1, ScanView DEF FinalCommit
      <4>2. QED
        BY <2>1, <3>1, <4>1, MergeOK DEF FinalCommit, StatusInv
    <3>2. CASE Abort(w) \/ Crash(w)
      BY <2>1, <3>2 DEF Abort, Crash, StatusInv
    <3>3. QED
      BY <1>6, <3>1, <3>2
  <2>4. QED
    BY <2>1, <2>2, <2>3, MoveOK
<1>7. QED
  BY <1>2, <1>3, <1>4, <1>5, <1>6

\* The endpoints, the reset and the clock leave ticks and deliveries alone, and
\* write no `sending` and no `sent`.
LEMMA OtherStatus ==
    ASSUME TypeOK, StatusInv, Environment \/ Outside
    PROVE  StatusInv'
<1>1. db \in Tables
  BY DEF TypeOK
<1>2. SUFFICES UNCHANGED <<tick, delivered>> /\ ViewOK(db', delivered)
  BY DEF StatusInv
<1>3. ASSUME NEW a \in Account, LockExpires(a)
      PROVE  UNCHANGED <<tick, delivered>> /\ ViewOK(db', delivered)
  BY <1>3 DEF LockExpires, StatusInv
<1>4. ASSUME NEW m \in Message, BecomesDue(m)
      PROVE  UNCHANGED <<tick, delivered>> /\ ViewOK(db', delivered)
  <2> DEFINE row == [db.msg[m] EXCEPT !.due = TRUE]
  <2>1. row.status = db.msg[m].status
    BY <1>1, RowType DEF MessageRecord
  <2>2. db' = PutMsg(db, m, row) /\ UNCHANGED <<tick, delivered>>
    BY <1>4 DEF BecomesDue
  <2> HIDE DEF row
  <2>3. QED
    BY <1>1, <2>1, <2>2, PutStatus DEF StatusInv, ViewOK
<1>5. CASE ResetDailyQuota
  BY <1>1, <1>5 DEF ResetDailyQuota, StatusInv, ViewOK, Tables
<1>6. ASSUME NEW c \in Campaign, StartCampaign(c) \/ PauseCampaign(c) \/ CancelCampaign(c)
      PROVE  UNCHANGED <<tick, delivered>> /\ ViewOK(db', delivered)
  <2>1. PICK row : db' = PutCamp(db, c, row) /\ UNCHANGED <<tick, delivered>>
    BY <1>6 DEF StartCampaign, PauseCampaign, CancelCampaign, SetCampaign
  <2>2. db'.msg = db.msg
    BY <1>1, <2>1 DEF PutCamp, Tables
  <2>3. QED
    BY <2>1, <2>2 DEF StatusInv, ViewOK
<1>7. ASSUME NEW c \in Campaign, RequeueRead(c)
      PROVE  UNCHANGED <<tick, delivered>> /\ ViewOK(db', delivered)
  BY <1>7 DEF RequeueRead, StatusInv
<1>8. CASE RequeueWrite
  <2>1. PICK row : db' = PutCamp([db EXCEPT !.msg = [m \in Message |->
                            IF m \in req.lost THEN Requeued(@[m]) ELSE @[m]]], req.camp, row)
    BY <1>8 DEF RequeueWrite
  <2>2. db'.msg = [m \in Message |-> IF m \in req.lost THEN Requeued(db.msg[m])
                                                      ELSE db.msg[m]]
    BY <1>1, <2>1 DEF PutCamp, Tables
  <2>3. \A m \in Message : Requeued(db.msg[m]).status = "queued"
    BY <1>1, RowType DEF Requeued, MessageRecord
  <2>4. UNCHANGED <<tick, delivered>>
    BY <1>8 DEF RequeueWrite
  <2>5. QED
    BY <2>2, <2>3, <2>4 DEF StatusInv, ViewOK
<1>9. ASSUME NEW a \in Account, EnableAccount(a) \/ ValidateAccount(a)
      PROVE  UNCHANGED <<tick, delivered>> /\ ViewOK(db', delivered)
  <2>1. PICK row : db' = PutAcct(db, a, row) /\ UNCHANGED <<tick, delivered>>
    BY <1>9 DEF EnableAccount, ValidateAccount
  <2>2. db'.msg = db.msg
    BY <1>1, <2>1 DEF PutAcct, Tables
  <2>3. QED
    BY <2>1, <2>2 DEF StatusInv, ViewOK
<1>10. QED
  BY <1>3, <1>4, <1>5, <1>6, <1>7, <1>8, <1>9 DEF Environment, Outside

LEMMA StatusInvInit == Init => StatusInv
<1> SUFFICES ASSUME Init PROVE StatusInv
  OBVIOUS
<1>1. \A w \in Worker : tick[w].view = InitTables
  BY DEF Init, Idle
<1>2. db = InitTables
  BY DEF Init
<1>3. QED
  BY <1>1, <1>2, InitOK DEF StatusInv, TickOK, ViewOK

LEMMA StatusInvStep == TypeOK /\ StatusInv /\ [Next]_vars => StatusInv'
<1> SUFFICES ASSUME TypeOK, StatusInv, [Next]_vars PROVE StatusInv'
  OBVIOUS
<1>1. CASE UNCHANGED vars
  BY <1>1 DEF vars, StatusInv
<1>2. CASE Environment \/ Outside
  BY <1>2, OtherStatus
<1>3. ASSUME NEW w \in Worker, StartTick(w) \/ Run(w) \/ Crash(w)
                               \/ \E m \in Message : ReplyLost(w, m)
      PROVE  StatusInv'
  BY <1>3, ScanStatus, SendStatus, WholeTickStatus DEF Run
<1>4. QED
  BY <1>1, <1>2, <1>3 DEF Next

LEMMA StatusCorrect == Spec => []StatusInv
BY TypeCorrect, StatusInvInit, StatusInvStep, PTL DEF Spec

\* However ticks overlap, abort or crash, no committed row is `sending`: no
\* message is lost between two ticks, since every select covers its status.
THEOREM NeverStranded == Spec => []NeverDurablySending
<1>1. StatusInv => NeverDurablySending
  BY DEF StatusInv, ViewOK, NeverDurablySending
<1>2. QED
  BY <1>1, StatusCorrect, PTL

\* A message recorded as sent was accepted by Telegram at least once.
THEOREM RecordedIsDelivered == Spec => []SentIsDelivered
<1>1. StatusInv => SentIsDelivered
  BY DEF StatusInv, ViewOK, SentIsDelivered
<1>2. QED
  BY <1>1, StatusCorrect, PTL

-----------------------------------------------------------------------------
(* Ticks that do not overlap                                               *)

\* Ticks take turns: beat's minute is long enough for one.
Serial ==
    \A v, w \in Worker : tick[v].pc # "idle" /\ tick[w].pc # "idle" => v = w

-----------------------------------------------------------------------------
(* The inductive invariants, in layers                                     *)

\* An idle tick is empty, a session without a snapshot has changed nothing,
\* and from the lock to the commit there is one.
Shape ==
    \A w \in Worker :
        /\ tick[w].pc = "idle" => tick[w] = Idle
        /\ ~tick[w].open => tick[w].dirty = {}
        /\ tick[w].pc \in {"locked", "send", "commit", "finish"} => tick[w].open

\* What a requeue has read to be dead stays so until it writes.
RequeueInv ==
    req # NoRequest => /\ ops > 0
                       /\ \A k \in req.lost : /\ CampaignOf[k] = req.camp
                                              /\ db.msg[k].status \in Dead

\* How the message statuses in tick t's session differ from the committed ones:
\* only where t changed a pending message, or a requeue revived a dead one.
StatusSync(t) ==
    \A k \in Message :
        LET s == View(t).msg[k].status
            d == db.msg[k].status
        IN  /\ <<k, "status">> \in t.dirty => d \in Pending
            /\ <<k, "status">> \notin t.dirty =>
                  s = d \/ (s \in Dead /\ d = "queued" /\ ops > 0)
            /\ k \in t.batch =>
                  /\ d \in Pending
                  /\ s \in Pending \/ (t.pc \in {"locked", "send", "commit"} /\ At(t, k))
            /\ t.pc \in {"locked", "send"} /\ At(t, k) => s = "sending"
            /\ s = "sent" /\ d # "sent" => t.pc = "commit"

SyncInv == Shape /\ RequeueInv /\ \A w \in Worker : StatusSync(tick[w])

\* The messages of campaign c with a status in S, in tables v.
With(v, c, S) == {m \in Message : CampaignOf[m] = c /\ v.msg[m].status \in S}

Done == {"sent"}

\* sent_count, and failed_count before the first request, count messages of v.
Counted(v) ==
    \A c \in Campaign :
        /\ v.camp[c].sent = Cardinality(With(v, c, Done))
        /\ ops = 0 => v.camp[c].failed = Cardinality(With(v, c, Dead))

\* A counter that a session did not change is the committed one.
CountSync(t) ==
    \A c \in Campaign :
        /\ <<c, "sent">> \notin t.dirty => View(t).camp[c].sent = db.camp[c].sent
        /\ ops = 0 /\ <<c, "failed">> \notin t.dirty =>
              View(t).camp[c].failed = db.camp[c].failed

CountInv ==
    /\ Counted(db)
    /\ \A w \in Worker : Counted(View(tick[w])) /\ CountSync(tick[w])

\* No account sent more today than its row says, but for the faults.
QuotaSeen(v) == \A a \in Account : sentDay[a] <= v.acct[a].sentToday + faults

\* Account a's committed row lags behind by the send whose result awaits a commit.
Lagging(a) ==
    /\ sentDay[a] <= db.acct[a].sentToday + faults + 1
    /\ \E w \in Worker : tick[w].pc = "commit" /\ <<a, "sentToday">> \in tick[w].dirty

\* The account tick t has locked is the message's, enabled, within its limit.
LockedAccount(t) ==
    t.pc \in {"locked", "send"} =>
        \E m \in Message :
            LET row == t.view.acct[t.held]
            IN  /\ At(t, m)
                /\ t.held = t.view.msg[m].account
                /\ row.enabled
                /\ ~OverQuota(t.held, row)
                /\ t.view.camp[CampaignOf[m]].status = "running"

QuotaInv ==
    /\ \A a \in Account : sentDay[a] <= db.acct[a].sentToday + faults \/ Lagging(a)
    /\ \A w \in Worker : /\ tick[w].pc # "idle" => QuotaSeen(View(tick[w]))
                         /\ LockedAccount(tick[w])

\* An account a session shows enabled is enabled.
EnabledInv ==
    \A w \in Worker, a \in Account : View(tick[w]).acct[a].enabled => db.acct[a].enabled

\* The status that message k, or campaign c, has once tick t has committed.
StatusAfter(t, k) ==
    IF <<k, "status">> \in t.dirty THEN t.view.msg[k].status ELSE db.msg[k].status
ClosedAfter(t, c) ==
    (IF <<c, "status">> \in t.dirty THEN t.view.camp[c].status ELSE db.camp[c].status)
    \in Terminal

TerminalSync(t) ==
    /\ \A c \in Campaign :
          /\ db.camp[c].status \in Terminal => View(t).camp[c].status \in Terminal
          /\ t.pc # "finish" /\ <<c, "status">> \in t.dirty =>
                View(t).camp[c].status = "running"
    /\ \A k \in Message :
          /\ <<k, "status">> \in t.dirty /\ View(t).msg[k].status \in Pending =>
                t.pc = "commit" /\ View(t).camp[CampaignOf[k]].status = "running"
          /\ t.pc = "finish" /\ ClosedAfter(t, CampaignOf[k]) /\ StatusAfter(t, k) \in Pending
                => StatusAfter(t, k) = "queued" /\ ops > 0

TerminalInv == TerminalHasNoPending /\ \A w \in Worker : TerminalSync(tick[w])

-----------------------------------------------------------------------------
(* What the loop body's edits of a session's copy do, column by column      *)

\* new is v after one edit on account of message m: its status becomes s, ds is
\* added to its campaign's sent_count and its account's sent_today, df to its
\* campaign's failed_count; no account is enabled, and only queued campaigns start.
Edited(new, v, m, s, ds, df) ==
    /\ Becomes(new, v, m, s)
    /\ \A c \in Campaign :
          /\ new.camp[c].sent = v.camp[c].sent + (IF c = CampaignOf[m] THEN ds ELSE 0)
          /\ new.camp[c].failed = v.camp[c].failed + (IF c = CampaignOf[m] THEN df ELSE 0)
          /\ \/ new.camp[c].status = v.camp[c].status
             \/ v.camp[c].status = "queued" /\ new.camp[c].status = "running"
    /\ \A a \in Account :
          /\ new.acct[a].sentToday
                = v.acct[a].sentToday + (IF a = v.msg[m].account THEN ds ELSE 0)
          /\ new.acct[a].enabled => v.acct[a].enabled

LEMMA PutColumns ==
    ASSUME NEW v \in Tables
    PROVE  /\ \A m, row : PutMsg(v, m, row).camp = v.camp /\ PutMsg(v, m, row).acct = v.acct
           /\ \A c, row : /\ PutCamp(v, c, row).msg = v.msg
                          /\ PutCamp(v, c, row).acct = v.acct
                          /\ \A k \in Campaign : PutCamp(v, c, row).camp[k]
                                = IF k = c THEN row ELSE v.camp[k]
           /\ \A a, row : /\ PutAcct(v, a, row).camp = v.camp
                          /\ \A b \in Account : PutAcct(v, a, row).acct[b]
                                = IF b = a THEN row ELSE v.acct[b]
BY DEF PutMsg, PutCamp, PutAcct, Tables

LEMMA CountFailedColumns ==
    ASSUME NEW v \in Tables, NEW c \in Campaign
    PROVE  /\ CountFailed(v, c).msg = v.msg /\ CountFailed(v, c).acct = v.acct
           /\ \A k \in Campaign :
                 /\ CountFailed(v, c).camp[k].sent = v.camp[k].sent
                 /\ CountFailed(v, c).camp[k].status = v.camp[k].status
                 /\ CountFailed(v, c).camp[k].failed
                       = v.camp[k].failed + (IF k = c THEN 1 ELSE 0)
<1> DEFINE row == [v.camp[c] EXCEPT !.failed = @ + 1]
<1>1. \A k \in Campaign : v.camp[k] \in CampaignRow /\ v.camp[k].failed + 0 = v.camp[k].failed
  BY RowType DEF CampaignRow
<1>2. /\ row.sent = v.camp[c].sent /\ row.status = v.camp[c].status
      /\ row.failed = v.camp[c].failed + 1
  BY <1>1 DEF CampaignRow
<1>3. CountFailed(v, c) = PutCamp(v, c, row)
  BY DEF CountFailed
<1> HIDE DEF row
<1>4. QED
  BY <1>1, <1>2, <1>3, PutColumns

LEMMA SentColumns ==
    ASSUME NEW v \in Tables, NEW m \in Message
    PROVE  Edited(Sent(v, m), v, m, "sent", 1, 0)
<1> DEFINE row  == [v.msg[m] EXCEPT !.status = "sent", !.err = "none", !.due = FALSE]
           told == PutMsg(v, m, row)
           c    == CampaignOf[m]
           a    == v.msg[m].account
           crow == [told.camp[c] EXCEPT !.sent = @ + 1]
           arow == [told.acct[a] EXCEPT !.sentToday = @ + 1]
<1>1. Becomes(Sent(v, m), v, m, "sent")
  BY StepStatus
<1>2. /\ \A k \in Campaign : v.camp[k] \in CampaignRow /\ v.camp[k].sent + 0 = v.camp[k].sent
                             /\ v.camp[k].failed + 0 = v.camp[k].failed
      /\ \A b \in Account : v.acct[b] \in AccountRow
                             /\ v.acct[b].sentToday + 0 = v.acct[b].sentToday
      /\ v.msg[m] \in MessageRecord /\ a \in Account /\ c \in Campaign
  BY RowType DEF CampaignRow, AccountRow
<1>3. Sent(v, m) = PutAcct(PutCamp(told, c, crow), a, arow)
  BY DEF Sent, CountSent
<1>4. row \in MessageRecord
  BY <1>2 DEF MessageRecord
<1> HIDE DEF row
<1>5. told \in Tables /\ told.camp = v.camp /\ told.acct = v.acct
  BY <1>4, PutType, PutColumns
<1> HIDE DEF told
<1>6. /\ crow.sent = v.camp[c].sent + 1 /\ crow.failed = v.camp[c].failed
      /\ crow.status = v.camp[c].status /\ crow \in CampaignRow
  BY <1>2, <1>5 DEF CampaignRow
<1>7. arow.sentToday = v.acct[a].sentToday + 1 /\ arow.enabled = v.acct[a].enabled
  BY <1>2, <1>5 DEF AccountRow
<1> HIDE DEF crow, arow, c
<1>8. PutCamp(told, c, crow) \in Tables
  BY <1>2, <1>5, <1>6, PutType
<1>9. /\ \A k \in Campaign : Sent(v, m).camp[k] = IF k = c THEN crow ELSE v.camp[k]
      /\ \A b \in Account : Sent(v, m).acct[b] = IF b = a THEN arow ELSE v.acct[b]
  BY <1>3, <1>5, <1>8, PutColumns
<1>10. QED
  BY <1>1, <1>2, <1>6, <1>7, <1>9 DEF Edited, c

LEMMA GivenUpColumns ==
    ASSUME NEW v \in Tables, NEW m \in Message, NEW s \in Dead
    PROVE  Edited(GivenUp(v, m, s), v, m, s, 0, 1)
<1> DEFINE row == [v.msg[m] EXCEPT !.status = s, !.err = "recoverable"]
           mid == PutMsg(v, m, row)
           c   == CampaignOf[m]
<1>1. Becomes(GivenUp(v, m, s), v, m, s)
  BY StepStatus
<1>2. row \in MessageRecord /\ c \in Campaign
  BY RowType DEF MessageRecord
<1>3. GivenUp(v, m, s) = CountFailed(mid, c)
  BY DEF GivenUp
<1>4. /\ \A k \in Campaign : v.camp[k].sent + 0 = v.camp[k].sent
      /\ \A b \in Account : v.acct[b].sentToday + 0 = v.acct[b].sentToday
  BY RowType DEF CampaignRow, AccountRow
<1> HIDE DEF row
<1>5. mid \in Tables /\ mid.camp = v.camp /\ mid.acct = v.acct
  BY <1>2, PutType, PutColumns
<1> HIDE DEF mid, c
<1>6. QED
  BY <1>1, <1>2, <1>3, <1>4, <1>5, CountFailedColumns DEF Edited, c

LEMMA QuietColumns ==
    ASSUME NEW v \in Tables, NEW m \in Message, NEW row \in MessageRecord
    PROVE  Edited(PutMsg(v, m, row), v, m, row.status, 0, 0)
<1>1. Becomes(PutMsg(v, m, row), v, m, row.status)
  BY RowStatus
<1>2. /\ \A k \in Campaign : v.camp[k].sent + 0 = v.camp[k].sent
                             /\ v.camp[k].failed + 0 = v.camp[k].failed
      /\ \A b \in Account : v.acct[b].sentToday + 0 = v.acct[b].sentToday
  BY RowType DEF CampaignRow, AccountRow
<1>3. QED
  BY <1>1, <1>2, PutColumns DEF Edited

LEMMA PunishedColumns ==
    ASSUME NEW row \in AccountRow, NEW o, NEW fatal
    PROVE  /\ Punished(row, o, fatal).sentToday = row.sentToday
           /\ Punished(row, o, fatal).enabled => row.enabled
BY DEF Punished, AccountRow

LEMMA NotSentColumns ==
    ASSUME NEW v \in Tables, NEW m \in Message, NEW o
    PROVE  \/ Edited(NotSent(v, m, o), v, m, "retry", 0, 0)
           \/ Edited(NotSent(v, m, o), v, m, "failed_permanent", 0, 1)
<1> DEFINE fatal == Hopeless(v, m, o)
           s     == IF fatal THEN "failed_permanent" ELSE "retry"
           row   == [v.msg[m] EXCEPT
                       !.status = s,
                       !.err = IF o = "flood_wait" THEN "recoverable" ELSE "fatal",
                       !.due = FALSE]
           told  == PutMsg(v, m, row)
           mid   == IF fatal THEN CountFailed(told, CampaignOf[m]) ELSE told
           a     == v.msg[m].account
           arow  == Punished(v.acct[a], o, fatal)
<1>1. NotSent(v, m, o) = PutAcct(mid, a, arow)
  BY DEF NotSent
<1>2. row \in MessageRecord /\ row.status = s
  BY RowType DEF MessageRecord, Dead, Pending
<1>3. /\ \A k \in Campaign : v.camp[k].sent + 0 = v.camp[k].sent
                             /\ v.camp[k].failed + 0 = v.camp[k].failed
      /\ \A b \in Account : v.acct[b] \in AccountRow
                             /\ v.acct[b].sentToday + 0 = v.acct[b].sentToday
      /\ CampaignOf[m] \in Campaign /\ a \in Account
  BY RowType DEF CampaignRow, AccountRow
<1>4. arow.sentToday = v.acct[a].sentToday /\ (arow.enabled => v.acct[a].enabled)
  BY <1>3, PunishedColumns
<1> HIDE DEF row, fatal, arow
<1>5. /\ told \in Tables /\ Becomes(told, v, m, s)
      /\ told.camp = v.camp /\ told.acct = v.acct
  BY <1>2, RowStatus, PutColumns
<1> HIDE DEF told
<1>6. CountFailed(told, CampaignOf[m]) \in Tables
  BY <1>3, <1>5, StepType
<1>7. mid \in Tables /\ mid.msg = told.msg /\ mid.acct = v.acct
  BY <1>3, <1>5, <1>6, CountFailedColumns
<1>8. \A k \in Campaign :
         /\ mid.camp[k].sent = v.camp[k].sent /\ mid.camp[k].status = v.camp[k].status
         /\ mid.camp[k].failed
               = v.camp[k].failed + (IF k = CampaignOf[m] /\ fatal THEN 1 ELSE 0)
  BY <1>3, <1>5, CountFailedColumns
<1> HIDE DEF mid
<1>9. /\ NotSent(v, m, o).msg = told.msg /\ NotSent(v, m, o).camp = mid.camp
      /\ \A b \in Account : NotSent(v, m, o).acct[b] = IF b = a THEN arow ELSE v.acct[b]
  BY <1>1, <1>7, PutStatus, PutColumns
<1>10. Becomes(NotSent(v, m, o), v, m, s)
  BY <1>5, <1>9 DEF Becomes
<1>11. Edited(NotSent(v, m, o), v, m, s, 0, IF fatal THEN 1 ELSE 0)
  BY <1>3, <1>4, <1>8, <1>9, <1>10 DEF Edited
<1>12. QED
  BY <1>11

LEMMA ScanColumns ==
    ASSUME NEW v \in Tables, NEW m \in Message
    PROVE  /\ v.camp[CampaignOf[m]].status = "queued" =>
                 Edited(Promoted(v, CampaignOf[m]), v, m, v.msg[m].status, 0, 0)
           /\ \A a \in Account : Edited(Rerouted(v, m, a), v, m, v.msg[m].status, 0, 0)
           /\ Edited(Postponed(v, m), v, m, v.msg[m].status, 0, 0)
           /\ Edited(v, v, m, v.msg[m].status, 0, 0)
           /\ LET new == MarkedSending(v, m)
              IN  /\ Edited(new, v, m, "sending", 0, 0)
                  /\ new.acct = v.acct /\ new.camp = v.camp
                  /\ new.msg[m].account = v.msg[m].account
<1> DEFINE c == CampaignOf[m]
<1>1. /\ \A k \in Campaign : v.camp[k] \in CampaignRow /\ v.camp[k].sent + 0 = v.camp[k].sent
                             /\ v.camp[k].failed + 0 = v.camp[k].failed
      /\ \A b \in Account : v.acct[b].sentToday + 0 = v.acct[b].sentToday
      /\ v.msg[m] \in MessageRecord /\ v.msg[m].attempts + 1 \in Nat /\ c \in Campaign
  BY RowType DEF CampaignRow, AccountRow, MessageRecord
<1>2. ASSUME v.camp[c].status = "queued"
      PROVE  Edited(Promoted(v, c), v, m, v.msg[m].status, 0, 0)
  <2> DEFINE row == [v.camp[c] EXCEPT !.status = "running"]
  <2>1. /\ row.status = "running" /\ row.sent = v.camp[c].sent
        /\ row.failed = v.camp[c].failed
    BY <1>1 DEF CampaignRow
  <2>2. Promoted(v, c) = PutCamp(v, c, row)
    BY DEF Promoted
  <2> HIDE DEF row
  <2>3. /\ \A k \in Campaign : Promoted(v, c).camp[k] = IF k = c THEN row ELSE v.camp[k]
        /\ Promoted(v, c).acct = v.acct /\ Promoted(v, c).msg = v.msg
    BY <2>2, PutColumns
  <2> HIDE DEF c
  <2>4. QED
    BY <1>1, <1>2, <2>1, <2>3 DEF Edited, Becomes
<1>3. ASSUME NEW a \in Account
      PROVE  Edited(Rerouted(v, m, a), v, m, v.msg[m].status, 0, 0)
  <2> DEFINE row == [v.msg[m] EXCEPT !.account = a, !.err = "none"]
  <2>1. row \in MessageRecord /\ row.status = v.msg[m].status
    BY <1>1 DEF MessageRecord
  <2>2. Rerouted(v, m, a) = PutMsg(v, m, row)
    BY DEF Rerouted
  <2> HIDE DEF row
  <2>3. QED
    BY <2>1, <2>2, QuietColumns
<1>4. Edited(Postponed(v, m), v, m, v.msg[m].status, 0, 0)
  <2> DEFINE row == [v.msg[m] EXCEPT !.due = FALSE]
  <2>1. row \in MessageRecord /\ row.status = v.msg[m].status
    BY <1>1 DEF MessageRecord
  <2>2. Postponed(v, m) = PutMsg(v, m, row)
    BY DEF Postponed
  <2> HIDE DEF row
  <2>3. QED
    BY <2>1, <2>2, QuietColumns
<1>5. Edited(v, v, m, v.msg[m].status, 0, 0)
  BY <1>1 DEF Edited, Becomes
<1>6. LET new == MarkedSending(v, m)
      IN  /\ Edited(new, v, m, "sending", 0, 0)
          /\ new.acct = v.acct /\ new.camp = v.camp
          /\ new.msg[m].account = v.msg[m].account
  <2> DEFINE row == [v.msg[m] EXCEPT !.status = "sending", !.attempts = @ + 1]
  <2>1. /\ row \in MessageRecord /\ row.status = "sending"
        /\ row.account = v.msg[m].account
    BY <1>1 DEF MessageRecord
  <2>2. MarkedSending(v, m) = PutMsg(v, m, row)
    BY DEF MarkedSending
  <2> HIDE DEF row
  <2>3. QED
    BY <2>1, <2>2, QuietColumns, PutColumns, PutStatus
<1>7. QED
  BY <1>2, <1>3, <1>4, <1>5, <1>6

-----------------------------------------------------------------------------
(* The steps, sorted by what they do to the columns the invariants are about *)

\* Tick t, become u, has written the tables new to its session.
Wrote(t, u, new) ==
    u.open /\ u.view = new /\ u.dirty = t.dirty \cup Changed(View(t), new)

Untouched == UNCHANGED <<db, req, delivered, sentDay, faults, ops>>

Starts(w) ==
    /\ tick[w].pc = "idle" /\ tick'[w].pc = "scan"
    /\ tick'[w].open /\ tick'[w].view = db /\ tick'[w].dirty = {}
    /\ \A k \in tick'[w].batch : db.msg[k].status \in Pending
    /\ Untouched

\* A message is left as it is or given up, or its campaign is started.
Scans(w, m) ==
    \E new \in Tables, s \in Pending \cup Dead \cup {"sending", "sent"}, df \in {0, 1} :
        /\ tick[w].pc = "scan" /\ tick'[w].pc = "scan" /\ At(tick[w], m)
        /\ tick'[w].batch \in {tick[w].batch, tick[w].batch \ {m}}
        /\ Wrote(tick[w], tick'[w], new)
        /\ Edited(new, View(tick[w]), m, s, 0, df)
        /\ \/ s = View(tick[w]).msg[m].status /\ df = 0
           \/ s \in Dead /\ df = 1 /\ m \notin tick'[w].batch
        /\ Untouched

Locks(w, m) ==
    LET v == View(tick[w])
        a == v.msg[m].account
    IN  \E new \in Tables :
           /\ tick[w].pc = "scan" /\ tick'[w].pc = "locked" /\ At(tick[w], m)
           /\ tick'[w].batch = tick[w].batch /\ tick'[w].held = a
           /\ Wrote(tick[w], tick'[w], new)
           /\ Edited(new, v, m, "sending", 0, 0)
           /\ new.acct = v.acct /\ new.camp = v.camp /\ new.msg[m].account = a
           /\ v.acct[a].enabled /\ ~OverQuota(a, v.acct[a])
           /\ v.camp[CampaignOf[m]].status = "running"
           /\ Untouched

\* Neither the session's copy nor the batch changes: a flush or a release.
Moves(w, from, to) ==
    /\ tick[w].pc = from /\ tick'[w].pc = to
    /\ tick'[w].open = tick[w].open /\ tick'[w].view = tick[w].view
    /\ tick'[w].dirty = tick[w].dirty /\ tick'[w].batch = tick[w].batch
    /\ to = "send" => tick'[w].held = tick[w].held
    /\ Untouched

\* A count goes up by n at key x.
Adds(old, new, Key, x, n) ==
    \A y \in Key : new[y] = old[y] + (IF y = x THEN n ELSE 0)

\* The send of m: message status, counts, and whether Telegram took it.
Calls(w, m) ==
    \E new \in Tables, ds \in {0, 1}, df \in {0, 1}, got \in {0, 1},
       s \in {"sent", "retry", "failed_permanent"} :
        /\ tick[w].pc = "send" /\ tick'[w].pc = "commit" /\ At(tick[w], m)
        /\ tick'[w].batch = tick[w].batch
        /\ Wrote(tick[w], tick'[w], new)
        /\ Edited(new, tick[w].view, m, s, ds, df)
        /\ ds = IF s = "sent" THEN 1 ELSE 0
        /\ df = IF s = "failed_permanent" THEN 1 ELSE 0
        /\ s = "sent" => got = 1
        /\ Adds(delivered, delivered', Message, m, got)
        /\ Adds(sentDay, sentDay', Account, tick[w].view.msg[m].account, got)
        /\ faults' = IF got = 1 /\ s # "sent" THEN faults + 1 ELSE faults
        /\ UNCHANGED <<db, req, ops>>

Commits(w) ==
    /\ tick[w].pc \in {"commit", "finish"}
    /\ db' = Merge(db, tick[w].view, tick[w].dirty)
    /\ ~tick'[w].open /\ tick'[w].dirty = {}
    /\ \A k \in tick'[w].batch : k \in tick[w].batch /\ ~At(tick[w], k)
    /\ tick'[w].pc = "release" \/ tick'[w] = Idle
    /\ UNCHANGED <<req, delivered, sentDay, faults, ops>>

\* Campaigns are closed whose messages, as the session sees them, are over.
Sweeps(w) ==
    \E new \in Tables :
        /\ tick[w].pc = "scan" /\ tick'[w].pc = "finish" /\ tick'[w].batch = {}
        /\ Wrote(tick[w], tick'[w], new)
        /\ new.msg = View(tick[w]).msg /\ new.acct = View(tick[w]).acct
        /\ \A c \in Campaign :
              /\ new.camp[c].sent = View(tick[w]).camp[c].sent
              /\ new.camp[c].failed = View(tick[w]).camp[c].failed
              /\ \/ new.camp[c].status = View(tick[w]).camp[c].status
                 \/ /\ new.camp[c].status \in Terminal
                    /\ \A k \in Message : CampaignOf[k] = c =>
                          \/ StatusAfter(tick[w], k) \notin Pending
                          \/ /\ <<k, "status">> \notin tick[w].dirty
                             /\ View(tick[w]).msg[k].status \notin Pending
        /\ Untouched

Dies(w) ==
    /\ tick[w].pc # "idle" /\ tick'[w] = Idle
    /\ faults' = faults + 1
    /\ UNCHANGED <<db, req, delivered, sentDay, ops>>

Ticks(w) ==
    /\ tick' = [tick EXCEPT ![w] = tick'[w]]
    /\ \/ Starts(w) \/ Moves(w, "locked", "send") \/ Moves(w, "release", "scan")
       \/ Commits(w) \/ Sweeps(w) \/ Dies(w)
       \/ \E m \in Message : Scans(w, m) \/ Locks(w, m) \/ Calls(w, m)

\* Time, the reset, and every request but a requeue's write.
Requests ==
    /\ UNCHANGED <<tick, delivered, faults>>
    /\ \A k \in Message : db'.msg[k].status = db.msg[k].status
    /\ \A c \in Campaign :
          /\ db'.camp[c].sent = db.camp[c].sent /\ db'.camp[c].failed = db.camp[c].failed
          /\ db'.camp[c].status = db.camp[c].status \/ db'.camp[c].status \notin Terminal
    /\ \A a \in Account :
          /\ db'.acct[a].enabled = db.acct[a].enabled \/ "enable" \in Ops
          /\ \/ db'.acct[a].sentToday = db.acct[a].sentToday /\ sentDay' = sentDay
             \/ db'.acct[a].sentToday = 0 /\ sentDay'[a] = 0
    /\ \/ req' = req /\ ops' \in {ops, ops + 1}
       \/ /\ req = NoRequest /\ req' # NoRequest /\ ops' = ops + 1
          /\ \A k \in req'.lost : CampaignOf[k] = req'.camp /\ db.msg[k].status \in Dead

Requeues ==
    /\ req # NoRequest /\ req' = NoRequest
    /\ UNCHANGED <<tick, delivered, faults, sentDay, ops>>
    /\ \A k \in Message :
          db'.msg[k].status = IF k \in req.lost THEN "queued" ELSE db.msg[k].status
    /\ \A c \in Campaign :
          /\ db'.camp[c].sent = db.camp[c].sent
          /\ db'.camp[c].status = db.camp[c].status \/ db'.camp[c].status \notin Terminal
    /\ db'.acct = db.acct

LEMMA WrotePass ==
    ASSUME NEW t \in Tick, NEW new, NEW m
    PROVE  /\ Wrote(t, Pass(Write(t, new), m), new)
           /\ Pass(Write(t, new), m).pc = t.pc
           /\ Pass(Write(t, new), m).batch = t.batch \ {m}
BY DEF Wrote, Write, Pass, Tick

LEMMA WroteOnce ==
    ASSUME NEW t \in Tick, NEW new
    PROVE  Wrote(t, Write(t, new), new)
           /\ Write(t, new).pc = t.pc /\ Write(t, new).batch = t.batch
BY DEF Wrote, Write, Tick

LEMMA WroteTo ==
    ASSUME NEW t \in Tick, NEW new, NEW pc
    PROVE  /\ Wrote(t, [Write(t, new) EXCEPT !.pc = pc], new)
           /\ [Write(t, new) EXCEPT !.pc = pc].pc = pc
           /\ [Write(t, new) EXCEPT !.pc = pc].batch = t.batch
BY DEF Wrote, Write, Tick

\* Flushing first changes nothing.
LEMMA Flushed ==
    ASSUME db \in Tables, NEW t \in Tick
    PROVE  LET f == Flush(Write(t, View(t)))
           IN  /\ f \in Tick /\ View(f) = View(t) /\ f.dirty = t.dirty
               /\ f.pc = t.pc /\ f.batch = t.batch /\ f.view = View(t)
               /\ f.rows = t.rows \cup Touched(t) /\ Touched(f) = Touched(t)
<1> DEFINE u == Write(t, View(t))
<1>1. Changed(View(t), View(t)) = {}
  BY DEF Changed
<1>2. u \in Tick
  BY TickType, WriteType
<1>3. /\ u.open /\ u.view = View(t) /\ u.dirty = t.dirty /\ u.rows = t.rows
      /\ u.pc = t.pc /\ u.batch = t.batch
  BY <1>1 DEF Write, Tick
<1> HIDE DEF u
<1>4. Touched(u) = Touched(t)
  BY <1>3 DEF Touched
<1>5. Flush(u) \in Tick
  BY <1>2, TickType
<1>6. /\ Flush(u).open = u.open /\ Flush(u).view = u.view /\ Flush(u).dirty = u.dirty
      /\ Flush(u).rows = u.rows \cup Touched(u) /\ Flush(u).pc = u.pc
      /\ Flush(u).batch = u.batch
  BY <1>2 DEF Flush, Tick
<1>7. View(Flush(u)) = u.view
  BY <1>3, <1>6 DEF View
<1>8. Touched(Flush(u)) = Touched(u)
  BY <1>6 DEF Touched
<1>9. QED
  BY <1>3, <1>4, <1>5, <1>6, <1>7, <1>8 DEF u

LEMMA WroteFlushed ==
    ASSUME NEW t, NEW f, NEW u, NEW new, View(f) = View(t), f.dirty = t.dirty, Wrote(f, u, new)
    PROVE  Wrote(t, u, new)
BY DEF Wrote

\* A step that leaves the loop body's message m is a scan.
LEMMA LeaveScans ==
    ASSUME TypeOK, NEW w \in Worker, NEW m \in Message, NEW t \in Tick, NEW new \in Tables,
           NEW s \in Pending \cup Dead \cup {"sending", "sent"}, NEW df \in {0, 1},
           Scanning(w, m), t.pc = tick[w].pc, t.batch = tick[w].batch,
           View(t) = View(tick[w]), t.dirty = tick[w].dirty,
           Edited(new, View(tick[w]), m, s, 0, df),
           \/ s = View(tick[w]).msg[m].status /\ df = 0
           \/ s \in Dead /\ df = 1,
           Leave(w, t, m, new)
    PROVE  Ticks(w)
<1> DEFINE u == Pass(Write(t, new), m)
<1>1. tick' = [tick EXCEPT ![w] = u] /\ Untouched
  BY DEF Leave, Untouched
<1>2. Wrote(t, u, new) /\ u.pc = t.pc /\ u.batch = t.batch \ {m}
  BY WrotePass
<1> HIDE DEF u
<1>3. tick'[w] = u
  BY <1>1 DEF TypeOK
<1>4. tick[w].pc = "scan" /\ At(tick[w], m)
  BY DEF Scanning
<1>5. Wrote(tick[w], u, new)
  BY <1>2 DEF Wrote
<1>6. tick'[w].batch = tick[w].batch \ {m} /\ m \notin tick'[w].batch /\ tick'[w].pc = "scan"
  BY <1>2, <1>3, <1>4
<1>7. Scans(w, m)
  BY <1>1, <1>3, <1>4, <1>5, <1>6 DEF Scans
<1>8. QED
  BY <1>1, <1>3, <1>7 DEF Ticks

LEMMA ScanSteps ==
    ASSUME TypeOK, NEW w \in Worker, NEW m \in Message,
           \/ SkipCampaign(w, m) \/ Promote(w, m) \/ AccountGone(w, m)
           \/ Postpone(w, m) \/ FailNoTarget(w, m) \/ LockBusy(w, m)
    PROVE  Ticks(w)
<1> DEFINE v == View(tick[w])
           old == v.msg[m].status
<1>1. tick[w] \in Tick /\ db \in Tables /\ v \in Tables
  BY TickType DEF TypeOK
<1>2. Scanning(w, m)
  BY DEF SkipCampaign, Promote, AccountGone, Postpone, FailNoTarget, LockBusy,
         Sendable, WithinQuota
<1>3. old \in Pending \cup Dead \cup {"sending", "sent"}
  BY <1>1, RowType DEF MessageRecord
<1>4. CASE SkipCampaign(w, m)
  <2>1. Leave(w, tick[w], m, v) /\ Edited(v, v, m, old, 0, 0)
    BY <1>1, <1>4, ScanColumns DEF SkipCampaign
  <2>2. QED
    BY <1>1, <1>2, <1>3, <2>1, LeaveScans
<1>5. CASE Promote(w, m)
  <2> DEFINE new == Promoted(v, CampaignOf[m])
             u == Write(tick[w], new)
  <2>1. new \in Tables /\ Edited(new, v, m, old, 0, 0)
    BY <1>1, <1>5, ScanColumns, StepType, RowType DEF Promote
  <2>2. tick' = [tick EXCEPT ![w] = u] /\ Untouched
    BY <1>5 DEF Promote, Untouched
  <2> HIDE DEF new
  <2>3. Wrote(tick[w], u, new) /\ u.pc = tick[w].pc /\ u.batch = tick[w].batch
    BY <1>1, WroteOnce
  <2> HIDE DEF u
  <2>4. tick'[w] = u
    BY <2>2 DEF TypeOK
  <2>5. Scans(w, m)
    BY <1>2, <1>3, <2>1, <2>2, <2>3, <2>4 DEF Scans, Scanning
  <2>6. QED
    BY <2>2, <2>4, <2>5 DEF Ticks
<1>6. CASE AccountGone(w, m)
  <2> DEFINE f == Flush(Write(tick[w], v))
  <2>1. /\ f \in Tick /\ f.pc = tick[w].pc /\ f.batch = tick[w].batch
        /\ View(f) = v /\ f.dirty = tick[w].dirty
    BY <1>1, Flushed
  <2>2. Write(tick[w], v).view = v
    BY <1>1, SessionStatus
  <2>3. \/ \E a \in Alternates(f, m) : Leave(w, f, m, Rerouted(v, m, a))
        \/ Leave(w, f, m, GivenUp(v, m, "failed"))
    BY <1>6, <2>2 DEF AccountGone
  <2>4. \A a \in Alternates(f, m) : a \in Account
    BY ConstantsAssumption DEF Alternates
  <2> HIDE DEF f
  <2>5. ASSUME NEW a \in Alternates(f, m), Leave(w, f, m, Rerouted(v, m, a))
        PROVE  Ticks(w)
    <3>1. Rerouted(v, m, a) \in Tables /\ Edited(Rerouted(v, m, a), v, m, old, 0, 0)
      BY <1>1, <2>4, ScanColumns, StepType, RowType
    <3>2. QED
      BY <1>2, <1>3, <2>1, <2>5, <3>1, LeaveScans
  <2>6. CASE Leave(w, f, m, GivenUp(v, m, "failed"))
    <3>1. "failed" \in Dead
      BY DEF Dead
    <3>2. /\ GivenUp(v, m, "failed") \in Tables
          /\ Edited(GivenUp(v, m, "failed"), v, m, "failed", 0, 1)
      BY <1>1, <3>1, GivenUpColumns, ResultType
    <3>3. QED
      BY <1>2, <2>1, <2>6, <3>1, <3>2, LeaveScans
  <2>7. QED
    BY <2>3, <2>5, <2>6
<1>7. CASE Postpone(w, m) \/ LockBusy(w, m)
  <2>1. Leave(w, tick[w], m, Postponed(v, m))
    BY <1>7 DEF Postpone, LockBusy
  <2>2. Postponed(v, m) \in Tables /\ Edited(Postponed(v, m), v, m, old, 0, 0)
    BY <1>1, ScanColumns, StepType, RowType
  <2>3. QED
    BY <1>1, <1>2, <1>3, <2>1, <2>2, LeaveScans
<1>8. CASE FailNoTarget(w, m)
  <2> DEFINE s == "failed_permanent"
  <2>1. s \in Dead /\ Leave(w, tick[w], m, GivenUp(v, m, s))
    BY <1>8 DEF FailNoTarget, Dead
  <2>2. GivenUp(v, m, s) \in Tables /\ Edited(GivenUp(v, m, s), v, m, s, 0, 1)
    BY <1>1, <2>1, GivenUpColumns, ResultType
  <2>3. QED
    BY <1>1, <1>2, <2>1, <2>2, LeaveScans
<1>9. QED
  BY <1>4, <1>5, <1>6, <1>7, <1>8

LEMMA LockSteps ==
    ASSUME TypeOK, NEW w \in Worker, NEW m \in Message, AcquireLock(w, m)
    PROVE  Ticks(w)
<1> DEFINE v == View(tick[w])
           a == v.msg[m].account
           new == MarkedSending(v, m)
           u == [Write(tick[w], new) EXCEPT !.pc = "locked", !.held = a]
<1>1. tick[w] \in Tick /\ db \in Tables /\ v \in Tables
  BY TickType DEF TypeOK
<1>2. /\ tick[w].pc = "scan" /\ At(tick[w], m)
      /\ v.acct[a].enabled /\ ~OverQuota(a, v.acct[a])
      /\ v.camp[CampaignOf[m]].status = "running"
  BY DEF AcquireLock, WithinQuota, Sendable, Scanning, Usable
<1>3. /\ Edited(new, v, m, "sending", 0, 0) /\ new.acct = v.acct /\ new.camp = v.camp
      /\ new.msg[m].account = a
  BY <1>1, ScanColumns
<1>4. new \in Tables
  BY <1>1, StepType, RowType
<1>5. tick' = [tick EXCEPT ![w] = u] /\ Untouched
  BY DEF AcquireLock, Untouched
<1> HIDE DEF new, a, v
<1>6. Wrote(tick[w], u, new) /\ u.pc = "locked" /\ u.batch = tick[w].batch /\ u.held = a
  BY <1>1 DEF Wrote, Write, Tick
<1> HIDE DEF u
<1>7. tick'[w] = u
  BY <1>5 DEF TypeOK
<1>8. Locks(w, m)
  BY <1>2, <1>3, <1>4, <1>5, <1>6, <1>7 DEF Locks, a, v
<1>9. QED
  BY <1>5, <1>7, <1>8 DEF Ticks

LEMMA CallWrites ==
    ASSUME TypeOK, NEW w \in Worker, NEW m \in Message, NEW new \in Tables,
           NEW reached \in BOOLEAN, Telegram(w, m, new, reached)
    PROVE  LET got == IF reached THEN 1 ELSE 0
           IN  /\ tick' = [tick EXCEPT ![w] = tick'[w]]
               /\ tick[w].pc = "send" /\ tick'[w].pc = "commit" /\ At(tick[w], m)
               /\ tick'[w].batch = tick[w].batch
               /\ Wrote(tick[w], tick'[w], new)
               /\ Adds(delivered, delivered', Message, m, got)
               /\ Adds(sentDay, sentDay', Account, tick[w].view.msg[m].account, got)
               /\ UNCHANGED <<db, req, ops>>
<1> DEFINE u == [Write(tick[w], new) EXCEPT !.pc = "commit"]
           a == tick[w].view.msg[m].account
<1>1. tick[w] \in Tick /\ a \in Account
  BY RowType DEF TypeOK, Tick
<1>2. /\ tick' = [tick EXCEPT ![w] = u]
      /\ tick[w].pc = "send" /\ At(tick[w], m)
      /\ UNCHANGED <<db, req, ops>>
  BY DEF Telegram
<1>3. Wrote(tick[w], u, new) /\ u.pc = "commit" /\ u.batch = tick[w].batch
  BY <1>1, WroteTo
<1> HIDE DEF u
<1>4. tick'[w] = u
  BY <1>2 DEF TypeOK
<1>5. /\ delivered \in [Message -> Nat] /\ sentDay \in [Account -> Nat]
      /\ \A k \in Message : delivered[k] + 0 = delivered[k]
      /\ \A b \in Account : sentDay[b] + 0 = sentDay[b]
  BY DEF TypeOK
<1> DEFINE got == IF reached THEN 1 ELSE 0
<1>6. Adds(delivered, delivered', Message, m, got)
  BY <1>5 DEF Telegram, Adds
<1>7. Adds(sentDay, sentDay', Account, a, got)
  BY <1>1, <1>5 DEF Telegram, Adds
<1>8. QED
  BY <1>2, <1>3, <1>4, <1>6, <1>7

LEMMA CallSteps ==
    ASSUME TypeOK, NEW w \in Worker, NEW m \in Message,
           SendOk(w, m) \/ SendError(w, m) \/ ReplyLost(w, m)
    PROVE  Ticks(w)
<1> DEFINE v == tick[w].view
<1>1. v \in Tables
  BY DEF TypeOK, Tick
<1>2. CASE SendOk(w, m)
  <2>1. /\ Telegram(w, m, Sent(v, m), TRUE) /\ faults' = faults
        /\ Sent(v, m) \in Tables /\ Edited(Sent(v, m), v, m, "sent", 1, 0)
    BY <1>1, <1>2, SentColumns, ResultType DEF SendOk
  <2>2. Calls(w, m) /\ tick' = [tick EXCEPT ![w] = tick'[w]]
    BY <2>1, CallWrites DEF Calls
  <2>3. QED
    BY <2>2 DEF Ticks
<1>3. ASSUME NEW o, NEW reached \in BOOLEAN, Telegram(w, m, NotSent(v, m, o), reached),
             faults' = IF reached THEN faults + 1 ELSE faults
      PROVE  Ticks(w)
  <2> DEFINE new == NotSent(v, m, o)
  <2>1. new \in Tables
    BY <1>1, ResultType
  <2>2. PICK s \in {"retry", "failed_permanent"}, df \in {0, 1} :
           Edited(new, v, m, s, 0, df) /\ df = IF s = "failed_permanent" THEN 1 ELSE 0
    BY <1>1, NotSentColumns
  <2> HIDE DEF new
  <2> DEFINE got == IF reached THEN 1 ELSE 0
  <2>3. /\ tick' = [tick EXCEPT ![w] = tick'[w]]
        /\ tick[w].pc = "send" /\ tick'[w].pc = "commit" /\ At(tick[w], m)
        /\ tick'[w].batch = tick[w].batch
        /\ Wrote(tick[w], tick'[w], new)
        /\ Adds(delivered, delivered', Message, m, got)
        /\ Adds(sentDay, sentDay', Account, tick[w].view.msg[m].account, got)
        /\ UNCHANGED <<db, req, ops>>
    BY <1>3, <2>1, CallWrites DEF new
  <2>4. got \in {0, 1} /\ faults' = IF got = 1 /\ s # "sent" THEN faults + 1 ELSE faults
    BY <1>3, <2>2
  <2> HIDE DEF got
  <2>5. Calls(w, m)
    BY <2>1, <2>2, <2>3, <2>4 DEF Calls
  <2>6. QED
    BY <2>3, <2>5 DEF Ticks
<1>4. CASE SendError(w, m)
  <2>1. PICK o : Telegram(w, m, NotSent(v, m, o), FALSE)
    BY <1>4 DEF SendError
  <2>2. faults' = faults
    BY <1>4 DEF SendError
  <2>3. QED
    BY <1>3, <2>1, <2>2
<1>5. CASE ReplyLost(w, m)
  <2>1. Telegram(w, m, NotSent(v, m, "transient"), TRUE) /\ faults' = faults + 1
    BY <1>5 DEF ReplyLost
  <2>2. QED
    BY <1>3, <2>1
<1>6. QED
  BY <1>2, <1>4, <1>5

\* Whether a session sees message k pending, or campaign c running, at its sweep.
LEMMA SweepColumns ==
    ASSUME TypeOK, NEW t \in Tick, t.open \/ t.dirty = {}
    PROVE  LET f   == Flush(Write(t, View(t)))
               new == SweptTables(f)
           IN  /\ new \in Tables /\ new.msg = View(t).msg /\ new.acct = View(t).acct
               /\ \A c \in Campaign :
                     /\ new.camp[c].sent = View(t).camp[c].sent
                     /\ new.camp[c].failed = View(t).camp[c].failed
                     /\ \/ new.camp[c].status = View(t).camp[c].status
                        \/ /\ new.camp[c].status \in Terminal
                           /\ \A k \in Message : CampaignOf[k] = c =>
                                 \/ StatusAfter(t, k) \notin Pending
                                 \/ /\ <<k, "status">> \notin t.dirty
                                    /\ View(t).msg[k].status \notin Pending
<1> DEFINE f == Flush(Write(t, View(t)))
           new == SweptTables(f)
           v == View(t)
<1>1. db \in Tables /\ v \in Tables
  BY TickType DEF TypeOK
<1>2. /\ f \in Tick /\ f.dirty = t.dirty /\ f.view = v
      /\ f.rows = t.rows \cup Touched(t)
  BY <1>1, Flushed
<1>3. View(t) = IF t.open THEN t.view ELSE db
  BY DEF View
<1> HIDE DEF f, v
<1>4. new \in Tables
  BY <1>2, SweepType
<1>5. /\ new.msg = v.msg /\ new.acct = v.acct
      /\ \A c \in Campaign : new.camp[c] = IF Over(Seen(f), c) THEN Finished(v.camp[c])
                                                              ELSE v.camp[c]
  BY <1>1, <1>2 DEF SweptTables, Tables
<1>6. \A c \in Campaign : LET row == v.camp[c]
                          IN  /\ Finished(row).sent = row.sent
                              /\ Finished(row).failed = row.failed
                              /\ Finished(row).status \in Terminal
  BY <1>1, RowType DEF Finished, FinalStatus, CampaignRow, Terminal
<1>7. ASSUME NEW c \in Campaign, Over(Seen(f), c), NEW k \in Message, CampaignOf[k] = c
      PROVE  \/ StatusAfter(t, k) \notin Pending
             \/ <<k, "status">> \notin t.dirty /\ v.msg[k].status \notin Pending
  <2>1. Seen(f).msg[k].status \notin Pending
    BY <1>7 DEF Over, Unfinished
  <2>2. Seen(f).msg[k] = IF k \in f.rows THEN Merge(db, v, t.dirty).msg[k] ELSE v.msg[k]
    BY <1>2 DEF Seen
  <2>3. CASE k \in f.rows
    <3>1. Merge(db, v, t.dirty).msg[k].status
             = IF <<k, "status">> \in t.dirty THEN v.msg[k].status ELSE db.msg[k].status
      BY DEF Merge
    <3>2. CASE <<k, "status">> \notin t.dirty
      BY <2>1, <2>2, <2>3, <3>1, <3>2 DEF StatusAfter
    <3>3. CASE <<k, "status">> \in t.dirty /\ t.open
      BY <2>1, <2>2, <2>3, <3>1, <3>3, <1>3 DEF StatusAfter, v
    <3>4. QED
      BY <3>2, <3>3
  <2>4. CASE k \notin f.rows
    <3>1. k \notin Touched(t)
      BY <1>2, <2>4
    <3>2. <<k, "status">> \notin t.dirty
      BY <3>1 DEF Touched
    <3>3. QED
      BY <2>1, <2>2, <2>4, <3>2
  <2>5. QED
    BY <2>3, <2>4
<1>8. QED
  BY <1>4, <1>5, <1>6, <1>7 DEF v, f

LEMMA WholeSteps ==
    ASSUME TypeOK, Shape, Serial, NEW w \in Worker,
           \/ StartTick(w) \/ FlushSending(w) \/ Release(w) \/ Sweep(w)
           \/ FinalCommit(w) \/ Abort(w) \/ Crash(w) \/ \E m \in Message : Commit(w, m)
    PROVE  Ticks(w)
<1>1. tick[w] \in Tick /\ db \in Tables /\ tick[w].batch \subseteq Message
  BY DEF TypeOK, Tick
<1>2. CASE StartTick(w)
  <2>1. PICK b \in SUBSET {m \in Message : Due(m)} : tick' = [tick EXCEPT ![w] =
                   [Idle EXCEPT !.pc = "scan", !.open = TRUE, !.view = db, !.batch = b]]
    <3> DEFINE ready == {m \in Message : Due(m)}
               b == {m \in ready : Cardinality({n \in ready : n < m}) < BatchSize}
    <3>1. b \in SUBSET ready
      OBVIOUS
    <3>2. tick' = [tick EXCEPT ![w] =
                   [Idle EXCEPT !.pc = "scan", !.open = TRUE, !.view = db, !.batch = b]]
      BY <1>2 DEF StartTick
    <3> HIDE DEF b
    <3>3. QED
      BY <3>1, <3>2
  <2> DEFINE u == [Idle EXCEPT !.pc = "scan", !.open = TRUE, !.view = db, !.batch = b]
  <2>2. u.pc = "scan" /\ u.open /\ u.view = db /\ u.dirty = {} /\ u.batch = b
    BY DEF Idle
  <2>3. tick' = [tick EXCEPT ![w] = u] /\ tick[w].pc = "idle" /\ Untouched
    BY <1>2, <2>1 DEF StartTick, Untouched
  <2> HIDE DEF u
  <2>4. tick'[w] = u
    BY <2>3 DEF TypeOK
  <2>5. \A k \in b : db.msg[k].status \in Pending
    BY DEF Due
  <2>6. Starts(w)
    BY <2>2, <2>3, <2>4, <2>5 DEF Starts
  <2>7. QED
    BY <2>3, <2>4, <2>6 DEF Ticks
<1>3. CASE FlushSending(w)
  <2> DEFINE u == [Flush(tick[w]) EXCEPT !.pc = "send"]
  <2>1. /\ u.pc = "send" /\ u.open = tick[w].open /\ u.view = tick[w].view
        /\ u.dirty = tick[w].dirty /\ u.batch = tick[w].batch /\ u.held = tick[w].held
    BY <1>1 DEF Flush, Tick
  <2>2. tick' = [tick EXCEPT ![w] = u] /\ tick[w].pc = "locked" /\ Untouched
    BY <1>3 DEF FlushSending, Untouched
  <2> HIDE DEF u
  <2>3. tick'[w] = u
    BY <2>2 DEF TypeOK
  <2>4. QED
    BY <2>1, <2>2, <2>3 DEF Moves, Ticks
<1>4. CASE Release(w)
  <2> DEFINE u == [[tick[w] EXCEPT !.pc = "scan"] EXCEPT !.held = NoAccount]
  <2>1. /\ u.pc = "scan" /\ u.open = tick[w].open /\ u.view = tick[w].view
        /\ u.dirty = tick[w].dirty /\ u.batch = tick[w].batch
    BY <1>1 DEF Tick
  <2>2. tick' = [tick EXCEPT ![w] = u] /\ tick[w].pc = "release" /\ Untouched
    BY <1>4 DEF Release, Untouched, TypeOK
  <2> HIDE DEF u
  <2>3. tick'[w] = u
    BY <2>2 DEF TypeOK
  <2>4. QED
    BY <2>1, <2>2, <2>3 DEF Moves, Ticks
<1>5. ASSUME NEW m \in Message, Commit(w, m)
      PROVE  Ticks(w)
  <2> DEFINE u == [Closed(Pass(tick[w], m)) EXCEPT !.pc = "release"]
  <2>1. /\ u.pc = "release" /\ ~u.open /\ u.dirty = {} /\ u.batch = tick[w].batch \ {m}
    BY <1>1 DEF Closed, Pass, Tick
  <2>2. /\ tick' = [tick EXCEPT ![w] = u] /\ tick[w].pc = "commit" /\ At(tick[w], m)
        /\ db' = Merge(db, tick[w].view, tick[w].dirty)
        /\ UNCHANGED <<req, delivered, sentDay, faults, ops>>
    BY <1>5 DEF Commit
  <2> HIDE DEF u
  <2>3. tick'[w] = u
    BY <2>2 DEF TypeOK
  <2>4. \A k : At(tick[w], k) => k = m
    BY <1>1, <2>2, AtUnique
  <2>5. Commits(w)
    BY <2>1, <2>2, <2>3, <2>4 DEF Commits
  <2>6. QED
    BY <2>2, <2>3, <2>5 DEF Ticks
<1>6. CASE FinalCommit(w)
  <2>1. /\ tick' = [tick EXCEPT ![w] = Idle] /\ tick[w].pc = "finish"
        /\ db' = Merge(db, tick[w].view, tick[w].dirty)
        /\ UNCHANGED <<req, delivered, sentDay, faults, ops>>
    BY <1>6 DEF FinalCommit
  <2>2. tick'[w] = Idle /\ ~Idle.open /\ Idle.dirty = {} /\ Idle.batch = {}
    BY <2>1 DEF TypeOK, Idle
  <2>3. Commits(w)
    BY <2>1, <2>2 DEF Commits
  <2>4. QED
    BY <2>1, <2>2, <2>3 DEF Ticks
<1>7. CASE Sweep(w)
  <2> DEFINE f == Flush(Write(tick[w], View(tick[w])))
             new == SweptTables(f)
             u == [Write(f, new) EXCEPT !.pc = "finish"]
  <2>1. /\ f \in Tick /\ View(f) = View(tick[w]) /\ f.dirty = tick[w].dirty
        /\ f.batch = tick[w].batch
    BY <1>1, Flushed
  <2>2. /\ tick' = [tick EXCEPT ![w] = u] /\ tick[w].pc = "scan" /\ tick[w].batch = {}
        /\ Untouched
    BY <1>7 DEF Sweep, Untouched
  <2>3. /\ new \in Tables
        /\ new.msg = View(tick[w]).msg /\ new.acct = View(tick[w]).acct
        /\ \A c \in Campaign :
              /\ new.camp[c].sent = View(tick[w]).camp[c].sent
              /\ new.camp[c].failed = View(tick[w]).camp[c].failed
              /\ \/ new.camp[c].status = View(tick[w]).camp[c].status
                 \/ /\ new.camp[c].status \in Terminal
                    /\ \A k \in Message : CampaignOf[k] = c =>
                          \/ StatusAfter(tick[w], k) \notin Pending
                          \/ /\ <<k, "status">> \notin tick[w].dirty
                             /\ View(tick[w]).msg[k].status \notin Pending
    <3>1. tick[w].open \/ tick[w].dirty = {}
      BY DEF Shape
    <3>2. QED
      BY <1>1, <3>1, SweepColumns
  <2> HIDE DEF f, new
  <2>4. Wrote(f, u, new) /\ u.pc = "finish" /\ u.batch = f.batch
    BY <2>1, WroteTo
  <2> HIDE DEF u
  <2>5. Wrote(tick[w], u, new)
    BY <2>1, <2>4, WroteFlushed
  <2>6. tick'[w] = u
    BY <2>2 DEF TypeOK
  <2>7. Sweeps(w)
    BY <2>1, <2>2, <2>3, <2>4, <2>5, <2>6 DEF Sweeps
  <2>8. QED
    BY <2>2, <2>6, <2>7 DEF Ticks
<1>8. CASE Abort(w)
  <2>1. tick[w].pc # "idle"
    BY <1>8 DEF Abort, Blocked, Scanning
  <2>2. \A v \in Worker \ {w} : tick[v].rows = {}
    BY <2>1 DEF Serial, Shape, Idle
  <2>3. Free(w, tick[w])
    BY <2>2 DEF Free
  <2>4. QED
    BY <1>8, <2>3 DEF Abort, Blocked
<1>9. CASE Crash(w)
  <2>1. tick' = [tick EXCEPT ![w] = Idle] /\ tick'[w] = Idle
    BY <1>9 DEF Crash, TypeOK
  <2>2. QED
    BY <1>9, <2>1 DEF Crash, Dies, Ticks
<1>10. QED
  BY <1>2, <1>3, <1>4, <1>5, <1>6, <1>7, <1>8, <1>9

\* What time, the reset and the requests do to the columns.
LEMMA ClockSteps ==
    ASSUME TypeOK, Environment
    PROVE  Requests
<1>1. db \in Tables /\ db.camp \in [Campaign -> CampaignRow]
      /\ db.acct \in [Account -> AccountRow] /\ db.msg \in [Message -> MessageRecord]
  BY DEF TypeOK, Tables
<1>2. ASSUME NEW a \in Account, LockExpires(a) PROVE Requests
  BY <1>2 DEF LockExpires, Requests
<1>3. ASSUME NEW m \in Message, BecomesDue(m) PROVE Requests
  <2> DEFINE row == [db.msg[m] EXCEPT !.due = TRUE]
  <2>1. row.status = db.msg[m].status
    BY <1>1 DEF MessageRecord
  <2>2. db' = PutMsg(db, m, row)
    BY <1>3 DEF BecomesDue
  <2>3. UNCHANGED <<tick, req, delivered, sentDay, faults, ops>>
    BY <1>3 DEF BecomesDue
  <2> HIDE DEF row
  <2>4. /\ \A k \in Message : db'.msg[k].status = db.msg[k].status
        /\ db'.camp = db.camp /\ db'.acct = db.acct
    BY <1>1, <2>1, <2>2, PutStatus, PutColumns
  <2>5. QED
    BY <2>3, <2>4 DEF Requests
<1>4. CASE ResetDailyQuota
  <2>1. /\ db' = [db EXCEPT !.acct = [a \in Account |-> [db.acct[a] EXCEPT !.sentToday = 0]]]
        /\ sentDay' = [a \in Account |-> 0]
        /\ UNCHANGED <<tick, req, delivered, faults, ops>>
    BY <1>4 DEF ResetDailyQuota
  <2>2. db'.msg = db.msg /\ db'.camp = db.camp
    BY <1>1, <2>1 DEF Tables
  <2>3. \A a \in Account : db'.acct[a] = [db.acct[a] EXCEPT !.sentToday = 0]
    BY <1>1, <2>1 DEF Tables
  <2>4. \A a \in Account : db'.acct[a].enabled = db.acct[a].enabled /\ db'.acct[a].sentToday = 0
    BY <1>1, <2>3 DEF AccountRow
  <2>5. QED
    BY <2>1, <2>2, <2>4 DEF Requests
<1>5. QED
  BY <1>2, <1>3, <1>4 DEF Environment

LEMMA RequestSteps ==
    ASSUME TypeOK, Outside
    PROVE  Requests \/ Requeues
<1>1. db \in Tables /\ db.camp \in [Campaign -> CampaignRow]
      /\ db.acct \in [Account -> AccountRow] /\ db.msg \in [Message -> MessageRecord]
  BY DEF TypeOK, Tables
<1>2. ASSUME NEW c \in Campaign, NEW kind, NEW s \in {"running", "paused", "cancelled"},
             SetCampaign(c, kind, s)
      PROVE  Requests
  <2> DEFINE row == [db.camp[c] EXCEPT !.status = s]
  <2>1. /\ row.status = s /\ row.sent = db.camp[c].sent
        /\ row.failed = db.camp[c].failed
    BY <1>1 DEF CampaignRow
  <2>2. db' = PutCamp(db, c, row)
    BY <1>2 DEF SetCampaign
  <2>3. UNCHANGED <<tick, req, delivered, sentDay, faults>> /\ ops' = ops + 1
    BY <1>2 DEF SetCampaign, Operation
  <2> HIDE DEF row
  <2>4. /\ \A k \in Campaign : db'.camp[k] = IF k = c THEN row ELSE db.camp[k]
        /\ db'.msg = db.msg /\ db'.acct = db.acct
    BY <1>1, <2>2, PutColumns
  <2>5. s \notin Terminal
    BY DEF Terminal
  <2>6. QED
    BY <2>1, <2>3, <2>4, <2>5 DEF Requests
<1>3. ASSUME NEW c \in Campaign, RequeueRead(c) PROVE Requests
  <2>1. PICK lost \in SUBSET Message :
           /\ req' = [camp |-> c, lost |-> lost, row |-> db.camp[c]]
           /\ \A k \in lost : CampaignOf[k] = c /\ db.msg[k].status \in Dead
    <3> DEFINE lost == {m \in Message : /\ CampaignOf[m] = c
                                       /\ db.msg[m].status \in Dead
                                       /\ db.msg[m].err = "recoverable"}
    <3>1. req' = [camp |-> c, lost |-> lost, row |-> db.camp[c]]
      BY <1>3 DEF RequeueRead
    <3>2. /\ lost \in SUBSET Message
          /\ \A k \in lost : CampaignOf[k] = c /\ db.msg[k].status \in Dead
      OBVIOUS
    <3> HIDE DEF lost
    <3>3. QED
      BY <3>1, <3>2
  <2>2. /\ req = NoRequest /\ ops' = ops + 1
        /\ UNCHANGED <<db, tick, delivered, sentDay, faults>>
    BY <1>3 DEF RequeueRead, Operation
  <2>3. req'.lost = lost /\ req'.camp = c
    BY <2>1
  <2>4. CASE req' # NoRequest
    BY <2>1, <2>2, <2>3, <2>4 DEF Requests
  <2>5. CASE req' = NoRequest
    BY <2>2, <2>5 DEF Requests
  <2>6. QED
    BY <2>4, <2>5
<1>4. CASE RequeueWrite
  <2> DEFINE c == req.camp
             n == Cardinality(req.lost)
             low == IF req.row.failed > n THEN req.row.failed - n ELSE 0
             row == [db.camp[c] EXCEPT
                       !.failed = IF low = req.row.failed THEN @ ELSE low,
                       !.status = IF req.row.status \in Terminal THEN "running" ELSE @]
             mid == [db EXCEPT !.msg = [m \in Message |->
                        IF m \in req.lost THEN Requeued(@[m]) ELSE @[m]]]
  <2>1. /\ req # NoRequest /\ req' = NoRequest /\ db' = PutCamp(mid, c, row)
        /\ UNCHANGED <<tick, delivered, sentDay, faults, ops>>
    BY <1>4 DEF RequeueWrite
  <2>2. c \in Campaign
    BY <2>1 DEF TypeOK
  <2>3. /\ row.sent = db.camp[c].sent
        /\ row.status = db.camp[c].status \/ row.status \notin Terminal
    BY <1>1, <2>2 DEF CampaignRow, Terminal
  <2>4. /\ mid.camp = db.camp /\ mid.acct = db.acct
        /\ \A k \in Message : mid.msg[k] = IF k \in req.lost THEN Requeued(db.msg[k])
                                                             ELSE db.msg[k]
    BY <1>1 DEF Tables
  <2>5. \A k \in Message : Requeued(db.msg[k]).status = "queued"
    BY <1>1 DEF Requeued, MessageRecord
  <2>6. /\ db'.msg = mid.msg /\ db'.acct = mid.acct
        /\ \A k \in Campaign : db'.camp[k] = IF k = c THEN row ELSE db.camp[k]
    BY <1>1, <2>1, <2>2 DEF PutCamp, Tables
  <2> HIDE DEF row, mid, c
  <2>7. QED
    BY <2>1, <2>3, <2>4, <2>5, <2>6 DEF Requeues
<1>5. ASSUME NEW a \in Account, EnableAccount(a) PROVE Requests
  <2>1. PICK e \in BOOLEAN : db' = PutAcct(db, a, [db.acct[a] EXCEPT !.enabled = e])
    BY <1>5 DEF EnableAccount
  <2>2. /\ "enable" \in Ops /\ ops' = ops + 1
        /\ UNCHANGED <<tick, req, delivered, sentDay, faults>>
    BY <1>5 DEF EnableAccount, Operation
  <2>3. [db.acct[a] EXCEPT !.enabled = e].sentToday = db.acct[a].sentToday
    BY <1>1 DEF AccountRow
  <2>4. /\ db'.msg = db.msg /\ db'.camp = db.camp
        /\ \A b \in Account : db'.acct[b].sentToday = db.acct[b].sentToday
    BY <1>1, <2>1, <2>3, PutStatus, PutColumns DEF PutAcct, Tables
  <2>5. QED
    BY <2>2, <2>4 DEF Requests
<1>6. ASSUME NEW a \in Account, ValidateAccount(a) PROVE Requests
  <2>1. PICK s \in {"active", "error"} : db' = PutAcct(db, a, [db.acct[a] EXCEPT !.status = s])
    BY <1>6 DEF ValidateAccount
  <2>2. /\ ops' = ops + 1 /\ UNCHANGED <<tick, req, delivered, sentDay, faults>>
    BY <1>6 DEF ValidateAccount, Operation
  <2>3. /\ [db.acct[a] EXCEPT !.status = s].sentToday = db.acct[a].sentToday
        /\ [db.acct[a] EXCEPT !.status = s].enabled = db.acct[a].enabled
    BY <1>1 DEF AccountRow
  <2>4. /\ db'.msg = db.msg /\ db'.camp = db.camp
        /\ \A b \in Account : /\ db'.acct[b].sentToday = db.acct[b].sentToday
                              /\ db'.acct[b].enabled = db.acct[b].enabled
    BY <1>1, <2>1, <2>3, PutStatus, PutColumns DEF PutAcct, Tables
  <2>5. QED
    BY <2>2, <2>4 DEF Requests
<1>7. QED
  BY <1>2, <1>3, <1>4, <1>5, <1>6 DEF Outside, StartCampaign, PauseCampaign, CancelCampaign

\* While ticks take turns, every step is one of these.
LEMMA SerialSteps ==
    ASSUME TypeOK, Shape, Serial, [Next]_vars
    PROVE  \/ \E w \in Worker : Ticks(w)
           \/ Requests
           \/ Requeues
           \/ UNCHANGED <<db, tick, req, delivered, sentDay, faults, ops>>
<1>1. ASSUME NEW w \in Worker, Run(w) \/ StartTick(w) \/ Crash(w)
                               \/ \E m \in Message : ReplyLost(w, m)
      PROVE  Ticks(w)
  BY <1>1, ScanSteps, LockSteps, CallSteps, WholeSteps DEF Run
<1>2. CASE UNCHANGED vars
  BY <1>2 DEF vars
<1>3. QED
  BY <1>1, <1>2, ClockSteps, RequestSteps DEF Next

-----------------------------------------------------------------------------
(* The session and the committed statuses                                  *)

LEMMA ChangedColumns ==
    ASSUME NEW v, NEW new
    PROVE  /\ \A k \in Message :
                 <<k, "status">> \in Changed(v, new)
                    <=> v.msg[k].status # new.msg[k].status
           /\ \A c \in Campaign :
                 /\ <<c, "status">> \in Changed(v, new)
                       <=> v.camp[c].status # new.camp[c].status
                 /\ <<c, "sent">> \in Changed(v, new) <=> v.camp[c].sent # new.camp[c].sent
                 /\ <<c, "failed">> \in Changed(v, new)
                       <=> v.camp[c].failed # new.camp[c].failed
           /\ \A a \in Account :
                 <<a, "sentToday">> \in Changed(v, new)
                    <=> v.acct[a].sentToday # new.acct[a].sentToday
<1>1. \A k \in Message : k \notin Campaign /\ k \notin Account
  BY ConstantsAssumption
<1>2. \A c \in Campaign : c \notin Message /\ c \notin Account
  BY ConstantsAssumption
<1>3. \A a \in Account : a \notin Campaign /\ a \notin Message
  BY ConstantsAssumption
<1>4. ASSUME NEW k \in Message
      PROVE  <<k, "status">> \in Changed(v, new) <=> v.msg[k].status # new.msg[k].status
  BY <1>1 DEF Changed
<1>5. ASSUME NEW c \in Campaign
      PROVE  /\ <<c, "status">> \in Changed(v, new)
                   <=> v.camp[c].status # new.camp[c].status
             /\ <<c, "sent">> \in Changed(v, new) <=> v.camp[c].sent # new.camp[c].sent
             /\ <<c, "failed">> \in Changed(v, new)
                   <=> v.camp[c].failed # new.camp[c].failed
  BY <1>2 DEF Changed
<1>6. ASSUME NEW a \in Account
      PROVE  <<a, "sentToday">> \in Changed(v, new)
                <=> v.acct[a].sentToday # new.acct[a].sentToday
  BY <1>3 DEF Changed
<1>7. QED
  BY <1>4, <1>5, <1>6

\* While tick w moves, the others are idle.
LEMMA Alone ==
    ASSUME TypeOK, Shape, Serial, Serial', NEW w \in Worker, Ticks(w)
    PROVE  /\ \A v \in Worker \ {w} : tick[v] = Idle /\ tick'[v] = Idle
           /\ tick[w] \in Tick /\ View(tick[w]) \in Tables /\ tick[w].view \in Tables
<1>1. \A v \in Worker \ {w} : tick'[v] = tick[v]
  BY DEF Ticks, TypeOK
<1>2. tick[w].pc # "idle" \/ tick'[w].pc # "idle"
  <2>1. CASE Starts(w)
    BY <2>1 DEF Starts
  <2>2. CASE Moves(w, "locked", "send") \/ Moves(w, "release", "scan")
    BY <2>2 DEF Moves
  <2>3. CASE Commits(w) \/ Sweeps(w) \/ Dies(w)
    BY <2>3 DEF Commits, Sweeps, Dies
  <2>4. ASSUME NEW m \in Message, Scans(w, m) \/ Locks(w, m) \/ Calls(w, m)
        PROVE  tick[w].pc # "idle"
    BY <2>4 DEF Scans, Locks, Calls
  <2>5. QED
    BY <2>1, <2>2, <2>3, <2>4 DEF Ticks
<1>3. \A v \in Worker \ {w} : tick[v].pc = "idle"
  BY <1>1, <1>2 DEF Serial
<1>4. tick[w] \in Tick /\ db \in Tables
  BY DEF TypeOK
<1>5. View(tick[w]) \in Tables /\ tick[w].view \in Tables
  BY <1>4, TickType DEF Tick
<1>6. QED
  BY <1>1, <1>3, <1>4, <1>5 DEF Shape

LEMMA IdleEmpty ==
    Idle.pc = "idle" /\ ~Idle.open /\ Idle.dirty = {} /\ Idle.batch = {}
BY DEF Idle

\* An edit of one message keeps a session in step.
LEMMA SyncWrite ==
    ASSUME TypeOK, NEW w \in Worker, NEW m \in Message, NEW new \in Tables, NEW s,
           StatusSync(tick[w]), UNCHANGED <<db, ops>>,
           Wrote(tick[w], tick'[w], new), Becomes(new, View(tick[w]), m, s),
           At(tick[w], m), tick[w].pc \in {"scan", "send"},
           tick'[w].batch \subseteq tick[w].batch,
           \/ tick[w].pc = "scan" /\ tick'[w].pc = "scan" /\ s = View(tick[w]).msg[m].status
           \/ tick[w].pc = "scan" /\ tick'[w].pc = "scan" /\ s \in Dead /\ m \notin tick'[w].batch
           \/ tick'[w].pc = "locked" /\ tick'[w].batch = tick[w].batch /\ s = "sending"
           \/ tick'[w].pc = "commit" /\ tick'[w].batch = tick[w].batch
    PROVE  StatusSync(tick[w])'
<1> DEFINE t == tick[w]
           u == tick'[w]
           v == View(tick[w])
<1>1. /\ View(tick[w])' = new
      /\ \A k \in Message : <<k, "status">> \in u.dirty
            <=> <<k, "status">> \in t.dirty \/ v.msg[k].status # new.msg[k].status
  BY ChangedColumns DEF Wrote, View
<1>2. t.batch \subseteq Message
  BY DEF TypeOK, Tick
<1>3. \A k : At(t, k) => k = m
  BY <1>2, AtUnique
<1>4. m \in t.batch /\ (u.batch = t.batch => At(u, m) /\ \A k : At(u, k) => k = m)
  BY <1>3 DEF At
<1>5. ASSUME NEW k \in Message
      PROVE  LET x == new.msg[k].status
                 d == db.msg[k].status
             IN  /\ <<k, "status">> \in u.dirty => d \in Pending
                 /\ <<k, "status">> \notin u.dirty =>
                       x = d \/ (x \in Dead /\ d = "queued" /\ ops > 0)
                 /\ k \in u.batch =>
                       /\ d \in Pending
                       /\ x \in Pending \/ (u.pc \in {"locked", "send", "commit"} /\ At(u, k))
                 /\ u.pc \in {"locked", "send"} /\ At(u, k) => x = "sending"
                 /\ x = "sent" /\ d # "sent" => u.pc = "commit"
  <2>1. new.msg[k].status = IF k = m THEN s ELSE v.msg[k].status
    BY DEF Becomes
  <2>2. /\ <<k, "status">> \in t.dirty => db.msg[k].status \in Pending
        /\ <<k, "status">> \notin t.dirty =>
              \/ v.msg[k].status = db.msg[k].status
              \/ v.msg[k].status \in Dead /\ db.msg[k].status = "queued" /\ ops > 0
        /\ k \in t.batch =>
              /\ db.msg[k].status \in Pending
              /\ v.msg[k].status \in Pending
                 \/ (t.pc \in {"locked", "send", "commit"} /\ At(t, k))
        /\ v.msg[k].status = "sent" /\ db.msg[k].status # "sent" => t.pc = "commit"
    BY DEF StatusSync
  <2>3. CASE k # m
    BY <1>1, <1>3, <1>4, <2>1, <2>2, <2>3
  <2>4. CASE k = m
    BY <1>1, <1>3, <1>4, <2>1, <2>2, <2>4 DEF Dead
  <2>5. QED
    BY <2>3, <2>4
<1>6. QED
  BY <1>1, <1>5 DEF StatusSync

LEMMA SyncTick ==
    ASSUME TypeOK, SyncInv, Serial, Serial', NEW w \in Worker, Ticks(w)
    PROVE  StatusSync(tick[w])' /\ RequeueInv'
<1> DEFINE t == tick[w]
           u == tick'[w]
<1>1. /\ t \in Tick /\ View(t) \in Tables /\ t.view \in Tables /\ t.batch \subseteq Message
      /\ StatusSync(t) /\ RequeueInv
      /\ (~t.open => t.dirty = {})
      /\ (t.pc \in {"locked", "send", "commit", "finish"} => t.open)
  BY Alone DEF SyncInv, Shape, Tick
<1>2. ASSUME UNCHANGED <<db, req, ops>> PROVE RequeueInv'
  BY <1>1, <1>2 DEF RequeueInv
<1>3. CASE Starts(w)
  <2>1. /\ View(t)' = db /\ u.dirty = {} /\ u.pc = "scan" /\ UNCHANGED <<db, req, ops>>
        /\ \A k \in u.batch : db.msg[k].status \in Pending
    BY <1>3 DEF Starts, Untouched, View
  <2>2. QED
    BY <1>2, <2>1 DEF StatusSync
<1>4. ASSUME NEW m \in Message, Scans(w, m)
      PROVE  StatusSync(tick[w])' /\ RequeueInv'
  <2>1. UNCHANGED <<db, req, ops>>
    BY <1>4 DEF Scans, Untouched
  <2>2. PICK new \in Tables, s \in Pending \cup Dead \cup {"sending", "sent"} :
           /\ t.pc = "scan" /\ u.pc = "scan" /\ At(t, m) /\ u.batch \subseteq t.batch
           /\ Wrote(t, u, new) /\ Becomes(new, View(t), m, s)
           /\ s = View(t).msg[m].status \/ (s \in Dead /\ m \notin u.batch)
    BY <1>4 DEF Scans, Edited
  <2>3. QED
    BY <1>1, <1>2, <2>1, <2>2, SyncWrite
<1>5. ASSUME NEW m \in Message, Locks(w, m)
      PROVE  StatusSync(tick[w])' /\ RequeueInv'
  <2>1. UNCHANGED <<db, req, ops>>
    BY <1>5 DEF Locks, Untouched
  <2>2. PICK new \in Tables :
           /\ t.pc = "scan" /\ u.pc = "locked" /\ At(t, m) /\ u.batch = t.batch
           /\ Wrote(t, u, new) /\ Becomes(new, View(t), m, "sending")
    BY <1>5 DEF Locks, Edited
  <2>3. QED
    BY <1>1, <1>2, <2>1, <2>2, SyncWrite
<1>6. ASSUME NEW m \in Message, Calls(w, m)
      PROVE  StatusSync(tick[w])' /\ RequeueInv'
  <2>1. UNCHANGED <<db, req, ops>>
    BY <1>6 DEF Calls
  <2>2. View(t) = t.view
    BY <1>1, <1>6 DEF Calls, View
  <2>3. PICK new, s :
           /\ new \in Tables /\ t.pc = "send" /\ u.pc = "commit" /\ At(t, m) /\ u.batch = t.batch
           /\ Wrote(t, u, new) /\ Becomes(new, View(t), m, s)
    BY <1>6, <2>2 DEF Calls, Edited
  <2>4. QED
    BY <1>1, <1>2, <2>1, <2>3, SyncWrite
<1>7. ASSUME NEW from, NEW to, Moves(w, from, to), to \in {"send", "scan"},
             to = "send" => from = "locked", to = "scan" => from = "release"
      PROVE  StatusSync(tick[w])' /\ RequeueInv'
  <2>1. UNCHANGED <<db, req, ops>>
    BY <1>7 DEF Moves, Untouched
  <2>2. /\ View(t)' = View(t) /\ u.dirty = t.dirty /\ u.batch = t.batch
        /\ \A k : At(u, k) <=> At(t, k)
        /\ t.pc = from /\ u.pc = to
    BY <1>7, <2>1 DEF Moves, View, At
  <2>3. StatusSync(t)'
    BY <1>1, <1>7, <2>1, <2>2 DEF StatusSync
  <2>4. QED
    BY <1>2, <2>1, <2>3
<1>8. CASE Commits(w)
  <2>1. /\ t.open /\ db' = Merge(db, t.view, t.dirty) /\ UNCHANGED <<req, ops>>
        /\ \A k \in u.batch : k \in t.batch /\ ~At(t, k)
    BY <1>1, <1>8 DEF Commits
  <2>2. /\ u.dirty = {} /\ View(t)' = db' /\ u.pc \notin {"locked", "send"}
    BY <1>8, IdleEmpty DEF Commits, View
  <2>3. View(t) = t.view
    BY <2>1 DEF View
  <2>4. \A k \in Message : db'.msg[k].status
           = IF <<k, "status">> \in t.dirty THEN t.view.msg[k].status ELSE db.msg[k].status
    BY <2>1 DEF Merge
  <2>5. \A k \in Message : k \in u.batch => db'.msg[k].status \in Pending
    BY <1>1, <2>1, <2>3, <2>4 DEF StatusSync
  <2>6. StatusSync(t)'
    BY <2>2, <2>5 DEF StatusSync
  <2>7. \A k \in Message : db.msg[k].status \in Dead => db'.msg[k].status = db.msg[k].status
    BY <1>1, <2>4 DEF StatusSync, Pending, Dead
  <2>8. req # NoRequest => req.lost \subseteq Message
    BY DEF TypeOK
  <2>9. RequeueInv'
    BY <1>1, <2>1, <2>7, <2>8 DEF RequeueInv
  <2>10. QED
    BY <2>6, <2>9
<1>9. CASE Sweeps(w)
  <2>1. UNCHANGED <<db, req, ops>>
    BY <1>9 DEF Sweeps, Untouched
  <2>2. PICK new \in Tables :
           /\ t.pc = "scan" /\ u.pc = "finish" /\ u.batch = {}
           /\ Wrote(t, u, new) /\ new.msg = View(t).msg
    BY <1>9 DEF Sweeps
  <2>3. /\ View(t)' = new
        /\ \A k \in Message : <<k, "status">> \in u.dirty <=> <<k, "status">> \in t.dirty
    BY <2>2, ChangedColumns DEF Wrote, View
  <2>4. StatusSync(t)'
    BY <1>1, <2>1, <2>2, <2>3 DEF StatusSync
  <2>5. QED
    BY <1>2, <2>1, <2>4
<1>10. CASE Dies(w)
  <2>1. UNCHANGED <<db, req, ops>> /\ u = Idle
    BY <1>10 DEF Dies
  <2>2. View(t)' = db'
    BY <2>1, IdleEmpty DEF View
  <2>3. StatusSync(t)'
    BY <2>1, <2>2, IdleEmpty DEF StatusSync
  <2>4. QED
    BY <1>2, <2>1, <2>3
<1>11. QED
  BY <1>3, <1>4, <1>5, <1>6, <1>7, <1>8, <1>9, <1>10 DEF Ticks

LEMMA ShapeTick ==
    ASSUME TypeOK, Shape, Serial, Serial', NEW w \in Worker, Ticks(w)
    PROVE  Shape'
<1> DEFINE u == tick'[w]
<1>1. \A v \in Worker \ {w} : tick'[v] = tick[v]
  BY DEF Ticks, TypeOK
<1>2. /\ u.pc = "idle" => u = Idle
      /\ ~u.open => u.dirty = {}
      /\ u.pc \in {"locked", "send", "commit", "finish"} => u.open
  <2>1. CASE Starts(w)
    BY <2>1 DEF Starts
  <2>2. CASE Moves(w, "locked", "send") \/ Moves(w, "release", "scan")
    BY <2>2 DEF Moves, Shape
  <2>3. CASE Commits(w)
    BY <2>3, IdleEmpty DEF Commits
  <2>4. CASE Dies(w)
    BY <2>4, IdleEmpty DEF Dies
  <2>5. CASE Sweeps(w)
    BY <2>5 DEF Sweeps, Wrote
  <2>6. ASSUME NEW m \in Message, Scans(w, m) \/ Locks(w, m) \/ Calls(w, m)
        PROVE  u.open /\ u.pc # "idle"
    BY <2>6 DEF Scans, Locks, Calls, Wrote
  <2>7. QED
    BY <2>1, <2>2, <2>3, <2>4, <2>5, <2>6 DEF Ticks
<1>3. QED
  BY <1>1, <1>2 DEF Shape

\* An outside step leaves the sessions as they were.
LEMMA SyncOutside ==
    ASSUME TypeOK, TypeOK', SyncInv, Requests \/ Requeues
    PROVE  SyncInv'
<1>1. tick' = tick /\ ops \in Nat /\ ops' \in {ops, ops + 1}
  BY DEF Requests, Requeues, TypeOK
<1>2. \A k \in Message : \/ db'.msg[k].status = db.msg[k].status
                         \/ db.msg[k].status \in Dead /\ db'.msg[k].status = "queued" /\ ops > 0
  BY DEF Requests, Requeues, SyncInv, RequeueInv
<1>3. ASSUME NEW w \in Worker PROVE StatusSync(tick[w])'
  <2> DEFINE t == tick[w]
  <2>1. StatusSync(t)
    BY DEF SyncInv
  <2>2. View(t) = (IF t.open THEN t.view ELSE db) /\ View(t)' = (IF t.open THEN t.view ELSE db')
    BY <1>1 DEF View
  <2>3. ~t.open => t.dirty = {}
    BY DEF SyncInv, Shape
  <2>4. ASSUME NEW k \in Message
        PROVE  LET x == View(t)'.msg[k].status
                   d == db'.msg[k].status
               IN  /\ <<k, "status">> \in t.dirty => d \in Pending
                   /\ <<k, "status">> \notin t.dirty =>
                         x = d \/ (x \in Dead /\ d = "queued" /\ ops' > 0)
                   /\ k \in t.batch =>
                         /\ d \in Pending
                         /\ x \in Pending
                            \/ (t.pc \in {"locked", "send", "commit"} /\ At(t, k))
                   /\ t.pc \in {"locked", "send"} /\ At(t, k) => x = "sending"
                   /\ x = "sent" /\ d # "sent" => t.pc = "commit"
    <3>1. \/ db'.msg[k].status = db.msg[k].status
          \/ db.msg[k].status \in Dead /\ db'.msg[k].status = "queued" /\ ops > 0
      BY <1>2
    <3>2. ops > 0 => ops' > 0
      BY <1>1
    <3>3. QED
      BY <2>1, <2>2, <2>3, <3>1, <3>2 DEF StatusSync, Pending, Dead
  <2>5. QED
    BY <1>1, <2>4 DEF StatusSync
<1>4. RequeueInv'
  <2>1. CASE req' = NoRequest
    BY <2>1 DEF RequeueInv
  <2>2. CASE req' # NoRequest
    <3>1. Requests /\ req'.lost \subseteq Message
      <4>1. Requests
        BY <2>2 DEF Requeues
      <4>2. QED
        BY <2>2, <4>1 DEF TypeOK
    <3>2. QED
      BY <1>1, <2>2, <3>1 DEF Requests, SyncInv, RequeueInv
  <2>3. QED
    BY <2>1, <2>2
<1>5. Shape'
  BY <1>1 DEF SyncInv, Shape
<1>6. QED
  BY <1>3, <1>4, <1>5 DEF SyncInv

LEMMA SyncStep ==
    ASSUME TypeOK, TypeOK', SyncInv, Serial, Serial', [Next]_vars
    PROVE  SyncInv'
<1>1. ASSUME NEW w \in Worker, Ticks(w) PROVE SyncInv'
  <2>1. Shape' /\ StatusSync(tick[w])' /\ RequeueInv'
    BY <1>1, SyncTick, ShapeTick DEF SyncInv
  <2>2. ASSUME NEW v \in Worker \ {w} PROVE StatusSync(tick[v])'
    <3>1. tick'[v] = Idle
      BY <1>1, Alone DEF SyncInv
    <3>2. View(tick[v])' = db'
      BY <3>1, IdleEmpty DEF View
    <3>3. QED
      BY <3>1, <3>2, IdleEmpty DEF StatusSync
  <2>3. QED
    BY <2>1, <2>2 DEF SyncInv
<1>2. CASE UNCHANGED <<db, tick, req, delivered, sentDay, faults, ops>>
  BY <1>2 DEF SyncInv, Shape, RequeueInv, StatusSync, View, At
<1>3. QED
  BY <1>1, <1>2, SyncOutside, SerialSteps DEF SyncInv

-----------------------------------------------------------------------------
(* The counters of a campaign                                              *)

\* The sets counted depend on the statuses alone.
LEMMA WithOther ==
    ASSUME NEW v, NEW new, NEW m \in Message, NEW s, NEW c, Becomes(new, v, m, s),
           c # CampaignOf[m]
    PROVE  \A S : With(new, c, S) = With(v, c, S)
BY DEF With, Becomes

\* One more message of campaign c has a status in S.
LEMMA WithMore ==
    ASSUME NEW v, NEW new, NEW m \in Message, NEW s, NEW c, NEW S,
           Becomes(new, v, m, s), s \in S, v.msg[m].status \notin S
    PROVE  Cardinality(With(new, c, S))
              = Cardinality(With(v, c, S)) + (IF c = CampaignOf[m] THEN 1 ELSE 0)
<1>1. With(v, c, S) \subseteq Message /\ IsFiniteSet(Message)
  BY ConstantsAssumption DEF With
<1>2. IsFiniteSet(With(v, c, S)) /\ Cardinality(With(v, c, S)) \in Nat
  BY <1>1, FS_Subset, FS_CardinalityType
<1>3. CASE c = CampaignOf[m]
  <2>1. With(new, c, S) = With(v, c, S) \cup {m} /\ m \notin With(v, c, S)
    BY <1>3 DEF With, Becomes
  <2>2. QED
    BY <1>2, <1>3, <2>1, FS_AddElement
<1>4. CASE c # CampaignOf[m]
  <2>1. With(new, c, S) = With(v, c, S)
    BY <1>4, WithOther
  <2>2. QED
    BY <1>2, <1>4, <2>1
<1>5. QED
  BY <1>3, <1>4

\* The change of a count and the change of the set it counts go together.
Tally(old, s, S, d) ==
    /\ old \in S => s \in S
    /\ d = IF s \in S /\ old \notin S THEN 1 ELSE 0

LEMMA WithEdited ==
    ASSUME NEW v, NEW new, NEW m \in Message, NEW s, NEW c, NEW S, NEW d,
           Becomes(new, v, m, s), Tally(v.msg[m].status, s, S, d)
    PROVE  Cardinality(With(new, c, S))
              = Cardinality(With(v, c, S)) + (IF c = CampaignOf[m] THEN d ELSE 0)
<1>1. CASE s \in S /\ v.msg[m].status \notin S
  <2>1. d = 1
    BY <1>1 DEF Tally
  <2>2. Cardinality(With(new, c, S))
           = Cardinality(With(v, c, S)) + (IF c = CampaignOf[m] THEN 1 ELSE 0)
    BY <1>1, WithMore
  <2>3. QED
    BY <2>1, <2>2
<1>2. CASE ~(s \in S /\ v.msg[m].status \notin S)
  <2>1. With(new, c, S) = With(v, c, S) /\ d = 0
    BY <1>2 DEF With, Becomes, Tally
  <2>2. With(v, c, S) \subseteq Message /\ IsFiniteSet(Message)
    BY ConstantsAssumption DEF With
  <2>3. Cardinality(With(v, c, S)) \in Nat
    BY <2>2, FS_Subset, FS_CardinalityType
  <2>4. QED
    BY <2>1, <2>3
<1>3. QED
  BY <1>1, <1>2

\* An edit keeps the counts of a copy of the tables.
LEMMA CountEdit ==
    ASSUME NEW v \in Tables, NEW new, NEW m \in Message, NEW s, NEW ds, NEW df,
           NEW c \in Campaign, Edited(new, v, m, s, ds, df),
           Tally(v.msg[m].status, s, Done, ds), Tally(v.msg[m].status, s, Dead, df)
    PROVE  /\ v.camp[c].sent = Cardinality(With(v, c, Done)) =>
                 new.camp[c].sent = Cardinality(With(new, c, Done))
           /\ v.camp[c].failed = Cardinality(With(v, c, Dead)) =>
                 new.camp[c].failed = Cardinality(With(new, c, Dead))
<1>1. /\ new.camp[c].sent = v.camp[c].sent + (IF c = CampaignOf[m] THEN ds ELSE 0)
      /\ new.camp[c].failed = v.camp[c].failed + (IF c = CampaignOf[m] THEN df ELSE 0)
      /\ v.camp[c].sent + 0 = v.camp[c].sent /\ v.camp[c].failed + 0 = v.camp[c].failed
  BY RowType DEF Edited, CampaignRow
<1>2. Becomes(new, v, m, s)
  BY DEF Edited
<1>3. CASE c = CampaignOf[m]
  <2>1. Cardinality(With(new, c, Done)) = Cardinality(With(v, c, Done)) + ds
    BY <1>2, <1>3, WithEdited
  <2>2. Cardinality(With(new, c, Dead)) = Cardinality(With(v, c, Dead)) + df
    BY <1>2, <1>3, WithEdited
  <2>3. QED
    BY <1>1, <1>3, <2>1, <2>2
<1>4. CASE c # CampaignOf[m]
  <2>1. With(new, c, Done) = With(v, c, Done) /\ With(new, c, Dead) = With(v, c, Dead)
    BY <1>2, <1>4, WithOther
  <2>2. QED
    BY <1>1, <1>4, <2>1
<1>5. QED
  BY <1>3, <1>4

\* An edit keeps the counts of a session's copy, and the unchanged ones in step.
LEMMA CountWrite ==
    ASSUME NEW w \in Worker, NEW m \in Message, NEW new \in Tables, NEW s,
           NEW ds, NEW df, UNCHANGED <<db, ops>>, View(tick[w]) \in Tables,
           Counted(View(tick[w])), CountSync(tick[w]),
           Wrote(tick[w], tick'[w], new), Edited(new, View(tick[w]), m, s, ds, df),
           Tally(View(tick[w]).msg[m].status, s, Done, ds),
           Tally(View(tick[w]).msg[m].status, s, Dead, df)
    PROVE  Counted(View(tick[w]))' /\ CountSync(tick[w])'
<1> DEFINE t == tick[w]
           u == tick'[w]
           v == View(tick[w])
<1>1. /\ View(t)' = new
      /\ \A c \in Campaign :
            /\ <<c, "sent">> \notin u.dirty =>
                  <<c, "sent">> \notin t.dirty /\ v.camp[c].sent = new.camp[c].sent
            /\ <<c, "failed">> \notin u.dirty =>
                  <<c, "failed">> \notin t.dirty /\ v.camp[c].failed = new.camp[c].failed
  BY ChangedColumns DEF Wrote, View
<1>2. CountSync(t)'
  BY <1>1 DEF CountSync
<1>3. ASSUME NEW c \in Campaign
      PROVE  /\ new.camp[c].sent = Cardinality(With(new, c, Done))
             /\ ops = 0 => new.camp[c].failed = Cardinality(With(new, c, Dead))
  <2>1. /\ v.camp[c].sent = Cardinality(With(v, c, Done))
        /\ ops = 0 => v.camp[c].failed = Cardinality(With(v, c, Dead))
    BY DEF Counted
  <2> HIDE DEF v
  <2>2. /\ v.camp[c].sent = Cardinality(With(v, c, Done)) =>
              new.camp[c].sent = Cardinality(With(new, c, Done))
        /\ v.camp[c].failed = Cardinality(With(v, c, Dead)) =>
              new.camp[c].failed = Cardinality(With(new, c, Dead))
    BY CountEdit DEF v
  <2>3. QED
    BY <2>1, <2>2
<1>4. Counted(View(t))'
  BY <1>1, <1>3 DEF Counted, With
<1>5. QED
  BY <1>2, <1>4

\* Tables with the same counts and the same messages sent and dead.
LEMMA CountedSame ==
    ASSUME NEW v, NEW new, Counted(v), ops \in Nat, ops' \in Nat, ops' = 0 => ops = 0,
           \A k \in Message : /\ new.msg[k].status = "sent" <=> v.msg[k].status = "sent"
                              /\ ops' = 0 => (new.msg[k].status \in Dead
                                                <=> v.msg[k].status \in Dead),
           \A c \in Campaign : /\ new.camp[c].sent = v.camp[c].sent
                               /\ ops' = 0 => new.camp[c].failed = v.camp[c].failed
    PROVE  \A c \in Campaign :
              /\ new.camp[c].sent = Cardinality(With(new, c, Done))
              /\ ops' = 0 => new.camp[c].failed = Cardinality(With(new, c, Dead))
<1>1. SUFFICES ASSUME NEW c \in Campaign
               PROVE  /\ new.camp[c].sent = Cardinality(With(new, c, Done))
                      /\ ops' = 0 => new.camp[c].failed = Cardinality(With(new, c, Dead))
  OBVIOUS
<1>2. With(new, c, Done) = With(v, c, Done)
  BY DEF With, Done
<1>3. ops' = 0 => With(new, c, Dead) = With(v, c, Dead)
  BY DEF With
<1>4. /\ v.camp[c].sent = Cardinality(With(v, c, Done))
      /\ ops = 0 => v.camp[c].failed = Cardinality(With(v, c, Dead))
  BY DEF Counted
<1>5. QED
  BY <1>2, <1>3, <1>4

LEMMA CountTick ==
    ASSUME TypeOK, SyncInv, CountInv, Serial, Serial', NEW w \in Worker, Ticks(w)
    PROVE  Counted(db)' /\ Counted(View(tick[w]))' /\ CountSync(tick[w])'
<1> DEFINE t == tick[w]
           u == tick'[w]
           v == View(tick[w])
<1>1. /\ t.batch \subseteq Message /\ v \in Tables /\ ops \in Nat
      /\ Counted(db) /\ Counted(v) /\ CountSync(t) /\ StatusSync(t)
      /\ (t.pc \in {"locked", "send", "commit", "finish"} => t.open)
  BY Alone DEF SyncInv, Shape, CountInv, TypeOK, Tick
<1>2. ASSUME UNCHANGED <<db, ops>> PROVE Counted(db)'
  BY <1>1, <1>2 DEF Counted
<1>3. CASE Starts(w) \/ Dies(w)
  <2>1. View(t)' = db /\ UNCHANGED <<db, ops>>
    BY <1>3, IdleEmpty DEF Starts, Dies, Untouched, View
  <2>2. Counted(View(t))' /\ CountSync(t)'
    BY <1>1, <2>1 DEF Counted, CountSync
  <2>3. QED
    BY <1>2, <2>1, <2>2
<1>4. ASSUME NEW m \in Message, Scans(w, m)
      PROVE  Counted(db)' /\ Counted(View(tick[w]))' /\ CountSync(tick[w])'
  <2>1. UNCHANGED <<db, ops>> /\ t.pc = "scan" /\ At(t, m)
    BY <1>4 DEF Scans, Untouched
  <2>2. PICK new \in Tables, s \in Pending \cup Dead \cup {"sending", "sent"}, df \in {0, 1} :
           /\ Wrote(t, u, new) /\ Edited(new, v, m, s, 0, df)
           /\ \/ s = v.msg[m].status /\ df = 0
              \/ s \in Dead /\ df = 1
    BY <1>4 DEF Scans
  <2>3. v.msg[m].status \in Pending
    BY <1>1, <2>1 DEF StatusSync, At
  <2>4. Tally(v.msg[m].status, s, Done, 0) /\ Tally(v.msg[m].status, s, Dead, df)
    BY <2>2, <2>3 DEF Tally, Done, Dead, Pending
  <2>5. Counted(View(t))' /\ CountSync(t)'
    BY <1>1, <2>1, <2>2, <2>4, CountWrite
  <2>6. QED
    BY <1>2, <2>1, <2>5
<1>5. ASSUME NEW m \in Message, Locks(w, m)
      PROVE  Counted(db)' /\ Counted(View(tick[w]))' /\ CountSync(tick[w])'
  <2>1. UNCHANGED <<db, ops>> /\ t.pc = "scan" /\ At(t, m)
    BY <1>5 DEF Locks, Untouched
  <2>2. PICK new \in Tables :
           Wrote(t, u, new) /\ Edited(new, v, m, "sending", 0, 0)
    BY <1>5 DEF Locks
  <2>3. v.msg[m].status \in Pending
    BY <1>1, <2>1 DEF StatusSync, At
  <2>4. Tally(v.msg[m].status, "sending", Done, 0) /\ Tally(v.msg[m].status, "sending", Dead, 0)
    BY <2>3 DEF Tally, Done, Dead, Pending
  <2>5. Counted(View(t))' /\ CountSync(t)'
    BY <1>1, <2>1, <2>2, <2>4, CountWrite
  <2>6. QED
    BY <1>2, <2>1, <2>5
<1>6. ASSUME NEW m \in Message, Calls(w, m)
      PROVE  Counted(db)' /\ Counted(View(tick[w]))' /\ CountSync(tick[w])'
  <2>1. UNCHANGED <<db, ops>> /\ t.pc = "send" /\ At(t, m)
    BY <1>6 DEF Calls
  <2>2. v = t.view
    BY <1>1, <2>1 DEF View
  <2>3. PICK new \in Tables, s \in {"sent", "retry", "failed_permanent"},
             ds \in {0, 1}, df \in {0, 1} :
           /\ Wrote(t, u, new) /\ Edited(new, v, m, s, ds, df)
           /\ ds = IF s = "sent" THEN 1 ELSE 0
           /\ df = IF s = "failed_permanent" THEN 1 ELSE 0
    BY <1>6, <2>2 DEF Calls
  <2>4. v.msg[m].status = "sending"
    BY <1>1, <2>1 DEF StatusSync, At
  <2>5. Tally(v.msg[m].status, s, Done, ds) /\ Tally(v.msg[m].status, s, Dead, df)
    BY <2>3, <2>4 DEF Tally, Done, Dead
  <2>6. Counted(View(t))' /\ CountSync(t)'
    BY <1>1, <2>1, <2>3, <2>5, CountWrite
  <2>7. QED
    BY <1>2, <2>1, <2>6
<1>7. ASSUME NEW from, NEW to, Moves(w, from, to)
      PROVE  Counted(db)' /\ Counted(View(tick[w]))' /\ CountSync(tick[w])'
  <2>1. UNCHANGED <<db, ops>> /\ View(t)' = v /\ u.dirty = t.dirty
    BY <1>7 DEF Moves, Untouched, View
  <2>2. Counted(View(t))' /\ CountSync(t)'
    BY <1>1, <2>1 DEF Counted, CountSync
  <2>3. QED
    BY <1>2, <2>1, <2>2
<1>8. CASE Commits(w)
  <2>1. /\ t.open /\ db' = Merge(db, t.view, t.dirty) /\ ops' = ops
        /\ u.dirty = {} /\ ~u.open
    BY <1>1, <1>8 DEF Commits
  <2>2. v = t.view /\ View(t)' = db'
    BY <2>1 DEF View
  <2>3. /\ \A k \in Message : db'.msg[k].status
              = IF <<k, "status">> \in t.dirty THEN v.msg[k].status ELSE db.msg[k].status
        /\ \A c \in Campaign :
              /\ db'.camp[c].sent = IF <<c, "sent">> \in t.dirty THEN v.camp[c].sent
                                                                 ELSE db.camp[c].sent
              /\ db'.camp[c].failed = IF <<c, "failed">> \in t.dirty THEN v.camp[c].failed
                                                                     ELSE db.camp[c].failed
    <3> HIDE DEF v, t
    <3>1. db' = Merge(db, v, t.dirty)
      BY <2>1, <2>2
    <3>2. QED
      BY <3>1 DEF Merge
  <2>4. \A k \in Message : /\ db'.msg[k].status = "sent" <=> v.msg[k].status = "sent"
                           /\ ops' = 0 => (db'.msg[k].status \in Dead
                                             <=> v.msg[k].status \in Dead)
    <3> SUFFICES ASSUME NEW k \in Message
                 PROVE  /\ db'.msg[k].status = "sent" <=> v.msg[k].status = "sent"
                        /\ ops' = 0 => (db'.msg[k].status \in Dead
                                          <=> v.msg[k].status \in Dead)
      OBVIOUS
    <3>1. <<k, "status">> \notin t.dirty =>
             \/ v.msg[k].status = db.msg[k].status
             \/ v.msg[k].status \in Dead /\ db.msg[k].status = "queued" /\ ops > 0
      BY <1>1 DEF StatusSync
    <3>2. db'.msg[k].status
             = IF <<k, "status">> \in t.dirty THEN v.msg[k].status ELSE db.msg[k].status
      BY <2>3
    <3> HIDE DEF v, t
    <3>3. QED
      BY <1>1, <2>1, <3>1, <3>2 DEF Dead
  <2>5. \A c \in Campaign : /\ db'.camp[c].sent = v.camp[c].sent
                            /\ ops' = 0 => db'.camp[c].failed = v.camp[c].failed
    BY <1>1, <2>1, <2>3 DEF CountSync
  <2> HIDE DEF v
  <2>6. \A c \in Campaign :
              /\ db'.camp[c].sent = Cardinality(With(db', c, Done))
              /\ ops' = 0 => db'.camp[c].failed = Cardinality(With(db', c, Dead))
    BY <1>1, <2>1, <2>4, <2>5, CountedSame
  <2>7. Counted(db)'
    BY <2>6 DEF Counted
  <2>8. Counted(View(t))' /\ CountSync(t)'
    BY <2>1, <2>2, <2>6 DEF Counted, CountSync
  <2>9. QED
    BY <2>7, <2>8
<1>9. CASE Sweeps(w)
  <2>1. UNCHANGED <<db, ops>>
    BY <1>9 DEF Sweeps, Untouched
  <2>2. PICK new \in Tables :
           /\ Wrote(t, u, new) /\ new.msg = v.msg
           /\ \A c \in Campaign : /\ new.camp[c].sent = v.camp[c].sent
                                  /\ new.camp[c].failed = v.camp[c].failed
    BY <1>9 DEF Sweeps
  <2>3. View(t)' = new /\ u.dirty = t.dirty \cup Changed(v, new)
    BY <2>2 DEF Wrote, View
  <2> HIDE DEF v
  <2>4. \A c \in Campaign :
              /\ new.camp[c].sent = Cardinality(With(new, c, Done))
              /\ ops' = 0 => new.camp[c].failed = Cardinality(With(new, c, Dead))
    BY <1>1, <2>1, <2>2, CountedSame
  <2>5. Counted(View(t))'
    BY <2>3, <2>4 DEF Counted
  <2>6. CountSync(t)'
    BY <1>1, <2>1, <2>2, <2>3 DEF CountSync, v
  <2>7. QED
    BY <1>2, <2>1, <2>5, <2>6
<1>10. QED
  BY <1>3, <1>4, <1>5, <1>6, <1>7, <1>8, <1>9 DEF Ticks

LEMMA CountOutside ==
    ASSUME TypeOK, SyncInv, CountInv, Requests \/ Requeues
    PROVE  CountInv'
<1>1. /\ tick' = tick /\ ops \in Nat /\ ops' \in Nat /\ (ops' = 0 => ops = 0)
      /\ \A c \in Campaign : /\ db'.camp[c].sent = db.camp[c].sent
                             /\ ops' = 0 => db'.camp[c].failed = db.camp[c].failed
      /\ \A k \in Message : /\ db'.msg[k].status = "sent" <=> db.msg[k].status = "sent"
                            /\ ops' = 0 => (db'.msg[k].status \in Dead
                                              <=> db.msg[k].status \in Dead)
  <2>1. CASE Requests
    BY <2>1 DEF Requests, TypeOK
  <2>2. CASE Requeues
    BY <2>2 DEF Requeues, TypeOK, SyncInv, RequeueInv, Dead
  <2>3. QED
    BY <2>1, <2>2
<1>2. Counted(db)
  BY DEF CountInv
<1>3. \A c \in Campaign :
         /\ db'.camp[c].sent = Cardinality(With(db', c, Done))
         /\ ops' = 0 => db'.camp[c].failed = Cardinality(With(db', c, Dead))
  BY <1>1, <1>2, CountedSame
<1>4. ASSUME NEW w \in Worker PROVE Counted(View(tick[w]))' /\ CountSync(tick[w])'
  <2> DEFINE t == tick[w]
  <2>1. Counted(View(t)) /\ CountSync(t)
    BY DEF CountInv
  <2>2. CASE t.open
    <3>1. View(t) = t.view /\ View(t)' = t.view
      BY <1>1, <2>2 DEF View
    <3>2. Counted(View(t))'
      BY <1>1, <2>1, <3>1 DEF Counted
    <3>3. CountSync(t)'
      BY <1>1, <2>1, <3>1 DEF CountSync
    <3>4. QED
      BY <3>2, <3>3
  <2>3. CASE ~t.open
    <3>1. View(t)' = db'
      BY <1>1, <2>3 DEF View
    <3>2. QED
      BY <1>3, <3>1 DEF Counted, CountSync
  <2>4. QED
    BY <2>2, <2>3
<1>5. QED
  BY <1>3, <1>4 DEF CountInv, Counted

LEMMA CountStep ==
    ASSUME TypeOK, SyncInv, CountInv, Serial, Serial', [Next]_vars
    PROVE  CountInv'
<1>1. ASSUME NEW w \in Worker, Ticks(w) PROVE CountInv'
  <2>1. Counted(db)' /\ Counted(View(tick[w]))' /\ CountSync(tick[w])'
    BY <1>1, CountTick
  <2>2. ASSUME NEW v \in Worker \ {w} PROVE Counted(View(tick[v]))' /\ CountSync(tick[v])'
    <3>1. tick'[v] = Idle
      BY <1>1, Alone DEF SyncInv
    <3>2. View(tick[v])' = db'
      BY <3>1, IdleEmpty DEF View
    <3>3. QED
      BY <2>1, <3>2 DEF CountSync, Counted
  <2>3. QED
    BY <2>1, <2>2 DEF CountInv
<1>2. CASE UNCHANGED <<db, tick, req, delivered, sentDay, faults, ops>>
  BY <1>2 DEF CountInv, Counted, CountSync, View
<1>3. QED
  BY <1>1, <1>2, CountOutside, SerialSteps DEF SyncInv

-----------------------------------------------------------------------------
(* The daily limit                                                         *)

\* The account whose lock tick t holds is that of the message it has reached.
LEMMA LockedAt ==
    ASSUME TypeOK, NEW w \in Worker, NEW m \in Message, LockedAccount(tick[w]),
           tick[w].pc \in {"locked", "send"}, At(tick[w], m)
    PROVE  LET a   == tick[w].view.msg[m].account
               row == tick[w].view.acct[a]
           IN  /\ a \in Account /\ row \in AccountRow /\ row.enabled /\ ~OverQuota(a, row)
               /\ tick[w].view.camp[CampaignOf[m]].status = "running"
<1>1. tick[w].batch \subseteq Message /\ tick[w].view \in Tables
  BY DEF TypeOK, Tick
<1>2. PICK k \in Message :
         LET row == tick[w].view.acct[tick[w].held]
         IN  /\ At(tick[w], k)
             /\ tick[w].held = tick[w].view.msg[k].account
             /\ row.enabled
             /\ ~OverQuota(tick[w].held, row)
             /\ tick[w].view.camp[CampaignOf[k]].status = "running"
  BY DEF LockedAccount
<1>3. k = m
  BY <1>1, <1>2, AtUnique
<1>4. tick[w].view.msg[m].account \in Account
  BY <1>1, RowType
<1>5. \A a \in Account : tick[w].view.acct[a] \in AccountRow
  BY <1>1, RowType
<1>6. QED
  BY <1>2, <1>3, <1>4, <1>5

LEMMA QuotaTick ==
    ASSUME TypeOK, TypeOK', SyncInv, QuotaInv, Serial, Serial', NEW w \in Worker, Ticks(w)
    PROVE  /\ \A a \in Account :
                 \/ sentDay'[a] <= db'.acct[a].sentToday + faults'
                 \/ /\ sentDay'[a] <= db'.acct[a].sentToday + faults' + 1
                    /\ tick'[w].pc = "commit" /\ <<a, "sentToday">> \in tick'[w].dirty
           /\ tick'[w].pc # "idle" => QuotaSeen(View(tick[w]))'
           /\ LockedAccount(tick[w])'
<1> DEFINE t == tick[w]
           u == tick'[w]
           v == View(tick[w])
           Goal1 == \A a \in Account :
                       \/ sentDay'[a] <= db'.acct[a].sentToday + faults'
                       \/ /\ sentDay'[a] <= db'.acct[a].sentToday + faults' + 1
                          /\ u.pc = "commit" /\ <<a, "sentToday">> \in u.dirty
<1>1. /\ v \in Tables /\ faults \in Nat /\ faults' \in Nat
      /\ \A a \in Account : /\ sentDay[a] \in Nat /\ sentDay'[a] \in Nat
                            /\ v.acct[a].sentToday \in Nat /\ db.acct[a].sentToday \in Nat
                            /\ db'.acct[a].sentToday \in Nat
      /\ (t.pc \in {"locked", "send", "commit", "finish"} => t.open)
  <2>1. v \in Tables /\ db \in Tables /\ db' \in Tables
    BY Alone DEF SyncInv, TypeOK
  <2>2. \A a \in Account : v.acct[a].sentToday \in Nat
    BY <2>1, RowType DEF AccountRow
  <2>3. \A a \in Account : db.acct[a].sentToday \in Nat
    BY <2>1, RowType DEF AccountRow
  <2>4. \A a \in Account : db'.acct[a].sentToday \in Nat
    BY <2>1, RowType DEF AccountRow
  <2>5. QED
    BY <2>1, <2>2, <2>3, <2>4 DEF TypeOK, SyncInv, Shape
<1>2. \A a \in Account :
         \/ sentDay[a] <= db.acct[a].sentToday + faults
         \/ /\ sentDay[a] <= db.acct[a].sentToday + faults + 1
            /\ t.pc = "commit" /\ <<a, "sentToday">> \in t.dirty
  <2>1. \A x \in Worker \ {w} : tick[x].pc # "commit"
    BY Alone, IdleEmpty DEF SyncInv
  <2>2. QED
    BY <2>1 DEF QuotaInv, Lagging
<1>3. /\ t.pc # "idle" => \A a \in Account : sentDay[a] <= v.acct[a].sentToday + faults
      /\ LockedAccount(t)
  BY DEF QuotaInv, QuotaSeen
<1>4. ASSUME UNCHANGED <<db, sentDay, faults>>, t.pc # "commit" PROVE Goal1
  BY <1>2, <1>4
<1> HIDE DEF Goal1
<1>5. ASSUME NEW new, View(t)' = new,
             \A a \in Account : sentDay'[a] <= new.acct[a].sentToday + faults'
      PROVE  QuotaSeen(View(t))'
  BY <1>5 DEF QuotaSeen
<1>6. ASSUME u.pc \notin {"locked", "send"} PROVE LockedAccount(t)'
  BY <1>6 DEF LockedAccount
<1>7. SUFFICES Goal1 /\ (u.pc # "idle" => QuotaSeen(View(t))') /\ LockedAccount(t)'
  BY DEF Goal1
<1>8. CASE Starts(w)
  <2>1. /\ UNCHANGED <<db, sentDay, faults>> /\ View(t)' = db
        /\ t.pc = "idle" /\ u.pc = "scan"
    BY <1>8 DEF Starts, Untouched, View
  <2>2. \A a \in Account : sentDay'[a] <= db.acct[a].sentToday + faults'
    BY <1>2, <2>1
  <2>3. QED
    BY <1>4, <1>5, <1>6, <2>1, <2>2
<1>9. ASSUME NEW m \in Message, Scans(w, m)
      PROVE  Goal1 /\ (u.pc # "idle" => QuotaSeen(View(t))') /\ LockedAccount(t)'
  <2>1. UNCHANGED <<db, sentDay, faults>> /\ t.pc = "scan" /\ u.pc = "scan"
    BY <1>9 DEF Scans, Untouched
  <2>2. PICK new \in Tables : \E s, df : Wrote(t, u, new) /\ Edited(new, v, m, s, 0, df)
    BY <1>9 DEF Scans
  <2>3. View(t)' = new /\ \A a \in Account : new.acct[a].sentToday = v.acct[a].sentToday
    <3>1. \A a \in Account : v.acct[a].sentToday + 0 = v.acct[a].sentToday
      BY <1>1
    <3>2. QED
      BY <2>2, <3>1 DEF Edited, Wrote, View
  <2>4. QED
    BY <1>3, <1>4, <1>5, <1>6, <2>1, <2>3
<1>10. ASSUME NEW m \in Message, Locks(w, m)
       PROVE  Goal1 /\ (u.pc # "idle" => QuotaSeen(View(t))') /\ LockedAccount(t)'
  <2>1. /\ UNCHANGED <<db, sentDay, faults>> /\ t.pc = "scan" /\ u.pc = "locked"
        /\ u.batch = t.batch /\ At(t, m)
    BY <1>10 DEF Locks, Untouched
  <2> DEFINE a == v.msg[m].account
  <2>2. PICK new \in Tables :
           /\ u.held = a /\ Wrote(t, u, new)
           /\ new.acct = v.acct /\ new.camp = v.camp /\ new.msg[m].account = a
           /\ v.acct[a].enabled /\ ~OverQuota(a, v.acct[a])
           /\ v.camp[CampaignOf[m]].status = "running"
    BY <1>10 DEF Locks
  <2> HIDE DEF a
  <2>3. View(t)' = new /\ u.view = new /\ At(u, m)
    BY <2>1, <2>2 DEF Wrote, View, At
  <2>4. LockedAccount(u)
    <3> HIDE DEF v, u
    <3>1. QED
      BY <2>2, <2>3 DEF LockedAccount
  <2>5. LockedAccount(t)'
    BY <2>4 DEF LockedAccount
  <2>6. QED
    BY <1>3, <1>4, <1>5, <2>1, <2>2, <2>3, <2>5
<1>11. ASSUME NEW m \in Message, Calls(w, m)
       PROVE  Goal1 /\ (u.pc # "idle" => QuotaSeen(View(t))') /\ LockedAccount(t)'
  <2> DEFINE x == t.view.msg[m].account
  <2>1. /\ db' = db /\ t.pc = "send" /\ u.pc = "commit"
    BY <1>11 DEF Calls
  <2>2. v = t.view
    BY <1>1, <2>1 DEF View
  <2>3. PICK new \in Tables, ds \in {0, 1}, df \in {0, 1}, got \in {0, 1},
             s \in {"sent", "retry", "failed_permanent"} :
           /\ t.pc = "send" /\ u.pc = "commit" /\ At(t, m) /\ u.batch = t.batch
           /\ Wrote(t, u, new) /\ Edited(new, t.view, m, s, ds, df)
           /\ ds = IF s = "sent" THEN 1 ELSE 0
           /\ df = IF s = "failed_permanent" THEN 1 ELSE 0
           /\ s = "sent" => got = 1
           /\ Adds(delivered, delivered', Message, m, got)
           /\ Adds(sentDay, sentDay', Account, x, got)
           /\ faults' = IF got = 1 /\ s # "sent" THEN faults + 1 ELSE faults
           /\ UNCHANGED <<db, req, ops>>
    BY <1>11 DEF Calls
  <2>4. \A a \in Account : /\ sentDay'[a] = sentDay[a] + (IF a = x THEN got ELSE 0)
                           /\ new.acct[a].sentToday
                                 = v.acct[a].sentToday + (IF a = x THEN ds ELSE 0)
    <3>1. Edited(new, v, m, s, ds, df)
      BY <2>2, <2>3
    <3>2. QED
      BY <2>2, <2>3, <3>1 DEF Edited, Adds
  <2>5. /\ View(t)' = new
        /\ \A a \in Account : <<a, "sentToday">> \in Changed(v, new)
              <=> v.acct[a].sentToday # new.acct[a].sentToday
        /\ u.dirty = t.dirty \cup Changed(v, new)
    BY <2>3, ChangedColumns DEF Wrote, View
  <2> HIDE DEF x
  <2>6. \A a \in Account : sentDay'[a] <= new.acct[a].sentToday + faults'
    BY <1>1, <1>3, <2>1, <2>3, <2>4
  <2>7. Goal1
    <3> SUFFICES ASSUME NEW a \in Account
                 PROVE  \/ sentDay'[a] <= db'.acct[a].sentToday + faults'
                        \/ /\ sentDay'[a] <= db'.acct[a].sentToday + faults' + 1
                           /\ u.pc = "commit" /\ <<a, "sentToday">> \in u.dirty
      BY DEF Goal1
    <3>1. sentDay[a] <= db.acct[a].sentToday + faults
      BY <1>2, <2>1
    <3>2. CASE a = x /\ s = "sent"
      <4>1. new.acct[a].sentToday = v.acct[a].sentToday + 1 /\ sentDay'[a] = sentDay[a] + 1
        BY <2>3, <2>4, <3>2
      <4>2. <<a, "sentToday">> \in u.dirty
        BY <1>1, <2>5, <4>1
      <4>3. sentDay'[a] <= db'.acct[a].sentToday + faults' + 1
        BY <1>1, <2>1, <2>3, <3>1, <3>2, <4>1
      <4>4. QED
        BY <2>1, <4>2, <4>3
    <3>3. CASE ~(a = x /\ s = "sent")
      <4>1. sentDay'[a] <= db.acct[a].sentToday + faults'
        BY <1>1, <2>3, <2>4, <3>1, <3>3
      <4>2. QED
        BY <2>1, <4>1
    <3>4. QED
      BY <3>2, <3>3
  <2>8. QED
    BY <1>5, <1>6, <2>1, <2>5, <2>6, <2>7
<1>12. ASSUME NEW from, NEW to, Moves(w, from, to), to \in {"send", "scan"},
              to = "send" => from = "locked", to = "scan" => from = "release"
       PROVE  Goal1 /\ (u.pc # "idle" => QuotaSeen(View(t))') /\ LockedAccount(t)'
  <2>1. /\ UNCHANGED <<db, sentDay, faults>> /\ View(t)' = v
        /\ u.view = t.view /\ u.batch = t.batch /\ t.pc = from /\ u.pc = to
        /\ to = "send" => u.held = t.held
    BY <1>12 DEF Moves, Untouched, View
  <2>2. LockedAccount(t)'
    <3>1. CASE to = "send"
      BY <1>3, <1>12, <2>1, <3>1 DEF LockedAccount, At
    <3>2. CASE to = "scan"
      BY <1>6, <2>1, <3>2
    <3>3. QED
      BY <1>12, <3>1, <3>2
  <2>3. QED
    BY <1>3, <1>4, <1>5, <1>12, <2>1, <2>2
<1>13. CASE Commits(w)
  <2>1. /\ t.open /\ db' = Merge(db, t.view, t.dirty) /\ UNCHANGED <<sentDay, faults>>
        /\ u.dirty = {} /\ ~u.open /\ u.pc \in {"release", "idle"} /\ t.pc # "idle"
    BY <1>1, <1>13, IdleEmpty DEF Commits
  <2>2. v = t.view /\ View(t)' = db'
    BY <2>1 DEF View
  <2>3. \A a \in Account : db'.acct[a].sentToday
           = IF <<a, "sentToday">> \in t.dirty THEN v.acct[a].sentToday
                                               ELSE db.acct[a].sentToday
    <3> HIDE DEF v, t
    <3>1. db' = Merge(db, v, t.dirty)
      BY <2>1, <2>2
    <3>2. QED
      BY <3>1 DEF Merge
  <2>4. \A a \in Account : sentDay'[a] <= db'.acct[a].sentToday + faults'
    BY <1>2, <1>3, <2>1, <2>3
  <2>5. QED
    BY <1>5, <1>6, <2>1, <2>2, <2>4 DEF Goal1
<1>14. CASE Sweeps(w)
  <2>1. UNCHANGED <<db, sentDay, faults>> /\ t.pc = "scan" /\ u.pc = "finish"
    BY <1>14 DEF Sweeps, Untouched
  <2>2. PICK new : Wrote(t, u, new) /\ new.acct = v.acct
    BY <1>14 DEF Sweeps
  <2>3. View(t)' = new
    BY <2>2 DEF Wrote, View
  <2>4. QED
    BY <1>3, <1>4, <1>5, <1>6, <2>1, <2>2, <2>3
<1>15. CASE Dies(w)
  <2>1. UNCHANGED <<db, sentDay>> /\ faults' = faults + 1 /\ u.pc = "idle"
    BY <1>15, IdleEmpty DEF Dies
  <2>2. \A a \in Account : sentDay'[a] <= db'.acct[a].sentToday + faults'
    <3> SUFFICES ASSUME NEW a \in Account
                 PROVE  sentDay'[a] <= db'.acct[a].sentToday + faults'
      OBVIOUS
    <3>0. \/ sentDay[a] <= db.acct[a].sentToday + faults
          \/ sentDay[a] <= db.acct[a].sentToday + faults + 1
      BY <1>2
    <3>2. sentDay[a] \in Nat /\ db.acct[a].sentToday \in Nat
      BY <1>1
    <3>1. sentDay[a] <= db.acct[a].sentToday + faults + 1
      BY <1>1, <3>0, <3>2
    <3>3. sentDay'[a] = sentDay[a] /\ db'.acct[a].sentToday = db.acct[a].sentToday
      BY <2>1
    <3> HIDE DEF u
    <3>4. QED
      BY <1>1, <2>1, <3>1, <3>2, <3>3
  <2>3. QED
    BY <1>6, <2>1, <2>2 DEF Goal1
<1>16. QED
  BY <1>8, <1>9, <1>10, <1>11, <1>12, <1>13, <1>14, <1>15 DEF Ticks

LEMMA QuotaOutside ==
    ASSUME TypeOK, TypeOK', QuotaInv, Requests \/ Requeues
    PROVE  QuotaInv'
<1>1. /\ tick' = tick /\ faults' = faults
      /\ \A a \in Account : \/ db'.acct[a].sentToday = db.acct[a].sentToday
                               /\ sentDay'[a] = sentDay[a]
                            \/ db'.acct[a].sentToday = 0 /\ sentDay'[a] = 0
  <2>1. CASE Requests
    BY <2>1 DEF Requests
  <2>2. CASE Requeues
    BY <2>2 DEF Requeues
  <2>3. QED
    BY <2>1, <2>2
<1>2. db \in Tables /\ faults \in Nat
  BY DEF TypeOK
<1>3. ASSUME NEW a \in Account
      PROVE  (sentDay[a] <= db.acct[a].sentToday + faults \/ Lagging(a))'
  <2>1. sentDay[a] <= db.acct[a].sentToday + faults \/ Lagging(a)
    BY DEF QuotaInv
  <2>2. CASE db'.acct[a].sentToday = 0 /\ sentDay'[a] = 0
    BY <1>1, <1>2, <2>2
  <2>3. CASE db'.acct[a].sentToday = db.acct[a].sentToday /\ sentDay'[a] = sentDay[a]
    BY <1>1, <2>1, <2>3 DEF Lagging
  <2>4. QED
    BY <1>1, <2>2, <2>3
<1>4. ASSUME NEW w \in Worker, tick'[w].pc # "idle" PROVE QuotaSeen(View(tick[w]))'
  <2> DEFINE t == tick[w]
  <2>1. \A a \in Account : sentDay[a] <= View(t).acct[a].sentToday + faults
    BY <1>1, <1>4 DEF QuotaInv, QuotaSeen
  <2>2. CASE t.open
    <3>1. View(t) = t.view /\ View(t)' = t.view /\ t.view \in Tables
      BY <1>1, <2>2 DEF View, TypeOK, Tick
    <3>2. \A a \in Account : t.view.acct[a].sentToday \in Nat
      BY <3>1, RowType DEF AccountRow
    <3> HIDE DEF t
    <3>3. ASSUME NEW a \in Account PROVE sentDay'[a] <= t.view.acct[a].sentToday + faults'
      <4>1. sentDay'[a] = sentDay[a] \/ sentDay'[a] = 0
        BY <1>1
      <4>2. sentDay[a] <= t.view.acct[a].sentToday + faults
        BY <2>1, <3>1
      <4>3. QED
        BY <1>1, <1>2, <3>2, <4>1, <4>2
    <3>4. QED
      BY <3>1, <3>3 DEF QuotaSeen, t
  <2>3. CASE ~t.open
    <3>1. View(t) = db /\ View(t)' = db'
      BY <1>1, <2>3 DEF View
    <3>2. \A a \in Account : sentDay'[a] <= db'.acct[a].sentToday + faults'
      BY <1>1, <1>2, <2>1, <3>1
    <3>3. QED
      BY <3>1, <3>2 DEF QuotaSeen
  <2>4. QED
    BY <2>2, <2>3
<1>5. \A w \in Worker : LockedAccount(tick[w])'
  BY <1>1 DEF QuotaInv, LockedAccount
<1>6. QED
  BY <1>3, <1>4, <1>5 DEF QuotaInv

LEMMA QuotaStep ==
    ASSUME TypeOK, TypeOK', SyncInv, QuotaInv, Serial, Serial', [Next]_vars
    PROVE  QuotaInv'
<1>1. ASSUME NEW w \in Worker, Ticks(w) PROVE QuotaInv'
  <2>1. /\ \A a \in Account :
              \/ sentDay'[a] <= db'.acct[a].sentToday + faults'
              \/ /\ sentDay'[a] <= db'.acct[a].sentToday + faults' + 1
                 /\ tick'[w].pc = "commit" /\ <<a, "sentToday">> \in tick'[w].dirty
        /\ tick'[w].pc # "idle" => QuotaSeen(View(tick[w]))'
        /\ LockedAccount(tick[w])'
    BY <1>1, QuotaTick
  <2>2. ASSUME NEW a \in Account
        PROVE  (sentDay[a] <= db.acct[a].sentToday + faults \/ Lagging(a))'
    BY <2>1 DEF Lagging
  <2>3. ASSUME NEW v \in Worker \ {w}
        PROVE  (tick[v].pc # "idle" => QuotaSeen(View(tick[v])))' /\ LockedAccount(tick[v])'
    <3>1. tick'[v].pc = "idle"
      BY <1>1, Alone, IdleEmpty DEF SyncInv
    <3>2. QED
      BY <3>1 DEF LockedAccount
  <2>4. QED
    BY <2>1, <2>2, <2>3 DEF QuotaInv
<1>2. CASE UNCHANGED <<db, tick, req, delivered, sentDay, faults, ops>>
  BY <1>2 DEF QuotaInv, QuotaSeen, Lagging, LockedAccount, View, At, OverQuota
<1>3. QED
  BY <1>1, <1>2, QuotaOutside, SerialSteps DEF SyncInv

\* The send that reaches the limit was checked against a row that lags by faults only.
LEMMA LimitStep ==
    ASSUME TypeOK, TypeOK', SyncInv, QuotaInv, WithinDailyLimit,
           Serial, Serial', [Next]_vars
    PROVE  WithinDailyLimit'
<1>1. /\ faults \in Nat /\ faults' \in Nat
      /\ \A a \in Account : sentDay[a] \in Nat /\ sentDay'[a] \in Nat /\ DailyLimit[a] \in Nat
  BY ConstantsAssumption DEF TypeOK
<1>2. ASSUME faults' \in {faults, faults + 1},
             \A a \in Account : sentDay'[a] \in {sentDay[a], 0}
      PROVE  WithinDailyLimit'
  <2> SUFFICES ASSUME NEW a \in Account, DailyLimit[a] # 0
               PROVE  sentDay'[a] <= DailyLimit[a] + faults'
    BY DEF WithinDailyLimit
  <2>1. sentDay[a] <= DailyLimit[a] + faults
    BY DEF WithinDailyLimit
  <2>2. QED
    BY <1>1, <1>2, <2>1
<1>3. ASSUME NEW w \in Worker, NEW m \in Message, Calls(w, m) PROVE WithinDailyLimit'
  <2> DEFINE x == tick[w].view.msg[m].account
             row == tick[w].view.acct[x]
  <2>1. tick[w].pc = "send" /\ At(tick[w], m) /\ tick[w].open
    BY <1>3 DEF Calls, SyncInv, Shape
  <2>2. PICK n \in {0, 1} : /\ \A a \in Account : sentDay'[a] = sentDay[a] + (IF a = x THEN n ELSE 0)
                            /\ faults' \in {faults, faults + 1}
    BY <1>3 DEF Calls, Adds
  <2>3. x \in Account /\ row \in AccountRow /\ ~OverQuota(x, row)
    BY <2>1, LockedAt DEF QuotaInv
  <2>4. sentDay[x] <= row.sentToday + faults
    BY <2>1, <2>3 DEF QuotaInv, QuotaSeen, View
  <2>5. row.sentToday \in Nat /\ (DailyLimit[x] # 0 => row.sentToday < DailyLimit[x])
    BY <1>1, <2>3 DEF OverQuota, AccountRow
  <2> HIDE DEF x, row
  <2> SUFFICES ASSUME NEW a \in Account, DailyLimit[a] # 0
               PROVE  sentDay'[a] <= DailyLimit[a] + faults'
    BY DEF WithinDailyLimit
  <2>6. sentDay[a] <= DailyLimit[a] + faults
    BY DEF WithinDailyLimit
  <2>7. CASE a = x
    BY <1>1, <2>2, <2>3, <2>4, <2>5, <2>7
  <2>8. CASE a # x
    <3>1. sentDay'[a] = sentDay[a]
      BY <1>1, <2>2, <2>8
    <3>2. QED
      BY <1>1, <2>2, <2>6, <3>1
  <2>9. QED
    BY <2>7, <2>8
<1>4. ASSUME NEW w \in Worker, Ticks(w), \A m \in Message : ~Calls(w, m)
      PROVE  sentDay' = sentDay /\ faults' \in {faults, faults + 1}
  <2>1. CASE Starts(w)
    BY <2>1 DEF Starts, Untouched
  <2>2. CASE Moves(w, "locked", "send") \/ Moves(w, "release", "scan")
    BY <2>2 DEF Moves, Untouched
  <2>3. CASE Commits(w) \/ Sweeps(w) \/ Dies(w)
    BY <2>3 DEF Commits, Sweeps, Dies, Untouched
  <2>4. ASSUME NEW m \in Message, Scans(w, m) \/ Locks(w, m)
        PROVE  sentDay' = sentDay /\ faults' = faults
    BY <2>4 DEF Scans, Locks, Untouched
  <2>5. QED
    BY <1>4, <2>1, <2>2, <2>3, <2>4 DEF Ticks
<1>5. CASE Requests \/ Requeues
  <2>1. faults' = faults /\ \A a \in Account : sentDay'[a] \in {sentDay[a], 0}
    BY <1>5 DEF Requests, Requeues
  <2>2. QED
    BY <1>2, <2>1
<1>6. ASSUME NEW w \in Worker, Ticks(w) PROVE WithinDailyLimit'
  BY <1>2, <1>3, <1>4, <1>6
<1>7. CASE UNCHANGED <<db, tick, req, delivered, sentDay, faults, ops>>
  BY <1>2, <1>7
<1>8. QED
  BY <1>5, <1>6, <1>7, SerialSteps DEF SyncInv

-----------------------------------------------------------------------------
(* The kill switch                                                         *)

LEMMA EnabledStep ==
    ASSUME TypeOK, SyncInv, EnabledInv, "enable" \notin Ops,
           Serial, Serial', [Next]_vars
    PROVE  EnabledInv'
<1>1. ASSUME NEW w \in Worker, Ticks(w) PROVE EnabledInv'
  <2> DEFINE t == tick[w]
             u == tick'[w]
             v == View(tick[w])
  <2>1. /\ \A a \in Account : v.acct[a].enabled => db.acct[a].enabled
        /\ t.pc \in {"locked", "send", "commit", "finish"} => t.open
    BY DEF EnabledInv, SyncInv, Shape
  <2>2. \A a \in Account : View(t)'.acct[a].enabled => db'.acct[a].enabled
    <3>1. CASE Starts(w) \/ Dies(w)
      <4>1. View(t)' = db'
        BY <3>1, IdleEmpty DEF Starts, Dies, Untouched, View
      <4>2. QED
        BY <4>1
    <3>2. CASE Commits(w)
      BY <3>2 DEF Commits, View
    <3>3. ASSUME NEW new, Wrote(t, u, new), db' = db,
                 \A a \in Account : new.acct[a].enabled => v.acct[a].enabled
          PROVE  \A a \in Account : View(t)'.acct[a].enabled => db'.acct[a].enabled
      <4>1. View(t)' = new
        BY <3>3 DEF Wrote, View
      <4>2. QED
        BY <2>1, <3>3, <4>1
    <3>4. CASE Sweeps(w)
      <4>1. PICK new : Wrote(t, u, new) /\ new.acct = v.acct
        BY <3>4 DEF Sweeps
      <4>2. db' = db
        BY <3>4 DEF Sweeps, Untouched
      <4>3. QED
        BY <3>3, <4>1, <4>2
    <3>5. ASSUME NEW m \in Message, Scans(w, m) \/ Locks(w, m)
          PROVE  \A a \in Account : View(t)'.acct[a].enabled => db'.acct[a].enabled
      <4>1. PICK new : Wrote(t, u, new) /\ \E s, df : Edited(new, v, m, s, 0, df)
        BY <3>5 DEF Scans, Locks
      <4>2. db' = db
        BY <3>5 DEF Scans, Locks, Untouched
      <4>3. \A a \in Account : new.acct[a].enabled => v.acct[a].enabled
        BY <4>1 DEF Edited
      <4>4. QED
        BY <3>3, <4>1, <4>2, <4>3
    <3>6. ASSUME NEW m \in Message, Calls(w, m)
          PROVE  \A a \in Account : View(t)'.acct[a].enabled => db'.acct[a].enabled
      <4>1. t.pc = "send" /\ db' = db
        BY <3>6 DEF Calls
      <4>2. v = t.view
        BY <2>1, <4>1 DEF View
      <4>3. PICK new : Wrote(t, u, new) /\ \E s, ds, df : Edited(new, t.view, m, s, ds, df)
        BY <3>6 DEF Calls
      <4>4. \A a \in Account : new.acct[a].enabled => v.acct[a].enabled
        BY <4>2, <4>3 DEF Edited
      <4>5. QED
        BY <3>3, <4>1, <4>3, <4>4
    <3>7. CASE Moves(w, "locked", "send") \/ Moves(w, "release", "scan")
      <4>1. View(t)' = v /\ db' = db
        BY <3>7 DEF Moves, Untouched, View
      <4>2. QED
        BY <2>1, <4>1
    <3>8. QED
      BY <1>1, <3>1, <3>2, <3>4, <3>5, <3>6, <3>7 DEF Ticks
  <2>3. ASSUME NEW x \in Worker \ {w} PROVE View(tick[x])' = db'
    <3>1. tick'[x] = Idle
      BY <1>1, Alone DEF SyncInv
    <3>2. QED
      BY <3>1, IdleEmpty DEF View
  <2>4. QED
    BY <2>2, <2>3 DEF EnabledInv
<1>2. CASE Requests \/ Requeues
  <2>1. tick' = tick /\ \A a \in Account : db'.acct[a].enabled = db.acct[a].enabled
    BY <1>2 DEF Requests, Requeues
  <2>2. QED
    BY <2>1 DEF EnabledInv, View
<1>3. CASE UNCHANGED <<db, tick, req, delivered, sentDay, faults, ops>>
  BY <1>3 DEF EnabledInv, View
<1>4. QED
  BY <1>1, <1>2, <1>3, SerialSteps DEF SyncInv

-----------------------------------------------------------------------------
(* Closed campaigns                                                        *)

\* An edit in the loop body closes no campaign, and leaves a message to retry
\* only at the commit, in a campaign that runs.
LEMMA TerminalWrite ==
    ASSUME NEW w \in Worker, NEW m \in Message, NEW new, NEW s, NEW ds, NEW df,
           TerminalSync(tick[w]), UNCHANGED <<db, ops>>,
           tick[w].pc \in {"scan", "locked", "send"}, tick'[w].pc \notin {"finish", "idle"},
           Wrote(tick[w], tick'[w], new), Edited(new, View(tick[w]), m, s, ds, df),
           \/ s = View(tick[w]).msg[m].status
           \/ s \notin Pending
           \/ /\ tick'[w].pc = "commit"
              /\ View(tick[w]).camp[CampaignOf[m]].status = "running"
    PROVE  TerminalSync(tick[w])'
<1> DEFINE t == tick[w]
           u == tick'[w]
           v == View(tick[w])
<1>1. /\ View(t)' = new
      /\ \A k \in Message : <<k, "status">> \in u.dirty
            <=> <<k, "status">> \in t.dirty \/ v.msg[k].status # new.msg[k].status
      /\ \A c \in Campaign : <<c, "status">> \in u.dirty
            <=> <<c, "status">> \in t.dirty \/ v.camp[c].status # new.camp[c].status
  <2>1. View(t)' = new /\ u.dirty = t.dirty \cup Changed(v, new)
    BY DEF Wrote, View
  <2> HIDE DEF v, u, t
  <2>2. \A k \in Message : <<k, "status">> \in Changed(v, new)
           <=> v.msg[k].status # new.msg[k].status
    BY ChangedColumns
  <2>3. \A c \in Campaign : <<c, "status">> \in Changed(v, new)
           <=> v.camp[c].status # new.camp[c].status
    BY ChangedColumns
  <2>4. QED
    BY <2>1, <2>2, <2>3
<1>2. /\ \A k \in Message : new.msg[k].status = IF k = m THEN s ELSE v.msg[k].status
      /\ \A c \in Campaign : \/ new.camp[c].status = v.camp[c].status
                             \/ v.camp[c].status = "queued" /\ new.camp[c].status = "running"
  BY DEF Edited, Becomes
<1>3. /\ \A c \in Campaign :
            /\ db.camp[c].status \in Terminal => v.camp[c].status \in Terminal
            /\ <<c, "status">> \in t.dirty => v.camp[c].status = "running"
      /\ \A k \in Message : <<k, "status">> \in t.dirty => v.msg[k].status \notin Pending
  BY DEF TerminalSync
<1> HIDE DEF v
<1>4. ASSUME NEW c \in Campaign
      PROVE  /\ db.camp[c].status \in Terminal => new.camp[c].status \in Terminal
             /\ <<c, "status">> \in u.dirty => new.camp[c].status = "running"
  BY <1>1, <1>2, <1>3 DEF Terminal
<1>5. ASSUME NEW k \in Message, <<k, "status">> \in u.dirty, new.msg[k].status \in Pending
      PROVE  u.pc = "commit" /\ new.camp[CampaignOf[k]].status = "running"
  <2>1. k = m /\ s # v.msg[m].status
    BY <1>1, <1>2, <1>3, <1>5
  <2>2. s \in Pending
    BY <1>2, <1>5, <2>1
  <2>3. u.pc = "commit" /\ v.camp[CampaignOf[m]].status = "running"
    BY <2>1, <2>2 DEF v
  <2>4. CampaignOf[m] \in Campaign
    BY ConstantsAssumption
  <2>5. QED
    BY <1>2, <2>1, <2>3, <2>4
<1>6. QED
  BY <1>1, <1>4, <1>5 DEF TerminalSync

\* A commit closes no campaign that has work left.
LEMMA TerminalCommit ==
    ASSUME TypeOK, SyncInv, TerminalInv, Serial, Serial', NEW w \in Worker, Commits(w)
    PROVE  TerminalHasNoPending'
<1> DEFINE t == tick[w]
           v == t.view
<1>1. /\ t.open /\ db' = Merge(db, v, t.dirty) /\ ops' = ops
      /\ t.pc \in {"commit", "finish"} /\ View(t) = v
  <2>1. t.open
    BY DEF Commits, SyncInv, Shape
  <2>2. View(t) = v
    BY <2>1 DEF View
  <2>3. QED
    BY <2>1, <2>2 DEF Commits
<1>2. /\ \A k \in Message : db'.msg[k].status = StatusAfter(t, k)
      /\ \A c \in Campaign : db'.camp[c].status \in Terminal <=> ClosedAfter(t, c)
  <2> HIDE DEF t
  <2>1. db' = Merge(db, t.view, t.dirty)
    BY <1>1
  <2>2. /\ \A k \in Message : db'.msg[k].status
              = IF <<k, "status">> \in t.dirty THEN t.view.msg[k].status ELSE db.msg[k].status
        /\ \A c \in Campaign : db'.camp[c].status
              = IF <<c, "status">> \in t.dirty THEN t.view.camp[c].status ELSE db.camp[c].status
    BY <2>1 DEF Merge
  <2>3. QED
    BY <2>2 DEF StatusAfter, ClosedAfter
<1>3. SUFFICES ASSUME NEW k \in Message, ClosedAfter(t, CampaignOf[k]),
                      StatusAfter(t, k) \in Pending
               PROVE  StatusAfter(t, k) = "queued" /\ ops > 0
  <2>1. \A k \in Message : CampaignOf[k] \in Campaign
    BY ConstantsAssumption
  <2> HIDE DEF t
  <2>2. QED
    BY <1>1, <1>2, <2>1 DEF TerminalHasNoPending
<1>4. TerminalSync(t)
  BY DEF TerminalInv
<1>5. CASE t.pc = "finish"
  BY <1>3, <1>4, <1>5 DEF TerminalSync
<1>6. CASE t.pc = "commit"
  <2> DEFINE c == CampaignOf[k]
  <2>0. c \in Campaign
    BY ConstantsAssumption
  <2>1. <<c, "status">> \notin t.dirty /\ db.camp[c].status \in Terminal
    BY <1>1, <1>3, <1>4, <1>6, <2>0 DEF TerminalSync, ClosedAfter, Terminal
  <2>2. v.camp[c].status # "running"
    BY <1>1, <1>4, <2>0, <2>1 DEF TerminalSync, Terminal
  <2>3. <<k, "status">> \notin t.dirty
    <3>1. SUFFICES ASSUME <<k, "status">> \in t.dirty PROVE FALSE
      OBVIOUS
    <3>2. v.msg[k].status \in Pending
      BY <1>3, <3>1 DEF StatusAfter
    <3>3. QED
      BY <1>1, <1>4, <2>2, <3>1, <3>2 DEF TerminalSync
  <2>4. db.msg[k].status \in Pending /\ StatusAfter(t, k) = db.msg[k].status
    BY <1>3, <2>3 DEF StatusAfter
  <2>5. QED
    BY <2>1, <2>4 DEF TerminalInv, TerminalHasNoPending
<1>7. QED
  BY <1>1, <1>5, <1>6

\* The sweep closes only campaigns without work, but for what a requeue put back.
LEMMA TerminalSweep ==
    ASSUME TypeOK, SyncInv, TerminalInv, Serial, Serial', NEW w \in Worker, Sweeps(w)
    PROVE  TerminalSync(tick[w])'
<1> DEFINE t == tick[w]
           u == tick'[w]
           v == View(tick[w])
<1>1. PICK new \in Tables :
         /\ t.pc = "scan" /\ u.pc = "finish"
         /\ Wrote(t, u, new) /\ new.msg = v.msg
         /\ \A c \in Campaign :
               \/ new.camp[c].status = v.camp[c].status
               \/ /\ new.camp[c].status \in Terminal
                  /\ \A k \in Message : CampaignOf[k] = c =>
                        \/ StatusAfter(t, k) \notin Pending
                        \/ /\ <<k, "status">> \notin t.dirty
                           /\ v.msg[k].status \notin Pending
  BY DEF Sweeps
<1>2. UNCHANGED <<db, ops>>
  BY DEF Sweeps, Untouched
<1>3. /\ View(t)' = new /\ u.view = new
      /\ u.dirty = t.dirty \cup Changed(v, new)
  BY <1>1 DEF Wrote, View
<1>4. /\ \A c \in Campaign :
            /\ db.camp[c].status \in Terminal => v.camp[c].status \in Terminal
            /\ <<c, "status">> \in t.dirty => v.camp[c].status = "running"
      /\ \A k \in Message : <<k, "status">> \in t.dirty => v.msg[k].status \notin Pending
  BY <1>1 DEF TerminalInv, TerminalSync
<1>5. \A k \in Message : <<k, "status">> \notin t.dirty =>
         \/ v.msg[k].status = db.msg[k].status
         \/ v.msg[k].status \in Dead /\ db.msg[k].status = "queued" /\ ops > 0
  BY DEF SyncInv, StatusSync
<1>6. /\ \A k \in Message : CampaignOf[k] \in Campaign
      /\ \A k \in Message : db.camp[CampaignOf[k]].status \in Terminal
                            /\ db.msg[k].status \in Pending
                            => db.msg[k].status = "queued" /\ ops > 0
  BY ConstantsAssumption DEF TerminalInv, TerminalHasNoPending
<1> HIDE DEF v, u
<1>7. /\ \A k \in Message : <<k, "status">> \in u.dirty <=> <<k, "status">> \in t.dirty
      /\ \A c \in Campaign : <<c, "status">> \in u.dirty =>
            <<c, "status">> \in t.dirty \/ v.camp[c].status # new.camp[c].status
  <2>1. \A k \in Message : <<k, "status">> \in Changed(v, new)
           <=> v.msg[k].status # new.msg[k].status
    BY ChangedColumns
  <2>2. \A c \in Campaign : <<c, "status">> \in Changed(v, new)
           <=> v.camp[c].status # new.camp[c].status
    BY ChangedColumns
  <2>3. QED
    BY <1>1, <1>3, <2>1, <2>2
<1>8. \A c \in Campaign : db.camp[c].status \in Terminal => new.camp[c].status \in Terminal
  BY <1>1, <1>4
<1>9. \A k \in Message : ~(<<k, "status">> \in u.dirty /\ new.msg[k].status \in Pending)
  BY <1>1, <1>4, <1>7
<1>10. ASSUME NEW k \in Message, ClosedAfter(u, CampaignOf[k]), StatusAfter(u, k) \in Pending
       PROVE  StatusAfter(u, k) = "queued" /\ ops > 0
  <2> DEFINE c == CampaignOf[k]
  <2>1. <<k, "status">> \notin u.dirty
    BY <1>3, <1>9, <1>10 DEF StatusAfter
  <2>2. /\ StatusAfter(u, k) = db.msg[k].status /\ <<k, "status">> \notin t.dirty
        /\ StatusAfter(t, k) = db.msg[k].status
    BY <1>7, <2>1 DEF StatusAfter
  <2>3. CASE db.camp[c].status \in Terminal
    BY <1>6, <1>10, <2>2, <2>3
  <2>4. CASE db.camp[c].status \notin Terminal
    <3>1. <<c, "status">> \in u.dirty /\ new.camp[c].status \in Terminal
      BY <1>3, <1>10, <2>4 DEF ClosedAfter
    <3>2. new.camp[c].status # v.camp[c].status
      BY <1>4, <1>6, <1>7, <3>1 DEF Terminal
    <3>3. v.msg[k].status \notin Pending
      BY <1>1, <1>6, <1>10, <2>2, <3>2
    <3>4. QED
      BY <1>5, <1>10, <2>2, <3>3
  <2>5. QED
    BY <2>3, <2>4
<1>11. QED
  <2> USE DEF u
  <2>1. ASSUME NEW k \in Message, ClosedAfter(t, CampaignOf[k])', StatusAfter(t, k)' \in Pending
        PROVE  StatusAfter(t, k)' = "queued" /\ ops' > 0
    <3>1. ClosedAfter(t, CampaignOf[k])' <=> ClosedAfter(u, CampaignOf[k])
      BY <1>2 DEF ClosedAfter
    <3>2. StatusAfter(t, k)' = StatusAfter(u, k)
      BY <1>2 DEF StatusAfter
    <3>3. QED
      BY <1>2, <1>10, <2>1, <3>1, <3>2
  <2>2. QED
    BY <1>1, <1>2, <1>3, <1>8, <1>9, <2>1 DEF TerminalSync

LEMMA TerminalTick ==
    ASSUME TypeOK, SyncInv, QuotaInv, TerminalInv, Serial, Serial',
           NEW w \in Worker, Ticks(w)
    PROVE  TerminalHasNoPending' /\ TerminalSync(tick[w])'
<1> DEFINE t == tick[w]
           u == tick'[w]
           v == View(tick[w])
<1>1. /\ TerminalSync(t) /\ TerminalHasNoPending /\ StatusSync(t) /\ v \in Tables
      /\ t.pc \in {"locked", "send", "commit", "finish"} => t.open
  BY Alone DEF TerminalInv, SyncInv, Shape
<1>2. ASSUME UNCHANGED <<db, ops>> PROVE TerminalHasNoPending'
  BY <1>1, <1>2 DEF TerminalHasNoPending
<1>3. ASSUME View(t)' = db', u.dirty = {}, u.pc # "finish" PROVE TerminalSync(t)'
  BY <1>3 DEF TerminalSync
<1>4. CASE Starts(w) \/ Dies(w)
  <2>1. /\ View(t)' = db' /\ u.dirty = {} /\ u.pc # "finish" /\ UNCHANGED <<db, ops>>
    BY <1>4, IdleEmpty DEF Starts, Dies, Untouched, View
  <2>2. QED
    BY <1>2, <1>3, <2>1
<1>5. CASE Commits(w)
  <2>1. View(t)' = db' /\ u.dirty = {} /\ u.pc # "finish"
    BY <1>5, IdleEmpty DEF Commits, View
  <2>2. QED
    BY <1>3, <1>5, <2>1, TerminalCommit
<1>6. CASE Sweeps(w)
  <2>1. UNCHANGED <<db, ops>>
    BY <1>6 DEF Sweeps, Untouched
  <2>2. QED
    BY <1>2, <1>6, <2>1, TerminalSweep
<1>7. ASSUME NEW m \in Message, Scans(w, m)
      PROVE  TerminalHasNoPending' /\ TerminalSync(tick[w])'
  <2>1. UNCHANGED <<db, ops>> /\ t.pc = "scan" /\ u.pc = "scan"
    BY <1>7 DEF Scans, Untouched
  <2>2. PICK new \in Tables, s \in Pending \cup Dead \cup {"sending", "sent"}, df \in {0, 1} :
           /\ Wrote(t, u, new) /\ Edited(new, v, m, s, 0, df)
           /\ s = v.msg[m].status \/ s \in Dead
    BY <1>7 DEF Scans
  <2>3. s = v.msg[m].status \/ s \notin Pending
    BY <2>2 DEF Dead, Pending
  <2>4. TerminalSync(t)'
    BY <1>1, <2>1, <2>2, <2>3, TerminalWrite
  <2>5. QED
    BY <1>2, <2>1, <2>4
<1>8. ASSUME NEW m \in Message, Locks(w, m)
      PROVE  TerminalHasNoPending' /\ TerminalSync(tick[w])'
  <2>1. UNCHANGED <<db, ops>> /\ t.pc = "scan" /\ u.pc = "locked"
    BY <1>8 DEF Locks, Untouched
  <2>2. PICK new \in Tables : Wrote(t, u, new) /\ Edited(new, v, m, "sending", 0, 0)
    BY <1>8 DEF Locks
  <2>3. "sending" \notin Pending
    BY DEF Pending
  <2>4. TerminalSync(t)'
    BY <1>1, <2>1, <2>2, <2>3, TerminalWrite
  <2>5. QED
    BY <1>2, <2>1, <2>4
<1>9. ASSUME NEW m \in Message, Calls(w, m)
      PROVE  TerminalHasNoPending' /\ TerminalSync(tick[w])'
  <2>1. UNCHANGED <<db, ops>> /\ t.pc = "send" /\ u.pc = "commit" /\ At(t, m)
    BY <1>9 DEF Calls
  <2>2. v = t.view
    BY <1>1, <2>1 DEF View
  <2>3. PICK new \in Tables : Wrote(t, u, new) /\ \E s, ds, df : Edited(new, v, m, s, ds, df)
    BY <1>9, <2>2 DEF Calls
  <2>4. PICK s, ds, df : Edited(new, v, m, s, ds, df)
    BY <2>3
  <2>5. v.camp[CampaignOf[m]].status = "running"
    BY <2>1, <2>2, LockedAt DEF QuotaInv
  <2>6. TerminalSync(t)'
    BY <1>1, <2>1, <2>3, <2>4, <2>5, TerminalWrite
  <2>7. QED
    BY <1>2, <2>1, <2>6
<1>10. ASSUME NEW from \in {"locked", "release"}, NEW to \in {"send", "scan"}, Moves(w, from, to)
       PROVE  TerminalHasNoPending' /\ TerminalSync(tick[w])'
  <2>1. /\ UNCHANGED <<db, ops>> /\ View(t)' = v /\ u.dirty = t.dirty
        /\ t.pc \notin {"commit", "finish"} /\ u.pc \notin {"commit", "finish"}
    BY <1>10 DEF Moves, Untouched, View
  <2>2. TerminalSync(t)'
    BY <1>1, <2>1 DEF TerminalSync
  <2>3. QED
    BY <1>2, <2>1, <2>2
<1>11. QED
  BY <1>4, <1>5, <1>6, <1>7, <1>8, <1>9, <1>10 DEF Ticks

LEMMA TerminalOutside ==
    ASSUME TypeOK, SyncInv, TerminalInv, Requests \/ Requeues
    PROVE  TerminalInv'
<1>1. /\ tick' = tick /\ (ops > 0 => ops' > 0)
      /\ \A k \in Message : \/ db'.msg[k].status = db.msg[k].status
                            \/ db'.msg[k].status = "queued" /\ ops' > 0
      /\ \A c \in Campaign : \/ db'.camp[c].status = db.camp[c].status
                             \/ db'.camp[c].status \notin Terminal
  <2>1. CASE Requests
    BY <2>1 DEF Requests, TypeOK
  <2>2. CASE Requeues
    BY <2>2 DEF Requeues, SyncInv, RequeueInv
  <2>3. QED
    BY <2>1, <2>2
<1>2. \A k \in Message : CampaignOf[k] \in Campaign
  BY ConstantsAssumption
<1>3. TerminalHasNoPending'
  BY <1>1, <1>2 DEF TerminalInv, TerminalHasNoPending
<1>4. ASSUME NEW w \in Worker PROVE TerminalSync(tick[w])'
  <2> DEFINE t == tick[w]
  <2>1. TerminalSync(t)
    BY DEF TerminalInv
  <2>2. CASE ~t.open
    <3>1. t.dirty = {} /\ View(t)' = db' /\ t.pc # "finish"
      BY <1>1, <2>2 DEF SyncInv, Shape, View
    <3>2. QED
      BY <1>1, <3>1 DEF TerminalSync
  <2>3. CASE t.open
    <3>1. View(t) = t.view /\ View(t)' = t.view
      BY <1>1, <2>3 DEF View
    <3>2. ASSUME NEW k \in Message, t.pc = "finish", ClosedAfter(t, CampaignOf[k])',
                 StatusAfter(t, k)' \in Pending
          PROVE  StatusAfter(t, k)' = "queued" /\ ops' > 0
      <4>1. ClosedAfter(t, CampaignOf[k])
        BY <1>1, <1>2, <3>2 DEF ClosedAfter
      <4>2. StatusAfter(t, k)' = StatusAfter(t, k)
            \/ (StatusAfter(t, k)' = "queued" /\ ops' > 0)
        BY <1>1 DEF StatusAfter
      <4>3. QED
        BY <1>1, <2>1, <3>2, <4>1, <4>2 DEF TerminalSync
    <3>3. QED
      BY <1>1, <2>1, <3>1, <3>2 DEF TerminalSync
  <2>4. QED
    BY <2>2, <2>3
<1>5. QED
  BY <1>3, <1>4 DEF TerminalInv

LEMMA TerminalStep ==
    ASSUME TypeOK, SyncInv, QuotaInv, TerminalInv, Serial, Serial', [Next]_vars
    PROVE  TerminalInv'
<1>1. ASSUME NEW w \in Worker, Ticks(w) PROVE TerminalInv'
  <2>1. TerminalHasNoPending' /\ TerminalSync(tick[w])'
    BY <1>1, TerminalTick
  <2>2. ASSUME NEW v \in Worker \ {w} PROVE TerminalSync(tick[v])'
    <3>1. tick'[v] = Idle
      BY <1>1, Alone DEF SyncInv
    <3>2. View(tick[v])' = db'
      BY <3>1, IdleEmpty DEF View
    <3>3. QED
      BY <3>1, <3>2, IdleEmpty DEF TerminalSync
  <2>3. QED
    BY <2>1, <2>2 DEF TerminalInv
<1>2. CASE UNCHANGED <<db, tick, req, delivered, sentDay, faults, ops>>
  BY <1>2 DEF TerminalInv, TerminalSync, TerminalHasNoPending, View, ClosedAfter, StatusAfter
<1>3. QED
  BY <1>1, <1>2, TerminalOutside, SerialSteps DEF SyncInv

-----------------------------------------------------------------------------
(* The ledger                                                              *)

\* Where a message stands by its committed status alone.
Recorded(status) ==
    CASE status \in Dead -> "dead"
      [] status = "sent" -> "sent"
      [] OTHER -> "pending"

\* Tick t is about to record that Telegram took message k.
Booked(t, k) ==
    db.msg[k].status # "sent" /\ t.pc = "commit" /\ t.view.msg[k].status = "sent"

\* Only a message the committed tables show pending can be about to be recorded.
LEMMA BookedPending ==
    ASSUME SyncInv, NEW w \in Worker, NEW k \in Message, Booked(tick[w], k)
    PROVE  db.msg[k].status \in Pending /\ <<k, "status">> \in tick[w].dirty
<1>1. View(tick[w]).msg[k].status = "sent" /\ db.msg[k].status # "sent"
  BY DEF Booked, SyncInv, Shape, View
<1>2. StatusSync(tick[w])
  BY DEF SyncInv
<1>3. QED
  BY <1>1, <1>2 DEF StatusSync, Dead

LEMMA RecordedCases ==
    /\ \A s \in Pending : Recorded(s) = "pending"
    /\ \A s \in Dead : Recorded(s) = "dead"
    /\ Recorded("sent") = "sent" /\ Recorded("sending") = "pending"
BY DEF Recorded, Pending, Dead

\* What the ledger shows while only tick w is under way.
LEMMA StandingAlone ==
    ASSUME TypeOK, SyncInv, Serial, Serial', NEW w \in Worker, Ticks(w), NEW k \in Message
    PROVE  /\ Standing(k) = IF Booked(tick[w], k) THEN "accepted"
                            ELSE Recorded(db.msg[k].status)
           /\ Standing(k)' = IF Booked(tick[w], k)' THEN "accepted"
                             ELSE Recorded(db'.msg[k].status)
<1>1. \A v \in Worker \ {w} : tick[v] = Idle /\ tick'[v] = Idle
  BY Alone DEF SyncInv
<1>2. \A v \in Worker \ {w} : ~Booked(tick[v], k)
  BY <1>1, IdleEmpty DEF Booked
<1>3. \A v \in Worker \ {w} : ~Booked(tick[v], k)'
  BY <1>1, IdleEmpty DEF Booked
<1>4. Standing(k) = IF Booked(tick[w], k) THEN "accepted" ELSE Recorded(db.msg[k].status)
  BY <1>2 DEF Standing, Booked, Recorded
<1>5. Standing(k)' = IF Booked(tick[w], k)' THEN "accepted" ELSE Recorded(db'.msg[k].status)
  BY <1>3 DEF Standing, Booked, Recorded
<1>6. QED
  BY <1>4, <1>5

LEMMA LedgerTick ==
    ASSUME TypeOK, TypeOK', SyncInv, Serial, Serial', NEW w \in Worker, Ticks(w)
    PROVE  Ledger!Next \/ UNCHANGED Ledger!ledgerVars
<1> DEFINE t == tick[w]
           u == tick'[w]
<1>1. /\ StatusSync(t)
      /\ t.pc \in {"locked", "send", "commit", "finish"} => View(t) = t.view
  BY DEF SyncInv, Shape, View
<1>2. ASSUME \A k \in Message : Standing(k)' = Standing(k), UNCHANGED <<delivered, faults>>
      PROVE  UNCHANGED Ledger!ledgerVars
  BY <1>2 DEF Ledger!ledgerVars
<1>3. ASSUME t.pc # "commit", u.pc # "commit", UNCHANGED <<db, delivered, faults>>
      PROVE  UNCHANGED Ledger!ledgerVars
  <2>1. \A k \in Message : ~Booked(t, k) /\ ~Booked(t, k)'
    BY <1>3 DEF Booked
  <2>2. \A k \in Message : Standing(k)' = Standing(k)
    BY <1>3, <2>1, StandingAlone
  <2>3. QED
    BY <1>2, <1>3, <2>2
<1>4. CASE Starts(w) \/ Sweeps(w)
  BY <1>3, <1>4 DEF Starts, Sweeps, Untouched
<1>5. CASE Moves(w, "locked", "send") \/ Moves(w, "release", "scan")
  BY <1>3, <1>5 DEF Moves, Untouched
<1>6. ASSUME NEW m \in Message, Scans(w, m) \/ Locks(w, m)
      PROVE  UNCHANGED Ledger!ledgerVars
  BY <1>3, <1>6 DEF Scans, Locks, Untouched
<1>7. ASSUME NEW m \in Message, Calls(w, m)
      PROVE  Ledger!Next \/ UNCHANGED Ledger!ledgerVars
  <2>1. PICK new \in Tables, ds \in {0, 1}, df \in {0, 1}, got \in {0, 1},
             s \in {"sent", "retry", "failed_permanent"} :
           /\ t.pc = "send" /\ u.pc = "commit" /\ At(t, m)
           /\ Wrote(t, u, new) /\ Edited(new, t.view, m, s, ds, df)
           /\ s = "sent" => got = 1
           /\ Adds(delivered, delivered', Message, m, got)
           /\ faults' = IF got = 1 /\ s # "sent" THEN faults + 1 ELSE faults
           /\ db' = db
    BY <1>7 DEF Calls
  <2>2. \A k \in Message : ~Booked(t, k) /\ Standing(k) = Recorded(db.msg[k].status)
    BY <2>1, StandingAlone DEF Booked
  <2>3. \A k \in Message : db.msg[k].status # "sent" => t.view.msg[k].status # "sent"
    BY <1>1, <2>1 DEF StatusSync
  <2>4. db.msg[m].status \in Pending
    BY <1>1, <2>1 DEF StatusSync, At
  <2>5. \A k \in Message : u.view.msg[k].status = IF k = m THEN s ELSE t.view.msg[k].status
    BY <2>1 DEF Wrote, Edited, Becomes
  <2>6. \A k \in Message : Booked(t, k)' <=> k = m /\ s = "sent"
    BY <2>1, <2>3, <2>4, <2>5 DEF Booked, Pending
  <2>7. \A k \in Message : Standing(k)' = IF k = m /\ s = "sent" THEN "accepted"
                                                               ELSE Standing(k)
    BY <2>1, <2>2, <2>6, StandingAlone
  <2>8. Standing(m) = "pending" /\ \A k \in Message : Standing(k) # "accepted"
    BY <2>2, <2>4, RecordedCases DEF Recorded
  <2>9. /\ delivered \in [Message -> Nat] /\ delivered' \in [Message -> Nat]
        /\ delivered' = [delivered EXCEPT ![m] = @ + got]
    BY <2>1 DEF Adds, TypeOK
  <2>10. CASE s = "sent"
    <3>1. Ledger!Accept(m)
      BY <2>1, <2>7, <2>8, <2>9, <2>10 DEF Ledger!Accept, Ledger!Accepted
    <3>2. QED
      BY <3>1 DEF Ledger!Next
  <2>11. CASE s # "sent" /\ got = 1
    <3>1. Ledger!LoseReply(m)
      BY <2>1, <2>7, <2>8, <2>9, <2>11 DEF Ledger!LoseReply
    <3>2. QED
      BY <3>1 DEF Ledger!Next
  <2>12. CASE s # "sent" /\ got = 0
    <3>1. delivered' = delivered /\ faults' = faults
      BY <2>1, <2>9, <2>12
    <3>2. QED
      BY <1>2, <2>7, <2>12, <3>1
  <2>13. QED
    BY <2>1, <2>10, <2>11, <2>12
<1>8. CASE Commits(w)
  <2>1. /\ t.pc \in {"commit", "finish"} /\ View(t) = t.view
        /\ db' = Merge(db, t.view, t.dirty) /\ u.pc # "commit"
        /\ UNCHANGED <<delivered, faults>>
    BY <1>1, <1>8, IdleEmpty DEF Commits
  <2>2. \A k \in Message : db'.msg[k].status
           = IF <<k, "status">> \in t.dirty THEN t.view.msg[k].status ELSE db.msg[k].status
    BY <2>1 DEF Merge
  <2>3. \A k \in Message : Standing(k)' = Recorded(db'.msg[k].status)
    BY <2>1, StandingAlone DEF Booked
  <2> DEFINE gone == {k \in Message : Standing(k) = "pending" /\ Standing(k)' = "dead"}
  <2>4. ASSUME NEW k \in Message
        PROVE  Standing(k)' = CASE Standing(k) = "accepted" -> "sent"
                                [] k \in gone -> "dead"
                                [] OTHER -> Standing(k)
    <3>1. Standing(k) = IF Booked(t, k) THEN "accepted" ELSE Recorded(db.msg[k].status)
      BY StandingAlone
    <3>2. CASE Booked(t, k)
      <4>1. <<k, "status">> \in t.dirty /\ t.view.msg[k].status = "sent"
        BY <3>2, BookedPending DEF Booked
      <4>2. QED
        BY <2>2, <2>3, <3>1, <3>2, <4>1, RecordedCases
    <3>3. CASE ~Booked(t, k)
      <4>1. Standing(k) = Recorded(db.msg[k].status) /\ Standing(k) # "accepted"
        BY <3>1, <3>3 DEF Recorded
      <4>2. CASE <<k, "status">> \notin t.dirty
        BY <2>2, <2>3, <4>1, <4>2
      <4>3. CASE <<k, "status">> \in t.dirty
        <5>1. db.msg[k].status \in Pending
          BY <1>1, <4>3 DEF StatusSync
        <5>2. t.view.msg[k].status # "sent"
          BY <1>1, <2>1, <3>3, <5>1 DEF StatusSync, Booked, Pending
        <5>3. Standing(k) = "pending" /\ Standing(k)' \in {"pending", "dead"}
          BY <2>2, <2>3, <4>1, <4>3, <5>1, <5>2, RecordedCases DEF Recorded
        <5>4. QED
          BY <5>3
      <4>4. QED
        BY <4>2, <4>3
    <3>4. QED
      BY <3>2, <3>3
  <2>5. gone \in SUBSET {k \in Message : Standing(k) = "pending"}
    OBVIOUS
  <2> HIDE DEF gone
  <2>6. Ledger!Settle
    BY <2>1, <2>4, <2>5 DEF Ledger!Settle, Ledger!Accepted
  <2>7. QED
    BY <2>6 DEF Ledger!Next
<1>9. CASE Dies(w)
  <2>1. u.pc # "commit" /\ faults' = faults + 1 /\ UNCHANGED <<db, delivered>>
    BY <1>9, IdleEmpty DEF Dies
  <2>2. \A k \in Message : Standing(k)' = Recorded(db.msg[k].status)
    BY <2>1, StandingAlone DEF Booked
  <2>3. \A k \in Message : Standing(k)' = IF Standing(k) = "accepted" THEN "pending"
                                                                    ELSE Standing(k)
    <3> SUFFICES ASSUME NEW k \in Message
                 PROVE  Standing(k)' = IF Standing(k) = "accepted" THEN "pending"
                                                                   ELSE Standing(k)
      OBVIOUS
    <3>1. Standing(k) = IF Booked(t, k) THEN "accepted" ELSE Recorded(db.msg[k].status)
      BY StandingAlone
    <3>2. CASE Booked(t, k)
      BY <2>2, <3>1, <3>2, BookedPending, RecordedCases
    <3>3. CASE ~Booked(t, k)
      BY <2>2, <3>1, <3>3 DEF Recorded
    <3>4. QED
      BY <3>2, <3>3
  <2>4. Ledger!Forget
    BY <2>1, <2>3 DEF Ledger!Forget, Ledger!Accepted
  <2>5. QED
    BY <2>4 DEF Ledger!Next
<1>10. QED
  BY <1>4, <1>5, <1>6, <1>7, <1>8, <1>9 DEF Ticks

LEMMA LedgerOutside ==
    ASSUME TypeOK, SyncInv,
           Requests \/ Requeues \/ UNCHANGED <<db, tick, req, delivered, sentDay, faults, ops>>
    PROVE  Ledger!Next \/ UNCHANGED Ledger!ledgerVars
<1>1. UNCHANGED <<tick, delivered, faults>>
  BY DEF Requests, Requeues
<1>2. CASE Requests \/ UNCHANGED <<db, tick, req, delivered, sentDay, faults, ops>>
  <2>1. \A k \in Message : db'.msg[k].status = db.msg[k].status
    BY <1>2 DEF Requests
  <2>2. \A k \in Message : Standing(k)' = Standing(k)
    BY <1>1, <2>1 DEF Standing
  <2>3. QED
    BY <1>1, <2>2 DEF Ledger!ledgerVars
<1>3. CASE Requeues
  <2> DEFINE some == req.lost \cap Message
  <2>1. \A k \in Message :
           db'.msg[k].status = IF k \in some THEN "queued" ELSE db.msg[k].status
    BY <1>3 DEF Requeues
  <2>2. \A k \in some : db.msg[k].status \in Dead
    BY <1>3 DEF Requeues, SyncInv, RequeueInv
  <2> HIDE DEF some
  <2>3. ASSUME NEW k \in Message
        PROVE  /\ Standing(k)' = IF k \in some THEN "pending" ELSE Standing(k)
               /\ k \in some => Standing(k) = "dead"
    <3>1. CASE k \in some
      <4>1. \A w \in Worker : ~Booked(tick[w], k)
        BY <2>2, <3>1, BookedPending DEF Dead, Pending
      <4>2. \A w \in Worker : tick[w].pc = "commit" => tick[w].view.msg[k].status # "sent"
        BY <2>2, <3>1, <4>1 DEF Booked, Dead
      <4>3. Standing(k) = "dead"
        <5>1. ~(\E w \in Worker : tick[w].pc = "commit" /\ tick[w].view.msg[k].status = "sent")
          BY <4>2
        <5>2. db.msg[k].status \in Dead
          BY <2>2, <3>1
        <5>3. QED
          BY <5>1, <5>2 DEF Standing, Dead
      <4>4. Standing(k)' = "pending"
        BY <1>1, <2>1, <3>1, <4>2 DEF Standing, Dead
      <4>5. QED
        BY <3>1, <4>3, <4>4
    <3>2. CASE k \notin some
      BY <1>1, <2>1, <3>2 DEF Standing
    <3>3. QED
      BY <3>1, <3>2
  <2>4. some \in SUBSET {k \in Message : Standing(k) = "dead"}
    BY <2>3 DEF some
  <2>5. Ledger!Revive
    BY <1>1, <2>3, <2>4 DEF Ledger!Revive
  <2>6. QED
    BY <2>5 DEF Ledger!Next
<1>4. QED
  BY <1>2, <1>3

LEMMA LedgerStep ==
    ASSUME TypeOK, TypeOK', SyncInv, Serial, Serial', [Next]_vars
    PROVE  [Ledger!Next]_(Ledger!ledgerVars)
<1>1. Shape
  BY DEF SyncInv
<1>2. ASSUME NEW w \in Worker, Ticks(w) PROVE Ledger!Next \/ UNCHANGED Ledger!ledgerVars
  BY <1>2, LedgerTick
<1>3. QED
  BY <1>1, <1>2, LedgerOutside, SerialSteps

\* What the ledger itself promises, for everything that implements it.
LEMMA PaidForStep ==
    ASSUME Ledger!LedgerTypeOK, Ledger!PaidFor, [Ledger!Next]_(Ledger!ledgerVars)
    PROVE  Ledger!LedgerTypeOK' /\ Ledger!PaidFor'
<1> USE DEF Ledger!LedgerTypeOK, Ledger!PaidFor
<1>1. CASE UNCHANGED Ledger!ledgerVars
  BY <1>1 DEF Ledger!ledgerVars
<1>2. ASSUME NEW m \in Message, Ledger!Accept(m) \/ Ledger!LoseReply(m)
      PROVE  Ledger!LedgerTypeOK' /\ Ledger!PaidFor'
  <2>1. CASE Ledger!Accept(m)
    <3>1. \A k \in Message : Standing(k) \in {"pending", "accepted", "sent", "dead"}
      OBVIOUS
    <3>2. Standing(m) = "pending" /\ faults' = faults /\ faults \in Nat
      BY <2>1 DEF Ledger!Accept
    <3>3. delivered' \in [Message -> Nat]
          /\ \A k \in Message : delivered'[k] = IF k = m THEN delivered[k] + 1 ELSE delivered[k]
      BY <2>1 DEF Ledger!Accept
    <3>4. [k \in Message |-> Standing(k)']
             = [k \in Message |-> IF k = m THEN "accepted" ELSE Standing(k)]
      BY <2>1 DEF Ledger!Accept
    <3>5. \A k \in Message : Standing(k)' = IF k = m THEN "accepted" ELSE Standing(k)
      BY <3>4
    <3>6. \A k \in Message :
             delivered[k] <= faults + (IF Standing(k) \in {"accepted", "sent"} THEN 1 ELSE 0)
      OBVIOUS
    <3>7. \A k \in Message :
             delivered'[k] <= faults' + (IF Standing(k)' \in {"accepted", "sent"} THEN 1 ELSE 0)
      BY <3>2, <3>3, <3>5, <3>6
    <3>8. QED
      BY <3>1, <3>2, <3>3, <3>5, <3>7
  <2>2. CASE Ledger!LoseReply(m)
    BY <2>2 DEF Ledger!LoseReply
  <2>3. QED
    BY <1>2, <2>1, <2>2
<1>3. CASE Ledger!Settle
  BY <1>3 DEF Ledger!Settle, Ledger!Accepted
<1>4. CASE Ledger!Revive
  BY <1>4 DEF Ledger!Revive
<1>5. CASE Ledger!Forget
  BY <1>5 DEF Ledger!Forget, Ledger!Accepted
<1>6. QED
  BY <1>1, <1>2, <1>3, <1>4, <1>5 DEF Ledger!Next

-----------------------------------------------------------------------------
(* The initial state, and the invariants of every run without overlap       *)

LEMMA InitInvs ==
    ASSUME Init
    PROVE  /\ SyncInv /\ CountInv /\ QuotaInv /\ WithinDailyLimit /\ EnabledInv
           /\ TerminalInv /\ Ledger!Init /\ Ledger!LedgerTypeOK /\ Ledger!PaidFor
<1>1. /\ db = InitTables /\ req = NoRequest /\ faults = 0 /\ ops = 0
      /\ \A m \in Message : delivered[m] = 0
      /\ delivered = [m \in Message |-> 0]
      /\ \A a \in Account : sentDay[a] = 0
      /\ \A w \in Worker : tick[w] = Idle
  BY DEF Init
<1>2. /\ \A m \in Message : db.msg[m].status = "queued" /\ CampaignOf[m] \in Campaign
      /\ \A c \in Campaign : db.camp[c] = [status |-> "queued", sent |-> 0, failed |-> 0]
      /\ \A a \in Account : db.acct[a].sentToday = 0 /\ DailyLimit[a] \in Nat
  BY <1>1, ConstantsAssumption DEF InitTables
<1>3. \A w \in Worker : View(tick[w]) = db /\ tick[w].pc = "idle" /\ ~tick[w].open
                        /\ tick[w].dirty = {} /\ tick[w].batch = {}
  BY <1>1 DEF View, Idle
<1>4. SyncInv
  BY <1>1, <1>2, <1>3 DEF SyncInv, Shape, RequeueInv, StatusSync
<1>5. CountInv
  <2>1. \A c \in Campaign : With(db, c, Done) = {} /\ With(db, c, Dead) = {}
    BY <1>2 DEF With, Done, Dead
  <2>2. \A c \in Campaign : Cardinality(With(db, c, Done)) = 0
                            /\ Cardinality(With(db, c, Dead)) = 0
    BY <2>1, FS_EmptySet
  <2>3. Counted(db)
    BY <1>2, <2>2 DEF Counted
  <2>4. QED
    BY <1>3, <2>3 DEF CountInv, CountSync
<1>6. QuotaInv /\ WithinDailyLimit
  BY <1>1, <1>2, <1>3 DEF QuotaInv, QuotaSeen, LockedAccount, WithinDailyLimit
<1>7. EnabledInv
  BY <1>3 DEF EnabledInv
<1>8. TerminalInv
  BY <1>2, <1>3 DEF TerminalInv, TerminalSync, TerminalHasNoPending, Terminal
<1>9. \A m \in Message : Standing(m) = "pending"
  BY <1>2, <1>3 DEF Standing, Dead
<1>10. Ledger!Init /\ Ledger!LedgerTypeOK /\ Ledger!PaidFor
  BY <1>1, <1>9 DEF Ledger!Init, Ledger!LedgerTypeOK, Ledger!PaidFor
<1>11. QED
  BY <1>4, <1>5, <1>6, <1>7, <1>8, <1>10

\* The invariants that need no hypothesis on the operators' requests.
SerialInv ==
    /\ TypeOK /\ SyncInv /\ CountInv /\ QuotaInv /\ WithinDailyLimit /\ TerminalInv
    /\ Ledger!LedgerTypeOK /\ Ledger!PaidFor

LEMMA SerialInvStep ==
    ASSUME SerialInv, Serial, Serial', [Next]_vars
    PROVE  SerialInv' /\ [Ledger!Next]_(Ledger!ledgerVars)
<1> USE DEF SerialInv
<1>1. TypeOK'
  BY TypeStep
<1>2. SyncInv' /\ CountInv' /\ QuotaInv'
  BY <1>1, SyncStep, CountStep, QuotaStep
<1>3. WithinDailyLimit'
  BY <1>1, LimitStep
<1>4. TerminalInv'
  BY TerminalStep
<1>5. [Ledger!Next]_(Ledger!ledgerVars)
  BY <1>1, LedgerStep
<1>6. Ledger!LedgerTypeOK' /\ Ledger!PaidFor'
  BY <1>5, PaidForStep
<1>7. QED
  BY <1>1, <1>2, <1>3, <1>4, <1>5, <1>6

LEMMA SerialCorrect == Spec /\ []Serial => []SerialInv
<1>1. Init => SerialInv
  BY TypeInit, InitInvs DEF SerialInv
<1>2. SerialInv /\ Serial /\ Serial' /\ [Next]_vars => SerialInv'
  BY SerialInvStep
<1>3. QED
  BY <1>1, <1>2, PTL DEF Spec

-----------------------------------------------------------------------------
(* What follows                                                            *)

\* Without overlapping ticks the queue implements the delivery ledger: each of
\* its steps accepts, settles, revives, loses or forgets messages exactly as the
\* ledger allows, and nothing else it does is visible there.
THEOREM LedgerImplemented == Spec /\ []Serial => KeepsLedger
<1>1. Init => Ledger!Init
  BY InitInvs
<1>2. SerialInv /\ Serial /\ Serial' /\ [Next]_vars => [Ledger!Next]_(Ledger!ledgerVars)
  BY SerialInvStep
<1>3. QED
  BY <1>1, <1>2, SerialCorrect, PTL DEF Spec, KeepsLedger, Ledger!Spec

\* Whatever keeps the ledger, accepts a message beyond the acceptance on record
\* only when a crash or a lost reply paid for it.
THEOREM LedgerPaidFor == KeepsLedger => [](Ledger!LedgerTypeOK /\ Ledger!PaidFor)
<1>1. Ledger!Init => Ledger!LedgerTypeOK /\ Ledger!PaidFor
  BY DEF Ledger!Init, Ledger!LedgerTypeOK, Ledger!PaidFor
<1>2. QED
  BY <1>1, PaidForStep, PTL DEF KeepsLedger, Ledger!Spec

\* Every message Telegram took is on record, is being recorded, or was paid for
\* by a crash of a worker or a lost reply.
THEOREM SendsPaidFor == Spec /\ []Serial => []EverySendPaidFor
<1>1. SerialInv => EverySendPaidFor
  BY DEF SerialInv, EverySendPaidFor
<1>2. QED
  BY <1>1, SerialCorrect, PTL

\* sent_count is the number of the campaign's sent messages, and failed_count the
\* number of its dead ones until an operator acts.
THEOREM CountersKept == Spec /\ []Serial => []CountersExact
<1>1. SerialInv => CountersExact
  BY DEF SerialInv, CountInv, Counted, With, Done, CountersExact
<1>2. QED
  BY <1>1, SerialCorrect, PTL

\* An account's real sends since the reset exceed its daily_limit by no more
\* than the crashes and the lost replies.
THEOREM LimitKept == Spec /\ []Serial => []WithinDailyLimit
<1>1. SerialInv => WithinDailyLimit
  BY DEF SerialInv
<1>2. QED
  BY <1>1, SerialCorrect, PTL

\* The sweep closes no campaign with a message left to retry, and none with one
\* queued unless an operator put it back.
THEOREM SweptClean == Spec /\ []Serial => []TerminalHasNoPending
<1>1. SerialInv => TerminalHasNoPending
  BY DEF SerialInv, TerminalInv
<1>2. QED
  BY <1>1, SerialCorrect, PTL

\* The kill switch holds from the very next message on, as long as nobody but the
\* queue itself flips an account's switch.
THEOREM KillSwitchHolds ==
    ASSUME "enable" \notin Ops
    PROVE  Spec /\ []Serial => []NoSendFromKilled
<1>1. Init => EnabledInv
  BY InitInvs
<1>2. SerialInv /\ EnabledInv /\ Serial /\ Serial' /\ [Next]_vars => EnabledInv'
  BY EnabledStep DEF SerialInv
<1>3. SerialInv /\ EnabledInv => NoSendFromKilled
  <2> SUFFICES ASSUME SerialInv, EnabledInv, NEW w \in Worker, tick[w].pc = "send"
               PROVE  db.acct[tick[w].held].enabled
    BY DEF NoSendFromKilled
  <2>1. /\ LockedAccount(tick[w]) /\ View(tick[w]) = tick[w].view
        /\ tick[w].view \in Tables
    BY DEF SerialInv, QuotaInv, SyncInv, Shape, View, TypeOK, Tick
  <2>2. PICK m \in Message : /\ tick[w].held = tick[w].view.msg[m].account
                             /\ tick[w].view.acct[tick[w].held].enabled
    BY <2>1 DEF LockedAccount
  <2>3. tick[w].held \in Account
    BY <2>1, <2>2, RowType
  <2>4. QED
    BY <2>1, <2>2, <2>3 DEF EnabledInv
<1>4. QED
  BY <1>1, <1>2, <1>3, SerialCorrect, PTL DEF Spec
=============================================================================
