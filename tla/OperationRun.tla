---------------------------- MODULE OperationRun ----------------------------
(***************************************************************************)
(* One batch_op or modify_info campaign: each start dispatches a task that *)
(* calls Telegram once for every eligible account and commits all of its   *)
(* results at the end (workers/execute_operation.py), while operators      *)
(* start, pause, resume and cancel (api/routes/campaigns.py) and accounts  *)
(* come and go.  Tasks of two starts may overlap.                          *)
(***************************************************************************)
EXTENDS Integers, FiniteSets

CONSTANTS
    Worker,      \* processes of the queue that run such tasks
    Member,     \* members of the campaign's groups
    Ops,         \* the outside changes that occur, a subset of AllOps
    MaxStarts,   \* bound: starts
    MaxFaults    \* bound: crashes and failed dispatches

AllOps == {"pause", "resume", "cancel", "toggle"}

ASSUME OperationAssumption ==
    /\ IsFiniteSet(Worker)
    /\ Ops \subseteq AllOps
    /\ MaxStarts \in Nat
    /\ MaxFaults \in Nat

VARIABLES
    camp,       \* the campaign's committed row
    eligible,   \* enabled accounts with a usable status
    queue,      \* dispatched tasks nobody has taken yet
    run,        \* per worker: its task and what its session read
    \* Observability.
    called,     \* calls made to Telegram, per account
    audited,    \* audit rows committed, by result
    dispatched, \* tasks dispatched so far
    starts, faults

vars == <<camp, eligible, queue, run, called, audited, dispatched, starts, faults>>

-----------------------------------------------------------------------------
Ended == {"completed", "partially_failed", "failed"}
CampaignRow ==
    [status: {"queued", "running", "paused", "cancelled"} \cup Ended,
     sent: Nat, failed: Nat]

Result == {"ok", "failed"}

NewCampaign == [status |-> "queued", sent |-> 0, failed |-> 0]

\* row is the campaign as the task's snapshot shows it, todo the accounts it has
\* still to call, count its two local counters.
Idle == [busy |-> FALSE, row |-> NewCampaign, todo |-> {}, count |-> [x \in Result |-> 0]]

Task == [busy: BOOLEAN, row: CampaignRow, todo: SUBSET Member, count: [Result -> Nat]]

-----------------------------------------------------------------------------
(* Operators                                                               *)

\* POST /start commits, then dispatches; the broker may refuse, or the process
\* die, in between.
StartCampaign ==
    /\ starts < MaxStarts
    /\ starts' = starts + 1
    /\ camp' = [camp EXCEPT !.status = "running"]
    /\ \/ /\ queue' = queue + 1
          /\ dispatched' = dispatched + 1
          /\ faults' = faults
       \/ /\ faults < MaxFaults
          /\ faults' = faults + 1
          /\ UNCHANGED <<queue, dispatched>>
    /\ UNCHANGED <<eligible, run, called, audited>>

SetStatus(kind, s) ==
    /\ kind \in Ops
    /\ camp.status # s
    /\ camp' = [camp EXCEPT !.status = s]
    /\ UNCHANGED <<eligible, queue, run, called, audited, dispatched, starts, faults>>

PauseCampaign  == SetStatus("pause", "paused")
ResumeCampaign == SetStatus("resume", "running")
CancelCampaign == SetStatus("cancel", "cancelled")

\* Another part of the system makes an account eligible, or not.
ToggleAccount(a) ==
    /\ "toggle" \in Ops
    /\ eligible' = IF a \in eligible THEN eligible \ {a} ELSE eligible \cup {a}
    /\ UNCHANGED <<camp, queue, run, called, audited, dispatched, starts, faults>>

-----------------------------------------------------------------------------
(* execute_operation_campaign                                              *)

\* A task reads the campaign, whatever its status, and its accounts; with none
\* it completes the campaign at once.
BeginRun(w) ==
    /\ ~run[w].busy
    /\ queue > 0
    /\ queue' = queue - 1
    /\ IF eligible = {}
       THEN /\ camp' = [camp EXCEPT !.status = "completed"]
            /\ run' = run
       ELSE /\ camp' = camp
            /\ run' = [run EXCEPT ![w] =
                          [Idle EXCEPT !.busy = TRUE, !.row = camp, !.todo = eligible]]
    /\ UNCHANGED <<eligible, called, audited, dispatched, starts, faults>>

\* Mutant: an account whose call failed stays on the list.
OperateRetries(w, a, x) ==
    /\ run[w].busy
    /\ a \in run[w].todo
    /\ run' = [run EXCEPT ![w].todo = IF x = "ok" THEN @ \ {a} ELSE @,
                          ![w].count[x] = @ + 1]
    /\ called' = [called EXCEPT ![a] = @ + 1]
    /\ UNCHANGED <<camp, eligible, queue, audited, dispatched, starts, faults>>

\* One call for one account; what it returns or raises is counted.
Operate(w, a, x) ==
    /\ run[w].busy
    /\ a \in run[w].todo
    /\ run' = [run EXCEPT ![w].todo = @ \ {a}, ![w].count[x] = @ + 1]
    /\ called' = [called EXCEPT ![a] = @ + 1]
    /\ UNCHANGED <<camp, eligible, queue, audited, dispatched, starts, faults>>

FinalStatus(count) ==
    CASE count["failed"] = 0 -> "completed"
      [] count["failed"] > 0 /\ count["ok"] = 0 -> "failed"
      [] OTHER -> "partially_failed"

\* The value a column ends with: an UPDATE names only the columns whose value
\* differs from what the session read.
Written(read, new, now) == IF new = read THEN now ELSE new

\* Mutant: what the row holds is added to what it held when the task read it.
TalliedTwice(t) ==
    [status |-> Written(t.row.status, FinalStatus(t.count), camp.status),
     sent   |-> camp.sent + t.row.sent + t.count["ok"],
     failed |-> camp.failed + t.row.failed + t.count["failed"]]

\* Mutant: the status is only written by a run in which something succeeded.
KeptStatus(t) ==
    [status |-> IF t.count["ok"] = 0 THEN camp.status
                ELSE Written(t.row.status, FinalStatus(t.count), camp.status),
     sent   |-> Written(t.row.sent, t.row.sent + t.count["ok"], camp.sent),
     failed |-> Written(t.row.failed, t.row.failed + t.count["failed"], camp.failed)]

Tallied(t) ==
    [status |-> Written(t.row.status, FinalStatus(t.count), camp.status),
     sent   |-> Written(t.row.sent, t.row.sent + t.count["ok"], camp.sent),
     failed |-> Written(t.row.failed, t.row.failed + t.count["failed"], camp.failed)]

\* The single commit: counters, status and every audit row.
FinishRun(w) ==
    LET t == run[w]
    IN  /\ t.busy
        /\ t.todo = {}
        /\ camp' = Tallied(t)
        /\ audited' = [x \in Result |-> audited[x] + t.count[x]]
        /\ run' = [run EXCEPT ![w] = Idle]
        /\ UNCHANGED <<eligible, queue, called, dispatched, starts, faults>>

\* The process dies: the message was acknowledged when taken and is not
\* delivered again, and nothing was committed.
Crash(w) ==
    /\ run[w].busy
    /\ faults < MaxFaults
    /\ faults' = faults + 1
    /\ run' = [run EXCEPT ![w] = Idle]
    /\ UNCHANGED <<camp, eligible, queue, called, audited, dispatched, starts>>

-----------------------------------------------------------------------------
Init ==
    /\ camp = NewCampaign
    /\ eligible = Member
    /\ queue = 0
    /\ run = [w \in Worker |-> Idle]
    /\ called = [a \in Member |-> 0]
    /\ audited = [x \in Result |-> 0]
    /\ dispatched = 0
    /\ starts = 0
    /\ faults = 0

Step(w) ==
    \/ BeginRun(w)
    \/ \E a \in Member, x \in Result : Operate(w, a, x)
    \/ FinishRun(w)

Next ==
    \/ \E w \in Worker : Step(w) \/ Crash(w)
    \/ StartCampaign \/ PauseCampaign \/ ResumeCampaign \/ CancelCampaign
    \/ \E a \in Member : ToggleAccount(a)

Spec == Init /\ [][Next]_vars

\* A worker takes the tasks there are and carries each to its end.
FairSpec == Spec /\ \A w \in Worker : WF_vars(Step(w))

-----------------------------------------------------------------------------
(* Properties                                                              *)

TypeOK ==
    /\ camp \in CampaignRow
    /\ eligible \subseteq Member
    /\ queue \in Nat
    /\ run \in [Worker -> Task]
    /\ called \in [Member -> Nat]
    /\ audited \in [Result -> Nat]
    /\ dispatched \in Nat
    /\ starts \in Nat
    /\ faults \in Nat

\* No account is called more often than tasks were dispatched, whatever runs
\* overlap or die ("one attempt per account per dispatch").
OneAttemptPerDispatch == \A a \in Member : called[a] <= dispatched

\* The campaign's counters never claim more than the audit log shows; runs that
\* overlap may lose counts, they never invent them.
CountersAudited == camp.sent <= audited["ok"] /\ camp.failed <= audited["failed"]

\* When nothing more can fail, a dispatched campaign stops running: a run writes
\* its outcome whatever its accounts answered.
DispatchedEnds ==
    (queue > 0 /\ faults = MaxFaults) ~> (camp.status # "running")

=============================================================================
