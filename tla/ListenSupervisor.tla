--------------------------- MODULE ListenSupervisor ---------------------------
(***************************************************************************)
(* The worker that listens (workers/listen_worker.py and listen_incoming   *)
(* of telegram/adapter.py): one asyncio process whose supervisor reads the *)
(* accounts every minute, creates one task for each account that has       *)
(* become wanted and cancels the task of each that no longer is.           *)
(*                                                                         *)
(* A task that was cancelled is forgotten at once and not awaited, so that *)
(* a task of the same account may be created while it still closes.  What  *)
(* a cancellation does depends on the await it lands on: see Cancelled.    *)
(*                                                                         *)
(* _persist_reply is ReplyIntake's; here a message is only counted.        *)
(***************************************************************************)
EXTENDS Integers

CONSTANTS
    Account,
    Slot,       \* the tasks an account may have at a time, the forgotten ones included
    None,
    MaxMsgs,    \* bound: messages sent to one account
    MaxEdits,   \* bound: changes of the accounts' rows
    MaxFaults   \* bound: lost connections, failed connects and handlers, crashes

ASSUME ListenAssumption ==
    /\ Slot # {}
    /\ None \notin Slot \cup Nat
    /\ {MaxMsgs, MaxEdits, MaxFaults} \subseteq Nat

VARIABLES
    row,       \* the accounts' rows: enabled and status
    held,      \* _supervise's dict: the task it remembers of each account
    task,      \* the tasks, by account and slot
    sent,      \* how many messages Telegram has for the account
    handler,   \* the handlers that run, as <<account, slot, message>>
    stored,    \* how many rows each message has in message_records
    edits, faults,
    \* Observability: never read by the worker.
    missed,    \* messages whose handler was cut short, or that a new client is too late for
    deaf,      \* accounts one of whose tasks has swallowed its cancellation
    shaken     \* accounts that have had two live clients at a time

vars == <<row, held, task, sent, handler, stored, edits, faults, missed, deaf, shaken>>

-----------------------------------------------------------------------------
Msg == 1..MaxMsgs

Row == [enabled: BOOLEAN, status: {"active", "imported", "unauthorized", "gone"}]

(* more: the loop of _run_account goes on after the client is closed.      *)
(* tuned: Telegram pushes the account's updates to this client.            *)
(* aware: the client has an update state to catch up from; pts is where it *)
(* stands, or where it would stand.                                        *)
Task ==
    [pc: {"off", "new", "connecting", "armed", "settling", "closing", "waiting"},
     more: BOOLEAN, tuned: BOOLEAN, aware: BOOLEAN, pts: 0..MaxMsgs]

Off == [pc |-> "off", more |-> FALSE, tuned |-> FALSE, aware |-> FALSE, pts |-> 0]
New == [Off EXCEPT !.pc = "new"]

\* The select of _supervise.
Wanted(a) == row[a].enabled /\ row[a].status \in {"active", "imported"}

\* The client is connected and its handler registered.
Live(t) == t.pc \in {"armed", "settling", "closing"}

\* It has lost the pushes before the first one, and has nothing to catch up from.
Numb(t) == Live(t) /\ ~t.tuned /\ ~t.aware

\* The head of the loop: a task whose account is gone returns.
Loop(a) == IF row[a].status = "gone" THEN Off ELSE [Off EXCEPT !.pc = "connecting"]

TypeOK ==
    /\ row \in [Account -> Row]
    /\ held \in [Account -> Slot \cup {None}]
    /\ task \in [Account -> [Slot -> Task]]
    /\ sent \in [Account -> 0..MaxMsgs]
    /\ handler \subseteq Account \X Slot \X Msg
    /\ stored \in [Account \X Msg -> Nat]
    /\ edits \in 0..MaxEdits /\ faults \in 0..MaxFaults
    /\ missed \subseteq Account \X Msg
    /\ {deaf, shaken} \subseteq SUBSET Account

Init ==
    /\ row \in [Account -> {[enabled |-> TRUE, status |-> "imported"]}]
    /\ held = [a \in Account |-> None]
    /\ task = [a \in Account |-> [s \in Slot |-> Off]]
    /\ sent = [a \in Account |-> 0]
    /\ handler = {} /\ stored = [am \in Account \X Msg |-> 0]
    /\ edits = 0 /\ faults = 0
    /\ missed = {} /\ deaf = {} /\ shaken = {}

Fault == faults < MaxFaults /\ faults' = faults + 1

\* One task changes.  Only Connect makes another client live.
Becomes(a, s, t) ==
    /\ task' = [task EXCEPT ![a][s] = t]
    /\ shaken' = shaken

-----------------------------------------------------------------------------
(* The rows, changed by the API and by the validation                      *)

EditRow(a, enabled, status) ==
    /\ edits < MaxEdits /\ edits' = edits + 1
    /\ row[a].status # "gone"
    /\ row' = [row EXCEPT ![a] = [enabled |-> enabled, status |-> status]]
    /\ UNCHANGED <<held, task, sent, handler, stored, faults, missed, deaf, shaken>>

-----------------------------------------------------------------------------
(* _supervise                                                              *)

\* Bug: a cancellation during connect() or is_user_authorized() is caught as well.
CancelledLate(t) ==
    CASE t.pc \in {"new", "waiting"} -> Off
      [] t.pc = "armed"   -> [t EXCEPT !.pc = "settling", !.more = FALSE]
      [] t.pc = "closing" -> [t EXCEPT !.more = FALSE]
      [] OTHER            -> t

\* Bug: the cancellation of a listener is handled as a lost connection.
CancelledLoops(t) ==
    CASE t.pc \in {"new", "connecting", "waiting"} -> Off
      [] t.pc = "armed" -> [t EXCEPT !.pc = "settling", !.more = TRUE]
      [] OTHER          -> t

\* Where CancelledError is raised.  A client being connected is dropped as it
\* is.  On `await heartbeat_task` the error is caught together with the
\* heartbeat's own, and the loop goes on.  disconnect() goes on by itself.
Cancelled(t) ==
    CASE t.pc \in {"new", "connecting", "waiting"} -> Off
      [] t.pc = "armed"    -> [t EXCEPT !.pc = "settling", !.more = FALSE]
      [] t.pc = "settling" -> t
      [] t.pc = "closing"  -> [t EXCEPT !.more = FALSE]
      [] OTHER             -> t

Starting == {a \in Account : Wanted(a) /\ held[a] = None}
Stopping == {a \in Account : ~Wanted(a) /\ held[a] # None}
FreeSlot(a) == CHOOSE s \in Slot : task[a][s].pc = "off"

\* One turn of the loop: the read, the new tasks and the cancellations, with
\* no await among them.
Refresh ==
    /\ Starting \cup Stopping # {}
    /\ \A a \in Starting : \E s \in Slot : task[a][s].pc = "off"
    /\ held' = [a \in Account |->
                  IF a \in Starting THEN FreeSlot(a)
                  ELSE IF a \in Stopping THEN None ELSE held[a]]
    /\ task' = [a \in Account |->
                  CASE a \in Starting -> [task[a] EXCEPT ![FreeSlot(a)] = New]
                    [] a \in Stopping -> [task[a] EXCEPT ![held[a]] = Cancelled(@)]
                    [] OTHER          -> task[a]]
    /\ deaf' = deaf \cup {a \in Stopping : task[a][held[a]].pc = "settling"}
    /\ UNCHANGED <<row, sent, handler, stored, edits, faults, missed, shaken>>

-----------------------------------------------------------------------------
(* _run_account and listen_incoming                                        *)

Start(a, s) ==
    /\ task[a][s].pc \in {"new", "waiting"}
    /\ Becomes(a, s, Loop(a))
    /\ UNCHANGED <<row, held, sent, handler, stored, edits, faults, missed, deaf>>

\* The client that is connected from now on, behind all updates but the first n.
\* Whether the library learns the update state with the login or with the first
\* update it is given is left open.
Connected(a, s, n) ==
    /\ task[a][s].pc = "connecting"
    /\ \E aware \in BOOLEAN :
          task' = [task EXCEPT ![a] = [i \in Slot |->
                     IF i = s THEN [pc |-> "armed", more |-> FALSE, tuned |-> TRUE,
                                    aware |-> aware, pts |-> n]
                     ELSE [@[i] EXCEPT !.tuned = FALSE]]]
    /\ shaken' = IF \E i \in Slot : Live(task[a][i]) THEN shaken \cup {a} ELSE shaken
    /\ missed' = missed \cup ({a} \X (1..n))
    /\ UNCHANGED <<row, held, sent, handler, stored, edits, faults, deaf>>

\* Bug: the client catches up from the beginning.
ConnectReplays(a, s) == Connected(a, s, 0)

\* Connected and authorised.  The client is built without catch_up: it does not
\* load the update state of the session file and begins with the present, and
\* Telegram's pushes come to it.
Connect(a, s) == Connected(a, s, sent[a])

\* Bug: the task ends instead of waiting for another try.
ConnectFailsForGood(a, s) ==
    /\ Fault
    /\ task[a][s].pc = "connecting"
    /\ Becomes(a, s, Off)
    /\ UNCHANGED <<row, held, sent, handler, stored, edits, missed, deaf>>

\* No file, no connection, or not authorised: again in 30 seconds.
ConnectFails(a, s) ==
    /\ Fault
    /\ task[a][s].pc = "connecting"
    /\ Becomes(a, s, [Off EXCEPT !.pc = "waiting"])
    /\ UNCHANGED <<row, held, sent, handler, stored, edits, missed, deaf>>

\* run_until_disconnected returns or raises: either way asyncio.wait returns,
\* nobody looks at the result, and the loop goes on without the 30 seconds.
Disconnected(a, s) ==
    /\ Fault
    /\ task[a][s].pc = "armed"
    /\ Becomes(a, s, [task[a][s] EXCEPT !.pc = "settling", !.more = TRUE])
    /\ UNCHANGED <<row, held, sent, handler, stored, edits, missed, deaf>>

\* The heartbeat has ended; client.disconnect() begins.
Settle(a, s) ==
    /\ task[a][s].pc = "settling"
    /\ Becomes(a, s, [task[a][s] EXCEPT !.pc = "closing"])
    /\ UNCHANGED <<row, held, sent, handler, stored, edits, faults, missed, deaf>>

\* client.disconnect() cancels the handlers that run.
Running(a, s) == {h \in handler : h[1] = a /\ h[2] = s}
Messages(H) == {<<h[1], h[3]>> : h \in H}

Close(a, s) ==
    /\ task[a][s].pc = "closing"
    /\ handler' = handler \ Running(a, s)
    /\ missed' = missed \cup Messages(Running(a, s))
    /\ Becomes(a, s, IF task[a][s].more THEN Loop(a) ELSE Off)
    /\ UNCHANGED <<row, held, sent, stored, edits, faults, deaf>>

-----------------------------------------------------------------------------
(* Telegram and its client library                                         *)

Send(a) ==
    /\ sent[a] < MaxMsgs
    /\ sent' = [sent EXCEPT ![a] = @ + 1]
    /\ UNCHANGED <<row, held, task, handler, stored, edits, faults, missed, deaf, shaken>>

\* The next message is pushed to the client Telegram knows of.
Push(a, s) ==
    LET t == task[a][s]
    IN  /\ Live(t) /\ t.tuned /\ t.pts < sent[a]
        /\ task' = [task EXCEPT ![a][s] = [t EXCEPT !.pts = @ + 1, !.aware = TRUE]]
        /\ handler' = handler \cup {<<a, s, t.pts + 1>>}
        /\ UNCHANGED <<row, held, sent, stored, edits, faults, missed, deaf, shaken>>

\* Another client opens the same session (a send works on a copy of the file,
\* a connect cut short leaves its client behind): the pushes go there.
PushMoves(a) ==
    /\ \E s \in Slot : task[a][s].tuned
    /\ task' = [task EXCEPT ![a] = [s \in Slot |-> [@[s] EXCEPT !.tuned = FALSE]]]
    /\ UNCHANGED <<row, held, sent, handler, stored, edits, faults, missed, deaf, shaken>>

\* _heartbeat, every 15 seconds: catch_up fetches what was missed and takes
\* the pushes back.  Without an update state it does nothing.
Heartbeat(a, s) ==
    LET t == task[a][s]
    IN  /\ t.pc = "armed" /\ t.aware
        /\ ~t.tuned \/ t.pts < sent[a]
        /\ task' = [task EXCEPT ![a] = [i \in Slot |->
                      IF i = s THEN [t EXCEPT !.tuned = TRUE, !.pts = sent[a]]
                      ELSE [@[i] EXCEPT !.tuned = FALSE]]]
        /\ handler' = handler \cup {<<a, s, n>> : n \in (t.pts + 1)..sent[a]}
        /\ UNCHANGED <<row, held, sent, stored, edits, faults, missed, deaf, shaken>>

-----------------------------------------------------------------------------
(* handler                                                                 *)

\* _persist_reply has no await and commits a row, be the message new or not.
Handle(h) ==
    /\ handler' = handler \ {h}
    /\ stored' = [stored EXCEPT ![<<h[1], h[3]>>] = @ + 1]
    /\ UNCHANGED <<row, held, task, sent, edits, faults, missed, deaf, shaken>>

\* get_sender or _persist_reply raises: logged, and the message is not seen again.
HandlerFails(h) ==
    /\ Fault
    /\ handler' = handler \ {h}
    /\ missed' = missed \cup Messages({h})
    /\ UNCHANGED <<row, held, task, sent, stored, edits, deaf, shaken>>

-----------------------------------------------------------------------------
\* The process dies, or is killed while it shuts down, and the container is
\* started again.
Crash ==
    /\ Fault
    /\ held' = [a \in Account |-> None]
    /\ task' = [a \in Account |-> [s \in Slot |-> Off]]
    /\ handler' = {}
    /\ missed' = missed \cup Messages(handler)
    /\ UNCHANGED <<row, sent, stored, edits, deaf, shaken>>

Step(a, s) ==
    \/ Start(a, s) \/ Connect(a, s) \/ ConnectFails(a, s) \/ Disconnected(a, s)
    \/ Settle(a, s) \/ Close(a, s) \/ Push(a, s) \/ Heartbeat(a, s)

Next ==
    \/ \E a \in Account, r \in Row : EditRow(a, r.enabled, r.status)
    \/ Refresh
    \/ \E a \in Account, s \in Slot : Step(a, s)
    \/ \E a \in Account : Send(a) \/ PushMoves(a)
    \/ \E h \in handler : Handle(h) \/ HandlerFails(h)
    \/ Crash

Spec == Init /\ [][Next]_vars

(* The loop of the process runs what is ready and its timers fire; a       *)
(* connection is granted in the end, and Telegram pushes what it has.      *)
Fairness ==
    /\ WF_vars(Refresh)
    /\ \A a \in Account, s \in Slot :
         WF_vars(Start(a, s)) /\ WF_vars(Connect(a, s)) /\ WF_vars(Settle(a, s))
           /\ WF_vars(Close(a, s)) /\ WF_vars(Heartbeat(a, s)) /\ WF_vars(Push(a, s))
    /\ \A a \in Account, s \in Slot, n \in Msg :
         WF_vars(<<a, s, n>> \in handler /\ Handle(<<a, s, n>>))

FairSpec == Spec /\ Fairness

-----------------------------------------------------------------------------
(* Two tasks of one account listen at a time only if one of them has       *)
(* swallowed its cancellation: it is forgotten and still runs              *)
(* (listen_worker.py 210-213, adapter.py 784-789).                         *)
OneListener ==
    \A a \in Account, i, j \in Slot :
        task[a][i].pc = "armed" /\ task[a][j].pc = "armed" => i = j \/ a \in deaf

(* A reply is stored and counted once, however often its account is        *)
(* disconnected, stopped and restarted: a second row takes a task that     *)
(* starts while the last one still closes, or one that has swallowed its   *)
(* cancellation (listen_worker.py 26, 206-213, adapter.py 784-793).        *)
StoredOnce == \A am \in Account \X Msg : stored[am] > 1 => am[1] \in shaken

(* An account that stays disabled, refused or deleted is listened to no    *)
(* longer, however the stop falls, unless a task of its own swallowed the  *)
(* cancellation (listen_worker.py 208-213).                                *)
DroppedGoesSilent ==
    \A a \in Account :
        <>[](~Wanted(a)) => <>(a \in deaf \/ [](\A s \in Slot : ~Live(task[a][s])))

(* Every message to an account that stays wanted is stored in the end,     *)
(* unless its handler was cut short, or the client that begins next was    *)
(* too late for it: it came between two connections, or the last client    *)
(* had not fetched it when it closed; or unless the client has lost the    *)
(* pushes before it was given any.  A push that goes to another client     *)
(* later loses none, and no try to connect is the last (listen_worker.py   *)
(* 166-188, adapter.py 224-231, 758-771).                                  *)
WantedIsHeard ==
    \A a \in Account, n \in Msg :
        <>[]Wanted(a) => [](sent[a] >= n =>
            <>(\/ stored[<<a, n>>] > 0 \/ <<a, n>> \in missed
               \/ \E s \in Slot : Numb(task[a][s])))
=============================================================================
