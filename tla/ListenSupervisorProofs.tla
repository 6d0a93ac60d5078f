------------------------ MODULE ListenSupervisorProofs ------------------------
(***************************************************************************)
(* The listening worker, for any accounts, tasks, messages and faults: two *)
(* tasks of an account listen at a time only after one has swallowed its   *)
(* cancellation.  A task the supervisor has forgotten is off or on its way *)
(* there, and its loop does not go on.                                     *)
(***************************************************************************)
EXTENDS ListenSupervisor, TLAPS

\* What a cancelled task may still do: end.
Quiet(t) == t.pc \in {"off", "settling", "closing"} /\ ~t.more

ForgottenIsQuiet ==
    \A a \in Account \ deaf, s \in Slot : s # held[a] => Quiet(task[a][s])

OffIsOver == \A a \in Account, s \in Slot : task[a][s].pc = "off" => ~task[a][s].more

Inv == TypeOK /\ OffIsOver /\ ForgottenIsQuiet

\* Of an account with one client at a time: what is stored or being handled
\* is behind that client's update state, and what is stored behind Telegram's.
Tidy(a) ==
    /\ \A i, j \in Slot : Live(task[a][i]) /\ Live(task[a][j]) => i = j
    /\ \A i \in Slot, n \in Msg : <<a, i, n>> \in handler =>
         Live(task[a][i]) /\ n <= task[a][i].pts /\ stored[<<a, n>>] = 0
    /\ \A n \in Msg : stored[<<a, n>>] # 0 =>
         /\ stored[<<a, n>>] = 1
         /\ n <= sent[a]
         /\ \A i \in Slot : Live(task[a][i]) => n <= task[a][i].pts

\* No client is ahead of Telegram.
Behind == \A a \in Account, s \in Slot : task[a][s].pts <= sent[a]

StoredInv == \A a \in Account \ shaken : Tidy(a)

-----------------------------------------------------------------------------
LEMMA OffType ==
    /\ Off \in Task
    /\ New \in Task /\ New.pc = "new"
    /\ [Off EXCEPT !.pc = "connecting"] \in Task
    /\ [Off EXCEPT !.pc = "waiting"] \in Task
<1>1. 0 \in 0..MaxMsgs
  BY ListenAssumption
<1> QED
  BY <1>1 DEF Off, New, Task

LEMMA Retuned ==
    ASSUME NEW t \in Task
    PROVE  LET u == [t EXCEPT !.tuned = FALSE] IN u \in Task /\ u.pc = t.pc /\ u.more = t.more
BY DEF Task

LEMMA LoopType == ASSUME NEW a \in Account PROVE Loop(a) \in Task /\ ~Loop(a).more
BY OffType, ListenAssumption DEF Loop, Off, Task

LEMMA CancelledType ==
    ASSUME NEW t \in Task
    PROVE  /\ Cancelled(t) \in Task
           /\ (t.pc = "off" => ~t.more) /\ t.pc # "settling" => Quiet(Cancelled(t))
           /\ (t.pc = "off" => ~t.more) => (Cancelled(t).pc = "off" => ~Cancelled(t).more)
<1>1. CASE t.pc \in {"new", "connecting", "waiting"}
  BY <1>1, OffType DEF Cancelled, Quiet, Off
<1>2. CASE t.pc = "armed"
  BY <1>2 DEF Cancelled, Quiet, Task
<1>3. CASE t.pc = "closing"
  BY <1>3 DEF Cancelled, Quiet, Task
<1>4. CASE t.pc \in {"off", "settling"}
  BY <1>4 DEF Cancelled, Quiet, Task
<1> QED
  BY <1>1, <1>2, <1>3, <1>4 DEF Task

LEMMA SlotFree ==
    ASSUME NEW a \in Account, \E s \in Slot : task[a][s].pc = "off"
    PROVE  FreeSlot(a) \in Slot /\ task[a][FreeSlot(a)].pc = "off"
BY DEF FreeSlot

-----------------------------------------------------------------------------
(* The types of the variables the tasks' steps change                      *)

LEMMA BecomesType ==
    ASSUME TypeOK, NEW a \in Account, NEW s \in Slot, NEW t \in Task, Becomes(a, s, t)
    PROVE  /\ task' \in [Account -> [Slot -> Task]]
           /\ shaken' \subseteq Account
BY DEF TypeOK, Becomes

LEMMA RunningType ==
    ASSUME TypeOK, NEW a \in Account, NEW s \in Slot
    PROVE  Messages(Running(a, s)) \subseteq Account \X Msg
BY DEF TypeOK, Messages, Running

LEMMA RefreshType == TypeOK /\ Refresh => TypeOK'
<1> SUFFICES ASSUME TypeOK, Refresh PROVE TypeOK'
  OBVIOUS
<1>1. \A a \in Starting : FreeSlot(a) \in Slot
  BY SlotFree DEF Refresh, Starting
<1>2. held' \in [Account -> Slot \cup {None}]
  BY <1>1 DEF Refresh, TypeOK
<1>3. \A a \in Stopping : held[a] \in Slot
  BY DEF Stopping, TypeOK
<1>4. task' \in [Account -> [Slot -> Task]]
  <2> SUFFICES ASSUME NEW a \in Account PROVE task'[a] \in [Slot -> Task]
    BY DEF Refresh
  <2>1. task[a] \in [Slot -> Task]
    BY DEF TypeOK
  <2>2. CASE a \in Starting
    <3>1. a \notin Stopping
      BY <2>2 DEF Starting, Stopping
    <3>2. task'[a] = [task[a] EXCEPT ![FreeSlot(a)] = New]
      BY <2>2, <3>1 DEF Refresh
    <3> QED
      BY <2>1, <2>2, <1>1, <3>2, OffType
  <2>3. CASE a \in Stopping /\ a \notin Starting
    <3>1. Cancelled(task[a][held[a]]) \in Task
      BY <2>1, <2>3, <1>3, CancelledType
    <3>2. task'[a] = [task[a] EXCEPT ![held[a]] = Cancelled(@)]
      BY <2>3 DEF Refresh
    <3> QED
      BY <2>1, <3>1, <3>2
  <2>4. CASE a \notin Starting /\ a \notin Stopping
    BY <2>1, <2>4 DEF Refresh
  <2> QED
    BY <2>2, <2>3, <2>4
<1>5. deaf' \subseteq Account
  BY DEF Refresh, TypeOK, Stopping
<1> QED
  BY <1>2, <1>4, <1>5 DEF Refresh, TypeOK

LEMMA ConnectType ==
    ASSUME TypeOK, NEW a \in Account, NEW s \in Slot, Connect(a, s) PROVE TypeOK'
<1>1. PICK aware \in BOOLEAN :
        task' = [task EXCEPT ![a] = [i \in Slot |->
                  IF i = s THEN [pc |-> "armed", more |-> FALSE, tuned |-> TRUE,
                                 aware |-> aware, pts |-> sent[a]]
                  ELSE [task[a][i] EXCEPT !.tuned = FALSE]]]
  BY DEF Connect, Connected
<1> DEFINE t == [pc |-> "armed", more |-> FALSE, tuned |-> TRUE, aware |-> aware, pts |-> sent[a]]
           f == [i \in Slot |-> IF i = s THEN t ELSE [task[a][i] EXCEPT !.tuned = FALSE]]
<1>2. t \in Task
  BY DEF Task, TypeOK
<1>3. f \in [Slot -> Task]
  <2>1. \A i \in Slot : [task[a][i] EXCEPT !.tuned = FALSE] \in Task
    BY Retuned DEF TypeOK
  <2> HIDE DEF t
  <2> QED BY <1>2, <2>1
<1>5. task' \in [Account -> [Slot -> Task]]
  <2>1. task' = [task EXCEPT ![a] = f]
    BY <1>1
  <2> HIDE DEF f
  <2> QED BY <1>3, <2>1 DEF TypeOK
<1>6. missed' \subseteq Account \X Msg
  <2>1. \A n \in 1..sent[a] : n \in Msg
    BY ListenAssumption DEF TypeOK, Msg
  <2>2. {a} \X (1..sent[a]) \subseteq Account \X Msg
    BY <2>1
  <2> QED BY <2>2 DEF Connect, Connected, TypeOK
<1>7. shaken' \subseteq Account
  BY DEF Connect, Connected, TypeOK
<1> QED
  BY <1>5, <1>6, <1>7 DEF Connect, Connected, TypeOK

LEMMA PushType ==
    ASSUME TypeOK, NEW a \in Account, NEW s \in Slot, Push(a, s) PROVE TypeOK'
<1> DEFINE t == task[a][s]
<1>1. t \in Task /\ t.pts \in 0..MaxMsgs /\ sent[a] \in 0..MaxMsgs /\ t.pts < sent[a]
  BY DEF TypeOK, Push, Task
<1>2. t.pts + 1 \in Msg /\ t.pts + 1 \in 0..MaxMsgs
  BY <1>1, ListenAssumption DEF Msg
<1>3. [t EXCEPT !.pts = t.pts + 1, !.aware = TRUE] \in Task
  BY <1>1, <1>2 DEF Task
<1>4. task' \in [Account -> [Slot -> Task]]
  BY <1>3 DEF Push, TypeOK
<1>5. handler' \subseteq Account \X Slot \X Msg
  BY <1>2 DEF Push, TypeOK
<1> QED
  BY <1>4, <1>5 DEF Push, TypeOK

LEMMA HeartbeatType ==
    ASSUME TypeOK, NEW a \in Account, NEW s \in Slot, Heartbeat(a, s) PROVE TypeOK'
<1> DEFINE t == task[a][s]
           u == [t EXCEPT !.tuned = TRUE, !.pts = sent[a]]
           f == [i \in Slot |-> IF i = s THEN u ELSE [task[a][i] EXCEPT !.tuned = FALSE]]
<1>1. t \in Task /\ t.pts \in 0..MaxMsgs /\ sent[a] \in 0..MaxMsgs
  BY DEF TypeOK, Task
<1>2. u \in Task
  BY <1>1 DEF Task
<1>3. f \in [Slot -> Task]
  <2>1. \A i \in Slot : [task[a][i] EXCEPT !.tuned = FALSE] \in Task
    BY Retuned DEF TypeOK
  <2> HIDE DEF u
  <2> QED BY <1>2, <2>1
<1>4. task' = [task EXCEPT ![a] = f]
  BY DEF Heartbeat
<1>5. task' \in [Account -> [Slot -> Task]]
  <2> HIDE DEF f
  <2> QED BY <1>3, <1>4 DEF TypeOK
<1>6. \A n \in (t.pts + 1)..sent[a] : n \in Msg
  BY <1>1, ListenAssumption DEF Msg
<1>7. handler' \subseteq Account \X Slot \X Msg
  BY <1>6 DEF Heartbeat, TypeOK
<1> QED
  BY <1>5, <1>7 DEF Heartbeat, TypeOK

LEMMA StepType ==
    ASSUME TypeOK, NEW a \in Account, NEW s \in Slot, Step(a, s) PROVE TypeOK'
<1> DEFINE t == task[a][s]
<1>0. t \in Task /\ t.pts \in 0..MaxMsgs
  BY DEF TypeOK, Task
<1>1. CASE Start(a, s)
  BY <1>1, LoopType, BecomesType DEF Start, TypeOK
<1>2. CASE Connect(a, s)
  BY <1>2, ConnectType
<1>3. CASE ConnectFails(a, s)
  <2>1. faults' \in 0..MaxFaults
    BY <1>3, ListenAssumption DEF ConnectFails, Fault, TypeOK
  <2> QED BY <1>3, <2>1, OffType, BecomesType DEF ConnectFails, TypeOK
<1>4. CASE Disconnected(a, s)
  <2>1. faults' \in 0..MaxFaults
    BY <1>4, ListenAssumption DEF Disconnected, Fault, TypeOK
  <2>2. [t EXCEPT !.pc = "settling", !.more = TRUE] \in Task
    BY <1>0 DEF Task
  <2> QED BY <1>4, <2>1, <2>2, BecomesType DEF Disconnected, TypeOK
<1>5. CASE Settle(a, s)
  <2>1. [t EXCEPT !.pc = "closing"] \in Task
    BY <1>0 DEF Task
  <2> QED BY <1>5, <2>1, BecomesType DEF Settle, TypeOK
<1>6. CASE Close(a, s)
  <2>1. (IF t.more THEN Loop(a) ELSE Off) \in Task
    BY LoopType, OffType
  <2>2. task' \in [Account -> [Slot -> Task]] /\ shaken' \subseteq Account
    BY <1>6, <2>1, BecomesType DEF Close
  <2> QED BY <1>6, <2>2, RunningType DEF Close, TypeOK
<1>7. CASE Push(a, s)
  BY <1>7, PushType
<1>8. CASE Heartbeat(a, s)
  BY <1>8, HeartbeatType
<1> QED
  BY <1>1, <1>2, <1>3, <1>4, <1>5, <1>6, <1>7, <1>8 DEF Step

LEMMA TypeStep == TypeOK /\ [Next]_vars => TypeOK'
<1> SUFFICES ASSUME TypeOK, [Next]_vars PROVE TypeOK'
  OBVIOUS
<1>1. ASSUME NEW a \in Account, NEW r \in Row, EditRow(a, r.enabled, r.status) PROVE TypeOK'
  <2>1. [enabled |-> r.enabled, status |-> r.status] \in Row
    BY DEF Row
  <2>2. edits' \in 0..MaxEdits
    BY <1>1, ListenAssumption DEF EditRow, TypeOK
  <2> QED BY <1>1, <2>1, <2>2 DEF EditRow, TypeOK
<1>2. CASE Refresh
  BY <1>2, RefreshType
<1>3. ASSUME NEW a \in Account, NEW s \in Slot, Step(a, s) PROVE TypeOK'
  BY <1>3, StepType
<1>4. ASSUME NEW a \in Account, Send(a) PROVE TypeOK'
  <2>1. sent' \in [Account -> 0..MaxMsgs]
    BY <1>4, ListenAssumption DEF Send, TypeOK
  <2> QED BY <1>4, <2>1 DEF Send, TypeOK
<1>5. ASSUME NEW a \in Account, PushMoves(a) PROVE TypeOK'
  <2>1. \A i \in Slot : [task[a][i] EXCEPT !.tuned = FALSE] \in Task
    BY Retuned DEF TypeOK
  <2> QED BY <1>5, <2>1 DEF PushMoves, TypeOK
<1>6. ASSUME NEW h \in handler, Handle(h) PROVE TypeOK'
  <2>1. h \in Account \X Slot \X Msg
    BY DEF TypeOK
  <2>2. stored' \in [Account \X Msg -> Nat]
    BY <1>6, <2>1 DEF Handle, TypeOK
  <2> QED BY <1>6, <2>2 DEF Handle, TypeOK
<1>7. ASSUME NEW h \in handler, HandlerFails(h) PROVE TypeOK'
  <2>1. h \in Account \X Slot \X Msg
    BY DEF TypeOK
  <2>2. faults' \in 0..MaxFaults
    BY <1>7, ListenAssumption DEF HandlerFails, Fault, TypeOK
  <2>3. Messages({h}) \subseteq Account \X Msg
    BY <2>1 DEF Messages
  <2> QED BY <1>7, <2>2, <2>3 DEF HandlerFails, TypeOK
<1>8. CASE Crash
  <2>1. faults' \in 0..MaxFaults
    BY <1>8, ListenAssumption DEF Crash, Fault, TypeOK
  <2>2. Messages(handler) \subseteq Account \X Msg
    BY DEF Messages, TypeOK
  <2> QED BY <1>8, <2>1, <2>2, OffType DEF Crash, TypeOK
<1>9. CASE UNCHANGED vars
  BY <1>9 DEF vars, TypeOK
<1> QED
  BY <1>1, <1>2, <1>3, <1>4, <1>5, <1>6, <1>7, <1>8, <1>9 DEF Next

-----------------------------------------------------------------------------
(* A task the supervisor has forgotten only ends                           *)

\* One task changes and remains quiet, or is the one that is held.
LEMMA OneTask ==
    ASSUME Inv, NEW a \in Account, NEW s \in Slot, NEW t \in Task,
           task' = [task EXCEPT ![a][s] = t], UNCHANGED <<held, deaf>>,
           t.pc = "off" => ~t.more,
           a \in deaf \/ s = held[a] \/ Quiet(t)
    PROVE  OffIsOver' /\ ForgottenIsQuiet'
BY DEF Inv, TypeOK, OffIsOver, ForgottenIsQuiet

\* Only tuned and pts of the tasks change.
LEMMA SameControl ==
    ASSUME Inv, UNCHANGED <<held, deaf>>,
           \A a \in Account, s \in Slot :
               task'[a][s].pc = task[a][s].pc /\ task'[a][s].more = task[a][s].more
    PROVE  OffIsOver' /\ ForgottenIsQuiet'
BY DEF Inv, OffIsOver, ForgottenIsQuiet, Quiet

LEMMA RefreshQuiet == Inv /\ Refresh => OffIsOver' /\ ForgottenIsQuiet'
<1> SUFFICES ASSUME Inv, Refresh, NEW a \in Account, NEW s \in Slot
             PROVE  /\ task'[a][s].pc = "off" => ~task'[a][s].more
                    /\ a \notin deaf' /\ s # held'[a] => Quiet(task'[a][s])
  BY DEF OffIsOver, ForgottenIsQuiet
<1>0. /\ task[a] \in [Slot -> Task] /\ (task[a][s].pc = "off" => ~task[a][s].more)
      /\ a \notin deaf /\ s # held[a] => Quiet(task[a][s])
  BY DEF Inv, TypeOK, OffIsOver, ForgottenIsQuiet
<1>1. CASE a \in Starting
  <2>1. held[a] = None /\ held'[a] = FreeSlot(a) /\ deaf \subseteq deaf' /\ s # None
    BY <1>1, ListenAssumption DEF Starting, Refresh
  <2>2. task'[a] = [task[a] EXCEPT ![FreeSlot(a)] = New]
    <3>1. a \notin Stopping
      BY <1>1 DEF Starting, Stopping
    <3> QED
      BY <1>1, <3>1 DEF Refresh
  <2> QED
    BY <1>0, <2>1, <2>2, OffType
<1>2. CASE a \in Stopping /\ a \notin Starting
  <2>1. held[a] \in Slot /\ held'[a] = None
    BY <1>2 DEF Inv, TypeOK, Stopping, Refresh
  <2>2. task'[a] = [task[a] EXCEPT ![held[a]] = Cancelled(task[a][held[a]])]
    BY <1>2 DEF Refresh
  <2>3. a \notin deaf' => a \notin deaf /\ task[a][held[a]].pc # "settling"
    BY <1>2 DEF Refresh
  <2>4. CASE s = held[a]
    BY <1>0, <2>1, <2>2, <2>3, <2>4, CancelledType
  <2>5. CASE s # held[a]
    BY <1>0, <2>1, <2>2, <2>3, <2>5
  <2> QED
    BY <2>4, <2>5
<1>3. CASE a \notin Starting /\ a \notin Stopping
  <2>1. held'[a] = held[a] /\ task'[a] = task[a] /\ deaf \subseteq deaf'
    BY <1>3 DEF Refresh, Inv, TypeOK
  <2> QED
    BY <1>0, <2>1
<1> QED
  BY <1>1, <1>2, <1>3

LEMMA StepQuiet ==
    ASSUME Inv, NEW a \in Account, NEW s \in Slot, Step(a, s)
    PROVE  OffIsOver' /\ ForgottenIsQuiet'
<1> DEFINE t == task[a][s]
<1>0. /\ t \in Task /\ task \in [Account -> [Slot -> Task]]
      /\ a \in deaf \/ s = held[a] \/ Quiet(t)
  BY DEF Inv, TypeOK, ForgottenIsQuiet
<1>1. CASE Start(a, s)
  <2>1. a \in deaf \/ s = held[a]
    BY <1>0, <1>1 DEF Start, Quiet
  <2> QED BY <1>1, <2>1, LoopType, OneTask DEF Start, Becomes
<1>2. CASE Connect(a, s)
  <2>1. a \in deaf \/ s = held[a]
    BY <1>0, <1>2 DEF Connect, Connected, Quiet
  <2>2. task'[a][s].pc = "armed"
    BY <1>0, <1>2 DEF Connect, Connected
  <2>3. \A b \in Account, i \in Slot : ~(b = a /\ i = s) =>
          task'[b][i].pc = task[b][i].pc /\ task'[b][i].more = task[b][i].more
    <3>1. PICK aware \in BOOLEAN :
            task' = [task EXCEPT ![a] = [i \in Slot |->
                      IF i = s THEN [pc |-> "armed", more |-> FALSE, tuned |-> TRUE,
                                     aware |-> aware, pts |-> sent[a]]
                      ELSE [task[a][i] EXCEPT !.tuned = FALSE]]]
      BY <1>2 DEF Connect, Connected
    <3> QED BY <1>0, <3>1, Retuned
  <2>4. UNCHANGED <<held, deaf>>
    BY <1>2 DEF Connect, Connected
  <2> QED BY <2>1, <2>2, <2>3, <2>4 DEF Inv, OffIsOver, ForgottenIsQuiet, Quiet
<1>3. CASE ConnectFails(a, s)
  <2>1. a \in deaf \/ s = held[a]
    BY <1>0, <1>3 DEF ConnectFails, Quiet
  <2>2. [Off EXCEPT !.pc = "waiting"].pc = "waiting"
    BY DEF Off
  <2> QED BY <1>3, <2>1, <2>2, OffType, OneTask DEF ConnectFails, Becomes
<1>4. CASE Disconnected(a, s)
  <2> DEFINE u == [t EXCEPT !.pc = "settling", !.more = TRUE]
  <2>1. a \in deaf \/ s = held[a]
    BY <1>0, <1>4 DEF Disconnected, Quiet
  <2>2. u \in Task /\ u.pc = "settling"
    BY <1>0 DEF Task
  <2>3. task' = [task EXCEPT ![a][s] = u] /\ UNCHANGED <<held, deaf>>
    BY <1>4 DEF Disconnected, Becomes
  <2> HIDE DEF u
  <2> QED BY <2>1, <2>2, <2>3, OneTask
<1>5. CASE Settle(a, s)
  <2> DEFINE u == [t EXCEPT !.pc = "closing"]
  <2>1. u \in Task /\ u.pc = "closing" /\ u.more = t.more
    BY <1>0 DEF Task
  <2>2. task' = [task EXCEPT ![a][s] = u] /\ UNCHANGED <<held, deaf>>
    BY <1>5 DEF Settle, Becomes
  <2>3. a \in deaf \/ s = held[a] \/ Quiet(u)
    BY <1>0, <2>1 DEF Quiet
  <2> HIDE DEF u
  <2> QED BY <2>1, <2>2, <2>3, OneTask
<1>6. CASE Close(a, s)
  <2> DEFINE u == IF t.more THEN Loop(a) ELSE Off
  <2>1. u \in Task /\ ~u.more
    BY LoopType, OffType DEF Off
  <2>2. task' = [task EXCEPT ![a][s] = u] /\ UNCHANGED <<held, deaf>>
    BY <1>6 DEF Close, Becomes
  <2>3. a \in deaf \/ s = held[a] \/ Quiet(u)
    BY <1>0 DEF Quiet, Off
  <2> HIDE DEF u
  <2> QED BY <2>1, <2>2, <2>3, OneTask
<1>7. CASE Push(a, s)
  <2> DEFINE u == [t EXCEPT !.pts = @ + 1, !.aware = TRUE]
  <2>1. u.pc = t.pc /\ u.more = t.more
    BY <1>0 DEF Task
  <2>2. task' = [task EXCEPT ![a][s] = u] /\ UNCHANGED <<held, deaf>>
    BY <1>7 DEF Push
  <2> HIDE DEF u
  <2> QED BY <1>0, <2>1, <2>2, SameControl
<1>8. CASE Heartbeat(a, s)
  <2> DEFINE u == [t EXCEPT !.tuned = TRUE, !.pts = sent[a]]
  <2>1. u.pc = t.pc /\ u.more = t.more
    BY <1>0 DEF Task
  <2>2. task' = [task EXCEPT ![a] = [i \in Slot |->
                   IF i = s THEN u ELSE [task[a][i] EXCEPT !.tuned = FALSE]]]
    BY <1>8 DEF Heartbeat
  <2>3. UNCHANGED <<held, deaf>>
    BY <1>8 DEF Heartbeat
  <2> HIDE DEF u
  <2> QED BY <1>0, <2>1, <2>2, <2>3, Retuned, SameControl
<1> QED
  BY <1>1, <1>2, <1>3, <1>4, <1>5, <1>6, <1>7, <1>8 DEF Step

LEMMA InvStep == Inv /\ [Next]_vars => Inv'
<1> SUFFICES ASSUME Inv, [Next]_vars PROVE OffIsOver' /\ ForgottenIsQuiet'
  BY TypeStep DEF Inv
<1>1. ASSUME NEW a \in Account, NEW r \in Row, EditRow(a, r.enabled, r.status)
      PROVE  OffIsOver' /\ ForgottenIsQuiet'
  BY <1>1, SameControl DEF EditRow
<1>2. CASE Refresh
  BY <1>2, RefreshQuiet
<1>3. ASSUME NEW a \in Account, NEW s \in Slot, Step(a, s)
      PROVE  OffIsOver' /\ ForgottenIsQuiet'
  BY <1>3, StepQuiet
<1>4. ASSUME NEW a \in Account, Send(a) PROVE OffIsOver' /\ ForgottenIsQuiet'
  BY <1>4, SameControl DEF Send
<1>5. ASSUME NEW a \in Account, PushMoves(a) PROVE OffIsOver' /\ ForgottenIsQuiet'
  BY <1>5, Retuned, SameControl DEF PushMoves, Inv, TypeOK
<1>6. ASSUME NEW h \in handler, Handle(h) \/ HandlerFails(h)
      PROVE  OffIsOver' /\ ForgottenIsQuiet'
  BY <1>6, SameControl DEF Handle, HandlerFails
<1>7. CASE Crash
  BY <1>7 DEF Crash, OffIsOver, ForgottenIsQuiet, Quiet, Off
<1>8. CASE UNCHANGED vars
  BY <1>8, SameControl DEF vars
<1> QED
  BY <1>1, <1>2, <1>3, <1>4, <1>5, <1>6, <1>7, <1>8 DEF Next

LEMMA InitInv == Init => Inv
<1> SUFFICES ASSUME Init PROVE Inv
  OBVIOUS
<1>1. [enabled |-> TRUE, status |-> "imported"] \in Row
  BY DEF Row
<1>2. 0 \in 0..MaxMsgs /\ 0 \in 0..MaxEdits /\ 0 \in 0..MaxFaults
  BY ListenAssumption
<1>3. TypeOK
  BY <1>1, <1>2, OffType DEF Init, TypeOK
<1>4. OffIsOver /\ ForgottenIsQuiet
  BY DEF Init, OffIsOver, ForgottenIsQuiet, Quiet, Off
<1> QED BY <1>3, <1>4 DEF Inv

LEMMA InvHolds == Spec => []Inv
BY InitInv, InvStep, PTL DEF Spec

-----------------------------------------------------------------------------
(* What is stored is behind the update state                              *)

\* No client comes, goes or takes an update.
LEMMA SameClients ==
    ASSUME TypeOK, StoredInv, UNCHANGED <<handler, stored, shaken>>,
           \A a \in Account : sent[a] <= sent'[a] /\ sent'[a] \in Int,
           \A a \in Account, s \in Slot :
               /\ Live(task'[a][s]) <=> Live(task[a][s])
               /\ Live(task[a][s]) => task'[a][s].pts = task[a][s].pts
    PROVE  StoredInv'
<1> SUFFICES ASSUME NEW a \in Account \ shaken PROVE Tidy(a)'
  BY DEF StoredInv
<1>1. Tidy(a)
  BY DEF StoredInv
<1>2. /\ sent[a] \in Int /\ Msg \subseteq Int
      /\ sent[a] <= sent'[a] /\ sent'[a] \in Int
  BY DEF Msg, TypeOK
<1>3. \A n \in Msg : n <= sent[a] => n <= sent'[a]
  BY <1>2
<1> QED
  BY <1>1, <1>3 DEF Tidy

\* One task changes, and its client does not.
LEMMA SameClient ==
    ASSUME TypeOK, StoredInv, NEW a \in Account, NEW s \in Slot, NEW t, Becomes(a, s, t),
           UNCHANGED <<handler, stored, sent>>,
           Live(t) <=> Live(task[a][s]), Live(t) => t.pts = task[a][s].pts
    PROVE  StoredInv'
<1>1. \A b \in Account, i \in Slot : task'[b][i] = IF b = a /\ i = s THEN t ELSE task[b][i]
  BY DEF TypeOK, Becomes
<1>2. \A b \in Account : sent[b] <= sent'[b] /\ sent'[b] \in Int
  BY DEF TypeOK
<1> QED
  BY <1>1, <1>2, SameClients DEF Becomes

LEMMA CancelledClient ==
    ASSUME NEW t \in Task
    PROVE  /\ Live(Cancelled(t)) <=> Live(t)
           /\ Live(t) => Cancelled(t).pts = t.pts
<1>1. CASE t.pc \in {"new", "connecting", "waiting"}
  BY <1>1 DEF Cancelled, Live, Off
<1>2. CASE t.pc = "armed"
  BY <1>2 DEF Cancelled, Live, Task
<1>3. CASE t.pc = "closing"
  BY <1>3 DEF Cancelled, Live, Task
<1>4. CASE t.pc \in {"off", "settling"}
  BY <1>4 DEF Cancelled, Live, Task
<1> QED
  BY <1>1, <1>2, <1>3, <1>4 DEF Task

LEMMA RefreshStored == TypeOK /\ StoredInv /\ Refresh => StoredInv'
<1> SUFFICES ASSUME TypeOK, StoredInv, Refresh, NEW a \in Account, NEW s \in Slot
             PROVE  /\ Live(task'[a][s]) <=> Live(task[a][s])
                    /\ Live(task[a][s]) => task'[a][s].pts = task[a][s].pts
  BY SameClients DEF Refresh, TypeOK
<1>0. task[a] \in [Slot -> Task]
  BY DEF TypeOK
<1>1. CASE a \in Starting
  <2>1. a \notin Stopping
    BY <1>1 DEF Starting, Stopping
  <2>2. task'[a] = [task[a] EXCEPT ![FreeSlot(a)] = New]
    BY <1>1, <2>1 DEF Refresh
  <2>3. task[a][FreeSlot(a)].pc = "off" /\ FreeSlot(a) \in Slot
    BY <1>1, SlotFree DEF Refresh
  <2> QED
    BY <1>0, <2>2, <2>3, OffType DEF Live
<1>2. CASE a \in Stopping /\ a \notin Starting
  <2>1. held[a] \in Slot
    BY <1>2 DEF TypeOK, Stopping
  <2>2. task'[a] = [task[a] EXCEPT ![held[a]] = Cancelled(task[a][held[a]])]
    BY <1>2 DEF Refresh
  <2> QED
    BY <1>0, <2>1, <2>2, CancelledClient
<1>3. CASE a \notin Starting /\ a \notin Stopping
  BY <1>3 DEF Refresh
<1> QED
  BY <1>1, <1>2, <1>3

LEMMA ConnectStored ==
    ASSUME TypeOK, StoredInv, NEW a \in Account, NEW s \in Slot, Connect(a, s)
    PROVE  StoredInv'
<1>1. PICK aware \in BOOLEAN :
        task' = [task EXCEPT ![a] = [i \in Slot |->
                  IF i = s THEN [pc |-> "armed", more |-> FALSE, tuned |-> TRUE,
                                 aware |-> aware, pts |-> sent[a]]
                  ELSE [task[a][i] EXCEPT !.tuned = FALSE]]]
  BY DEF Connect, Connected
<1> DEFINE t == [pc |-> "armed", more |-> FALSE, tuned |-> TRUE, aware |-> aware, pts |-> sent[a]]
<1>2. t.pc = "armed" /\ t.pts = sent[a] /\ Live(t) /\ ~Live(task[a][s])
  BY DEF Connect, Connected, Live
<1>3. /\ UNCHANGED <<sent, handler, stored>> /\ shaken \subseteq shaken'
      /\ (\E i \in Slot : Live(task[a][i])) => a \in shaken'
  BY DEF Connect, Connected
<1>0. task' = [task EXCEPT ![a] = [i \in Slot |->
                IF i = s THEN t ELSE [task[a][i] EXCEPT !.tuned = FALSE]]]
  BY <1>1
<1> HIDE DEF t
<1> SUFFICES ASSUME NEW b \in Account \ shaken' PROVE Tidy(b)'
  BY DEF StoredInv
<1>4. Tidy(b)
  BY <1>3 DEF StoredInv
<1>5. CASE b # a
  <2>1. task'[b] = task[b]
    BY <1>0, <1>5 DEF TypeOK
  <2> QED BY <1>3, <1>4, <2>1 DEF Tidy
<1>6. CASE b = a
  <2>1. \A i \in Slot : ~Live(task[a][i])
    BY <1>3, <1>6
  <2>2. task'[a][s] = t /\ \A i \in Slot : i # s => ~Live(task'[a][i])
    BY <1>0, <2>1, Retuned DEF TypeOK, Live
  <2>3. \A n \in Msg : stored[<<a, n>>] # 0 => n <= sent[a]
    BY <1>4, <1>6 DEF Tidy
  <2>4. \A i \in Slot, n \in Msg : <<a, i, n>> \notin handler
    BY <1>4, <1>6, <2>1 DEF Tidy
  <2> QED
    BY <1>2, <1>3, <1>4, <1>6, <2>2, <2>3, <2>4 DEF Tidy
<1> QED
  BY <1>5, <1>6

LEMMA CloseStored ==
    ASSUME TypeOK, StoredInv, NEW a \in Account, NEW s \in Slot, Close(a, s)
    PROVE  StoredInv'
<1> DEFINE t == IF task[a][s].more THEN Loop(a) ELSE Off
<1>1. task' = [task EXCEPT ![a][s] = t] /\ UNCHANGED <<sent, stored, shaken>>
  BY DEF Close, Becomes
<1>2. ~Live(t) /\ Live(task[a][s])
  BY DEF Close, Live, Loop, Off
<1>3. handler' = handler \ Running(a, s)
  BY DEF Close
<1> HIDE DEF t
<1> SUFFICES ASSUME NEW b \in Account \ shaken PROVE Tidy(b)'
  BY <1>1 DEF StoredInv
<1>4. Tidy(b)
  BY DEF StoredInv
<1>5. CASE b # a
  <2>1. task'[b] = task[b]
    BY <1>1, <1>5 DEF TypeOK
  <2>2. \A i \in Slot, n \in Msg : <<b, i, n>> \in handler' => <<b, i, n>> \in handler
    BY <1>3
  <2> QED BY <1>1, <1>4, <2>1, <2>2 DEF Tidy
<1>6. CASE b = a
  <2>1. \A i \in Slot : ~Live(task'[a][i])
    BY <1>1, <1>2, <1>4, <1>6 DEF TypeOK, Tidy
  <2>4. \A i \in Slot, n \in Msg : <<a, i, n>> \notin handler'
    BY <1>2, <1>3, <1>4, <1>6 DEF Tidy, Running
  <2> QED
    BY <1>1, <1>4, <1>6, <2>1, <2>4 DEF Tidy
<1> QED
  BY <1>5, <1>6

\* The client takes the updates up to k and their handlers begin.
LEMMA TakesUpdates ==
    ASSUME TypeOK, StoredInv, NEW a \in Account, NEW s \in Slot, Live(task[a][s]), NEW k \in Int,
           task[a][s].pts <= k, k <= sent[a], UNCHANGED <<sent, stored, shaken>>,
           handler' = handler \cup {<<a, s, n>> : n \in (task[a][s].pts + 1)..k},
           \A b \in Account, i \in Slot :
               /\ Live(task'[b][i]) <=> Live(task[b][i])
               /\ task'[b][i].pts = IF b = a /\ i = s THEN k ELSE task[b][i].pts
    PROVE  StoredInv'
<1> SUFFICES ASSUME NEW b \in Account \ shaken PROVE Tidy(b)'
  BY DEF StoredInv
<1>1. Tidy(b)
  BY DEF StoredInv
<1>0. /\ task[a][s].pts \in Int /\ Msg \subseteq Int
      /\ \A i \in Slot : task[b][i].pts \in Int
  BY DEF TypeOK, Task, Msg
<1>2. CASE b # a
  <2>1. \A i \in Slot, n \in Msg : <<b, i, n>> \in handler' => <<b, i, n>> \in handler
    BY <1>2
  <2> QED BY <1>1, <1>2, <2>1 DEF Tidy
<1>3. CASE b = a
  <2>1. \A i \in Slot : Live(task[a][i]) => i = s
    BY <1>1, <1>3 DEF Tidy
  <2>2. \A i \in Slot, n \in Msg : <<a, i, n>> \in handler' =>
          i = s /\ n <= k /\ (stored[<<a, n>>] = 0 \/ n > task[a][s].pts)
    <3> SUFFICES ASSUME NEW i \in Slot, NEW n \in Msg, <<a, i, n>> \in handler'
                 PROVE  i = s /\ n <= k /\ (stored[<<a, n>>] = 0 \/ n > task[a][s].pts)
      OBVIOUS
    <3>1. CASE <<a, i, n>> \in handler
      <4>1. Live(task[a][i]) /\ n <= task[a][i].pts /\ stored[<<a, n>>] = 0
        BY <1>1, <1>3, <3>1 DEF Tidy
      <4> QED BY <1>0, <2>1, <4>1
    <3>2. CASE i = s /\ n \in (task[a][s].pts + 1)..k
      BY <1>0, <3>2
    <3> QED BY <3>1, <3>2
  <2>3. \A n \in Msg : stored[<<a, n>>] # 0 => stored[<<a, n>>] = 1 /\ n <= task[a][s].pts
    BY <1>1, <1>3 DEF Tidy
  <2>4. \A n \in Msg : n > task[a][s].pts => stored[<<a, n>>] = 0
    BY <1>0, <2>3
  <2>6. task'[a][s].pts = k /\ Live(task'[a][s])
    OBVIOUS
  <2>7. \A i, j \in Slot : Live(task'[a][i]) /\ Live(task'[a][j]) => i = j
    BY <2>1
  <2>9. \A i \in Slot, n \in Msg : <<a, i, n>> \in handler' =>
          Live(task'[a][i]) /\ n <= task'[a][i].pts /\ stored'[<<a, n>>] = 0
    BY <2>2, <2>4, <2>6
  <2>10. \A n \in Msg : stored'[<<a, n>>] # 0 =>
           /\ stored'[<<a, n>>] = 1
           /\ n <= sent'[a]
           /\ \A i \in Slot : Live(task'[a][i]) => n <= task'[a][i].pts
    <3>1. \A n \in Msg : stored[<<a, n>>] # 0 => n <= sent[a]
      BY <1>1, <1>3 DEF Tidy
    <3> QED BY <1>0, <2>1, <2>3, <2>6, <3>1
  <2> QED
    BY <1>3, <2>7, <2>9, <2>10 DEF Tidy
<1> QED
  BY <1>2, <1>3

LEMMA PushStored ==
    ASSUME TypeOK, StoredInv, NEW a \in Account, NEW s \in Slot, Push(a, s)
    PROVE  StoredInv'
<1> DEFINE t == task[a][s]
           u == [t EXCEPT !.pts = @ + 1, !.aware = TRUE]
<1>1. t \in Task /\ t.pts \in Int /\ sent[a] \in Int
  BY DEF TypeOK, Task
<1>2. u.pc = t.pc /\ u.pts = t.pts + 1
  BY <1>1 DEF Task
<1>3. task' = [task EXCEPT ![a][s] = u]
  BY DEF Push
<1>4. \A b \in Account, i \in Slot :
        /\ Live(task'[b][i]) <=> Live(task[b][i])
        /\ task'[b][i].pts = IF b = a /\ i = s THEN t.pts + 1 ELSE task[b][i].pts
  <2> HIDE DEF u
  <2> QED BY <1>2, <1>3 DEF TypeOK, Live
<1>5. (t.pts + 1)..(t.pts + 1) = {t.pts + 1}
  BY <1>1
<1>6. handler' = handler \cup {<<a, s, n>> : n \in (t.pts + 1)..(t.pts + 1)}
  BY <1>5 DEF Push
<1>7. /\ Live(t) /\ UNCHANGED <<sent, stored, shaken>>
      /\ t.pts <= t.pts + 1 /\ t.pts + 1 <= sent[a] /\ t.pts + 1 \in Int
  BY <1>1 DEF Push
<1> QED
  BY <1>4, <1>6, <1>7, TakesUpdates

LEMMA HeartbeatStored ==
    ASSUME TypeOK, Behind, StoredInv, NEW a \in Account, NEW s \in Slot, Heartbeat(a, s)
    PROVE  StoredInv'
<1> DEFINE t == task[a][s]
           u == [t EXCEPT !.tuned = TRUE, !.pts = sent[a]]
<1>1. t \in Task /\ t.pts \in Int /\ sent[a] \in Int /\ t.pts <= sent[a]
  BY DEF TypeOK, Task, Behind
<1>2. u.pc = t.pc /\ u.pts = sent[a]
  BY <1>1 DEF Task
<1>3. task' = [task EXCEPT ![a] = [i \in Slot |->
                 IF i = s THEN u ELSE [task[a][i] EXCEPT !.tuned = FALSE]]]
  BY DEF Heartbeat
<1>4. /\ Live(t) /\ UNCHANGED <<sent, stored, shaken>>
      /\ handler' = handler \cup {<<a, s, n>> : n \in (t.pts + 1)..sent[a]}
  BY DEF Heartbeat, Live
<1>5. \A i \in Slot : LET v == [task[a][i] EXCEPT !.tuned = FALSE]
                      IN  v.pc = task[a][i].pc /\ v.pts = task[a][i].pts
  BY DEF TypeOK, Task
<1> HIDE DEF u
<1>6. \A b \in Account, i \in Slot :
        /\ Live(task'[b][i]) <=> Live(task[b][i])
        /\ task'[b][i].pts = IF b = a /\ i = s THEN sent[a] ELSE task[b][i].pts
  <2> SUFFICES ASSUME NEW b \in Account, NEW i \in Slot
               PROVE  /\ Live(task'[b][i]) <=> Live(task[b][i])
                      /\ task'[b][i].pts = IF b = a /\ i = s THEN sent[a] ELSE task[b][i].pts
    OBVIOUS
  <2>1. CASE b = a /\ i = s
    BY <1>2, <1>3, <2>1 DEF TypeOK, Live
  <2>2. CASE b = a /\ i # s
    BY <1>3, <1>5, <2>2 DEF TypeOK, Live
  <2>3. CASE b # a
    BY <1>3, <2>3 DEF TypeOK
  <2> QED BY <2>1, <2>2, <2>3
<1> QED
  BY <1>1, <1>4, <1>6, TakesUpdates

LEMMA HandleStored ==
    ASSUME TypeOK, Behind, StoredInv, NEW h \in handler, Handle(h) PROVE StoredInv'
<1>1. PICK a \in Account, s \in Slot, n \in Msg : h = <<a, s, n>>
  BY DEF TypeOK
<1>2. /\ UNCHANGED <<task, sent, shaken>> /\ handler' = handler \ {h}
      /\ stored' = [stored EXCEPT ![<<a, n>>] = @ + 1]
  BY <1>1 DEF Handle
<1> SUFFICES ASSUME NEW b \in Account \ shaken PROVE Tidy(b)'
  BY <1>2 DEF StoredInv
<1>3. Tidy(b)
  BY DEF StoredInv
<1>4. CASE b # a
  <2>1. \A k \in Msg : stored'[<<b, k>>] = stored[<<b, k>>]
    BY <1>2, <1>4 DEF TypeOK
  <2> QED BY <1>2, <1>3, <2>1 DEF Tidy
<1>5. CASE b = a
  <2>1. Live(task[a][s]) /\ n <= task[a][s].pts /\ stored[<<a, n>>] = 0
    BY <1>1, <1>3, <1>5 DEF Tidy
  <2>2. \A k \in Msg : stored'[<<a, k>>] = IF k = n THEN 1 ELSE stored[<<a, k>>]
    BY <1>2, <2>1 DEF TypeOK
  <2>3. \A i \in Slot : Live(task[a][i]) => i = s
    BY <1>3, <1>5, <2>1 DEF Tidy
  <2>4. \A i \in Slot, k \in Msg : <<a, i, k>> \in handler' => k # n
    BY <1>1, <1>2, <1>3, <1>5, <2>3 DEF Tidy
  <2>5. \A i \in Slot, k \in Msg : <<a, i, k>> \in handler' =>
          Live(task[a][i]) /\ k <= task[a][i].pts /\ stored'[<<a, k>>] = 0
    BY <1>2, <1>3, <1>5, <2>2, <2>4 DEF Tidy
  <2>6. \A k \in Msg : stored'[<<a, k>>] # 0 =>
           /\ stored'[<<a, k>>] = 1
           /\ k <= sent[a]
           /\ \A i \in Slot : Live(task[a][i]) => k <= task[a][i].pts
    <3>1. task[a][s].pts \in Int /\ sent[a] \in Int /\ Msg \subseteq Int
      BY DEF TypeOK, Task, Msg
    <3>2. n <= sent[a]
      BY <2>1, <3>1 DEF Behind
    <3> QED BY <1>3, <1>5, <2>1, <2>2, <2>3, <3>2 DEF Tidy
  <2> QED BY <1>2, <1>3, <1>5, <2>5, <2>6 DEF Tidy
<1> QED
  BY <1>4, <1>5

LEMMA StepStored ==
    ASSUME TypeOK, Behind, StoredInv, NEW a \in Account, NEW s \in Slot, Step(a, s)
    PROVE  StoredInv'
<1> DEFINE t == task[a][s]
<1>0. t \in Task
  BY DEF TypeOK
<1>1. CASE Start(a, s)
  <2>1. ~Live(t) /\ ~Live(Loop(a))
    BY <1>1 DEF Start, Live, Loop, Off
  <2> QED BY <1>1, <2>1, SameClient DEF Start
<1>2. CASE Connect(a, s)
  BY <1>2, ConnectStored
<1>3. CASE ConnectFails(a, s)
  <2>1. ~Live(t) /\ ~Live([Off EXCEPT !.pc = "waiting"])
    BY <1>3 DEF ConnectFails, Live, Off
  <2> QED BY <1>3, <2>1, SameClient DEF ConnectFails
<1>4. CASE Disconnected(a, s)
  <2> DEFINE u == [t EXCEPT !.pc = "settling", !.more = TRUE]
  <2>1. Live(t) /\ Live(u) /\ u.pts = t.pts
    BY <1>0, <1>4 DEF Disconnected, Live, Task
  <2>2. Becomes(a, s, u) /\ UNCHANGED <<handler, stored, sent>>
    BY <1>4 DEF Disconnected
  <2> HIDE DEF u
  <2> QED BY <2>1, <2>2, SameClient
<1>5. CASE Settle(a, s)
  <2> DEFINE u == [t EXCEPT !.pc = "closing"]
  <2>1. Live(t) /\ Live(u) /\ u.pts = t.pts
    BY <1>0, <1>5 DEF Settle, Live, Task
  <2>2. Becomes(a, s, u) /\ UNCHANGED <<handler, stored, sent>>
    BY <1>5 DEF Settle
  <2> HIDE DEF u
  <2> QED BY <2>1, <2>2, SameClient
<1>6. CASE Close(a, s)
  BY <1>6, CloseStored
<1>7. CASE Push(a, s)
  BY <1>7, PushStored
<1>8. CASE Heartbeat(a, s)
  BY <1>8, HeartbeatStored
<1> QED
  BY <1>1, <1>2, <1>3, <1>4, <1>5, <1>6, <1>7, <1>8 DEF Step

LEMMA StoredStep == TypeOK /\ Behind /\ StoredInv /\ [Next]_vars => StoredInv'
<1> SUFFICES ASSUME TypeOK, Behind, StoredInv, [Next]_vars PROVE StoredInv'
  OBVIOUS
<1>1. ASSUME NEW a \in Account, NEW r \in Row, EditRow(a, r.enabled, r.status)
      PROVE  StoredInv'
  BY <1>1, SameClients DEF EditRow, TypeOK
<1>2. CASE Refresh
  BY <1>2, RefreshStored
<1>3. ASSUME NEW a \in Account, NEW s \in Slot, Step(a, s) PROVE StoredInv'
  BY <1>3, StepStored
<1>4. ASSUME NEW a \in Account, Send(a) PROVE StoredInv'
  <2>1. \A b \in Account : sent[b] <= sent'[b] /\ sent'[b] \in Int
    BY <1>4 DEF Send, TypeOK
  <2> QED BY <1>4, <2>1, SameClients DEF Send
<1>5. ASSUME NEW a \in Account, PushMoves(a) PROVE StoredInv'
  <2>1. \A i \in Slot : LET v == [task[a][i] EXCEPT !.tuned = FALSE]
                        IN  v.pc = task[a][i].pc /\ v.pts = task[a][i].pts
    BY DEF TypeOK, Task
  <2>2. \A b \in Account, i \in Slot :
          task'[b][i].pc = task[b][i].pc /\ task'[b][i].pts = task[b][i].pts
    BY <1>5, <2>1 DEF PushMoves, TypeOK
  <2> QED BY <1>5, <2>2, SameClients DEF PushMoves, Live, TypeOK
<1>6. ASSUME NEW h \in handler, Handle(h) PROVE StoredInv'
  BY <1>6, HandleStored
<1>7. ASSUME NEW h \in handler, HandlerFails(h) PROVE StoredInv'
  BY <1>7 DEF HandlerFails, StoredInv, Tidy
<1>8. CASE Crash
  <2>1. /\ UNCHANGED <<sent, stored, shaken>> /\ handler' = {}
        /\ \A a \in Account, s \in Slot : ~Live(task'[a][s])
    BY <1>8 DEF Crash, Live, Off
  <2> QED BY <2>1 DEF StoredInv, Tidy
<1>9. CASE UNCHANGED vars
  BY <1>9, SameClients DEF vars, TypeOK
<1> QED
  BY <1>1, <1>2, <1>3, <1>4, <1>5, <1>6, <1>7, <1>8, <1>9 DEF Next

-----------------------------------------------------------------------------
\* The tasks' update states stay, or begin again.
LEMMA SameStates ==
    ASSUME TypeOK, Behind, UNCHANGED sent,
           \A a \in Account, s \in Slot : task'[a][s].pts \in {0, task[a][s].pts}
    PROVE  Behind'
<1>1. \A a \in Account : sent[a] \in Nat
  BY ListenAssumption DEF TypeOK
<1> QED
  BY <1>1 DEF Behind

LEMMA OneState ==
    ASSUME TypeOK, Behind, NEW a \in Account, NEW s \in Slot, NEW t, Becomes(a, s, t),
           t.pts \in {0, task[a][s].pts}, UNCHANGED sent
    PROVE  Behind'
<1>1. \A b \in Account : sent[b] \in Nat
  BY ListenAssumption DEF TypeOK
<1>2. \A b \in Account, i \in Slot : task'[b][i] = IF b = a /\ i = s THEN t ELSE task[b][i]
  BY DEF TypeOK, Becomes
<1> QED
  BY <1>1, <1>2 DEF Behind

LEMMA StepBehind ==
    ASSUME TypeOK, Behind, NEW a \in Account, NEW s \in Slot, Step(a, s)
    PROVE  Behind'
<1> DEFINE t == task[a][s]
<1>0. t \in Task /\ Off.pts = 0 /\ Loop(a).pts = 0 /\ [Off EXCEPT !.pc = "waiting"].pts = 0
  BY DEF TypeOK, Off, Loop
<1>1. CASE Start(a, s)
  BY <1>0, <1>1, OneState DEF Start
<1>2. CASE ConnectFails(a, s)
  BY <1>0, <1>2, OneState DEF ConnectFails
<1>3. CASE Disconnected(a, s)
  <2> DEFINE u == [t EXCEPT !.pc = "settling", !.more = TRUE]
  <2>1. u.pts = t.pts
    BY <1>0 DEF Task
  <2>2. Becomes(a, s, u) /\ UNCHANGED sent
    BY <1>3 DEF Disconnected
  <2> HIDE DEF u
  <2> QED BY <2>1, <2>2, OneState
<1>4. CASE Settle(a, s)
  <2> DEFINE u == [t EXCEPT !.pc = "closing"]
  <2>1. u.pts = t.pts
    BY <1>0 DEF Task
  <2>2. Becomes(a, s, u) /\ UNCHANGED sent
    BY <1>4 DEF Settle
  <2> HIDE DEF u
  <2> QED BY <2>1, <2>2, OneState
<1>5. CASE Close(a, s)
  <2>1. (IF t.more THEN Loop(a) ELSE Off).pts = 0
    BY <1>0
  <2> QED BY <1>5, <2>1, OneState DEF Close
<1>7. CASE Connect(a, s) \/ Push(a, s) \/ Heartbeat(a, s)
  <2>1. \A i \in Slot : [task[a][i] EXCEPT !.tuned = FALSE].pts = task[a][i].pts
    BY DEF TypeOK, Task
  <2>2. UNCHANGED sent /\ sent[a] \in Int
    BY <1>7 DEF Connect, Connected, Push, Heartbeat, TypeOK
  <2>3. PICK k : k <= sent[a] /\
          \A b \in Account, i \in Slot :
             task'[b][i].pts = IF b = a /\ i = s THEN k ELSE task[b][i].pts
    <3>1. CASE Connect(a, s)
      <4>1. PICK aware \in BOOLEAN :
              task' = [task EXCEPT ![a] = [i \in Slot |->
                        IF i = s THEN [pc |-> "armed", more |-> FALSE, tuned |-> TRUE,
                                       aware |-> aware, pts |-> sent[a]]
                        ELSE [task[a][i] EXCEPT !.tuned = FALSE]]]
        BY <3>1 DEF Connect, Connected
      <4>2. \A b \in Account, i \in Slot :
              task'[b][i].pts = IF b = a /\ i = s THEN sent[a] ELSE task[b][i].pts
        BY <2>1, <4>1 DEF TypeOK
      <4> QED BY <2>2, <4>2
    <3>2. CASE Push(a, s)
      <4>1. t.pts \in Int /\ t.pts < sent[a]
        BY <1>0, <3>2 DEF Push, Task
      <4>2. [t EXCEPT !.pts = @ + 1, !.aware = TRUE].pts = t.pts + 1
        BY <1>0 DEF Task
      <4>3. \A b \in Account, i \in Slot :
              task'[b][i].pts = IF b = a /\ i = s THEN t.pts + 1 ELSE task[b][i].pts
        BY <3>2, <4>2 DEF Push, TypeOK
      <4>4. t.pts + 1 <= sent[a]
        BY <2>2, <4>1
      <4> QED BY <4>3, <4>4
    <3>3. CASE Heartbeat(a, s)
      <4> DEFINE u == [t EXCEPT !.tuned = TRUE, !.pts = sent[a]]
      <4>1. u.pts = sent[a]
        BY <1>0 DEF Task
      <4>2. task' = [task EXCEPT ![a] = [i \in Slot |->
                      IF i = s THEN u ELSE [task[a][i] EXCEPT !.tuned = FALSE]]]
        BY <3>3 DEF Heartbeat
      <4> HIDE DEF u
      <4>3. \A b \in Account, i \in Slot :
              task'[b][i].pts = IF b = a /\ i = s THEN sent[a] ELSE task[b][i].pts
        BY <2>1, <4>1, <4>2 DEF TypeOK
      <4> QED BY <2>2, <4>3
    <3> QED BY <1>7, <3>1, <3>2, <3>3
  <2> QED
    BY <2>2, <2>3 DEF Behind
<1> QED
  BY <1>1, <1>2, <1>3, <1>4, <1>5, <1>7 DEF Step

LEMMA BehindStep == TypeOK /\ Behind /\ [Next]_vars => Behind'
<1> SUFFICES ASSUME TypeOK, Behind, [Next]_vars PROVE Behind'
  OBVIOUS
<1>1. ASSUME NEW a \in Account, NEW r \in Row, EditRow(a, r.enabled, r.status) PROVE Behind'
  BY <1>1 DEF EditRow, Behind
<1>2. CASE Refresh
  <2> SUFFICES ASSUME NEW a \in Account, NEW s \in Slot
               PROVE  task'[a][s].pts \in {0, task[a][s].pts}
    BY <1>2, SameStates DEF Refresh
  <2>0. task[a] \in [Slot -> Task] /\ New.pts = 0
    BY DEF TypeOK, New, Off
  <2>1. CASE a \in Starting
    <3>1. a \notin Stopping
      BY <2>1 DEF Starting, Stopping
    <3>2. task'[a] = [task[a] EXCEPT ![FreeSlot(a)] = New]
      BY <1>2, <2>1, <3>1 DEF Refresh
    <3> QED BY <2>0, <3>2
  <2>2. CASE a \in Stopping /\ a \notin Starting
    <3>1. task'[a] = [task[a] EXCEPT ![held[a]] = Cancelled(task[a][held[a]])]
      BY <1>2, <2>2 DEF Refresh
    <3>2. \A t \in Task : Cancelled(t).pts \in {0, t.pts}
      <4> SUFFICES ASSUME NEW t \in Task PROVE Cancelled(t).pts \in {0, t.pts}
        OBVIOUS
      <4>1. CASE Live(t)
        BY <4>1, CancelledClient
      <4>2. CASE ~Live(t) /\ t.pc # "off"
        BY <4>2 DEF Cancelled, Live, Off, Task
      <4>3. CASE t.pc = "off"
        BY <4>3 DEF Cancelled
      <4> QED BY <4>1, <4>2, <4>3
    <3> QED BY <2>0, <3>1, <3>2
  <2>3. CASE a \notin Starting /\ a \notin Stopping
    BY <1>2, <2>3 DEF Refresh
  <2> QED BY <2>1, <2>2, <2>3
<1>3. ASSUME NEW a \in Account, NEW s \in Slot, Step(a, s) PROVE Behind'
  BY <1>3, StepBehind
<1>4. ASSUME NEW a \in Account, Send(a) PROVE Behind'
  <2>1. UNCHANGED task /\ sent' = [sent EXCEPT ![a] = @ + 1]
    BY <1>4 DEF Send
  <2>2. \A b \in Account : sent[b] \in Int /\ sent'[b] >= sent[b]
    BY <2>1 DEF TypeOK
  <2>3. \A b \in Account, i \in Slot : task[b][i].pts \in Int
    BY DEF TypeOK, Task
  <2>4. \A b \in Account : sent'[b] \in Int
    BY <2>1 DEF TypeOK
  <2> QED BY <2>1, <2>2, <2>3, <2>4 DEF Behind
<1>5. ASSUME NEW a \in Account, PushMoves(a) PROVE Behind'
  <2>1. \A i \in Slot : [task[a][i] EXCEPT !.tuned = FALSE].pts = task[a][i].pts
    BY DEF TypeOK, Task
  <2>2. \A b \in Account, i \in Slot : task'[b][i].pts = task[b][i].pts
    BY <1>5, <2>1 DEF PushMoves, TypeOK
  <2> QED BY <1>5, <2>2, SameStates DEF PushMoves
<1>6. ASSUME NEW h \in handler, Handle(h) \/ HandlerFails(h) PROVE Behind'
  BY <1>6 DEF Handle, HandlerFails, Behind
<1>7. CASE Crash
  <2>1. \A a \in Account, s \in Slot : task'[a][s].pts = 0
    BY <1>7 DEF Crash, Off
  <2> QED BY <1>7, <2>1, SameStates DEF Crash
<1>8. CASE UNCHANGED vars
  BY <1>8 DEF vars, Behind
<1> QED
  BY <1>1, <1>2, <1>3, <1>4, <1>5, <1>6, <1>7, <1>8 DEF Next

LEMMA StoredHolds == Spec => [](TypeOK /\ Behind /\ StoredInv)
<1>1. Init => TypeOK /\ Behind /\ StoredInv
  <2> SUFFICES ASSUME Init PROVE TypeOK /\ Behind /\ StoredInv
    OBVIOUS
  <2>1. TypeOK
    BY InitInv DEF Inv
  <2>2. Behind
    <3>1. Off.pts = 0 /\ 0 <= 0
      BY DEF Off
    <3>2. \A a \in Account : sent[a] = 0 /\ \A s \in Slot : task[a][s] = Off
      BY DEF Init
    <3> QED BY <3>1, <3>2 DEF Behind
  <2>3. \A a \in Account, s \in Slot : ~Live(task[a][s])
    BY DEF Init, Off, Live
  <2>4. StoredInv
    BY <2>3 DEF Init, StoredInv, Tidy
  <2> QED BY <2>1, <2>2, <2>4
<1> QED
  BY <1>1, TypeStep, BehindStep, StoredStep, PTL DEF Spec

(* The state of the listening worker keeps its types: rows, tasks, clients *)
(* and the handlers that run (listen_worker.py 159-218).                   *)
THEOREM TypeCorrect == Spec => []TypeOK
BY InvHolds, PTL DEF Inv

(* Two tasks of one account listen at a time only if one of them has       *)
(* swallowed its cancellation (listen_worker.py 210-213, adapter.py        *)
(* 784-789).                                                               *)
THEOREM OneListenerHolds == Spec => []OneListener
<1>1. Inv => OneListener
  <2> SUFFICES ASSUME Inv, NEW a \in Account, a \notin deaf, NEW i \in Slot,
                      task[a][i].pc = "armed"
               PROVE  i = held[a]
    BY DEF OneListener
  <2> QED
    BY DEF Inv, ForgottenIsQuiet, Quiet
<1> QED
  BY <1>1, InvHolds, PTL

(* A reply is stored and counted once, however often its account is        *)
(* disconnected and stopped and the worker restarted, if the account has   *)
(* had one live client at a time (listen_worker.py 26, adapter.py 784-793).*)
THEOREM StoredOnceHolds == Spec => []StoredOnce
<1>1. TypeOK /\ StoredInv => StoredOnce
  BY DEF TypeOK, StoredInv, Tidy, StoredOnce
<1> QED
  BY <1>1, StoredHolds, PTL
=============================================================================
