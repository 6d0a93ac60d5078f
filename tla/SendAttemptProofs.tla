-------------------------- MODULE SendAttemptProofs --------------------------
(***************************************************************************)
(* One message's calls through the adapter, for any templates, settings,   *)
(* errors and bounds: a call that has ended has removed its copy of the    *)
(* session file and the contact it added, its error has its consequence,   *)
(* the next attempt waits, and the entities of its text cover their tags.  *)
(*                                                                         *)
(* Since the copies are copies of what SessionStore keeps, the session     *)
(* files themselves too, for any archives, concurrent imports, deletions,  *)
(* validations and failures.                                               *)
(***************************************************************************)
EXTENDS SendAttempt, SessionStore, SequenceTheorems, FiniteSetTheorems, WellFoundedInduction,
        TLAPS

Closed == {"idle", "done"}
Open == {"connect", "authorize", "resolve", "import", "forget", "act", "disconnect"}

\* A record of a call's fields.
CallAt(P, c) == c \in [pc: P, kind: {c.kind}, what: {c.what},
                       code: {c.code}, said: {c.said}, at: {c.at}]

IsCall == CallAt(Closed \cup Open, call)

\* A call that is open has one copy, besides those of the processes that died.
CopyInv ==
    /\ litter \in Int
    /\ temp = IF call.pc \in Open THEN litter + 1 ELSE litter

\* An account loses its own contact only after get_entity missed it; a contact
\* that is not its own is removed in the step that follows, or stays stuck.
ContactInv ==
    /\ had \in {"no", "own"} /\ book \in {"no", "own", "tmp"}
    /\ had = "own" /\ book # "own" => blind
    /\ had = "own" /\ call.pc \in {"import", "forget"} => blind
    /\ had = "no" => book # "own" /\ (book = "tmp" => stuck \/ call.pc = "forget")

Inv == IsCall /\ CopyInv /\ ContactInv

-----------------------------------------------------------------------------
\* What the steps make of a call.
\* The call comes to a step, or to its end, whether it has met an error or not.
Moves(pc) ==
    \/ call' = [call EXCEPT !.pc = pc]
    \/ \E e : call' = [Hears(call, e) EXCEPT !.pc = pc]

Finishes ==
    \/ \E code : call' = Ends(call, code)
    \/ \E e, code : call' = Ends(Hears(call, e), code)

LEMMA Heard ==
    ASSUME IsCall, NEW e
    PROVE  /\ CallAt({call.pc}, Hears(call, e))
           /\ Hears(call, e).kind = call.kind /\ Hears(call, e).what = call.what
           /\ Hears(call, e).code = call.code /\ Hears(call, e).at = call.at
           /\ Hears(call, e).said = call.said \cup {<<call.pc, e>>}
BY DEF IsCall, CallAt, Hears

LEMMA NextPc ==
    ASSUME IsCall, NEW pc \in Closed \cup Open, Moves(pc)
    PROVE  IsCall' /\ call'.pc = pc
<1>1. CASE call' = [call EXCEPT !.pc = pc]
  BY <1>1 DEF IsCall, CallAt
<1>2. ASSUME NEW e, call' = [Hears(call, e) EXCEPT !.pc = pc] PROVE IsCall' /\ call'.pc = pc
  BY <1>2, Heard DEF IsCall, CallAt
<1> QED
  BY <1>1, <1>2 DEF Moves

LEMMA NextEnds ==
    ASSUME IsCall, Finishes
    PROVE  IsCall' /\ call'.pc = "disconnect"
<1>1. ASSUME NEW code, call' = Ends(call, code) PROVE IsCall' /\ call'.pc = "disconnect"
  BY <1>1 DEF IsCall, CallAt, Ends, Open
<1>2. ASSUME NEW e, NEW code, call' = Ends(Hears(call, e), code)
      PROVE  IsCall' /\ call'.pc = "disconnect"
  BY <1>2, Heard DEF IsCall, CallAt, Ends, Open
<1> QED
  BY <1>1, <1>2 DEF Finishes

LEMMA StepsOfCall ==
    /\ Connect => Moves("authorize") \/ Finishes
    /\ Authorize => Moves("act") \/ Moves("resolve") \/ Finishes
    /\ Resolve => Moves("act") \/ Moves("import") \/ Finishes
    /\ Import => Moves("forget") \/ Finishes
    /\ Forget => Moves("act")
    /\ Act => Finishes
    /\ Disconnect => Moves("done")
BY Zenon DEF Connect, Authorize, Resolve, Import, Forget, Act, Disconnect, Moves, Finishes, Raises

LEMMA NoCallIdle ==
    /\ CallAt({"idle"}, NoCall)
    /\ \A kind, what, at :
         /\ CallAt({"idle"}, [NoCall EXCEPT !.kind = kind, !.what = what, !.at = at])
         /\ CallAt({"idle"}, [NoCall EXCEPT !.kind = kind, !.what = what])
BY DEF NoCall, CallAt

LEMMA OpensInv ==
    ASSUME Inv, call.pc = "idle", NEW c, CallAt({"idle"}, c), Opens(c), UNCHANGED <<book, ghosts>>
    PROVE  Inv'
<1>1. CASE call' = [c EXCEPT !.pc = "connect"] /\ temp' = temp + 1
  <2>1. CallAt({"connect"}, call')
    BY <1>1 DEF CallAt
  <2>2. IsCall' /\ call'.pc = "connect"
    BY <2>1 DEF IsCall, CallAt, Open
  <2> QED
    BY <1>1, <2>2 DEF Inv, CopyInv, ContactInv, ghosts, Open, Closed
<1>2. CASE /\ call' \in {Returns(c, "telegram_not_configured"), Returns(c, "session_missing"),
                         Returns([c EXCEPT !.said = {<<"open", "ValueError">>}], "ValueError")}
           /\ temp' = temp
  <2>1. CallAt({"done"}, call')
    BY <1>2 DEF CallAt, Returns
  <2>2. IsCall' /\ call'.pc = "done"
    BY <2>1 DEF IsCall, CallAt, Closed
  <2> QED
    BY <1>2, <2>2 DEF Inv, CopyInv, ContactInv, ghosts, Open, Closed
<1> QED
  BY <1>1, <1>2 DEF Opens

\* A step within a call that has its copy, and leaves the contacts alone.
LEMMA StaysOpen ==
    ASSUME Inv, IsCall', call.pc \in Open, call'.pc \in Open \ {"import", "forget"},
           call.pc # "forget", UNCHANGED <<book, temp, had, stuck, litter>>, blind => blind'
    PROVE  Inv'
BY DEF Inv, CopyInv, ContactInv

-----------------------------------------------------------------------------
LEMMA InvStep == Inv /\ [Next]_vars => Inv'
<1> SUFFICES ASSUME Inv, [Next]_vars PROVE Inv'
  OBVIOUS
<1>0. IsCall
  BY DEF Inv
<1>1. CASE UNCHANGED <<book, temp, call, ghosts>>
  BY <1>1 DEF Inv, IsCall, CallAt, CopyInv, ContactInv, ghosts
<1>2. CASE Attempt
  BY <1>2, OpensInv, NoCallIdle DEF Attempt, TakesTurn
<1>3. ASSUME NEW kind, NEW what, OtherCall(kind, what) PROVE Inv'
  BY <1>3, OpensInv, NoCallIdle DEF OtherCall
<1>4. CASE Connect
  <2>1. IsCall' /\ call'.pc \in {"authorize", "disconnect"}
    BY <1>0, <1>4, StepsOfCall, NextPc, NextEnds DEF Open
  <2> QED BY <1>4, <2>1, StaysOpen DEF Connect, ghosts, Open
<1>5. CASE Authorize
  <2>1. IsCall' /\ call'.pc \in {"act", "resolve", "disconnect"}
    BY <1>0, <1>5, StepsOfCall, NextPc, NextEnds DEF Open
  <2> QED BY <1>5, <2>1, StaysOpen DEF Authorize, ghosts, Open
<1>6. CASE Resolve
  <2>0. IsCall' /\ call'.pc \in {"act", "import", "disconnect"}
    BY <1>0, <1>6, StepsOfCall, NextPc, NextEnds DEF Open
  <2>1. CASE call'.pc = "import"
    <3>1. ASSUME NEW e PROVE call' # [call EXCEPT !.pc = "act"] /\ call' # Raises(call, e)
      BY <1>0, <2>1, Heard DEF IsCall, CallAt, Raises, Ends
    <3>2. /\ (blind \/ book = "own" => blind') /\ call.pc = "resolve"
          /\ UNCHANGED <<book, temp, had, stuck, litter>>
      BY <1>6, <3>1, Zenon DEF Resolve
    <3> QED BY <2>0, <2>1, <3>2 DEF Inv, CopyInv, ContactInv, Open
  <2>2. CASE call'.pc # "import"
    <3>1. /\ call.pc = "resolve" /\ UNCHANGED <<book, temp, had, stuck, litter>>
          /\ blind' = blind \/ blind' = (blind \/ book = "own")
      BY <1>6 DEF Resolve
    <3>2. blind => blind'
      BY <3>1
    <3> QED BY <2>0, <2>2, <3>1, <3>2, StaysOpen DEF Open
  <2> QED BY <2>1, <2>2
<1>7. CASE Import
  <2>1. CASE call' = [call EXCEPT !.pc = "forget"] /\ book' = IF book = "no" THEN "tmp" ELSE book
    <3>1. IsCall' /\ call'.pc = "forget"
      BY <1>0, <2>1, NextPc DEF Open, Moves
    <3> QED BY <1>7, <2>1, <3>1 DEF Import, ghosts, Inv, CopyInv, ContactInv, Open
  <2>2. CASE book' = book /\ \E e : call' = Raises(call, e)
    <3>1. IsCall' /\ call'.pc = "disconnect"
      BY <1>0, <2>2, NextEnds DEF Finishes, Raises
    <3> QED BY <1>7, <2>2, <3>1, StaysOpen DEF Import, ghosts, Open
  <2> QED BY <1>7, <2>1, <2>2 DEF Import
<1>8. CASE Forget
  <2>1. IsCall' /\ call'.pc = "act"
    BY <1>0, <1>8, StepsOfCall, NextPc DEF Open
  <2>2. /\ call.pc = "forget" /\ UNCHANGED <<temp, had, blind, litter>>
        /\ \/ book' = "no" /\ stuck' = stuck
           \/ book' = book /\ stuck' = TRUE
    BY <1>8, Zenon DEF Forget
  <2> QED BY <2>1, <2>2 DEF Inv, CopyInv, ContactInv, Open
<1>9. CASE Act
  <2>1. IsCall' /\ call'.pc = "disconnect"
    BY <1>0, <1>9, StepsOfCall, NextEnds
  <2> QED BY <1>9, <2>1, StaysOpen DEF Act, ghosts, Open
<1>10. CASE Disconnect
  <2>1. IsCall' /\ call'.pc = "done"
    BY <1>0, <1>10, StepsOfCall, NextPc DEF Closed
  <2> QED BY <1>10, <2>1 DEF Disconnect, ghosts, Inv, CopyInv, ContactInv, Open
<1>11. CASE AttemptEnds \/ OtherCallEnds
  <2>1. IsCall' /\ call'.pc = "idle"
    BY <1>11, NoCallIdle DEF AttemptEnds, OtherCallEnds, IsCall, CallAt, Closed
  <2> QED BY <1>11, <2>1 DEF AttemptEnds, OtherCallEnds, ghosts, Inv, CopyInv, ContactInv, Open
<1>12. CASE Crash
  <2>1. IsCall' /\ call'.pc = "idle"
    BY <1>12, NoCallIdle DEF Crash, IsCall, CallAt, Closed
  <2>2. UNCHANGED <<had, book, blind>> /\ (stuck \/ book = "tmp" => stuck')
    BY <1>12, Zenon DEF Crash
  <2>3. ContactInv'
    BY <2>1, <2>2 DEF Inv, ContactInv
  <2>4. CopyInv'
    BY <1>12, <2>1 DEF Crash, Inv, CopyInv, Open
  <2> QED BY <2>1, <2>3, <2>4 DEF Inv
<1>13. CASE StartTick \/ PassOver \/ Enqueue \/ Unavailable \/ Postpone \/ Enable \/ Clock
          \/ UNCHANGED vars
  BY <1>1, <1>13 DEF StartTick, PassOver, Enqueue, Unavailable, Postpone, Enable, Clock, vars
<1> QED
  BY <1>2, <1>3, <1>4, <1>5, <1>6, <1>7, <1>8, <1>9, <1>10, <1>11, <1>12, <1>13 DEF Next

LEMMA InitInv == Init => Inv
<1> SUFFICES ASSUME Init PROVE Inv
  OBVIOUS
<1>1. call = NoCall /\ call.pc = "idle" /\ temp = 0 /\ litter = 0
  BY NoCallIdle DEF Init, CallAt
<1>2. IsCall
  BY <1>1, NoCallIdle DEF IsCall, CallAt, Closed
<1>3. CopyInv
  BY <1>1 DEF CopyInv, Open
<1>4. ContactInv
  BY <1>1 DEF Init, ContactInv
<1> QED BY <1>2, <1>3, <1>4 DEF Inv

(* Between two calls no copy of the session file is left but those of      *)
(* processes that died, and the contact list is as it was unless a contact *)
(* could not be deleted or the account's own was not found (adapter.py     *)
(* 319-374, 495-504).                                                      *)
THEOREM CallCleansUpHolds == Spec => []CallCleansUp
<1>1. Inv => CallCleansUp
  BY DEF Inv, CopyInv, ContactInv, CallCleansUp, Open
<1> QED
  BY <1>1, InitInv, InvStep, PTL DEF Spec

-----------------------------------------------------------------------------
(* The codes                                                               *)

BadNews == Kill \cup FailFast \cup {"FloodWaitError"}

\* What a campaign's call has been told: until it ends only what was dropped in
\* resolve or forget; and then its code names the exception.
Told(c) ==
    c.kind = "campaign" =>
      /\ c.pc \in Open \ {"disconnect"} =>
           \A s \in c.said : s \in Dropped(c) /\ s[1] # "authorize"
      /\ \A s \in c.said \ Dropped(c) : s[2] \in BadNews =>
           \/ (c.code = s[2] /\ (s[2] = "FloodWaitError" => s[1] = "import"))
           \/ (s[2] = "FloodWaitError" /\ c.code = "flood_wait")
      /\ \A s \in Dropped(c) : s[1] = "authorize" => c.code = "session_unauthorized"

RowsInv ==
    /\ msg \in [status: {msg.status}, to: {msg.to}, attempts: Int, due: {msg.due}, tried: {msg.tried}]
    /\ account \in [status: {account.status}, enabled: {account.enabled}]

CodeInv == IsCall /\ Told(call) /\ RowsInv

\* An error that is dropped, or whose code the call ends with.
LEMMA EndsTold ==
    ASSUME IsCall, Told(call), call.pc \in Open \ {"disconnect"}, NEW e, NEW code,
           call' = Ends(Hears(call, e), code),
           \/ call.pc = "authorize" /\ e \notin NotRpc /\ code = "session_unauthorized"
           \/ /\ code = CodeOf(call, e) /\ call.pc # "forget"
              /\ call.pc = "authorize" => e \in NotRpc
              /\ call.pc = "resolve" => call.what # "phone"
    PROVE  Told(call')
<1> SUFFICES ASSUME call.kind = "campaign" PROVE Told(call')
  BY Heard DEF Told, Ends, CallAt
<1>1. /\ call'.said = call.said \cup {<<call.pc, e>>} /\ call'.code = code
      /\ call'.what = call.what /\ call'.pc = "disconnect"
  BY Heard DEF Ends, CallAt
<1>2. \A s \in call.said : s \in Dropped(call') /\ s[1] # "authorize"
  BY <1>1 DEF Told, Dropped
<1>3. CodeOf(call, e) = SendCode(call.pc, e)
  BY DEF CodeOf
<1>4. \A s \in call'.said \ Dropped(call') : s = <<call.pc, e>>
  BY <1>1, <1>2
<1>5. /\ <<call.pc, e>>[1] = call.pc /\ <<call.pc, e>>[2] = e
      /\ <<call.pc, e>> \in Dropped(call') =>
           (call.pc = "authorize" => code = "session_unauthorized")
      /\ <<call.pc, e>> \notin Dropped(call') => code = SendCode(call.pc, e)
  BY <1>1, <1>3 DEF Dropped
<1>6. \A s \in Dropped(call') : s \in call.said \/ s = <<call.pc, e>>
  BY <1>1 DEF Dropped
<1>7. \A s \in call'.said \ Dropped(call') : s[2] \in BadNews =>
        \/ (code = s[2] /\ (s[2] = "FloodWaitError" => s[1] = "import"))
        \/ (s[2] = "FloodWaitError" /\ code = "flood_wait")
  BY <1>4, <1>5 DEF SendCode
<1>8. \A s \in Dropped(call') : s[1] = "authorize" => code = "session_unauthorized"
  BY <1>2, <1>5, <1>6
<1> QED
  BY <1>1, <1>7, <1>8 DEF Told

LEMMA EndsQuietly ==
    ASSUME IsCall, Told(call), call.pc \in Open \ {"disconnect"}, NEW code,
           call' = Ends(call, code)
    PROVE  Told(call')
<1>1. /\ call'.said = call.said /\ call'.what = call.what /\ call'.pc = "disconnect"
      /\ call'.kind = call.kind
  BY DEF IsCall, CallAt, Ends
<1>2. Dropped(call') = Dropped(call)
  BY <1>1 DEF Dropped
<1> QED
  BY <1>1, <1>2 DEF Told, Dropped

LEMMA MovesTold ==
    ASSUME IsCall, Told(call), call.pc \in Open, NEW pc, call' = [call EXCEPT !.pc = pc],
           pc \in Open \ {"disconnect"} => call.pc # "disconnect"
    PROVE  Told(call')
<1>1. /\ call'.said = call.said /\ call'.what = call.what /\ call'.pc = pc
      /\ call'.kind = call.kind /\ call'.code = call.code
  BY DEF IsCall, CallAt
<1>2. Dropped(call') = Dropped(call)
  BY <1>1 DEF Dropped
<1> QED
  BY <1>1, <1>2 DEF Told

\* An error that nobody hears of.
LEMMA DropsTold ==
    ASSUME IsCall, Told(call), call.pc \in {"resolve", "forget"},
           call.pc = "resolve" => call.what = "phone",
           NEW e, NEW pc, call' = [Hears(call, e) EXCEPT !.pc = pc]
    PROVE  Told(call')
<1>1. /\ call'.said = call.said \cup {<<call.pc, e>>} /\ call'.what = call.what
      /\ call'.kind = call.kind /\ call'.code = call.code
  BY Heard DEF CallAt
<1>2. call.kind = "campaign" => \A s \in call.said : s \in Dropped(call) /\ s[1] # "authorize"
  BY DEF Told, Open
<1>3. <<call.pc, e>> \in Dropped(call') /\ <<call.pc, e>>[1] # "authorize"
  BY <1>1 DEF Dropped
<1>4. \A s \in Dropped(call) : s \in Dropped(call')
  BY <1>1 DEF Dropped
<1>5. call.kind = "campaign" => \A s \in call'.said : s \in Dropped(call') /\ s[1] # "authorize"
  BY <1>1, <1>2, <1>3, <1>4
<1>6. Dropped(call') \subseteq call'.said
  BY DEF Dropped
<1> QED
  BY <1>1, <1>5, <1>6 DEF Told

LEMMA OpensTold ==
    ASSUME NEW c, CallAt({"idle"}, c), c.said = {}, Opens(c) PROVE Told(call')
<1>1. CASE call' = [c EXCEPT !.pc = "connect"]
  <2>1. call'.said = {}
    BY <1>1 DEF CallAt
  <2> QED BY <2>1 DEF Told, Dropped
<1>2. CASE call' = Returns(c, "telegram_not_configured") \/ call' = Returns(c, "session_missing")
  <2>1. call'.said = {}
    BY <1>2 DEF CallAt, Returns
  <2> QED BY <2>1 DEF Told, Dropped
<1>3. CASE call' = Returns([c EXCEPT !.said = {<<"open", "ValueError">>}], "ValueError")
  <2>1. call'.said = {<<"open", "ValueError">>} /\ call'.code = "ValueError" /\ call'.pc = "done"
    BY <1>3 DEF CallAt, Returns
  <2>2. <<"open", "ValueError">>[1] = "open" /\ <<"open", "ValueError">>[2] = "ValueError"
    OBVIOUS
  <2> QED BY <2>1, <2>2 DEF Told, Dropped, Open
<1> QED
  BY <1>1, <1>2, <1>3 DEF Opens

LEMMA ToldStep == Inv /\ Told(call) /\ [Next]_vars => Told(call')
<1> SUFFICES ASSUME Inv, Told(call), [Next]_vars PROVE Told(call')
  OBVIOUS
<1>0. IsCall
  BY DEF Inv
<1>1. CASE UNCHANGED call
  BY <1>1
<1>2. CASE Attempt
  <2>1. [NoCall EXCEPT !.kind = "campaign", !.what = msg.to, !.at = tick].said = {}
    BY DEF NoCall
  <2> QED BY <1>2, <2>1, OpensTold, NoCallIdle DEF Attempt
<1>3. ASSUME NEW kind, NEW what, OtherCall(kind, what) PROVE Told(call')
  <2>1. [NoCall EXCEPT !.kind = kind, !.what = what].said = {}
    BY DEF NoCall
  <2> QED BY <1>3, <2>1, OpensTold, NoCallIdle DEF OtherCall
<1>4. CASE Connect
  <2>1. call.pc = "connect"
    BY <1>4 DEF Connect
  <2>2. CASE call' = [call EXCEPT !.pc = "authorize"]
    BY <1>0, <2>1, <2>2, MovesTold DEF Open
  <2>3. ASSUME NEW e, call' = Raises(call, e) PROVE Told(call')
    BY <1>0, <2>1, <2>3, EndsTold DEF Raises, Open
  <2> QED BY <1>4, <2>2, <2>3 DEF Connect
<1>5. CASE Authorize
  <2>1. call.pc = "authorize"
    BY <1>5 DEF Authorize
  <2>2. ASSUME NEW pc, call' = [call EXCEPT !.pc = pc] PROVE Told(call')
    BY <1>0, <2>1, <2>2, MovesTold DEF Open
  <2>3. ASSUME NEW e \in NotRpc, call' = Raises(call, e) PROVE Told(call')
    BY <1>0, <2>1, <2>3, EndsTold DEF Raises, Open
  <2>4. ASSUME NEW e, e \notin NotRpc, call' = Ends(Hears(call, e), "session_unauthorized")
        PROVE  Told(call')
    BY <1>0, <2>1, <2>4, EndsTold DEF Open
  <2> QED BY <1>5, <2>2, <2>3, <2>4 DEF Authorize
<1>6. CASE Resolve
  <2>1. call.pc = "resolve"
    BY <1>6 DEF Resolve
  <2>2. CASE call' = [call EXCEPT !.pc = "act"]
    BY <1>0, <2>1, <2>2, MovesTold DEF Open
  <2>3. ASSUME NEW e, call.what = "user", call' = Raises(call, e) PROVE Told(call')
    BY <1>0, <2>1, <2>3, EndsTold DEF Raises, Open
  <2>4. ASSUME NEW e, call.what = "phone", call' = [Hears(call, e) EXCEPT !.pc = "import"]
        PROVE  Told(call')
    BY <1>0, <2>1, <2>4, DropsTold
  <2> QED BY <1>6, <2>2, <2>3, <2>4 DEF Resolve
<1>7. CASE Import
  <2>1. call.pc = "import"
    BY <1>7 DEF Import
  <2>2. CASE call' = [call EXCEPT !.pc = "forget"]
    BY <1>0, <2>1, <2>2, MovesTold DEF Open
  <2>3. ASSUME NEW e, call' = Raises(call, e) PROVE Told(call')
    BY <1>0, <2>1, <2>3, EndsTold DEF Raises, Open
  <2> QED BY <1>7, <2>2, <2>3 DEF Import
<1>8. CASE Forget \/ Disconnect
  <2>1. CASE Disconnect
    BY <1>0, <2>1, MovesTold DEF Disconnect, Open
  <2>2. CASE Forget /\ call' = [call EXCEPT !.pc = "act"]
    BY <1>0, <2>2, MovesTold DEF Forget, Open
  <2>3. ASSUME NEW e, Forget, call' = [Hears(call, e) EXCEPT !.pc = "act"] PROVE Told(call')
    BY <1>0, <2>3, DropsTold DEF Forget
  <2> QED BY <1>8, <2>1, <2>2, <2>3 DEF Forget
<1>9. CASE Act
  <2>1. call.pc = "act"
    BY <1>9 DEF Act
  <2>2. ASSUME NEW code, call' = Ends(call, code) PROVE Told(call')
    BY <1>0, <2>1, <2>2, EndsQuietly DEF Open
  <2>3. ASSUME NEW e, call' = Raises(call, e) PROVE Told(call')
    BY <1>0, <2>1, <2>3, EndsTold DEF Raises, Open
  <2> QED BY <1>9, <2>2, <2>3 DEF Act
<1>10. CASE AttemptEnds \/ OtherCallEnds \/ Crash
  BY <1>10 DEF AttemptEnds, OtherCallEnds, Crash, Told, NoCall
<1>11. CASE StartTick \/ PassOver \/ Enqueue \/ Unavailable \/ Postpone \/ Enable \/ Clock
          \/ UNCHANGED vars
  BY <1>1, <1>11 DEF StartTick, PassOver, Enqueue, Unavailable, Postpone, Enable, Clock, vars
<1> QED
  BY <1>2, <1>3, <1>4, <1>5, <1>6, <1>7, <1>8, <1>9, <1>10, <1>11 DEF Next

LEMMA TriedRow ==
    ASSUME RowsInv, NEW status, NEW t
    PROVE  /\ Tried(status, t) \in [status: {status}, to: {msg.to}, attempts: Int,
                                    due: {t}, tried: {call.at}]
           /\ Tried(status, t).status = status
           /\ Tried(status, t).attempts = msg.attempts + 1
<1> DEFINE S == [status: {status}, to: {msg.to}, attempts: {msg.attempts + 1},
                 due: {t}, tried: {call.at}]
<1>1. Tried(status, t) \in S
  BY DEF RowsInv, Tried
<1>2. msg.attempts \in Int
  BY DEF RowsInv
<1> QED
  BY <1>1, <1>2

\* What an attempt that ended leaves behind, by its code.
LEMMA VerdictRow ==
    ASSUME RowsInv, NEW t, Verdict(t)
    PROVE  /\ RowsInv'
           /\ call.code \in Kill => ~account'.enabled /\ msg'.status = "failed_permanent"
           /\ call.code \in FailFast => msg'.status = "failed_permanent"
           /\ call.code = "flood_wait" =>
                account'.status = "limited" \/ msg.attempts + 1 >= MaxAttempts
           /\ msg'.status # "sent"
           /\ call.code = "session_unauthorized" /\ msg.attempts + 1 >= MaxAttempts =>
                account'.status = "error"
<1>0. /\ \A k \in Kill : k \notin FailFast
      /\ "flood_wait" \notin Kill \cup FailFast
      /\ "session_unauthorized" \notin Kill \cup FailFast
  BY DEF Kill, FailFast
<1>1. CASE call.code \in Kill
  <2>1. account' = [status |-> "limited", enabled |-> FALSE] /\ msg' = Tried("failed_permanent", t)
    BY <1>0, <1>1 DEF Verdict
  <2> QED BY <1>0, <1>1, <2>1, TriedRow DEF RowsInv
<1>2. CASE call.code \in FailFast
  <2>1. account' = account /\ msg' = Tried("failed_permanent", t) /\ call.code \notin Kill
    BY <1>0, <1>2 DEF Verdict
  <2> QED BY <1>0, <1>2, <2>1, TriedRow DEF RowsInv
<1>3. CASE call.code \notin Kill \cup FailFast /\ msg.attempts + 1 >= MaxAttempts
  <2>1. /\ account' \in {account, [account EXCEPT !.status = "error"]}
        /\ call.code = "session_unauthorized" =>
             account' = [account EXCEPT !.status = "error"]
        /\ msg' = Tried("failed_permanent", t)
    BY <1>3 DEF Verdict
  <2> QED BY <1>3, <2>1, TriedRow DEF RowsInv
<1>4. CASE call.code \notin Kill \cup FailFast /\ ~(msg.attempts + 1 >= MaxAttempts)
  <2>1. /\ account' = IF call.code = "flood_wait"
                      THEN [account EXCEPT !.status = "limited"] ELSE account
        /\ msg' = Tried("retry", t)
    BY <1>4 DEF Verdict
  <2> QED BY <1>4, <2>1, TriedRow DEF RowsInv
<1> QED
  BY <1>1, <1>2, <1>3, <1>4

\* A step that is not the end of an attempt counts none.
LEMMA OtherSteps ==
    ASSUME RowsInv, [Next]_vars, ~AttemptEnds
    PROVE  RowsInv' /\ msg'.attempts = msg.attempts
<1>1. CASE UNCHANGED <<msg, account>>
  BY <1>1 DEF RowsInv
<1>2. CASE Enqueue \/ Unavailable
  BY <1>2 DEF Enqueue, Unavailable, RowsInv
<1>3. CASE Postpone
  BY <1>3 DEF Postpone, RowsInv
<1>4. CASE Enable
  BY <1>4 DEF Enable, RowsInv
<1>5. CASE Connect \/ Authorize \/ Resolve \/ Import \/ Forget \/ Act \/ Disconnect
  BY <1>1, <1>5 DEF Connect, Authorize, Resolve, Import, Forget, Act, Disconnect
<1>6. CASE StartTick \/ PassOver \/ Attempt \/ OtherCallEnds \/ Crash \/ Clock \/ UNCHANGED vars
  BY <1>1, <1>6 DEF StartTick, PassOver, Attempt, OtherCallEnds, Crash, Clock, vars
<1>7. ASSUME NEW kind, NEW what, OtherCall(kind, what) PROVE UNCHANGED <<msg, account>>
  BY <1>7 DEF OtherCall
<1> QED
  BY <1>1, <1>2, <1>3, <1>4, <1>5, <1>6, <1>7 DEF Next

LEMMA EndRow ==
    ASSUME RowsInv, AttemptEnds
    PROVE  /\ RowsInv'
           /\ call.kind = "campaign"
           /\ call.code # "ok" =>
                /\ call.code \in Kill => ~account'.enabled /\ msg'.status = "failed_permanent"
                /\ call.code \in FailFast => msg'.status = "failed_permanent"
                /\ call.code = "flood_wait" =>
                     account'.status = "limited" \/ msg.attempts + 1 >= MaxAttempts
                /\ msg'.status # "sent"
                /\ call.code = "session_unauthorized" /\ msg.attempts + 1 >= MaxAttempts =>
                     account'.status = "error"
<1>1. call.kind = "campaign"
  BY DEF AttemptEnds
<1>2. CASE call.code = "ok"
  <2>1. PICK t : msg' = Tried("sent", t) /\ account' = account
    BY <1>2 DEF AttemptEnds
  <2> QED BY <1>1, <1>2, <2>1, TriedRow DEF RowsInv
<1>3. CASE call.code # "ok"
  <2>1. PICK t : Verdict(t)
    BY <1>3 DEF AttemptEnds
  <2> QED BY <1>1, <2>1, VerdictRow
<1> QED
  BY <1>2, <1>3

(* What Telegram said in a step of an attempt reaches its consequence for  *)
(* the message and the account, through the code and whatever was dropped  *)
(* before, but for a flood wait while a phone is imported or on the last   *)
(* attempt; an error that is_user_authorized met keeps the message from    *)
(* being sent and shows in the account on the last attempt (adapter.py     *)
(* 342-374, 413-426, 459-494, send_tasks.py 266-320).                      *)
THEOREM ErrorsHaveTheirEffectHolds == Spec => ErrorsHaveTheirEffect
<1> DEFINE Effect ==
        LET last == msg.attempts + 1 >= MaxAttempts
            ended == msg'.attempts > msg.attempts
        IN  ended =>
            /\ \A s \in call.said \ Dropped(call) :
                 /\ s[2] \in Kill => ~account'.enabled /\ msg'.status = "failed_permanent"
                 /\ s[2] \in FailFast => msg'.status = "failed_permanent"
                 /\ s[2] = "FloodWaitError" =>
                      account'.status = "limited" \/ last \/ s[1] = "import"
            /\ \A s \in Dropped(call) : s[1] = "authorize" =>
                 msg'.status # "sent" /\ (last => account'.status = "error")
<1>1. Init => Inv /\ CodeInv
  <2> SUFFICES ASSUME Init PROVE CodeInv
    BY InitInv
  <2>1. Told(call)
    BY DEF Init, NoCall, Told, Dropped
  <2>2. RowsInv
    BY DEF Init, RowsInv
  <2> QED BY <2>1, <2>2, InitInv DEF CodeInv, Inv
<1>2. Inv /\ CodeInv /\ [Next]_vars => Inv' /\ CodeInv' /\ [Effect]_vars
  <2> SUFFICES ASSUME Inv, CodeInv, [Next]_vars PROVE Inv' /\ CodeInv' /\ Effect
    OBVIOUS
  <2>1. Inv' /\ Told(call)'
    BY InvStep, ToldStep DEF CodeInv
  <2>2. CASE ~AttemptEnds
    <3>1. RowsInv' /\ ~(msg'.attempts > msg.attempts)
      BY <2>2, OtherSteps DEF CodeInv, RowsInv
    <3> QED BY <2>1, <3>1 DEF CodeInv, Inv
  <2>3. CASE AttemptEnds
    <3>1. RowsInv'
      BY <2>3, EndRow DEF CodeInv
    <3>2. call.kind = "campaign" /\ Told(call)
      BY <2>3, EndRow DEF CodeInv
    <3>3. ASSUME NEW s \in call.said \ Dropped(call), s[2] \in BadNews
          PROVE  /\ s[2] \in Kill => ~account'.enabled /\ msg'.status = "failed_permanent"
                 /\ s[2] \in FailFast => msg'.status = "failed_permanent"
                 /\ s[2] = "FloodWaitError" =>
                      \/ account'.status = "limited" \/ msg.attempts + 1 >= MaxAttempts
                      \/ s[1] = "import"
      <4>1. \/ (call.code = s[2] /\ (s[2] = "FloodWaitError" => s[1] = "import"))
            \/ (s[2] = "FloodWaitError" /\ call.code = "flood_wait")
        BY <3>2, <3>3 DEF Told
      <4>2. call.code # "ok"
        BY <3>3, <4>1 DEF BadNews, Kill, FailFast
      <4>3. s[2] = "FloodWaitError" => s[2] \notin Kill \cup FailFast
        BY DEF Kill, FailFast
      <4> QED BY <2>3, <4>1, <4>2, <4>3, EndRow DEF CodeInv
    <3>4. ASSUME NEW s \in Dropped(call), s[1] = "authorize"
          PROVE  /\ msg'.status # "sent"
                 /\ msg.attempts + 1 >= MaxAttempts => account'.status = "error"
      BY <2>3, <3>2, <3>4, EndRow DEF CodeInv, Told
    <3>5. Effect
      BY <3>3, <3>4 DEF BadNews
    <3> QED BY <2>1, <3>1, <3>5 DEF CodeInv, Inv
  <2> QED BY <2>2, <2>3
<1> QED
  BY <1>1, <1>2, PTL DEF Spec, ErrorsHaveTheirEffect

-----------------------------------------------------------------------------
(* The wait before an attempt                                              *)

\* The wait that the attempts so far ask for.
Wait(n) == Min({view.failure * 2 ^ (n - 1), Cap})

\* A message that is to be tried again is not due before its wait is over, a
\* tick has it in its batch only when it is due, and neither a tick nor its call
\* began in the future.
SpacedInv ==
    /\ view \in Views /\ now \in Int
    /\ {msg.due, msg.tried} \subseteq Int /\ msg.attempts \in Nat
    /\ msg.status = "draft" => msg.attempts = 0
    /\ call.kind = "campaign" => call.at \in Int /\ call.at <= now /\ tick = None
    /\ tick # None => /\ tick \in Int /\ tick <= now
                      /\ msg.status \in {"queued", "retry"} /\ msg.due <= tick
    /\ msg.status \in {"queued", "retry"} /\ msg.attempts > 0 =>
         msg.due >= msg.tried + Wait(msg.attempts)

LEMMA MinOfTwo ==
    ASSUME NEW a \in Int, NEW b \in Int
    PROVE  Min({a, b}) \in Int
<1>1. \E x \in {a, b} : \A y \in {a, b} : x <= y
  OBVIOUS
<1> QED
  BY <1>1 DEF Min

LEMMA MaxOfTwo ==
    ASSUME NEW a \in Int, NEW b \in Int
    PROVE  /\ Max({a, b}) \in Int
           /\ Max({a, b}) >= a
           /\ b >= a => Max({a, b}) = b
<1>1. \E x \in {a, b} : \A y \in {a, b} : x >= y
  OBVIOUS
<1> QED
  BY <1>1 DEF Max

LEMMA ViewFields ==
    ASSUME view \in Views
    PROVE  /\ {view.success, view.failure, view.lo, view.hi} \subseteq Int
           /\ view.success >= 1 /\ view.failure >= 1
<1>1. view \in View
  BY AttemptAssumption
<1> QED
  BY <1>1, AttemptAssumption DEF View

\* The jitter never brings a message forward.
LEMMA JitterAdds ==
    ASSUME view \in Views, NEW s \in Int, NEW d \in Jittered(s, view)
    PROVE  d \in Int /\ d >= s
<1> DEFINE lo == Max({0, view.lo})
           hi == Max({lo, view.hi})
<1>1. lo \in Int /\ lo >= 0
  BY ViewFields, MaxOfTwo
<1>2. hi \in Int
  BY <1>1, ViewFields, MaxOfTwo
<1>3. PICK r \in lo..hi : d = s + r
  BY DEF Jittered
<1> QED
  BY <1>1, <1>2, <1>3

\* After n attempts the failure backs off by the wait they ask for.
LEMMA BackoffIsWait ==
    ASSUME view \in Views, NEW n \in Nat, n >= 1
    PROVE  Backoff(view, n) = Wait(n) /\ Wait(n) \in Int
<1>1. view.failure \in Int /\ view.failure >= 1
  BY ViewFields
<1>2. Max({1, view.failure}) = view.failure /\ Max({1, n}) = n
  <2>1. 1 \in Int /\ n \in Int
    OBVIOUS
  <2>2. Max({1, view.failure}) = view.failure
    BY <1>1, <2>1, MaxOfTwo, Zenon
  <2>3. Max({1, n}) = n
    BY <2>1, MaxOfTwo, Zenon
  <2> QED BY <2>2, <2>3
<1>3. view.failure * 2 ^ (n - 1) \in Int
  <2>1. 2 ^ (n - 1) \in Int
    OBVIOUS
  <2> QED BY <1>1, <2>1
<1>4. Wait(n) \in Int
  <2>1. Cap \in Int
    BY SchedulingAssumption
  <2> QED BY <1>3, <2>1, MinOfTwo, Zenon DEF Wait
<1>5. Backoff(view, n) = Wait(n)
  BY <1>2, Zenon DEF Backoff, Wait
<1> QED
  BY <1>4, <1>5

LEMMA RetryIsSpaced ==
    ASSUME SpacedInv, call.kind = "campaign",
           NEW t \in BackoffAfterSendFailure(call.at, view, msg.attempts + 1)
    PROVE  t \in Int /\ t >= call.at + Wait(msg.attempts + 1)
<1>1. PICK d \in Jittered(Backoff(view, msg.attempts + 1), view) : t = call.at + d
  BY DEF BackoffAfterSendFailure
<1>2. msg.attempts + 1 \in Nat /\ msg.attempts + 1 >= 1 /\ view \in Views /\ call.at \in Int
  BY DEF SpacedInv
<1>3. /\ Backoff(view, msg.attempts + 1) = Wait(msg.attempts + 1)
      /\ Wait(msg.attempts + 1) \in Int
  BY <1>2, BackoffIsWait
<1>4. d \in Int /\ d >= Wait(msg.attempts + 1)
  BY <1>1, <1>2, <1>3, JitterAdds
<1> QED
  BY <1>1, <1>2, <1>3, <1>4

LEMMA OpensAs ==
    ASSUME NEW c, CallAt({"idle"}, c), Opens(c)
    PROVE  call'.kind = c.kind /\ call'.at = c.at
<1>1. CASE call' = [c EXCEPT !.pc = "connect"]
  BY <1>1 DEF CallAt
<1>2. CASE call' = Returns(c, "telegram_not_configured") \/ call' = Returns(c, "session_missing")
  BY <1>2 DEF CallAt, Returns
<1>3. CASE call' = Returns([c EXCEPT !.said = {<<"open", "ValueError">>}], "ValueError")
  BY <1>3 DEF CallAt, Returns
<1> QED
  BY <1>1, <1>2, <1>3 DEF Opens

\* A call keeps its caller and the time it was made at.
LEMMA SameCaller ==
    ASSUME IsCall, Connect \/ Authorize \/ Resolve \/ Import \/ Forget \/ Act \/ Disconnect
    PROVE  call'.kind = call.kind /\ call'.at = call.at
<1>1. Finishes \/ \E pc : Moves(pc)
  BY StepsOfCall
<1>2. CASE \E code : call' = Ends(call, code)
  BY <1>2 DEF IsCall, CallAt, Ends
<1>3. CASE \E pc : call' = [call EXCEPT !.pc = pc]
  BY <1>3 DEF IsCall, CallAt
<1>4. ASSUME NEW e, NEW code, call' = Ends(Hears(call, e), code)
      PROVE  call'.kind = call.kind /\ call'.at = call.at
  BY <1>4, Heard DEF CallAt, Ends
<1>5. ASSUME NEW e, NEW pc, call' = [Hears(call, e) EXCEPT !.pc = pc]
      PROVE  call'.kind = call.kind /\ call'.at = call.at
  BY <1>5, Heard DEF CallAt
<1> QED
  BY <1>1, <1>2, <1>3, <1>4, <1>5 DEF Finishes, Moves

\* A step that leaves the message alone.
LEMMA SpacedStays ==
    ASSUME SpacedInv, UNCHANGED <<msg, view>>, now' \in Int, now' >= now,
           \/ UNCHANGED <<call.kind, call.at, tick>>
           \/ call'.kind # "campaign" /\ tick' \in {tick, None}
           \/ call'.kind # "campaign" /\ tick' = now /\ msg.due <= now
              /\ msg.status \in {"queued", "retry"}
           \/ tick # None /\ call'.at = tick /\ tick' = None
    PROVE  SpacedInv'
<1>1. Wait(msg.attempts)' = Wait(msg.attempts)
  BY DEF Wait
<1>2. call'.kind = "campaign" => call'.at \in Int /\ call'.at <= now' /\ tick' = None
  BY DEF SpacedInv
<1>3. tick' # None => /\ tick' \in Int /\ tick' <= now'
                      /\ msg.status \in {"queued", "retry"} /\ msg.due <= tick'
  BY DEF SpacedInv
<1> QED
  BY <1>1, <1>2, <1>3 DEF SpacedInv

\* The end of an attempt: the wait for the next one has begun.
LEMMA SpacedAtEnd ==
    ASSUME IsCall, RowsInv, SpacedInv, AttemptEnds
    PROVE  SpacedInv'
<1>1. /\ call.kind = "campaign" /\ call' = NoCall
      /\ UNCHANGED <<view, now>> /\ tick' = None
  BY DEF AttemptEnds, SpacedInv
<1>2. call'.kind # "campaign"
  BY <1>1 DEF NoCall
<1>3. call.at \in Int /\ view \in Views /\ now \in Int /\ msg.attempts \in Nat
  BY <1>1 DEF SpacedInv
<1>4. ASSUME NEW status, status \in {"sent", "failed_permanent", "retry"},
             NEW t \in Int, msg' = Tried(status, t),
             status = "retry" => t >= call.at + Wait(msg.attempts + 1)
      PROVE  SpacedInv'
  <2>1. /\ msg'.status = status /\ msg'.due = t /\ msg'.tried = call.at
        /\ msg'.attempts = msg.attempts + 1
    BY <1>4, TriedRow
  <2>2. Wait(msg.attempts)' = Wait(msg.attempts + 1)
    BY <1>1, <2>1 DEF Wait
  <2> QED BY <1>1, <1>2, <1>3, <1>4, <2>1, <2>2 DEF SpacedInv
<1>5. CASE call.code = "ok"
  <2>1. PICK t \in NextRunAfterSuccess(call.at, view) : msg' = Tried("sent", t)
    BY <1>5 DEF AttemptEnds
  <2>2. PICK d \in Jittered(view.success, view) : t = call.at + d
    BY <2>1 DEF NextRunAfterSuccess
  <2>3. d \in Int
    BY <1>3, ViewFields, JitterAdds
  <2> QED BY <1>3, <1>4, <2>1, <2>2, <2>3
<1>6. CASE call.code # "ok"
  <2>1. PICK t \in BackoffAfterSendFailure(call.at, view, msg.attempts + 1) : Verdict(t)
    BY <1>6 DEF AttemptEnds
  <2>2. t \in Int /\ t >= call.at + Wait(msg.attempts + 1)
    BY <1>1, RetryIsSpaced
  <2>3. msg' = Tried("failed_permanent", t) \/ msg' = Tried("retry", t)
    BY <2>1, Zenon DEF Verdict
  <2> QED BY <1>4, <2>2, <2>3
<1> QED
  BY <1>5, <1>6

LEMMA SpacedStep ==
    ASSUME IsCall, RowsInv, SpacedInv, [Next]_vars
    PROVE  SpacedInv'
<1>0. now \in Int /\ view \in Views
  BY DEF SpacedInv
<1>1. CASE Enqueue
  <2>1. /\ UNCHANGED <<view, now, call>> /\ msg.status = "draft" /\ tick' = None
        /\ msg' = [msg EXCEPT !.status = "queued"]
    BY <1>1 DEF Enqueue, SpacedInv
  <2>2. /\ msg'.attempts = 0 /\ msg.attempts = 0
        /\ msg'.due = msg.due /\ msg'.tried = msg.tried
    BY <2>1 DEF SpacedInv, RowsInv
  <2> QED BY <2>1, <2>2 DEF SpacedInv
<1>2. CASE Unavailable
  <2>1. UNCHANGED <<view, now, call>> /\ msg' = [msg EXCEPT !.status = "failed"] /\ tick' = None
    BY <1>2 DEF Unavailable, TakesTurn
  <2>2. /\ msg'.status = "failed"
        /\ UNCHANGED <<msg.attempts, msg.due, msg.tried>>
    BY <2>1 DEF RowsInv
  <2> QED BY <2>1, <2>2 DEF SpacedInv
<1>3. CASE Postpone
  <2>1. /\ UNCHANGED <<view, now, call>>
        /\ tick # None /\ tick' = None /\ tick \in Int
        /\ msg.status \in {"queued", "retry"} /\ msg.due <= tick
    BY <1>3 DEF Postpone, TakesTurn, SpacedInv
  <2>2. PICK t \in NextRunAfterFailure(tick, view) : msg' = [msg EXCEPT !.due = t]
    BY <1>3 DEF Postpone
  <2>3. PICK d \in Jittered(view.failure, view) : t = tick + d
    BY <2>2 DEF NextRunAfterFailure
  <2>4. t \in Int /\ t >= tick
    BY <1>0, <2>1, <2>3, ViewFields, JitterAdds
  <2>5. msg'.due = t /\ UNCHANGED <<msg.status, msg.attempts, msg.tried>>
    BY <2>2 DEF RowsInv
  <2>6. Wait(msg.attempts)' = Wait(msg.attempts)
    BY <2>1, <2>5 DEF Wait
  <2>7. msg.attempts > 0 => Wait(msg.attempts) \in Int
    BY <1>0, BackoffIsWait DEF SpacedInv
  <2> QED BY <2>1, <2>4, <2>5, <2>6, <2>7 DEF SpacedInv
<1>4. CASE Attempt
  <2> DEFINE c == [NoCall EXCEPT !.kind = "campaign", !.what = msg.to, !.at = tick]
  <2>1. Opens(c) /\ CallAt({"idle"}, c) /\ c.at = tick
    BY <1>4, NoCallIdle DEF Attempt, NoCall
  <2>2. call'.at = tick
    BY <2>1, OpensAs
  <2> QED BY <1>0, <1>4, <2>2, SpacedStays DEF Attempt, TakesTurn
<1>5. CASE AttemptEnds
  BY <1>5, SpacedAtEnd
<1>6. CASE Connect \/ Authorize \/ Resolve \/ Import \/ Forget \/ Act \/ Disconnect
  <2>1. UNCHANGED <<msg, view, now, tick>>
    BY <1>6 DEF Connect, Authorize, Resolve, Import, Forget, Act, Disconnect
  <2> QED BY <1>0, <1>6, <2>1, SameCaller, SpacedStays
<1>7. ASSUME NEW kind \in {"chat", "operation"}, NEW what, OtherCall(kind, what) PROVE SpacedInv'
  <2> DEFINE c == [NoCall EXCEPT !.kind = kind, !.what = what]
  <2>1. Opens(c) /\ CallAt({"idle"}, c) /\ c.kind = kind
    BY <1>7, NoCallIdle DEF OtherCall, NoCall
  <2>2. call'.kind # "campaign"
    BY <2>1, OpensAs
  <2> QED BY <1>0, <1>7, <2>2, SpacedStays DEF OtherCall
<1>8. CASE OtherCallEnds \/ Crash
  <2>1. call'.kind # "campaign" /\ UNCHANGED <<msg, view, now, tick>>
    BY <1>8 DEF OtherCallEnds, Crash, NoCall
  <2> QED BY <1>0, <2>1, SpacedStays
<1>9. CASE Enable \/ UNCHANGED vars
  <2>1. UNCHANGED <<msg, view, now, call, tick>>
    BY <1>9 DEF Enable, vars
  <2> QED BY <1>0, <2>1, SpacedStays
<1>10. CASE Clock
  <2>1. UNCHANGED <<msg, view, call, tick>> /\ now' = now + 1
    BY <1>10 DEF Clock
  <2> QED BY <1>0, <2>1, SpacedStays
<1>11. CASE StartTick
  <2>1. /\ UNCHANGED <<msg, view, call, now>> /\ tick' = now /\ call.kind # "campaign"
        /\ msg.status \in {"queued", "retry"} /\ msg.due <= now
    BY <1>11 DEF StartTick
  <2> QED BY <1>0, <2>1, SpacedStays
<1>12. CASE PassOver
  <2>1. UNCHANGED <<msg, view, call, now>> /\ tick # None /\ tick' = None
    BY <1>12 DEF PassOver, TakesTurn
  <2>2. call'.kind # "campaign"
    BY <2>1 DEF SpacedInv
  <2> QED BY <1>0, <2>1, <2>2, SpacedStays
<1> QED
  BY <1>1, <1>2, <1>3, <1>4, <1>5, <1>6, <1>7, <1>8, <1>9, <1>10, <1>11, <1>12 DEF Next

LEMMA RemainderOf ==
    ASSUME NEW a \in 0..(DayLength - 1)
    PROVE  /\ a % DayLength = a
           /\ (a + DayLength) % DayLength = a
           /\ (a - DayLength) % DayLength = a
BY SchedulingAssumption

\* What is outside of the quiet hours is outside of the window a clock shows.
LEMMA QuietIsWindow ==
    ASSUME NEW v \in View, NEW t \in Int, ~InQuietHours(t, v),
           {v.quietStart, v.quietEnd} \subseteq 0..(DayLength - 1)
    PROVE  t % DayLength \notin QuietWindow(v.quietStart, v.quietEnd)
<1> DEFINE s == v.quietStart
           e == v.quietEnd
           D == DayLength
           cur == t % DayLength
<1>1. /\ s \in 0..(D - 1) /\ e \in 0..(D - 1) /\ D \in Nat \ {0}
      /\ s # Never /\ e # Never
  BY SchedulingAssumption
<1>2. ParseHhmm(s) = s /\ ParseHhmm(e) = e
  BY <1>1 DEF ParseHhmm
<1>3. IF s <= e THEN ~(s <= cur /\ cur < e) ELSE ~(cur >= s \/ cur < e)
  BY <1>1, <1>2 DEF InQuietHours
<1>4. ASSUME NEW k \in 0..(((e - s) % D) - 1) PROVE cur # (s + k) % D
  <2>1. CASE s <= e
    <3>1. e - s \in 0..(D - 1)
      BY <1>1, <2>1
    <3>2. (e - s) % D = e - s
      BY <3>1, RemainderOf
    <3>3. s + k \in 0..(D - 1) /\ s <= s + k /\ s + k < e
      BY <1>1, <1>4, <3>2
    <3>4. (s + k) % D = s + k
      BY <3>3, RemainderOf
    <3> QED BY <1>3, <2>1, <3>3, <3>4
  <2>2. CASE s > e
    <3>1. e - s + D \in 0..(D - 1)
      BY <1>1, <2>2
    <3>2. \A a \in 0..(D - 1) : \A b : a - D = b => b % D = a
      BY RemainderOf
    <3>3. (e - s) % D = e - s + D
      <4>1. (e - s + D) - D = e - s
        BY <1>1
      <4> QED BY <3>1, <3>2, <4>1, Zenon
    <3>4. k \in Int /\ 0 <= k /\ s + k < e + D
      BY <1>1, <1>4, <3>3
    <3>5. CASE s + k < D
      <4>1. s + k \in 0..(D - 1)
        BY <1>1, <3>4, <3>5
      <4>2. (s + k) % D = s + k
        BY <4>1, RemainderOf
      <4> QED BY <1>1, <1>3, <2>2, <3>4, <4>2
    <3>6. CASE s + k >= D
      <4>1. s + k - D \in 0..(D - 1)
        BY <1>1, <3>4, <3>6
      <4>2. (s + k - D + D) % D = s + k - D
        BY <4>1, RemainderOf
      <4>3. (s + k) % D = s + k - D
        BY <1>1, <3>4, <4>2
      <4> QED BY <1>1, <1>3, <2>2, <3>4, <4>3
    <3> QED BY <1>1, <3>4, <3>5, <3>6
  <2> QED BY <1>1, <2>1, <2>2
<1> QED
  BY <1>4 DEF QuietWindow

(* An attempt is made by a tick that began outside of the quiet hours, and *)
(* after the wait that the attempts before it ask for, counted between the *)
(* beginnings of the two ticks (scheduling.py 48-57, 80-99, send_tasks.py  *)
(* 111, 171-174, 266-276).                                                 *)
THEOREM AttemptsSpacedHolds == Spec => AttemptsSpaced
<1> DEFINE Spaced ==
        call.kind = "none" /\ call'.kind = "campaign" =>
          /\ {view.quietStart, view.quietEnd} \subseteq 0..(DayLength - 1) =>
                tick % DayLength \notin QuietWindow(view.quietStart, view.quietEnd)
          /\ msg.attempts > 0 =>
                tick - msg.tried >= Min({view.failure * 2 ^ (msg.attempts - 1), Cap})
<1>1. Init => Inv /\ CodeInv /\ SpacedInv
  <2> SUFFICES ASSUME Init PROVE CodeInv /\ SpacedInv
    BY InitInv
  <2>1. Told(call) /\ call.kind = "none"
    BY DEF Init, NoCall, Told, Dropped
  <2>2. RowsInv
    BY DEF Init, RowsInv
  <2>3. SpacedInv
    BY <2>1 DEF Init, SpacedInv
  <2> QED BY <2>1, <2>2, <2>3, InitInv DEF CodeInv, Inv
<1>2. Inv /\ CodeInv /\ SpacedInv /\ [Next]_vars =>
          Inv' /\ CodeInv' /\ SpacedInv' /\ [Spaced]_vars
  <2> SUFFICES ASSUME Inv, CodeInv, SpacedInv, [Next]_vars
               PROVE  Inv' /\ CodeInv' /\ SpacedInv' /\ Spaced
    OBVIOUS
  <2>1. IsCall /\ RowsInv /\ Inv' /\ IsCall' /\ Told(call)'
    BY InvStep, ToldStep DEF CodeInv, Inv
  <2>2. RowsInv'
    BY <2>1, OtherSteps, EndRow
  <2>3. SpacedInv'
    BY <2>1, SpacedStep
  <2>4. Spaced
    <3> SUFFICES ASSUME call.kind = "none", call'.kind = "campaign" PROVE Spaced
      OBVIOUS
    <3>1. Attempt
      <4>1. CASE Connect \/ Authorize \/ Resolve \/ Import \/ Forget \/ Act \/ Disconnect
        BY <2>1, <4>1, SameCaller
      <4>2. ASSUME NEW kind \in {"chat", "operation"}, NEW what, OtherCall(kind, what)
            PROVE  FALSE
        <5> DEFINE c == [NoCall EXCEPT !.kind = kind, !.what = what]
        <5>1. Opens(c) /\ CallAt({"idle"}, c) /\ c.kind = kind
          BY <4>2, NoCallIdle DEF OtherCall, NoCall
        <5> QED BY <5>1, OpensAs
      <4>3. CASE AttemptEnds
        BY <4>3 DEF AttemptEnds
      <4>4. CASE OtherCallEnds \/ Crash
        BY <4>4 DEF OtherCallEnds, Crash, NoCall
      <4>5. CASE StartTick \/ PassOver \/ Enqueue \/ Unavailable \/ Postpone \/ Enable \/ Clock
          \/ UNCHANGED vars
        BY <4>5 DEF StartTick, PassOver, Enqueue, Unavailable, Postpone, Enable, Clock, vars
      <4> QED BY <4>1, <4>2, <4>3, <4>4, <4>5 DEF Next
    <3>2. /\ msg.status \in {"queued", "retry"} /\ msg.due <= tick /\ tick \in Int
          /\ ~InQuietHours(tick, view)
      BY <3>1 DEF Attempt, TakesTurn, SpacedInv
    <3>3. view \in View /\ msg.attempts \in Nat
      BY AttemptAssumption DEF SpacedInv
    <3>4. {view.quietStart, view.quietEnd} \subseteq 0..(DayLength - 1) =>
            tick % DayLength \notin QuietWindow(view.quietStart, view.quietEnd)
      BY <3>2, <3>3, QuietIsWindow
    <3>5. msg.attempts > 0 => tick - msg.tried >= Wait(msg.attempts)
      <4>1. msg.attempts > 0 => Wait(msg.attempts) \in Int
        BY <3>3, BackoffIsWait DEF SpacedInv
      <4> QED BY <3>2, <4>1 DEF SpacedInv
    <3> QED BY <3>4, <3>5, Zenon DEF Wait
  <2> QED BY <2>1, <2>2, <2>3, <2>4 DEF CodeInv
<1> QED
  BY <1>1, <1>2, PTL DEF Spec, AttemptsSpaced

-----------------------------------------------------------------------------
(* Induction by a least counterexample                                     *)

LEMMA LeastNat ==
    ASSUME NEW S \in SUBSET Nat, S # {}
    PROVE  \E x \in S : \A y \in S : x <= y
<1>1. PICK x \in S : \A y \in S : <<y, x>> \notin OpToRel(<, Nat)
  BY WFMin, NatLessThanWellFounded, Zenon
<1>2. \A y \in S : ~(y < x)
  BY <1>1, Zenon DEF OpToRel
<1>3. \A y \in S : x <= y
  BY <1>2
<1> QED
  BY <1>3

LEMMA UpTo ==
    ASSUME NEW N \in Nat, NEW S \in SUBSET Nat, 0 \in S, \A n \in 1..N : n - 1 \in S => n \in S
    PROVE  0..N \subseteq S
<1> SUFFICES ASSUME (0..N) \ S # {} PROVE FALSE
  OBVIOUS
<1>1. PICK x \in (0..N) \ S : \A y \in (0..N) \ S : x <= y
  <2>1. (0..N) \ S \in SUBSET Nat
    OBVIOUS
  <2> QED BY <2>1, LeastNat
<1>2. x \in 1..N /\ x - 1 \in 0..N /\ x - 1 \notin (0..N) \ S
  BY <1>1
<1> QED
  BY <1>1, <1>2

-----------------------------------------------------------------------------
(* Loops over a sequence                                                   *)

\* The sequences joined so far, one after the other.
Joins(ss, f) ==
    /\ DOMAIN f = 0..Len(ss) /\ f[0] = <<>>
    /\ \A n \in 1..Len(ss) : f[n] = f[n - 1] \o ss[n]

JoinedFirst(ss, n, f) ==
    f = [i \in 1..n |-> IF i = 1 THEN ss[i] ELSE f[i - 1] \o ss[i]]

LEMMA JoinedAt ==
    ASSUME NEW ss, NEW n \in Nat, NEW f, JoinedFirst(ss, n, f), NEW i \in 1..n
    PROVE  f[i] = IF i = 1 THEN ss[i] ELSE f[i - 1] \o ss[i]
<1> DEFINE g == [k \in 1..n |-> IF k = 1 THEN ss[k] ELSE f[k - 1] \o ss[k]]
<1>1. g[i] = IF i = 1 THEN ss[i] ELSE f[i - 1] \o ss[i]
  OBVIOUS
<1>2. f = g
  BY DEF JoinedFirst
<1> HIDE DEF g
<1> QED
  BY <1>1, <1>2

LEMMA JoinedExists ==
    ASSUME NEW ss, NEW N \in Nat
    PROVE  \E f : JoinedFirst(ss, N, f)
<1> DEFINE S == {n \in Nat : \E f : JoinedFirst(ss, n, f)}
<1>1. 0 \in S
  <2> DEFINE f == [i \in 1..0 |-> IF i = 1 THEN ss[i] ELSE <<>>[i - 1] \o ss[i]]
  <2>1. JoinedFirst(ss, 0, f)
    BY DEF JoinedFirst
  <2> HIDE DEF f
  <2> QED BY <2>1
<1>2. ASSUME NEW n \in 1..N, n - 1 \in S PROVE n \in S
  <2>1. PICK f : JoinedFirst(ss, n - 1, f)
    BY <1>2
  <2> DEFINE g == [i \in 1..n |-> IF i = 1 THEN ss[i] ELSE f[i - 1] \o ss[i]]
  <2>2. ASSUME NEW i \in 1..(n - 1) PROVE g[i] = f[i]
    <3>1. i \in 1..n /\ f[i] = IF i = 1 THEN ss[i] ELSE f[i - 1] \o ss[i]
      BY <2>1, JoinedAt
    <3> QED BY <3>1
  <2>3. \A i \in 1..n : i # 1 => i - 1 \in 1..(n - 1)
    OBVIOUS
  <2>4. g = [i \in 1..n |-> IF i = 1 THEN ss[i] ELSE g[i - 1] \o ss[i]]
    <3>1. \A i \in 1..n : (IF i = 1 THEN ss[i] ELSE f[i - 1] \o ss[i])
                                  = IF i = 1 THEN ss[i] ELSE g[i - 1] \o ss[i]
      BY <2>2, <2>3
    <3> QED BY <3>1
  <2> HIDE DEF g
  <2>5. JoinedFirst(ss, n, g)
    BY <2>4 DEF JoinedFirst
  <2> QED BY <2>5
<1> HIDE DEF S
<1>3. 0..N \subseteq S
  <2>1. S \in SUBSET Nat
    BY DEF S
  <2> QED BY <1>1, <1>2, <2>1, UpTo
<1> QED
  BY <1>3 DEF S

LEMMA FlattenJoins ==
    ASSUME NEW E, NEW ss \in Seq(Seq(E))
    PROVE  \E f : Joins(ss, f) /\ FlattenSeq(ss) = f[Len(ss)]
<1>1. Len(ss) \in Nat
  OBVIOUS
<1>2. CASE Len(ss) = 0
  <2>1. FlattenSeq(ss) = <<>> /\ ss = <<>>
    BY <1>2 DEF FlattenSeq
  <2> DEFINE f == [n \in 0..0 |-> <<>>]
  <2>2. DOMAIN f = 0..0 /\ f[0] = <<>>
    OBVIOUS
  <2> HIDE DEF f
  <2>3. Joins(ss, f)
    BY <1>2, <2>2 DEF Joins
  <2> QED BY <1>2, <2>1, <2>2, <2>3
<1>3. CASE Len(ss) # 0
  <2>1. PICK g : JoinedFirst(ss, Len(ss), g) /\ FlattenSeq(ss) = g[Len(ss)]
    BY <1>1, <1>3, JoinedExists DEF FlattenSeq, JoinedFirst
  <2> DEFINE f == [n \in 0..Len(ss) |-> IF n = 0 THEN <<>> ELSE g[n]]
  <2>2. DOMAIN f = 0..Len(ss) /\ f[0] = <<>> /\ \A n \in 1..Len(ss) : f[n] = g[n]
    BY <1>1
  <2> HIDE DEF f
  <2>3. ASSUME NEW n \in 1..Len(ss) PROVE f[n] = f[n - 1] \o ss[n]
    <3>1. CASE n = 1
      <4>1. ss[1] \in Seq(E)
        BY <1>1, <1>3
      <4>2. <<>> \o ss[1] = ss[1]
        BY <4>1, ConcatEmptySeq
      <4>3. g[1] = ss[1]
        BY <1>1, <2>1, <3>1, JoinedAt
      <4>4. n - 1 = 0 /\ n \in 1..Len(ss)
        BY <3>1
      <4>5. f[n] = ss[1] /\ f[n - 1] = <<>>
        BY <2>2, <3>1, <4>3, <4>4
      <4> QED BY <3>1, <4>2, <4>5, Zenon
    <3>2. CASE n # 1
      <4>0. n - 1 \in 1..Len(ss)
        BY <1>1, <3>2
      <4>1. n - 1 \in 1..Len(ss) /\ g[n] = g[n - 1] \o ss[n]
        <5>1. g[n] = IF n = 1 THEN ss[n] ELSE g[n - 1] \o ss[n]
          BY <1>1, <2>1, JoinedAt
        <5> QED BY <3>2, <4>0, <5>1
      <4>2. f[n] = g[n] /\ f[n - 1] = g[n - 1]
        BY <2>2, <4>1
      <4> QED BY <4>1, <4>2
    <3> QED BY <3>1, <3>2
  <2>4. Joins(ss, f)
    BY <2>2, <2>3 DEF Joins
  <2> QED BY <1>1, <1>3, <2>1, <2>2, <2>4
<1> QED
  BY <1>2, <1>3

LEMMA JoinsType ==
    ASSUME NEW E, NEW ss \in Seq(Seq(E)), NEW f, Joins(ss, f)
    PROVE  \A n \in 0..Len(ss) : f[n] \in Seq(E)
<1> DEFINE S == {n \in Nat : n \in 0..Len(ss) => f[n] \in Seq(E)}
<1>0. Len(ss) \in Nat
  BY LenProperties
<1>1. Len(ss) \in Nat /\ 0 \in S
  <2>1. f[0] = <<>> /\ <<>> \in Seq(E)
    BY DEF Joins
  <2> QED BY <1>0, <2>1
<1>2. ASSUME NEW n \in 1..Len(ss), n - 1 \in S PROVE n \in S
  <2>1. f[n] = f[n - 1] \o ss[n] /\ n - 1 \in 0..Len(ss) /\ n \in Nat
    BY <1>0 DEF Joins
  <2>2. f[n - 1] \in Seq(E) /\ ss[n] \in Seq(E)
    BY <1>2, <2>1
  <2>3. f[n] \in Seq(E)
    BY <2>1, <2>2, ConcatProperties
  <2> QED BY <2>1, <2>3
<1> HIDE DEF S
<1>3. S \in SUBSET Nat
  BY DEF S
<1>4. 0..Len(ss) \subseteq S
  BY <1>1, <1>2, <1>3, UpTo
<1> QED
  BY <1>4 DEF S

LEMMA FlattenType ==
    ASSUME NEW E, NEW ss \in Seq(Seq(E)) PROVE FlattenSeq(ss) \in Seq(E)
<1>1. PICK f : Joins(ss, f) /\ FlattenSeq(ss) = f[Len(ss)]
  BY FlattenJoins
<1>2. Len(ss) \in 0..Len(ss)
  OBVIOUS
<1> QED
  BY <1>1, <1>2, JoinsType

\* Joining in two parts.
LEMMA FlattenConcat ==
    ASSUME NEW E, NEW s \in Seq(Seq(E)), NEW t \in Seq(Seq(E))
    PROVE  FlattenSeq(s \o t) = FlattenSeq(s) \o FlattenSeq(t)
<1> DEFINE st == s \o t
           m == Len(s)
           n == Len(t)
<1>1. /\ st \in Seq(Seq(E)) /\ Len(st) = m + n /\ m \in Nat /\ n \in Nat
      /\ \A i \in 1..m : st[i] = s[i]
      /\ \A i \in 1..n : st[m + i] = t[i]
  <2>1. /\ st \in Seq(Seq(E)) /\ Len(st) = m + n /\ m \in Nat /\ n \in Nat
        /\ \A i \in 1..(m + n) : st[i] = IF i <= m THEN s[i] ELSE t[i - m]
    BY ConcatProperties
  <2> HIDE DEF st, m, n
  <2> QED BY <2>1
<1> HIDE DEF st
<1>2. PICK f : Joins(s, f) /\ FlattenSeq(s) = f[m]
  BY FlattenJoins
<1>3. PICK g : Joins(t, g) /\ FlattenSeq(t) = g[n]
  BY FlattenJoins
<1>4. PICK h : Joins(st, h) /\ FlattenSeq(st) = h[m + n]
  BY <1>1, FlattenJoins
<1>5. /\ \A i \in 0..m : f[i] \in Seq(E)
      /\ \A i \in 0..n : g[i] \in Seq(E)
      /\ \A i \in 1..n : t[i] \in Seq(E)
  BY <1>2, <1>3, JoinsType
<1>6. ASSUME NEW i \in 1..m PROVE f[i] = f[i - 1] \o s[i] /\ h[i] = h[i - 1] \o s[i]
  <2>1. f[i] = f[i - 1] \o s[i]
    BY <1>2 DEF Joins
  <2>2. i \in 1..Len(st)
    BY <1>1
  <2>3. h[i] = h[i - 1] \o st[i]
    BY <1>4, <2>2 DEF Joins
  <2> QED BY <1>1, <2>1, <2>3
<1>7. ASSUME NEW i \in 1..n
      PROVE  g[i] = g[i - 1] \o t[i] /\ h[m + i] = h[m + i - 1] \o t[i]
  <2>0. \A k \in 1..Len(st) : h[k] = h[k - 1] \o st[k]
    BY <1>4 DEF Joins
  <2>1. g[i] = g[i - 1] \o t[i]
    BY <1>3 DEF Joins
  <2>2. m + i \in 1..Len(st)
    BY <1>1
  <2>3. h[m + i] = h[(m + i) - 1] \o st[m + i]
    BY <2>0, <2>2, Zenon
  <2>4. (m + i) - 1 = m + (i - 1)
    BY <1>1
  <2> QED BY <1>1, <2>1, <2>3, <2>4
<1>8. f[0] = <<>> /\ g[0] = <<>> /\ h[0] = <<>>
  BY <1>2, <1>3, <1>4 DEF Joins
<1> HIDE DEF m, n
<1>9. h[m] = f[m]
  <2> DEFINE S == {i \in Nat : i \in 0..m => h[i] = f[i]}
  <2>1. S \in SUBSET Nat /\ 0 \in S
    BY <1>8
  <2>2. ASSUME NEW i \in 1..m, i - 1 \in S PROVE i \in S
    <3>1. i - 1 \in 0..m /\ i \in Nat
      BY <1>1
    <3>2. h[i - 1] = f[i - 1]
      BY <2>2, <3>1
    <3>3. h[i] = f[i]
      BY <1>6, <3>2
    <3> QED BY <3>1, <3>3
  <2> HIDE DEF S
  <2>3. 0..m \subseteq S
    BY <1>1, <2>1, <2>2, UpTo
  <2> QED BY <1>1, <2>3 DEF S
<1>10. h[m + n] = f[m] \o g[n]
  <2> DEFINE S == {i \in Nat : i \in 0..n => h[m + i] = f[m] \o g[i]}
  <2>1. S \in SUBSET Nat /\ 0 \in S
    <3>1. f[m] \in Seq(E)
      BY <1>1, <1>5
    <3>2. f[m] \o <<>> = f[m]
      BY <3>1, ConcatEmptySeq
    <3>3. m + 0 = m
      BY <1>1
    <3>4. h[m + 0] = f[m] \o g[0]
      BY <1>8, <1>9, <3>2, <3>3, Zenon
    <3> QED BY <3>4
  <2>2. ASSUME NEW i \in 1..n, i - 1 \in S PROVE i \in S
    <3>1. i - 1 \in 0..n /\ i \in Nat /\ m + (i - 1) = m + i - 1 /\ m \in 0..m
      BY <1>1
    <3>2. h[m + i - 1] = f[m] \o g[i - 1]
      BY <2>2, <3>1
    <3>3. h[m + i] = (f[m] \o g[i - 1]) \o t[i] /\ g[i] = g[i - 1] \o t[i]
      BY <1>7, <3>2
    <3>4. f[m] \in Seq(E) /\ g[i - 1] \in Seq(E) /\ t[i] \in Seq(E)
      BY <1>5, <3>1
    <3>5. ASSUME NEW x \in Seq(E), NEW y \in Seq(E), NEW z \in Seq(E)
          PROVE  (x \o y) \o z = x \o (y \o z)
      BY ConcatAssociative
    <3>6. (f[m] \o g[i - 1]) \o t[i] = f[m] \o (g[i - 1] \o t[i])
      BY <3>4, <3>5, Zenon
    <3>7. h[m + i] = f[m] \o g[i]
      BY <3>3, <3>6, Zenon
    <3> QED BY <3>1, <3>7
  <2> HIDE DEF S
  <2>3. 0..n \subseteq S
    BY <1>1, <2>1, <2>2, UpTo
  <2>4. n \in 0..n
    BY <1>1
  <2> QED BY <2>3, <2>4 DEF S
<1> QED
  BY <1>2, <1>3, <1>4, <1>10 DEF st, m, n

-----------------------------------------------------------------------------
(* UTF-16 units                                                            *)

\* A loop of n turns, which are given as functions: what it holds after each.
Runs(T, start, next, n, f) ==
    /\ f \in [0..n -> T] /\ f[0] = start
    /\ \A k \in 1..n : f[k] = next[k][f[k - 1]]

LEMMA Loop ==
    ASSUME NEW T, NEW start \in T, NEW N \in Nat, NEW next \in [1..N -> [T -> T]]
    PROVE  \E f : Runs(T, start, next, N, f)
<1> DEFINE S == {n \in Nat : \E f : Runs(T, start, next, n, f)}
<1>1. 0 \in S
  <2> DEFINE f == [k \in 0..0 |-> start]
  <2>1. Runs(T, start, next, 0, f)
    BY DEF Runs
  <2> HIDE DEF f
  <2> QED BY <2>1
<1>2. ASSUME NEW n \in 1..N, n - 1 \in S PROVE n \in S
  <2>1. PICK f : Runs(T, start, next, n - 1, f)
    BY <1>2
  <2> DEFINE g == [k \in 0..n |-> IF k = n THEN next[n][f[n - 1]] ELSE f[k]]
  <2>2. \A k \in 0..n : g[k] = IF k = n THEN next[n][f[n - 1]] ELSE f[k]
    OBVIOUS
  <2>3. f[n - 1] \in T /\ next[n] \in [T -> T] /\ next[n][f[n - 1]] \in T
    <3>1. f[n - 1] \in T
      BY <2>1 DEF Runs
    <3>2. next[n] \in [T -> T]
      OBVIOUS
    <3> QED BY <3>1, <3>2
  <2>4. g \in [0..n -> T]
    BY <2>1, <2>3 DEF Runs
  <2> HIDE DEF g
  <2>5. g[0] = start
    BY <2>1, <2>2 DEF Runs
  <2>6. \A k \in 1..n : g[k] = next[k][g[k - 1]]
    <3> SUFFICES ASSUME NEW k \in 1..n PROVE g[k] = next[k][g[k - 1]]
      OBVIOUS
    <3>1. k - 1 \in 0..n /\ k - 1 # n /\ k \in 0..n /\ g[k - 1] = f[k - 1]
      BY <2>2
    <3>2. CASE k = n
      BY <2>2, <3>1, <3>2
    <3>3. CASE k # n
      <4>1. k \in 1..(n - 1)
        BY <3>3
      <4> QED BY <2>1, <2>2, <3>1, <3>3, <4>1 DEF Runs
    <3> QED BY <3>2, <3>3
  <2>7. Runs(T, start, next, n, g)
    BY <2>4, <2>5, <2>6 DEF Runs
  <2> QED BY <2>7
<1> HIDE DEF S
<1>3. S \in SUBSET Nat
  BY DEF S
<1>4. 0..N \subseteq S
  BY <1>1, <1>2, <1>3, UpTo
<1>5. N \in S
  BY <1>4
<1> QED
  BY <1>5 DEF S

LEMMA WidthType == ASSUME NEW c \in Nat PROVE Width(c) \in 1..2
BY DEF Width

Counts(chars, f) ==
    f = [n \in 0..Len(chars) |-> IF n = 0 THEN 0 ELSE f[n - 1] + Width(chars[n])]

LEMMA CountIs ==
    ASSUME NEW chars \in Seq(Nat)
    PROVE  \E f : /\ f[0] = 0 /\ \A n \in 1..Len(chars) : f[n] = f[n - 1] + Width(chars[n])
                  /\ Utf16Len(chars) = f[Len(chars)]
<1> DEFINE N == Len(chars)
           next == [n \in 1..N |-> [x \in Nat |-> x + Width(chars[n])]]
<1>1. N \in Nat /\ \A n \in 1..N : Width(chars[n]) \in Nat
  BY WidthType
<1>2. next \in [1..N -> [Nat -> Nat]]
  BY <1>1
<1>3. \A n \in 1..N, x \in Nat : next[n][x] = x + Width(chars[n])
  OBVIOUS
<1> HIDE DEF next
<1>4. PICK g : Runs(Nat, 0, next, N, g)
  <2>1. N \in Nat /\ 0 \in Nat
    BY <1>1
  <2> HIDE DEF N
  <2> QED BY <1>2, <2>1, Loop, Zenon
<1>5. \A n \in 0..N : g[n] = IF n = 0 THEN 0 ELSE g[n - 1] + Width(chars[n])
  <2> SUFFICES ASSUME NEW n \in 0..N
               PROVE  g[n] = IF n = 0 THEN 0 ELSE g[n - 1] + Width(chars[n])
    OBVIOUS
  <2>1. CASE n = 0
    BY <1>4, <2>1 DEF Runs
  <2>2. CASE n # 0
    <3>1. n \in 1..N /\ n - 1 \in 0..N
      BY <1>1, <2>2
    <3>2. g[n - 1] \in Nat /\ g[n] = next[n][g[n - 1]]
      BY <1>4, <3>1 DEF Runs
    <3> QED BY <1>3, <2>2, <3>1, <3>2
  <2> QED BY <2>1, <2>2
<1>6. Counts(chars, g)
  <2>1. g = [n \in 0..N |-> g[n]]
    BY <1>4 DEF Runs
  <2> QED BY <1>5, <2>1 DEF Counts
<1>7. PICK f : Counts(chars, f) /\ Utf16Len(chars) = f[N]
  BY <1>6 DEF Utf16Len, Counts
<1>8. \A n \in 0..N : f[n] = IF n = 0 THEN 0 ELSE f[n - 1] + Width(chars[n])
  <2> DEFINE h == [n \in 0..N |-> IF n = 0 THEN 0 ELSE f[n - 1] + Width(chars[n])]
  <2>1. \A n \in 0..N : h[n] = IF n = 0 THEN 0 ELSE f[n - 1] + Width(chars[n])
    OBVIOUS
  <2>2. f = h
    BY <1>7 DEF Counts
  <2> HIDE DEF h
  <2> QED BY <2>1, <2>2
<1>9. f[0] = 0 /\ \A n \in 1..N : n \in 0..N /\ n # 0
  BY <1>1, <1>8
<1> QED
  BY <1>7, <1>8, <1>9

Unit == Nat \X Nat

Cells(chars) == [i \in 1..Len(chars) |-> [h \in 1..Width(chars[i]) |-> <<chars[i], h>>]]

LEMMA FunctionIsSeq ==
    ASSUME NEW E, NEW n \in Nat, NEW f \in [1..n -> E] PROVE f \in Seq(E) /\ Len(f) = n
OBVIOUS

LEMMA CellsType ==
    ASSUME NEW chars \in Seq(Nat)
    PROVE  /\ Cells(chars) \in Seq(Seq(Unit)) /\ Len(Cells(chars)) = Len(chars)
           /\ \A i \in 1..Len(chars) : Len(Cells(chars)[i]) = Width(chars[i])
<1>1. ASSUME NEW i \in 1..Len(chars)
      PROVE  /\ Cells(chars)[i] \in Seq(Unit) /\ Len(Cells(chars)[i]) = Width(chars[i])
  <2> DEFINE w == Width(chars[i])
             cell == [h \in 1..w |-> <<chars[i], h>>]
  <2>1. Cells(chars)[i] = cell
    BY DEF Cells
  <2>2. w \in Nat /\ chars[i] \in Nat
    BY WidthType
  <2> HIDE DEF w
  <2>3. cell \in [1..w -> Unit]
    BY <2>2 DEF Unit
  <2> HIDE DEF cell
  <2>4. cell \in Seq(Unit) /\ Len(cell) = w
    BY <2>2, <2>3, FunctionIsSeq
  <2> QED BY <2>1, <2>4 DEF w
<1>2. Cells(chars) \in [1..Len(chars) -> Seq(Unit)]
  <2>1. Cells(chars) = [i \in 1..Len(chars) |-> Cells(chars)[i]]
    BY DEF Cells
  <2> QED BY <1>1, <2>1
<1>3. Len(chars) \in Nat
  OBVIOUS
<1> QED
  BY <1>1, <1>2, <1>3, FunctionIsSeq

LEMMA UnitsLen ==
    ASSUME NEW chars \in Seq(Nat)
    PROVE  /\ Units(chars) \in Seq(Unit) /\ Len(Units(chars)) \in Nat
           /\ Len(Units(chars)) = Utf16Len(chars)
<1> DEFINE N == Len(chars)
           ss == Cells(chars)
<1>1. /\ ss \in Seq(Seq(Unit)) /\ Len(ss) = N /\ N \in Nat
      /\ \A i \in 1..N : Len(ss[i]) = Width(chars[i]) /\ ss[i] \in Seq(Unit)
  BY CellsType
<1>2. Units(chars) = FlattenSeq(ss)
  BY DEF Units, Cells
<1> HIDE DEF ss
<1>3. PICK f : Joins(ss, f) /\ FlattenSeq(ss) = f[N]
  BY <1>1, FlattenJoins
<1>4. PICK g : /\ g[0] = 0 /\ \A n \in 1..N : g[n] = g[n - 1] + Width(chars[n])
               /\ Utf16Len(chars) = g[N]
  BY CountIs
<1>5. \A n \in 0..N : f[n] \in Seq(Unit)
  BY <1>1, <1>3, JoinsType
<1> HIDE DEF N
<1> DEFINE S == {n \in Nat : n \in 0..N => Len(f[n]) = g[n]}
<1>6. S \in SUBSET Nat /\ 0 \in S
  <2>1. f[0] = <<>> /\ Len(<<>>) = 0
    BY <1>3, EmptySeq DEF Joins
  <2> QED BY <1>4, <2>1
<1>7. ASSUME NEW n \in 1..N, n - 1 \in S PROVE n \in S
  <2>1. n - 1 \in 0..N /\ n \in Nat
    BY <1>1
  <2>2. Len(f[n - 1]) = g[n - 1]
    BY <1>7, <2>1
  <2>3. f[n] = f[n - 1] \o ss[n]
    BY <1>1, <1>3 DEF Joins
  <2>4. f[n - 1] \in Seq(Unit) /\ ss[n] \in Seq(Unit) /\ Len(ss[n]) = Width(chars[n])
    BY <1>1, <1>5, <2>1
  <2>5. Len(f[n]) = Len(f[n - 1]) + Len(ss[n])
    BY <2>3, <2>4, ConcatProperties
  <2>6. Len(f[n]) = g[n]
    BY <1>4, <2>2, <2>4, <2>5
  <2> QED BY <2>1, <2>6
<1> HIDE DEF S
<1>8. 0..N \subseteq S
  BY <1>1, <1>6, <1>7, UpTo
<1>9. N \in 0..N
  BY <1>1
<1>10. Len(f[N]) = g[N] /\ f[N] \in Seq(Unit)
  BY <1>5, <1>8, <1>9 DEF S
<1> QED
  BY <1>2, <1>3, <1>4, <1>10, LenProperties DEF N

\* The units of a text are those of its parts.
LEMMA UnitsConcat ==
    ASSUME NEW a \in Seq(Nat), NEW b \in Seq(Nat)
    PROVE  Units(a \o b) = Units(a) \o Units(b)
<1>1. /\ a \o b \in Seq(Nat) /\ Len(a \o b) = Len(a) + Len(b)
      /\ \A i \in 1..(Len(a) + Len(b)) : (a \o b)[i] = IF i <= Len(a) THEN a[i] ELSE b[i - Len(a)]
  BY ConcatProperties
<1> DEFINE A == Cells(a)
           B == Cells(b)
           C == Cells(a \o b)
<1>2. /\ A \in Seq(Seq(Unit)) /\ B \in Seq(Seq(Unit)) /\ C \in Seq(Seq(Unit))
      /\ Len(A) = Len(a) /\ Len(B) = Len(b) /\ Len(C) = Len(a) + Len(b)
  BY <1>1, CellsType
<1>3. /\ A \o B \in Seq(Seq(Unit)) /\ Len(A \o B) = Len(A) + Len(B)
      /\ \A i \in 1..(Len(A) + Len(B)) : (A \o B)[i] = IF i <= Len(A) THEN A[i] ELSE B[i - Len(A)]
  BY <1>2, ConcatProperties
<1>4. ASSUME NEW i \in 1..Len(C) PROVE (A \o B)[i] = C[i]
  <2>1. C[i] = [h \in 1..Width((a \o b)[i]) |-> <<(a \o b)[i], h>>]
    BY <1>1, <1>2 DEF Cells
  <2>2. Len(a) \in Nat /\ Len(b) \in Nat /\ i \in 1..(Len(a) + Len(b))
    BY <1>2
  <2>3. CASE i <= Len(a)
    <3>1. i \in 1..Len(a) /\ (a \o b)[i] = a[i]
      BY <1>1, <2>2, <2>3
    <3>2. A[i] = [h \in 1..Width(a[i]) |-> <<a[i], h>>]
      BY <3>1 DEF Cells
    <3>3. (A \o B)[i] = A[i]
      BY <1>2, <1>3, <2>2, <2>3
    <3> QED BY <2>1, <3>1, <3>2, <3>3
  <2>4. CASE ~(i <= Len(a))
    <3> DEFINE j == i - Len(a)
    <3>1. j \in 1..Len(b) /\ (a \o b)[i] = b[j]
      BY <1>1, <2>2, <2>4
    <3>2. B[j] = [h \in 1..Width(b[j]) |-> <<b[j], h>>]
      BY <3>1 DEF Cells
    <3>3. (A \o B)[i] = B[j]
      BY <1>2, <1>3, <2>2, <2>4
    <3> QED BY <2>1, <3>1, <3>2, <3>3
  <2> QED BY <2>3, <2>4
<1> HIDE DEF A, B, C
<1>5. C = A \o B
  BY <1>2, <1>3, <1>4, SeqEqual
<1>6. FlattenSeq(A \o B) = FlattenSeq(A) \o FlattenSeq(B)
  BY <1>2, FlattenConcat
<1>7. Units(a) = FlattenSeq(A) /\ Units(b) = FlattenSeq(B) /\ Units(a \o b) = FlattenSeq(C)
  BY DEF Units, Cells, A, B, C
<1> QED
  BY <1>5, <1>6, <1>7

-----------------------------------------------------------------------------
(* A span of a text                                                        *)

Entity == [type: KnownTypes, offset: Nat, length: Nat]

LEMMA SubSeqStays ==
    ASSUME NEW E, NEW u \in Seq(E), NEW v \in Seq(E), NEW o \in Nat, NEW l \in Nat, o + l <= Len(u)
    PROVE  SubSeq(u \o v, o + 1, o + l) = SubSeq(u, o + 1, o + l)
<1>1. CASE l = 0
  <2>1. o + l < o + 1 /\ o + 1 \in Int /\ o + l \in Int
    BY <1>1
  <2> QED BY <2>1, SubSeqEmpty
<1>2. CASE l # 0
  <2>1. o + 1 \in 1..Len(u) /\ o + l \in 1..Len(u)
    BY <1>2, LenProperties
  <2> QED BY <2>1, SubSeqOfConcat1
<1> QED
  BY <1>1, <1>2

LEMMA SubSeqNew ==
    ASSUME NEW E, NEW u \in Seq(E), NEW v \in Seq(E)
    PROVE  SubSeq(u \o v, Len(u) + 1, Len(u) + Len(v)) = v
<1>1. Len(u) \in Nat /\ Len(v) \in Nat
  OBVIOUS
<1>2. CASE Len(v) = 0
  <2>1. Len(u) + Len(v) < Len(u) + 1 /\ Len(u) + 1 \in Int /\ Len(u) + Len(v) \in Int
    BY <1>1, <1>2
  <2>2. v = <<>>
    BY <1>2
  <2> QED BY <2>1, <2>2, SubSeqEmpty
<1>3. CASE Len(v) # 0
  <2>1. /\ Len(u) + 1 \in Len(u) + 1 .. Len(u) + Len(v)
        /\ Len(u) + Len(v) \in Len(u) + 1 .. Len(u) + Len(v)
        /\ Len(u) + 1 - Len(u) = 1 /\ Len(u) + Len(v) - Len(u) = Len(v)
    BY <1>1, <1>3
  <2>2. SubSeq(u \o v, Len(u) + 1, Len(u) + Len(v)) = SubSeq(v, 1, Len(v))
    BY <2>1, SubSeqOfConcat2
  <2> QED BY <2>2, SubSeqFull
<1> QED
  BY <1>2, <1>3

LEMMA SpanStays ==
    ASSUME NEW a \in Seq(Nat), NEW b \in Seq(Nat), NEW e \in Entity,
           e.offset + e.length <= Len(Units(a))
    PROVE  Span(a \o b, e) = Span(a, e)
<1>1. Units(a) \in Seq(Unit) /\ Units(b) \in Seq(Unit) /\ Units(a \o b) = Units(a) \o Units(b)
  BY UnitsLen, UnitsConcat
<1>2. e.offset \in Nat /\ e.length \in Nat
  BY DEF Entity
<1>3. SubSeq(Units(a) \o Units(b), e.offset + 1, e.offset + e.length)
        = SubSeq(Units(a), e.offset + 1, e.offset + e.length)
  BY <1>1, <1>2, SubSeqStays, Zenon
<1> QED
  BY <1>1, <1>3, Zenon DEF Span

LEMMA SpanNew ==
    ASSUME NEW a \in Seq(Nat), NEW b \in Seq(Nat), NEW e \in Entity,
           e.offset = Len(Units(a)), e.length = Len(Units(b))
    PROVE  Span(a \o b, e) = Units(b)
<1>1. Units(a) \in Seq(Unit) /\ Units(b) \in Seq(Unit) /\ Units(a \o b) = Units(a) \o Units(b)
  BY UnitsLen, UnitsConcat
<1> QED
  BY <1>1, SubSeqNew DEF Span

-----------------------------------------------------------------------------
(* Rendering                                                               *)

LEMMA ApplyContextType ==
    ASSUME NEW body \in Seq(Pieces), NEW name \in Seq(Pieces)
    PROVE  ApplyContext(body, name) \in Seq(Pieces)
<1> DEFINE ss == [i \in 1..Len(body) |-> IF body[i].tag = "name" THEN name ELSE <<body[i]>>]
<1>1. ss \in [1..Len(body) -> Seq(Pieces)] /\ Len(body) \in Nat
  OBVIOUS
<1> HIDE DEF ss
<1>2. ss \in Seq(Seq(Pieces))
  BY <1>1, FunctionIsSeq
<1>3. FlattenSeq(ss) \in Seq(Pieces)
  BY <1>2, FlattenType
<1> QED
  BY <1>3 DEF ApplyContext, ss

LEMMA ShownType ==
    ASSUME NEW p \in Pieces PROVE Shown(p) \in Seq(Nat)
<1>1. p.head \in Seq(Nat) /\ p.value \in Seq(Nat) /\ p.count \in Int
  BY DEF Pieces
<1>2. Literal(p) \in Seq(Nat)
  <2>1. <<Bracket>> \in Seq(Nat)
    BY DEF Bracket
  <2>2. <<Bracket>> \o p.head \in Seq(Nat)
    BY <1>1, <2>1, ConcatProperties
  <2>3. (<<Bracket>> \o p.head) \o p.value \in Seq(Nat)
    BY <1>1, <2>2, ConcatProperties
  <2>4. ((<<Bracket>> \o p.head) \o p.value) \o <<Bracket>> \in Seq(Nat)
    BY <2>1, <2>3, ConcatProperties
  <2> QED BY <2>4 DEF Literal
<1>3. p.count >= 0 => [i \in 1..p.count |-> Emoji] \in Seq(Nat)
  BY <1>1 DEF Emoji
<1>4. CASE p.tag \in FormattingTags \cup {"text", "Pre"}
  BY <1>1, <1>4 DEF Shown, FormattingTags
<1>5. CASE p.tag = "TextURL"
  BY <1>1, <1>5 DEF Shown, FormattingTags
<1>6. CASE p.tag = "Random"
  BY <1>1, <1>2, <1>3, <1>6 DEF Shown, FormattingTags
<1>7. CASE p.tag \notin FormattingTags \cup {"text", "Pre", "TextURL", "Random"}
  BY <1>2, <1>7 DEF Shown
<1> QED
  BY <1>4, <1>5, <1>6, <1>7

Rendering == [text: Seq(Nat), entities: Seq(Entity), out: Nat]
Blank == [text |-> <<>>, entities |-> <<>>, out |-> 0]

\* The entity of a piece that comes after acc.
EntityOf(acc, p) == [type |-> p.tag, offset |-> acc.out, length |-> Utf16Len(Shown(p))]

LEMMA EntityOfType ==
    ASSUME NEW acc \in Rendering, NEW p \in Pieces, IsEntity(p)
    PROVE  EntityOf(acc, p) \in Entity
<1>1. Utf16Len(Shown(p)) \in Nat
  BY ShownType, UnitsLen
<1>2. acc.out \in Nat /\ p.tag \in KnownTypes
  BY DEF Rendering, IsEntity, KnownTypes
<1> QED
  BY <1>1, <1>2 DEF EntityOf, Entity

LEMMA RenderPieceIs ==
    ASSUME NEW acc \in Rendering, NEW p \in Pieces
    PROVE  /\ RenderPiece(acc, p) \in Rendering
           /\ RenderPiece(acc, p).text = acc.text \o Shown(p)
           /\ RenderPiece(acc, p).out = acc.out + Utf16Len(Shown(p))
           /\ RenderPiece(acc, p).entities =
                IF IsEntity(p) THEN Append(acc.entities, EntityOf(acc, p)) ELSE acc.entities
<1> DEFINE r == RenderPiece(acc, p)
           es == IF IsEntity(p) THEN Append(acc.entities, EntityOf(acc, p)) ELSE acc.entities
<1>1. r = [text |-> acc.text \o Shown(p), entities |-> es, out |-> acc.out + Utf16Len(Shown(p))]
  BY DEF RenderPiece, EntityOf
<1>2. /\ acc.text \in Seq(Nat) /\ acc.entities \in Seq(Entity) /\ acc.out \in Nat
      /\ Shown(p) \in Seq(Nat) /\ Utf16Len(Shown(p)) \in Nat
  BY ShownType, UnitsLen DEF Rendering
<1>3. acc.text \o Shown(p) \in Seq(Nat)
  BY <1>2, ConcatProperties
<1>4. es \in Seq(Entity)
  BY <1>2, EntityOfType, AppendProperties
<1> HIDE DEF r, es
<1>5. r \in Rendering /\ r.text = acc.text \o Shown(p) /\ r.entities = es
      /\ r.out = acc.out + Utf16Len(Shown(p))
  BY <1>1, <1>2, <1>3, <1>4 DEF Rendering
<1> QED
  BY <1>5 DEF r, es

Renders(pieces, f) ==
    f = [n \in 0..Len(pieces) |-> IF n = 0 THEN Blank ELSE RenderPiece(f[n - 1], pieces[n])]

LEMMA RenderIs ==
    ASSUME NEW body \in Seq(Pieces), NEW name \in Seq(Pieces), NEW pieces,
           pieces = ApplyContext(body, name)
    PROVE  \E f : /\ f[0] = Blank
                  /\ \A n \in 1..Len(pieces) : f[n] = RenderPiece(f[n - 1], pieces[n])
                  /\ RenderMessage(body, name) = f[Len(pieces)]
<1> DEFINE N == Len(pieces)
           next == [n \in 1..N |-> [x \in Rendering |-> RenderPiece(x, pieces[n])]]
<1>1. N \in Nat /\ \A n \in 1..N : pieces[n] \in Pieces
  <2>1. pieces \in Seq(Pieces)
    BY ApplyContextType
  <2> QED BY <2>1
<1>2. next \in [1..N -> [Rendering -> Rendering]]
  BY <1>1, RenderPieceIs
<1>3. \A n \in 1..N, x \in Rendering : next[n][x] = RenderPiece(x, pieces[n])
  OBVIOUS
<1>4. Blank \in Rendering
  BY DEF Blank, Rendering
<1> HIDE DEF next, N
<1>5. PICK g : Runs(Rendering, Blank, next, N, g)
  BY <1>1, <1>2, <1>4, Loop, Zenon
<1>6. \A n \in 0..N : g[n] = IF n = 0 THEN Blank ELSE RenderPiece(g[n - 1], pieces[n])
  <2> SUFFICES ASSUME NEW n \in 0..N
               PROVE  g[n] = IF n = 0 THEN Blank ELSE RenderPiece(g[n - 1], pieces[n])
    OBVIOUS
  <2>1. CASE n = 0
    BY <1>5, <2>1 DEF Runs
  <2>2. CASE n # 0
    <3>1. n \in 1..N /\ n - 1 \in 0..N
      BY <1>1, <2>2
    <3>2. g[n - 1] \in Rendering /\ g[n] = next[n][g[n - 1]]
      BY <1>5, <3>1 DEF Runs
    <3> QED BY <1>3, <2>2, <3>1, <3>2
  <2> QED BY <2>1, <2>2
<1>7. Renders(pieces, g)
  <2>1. g = [n \in 0..N |-> g[n]]
    BY <1>5 DEF Runs
  <2> QED BY <1>6, <2>1 DEF Renders, N
<1>8. PICK f : Renders(pieces, f) /\ RenderMessage(body, name) = f[N]
  BY <1>7 DEF RenderMessage, Renders, Blank, N
<1>9. \A n \in 0..N : f[n] = IF n = 0 THEN Blank ELSE RenderPiece(f[n - 1], pieces[n])
  <2> DEFINE h == [n \in 0..N |-> IF n = 0 THEN Blank ELSE RenderPiece(f[n - 1], pieces[n])]
  <2>1. \A n \in 0..N : h[n] = IF n = 0 THEN Blank ELSE RenderPiece(f[n - 1], pieces[n])
    OBVIOUS
  <2>2. f = h
    BY <1>8 DEF Renders, N
  <2> HIDE DEF h
  <2> QED BY <2>1, <2>2
<1>10. f[0] = Blank /\ \A n \in 1..N : n \in 0..N /\ n # 0
  BY <1>1, <1>9
<1> QED
  BY <1>8, <1>9, <1>10 DEF N

-----------------------------------------------------------------------------
(* Every entity covers its tag                                             *)

Numbered(pieces, i) == Cardinality(Tagged(pieces, i))

LEMMA TaggedStep ==
    ASSUME NEW pieces, NEW n \in Nat \ {0}
    PROVE  /\ IsFiniteSet(Tagged(pieces, n)) /\ Numbered(pieces, n - 1) \in Nat
           /\ Tagged(pieces, n) = IF IsEntity(pieces[n]) THEN Tagged(pieces, n - 1) \cup {n}
                                  ELSE Tagged(pieces, n - 1)
           /\ Numbered(pieces, n) = IF IsEntity(pieces[n]) THEN Numbered(pieces, n - 1) + 1
                                    ELSE Numbered(pieces, n - 1)
<1>1. Tagged(pieces, n) = IF IsEntity(pieces[n]) THEN Tagged(pieces, n - 1) \cup {n}
                          ELSE Tagged(pieces, n - 1)
  BY DEF Tagged
<1>2. n \notin Tagged(pieces, n - 1) /\ Tagged(pieces, n - 1) \subseteq 1..(n - 1)
  BY DEF Tagged
<1>3. IsFiniteSet(Tagged(pieces, n - 1))
  <2>1. IsFiniteSet(1..(n - 1))
    BY FS_Interval
  <2> QED BY <1>2, <2>1, FS_Subset
<1>4. /\ IsFiniteSet(Tagged(pieces, n - 1) \cup {n})
      /\ Cardinality(Tagged(pieces, n - 1) \cup {n}) = Cardinality(Tagged(pieces, n - 1)) + 1
  BY <1>2, <1>3, FS_AddElement
<1>5. Numbered(pieces, n - 1) \in Nat
  BY <1>3, FS_CardinalityType DEF Numbered
<1> QED
  BY <1>1, <1>3, <1>4, <1>5 DEF Numbered

\* A tag's number among the tags.
LEMMA NumberIn ==
    ASSUME NEW pieces, NEW n \in Nat, NEW i \in Tagged(pieces, n)
    PROVE  Numbered(pieces, i) \in 1..Numbered(pieces, n)
<1>1. /\ i \in Tagged(pieces, i) /\ Tagged(pieces, i) \subseteq Tagged(pieces, n)
      /\ Tagged(pieces, n) \subseteq 1..n
  BY DEF Tagged
<1>2. IsFiniteSet(Tagged(pieces, n))
  <2>1. IsFiniteSet(1..n)
    BY FS_Interval
  <2> QED BY <1>1, <2>1, FS_Subset
<1>3. /\ IsFiniteSet(Tagged(pieces, i))
      /\ Cardinality(Tagged(pieces, i)) <= Cardinality(Tagged(pieces, n))
  BY <1>1, <1>2, FS_Subset
<1>4. /\ Cardinality(Tagged(pieces, i)) \in Nat /\ Cardinality(Tagged(pieces, n)) \in Nat
      /\ Cardinality(Tagged(pieces, i)) # 0
  BY <1>1, <1>2, <1>3, FS_CardinalityType, FS_EmptySet
<1> QED
  BY <1>3, <1>4 DEF Numbered

\* The entity of a tag covers what the tag shows.
CoversTag(acc, pieces, i) ==
    LET e == acc.entities[Numbered(pieces, i)]
    IN  e.offset + e.length <= acc.out /\ Span(acc.text, e) = Units(Shown(pieces[i]))

\* After n pieces.
Covers(pieces, n, acc) ==
    /\ acc \in Rendering /\ acc.out = Len(Units(acc.text))
    /\ Len(acc.entities) = Numbered(pieces, n)
    /\ \A i \in Tagged(pieces, n) : CoversTag(acc, pieces, i)

LEMMA CoversStart ==
    ASSUME NEW pieces PROVE Covers(pieces, 0, Blank)
<1>1. Tagged(pieces, 0) = {}
  BY DEF Tagged
<1>2. Numbered(pieces, 0) = 0
  BY <1>1, FS_EmptySet DEF Numbered
<1>3. Blank \in Rendering /\ Len(Blank.entities) = 0 /\ Blank.out = 0 /\ Blank.text = <<>>
  BY DEF Blank, Rendering
<1>4. Units(<<>>) = <<>>
  BY DEF Units, FlattenSeq
<1>5. Len(Units(Blank.text)) = 0
  BY <1>3, <1>4
<1> QED
  BY <1>1, <1>2, <1>3, <1>5 DEF Covers

LEMMA CoversStep ==
    ASSUME NEW pieces \in Seq(Pieces), NEW n \in 1..Len(pieces), NEW acc,
           Covers(pieces, n - 1, acc)
    PROVE  Covers(pieces, n, RenderPiece(acc, pieces[n]))
<1> DEFINE p == pieces[n]
           new == RenderPiece(acc, p)
           k == Numbered(pieces, n - 1)
<1>1. acc \in Rendering /\ p \in Pieces /\ n \in Nat \ {0} /\ n - 1 \in Nat
  BY DEF Covers
<1>2. /\ new \in Rendering /\ new.text = acc.text \o Shown(p)
      /\ new.out = acc.out + Utf16Len(Shown(p))
      /\ new.entities = IF IsEntity(p) THEN Append(acc.entities, EntityOf(acc, p)) ELSE acc.entities
  BY <1>1, RenderPieceIs
<1>3. /\ acc.text \in Seq(Nat) /\ Shown(p) \in Seq(Nat) /\ acc.entities \in Seq(Entity)
      /\ acc.out = Len(Units(acc.text)) /\ Len(acc.entities) = k /\ k \in Nat
      /\ Len(Units(acc.text)) \in Nat
  BY <1>1, ShownType, UnitsLen, TaggedStep DEF Covers, Rendering
<1>4. /\ Units(Shown(p)) \in Seq(Unit) /\ Units(acc.text) \in Seq(Unit)
      /\ Utf16Len(Shown(p)) = Len(Units(Shown(p))) /\ Utf16Len(Shown(p)) \in Nat
  BY <1>3, UnitsLen
<1> HIDE DEF p, new, k
<1>5. new.out = Len(Units(new.text))
  <2>1. Units(new.text) = Units(acc.text) \o Units(Shown(p))
    BY <1>2, <1>3, UnitsConcat
  <2>2. Len(Units(acc.text) \o Units(Shown(p))) = Len(Units(acc.text)) + Len(Units(Shown(p)))
    BY <1>4, ConcatProperties
  <2> QED BY <1>2, <1>3, <1>4, <2>1, <2>2
<1>6. Len(new.entities) = Numbered(pieces, n)
  <2>1. Numbered(pieces, n) = IF IsEntity(p) THEN k + 1 ELSE k
    BY <1>1, TaggedStep DEF p, k
  <2>2. CASE IsEntity(p)
    <3>1. EntityOf(acc, p) \in Entity
      BY <1>1, <2>2, EntityOfType
    <3>2. Len(Append(acc.entities, EntityOf(acc, p))) = k + 1
      BY <1>3, <3>1, AppendProperties
    <3> QED BY <1>2, <2>1, <2>2, <3>2
  <2>3. CASE ~IsEntity(p)
    BY <1>2, <1>3, <2>1, <2>3
  <2> QED BY <2>2, <2>3
<1>7. ASSUME NEW i \in Tagged(pieces, n - 1) PROVE CoversTag(new, pieces, i)
  <2> DEFINE j == Numbered(pieces, i)
             e == acc.entities[j]
  <2>1. j \in 1..k
    BY <1>1, NumberIn DEF k
  <2>2. e \in Entity
    BY <1>3, <2>1
  <2>3. new.entities[j] = e
    <3>1. CASE IsEntity(p)
      <4>1. EntityOf(acc, p) \in Entity
        BY <1>1, <3>1, EntityOfType
      <4> HIDE DEF j
      <4>2. Append(acc.entities, EntityOf(acc, p))[j] = acc.entities[j]
        BY <1>3, <2>1, <4>1, AppendProperties
      <4> QED BY <1>2, <3>1, <4>2
    <3>2. CASE ~IsEntity(p)
      BY <1>2, <3>2
    <3> QED BY <3>1, <3>2
  <2>4. e.offset + e.length <= acc.out /\ Span(acc.text, e) = Units(Shown(pieces[i]))
    BY DEF Covers, CoversTag
  <2> HIDE DEF e, j
  <2>5. Span(new.text, e) = Span(acc.text, e)
    BY <1>2, <1>3, <2>2, <2>4, SpanStays
  <2>6. e.offset + e.length <= new.out
    BY <1>1, <1>2, <1>3, <1>4, <2>2, <2>4 DEF Entity
  <2> QED BY <2>3, <2>4, <2>5, <2>6 DEF CoversTag, j
<1>8. ASSUME IsEntity(p) PROVE CoversTag(new, pieces, n)
  <2> DEFINE e == EntityOf(acc, p)
  <2>1. e \in Entity
    BY <1>1, <1>8, EntityOfType
  <2>2. e.offset = acc.out /\ e.length = Utf16Len(Shown(p))
    BY DEF EntityOf
  <2> HIDE DEF e
  <2>3. Numbered(pieces, n) = k + 1
    BY <1>1, <1>8, TaggedStep DEF p, k
  <2>4. new.entities[k + 1] = e
    <3>1. Append(acc.entities, e)[k + 1] = e
      BY <1>3, <2>1, AppendProperties
    <3> QED BY <1>2, <1>8, <3>1 DEF e
  <2>5. Span(new.text, e) = Units(Shown(p))
    BY <1>2, <1>3, <1>4, <2>1, <2>2, SpanNew
  <2>6. e.offset + e.length <= new.out
    BY <1>2, <1>3, <1>4, <2>2
  <2> QED BY <2>3, <2>4, <2>5, <2>6 DEF CoversTag, p
<1>9. Tagged(pieces, n) = IF IsEntity(p) THEN Tagged(pieces, n - 1) \cup {n} ELSE Tagged(pieces, n - 1)
  BY <1>1, TaggedStep DEF p
<1>10. Covers(pieces, n, new)
  BY <1>2, <1>5, <1>6, <1>7, <1>8, <1>9 DEF Covers
<1> QED
  BY <1>10 DEF new, p

LEMMA RenderCovers ==
    ASSUME NEW body \in Seq(Pieces), NEW name \in Seq(Pieces), NEW pieces,
           pieces = ApplyContext(body, name)
    PROVE  Covers(pieces, Len(pieces), RenderMessage(body, name))
<1> DEFINE N == Len(pieces)
<1>1. pieces \in Seq(Pieces) /\ N \in Nat
  <2>1. pieces \in Seq(Pieces)
    BY ApplyContextType
  <2> QED BY <2>1
<1>2. PICK f : /\ f[0] = Blank
               /\ \A n \in 1..N : f[n] = RenderPiece(f[n - 1], pieces[n])
               /\ RenderMessage(body, name) = f[N]
  BY RenderIs
<1> DEFINE S == {n \in Nat : n \in 0..N => Covers(pieces, n, f[n])}
<1>3. S \in SUBSET Nat /\ 0 \in S
  BY <1>2, CoversStart
<1>4. ASSUME NEW n \in 1..N, n - 1 \in S PROVE n \in S
  <2>1. n \in Nat /\ n - 1 \in 0..N
    BY <1>1
  <2>2. Covers(pieces, n - 1, f[n - 1])
    BY <1>4, <2>1
  <2>3. Covers(pieces, n, RenderPiece(f[n - 1], pieces[n]))
    BY <1>1, <2>2, CoversStep
  <2> QED BY <1>2, <2>1, <2>3
<1> HIDE DEF S, N
<1>5. 0..N \subseteq S
  BY <1>1, <1>3, <1>4, UpTo
<1>6. N \in 0..N
  BY <1>1
<1> QED
  BY <1>2, <1>5, <1>6 DEF S, N

\* Every entity that is rendered has a constructor.
Passes(es, f) ==
    f = [n \in 0..Len(es) |->
            IF n = 0 THEN <<>>
            ELSE IF es[n].type \in KnownTypes THEN Append(f[n - 1], es[n])
            ELSE f[n - 1]]

LEMMA AllPass ==
    ASSUME NEW es \in Seq(Entity) PROVE ToTelethonEntities(es) = es
<1> DEFINE N == Len(es)
           g == [n \in 0..N |-> SubSeq(es, 1, n)]
<1>1. N \in Nat /\ \A n \in 1..N : es[n] \in Entity /\ es[n].type \in KnownTypes
  <2>1. N \in Nat
    BY LenProperties
  <2>2. \A n \in 1..N : es[n] \in Entity
    BY ElementOfSeq
  <2> QED BY <2>1, <2>2 DEF Entity
<1>2. \A n \in 0..N : g[n] = SubSeq(es, 1, n)
  OBVIOUS
<1>3. SubSeq(es, 1, 0) = <<>>
  BY SubSeqEmpty
<1>4. ASSUME NEW n \in 1..N PROVE SubSeq(es, 1, n) = Append(SubSeq(es, 1, n - 1), es[n])
  <2>1. 1 \in 1..Len(es) /\ n \in 1..Len(es)
    BY <1>1
  <2>2. SubSeq(es, 1, n) = SubSeq(es, 1, n - 1) \o <<es[n]>>
    BY <2>1, SubSeqRecursiveSecond
  <2>3. SubSeq(es, 1, n - 1) \in Seq(Entity)
    <3>1. \A i \in 1..(n - 1) : es[i] \in Entity
      BY <1>1
    <3>2. 1 \in Int /\ n - 1 \in Int
      BY <1>1
    <3> QED BY <3>1, <3>2, SubSeqProperties
  <2> QED BY <1>1, <2>2, <2>3, AppendIsConcat
<1>5. \A n \in 0..N : g[n] = IF n = 0 THEN <<>>
                              ELSE IF es[n].type \in KnownTypes THEN Append(g[n - 1], es[n])
                              ELSE g[n - 1]
  <2> SUFFICES ASSUME NEW n \in 0..N
               PROVE  g[n] = IF n = 0 THEN <<>>
                             ELSE IF es[n].type \in KnownTypes THEN Append(g[n - 1], es[n])
                             ELSE g[n - 1]
    OBVIOUS
  <2> HIDE DEF g
  <2>1. CASE n = 0
    BY <1>2, <1>3, <2>1
  <2>2. CASE n # 0
    <3>1. n \in 1..N /\ n - 1 \in 0..N
      BY <1>1, <2>2
    <3>2. g[n] = Append(g[n - 1], es[n])
      BY <1>2, <1>4, <3>1
    <3> QED BY <1>1, <2>2, <3>1, <3>2
  <2> QED BY <2>1, <2>2
<1>6. Passes(es, g)
  <2>1. g = [n \in 0..N |-> g[n]]
    OBVIOUS
  <2> HIDE DEF g
  <2> QED BY <1>5, <2>1 DEF Passes
<1> HIDE DEF g
<1>7. PICK f : Passes(es, f) /\ ToTelethonEntities(es) = f[N]
  BY <1>6 DEF ToTelethonEntities, Passes
<1>8. \A n \in 0..N : f[n] = IF n = 0 THEN <<>>
                              ELSE IF es[n].type \in KnownTypes THEN Append(f[n - 1], es[n])
                              ELSE f[n - 1]
  <2> DEFINE h == [n \in 0..N |-> IF n = 0 THEN <<>>
                              ELSE IF es[n].type \in KnownTypes THEN Append(f[n - 1], es[n])
                              ELSE f[n - 1]]
  <2>1. \A n \in 0..N : h[n] = IF n = 0 THEN <<>>
                              ELSE IF es[n].type \in KnownTypes THEN Append(f[n - 1], es[n])
                              ELSE f[n - 1]
    OBVIOUS
  <2>2. f = h
    BY <1>7 DEF Passes
  <2> HIDE DEF h
  <2> QED BY <2>1, <2>2
<1> DEFINE S == {n \in Nat : n \in 0..N => f[n] = g[n]}
<1>9. S \in SUBSET Nat /\ 0 \in S
  BY <1>1, <1>5, <1>8
<1>10. ASSUME NEW n \in 1..N, n - 1 \in S PROVE n \in S
  <2>1. n \in 0..N /\ n - 1 \in 0..N /\ n # 0
    BY <1>1
  <2>2. f[n - 1] = g[n - 1]
    BY <1>10, <2>1
  <2>3. f[n] = g[n]
    BY <1>5, <1>8, <2>1, <2>2
  <2> QED BY <2>1, <2>3
<1> HIDE DEF S, N
<1>11. 0..N \subseteq S
  BY <1>1, <1>9, <1>10, UpTo
<1>12. N \in 0..N
  BY <1>1
<1>13. f[N] = g[N]
  BY <1>11, <1>12 DEF S
<1>14. g[N] = SubSeq(es, 1, N)
  BY <1>2, <1>12
<1>15. SubSeq(es, 1, N) = es
  BY SubSeqFull DEF N
<1> QED
  BY <1>7, <1>13, <1>14, <1>15

LEMMA SentCovers ==
    ASSUME NEW body \in Seq(Pieces), NEW name \in Seq(Pieces)
    PROVE  LET pieces == ApplyContext(body, name)
               tags   == Tagged(pieces, Len(pieces))
               sent   == ToTelethonEntities(RenderMessage(body, name).entities)
           IN  /\ Len(sent) = Cardinality(tags)
               /\ \A i \in tags :
                    Span(RenderMessage(body, name).text, sent[Cardinality(Tagged(pieces, i))])
                      = Units(Shown(pieces[i]))
<1> DEFINE pieces == ApplyContext(body, name)
           r == RenderMessage(body, name)
<1>1. Covers(pieces, Len(pieces), r)
  BY RenderCovers
<1> HIDE DEF pieces, r
<1>2. ToTelethonEntities(r.entities) = r.entities
  <2>1. r.entities \in Seq(Entity)
    BY <1>1 DEF Covers, Rendering
  <2> QED BY <2>1, AllPass
<1>3. /\ Len(r.entities) = Cardinality(Tagged(pieces, Len(pieces)))
      /\ \A i \in Tagged(pieces, Len(pieces)) :
            Span(r.text, r.entities[Cardinality(Tagged(pieces, i))]) = Units(Shown(pieces[i]))
  BY <1>1 DEF Covers, CoversTag, Numbered
<1> QED
  BY <1>2, <1>3 DEF pieces, r

LEMMA DraftNext ==
    ASSUME [Next]_vars PROVE draft' = draft \/ draft' = None
<1>1. ASSUME NEW kind, NEW what, OtherCall(kind, what) PROVE UNCHANGED draft
  BY <1>1 DEF OtherCall
<1> QED
  BY <1>1 DEF Next, StartTick, PassOver, AttemptEnds, Enqueue, Unavailable, Postpone, Enable,
              Connect, Authorize, Resolve, Import, Forget, Act, Disconnect, Attempt, OtherCallEnds, Crash, Clock, vars

(* Whatever the body and the name are made of, every entity that is sent   *)
(* covers the text of its own tag (template_engine.py 122-200).            *)
THEOREM EntitiesCoverValuesHolds == Spec => []EntitiesCoverValues
<1> DEFINE DraftInv == draft = None \/ draft \in [body: Bodies, name: Names]
<1>1. Init => DraftInv
  BY DEF Init
<1>2. DraftInv /\ [Next]_vars => DraftInv'
  BY DraftNext
<1>3. DraftInv => EntitiesCoverValues
  <2> SUFFICES ASSUME draft \in [body: Bodies, name: Names] PROVE EntitiesCoverValues
    BY DEF EntitiesCoverValues
  <2>1. draft.body \in Seq(Pieces) /\ draft.name \in Seq(Pieces)
    BY AttemptAssumption DEF AttemptAssumption
  <2> QED BY <2>1, SentCovers, Zenon DEF EntitiesCoverValues, Rendered
<1> QED
  BY <1>1, <1>2, <1>3, PTL DEF Spec

-----------------------------------------------------------------------------
(* The session files the copies are taken from: SessionStore.              *)

Table == [Row -> Account \cup {Null, Gone}]

OpenImports ==
    [pc: {"open"}, todo: SUBSET Entry, base: Table, view: Table, new: SUBSET Row,
     held: SUBSET Row, files: SUBSET Path, old: SUBSET Path]

OpenValidations ==
    [pc: {"open"}, todo: SUBSET Row, base: Table, view: Table, told: SUBSET Row]

\* The paths an account may point to without a complaint, and the paths whose
\* file may be there without one.
Kept == {p \in Path : disk[p] # Null \/ p \in undone}
Tidy == strays \cup {rows[i].path : i \in Live(rows)}

\* An open import: its rows point to the files it wrote or to what they pointed
\* to before, and each file it wrote is a row's or was replaced.
Standing(t, table, kept, tidy) ==
    /\ t \in OpenImports
    /\ \A i \in Live(t.base) : table[i] # Null /\ t.base[i].path \in tidy
    /\ \A i \in t.new : table[i] = Null
    /\ Live(t.view) = t.new \cup Live(t.base)
    /\ \A i \in Row \ Live(t.view) : t.view[i] = t.base[i]
    /\ t.files \subseteq kept
    /\ \A i \in Live(t.view) :
         t.view[i].path \in t.files \/ (i \notin t.new /\ t.view[i].path = t.base[i].path)
    /\ \A p \in t.files : p \in t.old \/ \E i \in Live(t.view) : t.view[i].path = p

\* An open validation changes no path, and no row that was not there.
Watching(v, table) ==
    /\ v \in OpenValidations
    /\ \A i \in Live(v.base) :
         table[i] # Null /\ v.view[i] \in Account /\ v.view[i].path = v.base[i].path
    /\ v.todo \cup v.told \subseteq Live(v.base)
    /\ \A i \in Row \ Live(v.base) : v.view[i] = v.base[i]

StoreTypes ==
    /\ rows \in Table
    /\ disk \in [Path -> User \cup {Null}]
    /\ undone \subseteq Path /\ strays \subseteq Path
    /\ imp \in [Request -> OpenImports \cup {Idle}]

ImportsInv ==
    /\ \A r \in Request : imp[r] = Idle \/ Standing(imp[r], rows, Kept, Tidy)
    /\ \A r, q \in Request : r # q => imp[r].new \cap imp[q].new = {}

StoreInv ==
    /\ StoreTypes /\ ImportsInv
    /\ val = Quiet \/ Watching(val, rows)
    /\ SessionsKept /\ NoStrayFiles

-----------------------------------------------------------------------------
LEMMA LiveRows ==
    ASSUME NEW table \in Table, NEW i \in Row
    PROVE  /\ i \in Live(table) <=> table[i] \in Account
           /\ i \in Live(table) => table[i].path \in Path
<1>1. table[i] \in Account \cup {Null, Gone} /\ {Null, Gone} \cap Account = {}
  BY StoreAssumption DEF StoreAssumption, Table
<1>2. \A a \in Account : a.path \in Path
  BY DEF Account
<1> QED
  BY <1>1, <1>2 DEF Live

LEMMA IdleParts ==
    /\ Idle.pc = "idle" /\ Idle.files = {} /\ Idle.new = {}
    /\ Quiet.pc = "idle"
BY DEF Idle, Quiet

LEMMA OpenStands ==
    ASSUME StoreInv, NEW r \in Request, imp[r].pc = "open"
    PROVE  Standing(imp[r], rows, Kept, Tidy) /\ imp[r] \in OpenImports
BY IdleParts DEF StoreInv, ImportsInv, Standing

LEMMA OpenWatches ==
    ASSUME StoreInv, val.pc = "open"
    PROVE  Watching(val, rows) /\ val \in OpenValidations
BY IdleParts DEF StoreInv, Watching

\* What others do to the table, the files and the strays.
LEMMA StandingStays ==
    ASSUME NEW t, NEW table, NEW kept, NEW tidy, Standing(t, table, kept, tidy),
           NEW table2, NEW kept2, NEW tidy2, kept \subseteq kept2, tidy \subseteq tidy2,
           \A i \in Row : table[i] # Null => table2[i] # Null,
           \A i \in t.new : table2[i] = Null
    PROVE  Standing(t, table2, kept2, tidy2)
BY DEF Standing, Live

LEMMA WatchingStays ==
    ASSUME NEW v, NEW table, NEW table2, Watching(v, table),
           \A i \in Row : table[i] # Null => table2[i] # Null
    PROVE  Watching(v, table2)
BY DEF Watching, Live

\* Nothing that was kept or tidy ceases to be, and no row comes back to nothing.
Onward ==
    /\ Kept \subseteq Kept' /\ Tidy \subseteq Tidy'
    /\ \A i \in Row : rows[i] # Null => rows'[i] # Null

LEMMA ImportsStay ==
    ASSUME StoreInv, Onward,
           \A q \in Request :
             \/ imp'[q] = imp[q] /\ \A i \in imp[q].new : rows'[i] = Null
             \/ imp'[q] = Idle
             \/ Standing(imp'[q], rows', Kept', Tidy'),
           \A q, s \in Request : q # s => imp'[q].new \cap imp'[s].new = {}
    PROVE  ImportsInv'
<1> SUFFICES ASSUME NEW q \in Request
             PROVE  imp'[q] = Idle \/ Standing(imp'[q], rows', Kept', Tidy')
  BY DEF ImportsInv
<1>1. CASE imp'[q] = imp[q] /\ imp[q] # Idle /\ \A i \in imp[q].new : rows'[i] = Null
  <2>1. Standing(imp[q], rows, Kept, Tidy)
    BY <1>1 DEF StoreInv, ImportsInv
  <2>2. Standing(imp[q], rows', Kept', Tidy')
    BY <1>1, <2>1, StandingStays, Zenon DEF Onward
  <2> QED BY <1>1, <2>2
<1> QED
  BY <1>1

LEMMA ValidationStays ==
    ASSUME StoreInv, Onward, val' = val
    PROVE  val' = Quiet \/ Watching(val', rows')
BY WatchingStays DEF StoreInv, Onward

\* The table and the files stay as they are.
LEMMA OnwardStill ==
    ASSUME UNCHANGED <<rows, disk, undone>>, strays \subseteq strays'
    PROVE  Onward
BY DEF Onward, Kept, Tidy

LEMMA KeptMeans ==
    ASSUME StoreTypes
    PROVE  SessionsKept <=> \A i \in Live(rows) : rows[i].path \in Kept
BY LiveRows DEF SessionsKept, Kept, StoreTypes, Live

LEMMA StrayMeans ==
    NoStrayFiles <=> \A p \in Path : disk[p] # Null =>
                        p \in Tidy \/ \E r \in Request : p \in imp[r].files
BY DEF NoStrayFiles, Tidy

-----------------------------------------------------------------------------
(* The steps of an import                                                  *)

\* What a step says of the whole, once the parts are known.
LEMMA StoreStep ==
    ASSUME StoreTypes', ImportsInv',
           val' = Quiet \/ Watching(val', rows'),
           \A i \in Live(rows') : rows'[i].path \in Kept',
           \A p \in Path : disk'[p] # Null => p \in Tidy' \/ \E r \in Request : p \in imp'[r].files
    PROVE  StoreInv'
<1>1. SessionsKept'
  <2>1. \A i \in Live(rows') : disk'[rows'[i].path] # Null \/ rows'[i].path \in undone'
    BY DEF Kept
  <2> QED BY <2>1 DEF SessionsKept
<1>2. NoStrayFiles'
  <2> SUFFICES ASSUME NEW p \in Path, disk'[p] # Null, p \notin strays',
                      ~\E r \in Request : p \in imp'[r].files
               PROVE  \E i \in Live(rows') : rows'[i].path = p
    BY DEF NoStrayFiles
  <2>1. p \in Tidy'
    OBVIOUS
  <2> QED BY <2>1 DEF Tidy
<1> QED
  BY <1>1, <1>2 DEF StoreInv

\* A step of one import that leaves the table alone.
LEMMA OwnStep ==
    ASSUME StoreInv, NEW r \in Request, NEW t \in OpenImports \cup {Idle},
           imp' = [imp EXCEPT ![r] = t], UNCHANGED <<rows, val>>,
           disk' \in [Path -> User \cup {Null}], undone' \subseteq Path, strays' \subseteq Path,
           Kept \subseteq Kept', strays \subseteq strays',
           t = Idle \/ Standing(t, rows, Kept', Tidy'),
           \A q \in Request \ {r} : t.new \cap imp[q].new = {},
           \A p \in Path : disk'[p] # Null =>
             p \in t.files \/ p \in strays' \/ (disk[p] # Null /\ p \notin imp[r].files)
    PROVE  StoreInv'
<1>1. Onward
  BY DEF Onward, Tidy
<1>2. /\ imp \in [Request -> OpenImports \cup {Idle}]
      /\ imp'[r] = t /\ \A q \in Request \ {r} : imp'[q] = imp[q]
  BY DEF StoreInv, StoreTypes
<1>3. ImportsInv'
  <2>1. \A q \in Request : q # r => \A i \in imp[q].new : rows'[i] = Null
    BY IdleParts DEF StoreInv, ImportsInv, Standing
  <2>2. \A q, s \in Request : q # s => imp'[q].new \cap imp'[s].new = {}
    BY <1>2 DEF StoreInv, ImportsInv
  <2> QED BY <1>1, <1>2, <2>1, <2>2, ImportsStay
<1>4. StoreTypes'
  BY <1>2 DEF StoreInv, StoreTypes
<1>5. val' = Quiet \/ Watching(val', rows')
  BY <1>1, ValidationStays
<1>6. \A i \in Live(rows') : rows'[i].path \in Kept'
  BY KeptMeans DEF StoreInv
<1>7. \A p \in Path : disk'[p] # Null => p \in Tidy' \/ \E q \in Request : p \in imp'[q].files
  <2> SUFFICES ASSUME NEW p \in Path, disk'[p] # Null, p \notin Tidy', p \notin t.files
               PROVE  \E q \in Request : p \in imp'[q].files
    BY <1>2
  <2>1. disk[p] # Null /\ p \notin imp[r].files /\ p \notin Tidy
    BY <1>1 DEF Tidy, Onward
  <2>2. PICK q \in Request : p \in imp[q].files
    BY <2>1, StrayMeans DEF StoreInv
  <2> QED BY <1>2, <2>1, <2>2
<1> QED
  BY <1>3, <1>4, <1>5, <1>6, <1>7, StoreStep

LEMMA OpenImportStep ==
    ASSUME StoreInv, NEW r \in Request, OpenImport(r)
    PROVE  StoreInv'
<1>1. PICK archive \in Archives :
        imp' = [imp EXCEPT ![r] = [Idle EXCEPT !.pc = "open", !.todo = archive,
                                               !.base = rows, !.view = rows]]
  BY DEF OpenImport
<1> DEFINE t == [Idle EXCEPT !.pc = "open", !.todo = archive, !.base = rows, !.view = rows]
<1>2. /\ t.pc = "open" /\ t.todo = archive /\ t.base = rows /\ t.view = rows
      /\ t.new = {} /\ t.held = {} /\ t.files = {} /\ t.old = {}
  BY DEF Idle
<1>3. t \in OpenImports
  BY <1>2, StoreAssumption DEF OpenImports, Idle, StoreInv, StoreTypes, StoreAssumption
<1>4. imp[r].pc = "idle" /\ UNCHANGED <<rows, disk, val, undone, strays>>
  BY DEF OpenImport
<1>5. imp[r].files = {}
  BY <1>4, IdleParts DEF StoreInv, StoreTypes, OpenImports
<1> HIDE DEF t
<1>6. imp' = [imp EXCEPT ![r] = t]
  BY <1>1 DEF t
<1>7. Standing(t, rows, Kept', Tidy')
  BY <1>2, <1>3, <1>4 DEF Standing, Tidy, Live
<1>8. /\ disk' \in [Path -> User \cup {Null}] /\ undone' \subseteq Path /\ strays' \subseteq Path
      /\ Kept \subseteq Kept' /\ strays \subseteq strays'
  BY <1>4 DEF StoreInv, StoreTypes, Kept
<1>9. \A p \in Path : disk'[p] # Null => disk[p] # Null /\ p \notin imp[r].files
  BY <1>4, <1>5
<1>10. \A q \in Request \ {r} : t.new \cap imp[q].new = {}
  BY <1>2
<1>11. UNCHANGED <<rows, val>> /\ t \in OpenImports \cup {Idle}
  BY <1>3, <1>4
<1> QED
  BY <1>6, <1>7, <1>8, <1>9, <1>10, <1>11, OwnStep

\* A file that is written is kept, and so is every other.
LEMMA WriteKeeps ==
    ASSUME StoreTypes, NEW e \in Entry, WriteFile(e)
    PROVE  /\ e.stem \in Path /\ e.stem \in Kept' /\ Kept \subseteq Kept'
           /\ disk' \in [Path -> User \cup {Null}] /\ undone' \subseteq Path
           /\ \A p \in Path \ {e.stem} : disk'[p] = disk[p]
<1>1. e.stem \in Path /\ e.user \in User /\ e.user # Null
  BY StoreAssumption DEF StoreAssumption, Path
<1>2. /\ disk \in [Path -> User \cup {Null}] /\ disk' = [disk EXCEPT ![e.stem] = e.user]
      /\ undone' = undone \ {e.stem} /\ undone \subseteq Path
  BY DEF WriteFile, StoreTypes
<1>3. /\ disk' \in [Path -> User \cup {Null}] /\ disk'[e.stem] # Null
      /\ \A p \in Path \ {e.stem} : disk'[p] = disk[p]
  BY <1>1, <1>2
<1> QED
  BY <1>1, <1>2, <1>3 DEF Kept

LEMMA IdentityParts ==
    ASSUME NEW e \in Entry
    PROVE  /\ Identity(e)[1] \in User \cup Path \cup {Pending(ph) : ph \in Phone}
           /\ Identity(e)[2] \in Phone \cup {Null}
<1> DEFINE named == IF e.stem \in Phone THEN e.stem ELSE Null
           known == IF e.phone # Null THEN e.phone ELSE IF e.sub THEN Null ELSE named
<1>1. /\ e.stem \in Path /\ e.uid \in User \cup {Null} /\ e.phone \in Phone \cup {Null}
      /\ named \in Phone \cup {Null} /\ known \in Phone \cup {Null}
  BY StoreAssumption DEF StoreAssumption, Path
<1>2. CASE e.uid # Null
  <2>1. Identity(e) = <<e.uid, IF e.phone # Null THEN e.phone ELSE named>>
    BY <1>2 DEF Identity
  <2> QED BY <1>1, <1>2, <2>1
<1>3. CASE e.uid = Null /\ known # Null
  <2>1. Identity(e) = <<Pending(known), known>>
    BY <1>3 DEF Identity
  <2> QED BY <1>1, <1>3, <2>1
<1>4. CASE e.uid = Null /\ known = Null
  <2>1. Identity(e) = <<e.stem, Null>>
    BY <1>4 DEF Identity
  <2> QED BY <1>1, <2>1
<1> QED
  BY <1>2, <1>3, <1>4

LEMMA ReimportStep ==
    ASSUME StoreInv, NEW r \in Request, NEW e \in Entry, Reimport(r, e)
    PROVE  StoreInv'
<1> DEFINE t == imp[r]
<1>1. /\ t.pc = "open" /\ WriteFile(e) /\ UNCHANGED <<rows, val, strays>>
  BY DEF Reimport
<1>2. PICK i \in Found(t, e) :
        LET old == t.view[i]
            row == [old EXCEPT !.path = e.stem,
                       !.status = IF @ = "error" THEN "imported" ELSE @,
                       !.phone = IF @ = Null THEN Identity(e)[2] ELSE @]
        IN  imp' = [imp EXCEPT ![r] = [t EXCEPT !.todo = @ \ {e}, !.view[i] = row,
                           !.files = @ \cup {e.stem},
                           !.old = @ \cup ({old.path} \ {e.stem})]]
  BY DEF Reimport
<1> DEFINE old == t.view[i]
           row == [old EXCEPT !.path = e.stem,
                      !.status = IF @ = "error" THEN "imported" ELSE @,
                      !.phone = IF @ = Null THEN Identity(e)[2] ELSE @]
           view2 == [t.view EXCEPT ![i] = row]
           files2 == t.files \cup {e.stem}
           old2 == t.old \cup ({old.path} \ {e.stem})
           t2 == [t EXCEPT !.todo = @ \ {e}, !.view[i] = row, !.files = @ \cup {e.stem},
                           !.old = @ \cup ({old.path} \ {e.stem})]
<1>3. Standing(t, rows, Kept, Tidy) /\ t \in OpenImports
  BY <1>1, OpenStands
<1>4. /\ t.view \in Table /\ i \in Live(t.view) /\ i \in Row /\ old \in Account
  BY <1>3, LiveRows DEF Found, OpenImports, Live
<1>5. e.stem \in Path /\ Identity(e)[2] \in Phone \cup {Null}
  BY IdentityParts, StoreAssumption DEF StoreAssumption, Path
<1>6. row \in Account /\ row.path = e.stem
  BY <1>4, <1>5 DEF Account
<1>7. /\ view2 \in Table /\ view2[i] = row /\ \A j \in Row \ {i} : view2[j] = t.view[j]
      /\ files2 \subseteq Path /\ old2 \subseteq Path
  <2> HIDE DEF row
  <2>1. old.path \in Path
    BY <1>4 DEF Account
  <2> QED BY <1>3, <1>4, <1>5, <1>6, <2>1 DEF Table, OpenImports
<1>8. Live(view2) = Live(t.view)
  <2> HIDE DEF view2, row, t
  <2>1. i \in Live(view2)
    BY <1>4, <1>6, <1>7, LiveRows
  <2>2. \A j \in Row : j \in Live(view2) <=> j \in Live(t.view)
    BY <1>4, <1>7, <2>1 DEF Live
  <2>3. Live(view2) \subseteq Row /\ Live(t.view) \subseteq Row
    BY DEF Live
  <2> QED BY <2>2, <2>3
<1>9. /\ t2 \in OpenImports /\ t2.base = t.base /\ t2.new = t.new
      /\ t2.view = view2 /\ t2.files = files2 /\ t2.old = old2
  <2> HIDE DEF row
  <2> QED BY <1>3, <1>7 DEF OpenImports
<1>10. imp' = [imp EXCEPT ![r] = t2]
  BY <1>2
<1> HIDE DEF t2, view2, row
<1>11. /\ e.stem \in Kept' /\ Kept \subseteq Kept' /\ Tidy' = Tidy
       /\ disk' \in [Path -> User \cup {Null}] /\ undone' \subseteq Path
       /\ \A p \in Path \ {e.stem} : disk'[p] = disk[p]
  BY <1>1, WriteKeeps DEF StoreInv, Tidy
<1>12. Standing(t2, rows, Kept', Tidy')
  <2>1. files2 \subseteq Kept'
    BY <1>3, <1>11 DEF Standing
  <2>2. ASSUME NEW j \in Live(view2)
        PROVE  view2[j].path \in files2 \/ (j \notin t.new /\ view2[j].path = t.base[j].path)
    BY <1>3, <1>6, <1>7, <1>8 DEF Standing, Live
  <2>3. ASSUME NEW p \in files2 PROVE p \in old2 \/ \E j \in Live(view2) : view2[j].path = p
    <3>1. CASE p = e.stem
      BY <1>4, <1>6, <1>7, <1>8, <3>1
    <3>2. CASE p # e.stem /\ p \in t.files /\ p \notin t.old
      <4>1. PICK j \in Live(t.view) : t.view[j].path = p
        BY <1>3, <3>2 DEF Standing
      <4>2. CASE j = i
        BY <3>2, <4>1, <4>2
      <4>3. CASE j # i
        BY <1>7, <1>8, <4>1, <4>3 DEF Live
      <4> QED BY <4>2, <4>3
    <3> QED BY <3>1, <3>2
  <2>4. \A j \in Row \ Live(view2) : view2[j] = t.base[j]
    BY <1>3, <1>4, <1>7, <1>8 DEF Standing
  <2> HIDE DEF files2, old2
  <2> QED BY <1>3, <1>8, <1>9, <1>11, <2>1, <2>2, <2>3, <2>4 DEF Standing
<1>13. \A q \in Request \ {r} : t2.new \cap imp[q].new = {}
  BY <1>9 DEF StoreInv, ImportsInv
<1>14. \A p \in Path : disk'[p] # Null =>
         p \in t2.files \/ (disk[p] # Null /\ p \notin imp[r].files)
  BY <1>9, <1>11
<1>15. strays' \subseteq Path /\ strays \subseteq strays'
  BY <1>1 DEF StoreInv, StoreTypes
<1> HIDE DEF t, files2, old2
<1> QED
  BY <1>1, <1>9, <1>10, <1>11, <1>12, <1>13, <1>14, <1>15, OwnStep

LEMMA InsertStep ==
    ASSUME StoreInv, NEW r \in Request, NEW e \in Entry, Insert(r, e)
    PROVE  StoreInv'
<1> DEFINE t == imp[r]
           id == Identity(e)
           row == [uid |-> id[1], phone |-> id[2], path |-> e.stem, status |-> "imported"]
<1>1. /\ t.pc = "open" /\ WriteFile(e) /\ UNCHANGED <<rows, val, strays>>
  BY DEF Insert
<1>2. PICK i \in Unissued :
        imp' = [imp EXCEPT ![r] =
                  [t EXCEPT !.todo = @ \ {e}, !.files = @ \cup {e.stem}, !.view[i] = row,
                            !.new = @ \cup {i}, !.held = @ \cup Touched(t)]]
  BY DEF Insert
<1> DEFINE view2 == [t.view EXCEPT ![i] = row]
           files2 == t.files \cup {e.stem}
           new2 == t.new \cup {i}
           t2 == [t EXCEPT !.todo = @ \ {e}, !.files = @ \cup {e.stem}, !.view[i] = row,
                           !.new = @ \cup {i}, !.held = @ \cup Touched(t)]
<1>3. Standing(t, rows, Kept, Tidy) /\ t \in OpenImports
  BY <1>1, OpenStands
<1>4. /\ i \in Row /\ rows[i] = Null
      /\ \A q \in Request : i \notin imp[q].new
  BY DEF Unissued
<1>5. row \in Account /\ row.path = e.stem /\ e.stem \in Path
  <2>1. e.stem \in Path
    BY StoreAssumption DEF StoreAssumption, Path
  <2> HIDE DEF id
  <2>2. id[1] \in User \cup Path \cup {Pending(ph) : ph \in Phone} /\ id[2] \in Phone \cup {Null}
    BY IdentityParts DEF id
  <2> QED BY <2>1, <2>2 DEF Account
<1>6. /\ t.view \in Table /\ t.files \subseteq Path /\ t.new \subseteq Row
      /\ t.held \cup Touched(t) \subseteq Row
  BY <1>3 DEF OpenImports, Touched
<1>7. /\ view2 \in Table /\ view2[i] = row /\ \A j \in Row \ {i} : view2[j] = t.view[j]
      /\ files2 \subseteq Path
  <2> HIDE DEF row
  <2> QED BY <1>4, <1>5, <1>6 DEF Table
<1>8. i \notin Live(t.view)
  BY <1>3, <1>4 DEF Standing
<1>9. Live(view2) = Live(t.view) \cup {i}
  <2> HIDE DEF view2, row, t
  <2>1. i \in Live(view2)
    BY <1>4, <1>5, <1>7, LiveRows
  <2>2. \A j \in Row : j \in Live(view2) <=> j \in Live(t.view) \/ j = i
    BY <1>4, <1>7, <2>1 DEF Live
  <2>3. Live(view2) \subseteq Row /\ Live(t.view) \subseteq Row
    BY DEF Live
  <2> QED BY <1>4, <2>2, <2>3
<1>10. /\ t2 \in OpenImports /\ t2.base = t.base /\ t2.new = new2
       /\ t2.view = view2 /\ t2.files = files2 /\ t2.old = t.old
  <2> HIDE DEF row
  <2> QED BY <1>3, <1>4, <1>6, <1>7 DEF OpenImports
<1>11. imp' = [imp EXCEPT ![r] = t2]
  BY <1>2
<1> HIDE DEF t2, view2, row
<1>12. /\ e.stem \in Kept' /\ Kept \subseteq Kept' /\ Tidy' = Tidy
       /\ disk' \in [Path -> User \cup {Null}] /\ undone' \subseteq Path
       /\ \A p \in Path \ {e.stem} : disk'[p] = disk[p]
  BY <1>1, WriteKeeps DEF StoreInv, Tidy
<1>13. Standing(t2, rows, Kept', Tidy')
  <2>1. files2 \subseteq Kept'
    BY <1>3, <1>12 DEF Standing
  <2>2. ASSUME NEW j \in Live(view2)
        PROVE  view2[j].path \in files2 \/ (j \notin new2 /\ view2[j].path = t.base[j].path)
    BY <1>3, <1>5, <1>7, <1>9 DEF Standing, Live
  <2>3. ASSUME NEW p \in files2 PROVE p \in t.old \/ \E j \in Live(view2) : view2[j].path = p
    <3>1. CASE p = e.stem
      BY <1>5, <1>7, <1>9, <3>1
    <3>2. CASE p # e.stem /\ p \in t.files /\ p \notin t.old
      <4>1. PICK j \in Live(t.view) : t.view[j].path = p
        BY <1>3, <3>2 DEF Standing
      <4>2. j # i /\ j \in Row /\ j \in Live(view2)
        BY <1>8, <1>9, <4>1 DEF Live
      <4> QED BY <1>7, <4>1, <4>2
    <3> QED BY <3>1, <3>2
  <2>4. \A j \in Row \ Live(view2) : view2[j] = t.base[j]
    BY <1>3, <1>7, <1>9 DEF Standing
  <2>5. Live(view2) = new2 \cup Live(t.base)
    BY <1>3, <1>9 DEF Standing
  <2>6. \A j \in new2 : rows[j] = Null
    BY <1>3, <1>4 DEF Standing
  <2> HIDE DEF files2, new2
  <2> QED BY <1>3, <1>10, <1>12, <2>1, <2>2, <2>3, <2>4, <2>5, <2>6 DEF Standing
<1>14. \A q \in Request \ {r} : t2.new \cap imp[q].new = {}
  BY <1>4, <1>10 DEF StoreInv, ImportsInv
<1>15. \A p \in Path : disk'[p] # Null =>
         p \in t2.files \/ (disk[p] # Null /\ p \notin imp[r].files)
  BY <1>10, <1>12
<1>16. strays' \subseteq Path /\ strays \subseteq strays'
  BY <1>1 DEF StoreInv, StoreTypes
<1> HIDE DEF t, files2, new2
<1> QED
  BY <1>1, <1>10, <1>11, <1>12, <1>13, <1>14, <1>15, <1>16, OwnStep

\* An import that is over, done or not, leaves what it wrote as a stray or
\* takes it away.
LEMMA OverStep ==
    ASSUME StoreInv, NEW r \in Request,
           imp' = [imp EXCEPT ![r] = Idle], UNCHANGED <<rows, val>>,
           disk' \in [Path -> User \cup {Null}], undone' \subseteq Path, strays' \subseteq Path,
           Kept \subseteq Kept', strays \subseteq strays',
           \A p \in Path : disk'[p] # Null =>
             p \in strays' \/ (disk[p] # Null /\ p \notin imp[r].files)
    PROVE  StoreInv'
<1>1. \A q \in Request \ {r} : Idle.new \cap imp[q].new = {}
  BY IdleParts
<1> QED
  BY <1>1, OwnStep

LEMMA FailingSteps ==
    ASSUME StoreInv, NEW r \in Request,
           CommitFails(r) \/ ImportDies(r) \/ \E e \in Entry : InsertFails(r, e)
    PROVE  StoreInv'
<1>0. /\ disk \in [Path -> User \cup {Null}] /\ undone \subseteq Path /\ strays \subseteq Path
      /\ StoreTypes
  BY DEF StoreInv, StoreTypes
<1>1. imp[r].pc = "open"
  BY DEF CommitFails, ImportDies, InsertFails, Ready
<1>2. imp[r].files \subseteq Path
  BY <1>1, OpenStands DEF OpenImports
<1>3. ASSUME NEW e \in Entry, InsertFails(r, e) PROVE StoreInv'
  <2>1. /\ imp' = [imp EXCEPT ![r] = Idle] /\ WriteFile(e) /\ UNCHANGED <<rows, val>>
        /\ strays' = strays \cup imp[r].files \cup {e.stem}
    BY <1>3 DEF InsertFails
  <2>2. /\ e.stem \in Path /\ Kept \subseteq Kept'
        /\ disk' \in [Path -> User \cup {Null}] /\ undone' \subseteq Path
        /\ \A p \in Path \ {e.stem} : disk'[p] = disk[p]
    BY <1>0, <2>1, WriteKeeps
  <2>3. \A p \in Path : disk'[p] # Null =>
          p \in strays' \/ (disk[p] # Null /\ p \notin imp[r].files)
    BY <2>1, <2>2
  <2>4. strays' \subseteq Path /\ strays \subseteq strays'
    BY <1>0, <1>2, <2>1, <2>2
  <2> QED BY <2>1, <2>2, <2>3, <2>4, OverStep
<1>4. CASE CommitFails(r)
  <2>1. /\ imp' = [imp EXCEPT ![r] = Idle] /\ UNCHANGED <<rows, val, strays>>
        /\ disk' = [p \in Path |-> IF p \in imp[r].files THEN Null ELSE disk[p]]
        /\ undone' = undone \cup imp[r].files
    BY <1>4 DEF CommitFails
  <2>2. /\ disk' \in [Path -> User \cup {Null}] /\ undone' \subseteq Path
        /\ \A p \in Path : disk'[p] # Null => disk[p] # Null /\ p \notin imp[r].files
    BY <1>0, <1>2, <2>1
  <2>3. Kept \subseteq Kept'
    BY <1>0, <2>1 DEF Kept
  <2> QED BY <1>0, <2>1, <2>2, <2>3, OverStep
<1>5. CASE ImportDies(r)
  <2>1. /\ imp' = [imp EXCEPT ![r] = Idle] /\ UNCHANGED <<rows, disk, val, undone>>
        /\ strays' = strays \cup imp[r].files
    BY <1>5 DEF ImportDies
  <2>2. Kept' = Kept
    BY <2>1 DEF Kept
  <2>3. strays' \subseteq Path /\ strays \subseteq strays'
    BY <1>0, <1>2, <2>1
  <2> QED BY <1>0, <2>1, <2>2, <2>3, OverStep
<1> QED
  BY <1>3, <1>4, <1>5

-----------------------------------------------------------------------------
(* The steps that write the table                                          *)

LEMMA MergedRow ==
    ASSUME NEW row \in Account, NEW old \in Account, NEW own \in Account
    PROVE  /\ Merged(row, old, own) \in Account
           /\ Merged(row, old, own).path = IF own.path # old.path THEN own.path ELSE row.path
BY DEF Merged, Account

\* A step that changes rows, and leaves the files and the other imports alone.
LEMMA TableStep ==
    ASSUME StoreInv, UNCHANGED <<disk, undone>>,
           rows' \in Table, strays' \subseteq Path, Tidy \subseteq Tidy',
           \A i \in Row : rows[i] # Null => rows'[i] # Null,
           imp' \in [Request -> OpenImports \cup {Idle}],
           \A q \in Request :
             \/ imp'[q] = imp[q] /\ \A i \in imp[q].new : rows'[i] = Null
             \/ imp'[q] = Idle /\ imp[q].files \subseteq Tidy',
           val' = val \/ val' = Quiet,
           \A i \in Live(rows') : rows'[i].path \in Kept
    PROVE  StoreInv'
<1>1. Kept' = Kept
  BY DEF Kept
<1>2. Onward
  BY <1>1 DEF Onward
<1>3. ImportsInv'
  <2>1. \A q, s \in Request : q # s => imp'[q].new \cap imp'[s].new = {}
    BY IdleParts DEF StoreInv, ImportsInv
  <2> QED BY <1>2, <2>1, ImportsStay
<1>4. StoreTypes'
  BY DEF StoreInv, StoreTypes
<1>5. val' = Quiet \/ Watching(val', rows')
  BY <1>2, ValidationStays
<1>6. \A p \in Path : disk'[p] # Null => p \in Tidy' \/ \E q \in Request : p \in imp'[q].files
  BY <1>2, StrayMeans DEF StoreInv, Onward
<1> QED
  BY <1>1, <1>3, <1>4, <1>5, <1>6, StoreStep

LEMMA DeleteStep ==
    ASSUME StoreInv, NEW i \in Row, DeleteAccount(i)
    PROVE  StoreInv'
<1>1. /\ rows \in Table /\ strays \subseteq Path /\ imp \in [Request -> OpenImports \cup {Idle}]
      /\ i \in Live(rows) /\ rows' = [rows EXCEPT ![i] = Gone]
      /\ strays' = strays \cup {rows[i].path}
      /\ UNCHANGED <<disk, imp, val, undone>>
  BY DEF DeleteAccount, StoreInv, StoreTypes
<1>2. /\ rows' \in Table /\ rows'[i] = Gone /\ \A j \in Row \ {i} : rows'[j] = rows[j]
  BY <1>1 DEF Table
<1>3. Null # Gone
  BY StoreAssumption DEF StoreAssumption
<1>4. strays' \subseteq Path
  BY <1>1, LiveRows
<1>5. \A j \in Row : j \in Live(rows') <=> j \in Live(rows) /\ j # i
  BY <1>2 DEF Live
<1>6. Tidy \subseteq Tidy'
  <2> SUFFICES ASSUME NEW p \in Tidy, p \notin strays' PROVE p \in Tidy'
    BY DEF Tidy
  <2>1. PICK j \in Live(rows) : rows[j].path = p
    BY <1>1 DEF Tidy
  <2>2. j # i /\ j \in Row
    BY <1>1, <2>1 DEF Live
  <2>3. j \in Live(rows') /\ rows'[j].path = p
    BY <1>2, <1>5, <2>1, <2>2
  <2> QED BY <2>3 DEF Tidy
<1>7. \A j \in Row : rows[j] # Null => rows'[j] # Null
  BY <1>2, <1>3
<1>8. \A q \in Request : \A j \in imp[q].new : rows'[j] = Null
  <2> SUFFICES ASSUME NEW q \in Request, NEW j \in imp[q].new PROVE rows'[j] = Null
    OBVIOUS
  <2>1. imp[q] # Idle
    BY IdleParts
  <2>2. Standing(imp[q], rows, Kept, Tidy)
    BY <2>1 DEF StoreInv, ImportsInv
  <2>3. rows[j] = Null /\ j \in Row
    BY <2>2 DEF Standing, OpenImports
  <2> QED BY <1>1, <1>2, <2>3 DEF Live
<1>9. \A j \in Live(rows') : rows'[j].path \in Kept
  BY <1>2, <1>5, KeptMeans DEF StoreInv, Live
<1> QED
  BY <1>1, <1>2, <1>4, <1>6, <1>7, <1>8, <1>9, TableStep

\* What a commit makes of the rows of an import.
LEMMA ImportedRows ==
    ASSUME StoreInv, NEW r \in Request, CommitImport(r)
    PROVE  /\ rows' \in Table
           /\ \A i \in imp[r].new : i \in Row /\ rows[i] = Null /\ rows'[i] = imp[r].view[i]
                                    /\ rows'[i] \in Account
           /\ \A i \in Touched(imp[r]) :
                /\ i \in Row /\ rows[i] \in Account /\ rows'[i] \in Account
                /\ rows'[i].path = IF imp[r].view[i].path # imp[r].base[i].path
                                   THEN imp[r].view[i].path ELSE rows[i].path
                /\ i \in Live(imp[r].view) \ imp[r].new
           /\ \A i \in Row \ (imp[r].new \cup Touched(imp[r])) : rows'[i] = rows[i]
<1> DEFINE t == imp[r]
<1>1. /\ t.pc = "open" /\ rows' = Imported(t)
      /\ \A i \in Touched(t) : rows[i] # Gone
  BY DEF CommitImport, Ready
<1>2. Standing(t, rows, Kept, Tidy) /\ t \in OpenImports
  BY <1>1, OpenStands
<1>3. /\ t.view \in Table /\ t.base \in Table /\ t.new \subseteq Row /\ rows \in Table
  BY <1>2 DEF OpenImports, StoreInv, StoreTypes
<1>4. \A i \in Row : rows'[i] = IF i \in t.new THEN t.view[i]
                                ELSE IF i \in Touched(t) THEN Merged(rows[i], t.base[i], t.view[i])
                                ELSE rows[i]
  BY <1>1 DEF Imported
<1> HIDE DEF t
<1>5. ASSUME NEW i \in t.new
      PROVE  i \in Row /\ rows[i] = Null /\ rows'[i] = t.view[i] /\ rows'[i] \in Account
  <2>1. i \in Row /\ rows[i] = Null /\ i \in Live(t.view)
    BY <1>2, <1>3 DEF Standing
  <2> QED BY <1>3, <1>4, <2>1, LiveRows
<1>6. ASSUME NEW i \in Touched(t)
      PROVE  /\ i \in Row /\ rows[i] \in Account /\ rows'[i] \in Account
             /\ rows'[i].path = IF t.view[i].path # t.base[i].path
                                THEN t.view[i].path ELSE rows[i].path
             /\ i \in Live(t.view) \ t.new
  <2>1. i \in Row \ t.new /\ t.view[i] # t.base[i] /\ rows[i] # Gone
    BY <1>1 DEF Touched, t
  <2>2. i \in Live(t.view)
    BY <1>2, <2>1 DEF Standing
  <2>3. i \in Live(t.base)
    BY <1>2, <2>1, <2>2 DEF Standing
  <2>4. rows[i] # Null
    BY <1>2, <2>3 DEF Standing
  <2>5. rows[i] \in Account
    BY <1>3, <2>1, <2>4 DEF Table
  <2>6. t.base[i] \in Account /\ t.view[i] \in Account
    BY <1>3, <2>1, <2>2, <2>3, LiveRows
  <2>7. rows'[i] = Merged(rows[i], t.base[i], t.view[i])
    BY <1>4, <2>1
  <2> QED BY <2>1, <2>2, <2>5, <2>6, <2>7, MergedRow
<1>7. \A i \in Row \ (t.new \cup Touched(t)) : rows'[i] = rows[i]
  BY <1>4
<1>8. rows' \in Table
  <2>1. rows' = [i \in Row |-> rows'[i]]
    BY <1>1 DEF Imported
  <2>2. \A i \in Row : rows'[i] \in Account \cup {Null, Gone}
    BY <1>3, <1>5, <1>6, <1>7 DEF Table
  <2> QED BY <2>1, <2>2 DEF Table
<1> QED
  BY <1>5, <1>6, <1>7, <1>8 DEF t

LEMMA CommitImportStep ==
    ASSUME StoreInv, NEW r \in Request, CommitImport(r)
    PROVE  StoreInv'
<1> DEFINE t == imp[r]
           touched == Touched(t)
<1>1. /\ t.pc = "open" /\ UNCHANGED <<disk, val, undone>>
      /\ imp' = [imp EXCEPT ![r] = Idle]
      /\ strays' = (strays \cup t.old \cup {rows[i].path : i \in touched})
                     \ {rows'[i].path : i \in Live(rows')}
  BY DEF CommitImport, Ready
<1>2. Standing(t, rows, Kept, Tidy) /\ t \in OpenImports
  BY <1>1, OpenStands
<1>3. /\ rows \in Table /\ strays \subseteq Path /\ t.old \subseteq Path /\ t.files \subseteq Path
      /\ imp \in [Request -> OpenImports \cup {Idle}]
  BY <1>2 DEF OpenImports, StoreInv, StoreTypes
<1>4. /\ rows' \in Table
      /\ \A i \in t.new : i \in Row /\ rows[i] = Null /\ rows'[i] = t.view[i]
                          /\ rows'[i] \in Account
      /\ \A i \in touched :
           /\ i \in Row /\ rows[i] \in Account /\ rows'[i] \in Account
           /\ rows'[i].path = IF t.view[i].path # t.base[i].path
                              THEN t.view[i].path ELSE rows[i].path
           /\ i \in Live(t.view) \ t.new
      /\ \A i \in Row \ (t.new \cup touched) : rows'[i] = rows[i]
  BY ImportedRows
<1>5. \A i \in Row \ t.new : t.view[i] # t.base[i] => i \in touched
  BY DEF Touched
<1> HIDE DEF t, touched
<1>6. \A i \in t.new \cup touched : i \in Live(rows')
  BY <1>4, LiveRows
<1>7. \A i \in Live(rows) : i \in Row /\ i \in Live(rows') /\ rows[i] \in Account
                            /\ (i \in touched \/ rows'[i] = rows[i])
  <2> SUFFICES ASSUME NEW i \in Live(rows)
               PROVE  i \in Row /\ i \in Live(rows') /\ rows[i] \in Account
                      /\ (i \in touched \/ rows'[i] = rows[i])
    OBVIOUS
  <2>1. i \in Row /\ rows[i] # Null
    BY DEF Live
  <2>2. i \notin t.new /\ rows[i] \in Account
    BY <1>3, <1>4, <2>1, LiveRows
  <2>3. i \notin touched => i \in Live(rows')
    BY <1>4, <2>1, <2>2 DEF Live
  <2> QED BY <1>4, <1>6, <2>1, <2>2, <2>3
<1>8. \A p : p \in strays \cup t.old \cup {rows[i].path : i \in touched} => p \in Tidy'
  BY <1>1 DEF Tidy
<1>9. Tidy \subseteq Tidy'
  <2> SUFFICES ASSUME NEW p \in Tidy, p \notin strays PROVE p \in Tidy'
    BY <1>8
  <2>1. PICK i \in Live(rows) : rows[i].path = p
    BY DEF Tidy
  <2>2. CASE i \in touched
    BY <1>8, <2>1, <2>2
  <2>3. CASE rows'[i] = rows[i]
    <3>1. i \in Live(rows') /\ rows'[i].path = p
      BY <1>7, <2>1, <2>3
    <3> QED BY <3>1 DEF Tidy
  <2> QED BY <1>7, <2>2, <2>3
<1>10. t.files \subseteq Tidy'
  <2> SUFFICES ASSUME NEW p \in t.files, p \notin t.old PROVE p \in Tidy'
    BY <1>8
  <2>1. PICK i \in Live(t.view) : t.view[i].path = p
    BY <1>2 DEF Standing
  <2>2. i \in Row
    BY DEF Live
  <2>3. CASE i \in t.new
    <3>1. i \in Live(rows') /\ rows'[i].path = p
      BY <1>4, <1>6, <2>1, <2>3
    <3> QED BY <3>1 DEF Tidy
  <2>4. CASE i \notin t.new /\ t.view[i].path # t.base[i].path
    <3>1. i \in touched
      BY <1>5, <2>2, <2>4
    <3>2. i \in Live(rows') /\ rows'[i].path = p
      BY <1>4, <1>6, <2>1, <2>4, <3>1
    <3> QED BY <3>2 DEF Tidy
  <2>5. CASE i \notin t.new /\ t.view[i].path = t.base[i].path
    <3>1. i \in Live(t.base)
      BY <1>2, <2>1, <2>5 DEF Standing
    <3>2. p \in Tidy
      BY <1>2, <2>1, <2>5, <3>1 DEF Standing
    <3> QED BY <1>9, <3>2
  <2> QED BY <2>3, <2>4, <2>5
<1>11. \A i \in Live(rows') : rows'[i].path \in Kept
  <2> SUFFICES ASSUME NEW i \in Live(rows') PROVE rows'[i].path \in Kept
    OBVIOUS
  <2>0. i \in Row
    BY DEF Live
  <2>1. CASE i \in t.new
    <3>1. t.view[i].path \in t.files
      BY <1>2, <2>1 DEF Standing
    <3> QED BY <1>2, <1>4, <2>1, <3>1 DEF Standing
  <2>2. CASE i \in touched /\ t.view[i].path # t.base[i].path
    <3>1. t.view[i].path \in t.files
      BY <1>2, <1>4, <2>2 DEF Standing
    <3> QED BY <1>2, <1>4, <2>2, <3>1 DEF Standing
  <2>3. CASE i \in touched /\ t.view[i].path = t.base[i].path
    <3>1. i \in Live(rows)
      BY <1>3, <1>4, <2>3, LiveRows
    <3> QED BY <1>4, <2>3, <3>1, KeptMeans DEF StoreInv
  <2>4. CASE i \notin t.new \cup touched
    <3>1. i \in Live(rows) /\ rows'[i] = rows[i]
      BY <1>4, <2>0, <2>4 DEF Live
    <3> QED BY <3>1, KeptMeans DEF StoreInv
  <2> QED BY <2>1, <2>2, <2>3, <2>4
<1>12. \A i \in Row : rows[i] # Null => rows'[i] # Null
  BY <1>4, StoreAssumption DEF StoreAssumption
<1>13. \A q \in Request : \/ imp'[q] = imp[q] /\ \A i \in imp[q].new : rows'[i] = Null
                          \/ imp'[q] = Idle /\ imp[q].files \subseteq Tidy'
  <2> SUFFICES ASSUME NEW q \in Request \ {r}, NEW i \in imp[q].new
               PROVE  rows'[i] = Null
    BY <1>1, <1>3, <1>10 DEF t
  <2>1. imp[q] # Idle
    BY IdleParts
  <2>2. Standing(imp[q], rows, Kept, Tidy)
    BY <2>1 DEF StoreInv, ImportsInv
  <2>3. rows[i] = Null /\ i \in Row
    BY <2>2 DEF Standing, OpenImports
  <2>4. i \notin t.new
    BY DEF StoreInv, ImportsInv, t
  <2>5. i \notin touched
    BY <1>4, <2>3, StoreAssumption DEF StoreAssumption
  <2> QED BY <1>4, <2>3, <2>4, <2>5
<1>14. strays' \subseteq Path
  <2>1. \A i \in touched : rows[i].path \in Path
    BY <1>4 DEF Account
  <2> QED BY <1>1, <1>3, <2>1
<1>15. imp' \in [Request -> OpenImports \cup {Idle}]
  BY <1>1, <1>3
<1> QED
  BY <1>1, <1>4, <1>9, <1>11, <1>12, <1>13, <1>14, <1>15, TableStep

-----------------------------------------------------------------------------
(* The validation                                                          *)

\* Only the validation's own record changes.
LEMMA ValStep ==
    ASSUME StoreInv, UNCHANGED <<rows, disk, imp, undone, strays>>,
           val' = Quiet \/ Watching(val', rows)
    PROVE  StoreInv'
<1>1. StoreTypes' /\ ImportsInv'
  BY DEF StoreInv, StoreTypes, ImportsInv, Kept, Tidy
<1>2. SessionsKept' /\ NoStrayFiles'
  BY DEF StoreInv, SessionsKept, NoStrayFiles
<1> QED
  BY <1>1, <1>2 DEF StoreInv

LEMMA OpenValidationStep ==
    ASSUME StoreInv, NEW I, I \subseteq Live(rows), OpenValidation(I)
    PROVE  StoreInv'
<1>1. /\ val' = [pc |-> "open", todo |-> I, base |-> rows, view |-> rows, told |-> {}]
      /\ UNCHANGED <<rows, disk, imp, undone, strays>>
  BY DEF OpenValidation
<1>2. /\ val'.todo = I /\ val'.base = rows /\ val'.view = rows /\ val'.told = {}
      /\ I \subseteq Row /\ rows \in Table
  BY <1>1 DEF StoreInv, StoreTypes, Live
<1>3. val' \in OpenValidations
  BY <1>1, <1>2 DEF OpenValidations
<1>4. Watching(val', rows)
  BY <1>2, <1>3, LiveRows DEF Watching, Live
<1> QED
  BY <1>1, <1>4, ValStep

LEMMA ValidateStep ==
    ASSUME StoreInv, NEW i \in Row, Validate(i)
    PROVE  StoreInv'
<1>1. /\ val.pc = "open" /\ i \in val.todo /\ UNCHANGED <<rows, disk, imp, undone, strays>>
  BY DEF Validate
<1>2. PICK ok \in IF Refused(val.base[i]) THEN {FALSE} ELSE BOOLEAN :
        val' = [val EXCEPT !.todo = @ \ {i}, !.view[i] = Judged(@, ok),
                           !.told = IF ok THEN @ \cup {i} ELSE @]
  BY DEF Validate
<1>3. Watching(val, rows) /\ val \in OpenValidations
  BY <1>1, OpenWatches
<1> DEFINE row == val.view[i]
           told2 == IF ok THEN val.told \cup {i} ELSE val.told
           view2 == [val.view EXCEPT ![i] = Judged(row, ok)]
           v2 == [val EXCEPT !.todo = @ \ {i}, !.view[i] = Judged(@, ok),
                             !.told = IF ok THEN @ \cup {i} ELSE @]
<1>4. i \in Live(val.base) /\ row \in Account /\ row.path = val.base[i].path
  BY <1>1, <1>3 DEF Watching
<1>5. Judged(row, ok) \in Account /\ Judged(row, ok).path = row.path
  <2>1. row.path \in Path /\ disk[row.path] \in User \cup {Null}
    BY <1>4 DEF Account, StoreInv, StoreTypes
  <2>2. ok => disk[row.path] \in User
    BY <1>2, <1>4, <2>1 DEF Refused
  <2> HIDE DEF row
  <2> QED BY <1>4, <2>2 DEF Judged, Account
<1>6. /\ val.view \in Table /\ val.todo \subseteq Row /\ told2 \subseteq Row
  BY <1>3 DEF OpenValidations
<1> HIDE DEF row
<1>7. /\ view2 \in Table /\ view2[i] = Judged(row, ok)
      /\ \A j \in Row \ {i} : view2[j] = val.view[j]
  BY <1>5, <1>6 DEF Table
<1>8. /\ v2 \in OpenValidations /\ v2.todo = val.todo \ {i} /\ v2.base = val.base
      /\ v2.view = view2 /\ v2.told = told2
  BY <1>3, <1>6, <1>7 DEF OpenValidations, row
<1>9. val' = v2
  BY <1>2
<1> HIDE DEF v2, view2
<1>10. Watching(v2, rows)
  <2>1. \A j \in Live(val.base) : /\ rows[j] # Null /\ view2[j] \in Account
                                  /\ view2[j].path = val.base[j].path
    BY <1>3, <1>4, <1>5, <1>7 DEF Watching, Live
  <2>2. v2.todo \cup v2.told \subseteq Live(val.base)
    BY <1>3, <1>4, <1>8 DEF Watching
  <2>3. \A j \in Row \ Live(val.base) : view2[j] = val.base[j]
    BY <1>3, <1>4, <1>7 DEF Watching
  <2> QED BY <1>8, <2>1, <2>2, <2>3 DEF Watching
<1> QED
  BY <1>1, <1>9, <1>10, ValStep

LEMMA CommitVerdictsStep ==
    ASSUME StoreInv, CommitVerdicts
    PROVE  StoreInv'
<1>1. /\ val.pc = "open" /\ val' = Quiet /\ UNCHANGED <<disk, imp, undone, strays>>
      /\ rows' = Validated(val) /\ \A i \in Written(val) : rows[i] # Gone
  BY DEF CommitVerdicts, WriteFree, Lands
<1>2. Watching(val, rows) /\ val \in OpenValidations
  BY <1>1, OpenWatches
<1>3. /\ rows \in Table /\ val.base \in Table /\ val.view \in Table /\ val.told \subseteq Row
      /\ imp \in [Request -> OpenImports \cup {Idle}] /\ strays \subseteq Path
  BY <1>2 DEF OpenValidations, StoreInv, StoreTypes
<1>4. ASSUME NEW i \in Written(val)
      PROVE  /\ i \in Live(rows) /\ rows'[i] \in Account
             /\ rows'[i].path = rows[i].path
  <2>1. i \in Row /\ (i \in val.told \/ val.view[i] # val.base[i])
    BY <1>3 DEF Written
  <2>2. i \in Live(val.base)
    BY <1>2, <2>1 DEF Watching
  <2>3. rows[i] # Null /\ val.view[i] \in Account /\ val.view[i].path = val.base[i].path
    BY <1>2, <2>2 DEF Watching
  <2>4. rows[i] \in Account /\ val.base[i] \in Account
    BY <1>1, <1>3, <2>1, <2>2, <2>3, LiveRows DEF Table
  <2>5. rows'[i] = Merged(rows[i], val.base[i], val.view[i])
    BY <1>1, <2>1 DEF Validated
  <2>6. rows'[i] \in Account /\ rows'[i].path = rows[i].path
    BY <2>3, <2>4, <2>5, MergedRow
  <2>7. i \in Live(rows)
    BY <1>3, <2>1, <2>4, LiveRows
  <2> QED BY <2>6, <2>7
<1>5. \A i \in Row \ Written(val) : rows'[i] = rows[i]
  BY <1>1 DEF Validated
<1>6. rows' \in Table
  <2>1. rows' = [i \in Row |-> rows'[i]]
    BY <1>1 DEF Validated
  <2>2. \A i \in Row : rows'[i] \in Account \cup {Null, Gone}
    BY <1>3, <1>4, <1>5 DEF Table
  <2> QED BY <2>1, <2>2 DEF Table
<1>7. \A i \in Row : (i \in Live(rows') <=> i \in Live(rows))
  <2> SUFFICES ASSUME NEW i \in Row PROVE i \in Live(rows') <=> i \in Live(rows)
    OBVIOUS
  <2>1. CASE i \in Written(val)
    BY <1>4, <1>6, <2>1, LiveRows
  <2>2. CASE i \notin Written(val)
    BY <1>5, <2>2 DEF Live
  <2> QED BY <2>1, <2>2
<1>8. \A i \in Live(rows) : i \in Live(rows') /\ rows'[i].path = rows[i].path
  BY <1>4, <1>5, <1>7 DEF Live
<1>9. Tidy \subseteq Tidy'
  BY <1>1, <1>8 DEF Tidy
<1>10. \A i \in Live(rows') : rows'[i].path \in Kept
  <2>1. \A i \in Live(rows') : i \in Live(rows)
    BY <1>7 DEF Live
  <2> QED BY <1>8, <2>1, KeptMeans DEF StoreInv
<1>11. \A i \in Row : rows[i] # Null => rows'[i] # Null
  <2>1. \A i \in Live(rows') : rows'[i] # Null
    BY DEF Live
  <2> QED BY <1>4, <1>5, <1>8, <2>1
<1>12. \A q \in Request : \A i \in imp[q].new : rows'[i] = Null
  <2> SUFFICES ASSUME NEW q \in Request, NEW i \in imp[q].new PROVE rows'[i] = Null
    OBVIOUS
  <2>1. imp[q] # Idle
    BY IdleParts
  <2>2. Standing(imp[q], rows, Kept, Tidy)
    BY <2>1 DEF StoreInv, ImportsInv
  <2>3. rows[i] = Null /\ i \in Row
    BY <2>2 DEF Standing, OpenImports
  <2> QED BY <1>4, <1>5, <2>3 DEF Live
<1> QED
  BY <1>1, <1>3, <1>6, <1>9, <1>10, <1>11, <1>12, TableStep

-----------------------------------------------------------------------------
LEMMA StoreInvInit == StoreInit => StoreInv
<1> SUFFICES ASSUME StoreInit PROVE StoreInv
  OBVIOUS
<1>1. /\ rows = [i \in Row |-> Null] /\ disk = [p \in Path |-> Null]
      /\ imp = [r \in Request |-> Idle] /\ val = Quiet /\ undone = {} /\ strays = {}
  BY DEF StoreInit
<1>2. StoreTypes
  BY <1>1 DEF StoreTypes, Table
<1>3. ImportsInv
  BY <1>1, IdleParts DEF ImportsInv
<1>4. SessionsKept /\ NoStrayFiles
  BY <1>1 DEF SessionsKept, NoStrayFiles, Live
<1> QED
  BY <1>1, <1>2, <1>3, <1>4 DEF StoreInv

LEMMA StoreInvNext == StoreInv /\ [StoreNext]_storeVars => StoreInv'
<1> SUFFICES ASSUME StoreInv, [StoreNext]_storeVars PROVE StoreInv'
  OBVIOUS
<1>1. ASSUME NEW r \in Request, ImportStep(r) PROVE StoreInv'
  BY <1>1, OpenImportStep, CommitImportStep, FailingSteps, ReimportStep, InsertStep DEF ImportStep
<1>2. ASSUME NEW i \in Row, DeleteAccount(i) PROVE StoreInv'
  BY <1>2, DeleteStep
<1>3. ASSUME NEW i \in Row, OpenValidation({i} \cap Live(rows)) PROVE StoreInv'
  BY <1>3, OpenValidationStep
<1>4. CASE OpenValidation(Selected)
  BY <1>4, OpenValidationStep DEF Selected
<1>9. ASSUME NEW i \in Row, SetEnabled(i) PROVE StoreInv'
  <2>1. UNCHANGED <<rows, disk, imp, undone, strays, val>>
    BY <1>9 DEF SetEnabled
  <2> QED BY <2>1, ValStep DEF StoreInv
<1>5. ASSUME NEW i \in Row, Validate(i) PROVE StoreInv'
  BY <1>5, ValidateStep
<1>6. CASE CommitVerdicts
  BY <1>6, CommitVerdictsStep
<1>7. CASE VerdictsLost
  BY <1>7, ValStep DEF VerdictsLost
<1>8. CASE UNCHANGED storeVars
  <2>1. UNCHANGED <<rows, disk, imp, undone, strays, val>>
    BY <1>8 DEF storeVars
  <2> QED BY <2>1, ValStep DEF StoreInv
<1> QED
  BY <1>1, <1>2, <1>3, <1>4, <1>5, <1>6, <1>7, <1>8, <1>9 DEF StoreNext, Validation

(* Whatever fails, overlaps or is imported again, the session file of an   *)
(* account is there, unless an import that wrote it failed to commit       *)
(* (accounts.py 325-476, account_tasks.py 43-84).                          *)
THEOREM SessionsKeptHolds == StoreSpec => []SessionsKept
<1>1. StoreInv => SessionsKept
  BY DEF StoreInv
<1>2. StoreInit => StoreInv
  BY StoreInvInit
<1>3. StoreInv /\ [StoreNext]_storeVars => StoreInv'
  BY StoreInvNext
<1> QED
  BY <1>1, <1>2, <1>3, PTL DEF StoreSpec

(* A session file no account refers to is a deleted account's, one that    *)
(* another replaced, or that of an import that broke off before its commit *)
(* (accounts.py 455-476, 565-598).                                         *)
THEOREM NoStrayFilesHolds == StoreSpec => []NoStrayFiles
<1>1. StoreInv => NoStrayFiles
  BY DEF StoreInv
<1>2. StoreInit => StoreInv
  BY StoreInvInit
<1>3. StoreInv /\ [StoreNext]_storeVars => StoreInv'
  BY StoreInvNext
<1> QED
  BY <1>1, <1>2, <1>3, PTL DEF StoreSpec
=============================================================================
