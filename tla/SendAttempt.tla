----------------------------- MODULE SendAttempt -----------------------------
(***************************************************************************)
(* One campaign message and the calls made for it, from the template to    *)
(* what becomes of the message and of the account that sends it.           *)
(*                                                                         *)
(* A call of telegram/adapter.py (send_message, send_file, run_operation)  *)
(* works on a copy of the session file with a client of its own, step by   *)
(* step, and each step may raise what Telegram or the network raises.  The *)
(* error reaches the caller as a code, and by the code alone the caller    *)
(* (workers/send_tasks.py for a campaign, the chat and the operation       *)
(* campaigns otherwise) decides.  Queue, lock and commits are              *)
(* SendDispatch's; here the steps inside one attempt are told apart.       *)
(***************************************************************************)
EXTENDS Scheduling, MessageText

CONSTANTS
    None,
    Bodies,       \* template bodies
    Names,        \* what {name} may stand for
    Views,        \* send settings
    Errors,       \* the exceptions a request may raise, by class name
    MaxAttempts,  \* settings.max_failed_attempts
    MaxTime,      \* bound: the clock
    MaxCalls,     \* bound: calls by the chat and by operation campaigns
    MaxEnables,   \* bound: the account enabled again after a failure
    MaxLitter     \* bound: copies left behind

ASSUME AttemptAssumption ==
    /\ Bodies \cup Names \subseteq Seq(Pieces)
    /\ Views \subseteq View
    /\ \A v \in Views : v.success >= 1 /\ v.failure >= 1   \* SendSettings
    /\ MaxAttempts \in Nat \ {0}
    /\ {MaxTime, MaxCalls, MaxEnables, MaxLitter} \subseteq Nat

VARIABLES
    draft,    \* the template body and what stands for {name}, until it is rendered
    msg,      \* the message_records row
    view,     \* send_settings of its campaign
    account,  \* status and enabled of the account
    book,     \* the target in the account's contact list: "no", "own" or "tmp"
    temp,     \* copies of the session file that exist
    call,     \* the call of the adapter that runs, and what it has come to
    tick,     \* when the tick began that has the message in its batch, or None
    now,
    calls, enables,
    \* Observability.
    had,      \* book at the start
    blind,    \* get_entity has failed although the target was a contact
    stuck,    \* a contact of a call stays: deletion refused, or the process died
    litter    \* copies left behind by processes that died

ghosts == <<had, blind, stuck, litter>>
bounds == <<calls, enables>>
vars == <<draft, msg, view, account, book, temp, call, tick, now, bounds, ghosts>>

-----------------------------------------------------------------------------
(* Error codes                                                             *)

Kill == {"PeerFloodError", "FloodError", "UserDeactivatedError", "UserDeactivatedBanError"}

FailFast == {"ValueError", "PhoneNotOccupiedError", "UsernameInvalidError",
             "UsernameNotOccupiedError", "PhoneNumberInvalidError", "PhoneNumberBannedError"}

ASSUME NoneIsNoError == None \notin Kill \cup FailFast \cup {"FloodWaitError"} \cup Int

AuthErrors == {"AuthKeyError", "AuthKeyDuplicatedError", "AuthKeyUnregisteredError",
               "UserDeactivatedError", "SessionPasswordNeededError"}

Network == {"ConnectionError", "TimeoutError", "OSError"}
NotRpc == Network \cup {"ValueError"}

\* Bug: the error inside a ResolveTargetError is not looked at.
SendCodeOuter(pc, e) ==
    CASE pc = "import"                           -> "ValueError"
      [] pc # "import" /\ e = "FloodWaitError"   -> "flood_wait"
      [] OTHER                                   -> e

\* The except clause of send_message and send_file: FloodWaitError has a code
\* of its own, a ResolveTargetError gives the name of the error inside it.
SendCode(pc, e) == IF e = "FloodWaitError" /\ pc # "import" THEN "flood_wait" ELSE e

\* _classify_telethon_error.
Classify(e) ==
    CASE e = "FloodWaitError"           -> "flood_wait"
      [] e = "PasswordHashInvalidError" -> "password_invalid"
      [] e \in AuthErrors               -> "auth_invalid"
      [] e \in Network                  -> "network"
      [] e \notin NotRpc \cup AuthErrors \cup {"FloodWaitError", "PasswordHashInvalidError"}
                                        -> "rpc_error"
      [] OTHER                          -> e

\* modify_password catches the error of edit_2fa itself.
OperationCode(pc, operation, e) ==
    IF pc = "act" /\ operation = "modify_password" THEN e ELSE Classify(e)

CodeOf(c, e) ==
    IF c.kind = "operation" THEN OperationCode(c.pc, c.what, e) ELSE SendCode(c.pc, e)

-----------------------------------------------------------------------------
(* State                                                                   *)

\* kind: who calls; what: the target ("user" for a username or an id, "phone")
\* or the operation; said: what was raised in the call, as <<step, exception>>;
\* at: when the tick began.
NoCall == [pc |-> "idle", kind |-> "none", what |-> "none", code |-> None, said |-> {}, at |-> 0]

Steps == {"open", "connect", "authorize", "resolve", "import", "forget", "act"}

Codes == Errors \cup {"ok", "flood_wait", "password_invalid", "auth_invalid", "network",
                      "rpc_error", "session_missing", "session_unauthorized",
                      "telegram_not_configured", "missing_parameter", "ValueError"}

Operations == {"request", "each", "modify_password", "modify_avatar"}

TypeOK ==
    /\ draft = None \/ draft \in [body: Bodies, name: Names]
    /\ msg \in [status: {"draft", "queued", "retry", "sent", "failed", "failed_permanent"},
                to: {"user", "phone"}, attempts: 0..MaxAttempts, due: Nat, tried: Nat]
    /\ view \in Views
    /\ account \in [status: {"active", "limited", "error"}, enabled: BOOLEAN]
    /\ book \in {"no", "own", "tmp"}
    /\ temp \in Nat /\ litter \in 0..temp
    /\ call \in [pc: {"idle", "connect", "authorize", "resolve", "import", "forget",
                      "act", "disconnect", "done"},
                 kind: {"none", "campaign", "chat", "operation"},
                 what: {"none", "user", "phone"} \cup Operations,
                 code: Codes \cup {None},
                 said: SUBSET (Steps \X (Errors \cup {"ValueError"})), at: Nat]
    /\ tick \in (0..now) \cup {None}
    /\ now \in 0..MaxTime /\ calls \in 0..MaxCalls /\ enables \in 0..MaxEnables
    /\ had \in {"no", "own"} /\ {blind, stuck} \subseteq BOOLEAN

Init ==
    /\ draft \in [body: Bodies, name: Names]
    /\ view \in Views
    /\ \E to \in {"user", "phone"} :
         msg = [status |-> "draft", to |-> to, attempts |-> 0, due |-> 0, tried |-> 0]
    /\ account = [status |-> "active", enabled |-> TRUE]
    /\ had \in {"no", "own"} /\ book = had
    /\ temp = 0 /\ call = NoCall /\ tick = None /\ now = 0 /\ calls = 0 /\ enables = 0
    /\ blind = FALSE /\ stuck = FALSE /\ litter = 0

\* build_imported_target_records: the body is rendered once, the row is due.
Rendered == RenderMessage(draft.body, draft.name)

Enqueue ==
    /\ msg.status = "draft"
    /\ msg' = [msg EXCEPT !.status = "queued"]
    /\ draft' = None
    /\ UNCHANGED <<view, account, book, temp, call, tick, now, bounds, ghosts>>

-----------------------------------------------------------------------------
(* A call of the adapter                                                   *)

Ends(c, code) == [c EXCEPT !.pc = "disconnect", !.code = code]
Returns(c, code) == [c EXCEPT !.pc = "done", !.code = code]

\* An exception in this step, whatever becomes of it; and one that ends the call.
Hears(c, e) == [c EXCEPT !.said = @ \cup {<<c.pc, e>>}]
Raises(c, e) == Ends(Hears(c, e), CodeOf(c, e))

\* Not configured, or no session file: no copy is made.  Otherwise the copy
\* and the client, and a copy whose client cannot be built is unlinked.
Opens(c) ==
    \/ /\ call' \in {Returns(c, "telegram_not_configured"), Returns(c, "session_missing"),
                     Returns([c EXCEPT !.said = {<<"open", "ValueError">>}], "ValueError")}
       /\ temp' = temp
    \/ /\ call' = [c EXCEPT !.pc = "connect"]
       /\ temp' = temp + 1

Connect ==
    /\ call.pc = "connect"
    /\ \/ call' = [call EXCEPT !.pc = "authorize"]
       \/ \E e \in Errors : call' = Raises(call, e)
    /\ UNCHANGED <<draft, msg, view, account, book, temp, tick, now, bounds, ghosts>>

\* is_user_authorized makes a request and answers any error of Telegram with
\* False; only what is none of Telegram's is raised.
Authorize ==
    /\ call.pc = "authorize"
    /\ \/ call' = [call EXCEPT !.pc = IF call.kind = "operation" THEN "act" ELSE "resolve"]
       \/ \E e \in Errors \ NotRpc : call' = Ends(Hears(call, e), "session_unauthorized")
       \/ \E e \in Errors \cap NotRpc : call' = Raises(call, e)
    /\ UNCHANGED <<draft, msg, view, account, book, temp, tick, now, bounds, ghosts>>

\* resolve_target: get_entity; for a phone whatever it raises is dropped.
Resolve ==
    /\ call.pc = "resolve"
    /\ \/ /\ call.what = "phone" => book # "no"
          /\ call' = [call EXCEPT !.pc = "act"]
          /\ blind' = blind
       \/ /\ call.what = "user"
          /\ \E e \in Errors : call' = Raises(call, e)
          /\ blind' = blind
       \/ /\ call.what = "phone"
          /\ \E e \in Errors \cup {"ValueError"} : call' = [Hears(call, e) EXCEPT !.pc = "import"]
          /\ blind' = (blind \/ book = "own")
    /\ UNCHANGED <<draft, msg, view, account, book, temp, tick, now, bounds, had, stuck, litter>>

\* ImportContacts finds the number, finds nobody, or raises.
Import ==
    /\ call.pc = "import"
    /\ \/ /\ call' = [call EXCEPT !.pc = "forget"]
          /\ book' = IF book = "no" THEN "tmp" ELSE book
       \/ /\ book # "own"
          /\ call' = Raises(call, "ValueError")
          /\ book' = book
       \/ /\ \E e \in Errors : call' = Raises(call, e)
          /\ book' = book
    /\ UNCHANGED <<draft, msg, view, account, temp, tick, now, bounds, ghosts>>

\* DeleteContacts, best effort.
Forget ==
    /\ call.pc = "forget"
    /\ \/ /\ call' = [call EXCEPT !.pc = "act"]
          /\ book' = "no" /\ stuck' = stuck
       \/ /\ \E e \in Errors : call' = [Hears(call, e) EXCEPT !.pc = "act"]
          /\ book' = book /\ stuck' = TRUE
    /\ UNCHANGED <<draft, msg, view, account, temp, tick, now, bounds, had, blind, litter>>

\* The request itself.  leave_group and appeal_mutual go on after an error of
\* one dialog or contact; an operation without its parameter makes no request.
Act ==
    /\ call.pc = "act"
    /\ \/ call' = Ends(call, "ok")
       \/ /\ call.what \in {"modify_password", "modify_avatar"}
          /\ call' = Ends(call, "missing_parameter")
       \/ \E e \in Errors : call' = Raises(call, e)
    /\ UNCHANGED <<draft, msg, view, account, book, temp, tick, now, bounds, ghosts>>

\* Bug: the copy is unlinked only when disconnect() did not raise.
DisconnectFirst ==
    /\ call.pc = "disconnect"
    /\ call' = [call EXCEPT !.pc = "done"]
    /\ temp' \in {temp, temp - 1}
    /\ UNCHANGED <<draft, msg, view, account, book, tick, now, bounds, ghosts>>

\* The finally clause: disconnect() whatever it raises, then the copy.
Disconnect ==
    /\ call.pc = "disconnect"
    /\ call' = [call EXCEPT !.pc = "done"]
    /\ temp' = temp - 1
    /\ UNCHANGED <<draft, msg, view, account, book, tick, now, bounds, ghosts>>

-----------------------------------------------------------------------------
(* dispatch_send_queue: the message's turn in a tick                       *)

Eligible == account.enabled /\ account.status = "active"

\* The batch is selected, and its time is that of every message in it.
StartTick ==
    /\ tick = None /\ call.kind # "campaign"
    /\ msg.status \in {"queued", "retry"} /\ msg.due <= now
    /\ tick' = now
    /\ UNCHANGED <<draft, msg, view, account, book, temp, call, now, bounds, ghosts>>

\* The message's turn, after those before it in the batch.
TakesTurn == tick # None /\ call.pc = "idle" /\ tick' = None

\* The campaign does not run, or the worker died before this message.
PassOver ==
    /\ TakesTurn
    /\ UNCHANGED <<draft, msg, view, account, book, temp, call, now, bounds, ghosts>>

Unavailable ==
    /\ TakesTurn /\ ~Eligible
    /\ msg' = [msg EXCEPT !.status = "failed"]
    /\ UNCHANGED <<draft, view, account, book, temp, call, now, bounds, ghosts>>

Postpone ==
    /\ TakesTurn /\ Eligible /\ InQuietHours(tick, view)
    /\ \E t \in NextRunAfterFailure(tick, view) : msg' = [msg EXCEPT !.due = t]
    /\ UNCHANGED <<draft, view, account, book, temp, call, now, bounds, ghosts>>

Attempt ==
    /\ TakesTurn /\ Eligible /\ ~InQuietHours(tick, view)
    /\ Opens([NoCall EXCEPT !.kind = "campaign", !.what = msg.to, !.at = tick])
    /\ UNCHANGED <<draft, msg, view, account, book, now, bounds, ghosts>>

\* The row as the attempt leaves it; all of it is committed together.
Tried(status, t) ==
    [msg EXCEPT !.status = status, !.due = t, !.attempts = @ + 1, !.tried = call.at]

\* What the code makes of the message, due at t, and of the account.
Verdict(t) ==
    CASE call.code \in Kill ->
           /\ account' = [status |-> "limited", enabled |-> FALSE]
           /\ msg' = Tried("failed_permanent", t)
      [] call.code \in FailFast ->
           /\ account' = account
           /\ msg' = Tried("failed_permanent", t)
      [] call.code \notin Kill \cup FailFast /\ msg.attempts + 1 >= MaxAttempts ->
           /\ account' = IF call.code \in {"session_unauthorized", "session_missing"}
                         THEN [account EXCEPT !.status = "error"] ELSE account
           /\ msg' = Tried("failed_permanent", t)
      [] OTHER ->
           /\ account' = IF call.code = "flood_wait"
                         THEN [account EXCEPT !.status = "limited"] ELSE account
           /\ msg' = Tried("retry", t)

AttemptEnds ==
    /\ call.pc = "done" /\ call.kind = "campaign"
    /\ IF call.code = "ok"
       THEN /\ \E t \in NextRunAfterSuccess(call.at, view) :
                 msg' = Tried("sent", t)
            /\ account' = account
       ELSE \E t \in BackoffAfterSendFailure(call.at, view, msg.attempts + 1) : Verdict(t)
    /\ call' = NoCall
    /\ UNCHANGED <<draft, view, book, temp, tick, now, bounds, ghosts>>

-----------------------------------------------------------------------------
(* The chat and the operation campaigns: no code touches the account       *)

OtherCall(kind, what) ==
    /\ call.pc = "idle" /\ calls < MaxCalls
    /\ Eligible
    /\ calls' = calls + 1
    /\ Opens([NoCall EXCEPT !.kind = kind, !.what = what])
    /\ UNCHANGED <<draft, msg, view, account, book, tick, now, enables, ghosts>>

OtherCallEnds ==
    /\ call.pc = "done" /\ call.kind # "campaign"
    /\ call' = NoCall
    /\ UNCHANGED <<draft, msg, view, account, book, temp, tick, now, bounds, ghosts>>

-----------------------------------------------------------------------------
\* The process dies in a call: the attempt is not committed, the copy stays.
Crash ==
    /\ call.pc # "idle" /\ litter < MaxLitter
    /\ litter' = temp
    /\ stuck' = (stuck \/ book = "tmp")
    /\ call' = NoCall
    /\ UNCHANGED <<draft, msg, view, account, book, temp, tick, now, bounds, had, blind>>

\* An administrator enables the account again.
Enable ==
    /\ enables < MaxEnables /\ call.pc = "idle"
    /\ ~Eligible
    /\ account' = [status |-> "active", enabled |-> TRUE]
    /\ enables' = enables + 1
    /\ UNCHANGED <<draft, msg, view, book, temp, call, tick, now, calls, ghosts>>

Clock ==
    /\ now < MaxTime
    /\ now' = now + 1
    /\ UNCHANGED <<draft, msg, view, account, book, temp, call, tick, bounds, ghosts>>

Next ==
    \/ Enqueue
    \/ /\ msg.status # "draft"
       /\ \/ StartTick \/ PassOver \/ Unavailable \/ Postpone \/ Attempt \/ AttemptEnds
          \/ Connect \/ Authorize \/ Resolve \/ Import \/ Forget \/ Act \/ Disconnect
          \/ \E what \in {"user", "phone"} : OtherCall("chat", what)
          \/ \E operation \in Operations : OtherCall("operation", operation)
          \/ OtherCallEnds
          \/ Crash \/ Enable \/ Clock

Spec == Init /\ [][Next]_vars

-----------------------------------------------------------------------------
(* Between two calls no client and no copy of the session file is left,    *)
(* whichever step failed, except by a process that died; and the contact   *)
(* list is as it was, unless Telegram refused to delete the contact or did *)
(* not find one the account had: then the account loses its own            *)
(* (adapter.py 319-374, 495-504).                                          *)
CallCleansUp ==
    call.pc = "idle" =>
        /\ temp = litter
        /\ book # had => stuck \/ blind

\* What the caller of the adapter does not hear of: an error of Telegram that
\* is_user_authorized answers with False, one of get_entity for a phone, and one
\* of DeleteContacts.
Dropped(c) ==
    {s \in c.said : \/ (s[1] = "authorize" /\ s[2] \notin NotRpc)
                   \/ (s[1] = "resolve" /\ c.what = "phone")
                   \/ s[1] = "forget"}

(* What Telegram said in a step of an attempt reaches its consequence      *)
(* through the codes, whatever went wrong before it: an account it accuses *)
(* or has closed is disabled, a target it does not know is not asked for   *)
(* again, a flood wait rests the account.  Not so a flood wait while a     *)
(* phone number is imported, which has no code of its own, or on the last  *)
(* attempt; and not what Dropped names.  Of these, one that                *)
(* is_user_authorized met keeps the message from being sent and shows in   *)
(* the account's status on the last attempt only, even if the account is   *)
(* closed (adapter.py 342-374, 413-426, 459-494, send_tasks.py 266-320).   *)
ErrorsHaveTheirEffect ==
    [][LET last == msg.attempts + 1 >= MaxAttempts
           ended == msg'.attempts > msg.attempts
       IN  ended =>
           /\ \A s \in call.said \ Dropped(call) :
                /\ s[2] \in Kill => ~account'.enabled /\ msg'.status = "failed_permanent"
                /\ s[2] \in FailFast => msg'.status = "failed_permanent"
                /\ s[2] = "FloodWaitError" =>
                     account'.status = "limited" \/ last \/ s[1] = "import"
           /\ \A s \in Dropped(call) : s[1] = "authorize" =>
                msg'.status # "sent" /\ (last => account'.status = "error")]_vars

(* No attempt is made by a tick that began inside the quiet window,        *)
(* midnight in it or not, nor by one that began before the wait since the  *)
(* beginning of the tick that made the attempt before has passed: the      *)
(* failure interval, doubled with every attempt and capped.  The time is   *)
(* the tick's, taken once for its batch: one that began before the window  *)
(* goes on sending inside it (scheduling.py 48-57, 80-99, send_tasks.py    *)
(* 111, 171-174, 266-276).                                                 *)
AttemptsSpaced ==
    [][call.kind = "none" /\ call'.kind = "campaign" =>
         /\ {view.quietStart, view.quietEnd} \subseteq 0..(DayLength - 1) =>
               tick % DayLength \notin QuietWindow(view.quietStart, view.quietEnd)
         /\ msg.attempts > 0 =>
               tick - msg.tried >= Min({view.failure * 2 ^ (msg.attempts - 1), Cap})]_vars

(* Every entity that is sent covers the text of its own tag, counted in    *)
(* UTF-16 units: no character before it, variable values and random        *)
(* expansions included, moves it (template_engine.py 122-200).             *)
EntitiesCoverValues ==
    draft # None =>
        LET pieces == ApplyContext(draft.body, draft.name)
            tags   == Tagged(pieces, Len(pieces))
            sent   == ToTelethonEntities(Rendered.entities)
        IN  /\ Len(sent) = Cardinality(tags)
            /\ \A i \in tags :
                 Span(Rendered.text, sent[Cardinality(Tagged(pieces, i))])
                   = Units(Shown(pieces[i]))
=============================================================================
