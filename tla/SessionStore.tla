---------------------------- MODULE SessionStore ----------------------------
(***************************************************************************)
(* Session files and the accounts rows that point to them: the zip import  *)
(* (POST /accounts/import-zip), the deletion of accounts, and the          *)
(* validation of sessions every 15 minutes and on demand, which also turns *)
(* an id made up from a phone number into the real one.                    *)
(*                                                                         *)
(* An import writes each file before it touches the database and commits   *)
(* once; a validation reads the rows, asks Telegram account by account,    *)
(* and commits once.  Both work on the snapshot of their transaction.  A   *)
(* row they update that is gone fails the flush, and so does an id that    *)
(* another row has (accounts.tg_user_id is UNIQUE).                        *)
(***************************************************************************)
EXTENDS Integers, FiniteSets

CONSTANTS
    Request,     \* slots of the API for concurrent imports
    Row,         \* primary keys, ascending
    User,        \* Telegram users, by their numeric id
    Phone, Name, \* names of entries: phone numbers, and names picked by hand
    Null, Gone,  \* no row yet, a deleted row
    Entry,       \* [stem, sub, uid, phone, user]: a session in an archive, its
                 \* sidecar's user_id and phone, and the user it logs in
    Revoked,     \* users whose sessions Telegram refuses
    Archives,    \* sets of entries that are uploaded together
    MaxImports, MaxDeletes   \* bounds: archives uploaded, deletions

Path == Phone \cup Name
Pending(ph) == <<"pending", ph>>

\* A row of the accounts table, the columns that matter here.
Account ==
    [uid: User \cup Path \cup {Pending(ph) : ph \in Phone}, phone: Phone \cup {Null},
     path: Path, status: {"imported", "active", "error"}]

ASSUME StoreAssumption ==
    /\ Row \subseteq Nat
    /\ Null \notin User \cup Phone \cup Name
    /\ Null # Gone /\ {Null, Gone} \cap Account = {}
    /\ Entry \subseteq [stem: Phone \cup Name, sub: BOOLEAN, uid: User \cup {Null},
                        phone: Phone \cup {Null}, user: User]
    /\ Archives \subseteq SUBSET Entry
    /\ Revoked \subseteq User
    /\ MaxImports \in Nat /\ MaxDeletes \in Nat

VARIABLES
    rows,     \* the accounts table
    enabled,  \* the rows whose flag enabled is set
    disk,     \* session_dir: the user a file logs in, Null if there is no file
    imp,      \* the imports in flight
    val,      \* the validation in flight
    \* Observability
    undone,   \* files removed by an import that failed to commit
    strays,   \* files left behind by a deletion, a failure or a newer file
    imports, deletes

storeVars == <<rows, enabled, disk, imp, val, undone, strays, imports, deletes>>

-----------------------------------------------------------------------------
Live(t) == {i \in Row : t[i] \notin {Null, Gone}}

\* _resolve_account_identity: <<tg_user_id, phone>>.  A name that looks like a
\* phone number is one, except as a folder; without a real id it stands in.
Identity(e) ==
    LET named == IF e.stem \in Phone THEN e.stem ELSE Null
        known == IF e.phone # Null THEN e.phone ELSE IF e.sub THEN Null ELSE named
    IN  IF e.uid # Null THEN <<e.uid, IF e.phone # Null THEN e.phone ELSE named>>
        ELSE IF known # Null THEN <<Pending(known), known>>
        ELSE <<e.stem, Null>>

\* base is the snapshot, view the transaction's own version, new and held the
\* rows it has inserted and locked, files what it has written, old the files its
\* rows had before.
Idle == [pc |-> "idle", todo |-> {}, base |-> <<>>, view |-> <<>>, new |-> {},
         held |-> {}, files |-> {}, old |-> {}]

Quiet == [pc |-> "idle", todo |-> {}, base |-> <<>>, view |-> <<>>, told |-> {}]

\* The rows an import has changed and not inserted.
Touched(t) == {i \in Row \ t.new : t.view[i] # t.base[i]}

\* One UPDATE per row, of the changed columns.
Merged(row, old, own) ==
    [uid    |-> IF own.uid # old.uid THEN own.uid ELSE row.uid,
     phone  |-> IF own.phone # old.phone THEN own.phone ELSE row.phone,
     path   |-> IF own.path # old.path THEN own.path ELSE row.path,
     status |-> IF own.status # old.status THEN own.status ELSE row.status]

Unlocked(I) == \A r \in Request : I \cap imp[r].held = {}

-----------------------------------------------------------------------------
(* POST /accounts/import-zip                                               *)

OpenImport(r) ==
    /\ imp[r].pc = "idle"
    /\ imports < MaxImports
    /\ imports' = imports + 1
    /\ \E archive \in Archives :
          imp' = [imp EXCEPT ![r] = [Idle EXCEPT !.pc = "open", !.todo = archive,
                                                 !.base = rows, !.view = rows]]
    /\ UNCHANGED <<rows, enabled, disk, val, undone, strays, deletes>>

\* The file is written first, over whatever was at its path.
WriteFile(e) ==
    /\ disk' = [disk EXCEPT ![e.stem] = e.user]
    /\ undone' = undone \ {e.stem}

\* The row of this id, else of this phone.
Found(t, e) ==
    LET id == Identity(e)
        byId == {i \in Live(t.view) : t.view[i].uid = id[1]}
    IN  IF byId # {} THEN byId
        ELSE {i \in Live(t.view) : id[2] # Null /\ t.view[i].phone = id[2]}

\* _persist_session for a known account: its file is the new one.
Reimport(r, e) ==
    LET t == imp[r]
    IN  /\ t.pc = "open" /\ e \in t.todo
        /\ \E i \in Found(t, e) :
              LET old == t.view[i]
                  row == [old EXCEPT !.path = e.stem,
                             !.status = IF @ = "error" THEN "imported" ELSE @,
                             !.phone = IF @ = Null THEN Identity(e)[2] ELSE @]
              IN  imp' = [imp EXCEPT ![r] = [t EXCEPT !.todo = @ \ {e}, !.view[i] = row,
                                 !.files = @ \cup {e.stem},
                                 !.old = @ \cup ({old.path} \ {e.stem})]]
        /\ WriteFile(e)
        /\ UNCHANGED <<rows, enabled, val, strays, imports, deletes>>

\* What an open import would insert, or has.
Claimed(r) == {imp[r].view[i].uid : i \in imp[r].new}

\* A new account is flushed at once, and with it every change made so far.
FlushWorks(r, uid) ==
    /\ \A i \in Touched(imp[r]) : rows[i] # Gone
    /\ \A i \in Live(rows) : rows[i].uid # uid

Unissued == {i \in Row : rows[i] = Null /\ \A r \in Request : i \notin imp[r].new}

Insert(r, e) ==
    LET t  == imp[r]
        id == Identity(e)
    IN  /\ t.pc = "open" /\ e \in t.todo
        /\ Found(t, e) = {}
        /\ FlushWorks(r, id[1])
        /\ \A q \in Request \ {r} : id[1] \notin Claimed(q)
        /\ \A q \in Request \ {r} : Touched(t) \cap imp[q].held = {}
        /\ \E i \in Unissued :
              /\ \A j \in Unissued : i <= j
              /\ imp' = [imp EXCEPT ![r] =
                    [t EXCEPT !.todo = @ \ {e}, !.files = @ \cup {e.stem},
                              !.view[i] = [uid |-> id[1], phone |-> id[2],
                                           path |-> e.stem, status |-> "imported"],
                              !.new = @ \cup {i}, !.held = @ \cup Touched(t)]]
        /\ WriteFile(e)
        /\ UNCHANGED <<rows, enabled, val, strays, imports, deletes>>

\* Mutant: the files are unlinked here too.
InsertFailsUnlinks(r, e) ==
    LET t == imp[r]
    IN  /\ t.pc = "open" /\ e \in t.todo
        /\ Found(t, e) = {}
        /\ ~FlushWorks(r, Identity(e)[1])
        /\ imp' = [imp EXCEPT ![r] = Idle]
        /\ disk' = [p \in Path |-> IF p \in t.files \cup {e.stem} THEN Null ELSE disk[p]]
        /\ UNCHANGED <<rows, enabled, val, undone, strays, imports, deletes>>

\* The flush fails in the middle of the archive: 500, the files stay.
InsertFails(r, e) ==
    LET t == imp[r]
    IN  /\ t.pc = "open" /\ e \in t.todo
        /\ Found(t, e) = {}
        /\ ~FlushWorks(r, Identity(e)[1])
        /\ imp' = [imp EXCEPT ![r] = Idle]
        /\ strays' = strays \cup t.files \cup {e.stem}
        /\ WriteFile(e)
        /\ UNCHANGED <<rows, enabled, val, imports, deletes>>

Ready(r) ==
    /\ imp[r].pc = "open" /\ imp[r].todo = {}
    /\ \A q \in Request \ {r} : Touched(imp[r]) \cap imp[q].held = {}

\* What the commit writes, and the files it leaves behind.
Imported(t) ==
    [i \in Row |-> IF i \in t.new THEN t.view[i]
                   ELSE IF i \in Touched(t) THEN Merged(rows[i], t.base[i], t.view[i])
                   ELSE rows[i]]

CommitImport(r) ==
    LET t == imp[r]
    IN  /\ Ready(r)
        /\ \A i \in Touched(t) : rows[i] # Gone
        /\ rows' = Imported(t)
        /\ imp' = [imp EXCEPT ![r] = Idle]
        /\ strays' = (strays \cup t.old \cup {rows[i].path : i \in Touched(t)})
                      \ {rows'[i].path : i \in Live(rows')}
        /\ UNCHANGED <<enabled, disk, val, undone, imports, deletes>>

\* Mutant: the files of a failed import are left alone.
CommitLeavesFiles(r) ==
    LET t == imp[r]
    IN  /\ Ready(r)
        /\ \E i \in Touched(t) : rows[i] = Gone
        /\ imp' = [imp EXCEPT ![r] = Idle]
        /\ UNCHANGED <<rows, enabled, disk, val, undone, strays, imports, deletes>>

\* The commit fails: every file the import wrote is unlinked.
CommitFails(r) ==
    LET t == imp[r]
    IN  /\ Ready(r)
        /\ \E i \in Touched(t) : rows[i] = Gone
        /\ disk' = [p \in Path |-> IF p \in t.files THEN Null ELSE disk[p]]
        /\ undone' = undone \cup t.files
        /\ imp' = [imp EXCEPT ![r] = Idle]
        /\ UNCHANGED <<rows, enabled, val, strays, imports, deletes>>

\* The process dies or the database breaks a deadlock: rolled back, the files stay.
ImportDies(r) ==
    /\ imp[r].pc = "open"
    /\ strays' = strays \cup imp[r].files
    /\ imp' = [imp EXCEPT ![r] = Idle]
    /\ UNCHANGED <<rows, enabled, disk, val, undone, imports, deletes>>

\* DELETE /accounts/batch: the file is not removed.
DeleteAccount(i) ==
    /\ deletes < MaxDeletes
    /\ deletes' = deletes + 1
    /\ i \in Live(rows)
    /\ Unlocked({i})
    /\ rows' = [rows EXCEPT ![i] = Gone]
    /\ strays' = strays \cup {rows[i].path}
    /\ UNCHANGED <<enabled, disk, imp, val, undone, imports>>

\* PATCH /accounts/{id} and /accounts/batch switch an account off or on again.
SetEnabled(i) ==
    /\ i \in Live(rows)
    /\ enabled' = IF i \in enabled THEN enabled \ {i} ELSE enabled \cup {i}
    /\ UNCHANGED <<rows, disk, imp, val, undone, strays, imports, deletes>>

-----------------------------------------------------------------------------
(* Validation                                                              *)

\* What validate_all_sessions selects.
Selected == Live(rows) \cap enabled

\* validate_all_sessions takes the enabled accounts, validate_now any one.
OpenValidation(I) ==
    /\ val.pc = "idle"
    /\ I # {}
    /\ val' = [pc |-> "open", todo |-> I, base |-> rows, view |-> rows, told |-> {}]
    /\ UNCHANGED <<rows, enabled, disk, imp, undone, strays, imports, deletes>>

\* Mutant: a refusal changes nothing.
JudgedIfOk(row, ok) ==
    IF ok THEN [row EXCEPT !.status = "active"] ELSE row

\* No file, or a login key that Telegram no longer accepts.
Refused(row) == disk[row.path] \in Revoked \cup {Null}

\* What Telegram's answer for one account makes of its row.
Judged(row, ok) ==
    [row EXCEPT !.status = IF ok THEN "active" ELSE "error",
                !.uid = IF ok /\ @ \in {Pending(ph) : ph \in Phone}
                        THEN disk[row.path] ELSE @]

Validate(i) ==
    /\ val.pc = "open" /\ i \in val.todo
    /\ \A j \in val.todo : i <= j
    /\ \E ok \in IF Refused(val.base[i]) THEN {FALSE} ELSE BOOLEAN :
          val' = [val EXCEPT !.todo = @ \ {i}, !.view[i] = Judged(@, ok),
                             !.told = IF ok THEN @ \cup {i} ELSE @]
    /\ UNCHANGED <<rows, enabled, disk, imp, undone, strays, imports, deletes>>

\* The rows it updates: an acceptance always writes last_login_at, a repeated
\* error nothing.
Written(v) == v.told \cup {i \in Row : v.view[i] # v.base[i]}

\* The tables after the commit, if no row it writes is gone.
Validated(v) ==
    [i \in Row |-> IF i \in Written(v) THEN Merged(rows[i], v.base[i], v.view[i])
                   ELSE rows[i]]

Collides(t) == \E i, j \in Live(t) : i # j /\ t[i].uid = t[j].uid

Lands(v) ==
    /\ \A i \in Written(v) : rows[i] # Gone
    /\ ~Collides(Validated(v))

\* No other transaction holds the rows, or an id it is about to give.
WriteFree ==
    /\ val.pc = "open" /\ val.todo = {}
    /\ Unlocked(Written(val))
    /\ \A r \in Request, i \in Written(val) : val.view[i].uid \notin Claimed(r)

CommitVerdicts ==
    /\ WriteFree
    /\ Lands(val)
    /\ rows' = Validated(val)
    /\ val' = Quiet
    /\ UNCHANGED <<enabled, disk, imp, undone, strays, imports, deletes>>

\* One row that cannot be written, and every verdict of the batch is lost.
VerdictsLost ==
    /\ WriteFree
    /\ ~Lands(val)
    /\ val' = Quiet
    /\ UNCHANGED <<rows, enabled, disk, imp, undone, strays, imports, deletes>>

-----------------------------------------------------------------------------
StoreInit ==
    /\ rows = [i \in Row |-> Null]
    /\ enabled = Row
    /\ disk = [p \in Path |-> Null]
    /\ imp = [r \in Request |-> Idle]
    /\ val = Quiet
    /\ undone = {} /\ strays = {}
    /\ imports = 0 /\ deletes = 0

ImportStep(r) ==
    \/ OpenImport(r) \/ CommitImport(r) \/ CommitFails(r) \/ ImportDies(r)
    \/ \E e \in Entry : Reimport(r, e) \/ Insert(r, e) \/ InsertFails(r, e)

Validation == CommitVerdicts \/ VerdictsLost \/ \E i \in Row : Validate(i)

StoreNext ==
    \/ \E r \in Request : ImportStep(r)
    \/ \E i \in Row : \/ DeleteAccount(i) \/ SetEnabled(i)
                     \/ OpenValidation({i} \cap Live(rows))
    \/ OpenValidation(Selected)
    \/ Validation

StoreSpec == StoreInit /\ [][StoreNext]_storeVars

\* Beat fires, a validation and an import run to their end.
StoreFairness ==
    /\ SF_storeVars(OpenValidation(Selected))
    /\ WF_storeVars(Validation)
    /\ \A r \in Request : WF_storeVars(ImportStep(r) /\ imp[r].pc = "open")

FairStoreSpec == StoreSpec /\ StoreFairness

-----------------------------------------------------------------------------
(* Properties                                                              *)

\* An account's session file is there, whatever fails, overlaps or is imported
\* again, except where an import of this very file failed to commit: that one
\* unlinks what it wrote, also over a file that was in use (import_zip).
SessionsKept ==
    \A i \in Live(rows) : disk[rows[i].path] # Null \/ rows[i].path \in undone

\* A login key no account refers to stays on disk only for a deleted account, a
\* superseded file or an import that broke off before its commit: what the
\* unlinking after a failed commit is for (written_paths in import_zip).
NoStrayFiles ==
    \A p \in Path :
        \/ disk[p] = Null
        \/ p \in strays
        \/ \E i \in Live(rows) : rows[i].path = p
        \/ \E r \in Request : p \in imp[r].files

\* Two rows for one user, the one under its real id, the other under its phone.
Doubled ==
    \E i, j \in Live(rows) : /\ rows[i].uid \in {Pending(ph) : ph \in Phone}
                             /\ i # j /\ rows[j].uid = disk[rows[i].path]

\* An enabled account that can no longer log in is found out by the validation, as
\* long as no user has two rows: a promotion that meets its own id in another row
\* fails the commit of every verdict, each time again.  A disabled one is not looked
\* at by beat (validate_all_sessions).
LockoutNoticed ==
    \A i \in Row :
        <>[](i \in Selected /\ Refused(rows[i]) /\ ~Doubled)
        => []<>(i \in Live(rows) /\ rows[i].status = "error")

=============================================================================
