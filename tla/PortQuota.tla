------------------------------ MODULE PortQuota ------------------------------
(***************************************************************************)
(* Ports: a merchant may have ports_total active accounts, 0 meaning any   *)
(* number, and ports_used caches how many it has.  POST /accounts/batch    *)
(* checks the quota and keeps the cache (services/port_quota.py); the      *)
(* other writers of accounts.status and of the merchant row do neither.    *)
(*                                                                         *)
(* A batch is one transaction at REPEATABLE READ whose snapshot opens when *)
(* the caller's token is checked.  Only FOR UPDATE reads the latest row;   *)
(* what the check reads so is gone with its local variable, and the        *)
(* recount loads the merchant from the snapshot again.                     *)
(* Every other request here changes blindly what it was told to, so that   *)
(* one atomic step says all about it.                                      *)
(***************************************************************************)
EXTENDS Integers, FiniteSets

CONSTANTS
    Request,      \* slots of the API for concurrent batch requests
    Account,
    Merchant,
    NoMerchant,
    MerchantOf,   \* [Account -> Merchant or NoMerchant], accounts.merchant_id
    Inactive,     \* the statuses other than active that a batch may set
    Quota,        \* the values of ports_total considered
    Ops           \* the other writers that occur, a subset of AllOps

AllOps == {"patch", "delete", "merchant", "expiry", "reset"}

ASSUME PortAssumption ==
    /\ IsFiniteSet(Account)
    /\ NoMerchant \notin Merchant
    /\ MerchantOf \in [Account -> Merchant \cup {NoMerchant}]
    /\ Inactive \cap {"active", "gone"} = {}
    /\ Inactive # {}
    /\ Quota \subseteq Nat
    /\ Ops \subseteq AllOps

VARIABLES
    acct,   \* accounts.status, "gone" once the row is deleted
    port,   \* the port columns of the merchants' rows
    req     \* the batch requests and their transactions

vars == <<acct, port, req>>

-----------------------------------------------------------------------------
Status == {"active"} \cup Inactive

PortRow == [total: Quota, used: Nat, expired: BOOLEAN]

\* pc, and what the transaction holds: seen and base are the snapshot of the
\* statuses and of ports_used, todo the merchants still to check or to recount,
\* rows and locked the rows it has locked, wrote and used the ports_used it has
\* written.
Idle ==
    [pc |-> "idle", ids |-> {}, want |-> "active",
     seen |-> [a \in Account |-> "gone"], base |-> [m \in Merchant |-> 0],
     todo |-> {}, rows |-> {}, locked |-> {}, wrote |-> {},
     used |-> [m \in Merchant |-> 0]]

Transaction ==
    [pc: {"idle", "check", "recount"}, ids: SUBSET Account, want: Status,
     seen: [Account -> Status \cup {"gone"}], base: [Merchant -> Nat],
     todo: SUBSET Merchant, rows: SUBSET Account,
     locked: SUBSET Merchant, wrote: SUBSET Merchant, used: [Merchant -> Nat]]

\* _count_active over a version s of the accounts.
Live(s, m) == {a \in Account : MerchantOf[a] = m /\ s[a] = "active"}

MerchantsOf(A) == {MerchantOf[a] : a \in A} \ {NoMerchant}

\* The accounts whose status a batch changes, as its snapshot shows them.
Changing(t) == {a \in t.ids : t.seen[a] # t.want}

\* What the transaction sees of the accounts: its own rows over its snapshot.
Own(t) == [a \in Account |-> IF a \in t.rows THEN t.want ELSE t.seen[a]]

RowsFree(r, A) == \A q \in Request \ {r} : A \cap req[q].rows = {}
MerchantFree(r, m) == \A q \in Request \ {r} : m \notin req[q].locked
Unlocked(A, M) == \A q \in Request : A \cap req[q].rows = {} /\ M \cap req[q].locked = {}

-----------------------------------------------------------------------------
(* POST /accounts/batch                                                    *)

\* The rows are selected; an activation is checked against each merchant that
\* gains accounts.
OpenBatch(r, ids, want) ==
    /\ req[r].pc = "idle"
    /\ \A a \in ids : acct[a] # "gone"
    /\ req' = [req EXCEPT ![r] =
          [Idle EXCEPT !.pc = "check", !.ids = ids, !.want = want, !.seen = acct,
                       !.base = [m \in Merchant |-> port[m].used],
                       !.todo = IF want = "active"
                                THEN MerchantsOf({a \in ids : acct[a] # "active"})
                                ELSE {}]]
    /\ UNCHANGED <<acct, port>>

\* Mutant: the merchant's row is read without FOR UPDATE.
CheckQuotaUnlocked(r, m) ==
    LET t    == req[r]
        more == {a \in Changing(t) : MerchantOf[a] = m}
    IN  /\ t.pc = "check"
        /\ m \in t.todo
        /\ ~port[m].expired
        /\ \/ port[m].total = 0
           \/ Cardinality(Live(t.seen, m)) + Cardinality(more) <= port[m].total
        /\ req' = [req EXCEPT ![r] = [t EXCEPT !.todo = @ \ {m}]]
        /\ UNCHANGED <<acct, port>>

\* check_quota_for_activation: the row lock is kept to the end of the
\* transaction, the count is of the snapshot.
CheckQuota(r, m) ==
    LET t    == req[r]
        more == {a \in Changing(t) : MerchantOf[a] = m}
    IN  /\ t.pc = "check"
        /\ m \in t.todo
        /\ MerchantFree(r, m)
        /\ ~port[m].expired
        /\ \/ port[m].total = 0
           \/ Cardinality(Live(t.seen, m)) + Cardinality(more) <= port[m].total
        /\ req' = [req EXCEPT ![r] =
              [t EXCEPT !.todo = @ \ {m}, !.locked = @ \cup {m}]]
        /\ UNCHANGED <<acct, port>>

\* QuotaError, 409: the session closes and nothing is kept.
Refuse(r, m) ==
    LET t    == req[r]
        more == {a \in Changing(t) : MerchantOf[a] = m}
    IN  /\ t.pc = "check"
        /\ m \in t.todo
        /\ MerchantFree(r, m)
        /\ \/ port[m].expired
           \/ /\ port[m].total # 0
              /\ Cardinality(Live(t.seen, m)) + Cardinality(more) > port[m].total
        /\ req' = [req EXCEPT ![r] = Idle]
        /\ UNCHANGED <<acct, port>>

\* The statuses are set and flushed; a row deleted meanwhile makes that fail.
FlushStatuses(r) ==
    LET t == req[r]
    IN  /\ t.pc = "check"
        /\ t.todo = {}
        /\ RowsFree(r, Changing(t))
        /\ \A a \in Changing(t) : acct[a] # "gone"
        /\ req' = [req EXCEPT ![r] =
              [t EXCEPT !.pc = "recount", !.rows = Changing(t),
                        !.todo = MerchantsOf(Changing(t))]]
        /\ UNCHANGED <<acct, port>>

\* Mutant: the counter is moved by the number of accounts changed.
RecountByDelta(r, m) ==
    LET t == req[r]
        n == Cardinality({a \in Changing(t) : MerchantOf[a] = m})
    IN  /\ t.pc = "recount"
        /\ m \in t.todo
        /\ MerchantFree(r, m)
        /\ req' = [req EXCEPT ![r] =
              [t EXCEPT !.todo = @ \ {m}, !.locked = @ \cup {m}, !.wrote = @ \cup {m},
                        !.used[m] = IF t.want = "active" THEN t.base[m] + n
                                                         ELSE t.base[m] - n]]
        /\ UNCHANGED <<acct, port>>

\* Mutant: the statuses are flushed after the recount, which reads the old ones.
RecountTooEarly(r, m) ==
    LET t    == req[r]
        live == Cardinality(Live(t.seen, m))
    IN  /\ t.pc = "recount"
        /\ m \in t.todo
        /\ MerchantFree(r, m)
        /\ req' = [req EXCEPT ![r] =
              [t EXCEPT !.todo = @ \ {m}, !.locked = @ \cup {m},
                        !.wrote = @ \cup {m}, !.used[m] = live]]
        /\ UNCHANGED <<acct, port>>

\* recompute_merchant_ports: an UPDATE only if the count differs from the value
\* the session loads, which is the snapshot's, locked row or not.
Recount(r, m) ==
    LET t    == req[r]
        live == Cardinality(Live(Own(t), m))
    IN  /\ t.pc = "recount"
        /\ m \in t.todo
        /\ \/ /\ live = t.base[m]
              /\ req' = [req EXCEPT ![r] = [t EXCEPT !.todo = @ \ {m}]]
           \/ /\ live # t.base[m]
              /\ MerchantFree(r, m)
              /\ req' = [req EXCEPT ![r] =
                    [t EXCEPT !.todo = @ \ {m}, !.locked = @ \cup {m},
                              !.wrote = @ \cup {m}, !.used[m] = live]]
        /\ UNCHANGED <<acct, port>>

\* Statuses and counters commit together.
CommitBatch(r) ==
    LET t == req[r]
    IN  /\ t.pc = "recount"
        /\ t.todo = {}
        /\ acct' = [a \in Account |-> IF a \in t.rows THEN t.want ELSE acct[a]]
        /\ port' = [m \in Merchant |->
                      IF m \in t.wrote THEN [port[m] EXCEPT !.used = t.used[m]]
                                       ELSE port[m]]
        /\ req' = [req EXCEPT ![r] = Idle]

\* A deadlock, a lock wait timeout, a deleted row or the end of the process.
Fail(r) ==
    /\ req[r].pc # "idle"
    /\ req' = [req EXCEPT ![r] = Idle]
    /\ UNCHANGED <<acct, port>>

-----------------------------------------------------------------------------
(* The other writers                                                       *)

\* PATCH /accounts/{id}, validate_all_sessions, validate_now and a failed send
\* set the status of one account without check or recount.
SetStatus(a, s) ==
    /\ "patch" \in Ops
    /\ acct[a] \notin {"gone", s}
    /\ Unlocked({a}, {})
    /\ acct' = [acct EXCEPT ![a] = s]
    /\ UNCHANGED <<port, req>>

\* DELETE /accounts/batch leaves ports_used as it was.
DeleteAccounts(A) ==
    /\ "delete" \in Ops
    /\ A # {}
    /\ \A a \in A : acct[a] # "gone"
    /\ Unlocked(A, {})
    /\ acct' = [a \in Account |-> IF a \in A THEN "gone" ELSE acct[a]]
    /\ UNCHANGED <<port, req>>

\* PATCH /merchants/{id}: the allocation may fall below what is in use.
UpdateMerchant(m, n) ==
    /\ "merchant" \in Ops
    /\ port[m].total # n
    /\ Unlocked({}, {m})
    /\ port' = [port EXCEPT ![m].total = n]
    /\ UNCHANGED <<acct, req>>

\* ports_expires_at passes, or is moved.
Expiry(m) ==
    /\ "expiry" \in Ops
    /\ port' = [port EXCEPT ![m].expired = ~@]
    /\ UNCHANGED <<acct, req>>

\* reset_merchant_ports zeroes the counters of the merchants whose cycle is over.
ResetPorts(M) ==
    /\ "reset" \in Ops
    /\ M # {}
    /\ \A m \in M : port[m].used # 0
    /\ Unlocked({}, M)
    /\ port' = [m \in Merchant |-> IF m \in M THEN [port[m] EXCEPT !.used = 0] ELSE port[m]]
    /\ UNCHANGED <<acct, req>>

-----------------------------------------------------------------------------
\* Imported accounts; what a merchant has used is zero.
Init ==
    /\ acct \in [Account -> Inactive]
    /\ \E total \in [Merchant -> Quota] :
          port = [m \in Merchant |-> [total |-> total[m], used |-> 0, expired |-> FALSE]]
    /\ req = [r \in Request |-> Idle]

Batch(r) ==
    \/ \E ids \in SUBSET Account \ {{}}, want \in Status : OpenBatch(r, ids, want)
    \/ \E m \in Merchant : CheckQuota(r, m) \/ Refuse(r, m) \/ Recount(r, m)
    \/ FlushStatuses(r) \/ CommitBatch(r) \/ Fail(r)

Others ==
    \/ \E a \in Account, s \in Status : SetStatus(a, s)
    \/ \E A \in SUBSET Account : DeleteAccounts(A)
    \/ \E m \in Merchant : Expiry(m) \/ \E n \in Quota : UpdateMerchant(m, n)
    \/ \E M \in SUBSET Merchant : ResetPorts(M)

Next == (\E r \in Request : Batch(r)) \/ Others

Spec == Init /\ [][Next]_vars

-----------------------------------------------------------------------------
(* Properties                                                              *)

TypeOK ==
    /\ acct \in [Account -> Status \cup {"gone"}]
    /\ port \in [Merchant -> PortRow]
    /\ req \in [Request -> Transaction]

\* The accounts of m are as r's transaction saw them when it opened.
Current(r, m) == \A a \in Account : MerchantOf[a] = m => acct[a] = req[r].seen[a]

\* An activation that nothing overtook leaves each of its merchants within the
\* ports_total in force when it commits, even if the total changed while the
\* request was running (check_quota_for_activation).
AdmittedWithinTotal ==
    [][\A r \in Request, m \in Merchant :
          CommitBatch(r) /\ req[r].want = "active" /\ m \in MerchantsOf(Changing(req[r]))
             /\ Current(r, m)
          => port'[m].total = 0 \/ Cardinality(Live(acct', m)) <= port'[m].total]_vars

\* A batch no commit overtook in its accounts leaves ports_used equal to the
\* number of active accounts, whatever drift resets, edits and deletions had left
\* before it (recompute_merchant_ports).  The one exception: ports_used was right
\* in its snapshot and was changed since, by a reset or by another batch; the
\* session then sees nothing to write.
RecountIsLive ==
    [][\A r \in Request, m \in Merchant :
          CommitBatch(r) /\ m \in MerchantsOf(Changing(req[r])) /\ Current(r, m)
          => \/ port'[m].used = Cardinality(Live(acct', m))
             \/ /\ req[r].base[m] = Cardinality(Live(acct', m))
                /\ port[m].used # req[r].base[m]]_vars

=============================================================================
