--------------------------- MODULE PortQuotaProofs ---------------------------
(***************************************************************************)
(* An activation that nothing overtook stays within the merchant's ports,  *)
(* for any accounts, merchants, concurrent requests and other writers.     *)
(* The reason is the merchant's row lock: taken before the total is read,  *)
(* kept until the commit, and in the way of every change of that total.    *)
(* And a batch that nothing overtook leaves ports_used equal to the count, *)
(* because it writes the count or has found it in its snapshot of the row: *)
(* only in the second case can somebody else's ports_used survive.         *)
(***************************************************************************)
EXTENDS PortQuota, FiniteSetTheorems, TLAPS

\* The accounts of m that t activates.
Gained(t, m) == {a \in Changing(t) : MerchantOf[a] = m}

\* t has passed the check for m.
Passed(t, m) == t.pc = "recount" \/ (t.pc = "check" /\ m \notin t.todo)

\* The check of t for m still holds, against the total of the row now.
Admitted(t, m) ==
    port[m].total = 0
    \/ Cardinality(Live(t.seen, m)) + Cardinality(Gained(t, m)) <= port[m].total

RowsInv ==
    \A r \in Request : req[r].pc = "recount" => req[r].rows = Changing(req[r])

CheckInv ==
    \A r \in Request, m \in Merchant :
        req[r].pc # "idle" /\ req[r].want = "active"
           /\ Gained(req[r], m) # {} /\ Passed(req[r], m)
        => m \in req[r].locked /\ Admitted(req[r], m)

PortInv == TypeOK /\ RowsInv /\ CheckInv

-----------------------------------------------------------------------------
\* The columns of the ports keep their types (models/tenant.py), whatever
\* requests and tasks interleave.
LEMMA TypeStep == TypeOK /\ [Next]_vars => TypeOK'
<1> SUFFICES ASSUME TypeOK, [Next]_vars PROVE TypeOK'
    OBVIOUS
<1> USE PortAssumption DEF TypeOK, PortRow, Transaction, Status
<1>1. ASSUME NEW r \in Request, Batch(r) PROVE TypeOK'
  <2>0. Idle \in Transaction
    BY DEF Idle
  <2>1. ASSUME NEW ids \in SUBSET Account \ {{}}, NEW want \in Status,
               OpenBatch(r, ids, want)
        PROVE  TypeOK'
    <3> DEFINE t == [Idle EXCEPT !.pc = "check", !.ids = ids, !.want = want, !.seen = acct,
                       !.base = [m \in Merchant |-> port[m].used],
                       !.todo = IF want = "active"
                                THEN MerchantsOf({a \in ids : acct[a] # "active"})
                                ELSE {}]
    <3>1. t.todo \subseteq Merchant
      BY DEF MerchantsOf, Idle
    <3>2. t \in Transaction
      BY <3>1, <2>0 DEF Idle
    <3>3. req' = [req EXCEPT ![r] = t] /\ UNCHANGED <<acct, port>>
      BY <2>1 DEF OpenBatch
    <3> QED
      BY <3>2, <3>3
  <2>2. ASSUME NEW m \in Merchant, CheckQuota(r, m) PROVE TypeOK'
    <3> DEFINE t == [req[r] EXCEPT !.todo = @ \ {m}, !.locked = @ \cup {m}]
    <3>1. req[r] \in Transaction
      OBVIOUS
    <3>2. t \in Transaction
      BY <3>1
    <3>3. req' = [req EXCEPT ![r] = t] /\ UNCHANGED <<acct, port>>
      BY <2>2 DEF CheckQuota
    <3> QED
      BY <3>2, <3>3
  <2>3. ASSUME NEW m \in Merchant, Refuse(r, m) PROVE TypeOK'
    BY <2>3, <2>0 DEF Refuse
  <2>4. ASSUME NEW m \in Merchant, Recount(r, m) PROVE TypeOK'
    <3>1. Live(Own(req[r]), m) \subseteq Account
      BY DEF Live
    <3>2. Cardinality(Live(Own(req[r]), m)) \in Nat
      BY <3>1, FS_Subset, FS_CardinalityType
    <3> DEFINE n == Cardinality(Live(Own(req[r]), m))
               t == [req[r] EXCEPT !.todo = @ \ {m}]
               u == [req[r] EXCEPT !.todo = @ \ {m}, !.locked = @ \cup {m},
                                   !.wrote = @ \cup {m}, !.used[m] = n]
    <3>3. req[r] \in Transaction
      OBVIOUS
    <3>4. t \in Transaction /\ u \in Transaction
      <4> HIDE DEF n
      <4>1. n \in Nat
        BY <3>2 DEF n
      <4> QED
        BY <3>3, <4>1
    <3>5. req' = [req EXCEPT ![r] = t] \/ req' = [req EXCEPT ![r] = u]
      BY <2>4 DEF Recount
    <3>6. UNCHANGED <<acct, port>>
      BY <2>4 DEF Recount
    <3>7. req \in [Request -> Transaction]
      OBVIOUS
    <3> QED
      <4> HIDE DEF t, u, n, Transaction
      <4>1. req' \in [Request -> Transaction]
        BY <3>4, <3>5, <3>7
      <4> QED
        BY <4>1, <3>6
  <2>5. CASE FlushStatuses(r)
    <3>1. Changing(req[r]) \subseteq Account /\ MerchantsOf(Changing(req[r])) \subseteq Merchant
      BY DEF Changing, MerchantsOf
    <3> DEFINE t == [req[r] EXCEPT !.pc = "recount", !.rows = Changing(req[r]),
                                   !.todo = MerchantsOf(Changing(req[r]))]
    <3>2. t \in Transaction
      <4>1. req[r] \in Transaction
        OBVIOUS
      <4> QED
        BY <3>1, <4>1
    <3>3. req' = [req EXCEPT ![r] = t] /\ UNCHANGED <<acct, port>>
      BY <2>5 DEF FlushStatuses
    <3> QED
      BY <3>2, <3>3
  <2>6. CASE CommitBatch(r)
    <3>1. acct' \in [Account -> Status \cup {"gone"}]
      BY <2>6 DEF CommitBatch
    <3>2. port' \in [Merchant -> PortRow]
      <4>1. \A m \in Merchant : req[r].used[m] \in Nat /\ port[m] \in PortRow
        OBVIOUS
      <4>2. \A m \in Merchant : [port[m] EXCEPT !.used = req[r].used[m]] \in PortRow
        BY <4>1
      <4> QED
        BY <2>6, <4>1, <4>2 DEF CommitBatch
    <3>3. req' \in [Request -> Transaction]
      BY <2>6, <2>0 DEF CommitBatch
    <3> QED
      BY <3>1, <3>2, <3>3
  <2>7. CASE Fail(r)
    BY <2>7, <2>0 DEF Fail
  <2> QED
    BY <1>1, <2>1, <2>2, <2>3, <2>4, <2>5, <2>6, <2>7 DEF Batch
<1>2. CASE Others
  <2>1. ASSUME NEW a \in Account, NEW s \in Status, SetStatus(a, s) PROVE TypeOK'
    BY <2>1 DEF SetStatus
  <2>2. ASSUME NEW A \in SUBSET Account, DeleteAccounts(A) PROVE TypeOK'
    BY <2>2 DEF DeleteAccounts
  <2>3. ASSUME NEW m \in Merchant, Expiry(m) PROVE TypeOK'
    <3>1. port[m] \in PortRow /\ [port[m] EXCEPT !.expired = ~@] \in PortRow
      OBVIOUS
    <3> QED
      BY <2>3, <3>1 DEF Expiry
  <2>4. ASSUME NEW m \in Merchant, NEW n \in Quota, UpdateMerchant(m, n) PROVE TypeOK'
    BY <2>4 DEF UpdateMerchant
  <2>5. ASSUME NEW M \in SUBSET Merchant, ResetPorts(M) PROVE TypeOK'
    BY <2>5 DEF ResetPorts
  <2> QED
    BY <1>2, <2>1, <2>2, <2>3, <2>4, <2>5 DEF Others
<1>3. CASE UNCHANGED vars
  BY <1>3 DEF vars
<1> QED
  BY <1>1, <1>2, <1>3 DEF Next

THEOREM PortTypeCorrect == Spec => []TypeOK
<1>1. Init => TypeOK
  <2> SUFFICES ASSUME Init PROVE TypeOK
    OBVIOUS
  <2>1. Idle \in Transaction
    BY DEF Idle, Transaction, Status
  <2> QED
    BY <2>1, PortAssumption DEF Init, TypeOK, PortRow, Status
<1> QED
  BY <1>1, TypeStep, PTL DEF Spec

-----------------------------------------------------------------------------
\* Counting the accounts of m once those gained are active.
LEMMA CountGained ==
    ASSUME NEW t \in Transaction, t.want = "active", NEW m \in Merchant,
           NEW s, \A a \in Account : MerchantOf[a] = m =>
                     s[a] = IF a \in Changing(t) THEN "active" ELSE t.seen[a]
    PROVE  Cardinality(Live(s, m))
             = Cardinality(Live(t.seen, m)) + Cardinality(Gained(t, m))
<1>1. Changing(t) \subseteq Account
  BY DEF Changing, Transaction
<1>2. Live(s, m) = Live(t.seen, m) \cup Gained(t, m)
  BY <1>1 DEF Live, Gained
<1>3. Live(t.seen, m) \cap Gained(t, m) = {}
  BY DEF Live, Gained, Changing
<1>4. IsFiniteSet(Live(t.seen, m)) /\ IsFiniteSet(Gained(t, m))
  BY <1>1, FS_Subset, PortAssumption DEF Live, Gained
<1>5. Cardinality({}) = 0
  BY FS_EmptySet
<1>6. /\ Cardinality(Live(t.seen, m)) \in Nat
      /\ Cardinality(Gained(t, m)) \in Nat
  BY <1>4, FS_CardinalityType
<1>7. Cardinality(Live(t.seen, m) \cup Gained(t, m))
        = Cardinality(Live(t.seen, m)) + Cardinality(Gained(t, m))
          - Cardinality(Live(t.seen, m) \cap Gained(t, m))
  BY <1>4, FS_Union
<1>8. Cardinality(Live(s, m)) = Cardinality(Live(t.seen, m) \cup Gained(t, m))
  BY <1>2
<1>9. Cardinality(Live(t.seen, m) \cap Gained(t, m)) = 0
  BY <1>3, <1>5
<1> QED
  BY <1>6, <1>7, <1>8, <1>9

\* Recount only moves on and takes locks.
LEMMA RecountFrame ==
    ASSUME NEW q \in Request, NEW m \in Merchant, req \in [Request -> Transaction],
           Recount(q, m)
    PROVE  /\ port' = port /\ req[q].pc = "recount" /\ req'[q].pc = "recount"
           /\ req'[q].ids = req[q].ids /\ req'[q].want = req[q].want
           /\ req'[q].seen = req[q].seen /\ req'[q].rows = req[q].rows
           /\ req[q].locked \subseteq req'[q].locked
           /\ \A r \in Request \ {q} : req'[r] = req[r]
<1> DEFINE n == Cardinality(Live(Own(req[q]), m))
           t == [req[q] EXCEPT !.todo = @ \ {m}]
           u == [req[q] EXCEPT !.todo = @ \ {m}, !.locked = @ \cup {m},
                               !.wrote = @ \cup {m}, !.used[m] = n]
<1>1. /\ port' = port /\ req[q].pc = "recount"
      /\ req' = [req EXCEPT ![q] = t] \/ req' = [req EXCEPT ![q] = u]
  BY DEF Recount
<1> HIDE DEF n
<1>2. /\ t.pc = req[q].pc /\ t.ids = req[q].ids /\ t.want = req[q].want
      /\ t.seen = req[q].seen /\ t.rows = req[q].rows /\ t.locked = req[q].locked
  BY DEF Transaction
<1>3. /\ u.pc = req[q].pc /\ u.ids = req[q].ids /\ u.want = req[q].want
      /\ u.seen = req[q].seen /\ u.rows = req[q].rows
      /\ u.locked = req[q].locked \cup {m}
  BY DEF Transaction
<1> HIDE DEF t, u
<1> QED
  BY <1>1, <1>2, <1>3

\* What CheckInv says of one request and one merchant.
Checked(r, m) ==
    req[r].pc # "idle" /\ req[r].want = "active"
       /\ Gained(req[r], m) # {} /\ Passed(req[r], m)
    => m \in req[r].locked /\ Admitted(req[r], m)

\* A step that lets r keep its rows, its locks and the total it was checked
\* against keeps the check.
LEMMA CheckKept ==
    ASSUME NEW r \in Request, NEW m \in Merchant, Checked(r, m),
           port'[m].total = port[m].total,
           req'[r].ids = req[r].ids, req'[r].want = req[r].want,
           req'[r].seen = req[r].seen,
           req[r].locked \subseteq req'[r].locked,
           req[r].pc # "idle",
           Passed(req'[r], m) => Passed(req[r], m)
    PROVE  Checked(r, m)'
<1>1. Gained(req[r], m)' = Gained(req[r], m)
  BY DEF Gained, Changing
<1>2. Live(req[r].seen, m)' = Live(req[r].seen, m)
  BY DEF Live
<1>3. Passed(req[r], m)' => Passed(req[r], m)
  BY DEF Passed
<1>4. Admitted(req[r], m) => Admitted(req[r], m)'
  BY <1>1, <1>2 DEF Admitted
<1> QED
  BY <1>1, <1>3, <1>4 DEF Checked

LEMMA CheckIdle ==
    ASSUME NEW r \in Request, NEW m \in Merchant, req'[r].pc = "idle"
    PROVE  Checked(r, m)'
BY DEF Checked

LEMMA CheckUntouched ==
    ASSUME NEW r \in Request, NEW m \in Merchant, Checked(r, m),
           req'[r] = req[r], port'[m].total = port[m].total
    PROVE  Checked(r, m)'
<1>1. CASE req[r].pc = "idle"
  BY <1>1, CheckIdle
<1>2. CASE req[r].pc # "idle"
  BY <1>2, CheckKept
<1> QED
  BY <1>1, <1>2

\* The step of request q, for q itself.
LEMMA CheckOwnStep ==
    ASSUME TypeOK, NEW q \in Request, NEW m \in Merchant, Checked(q, m), Batch(q)
    PROVE  Checked(q, m)'
<1> USE DEF TypeOK
<1>0. req \in [Request -> Transaction]
  OBVIOUS
<1>1. ASSUME NEW ids \in SUBSET Account \ {{}}, NEW want \in Status,
             OpenBatch(q, ids, want)
      PROVE  Checked(q, m)'
  <2> DEFINE todo == IF want = "active"
                     THEN MerchantsOf({a \in ids : acct[a] # "active"}) ELSE {}
  <2>1. /\ req'[q].pc = "check" /\ req'[q].want = want /\ req'[q].ids = ids
        /\ req'[q].seen = acct /\ req'[q].todo = todo
    BY <1>0, <1>1 DEF OpenBatch, Idle
  <2>2. ASSUME want = "active", Gained(req'[q], m) # {}
        PROVE  m \in todo
    BY <2>1, <2>2, PortAssumption DEF Gained, Changing, MerchantsOf
  <2> QED
    BY <2>1, <2>2 DEF Checked, Passed, Gained, Changing
<1>2. ASSUME NEW n \in Merchant, CheckQuota(q, n) PROVE Checked(q, m)'
  <2> DEFINE t == [req[q] EXCEPT !.todo = @ \ {n}, !.locked = @ \cup {n}]
  <2>1. req[q] \in Transaction /\ req'[q] = t /\ port' = port
    BY <1>0, <1>2 DEF CheckQuota
  <2>2. /\ t.ids = req[q].ids /\ t.want = req[q].want /\ t.seen = req[q].seen
        /\ t.pc = req[q].pc /\ t.locked = req[q].locked \cup {n}
        /\ t.todo = req[q].todo \ {n}
    BY <2>1 DEF Transaction
  <2> HIDE DEF t
  <2>3. req[q].pc = "check"
    BY <1>2 DEF CheckQuota
  <2>4. CASE m = n
    <3>1. Admitted(req[q], m)
      BY <1>2, <2>4 DEF CheckQuota, Admitted, Gained
    <3>2. Admitted(req[q], m)'
      BY <3>1, <2>1, <2>2 DEF Admitted, Gained, Changing, Live
    <3> QED
      BY <3>2, <2>1, <2>2, <2>4 DEF Checked
  <2>5. CASE m # n
    <3>1. Passed(req'[q], m) => Passed(req[q], m)
      BY <2>1, <2>2, <2>5 DEF Passed
    <3> QED
      BY <3>1, <2>1, <2>2, <2>3, CheckKept
  <2> QED
    BY <2>4, <2>5
<1>3. ASSUME NEW n \in Merchant, Refuse(q, n) PROVE Checked(q, m)'
  BY <1>0, <1>3, CheckIdle DEF Refuse, Idle
<1>4. ASSUME NEW n \in Merchant, Recount(q, n) PROVE Checked(q, m)'
  <2>1. /\ port' = port /\ req[q].pc = "recount" /\ req'[q].pc = "recount"
        /\ req'[q].ids = req[q].ids /\ req'[q].want = req[q].want
        /\ req'[q].seen = req[q].seen /\ req[q].locked \subseteq req'[q].locked
    BY <1>0, <1>4, RecountFrame
  <2> QED
    BY <2>1, CheckKept DEF Passed
<1>5. CASE FlushStatuses(q)
  <2>1. /\ port' = port /\ req[q].pc = "check" /\ req[q].todo = {}
        /\ req'[q].ids = req[q].ids /\ req'[q].want = req[q].want
        /\ req'[q].seen = req[q].seen /\ req[q].locked \subseteq req'[q].locked
    BY <1>0, <1>5 DEF FlushStatuses, Transaction
  <2> QED
    BY <2>1, CheckKept DEF Passed
<1>6. CASE CommitBatch(q)
  BY <1>0, <1>6, CheckIdle DEF CommitBatch, Idle
<1>7. CASE Fail(q)
  BY <1>0, <1>7, CheckIdle DEF Fail, Idle
<1> QED
  BY <1>1, <1>2, <1>3, <1>4, <1>5, <1>6, <1>7 DEF Batch

\* Another request neither touches r's transaction nor changes a total.
LEMMA CheckOthersStep ==
    ASSUME TypeOK, NEW q \in Request, NEW r \in Request \ {q}, NEW m \in Merchant,
           Checked(r, m), Batch(q)
    PROVE  Checked(r, m)'
<1>1. req'[r] = req[r]
  BY DEF TypeOK, Batch, OpenBatch, CheckQuota, Refuse, Recount, FlushStatuses,
         CommitBatch, Fail
<1>2. port'[m].total = port[m].total
  <2>1. CASE CommitBatch(q)
    <3>1. port[m] \in PortRow
      BY DEF TypeOK
    <3> QED
      BY <2>1, <3>1 DEF CommitBatch, PortRow
  <2>2. CASE port' = port
    BY <2>2
  <2> QED
    BY <2>1, <2>2 DEF Batch, OpenBatch, CheckQuota, Refuse, Recount, FlushStatuses, Fail
<1> QED
  BY <1>1, <1>2, CheckUntouched

\* Whoever changes a total waits for the row that a checked request has locked.
LEMMA CheckUpdateStep ==
    ASSUME TypeOK, NEW r \in Request, NEW m \in Merchant, Checked(r, m), Others
    PROVE  Checked(r, m)'
<1>0. req' = req /\ port \in [Merchant -> PortRow]
  BY DEF TypeOK, Others, SetStatus, DeleteAccounts, Expiry, UpdateMerchant, ResetPorts
<1>1. ASSUME NEW n \in Merchant, NEW k \in Quota, UpdateMerchant(n, k)
      PROVE  Checked(r, m)'
  <2>1. CASE m = n
    <3>1. m \notin req[r].locked
      BY <1>1, <2>1 DEF UpdateMerchant, Unlocked
    <3>2. ~(/\ req[r].pc # "idle" /\ req[r].want = "active"
            /\ Gained(req[r], m) # {} /\ Passed(req[r], m))
      BY <3>1 DEF Checked
    <3> QED
      BY <3>2, <1>0 DEF Checked, Gained, Changing, Passed
  <2>2. CASE m # n
    BY <1>0, <1>1, <2>2, CheckUntouched DEF UpdateMerchant
  <2> QED
    BY <2>1, <2>2
<1>2. CASE port'[m].total = port[m].total
  BY <1>0, <1>2, CheckUntouched
<1>3. ASSUME NEW n \in Merchant, Expiry(n) PROVE port'[m].total = port[m].total
  BY <1>0, <1>3 DEF Expiry, PortRow
<1>4. ASSUME NEW M \in SUBSET Merchant, ResetPorts(M)
      PROVE  port'[m].total = port[m].total
  BY <1>0, <1>4 DEF ResetPorts, PortRow
<1> QED
  BY <1>1, <1>2, <1>3, <1>4 DEF Others, SetStatus, DeleteAccounts

LEMMA CheckStep == TypeOK /\ CheckInv /\ [Next]_vars => CheckInv'
<1> SUFFICES ASSUME TypeOK, CheckInv, [Next]_vars, NEW r \in Request, NEW m \in Merchant
             PROVE  Checked(r, m)'
  BY DEF CheckInv, Checked
<1>0. Checked(r, m)
  BY DEF CheckInv, Checked
<1>1. ASSUME NEW q \in Request, Batch(q) PROVE Checked(r, m)'
  BY <1>0, <1>1, CheckOwnStep, CheckOthersStep
<1>2. CASE Others
  BY <1>0, <1>2, CheckUpdateStep
<1>3. CASE UNCHANGED vars
  BY <1>0, <1>3, CheckUntouched DEF vars
<1> QED
  BY <1>1, <1>2, <1>3 DEF Next

LEMMA RowsStep == TypeOK /\ RowsInv /\ [Next]_vars => RowsInv'
<1> SUFFICES ASSUME TypeOK, RowsInv, [Next]_vars, NEW r \in Request
             PROVE  req'[r].pc = "recount" => req'[r].rows = Changing(req'[r])
  BY DEF RowsInv, Changing
<1>0. req \in [Request -> Transaction] /\ req[r] \in Transaction
  BY DEF TypeOK
<1>1. req[r].pc = "recount" => req[r].rows = Changing(req[r])
  BY DEF RowsInv
<1>2. CASE req'[r] = req[r]
  BY <1>1, <1>2
<1>3. CASE FlushStatuses(r)
  BY <1>0, <1>3 DEF FlushStatuses, Changing, Transaction
<1>4. ASSUME NEW m \in Merchant, Recount(r, m)
      PROVE  req'[r].pc = "recount" => req'[r].rows = Changing(req'[r])
  BY <1>0, <1>1, <1>4, RecountFrame DEF Changing
<1>5. CASE req'[r].pc # "recount"
  BY <1>5
<1>6. ASSUME NEW q \in Request, Batch(q)
      PROVE  req'[r].pc = "recount" => req'[r].rows = Changing(req'[r])
  <2>1. CASE q # r
    <3>1. req'[r] = req[r]
      BY <1>0, <1>6, <2>1 DEF Batch, OpenBatch, CheckQuota, Refuse, Recount,
                              FlushStatuses, CommitBatch, Fail
    <3> QED
      BY <3>1, <1>2
  <2>2. CASE q = r
    <3>1. ASSUME NEW ids, NEW want, OpenBatch(r, ids, want) PROVE req'[r].pc # "recount"
      BY <1>0, <3>1 DEF OpenBatch, Idle
    <3>2. ASSUME NEW m, CheckQuota(r, m) PROVE req'[r].pc # "recount"
      BY <1>0, <3>2 DEF CheckQuota, Transaction
    <3>3. ASSUME NEW m, Refuse(r, m) PROVE req'[r].pc # "recount"
      BY <1>0, <3>3 DEF Refuse, Idle
    <3>4. CommitBatch(r) \/ Fail(r) => req'[r].pc # "recount"
      BY <1>0 DEF CommitBatch, Fail, Idle
    <3> QED
      BY <1>3, <1>4, <1>5, <1>6, <2>2, <3>1, <3>2, <3>3, <3>4 DEF Batch
  <2> QED
    BY <2>1, <2>2
<1>7. CASE Others
  BY <1>2, <1>7 DEF Others, SetStatus, DeleteAccounts, Expiry, UpdateMerchant, ResetPorts
<1> QED
  BY <1>2, <1>6, <1>7 DEF Next, vars

\* POST /accounts/batch: an activation that no other commit overtook leaves every
\* merchant within the ports_total in force when it commits.
THEOREM AdmissionCorrect == Spec => AdmittedWithinTotal
<1>1. Init => PortInv
  <2>1. Init => RowsInv /\ CheckInv
    BY DEF Init, Idle, RowsInv, CheckInv
  <2>2. Init => TypeOK
    <3> SUFFICES ASSUME Init PROVE TypeOK
      OBVIOUS
    <3>1. Idle \in Transaction
      BY DEF Idle, Transaction, Status
    <3> QED
      BY <3>1, PortAssumption DEF Init, TypeOK, PortRow, Status
  <2> QED
    BY <2>1, <2>2 DEF PortInv
<1>2. PortInv /\ [Next]_vars => PortInv'
  BY TypeStep, RowsStep, CheckStep DEF PortInv
<1>3. ASSUME PortInv, [Next]_vars, NEW r \in Request, NEW m \in Merchant,
             CommitBatch(r), req[r].want = "active", m \in MerchantsOf(Changing(req[r])),
             Current(r, m)
      PROVE  port'[m].total = 0 \/ Cardinality(Live(acct', m)) <= port'[m].total
  <2>1. /\ req[r] \in Transaction /\ req[r].pc = "recount"
        /\ req[r].rows = Changing(req[r]) /\ port[m] \in PortRow
    BY <1>3 DEF PortInv, TypeOK, RowsInv, CommitBatch
  <2>2. Gained(req[r], m) # {}
    BY <1>3 DEF Gained, MerchantsOf
  <2>3. Admitted(req[r], m)
    BY <1>3, <2>1, <2>2 DEF PortInv, CheckInv, Passed
  <2>4. port'[m].total = port[m].total
    BY <1>3, <2>1 DEF CommitBatch, PortRow
  <2>5. \A a \in Account : MerchantOf[a] = m =>
            acct'[a] = IF a \in Changing(req[r]) THEN "active" ELSE req[r].seen[a]
    BY <1>3, <2>1 DEF CommitBatch, Current
  <2>6. Cardinality(Live(acct', m))
          = Cardinality(Live(req[r].seen, m)) + Cardinality(Gained(req[r], m))
    BY <1>3, <2>1, <2>5, CountGained
  <2> QED
    BY <2>3, <2>4, <2>6 DEF Admitted
<1>4. PortInv /\ [Next]_vars =>
        \A r \in Request, m \in Merchant :
          CommitBatch(r) /\ req[r].want = "active" /\ m \in MerchantsOf(Changing(req[r]))
             /\ Current(r, m)
          => port'[m].total = 0 \/ Cardinality(Live(acct', m)) <= port'[m].total
  BY <1>3
<1> QED
  BY <1>1, <1>2, <1>4, PTL DEF Spec, AdmittedWithinTotal

-----------------------------------------------------------------------------
(* The recount                                                             *)

\* What the commit of t leaves as ports_used of m, unless others change it.
Tallied(t, m) == IF m \in t.wrote THEN t.used[m] ELSE t.base[m]

\* A merchant t need no longer recount has its count at hand: written, or equal
\* to the value the session loaded.
Recounted(t) ==
    /\ t.pc = "check" => t.wrote = {}
    /\ t.pc = "recount" =>
          \A m \in MerchantsOf(Changing(t)) :
              IF m \in t.todo THEN m \notin t.wrote
                              ELSE Tallied(t, m) = Cardinality(Live(Own(t), m))

RecountInv == \A r \in Request : Recounted(req[r])

LEMMA RecountedIdle == \A t : t.pc = "idle" => Recounted(t)
BY DEF Recounted

LEMMA RecountedRecount ==
    ASSUME NEW r \in Request, NEW m \in Merchant, req \in [Request -> Transaction],
           Recounted(req[r]), Recount(r, m)
    PROVE  Recounted(req'[r])
<1> DEFINE t == req[r]
           n == Cardinality(Live(Own(t), m))
           skip == [t EXCEPT !.todo = @ \ {m}]
           write == [t EXCEPT !.todo = @ \ {m}, !.locked = @ \cup {m},
                              !.wrote = @ \cup {m}, !.used[m] = n]
<1>1. /\ t \in Transaction /\ t.pc = "recount" /\ m \in t.todo
      /\ \/ n = t.base[m] /\ req'[r] = skip
         \/ req'[r] = write
  BY DEF Recount
<1> HIDE DEF n
<1>2. /\ skip.pc = t.pc /\ skip.ids = t.ids /\ skip.want = t.want /\ skip.seen = t.seen
      /\ skip.rows = t.rows /\ skip.todo = t.todo \ {m} /\ skip.wrote = t.wrote
      /\ skip.used = t.used /\ skip.base = t.base
  BY <1>1 DEF Transaction
<1>3. /\ write.pc = t.pc /\ write.ids = t.ids /\ write.want = t.want
      /\ write.seen = t.seen /\ write.rows = t.rows /\ write.todo = t.todo \ {m}
      /\ write.wrote = t.wrote \cup {m} /\ write.base = t.base
      /\ write.used = [t.used EXCEPT ![m] = n]
  BY <1>1 DEF Transaction
<1>4. write.used[m] = n /\ \A k \in Merchant \ {m} : write.used[k] = t.used[k]
  BY <1>1, <1>3 DEF Transaction
<1>5. /\ Changing(skip) = Changing(t) /\ Own(skip) = Own(t)
      /\ Changing(write) = Changing(t) /\ Own(write) = Own(t)
  BY <1>2, <1>3 DEF Changing, Own
<1>6. MerchantsOf(Changing(t)) \subseteq Merchant
  BY <1>1, PortAssumption DEF MerchantsOf, Changing, Transaction
<1> HIDE DEF skip, write, t
<1>7. Recounted(t)
  BY DEF t
<1>8. CASE n = t.base[m] /\ req'[r] = skip
  <2> SUFFICES ASSUME NEW k \in MerchantsOf(Changing(t))
               PROVE  IF k \in skip.todo THEN k \notin skip.wrote
                      ELSE Tallied(skip, k) = Cardinality(Live(Own(t), k))
    BY <1>1, <1>2, <1>5, <1>8 DEF Recounted
  <2>1. CASE k = m
    <3>1. k \notin t.wrote
      BY <1>1, <1>7, <2>1 DEF Recounted
    <3> QED
      BY <3>1, <1>2, <1>8, <2>1 DEF Tallied, n, t
  <2>2. CASE k # m
    BY <1>1, <1>2, <1>7, <2>2 DEF Recounted, Tallied
  <2> QED
    BY <2>1, <2>2
<1>9. CASE req'[r] = write
  <2> SUFFICES ASSUME NEW k \in MerchantsOf(Changing(t))
               PROVE  IF k \in write.todo THEN k \notin write.wrote
                      ELSE Tallied(write, k) = Cardinality(Live(Own(t), k))
    BY <1>1, <1>3, <1>5, <1>9 DEF Recounted
  <2>1. CASE k = m
    BY <1>3, <1>4, <2>1 DEF Tallied, n, t
  <2>2. CASE k # m
    BY <1>1, <1>3, <1>4, <1>6, <1>7, <2>2 DEF Recounted, Tallied
  <2> QED
    BY <2>1, <2>2
<1> QED
  BY <1>1, <1>8, <1>9

LEMMA RecountStep == TypeOK /\ RecountInv /\ [Next]_vars => RecountInv'
<1> SUFFICES ASSUME TypeOK, RecountInv, [Next]_vars, NEW r \in Request
             PROVE  Recounted(req'[r])
  BY DEF RecountInv
<1>0. req \in [Request -> Transaction] /\ req[r] \in Transaction
  BY DEF TypeOK
<1>1. Recounted(req[r])
  BY DEF RecountInv
<1>2. CASE req'[r] = req[r]
  BY <1>1, <1>2
<1>3. ASSUME NEW ids, NEW want, OpenBatch(r, ids, want) PROVE Recounted(req'[r])
  <2>1. req'[r].pc = "check" /\ req'[r].wrote = {}
    BY <1>0, <1>3 DEF OpenBatch, Idle
  <2> QED
    BY <2>1 DEF Recounted
<1>4. ASSUME NEW m, CheckQuota(r, m) PROVE Recounted(req'[r])
  <2>1. req'[r].pc = "check" /\ req'[r].wrote = req[r].wrote /\ req[r].pc = "check"
    BY <1>0, <1>4 DEF CheckQuota, Transaction
  <2> QED
    BY <1>1, <2>1 DEF Recounted
<1>5. CASE FlushStatuses(r)
  <2>1. /\ req'[r].pc = "recount" /\ req'[r].wrote = {}
        /\ req'[r].todo = MerchantsOf(Changing(req'[r]))
    BY <1>0, <1>1, <1>5 DEF FlushStatuses, Changing, Transaction, Recounted
  <2> QED
    BY <2>1 DEF Recounted
<1>6. ASSUME NEW m \in Merchant, Recount(r, m) PROVE Recounted(req'[r])
  BY <1>0, <1>1, <1>6, RecountedRecount
<1>7. ASSUME NEW m, Refuse(r, m) PROVE Recounted(req'[r])
  BY <1>0, <1>7, RecountedIdle DEF Refuse, Idle
<1>8. CASE CommitBatch(r) \/ Fail(r)
  BY <1>0, <1>8, RecountedIdle DEF CommitBatch, Fail, Idle
<1>9. ASSUME NEW q \in Request, Batch(q) PROVE Recounted(req'[r])
  <2>1. CASE q # r
    <3>1. req'[r] = req[r]
      BY <1>0, <1>9, <2>1 DEF Batch, OpenBatch, CheckQuota, Refuse, Recount,
                              FlushStatuses, CommitBatch, Fail
    <3> QED
      BY <3>1, <1>2
  <2>2. CASE q = r
    BY <1>3, <1>4, <1>5, <1>6, <1>7, <1>8, <1>9, <2>2 DEF Batch
  <2> QED
    BY <2>1, <2>2
<1>10. CASE Others
  BY <1>2, <1>10 DEF Others, SetStatus, DeleteAccounts, Expiry, UpdateMerchant, ResetPorts
<1> QED
  BY <1>2, <1>9, <1>10 DEF Next, vars

\* POST /accounts/batch: a batch nothing overtook in its accounts leaves ports_used
\* equal to the number of active accounts, whatever drift it found, unless its
\* snapshot had that number already and somebody changed the row since.
THEOREM RecountCorrect == Spec => RecountIsLive
<1>1. Init => RecountInv
  BY DEF Init, Idle, RecountInv, Recounted
<1>2. TypeOK /\ RecountInv /\ [Next]_vars => RecountInv'
  BY RecountStep
<1>3. ASSUME TypeOK, RecountInv, NEW r \in Request, NEW m \in Merchant,
             CommitBatch(r), m \in MerchantsOf(Changing(req[r])), Current(r, m)
      PROVE  \/ port'[m].used = Cardinality(Live(acct', m))
             \/ /\ req[r].base[m] = Cardinality(Live(acct', m))
                /\ port[m].used # req[r].base[m]
  <2>1. /\ req[r].pc = "recount" /\ req[r].todo = {} /\ port[m] \in PortRow
    BY <1>3 DEF TypeOK, CommitBatch
  <2>2. Tallied(req[r], m) = Cardinality(Live(Own(req[r]), m))
    BY <1>3, <2>1 DEF RecountInv, Recounted
  <2>3. Live(acct', m) = Live(Own(req[r]), m)
    BY <1>3 DEF CommitBatch, Current, Own, Live
  <2>4. CASE m \in req[r].wrote
    <3>1. port'[m].used = req[r].used[m]
      BY <1>3, <2>1, <2>4 DEF CommitBatch, PortRow
    <3> QED
      BY <2>2, <2>3, <2>4, <3>1 DEF Tallied
  <2>5. CASE m \notin req[r].wrote
    <3>1. port'[m].used = port[m].used
      BY <1>3, <2>1, <2>5 DEF CommitBatch
    <3>2. req[r].base[m] = Cardinality(Live(acct', m))
      BY <2>2, <2>3, <2>5 DEF Tallied
    <3> QED
      BY <3>1, <3>2
  <2> QED
    BY <2>4, <2>5
<1>4. TypeOK /\ RecountInv =>
        \A r \in Request, m \in Merchant :
          CommitBatch(r) /\ m \in MerchantsOf(Changing(req[r])) /\ Current(r, m)
          => \/ port'[m].used = Cardinality(Live(acct', m))
             \/ /\ req[r].base[m] = Cardinality(Live(acct', m))
                /\ port[m].used # req[r].base[m]
  BY <1>3
<1> QED
  BY <1>1, <1>2, <1>4, PortTypeCorrect, PTL DEF Spec, RecountIsLive

=============================================================================
