------------------------ MODULE OperationAndBookProofs ------------------------
(***************************************************************************)
(* Operation campaigns, for any members, workers, starts and crashes: an   *)
(* account is called at most once for each dispatched task, and the        *)
(* campaign's counters stay below what the audit log shows.                *)
(*                                                                         *)
(* The customer book, for any accounts, phones, limits and requests: the   *)
(* deal is fair, stays within the limit and touches only those it was      *)
(* asked for.  That a deal is fair is an invariant of its loop; it is      *)
(* proved by taking a least set of customers for which it fails.           *)
(***************************************************************************)
EXTENDS OperationRun, CustomerBook, FiniteSetTheorems, WellFoundedInduction, TLAPS

\* The workers that have still to call a.
Owing(a) == {w \in Worker : run[w].busy /\ a \in run[w].todo}

\* Every call made, owed or queued is paid for by a dispatch.
CallsInv == \A a \in Member : called[a] + Cardinality(Owing(a)) + queue <= dispatched

\* What a task read of the counters was already audited.
ReadInv ==
    \A w \in Worker : /\ run[w].row.sent <= audited["ok"]
                      /\ run[w].row.failed <= audited["failed"]

-----------------------------------------------------------------------------
LEMMA IdleType == Idle \in Task
BY DEF Idle, Task, NewCampaign, CampaignRow

LEMMA TalliedType ==
    ASSUME NEW t \in Task, camp \in CampaignRow
    PROVE  Tallied(t) \in CampaignRow
<1>1. FinalStatus(t.count) \in Ended
  BY DEF FinalStatus, Ended
<1>2. /\ t.row \in CampaignRow /\ t.count["ok"] \in Nat /\ t.count["failed"] \in Nat
  BY DEF Task, Result
<1> QED
  BY <1>1, <1>2 DEF Tallied, Written, CampaignRow

LEMMA TypeStep == TypeOK /\ [Next]_vars => TypeOK'
<1> SUFFICES ASSUME TypeOK, [Next]_vars PROVE TypeOK'
  OBVIOUS
<1> USE DEF TypeOK
<1>1. ASSUME NEW w \in Worker, BeginRun(w) PROVE TypeOK'
  <2> DEFINE t == [Idle EXCEPT !.busy = TRUE, !.row = camp, !.todo = eligible]
  <2>1. t \in Task
    BY IdleType DEF Task
  <2>2. [camp EXCEPT !.status = "completed"] \in CampaignRow
    BY DEF CampaignRow, Ended
  <2> HIDE DEF t
  <2> QED
    BY <1>1, <2>1, <2>2 DEF BeginRun, t
<1>2. ASSUME NEW w \in Worker, NEW a \in Member, NEW x \in Result, Operate(w, a, x)
      PROVE  TypeOK'
  <2> DEFINE t == [run[w] EXCEPT !.todo = @ \ {a}, !.count[x] = @ + 1]
  <2>1. run[w] \in Task
    OBVIOUS
  <2> DEFINE c == [run[w].count EXCEPT ![x] = @ + 1]
  <2>2. c \in [Result -> Nat]
    BY <2>1 DEF Task
  <2>3. t = [run[w] EXCEPT !.todo = @ \ {a}, !.count = c]
    BY <2>1 DEF Task
  <2>4. t \in Task
    <3> HIDE DEF c, t
    <3> QED
      BY <2>1, <2>2, <2>3 DEF Task
  <2>5. run' = [run EXCEPT ![w] = t]
    BY <1>2 DEF Operate
  <2>6. called' = [called EXCEPT ![a] = @ + 1]
        /\ UNCHANGED <<camp, eligible, queue, audited, dispatched, starts, faults>>
    BY <1>2 DEF Operate
  <2> HIDE DEF t, c
  <2>7. run' \in [Worker -> Task]
    BY <2>4, <2>5
  <2> QED
    BY <2>6, <2>7
<1>3. ASSUME NEW w \in Worker, FinishRun(w) PROVE TypeOK'
  <2>1. run[w] \in Task /\ run[w].count \in [Result -> Nat]
    BY DEF Task
  <2>2. camp' \in CampaignRow
    BY <1>3, <2>1, TalliedType DEF FinishRun
  <2>3. audited' \in [Result -> Nat]
    BY <1>3, <2>1 DEF FinishRun
  <2> QED
    BY <1>3, <2>2, <2>3, IdleType DEF FinishRun
<1>4. ASSUME NEW w \in Worker, Crash(w) PROVE TypeOK'
  BY <1>4, IdleType DEF Crash
<1>5. CASE StartCampaign
  BY <1>5 DEF StartCampaign, CampaignRow
<1>6. CASE PauseCampaign \/ ResumeCampaign \/ CancelCampaign
  BY <1>6 DEF PauseCampaign, ResumeCampaign, CancelCampaign, SetStatus, CampaignRow
<1>7. ASSUME NEW a \in Member, ToggleAccount(a) PROVE TypeOK'
  BY <1>7 DEF ToggleAccount
<1>8. CASE UNCHANGED vars
  BY <1>8 DEF vars
<1> QED
  BY <1>1, <1>2, <1>3, <1>4, <1>5, <1>6, <1>7, <1>8 DEF Next, Step

-----------------------------------------------------------------------------
LEMMA OwingFinite ==
    \A a \in Member : IsFiniteSet(Owing(a)) /\ Cardinality(Owing(a)) \in Nat
BY OperationAssumption, FS_Subset, FS_CardinalityType DEF Owing

LEMMA CallsStep == TypeOK /\ CallsInv /\ [Next]_vars => CallsInv'
<1> SUFFICES ASSUME TypeOK, CallsInv, [Next]_vars, NEW b \in Member
             PROVE  called'[b] + Cardinality(Owing(b)') + queue' <= dispatched'
  BY DEF CallsInv, Owing
<1> DEFINE before == Cardinality(Owing(b))
           after == Cardinality(Owing(b)')
<1>0. /\ called[b] + before + queue <= dispatched
      /\ called[b] \in Nat /\ queue \in Nat /\ dispatched \in Nat /\ before \in Nat
      /\ run \in [Worker -> Task]
  BY OwingFinite DEF CallsInv, TypeOK
<1>f. IsFiniteSet(Owing(b))
  BY OwingFinite
<1>1. ASSUME NEW w \in Worker, BeginRun(w)
      PROVE  called'[b] + after + queue' <= dispatched'
  <2>1. w \notin Owing(b)
    BY <1>1 DEF BeginRun, Owing
  <2>2. Owing(b)' \in {Owing(b), Owing(b) \cup {w}}
    BY <1>0, <1>1 DEF BeginRun, Owing, Idle
  <2>3. after \in {before, before + 1}
    BY <1>f, <2>1, <2>2, FS_AddElement
  <2> HIDE DEF before, after
  <2> QED
    BY <1>0, <1>1, <2>3 DEF BeginRun
<1>2. ASSUME NEW w \in Worker, NEW a \in Member, NEW x \in Result, Operate(w, a, x)
      PROVE  called'[b] + after + queue' <= dispatched'
  <2>1. run[w] \in Task
    BY <1>0
  <2>2. /\ run'[w].busy = run[w].busy /\ run'[w].todo = run[w].todo \ {a}
        /\ \A v \in Worker \ {w} : run'[v] = run[v]
    BY <1>0, <1>2, <2>1 DEF Operate, Task
  <2>3. CASE a = b
    <3>1. w \in Owing(b) /\ Owing(b)' = Owing(b) \ {w}
      BY <1>2, <2>2, <2>3 DEF Operate, Owing
    <3>2. after = before - 1
      BY <1>f, <3>1, FS_RemoveElement
    <3>3. called'[b] = called[b] + 1 /\ queue' = queue /\ dispatched' = dispatched
      BY <1>2, <2>3 DEF Operate, TypeOK
    <3> HIDE DEF before, after
    <3> QED
      BY <1>0, <3>2, <3>3
  <2>4. CASE a # b
    <3>1. Owing(b)' = Owing(b)
      BY <2>2, <2>4 DEF Owing
    <3>2. called'[b] = called[b] /\ queue' = queue /\ dispatched' = dispatched
      BY <1>2, <2>4 DEF Operate, TypeOK
    <3> QED
      BY <1>0, <3>1, <3>2
  <2> QED
    BY <2>3, <2>4
<1>3. ASSUME NEW w \in Worker, run' = [run EXCEPT ![w] = Idle],
             UNCHANGED <<called, queue, dispatched>>
      PROVE  called'[b] + after + queue' <= dispatched'
  <2>1. Owing(b)' \subseteq Owing(b)
    BY <1>0, <1>3 DEF Owing, Idle
  <2>2. after <= before /\ after \in Nat
    BY <1>f, <2>1, FS_Subset, FS_CardinalityType
  <2> HIDE DEF before, after
  <2> QED
    BY <1>0, <1>3, <2>2
<1>4. ASSUME UNCHANGED <<run, called>>,
             \/ queue' = queue /\ dispatched' = dispatched
             \/ queue' = queue + 1 /\ dispatched' = dispatched + 1
      PROVE  called'[b] + after + queue' <= dispatched'
  <2>1. Owing(b)' = Owing(b)
    BY <1>4 DEF Owing
  <2>2. after = before
    BY <2>1
  <2> HIDE DEF before, after
  <2> QED
    BY <1>0, <1>4, <2>2
<1>5. ASSUME NEW w \in Worker, Step(w) \/ Crash(w)
      PROVE  called'[b] + after + queue' <= dispatched'
  BY <1>1, <1>2, <1>3, <1>5 DEF Step, FinishRun, Crash
<1>6. CASE StartCampaign
  BY <1>4, <1>6 DEF StartCampaign
<1>7. CASE PauseCampaign \/ ResumeCampaign \/ CancelCampaign \/ UNCHANGED vars
           \/ \E a \in Member : ToggleAccount(a)
  BY <1>4, <1>7 DEF PauseCampaign, ResumeCampaign, CancelCampaign, SetStatus,
                    ToggleAccount, vars
<1> QED
  BY <1>5, <1>6, <1>7 DEF Next

\* An account is called at most once for each task that was dispatched, however
\* runs overlap and workers die ("one attempt per account per dispatch").
THEOREM OneAttemptCorrect == Spec => []OneAttemptPerDispatch
<1>1. Init => TypeOK /\ CallsInv
  <2> SUFFICES ASSUME Init PROVE TypeOK /\ CallsInv
    OBVIOUS
  <2>1. TypeOK
    BY IdleType DEF Init, TypeOK, NewCampaign, CampaignRow
  <2>2. \A a \in Member : Owing(a) = {}
    BY DEF Init, Owing, Idle
  <2>3. \A a \in Member : Cardinality(Owing(a)) = 0
    BY <2>2, FS_EmptySet
  <2> QED
    BY <2>1, <2>3 DEF Init, CallsInv
<1>2. TypeOK /\ CallsInv /\ [Next]_vars => (TypeOK /\ CallsInv)'
  BY TypeStep, CallsStep
<1>3. TypeOK /\ CallsInv => OneAttemptPerDispatch
  <2> SUFFICES ASSUME TypeOK, CallsInv, NEW a \in Member PROVE called[a] <= dispatched
    BY DEF OneAttemptPerDispatch
  <2>1. /\ called[a] \in Nat /\ queue \in Nat /\ dispatched \in Nat
        /\ Cardinality(Owing(a)) \in Nat
        /\ called[a] + Cardinality(Owing(a)) + queue <= dispatched
    BY OwingFinite DEF TypeOK, CallsInv
  <2> QED
    BY <2>1
<1> QED
  BY <1>1, <1>2, <1>3, PTL DEF Spec

-----------------------------------------------------------------------------
LEMMA CountersStep ==
    TypeOK /\ ReadInv /\ CountersAudited /\ [Next]_vars => ReadInv' /\ CountersAudited'
<1> SUFFICES ASSUME TypeOK, ReadInv, CountersAudited, [Next]_vars
             PROVE  ReadInv' /\ CountersAudited'
  OBVIOUS
<1>0. /\ run \in [Worker -> Task] /\ camp \in CampaignRow
      /\ audited["ok"] \in Nat /\ audited["failed"] \in Nat
      /\ camp.sent \in Nat /\ camp.failed \in Nat
  BY DEF TypeOK, CampaignRow, Result
<1>i. Idle.row.sent = 0 /\ Idle.row.failed = 0
  BY DEF Idle, NewCampaign
<1>1. ASSUME NEW w \in Worker, BeginRun(w) PROVE ReadInv' /\ CountersAudited'
  <2>1. camp'.sent = camp.sent /\ camp'.failed = camp.failed /\ audited' = audited
    BY <1>0, <1>1 DEF BeginRun, CampaignRow
  <2>2. \A v \in Worker : run'[v].row \in {run[v].row, camp}
    BY <1>0, <1>1 DEF BeginRun, Idle
  <2>3. /\ \A v \in Worker : run[v].row.sent <= audited["ok"]
                             /\ run[v].row.failed <= audited["failed"]
        /\ camp.sent <= audited["ok"] /\ camp.failed <= audited["failed"]
    BY DEF ReadInv, CountersAudited
  <2> QED
    BY <2>1, <2>2, <2>3 DEF ReadInv, CountersAudited
<1>2. ASSUME NEW w \in Worker, NEW a \in Member, NEW x \in Result, Operate(w, a, x)
      PROVE  ReadInv' /\ CountersAudited'
  <2>1. \A v \in Worker : run'[v].row = run[v].row
    BY <1>0, <1>2 DEF Operate, Task
  <2>2. camp' = camp /\ audited' = audited
    BY <1>2 DEF Operate
  <2> QED
    BY <2>1, <2>2 DEF ReadInv, CountersAudited
<1>3. ASSUME NEW w \in Worker, FinishRun(w) PROVE ReadInv' /\ CountersAudited'
  <2>1. /\ run[w].row.sent \in Nat /\ run[w].row.failed \in Nat
        /\ run[w].count["ok"] \in Nat /\ run[w].count["failed"] \in Nat
    BY <1>0 DEF Task, CampaignRow, Result
  <2>2. /\ audited'["ok"] = audited["ok"] + run[w].count["ok"]
        /\ audited'["failed"] = audited["failed"] + run[w].count["failed"]
    BY <1>3 DEF FinishRun, Result
  <2>3. /\ camp'.sent \in {camp.sent, run[w].row.sent + run[w].count["ok"]}
        /\ camp'.failed \in {camp.failed, run[w].row.failed + run[w].count["failed"]}
    BY <1>3 DEF FinishRun, Tallied, Written
  <2>4. /\ run[w].row.sent <= audited["ok"] /\ run[w].row.failed <= audited["failed"]
        /\ camp.sent <= audited["ok"] /\ camp.failed <= audited["failed"]
    BY DEF ReadInv, CountersAudited
  <2>5. CountersAudited'
    BY <1>0, <2>1, <2>2, <2>3, <2>4 DEF CountersAudited
  <2>6. ASSUME NEW v \in Worker
        PROVE  run'[v].row.sent <= audited'["ok"] /\ run'[v].row.failed <= audited'["failed"]
    <3>1. /\ run[v].row.sent <= audited["ok"] /\ run[v].row.failed <= audited["failed"]
          /\ run[v].row.sent \in Nat /\ run[v].row.failed \in Nat
      BY <1>0 DEF ReadInv, Task, CampaignRow
    <3>2. run'[v] = run[v] \/ run'[v] = Idle
      BY <1>0, <1>3 DEF FinishRun
    <3> QED
      BY <1>0, <1>i, <2>1, <2>2, <3>1, <3>2
  <2> QED
    BY <2>5, <2>6 DEF ReadInv
<1>4. ASSUME NEW w \in Worker, Crash(w) PROVE ReadInv' /\ CountersAudited'
  <2>1. \A v \in Worker : run'[v] = run[v] \/ run'[v] = Idle
    BY <1>0, <1>4 DEF Crash
  <2>2. camp' = camp /\ audited' = audited
    BY <1>4 DEF Crash
  <2> QED
    BY <1>0, <1>i, <2>1, <2>2 DEF ReadInv, CountersAudited
<1>5. CASE /\ run' = run /\ audited' = audited
           /\ camp'.sent = camp.sent /\ camp'.failed = camp.failed
  BY <1>5 DEF ReadInv, CountersAudited
<1>6. CASE StartCampaign
  BY <1>0, <1>5, <1>6 DEF StartCampaign, CampaignRow
<1>7. CASE PauseCampaign \/ ResumeCampaign \/ CancelCampaign
  BY <1>0, <1>5, <1>7 DEF PauseCampaign, ResumeCampaign, CancelCampaign, SetStatus, CampaignRow
<1>8. CASE UNCHANGED vars \/ \E a \in Member : ToggleAccount(a)
  BY <1>5, <1>8 DEF ToggleAccount, vars
<1> QED
  BY <1>1, <1>2, <1>3, <1>4, <1>6, <1>7, <1>8 DEF Next, Step

\* A campaign's counters never show more successes or failures than the audit log
\* (the tally at the end of execute_operation_campaign).
THEOREM CountersCorrect == Spec => []CountersAudited
<1>1. Init => TypeOK /\ ReadInv /\ CountersAudited
  <2> SUFFICES ASSUME Init PROVE TypeOK /\ ReadInv /\ CountersAudited
    OBVIOUS
  <2>1. TypeOK
    BY IdleType DEF Init, TypeOK, NewCampaign, CampaignRow
  <2> QED
    BY <2>1 DEF Init, ReadInv, CountersAudited, Idle, NewCampaign, Result
<1>2. TypeOK /\ ReadInv /\ CountersAudited /\ [Next]_vars
        => (TypeOK /\ ReadInv /\ CountersAudited)'
  BY TypeStep, CountersStep
<1> QED
  BY <1>1, <1>2, PTL DEF Spec


-----------------------------------------------------------------------------
(* Induction by a least counterexample                                     *)

LEMMA LeastNat ==
    ASSUME NEW S \in SUBSET Nat, S # {}
    PROVE  \E x \in S : \A y \in S : x <= y
<1>1. PICK x \in S : \A y \in S : <<y, x>> \notin OpToRel(<, Nat)
  BY WFMin, NatLessThanWellFounded, Zenon
<1>2. \A y \in S : ~(y < x)
  BY <1>1, Zenon DEF OpToRel
<1>3. \A y \in S : x <= y
  BY <1>2
<1> QED
  BY <1>3

LEMMA AllNat ==
    ASSUME NEW S \in SUBSET Nat, 0 \in S, \A n \in S : n + 1 \in S
    PROVE  S = Nat
<1> SUFFICES ASSUME Nat \ S # {} PROVE FALSE
  OBVIOUS
<1>1. PICK x \in Nat \ S : \A y \in Nat \ S : x <= y
  <2>1. Nat \ S \in SUBSET Nat
    OBVIOUS
  <2> QED BY <2>1, LeastNat
<1>2. x - 1 \in Nat /\ x - 1 \notin Nat \ S /\ x = (x - 1) + 1
  BY <1>1
<1> QED
  BY <1>1, <1>2

LEMMA LeastSubset ==
    ASSUME NEW C, IsFiniteSet(C), NEW Bad \in SUBSET SUBSET C, Bad # {}
    PROVE  \E P \in Bad : \A Q \in Bad : Q \subseteq P => Q = P
<1> DEFINE R == StrictSubsetOrdering(C)
<1>1. IsWellFoundedOn(R, SUBSET C)
  BY FS_StrictSubsetOrderingWellFounded, FS_FiniteSubsetsOfFinite, Zenon
<1>2. PICK P \in Bad : \A Q \in Bad : <<Q, P>> \notin R
  BY <1>1, WFMin, Zenon
<1>3. ASSUME NEW Q \in Bad, Q \subseteq P, Q # P PROVE FALSE
  <2>1. <<Q, P>> \in (SUBSET C) \X (SUBSET C)
    BY <1>2
  <2>2. <<Q, P>>[1] = Q /\ <<Q, P>>[2] = P
    OBVIOUS
  <2>3. <<Q, P>> \in R
    BY <1>3, <2>1, <2>2 DEF StrictSubsetOrdering
  <2> QED BY <1>2, <2>3
<1> QED
  BY <1>2, <1>3

-----------------------------------------------------------------------------
(* The list of accounts                                                    *)

\* A position in a list of length n, before and after another.
LEMMA Around ==
    ASSUME NEW n \in Nat, NEW x \in 0..(n - 1), NEW c \in 0..(n - 1)
    PROVE  (x - c) % n = IF c <= x THEN x - c ELSE x - c + n
OBVIOUS

LEMMA Following ==
    ASSUME NEW n \in Nat, NEW x \in 0..(n - 1)
    PROVE  (x + 1) % n = IF x = n - 1 THEN 0 ELSE x + 1
OBVIOUS

LEMMA DistinctWaits ==
    ASSUME NEW n \in Nat, NEW c \in 0..(n - 1), NEW x \in 0..(n - 1), NEW y \in 0..(n - 1),
           (x - c) % n = (y - c) % n
    PROVE  x = y
BY Around

LEMMA PlaceInList ==
    ASSUME NEW t, t.scope \subseteq Nat, IsFiniteSet(t.scope)
    PROVE  /\ Cardinality(t.scope) \in Nat
           /\ \A a \in t.scope : Place(t, a) \in 0..(Cardinality(t.scope) - 1)
           /\ \A a, b \in t.scope : a # b => Place(t, a) # Place(t, b)
<1> DEFINE Below(a) == {b \in t.scope : b < a}
<1>1. \A a : IsFiniteSet(Below(a)) /\ Cardinality(Below(a)) \in Nat
  BY FS_Subset, FS_CardinalityType
<1>2. ASSUME NEW S, IsFiniteSet(S), NEW T \in SUBSET S, NEW x \in S \ T
      PROVE  Cardinality(T) < Cardinality(S)
  <2>1. Cardinality(T) <= Cardinality(S) /\ Cardinality(T) # Cardinality(S) /\ IsFiniteSet(T)
    BY <1>2, FS_Subset
  <2>2. Cardinality(T) \in Nat /\ Cardinality(S) \in Nat
    BY <1>2, <2>1, FS_CardinalityType
  <2> QED BY <2>1, <2>2
<1>3. \A a \in t.scope : Cardinality(Below(a)) < Cardinality(t.scope)
  BY <1>2
<1>4. \A a, b \in t.scope : a < b => Cardinality(Below(a)) < Cardinality(Below(b))
  <2> SUFFICES ASSUME NEW a \in t.scope, NEW b \in t.scope, a < b
               PROVE  Cardinality(Below(a)) < Cardinality(Below(b))
    OBVIOUS
  <2>1. Below(a) \in SUBSET Below(b) /\ a \in Below(b) \ Below(a)
    OBVIOUS
  <2> QED BY <1>1, <1>2, <2>1
<1>5. Cardinality(t.scope) \in Nat
  BY FS_CardinalityType
<1>6. \A a : Place(t, a) = Cardinality(Below(a))
  BY DEF Place
<1> HIDE DEF Below
<1>7. \A a, b \in t.scope : a # b => a < b \/ b < a
  OBVIOUS
<1> QED
  BY <1>1, <1>3, <1>4, <1>5, <1>6, <1>7

-----------------------------------------------------------------------------
(* The loop over the customers                                             *)

\* g has dealt every subset of C, in the order of the ids.
DealsAll(t, C, g) ==
    g = [P \in C |-> IF P = {} THEN NothingDealt
                     ELSE Turn(t, g[P \ {Newest(t, P)}], Newest(t, P))]

LEMMA NewestIn ==
    ASSUME NEW t, NEW C, IsFiniteSet(C), \A p \in C : t.view[p].id \in Nat
    PROVE  \A P \in SUBSET C : P # {} => Newest(t, P) \in P
<1> DEFINE id(p) == t.view[p].id
           Has(P) == \E p \in P : \A q \in P : id(q) <= id(p)
           Bad == {P \in SUBSET C : P # {} /\ ~Has(P)}
<1>1. SUFFICES ASSUME Bad # {} PROVE FALSE
  BY DEF Newest
<1>2. PICK P \in Bad : \A Q \in Bad : Q \subseteq P => Q = P
  <2>1. Bad \in SUBSET SUBSET C
    OBVIOUS
  <2> HIDE DEF Bad
  <2> QED BY <1>1, <2>1, LeastSubset
<1>3. PICK x \in P : TRUE
  OBVIOUS
<1>4. P \ {x} \notin Bad
  BY <1>2, <1>3
<1>5. \A p \in P : id(p) \in Nat
  OBVIOUS
<1> HIDE DEF id
<1>6. CASE P = {x}
  BY <1>5, <1>6
<1>7. CASE P \ {x} # {}
  <2>1. PICK y \in P \ {x} : \A q \in P \ {x} : id(q) <= id(y)
    BY <1>4, <1>7
  <2>2. \A q \in P : id(q) <= id(y) \/ q = x
    BY <2>1
  <2> QED BY <1>5, <2>1, <2>2
<1> QED
  BY <1>6, <1>7

\* The loop's function exists: it is built up by the size of the subsets.
LEMMA LoopExists ==
    ASSUME NEW t, NEW C, IsFiniteSet(C),
           \A P \in SUBSET C : P # {} => Newest(t, P) \in P
    PROVE  \E g : DealsAll(t, SUBSET C, g)
<1> DEFINE D(n) == {P \in SUBSET C : Cardinality(P) <= n}
           S == {n \in Nat : \E g : DealsAll(t, D(n), g)}
<1>1. \A P \in SUBSET C : IsFiniteSet(P) /\ Cardinality(P) \in Nat /\ Cardinality(P) <= Cardinality(C)
  BY FS_Subset, FS_CardinalityType
<1>2. \A P \in SUBSET C : Cardinality(P) = 0 <=> P = {}
  BY <1>1, FS_EmptySet
<1>3. \A P \in SUBSET C : P # {} => /\ P \ {Newest(t, P)} \in SUBSET C
                                    /\ Cardinality(P \ {Newest(t, P)}) = Cardinality(P) - 1
  BY <1>1, FS_RemoveElement
<1>4. 0 \in S
  <2>1. D(0) = {{}}
    BY <1>1, <1>2
  <2>2. DealsAll(t, D(0), [P \in {{}} |-> NothingDealt])
    BY <2>1 DEF DealsAll
  <2> QED BY <2>2
<1>5. ASSUME NEW n \in S PROVE n + 1 \in S
  <2>1. PICK g : DealsAll(t, D(n), g)
    OBVIOUS
  <2> DEFINE Further(P) == Turn(t, g[P \ {Newest(t, P)}], Newest(t, P))
             h == [P \in D(n + 1) |-> IF P = {} THEN NothingDealt ELSE Further(P)]
  <2>2. \A P \in D(n + 1) : P # {} => P \ {Newest(t, P)} \in D(n)
    BY <1>1, <1>3
  <2>3. \A P \in D(n) : P \in D(n + 1) /\ g[P] = IF P = {} THEN NothingDealt ELSE Further(P)
    <3>1. \A P \in D(n) : P \in D(n + 1)
      BY <1>1
    <3>2. g = [P \in D(n) |-> IF P = {} THEN NothingDealt ELSE Further(P)]
      BY <2>1 DEF DealsAll
    <3> HIDE DEF D, S, Further
    <3> QED BY <3>1, <3>2
  <2> HIDE DEF D, S, Further
  <2>4. \A P \in D(n) : h[P] = g[P]
    BY <2>3
  <2>5. DealsAll(t, D(n + 1), h)
    <3>1. \A P \in D(n + 1) : P # {} => h[P \ {Newest(t, P)}] = g[P \ {Newest(t, P)}]
      BY <2>2, <2>4
    <3>2. h = [P \in D(n + 1) |-> IF P = {} THEN NothingDealt
                                   ELSE Turn(t, h[P \ {Newest(t, P)}], Newest(t, P))]
      BY <3>1 DEF Further
    <3> QED BY <3>2, Zenon DEF DealsAll
  <2> HIDE DEF h
  <2> QED BY <2>5 DEF S
<1>6. S = Nat
  <2> HIDE DEF S
  <2>1. S \in SUBSET Nat
    BY DEF S
  <2> QED BY <1>4, <1>5, <2>1, AllNat
<1>7. D(Cardinality(C)) = SUBSET C /\ Cardinality(C) \in Nat
  BY <1>1
<1>8. \E g : DealsAll(t, D(Cardinality(C)), g)
  BY <1>6, <1>7
<1> QED
  BY <1>7, <1>8, Zenon

\* What Deal computes.
LEMMA DealIs ==
    ASSUME NEW t, t.scope # {}, IsFiniteSet(Candidates(t)),
           \A p \in Candidates(t) : t.view[p].id \in Nat
    PROVE  \E g : /\ DealsAll(t, SUBSET Candidates(t), g)
                  /\ Deal(t) = g[Candidates(t)]
<1> DEFINE C == Candidates(t)
<1>1. \E g : DealsAll(t, SUBSET C, g)
  BY NewestIn, LoopExists
<1>2. Deal(t) = (CHOOSE g : DealsAll(t, SUBSET C, g))[C]
  BY DEF Deal, DealsAll
<1> QED
  BY <1>1, <1>2

-----------------------------------------------------------------------------
(* What the loop keeps                                                     *)

Placements(P, scope) == UNION {[D -> scope] : D \in SUBSET P}

\* The list has been gone through q times, and the accounts before the cursor once
\* more; who has not got a customer each time was full.
InTurn(t, acc, q) ==
    \A a \in t.scope :
        LET m == IF Place(t, a) < acc.cursor THEN q + 1 ELSE q
        IN  /\ Share(acc.dealt, a) <= m
            /\ Share(acc.dealt, a) = m \/ Full(t, acc.dealt, a)

\* The customers P have had their turn.
DealtFairly(t, acc, P) ==
    /\ acc \in [cursor: 0..(Cardinality(t.scope) - 1), dealt: Placements(P, t.scope), left: SUBSET P]
    /\ \E q \in Nat : InTurn(t, acc, q)
    /\ acc.left # {} => \A a \in t.scope : Full(t, acc.dealt, a)
    /\ t.cap # None => \A a \in t.scope :
          Share(acc.dealt, a) > 0 => Load(t.view, a) + Share(acc.dealt, a) <= t.cap

\* What a request to be dealt is.
Askable(t) ==
    /\ t.scope \subseteq Account /\ t.scope # {}
    /\ t.cap \in Nat \cup {None}

LEMMA ScopeFinite ==
    ASSUME NEW t, Askable(t)
    PROVE  t.scope \subseteq Nat /\ IsFiniteSet(t.scope) /\ t.scope # {}
<1>1. Account \subseteq Nat /\ IsFiniteSet(Account)
  BY BookAssumption DEF BookAssumption
<1>2. t.scope \in SUBSET Account /\ t.scope # {}
  BY DEF Askable
<1> QED
  BY <1>1, <1>2, FS_Subset

LEMMA LoadType == \A book, a : Load(book, a) \in Nat
BY FS_Subset, FS_CardinalityType, BookAssumption DEF BookAssumption, Load, Exists

LEMMA PlacementDomain ==
    ASSUME NEW P, IsFiniteSet(P), NEW scope, NEW d \in Placements(P, scope)
    PROVE  /\ DOMAIN d \subseteq P /\ IsFiniteSet(DOMAIN d)
           /\ \A p \in DOMAIN d : d[p] \in scope
           /\ \A a : Share(d, a) \in Nat
<1>1. DOMAIN d \subseteq P /\ \A p \in DOMAIN d : d[p] \in scope
  BY DEF Placements
<1>2. IsFiniteSet(DOMAIN d)
  BY <1>1, FS_Subset
<1>3. \A a : {p \in DOMAIN d : d[p] = a} \in SUBSET DOMAIN d
  OBVIOUS
<1> QED
  BY <1>1, <1>2, <1>3, FS_Subset, FS_CardinalityType DEF Share

LEMMA OneMore ==
    ASSUME NEW P, IsFiniteSet(P), NEW scope, NEW d \in Placements(P, scope),
           NEW p, p \notin P, NEW a \in scope, NEW e,
           e = [q \in DOMAIN d \cup {p} |-> IF q = p THEN a ELSE d[q]]
    PROVE  /\ e \in Placements(P \cup {p}, scope)
           /\ \A b : Share(e, b) = IF b = a THEN Share(d, b) + 1 ELSE Share(d, b)
<1>1. DOMAIN d \subseteq P /\ IsFiniteSet(DOMAIN d) /\ \A q \in DOMAIN d : d[q] \in scope
  BY PlacementDomain
<1>2. e \in Placements(P \cup {p}, scope)
  <2>1. e \in [DOMAIN d \cup {p} -> scope] /\ DOMAIN d \cup {p} \in SUBSET (P \cup {p})
    BY <1>1
  <2> QED BY <2>1 DEF Placements
<1>3. ASSUME NEW b PROVE Share(e, b) = IF b = a THEN Share(d, b) + 1 ELSE Share(d, b)
  <2> DEFINE old == {q \in DOMAIN d : d[q] = b}
             new == {q \in DOMAIN e : e[q] = b}
  <2>1. IsFiniteSet(old) /\ p \notin old
    BY <1>1, FS_Subset
  <2>2. CASE b = a
    <3>1. new = old \cup {p}
      BY <1>1, <2>2
    <3>2. Cardinality(new) = Cardinality(old) + 1
      BY <2>1, <3>1, FS_AddElement
    <3> QED BY <2>2, <3>2 DEF Share
  <2>3. CASE b # a
    <3>1. new = old
      BY <1>1, <2>3
    <3> QED BY <2>3, <3>1 DEF Share
  <2> QED BY <2>2, <2>3
<1> QED
  BY <1>2, <1>3

LEMMA StartIsFair ==
    ASSUME NEW t, Askable(t)
    PROVE  DealtFairly(t, NothingDealt, {})
<1> DEFINE n == Cardinality(t.scope)
<1>1. n \in Nat /\ n > 0
  BY ScopeFinite, FS_CardinalityType, FS_EmptySet
<1>2. \A a : Share(NothingDealt.dealt, a) = 0
  <2>1. \A a : {p \in DOMAIN NothingDealt.dealt : NothingDealt.dealt[p] = a} = {}
    BY DEF NothingDealt
  <2> QED BY <2>1, FS_EmptySet DEF Share
<1>3. NothingDealt \in [cursor: 0..(n - 1), dealt: Placements({}, t.scope), left: SUBSET {}]
  <2>1. [p \in {} |-> None] \in [{} -> t.scope]
    OBVIOUS
  <2>2. [p \in {} |-> None] \in Placements({}, t.scope)
    BY <2>1 DEF Placements
  <2> HIDE DEF n
  <2> QED BY <1>1, <2>2 DEF NothingDealt
<1>4. InTurn(t, NothingDealt, 0)
  <2>1. t.scope \subseteq Nat /\ IsFiniteSet(t.scope)
    BY ScopeFinite
  <2>2. \A a \in t.scope : Place(t, a) >= 0
    BY <2>1, PlaceInList
  <2>3. NothingDealt.cursor = 0
    BY DEF NothingDealt
  <2> HIDE DEF n
  <2>4. \A a \in t.scope : ~(Place(t, a) < 0)
    <3>1. \A a \in t.scope : Place(t, a) \in Int
      BY <2>1, PlaceInList
    <3> QED BY <2>2, <3>1
  <2> QED BY <1>2, <2>3, <2>4, Zenon, SMT DEF InTurn
<1>5. NothingDealt.left = {}
  BY DEF NothingDealt
<1> HIDE DEF n
<1> QED
  BY <1>2, <1>3, <1>4, <1>5 DEF DealtFairly, n

\* The next place taken moves the expected share of those passed by one.
LEMMA CursorMoves ==
    ASSUME NEW n \in Nat, NEW c \in 0..(n - 1), NEW x \in 0..(n - 1), NEW q \in Nat
    PROVE  LET Wait(y) == (y - c) % n
               next == (x + 1) % n
               round == IF c <= x /\ x < n - 1 THEN q ELSE q + 1
           IN  /\ next \in 0..(n - 1) /\ round \in Nat
               /\ \A y \in 0..(n - 1) :
                    (IF y < next THEN round + 1 ELSE round) =
                      (IF y < c THEN q + 1 ELSE q) + (IF Wait(y) <= Wait(x) THEN 1 ELSE 0)
<1>1. (x + 1) % n = IF x = n - 1 THEN 0 ELSE x + 1
  BY Following
<1>2. \A y \in 0..(n - 1) : (y - c) % n = IF c <= y THEN y - c ELSE y - c + n
  BY Around
<1> QED
  BY <1>1, <1>2

LEMMA TurnIsFair ==
    ASSUME NEW t, Askable(t), NEW P, IsFiniteSet(P), NEW p, p \notin P,
           NEW acc, DealtFairly(t, acc, P)
    PROVE  DealtFairly(t, Turn(t, acc, p), P \cup {p})
<1> DEFINE n == Cardinality(t.scope)
           c == acc.cursor
           d == acc.dealt
           Wait(a) == (Place(t, a) - c) % n
           open == {a \in t.scope : ~Full(t, d, a)}
           next == CHOOSE a \in open : \A b \in open : Wait(a) <= Wait(b)
<1>1. t.scope \subseteq Nat /\ IsFiniteSet(t.scope) /\ t.scope # {}
  BY ScopeFinite
<1>2. /\ n \in Nat
      /\ \A a \in t.scope : Place(t, a) \in 0..(n - 1)
      /\ \A a, b \in t.scope : a # b => Place(t, a) # Place(t, b)
  BY <1>1, PlaceInList
<1>3. acc \in [cursor: 0..(n - 1), dealt: Placements(P, t.scope), left: SUBSET P]
  BY DEF DealtFairly
<1>4. c \in 0..(n - 1) /\ d \in Placements(P, t.scope) /\ acc.left \subseteq P
  BY <1>3
<1>5. \A a : Share(d, a) \in Nat
  BY <1>4, PlacementDomain
<1>6. Placements(P, t.scope) \subseteq Placements(P \cup {p}, t.scope)
  BY DEF Placements
<1>7. PICK q \in Nat : InTurn(t, acc, q)
  BY DEF DealtFairly
<1>8. CASE open = {}
  <2> DEFINE new == [acc EXCEPT !.left = @ \cup {p}]
  <2>1. Turn(t, acc, p) = new
    BY <1>8 DEF Turn
  <2>2. /\ new \in [cursor: 0..(n - 1), dealt: Placements(P \cup {p}, t.scope), left: SUBSET (P \cup {p})]
        /\ new.cursor = c /\ new.dealt = d
    BY <1>3, <1>4, <1>6
  <2>3. \A a \in t.scope : Full(t, d, a)
    BY <1>8
  <2> HIDE DEF new
  <2>4. InTurn(t, new, q)
    BY <1>7, <2>2 DEF InTurn
  <2> QED BY <2>1, <2>2, <2>3, <2>4 DEF DealtFairly
<1>9. CASE open # {}
  <2> DEFINE e == [r \in DOMAIN d \cup {p} |-> IF r = p THEN next ELSE d[r]]
             new == [acc EXCEPT !.cursor = (Place(t, next) + 1) % n, !.dealt = e]
             round == IF c <= Place(t, next) /\ Place(t, next) < n - 1 THEN q ELSE q + 1
  <2>1. Turn(t, acc, p) = new
    BY <1>9 DEF Turn
  <2>2. \A a \in t.scope : Wait(a) \in Nat
    <3>1. \A a \in t.scope : Wait(a) = IF c <= Place(t, a) THEN Place(t, a) - c ELSE Place(t, a) - c + n
      BY <1>2, <1>4, Around
    <3> HIDE DEF Wait, c, n
    <3> QED BY <1>2, <1>4, <3>1
  <2>3. next \in open /\ \A b \in open : Wait(next) <= Wait(b)
    <3> DEFINE W == {Wait(a) : a \in open}
    <3>1. W \in SUBSET Nat /\ W # {}
      BY <1>9, <2>2
    <3>2. \E w \in W : \A v \in W : w <= v
      <4> HIDE DEF W
      <4> QED BY <3>1, LeastNat
    <3> HIDE DEF Wait
    <3>3. \E a \in open : \A b \in open : Wait(a) <= Wait(b)
      BY <3>2
    <3> QED BY <3>3
  <2>4. next \in t.scope /\ ~Full(t, d, next)
    BY <2>3
  <2> HIDE DEF next
  <2>5. /\ e \in Placements(P \cup {p}, t.scope)
        /\ \A b : Share(e, b) = IF b = next THEN Share(d, b) + 1 ELSE Share(d, b)
    <3>1. \A x : x = e => /\ x \in Placements(P \cup {p}, t.scope)
                          /\ \A b : Share(x, b) = IF b = next THEN Share(d, b) + 1 ELSE Share(d, b)
      <4> HIDE DEF d, e
      <4>1. IsFiniteSet(P) /\ p \notin P /\ d \in Placements(P, t.scope) /\ next \in t.scope
        BY <1>4, <2>4
      <4>2. e = [r \in DOMAIN d \cup {p} |-> IF r = p THEN next ELSE d[r]]
        BY DEF e
      <4> QED BY <4>1, <4>2, OneMore
    <3> HIDE DEF e
    <3> QED BY <3>1, Zenon
  <2>6. /\ (Place(t, next) + 1) % n \in 0..(n - 1) /\ round \in Nat
        /\ \A y \in 0..(n - 1) :
             (IF y < (Place(t, next) + 1) % n THEN round + 1 ELSE round) =
               (IF y < c THEN q + 1 ELSE q)
               + (IF (y - c) % n <= Wait(next) THEN 1 ELSE 0)
    BY <1>2, <1>4, <2>4, CursorMoves
  <2> HIDE DEF e, open
  <2>7. /\ new \in [cursor: 0..(n - 1), dealt: Placements(P \cup {p}, t.scope), left: SUBSET (P \cup {p})]
        /\ new.cursor = (Place(t, next) + 1) % n /\ new.dealt = e /\ new.left = acc.left
    BY <1>3, <1>4, <2>5, <2>6
  <2>8. \A a \in t.scope : Full(t, d, a) => Full(t, e, a)
    <3>1. \A a \in t.scope : /\ Share(d, a) \in Nat /\ Load(t.view, a) \in Nat
                             /\ Share(e, a) \in Nat /\ Share(d, a) <= Share(e, a)
      BY <1>5, <2>5, LoadType
    <3>2. t.cap \in Nat \cup {None}
      BY DEF Askable
    <3> QED BY <3>1, <3>2 DEF Full
  <2> HIDE DEF new, round
  <2>9. InTurn(t, new, round)
    <3> SUFFICES ASSUME NEW a \in t.scope
                 PROVE  LET m == IF Place(t, a) < new.cursor THEN round + 1 ELSE round
                        IN  Share(e, a) <= m /\ (Share(e, a) = m \/ Full(t, e, a))
      BY <2>7 DEF InTurn
    <3> DEFINE m == IF Place(t, a) < c THEN q + 1 ELSE q
               k == IF Place(t, a) < new.cursor THEN round + 1 ELSE round
    <3>1. Share(d, a) <= m /\ (Share(d, a) = m \/ Full(t, d, a))
      BY <1>7 DEF InTurn
    <3>2. k = m + (IF Wait(a) <= Wait(next) THEN 1 ELSE 0)
      BY <1>2, <2>6, <2>7
    <3>3. m \in Nat
      OBVIOUS
    <3>4. a = next => Share(d, a) = m /\ Share(e, a) = Share(d, a) + 1 /\ k = m + 1
      <4>1. a = next => Wait(a) <= Wait(next)
        BY <2>2, <2>4
      <4> QED BY <2>4, <2>5, <3>1, <3>2, <4>1
    <3>5. a # next => Share(e, a) = Share(d, a)
      BY <2>5
    <3>6. a # next /\ Wait(a) <= Wait(next) => Full(t, d, a)
      <4> SUFFICES ASSUME a # next, Wait(a) <= Wait(next), ~Full(t, d, a) PROVE FALSE
        OBVIOUS
      <4>1. a \in open
        BY DEF open
      <4>2. Wait(next) <= Wait(a)
        BY <2>3, <4>1
      <4>3. Wait(a) = Wait(next)
        BY <2>2, <2>4, <4>2
      <4>4. Place(t, a) = Place(t, next)
        BY <1>2, <1>4, <2>4, <4>3, DistinctWaits
      <4> HIDE DEF Wait, n, c, m, k
      <4> QED BY <1>2, <2>4, <4>4
    <3> HIDE DEF m, k, Wait
    <3>7. Share(e, a) <= k /\ (Share(e, a) = k \/ Full(t, e, a))
      BY <1>5, <2>8, <3>1, <3>2, <3>3, <3>4, <3>5, <3>6
    <3> QED BY <3>7 DEF k
  <2>10. t.cap # None => \A a \in t.scope :
            Share(e, a) > 0 => Load(t.view, a) + Share(e, a) <= t.cap
    <3> SUFFICES ASSUME t.cap # None, NEW a \in t.scope, Share(e, a) > 0
                 PROVE  Load(t.view, a) + Share(e, a) <= t.cap
      OBVIOUS
    <3>1. t.cap \in Nat /\ Load(t.view, a) \in Nat /\ Share(d, a) \in Nat
      BY <1>5, LoadType DEF Askable
    <3>2. CASE a = next
      BY <2>4, <2>5, <3>1, <3>2 DEF Full
    <3>3. CASE a # next
      BY <2>5, <3>1, <3>3 DEF DealtFairly
    <3> QED BY <3>2, <3>3
  <2>11. acc.left # {} => \A a \in t.scope : Full(t, e, a)
    BY <2>8 DEF DealtFairly
  <2>12. acc.left \subseteq P \cup {p}
    BY <1>4
  <2> QED BY <2>1, <2>6, <2>7, <2>9, <2>10, <2>11 DEF DealtFairly
<1> QED
  BY <1>8, <1>9

\* The whole loop.
LEMMA DealIsFair ==
    ASSUME NEW t, Askable(t), IsFiniteSet(Candidates(t)),
           \A p \in Candidates(t) : t.view[p].id \in Nat
    PROVE  DealtFairly(t, Deal(t), Candidates(t))
<1> DEFINE C == Candidates(t)
<1>1. PICK g : DealsAll(t, SUBSET C, g) /\ Deal(t) = g[C]
  BY DealIs, ScopeFinite
<1> DEFINE Bad == {P \in SUBSET C : ~DealtFairly(t, g[P], P)}
<1>2. SUFFICES ASSUME Bad # {} PROVE FALSE
  BY <1>1
<1>3. PICK P \in Bad : \A Q \in Bad : Q \subseteq P => Q = P
  <2>1. Bad \in SUBSET SUBSET C
    OBVIOUS
  <2> HIDE DEF Bad
  <2> QED BY <1>2, <2>1, LeastSubset
<1>4. g[P] = IF P = {} THEN NothingDealt ELSE Turn(t, g[P \ {Newest(t, P)}], Newest(t, P))
  <2> HIDE DEF C
  <2>1. P \in SUBSET C
    OBVIOUS
  <2> HIDE DEF Bad
  <2> QED BY <1>1, <2>1 DEF DealsAll
<1>5. CASE P = {}
  BY <1>3, <1>4, <1>5, StartIsFair
<1>6. CASE P # {}
  <2> DEFINE p == Newest(t, P)
             Q == P \ {p}
  <2>1. p \in P
    BY <1>6, NewestIn
  <2>2. Q \in SUBSET C /\ Q # P /\ Q \subseteq P /\ p \notin Q /\ Q \cup {p} = P
    BY <2>1
  <2>3. DealtFairly(t, g[Q], Q) /\ IsFiniteSet(Q)
    BY <1>3, <2>2, FS_Subset
  <2> HIDE DEF p, Q
  <2>4. DealtFairly(t, Turn(t, g[Q], p), Q \cup {p})
    BY <2>2, <2>3, TurnIsFair
  <2>5. DealtFairly(t, g[P], P)
    BY <1>4, <1>6, <2>2, <2>4 DEF p, Q
  <2> QED BY <1>3, <2>5
<1> QED
  BY <1>5, <1>6

-----------------------------------------------------------------------------
(* The invariant                                                           *)

Books == [Phone -> CustomerRow \cup {None}]

Transactions ==
    [pc: {"open", "flushed"}, kind: {"assign", "import"}, todo: SUBSET Phone,
     ids: SUBSET Phone, scope: SUBSET Account, only: BOOLEAN, cap: Nat \cup {None},
     base: Books, view: Books, made: SUBSET Phone, dealt: Placements(Phone, Account),
     left: SUBSET Phone, late: SUBSET Phone]

\* A request knows the book but for its own customers and what others changed
\* since; its own are nobody else's.
Reading(t, book) ==
    /\ \A p \in t.made : /\ book[p] = None /\ t.base[p] = None
                         /\ t.view[p] \in CustomerRow /\ t.view[p].to = None
    /\ \A p \in Phone \ t.made : t.view[p] = t.base[p]
    /\ \A p \in Phone \ t.late : book[p] = t.base[p]
    /\ \A p \in Held(t) \ t.made : book[p] # None
    /\ t.kind = "import" => t.ids \subseteq t.made /\ t.only

\* What EvenShares says of one request.
Even(t) ==
    /\ \A a, b \in t.scope :
          Share(t.dealt, a) <= Share(t.dealt, b) + 1 \/ Full(t, t.dealt, b)
    /\ t.left # {} => \A a \in t.scope : Full(t, t.dealt, a)

\* A flushed request has dealt its candidates, within the limit and evenly.
Settled(t) ==
    /\ DOMAIN t.dealt \subseteq Candidates(t)
    /\ t.kind = "import" => DOMAIN t.dealt \subseteq t.made
    /\ t.cap # None => \A p \in DOMAIN t.dealt :
          Load(t.view, t.dealt[p]) + Share(t.dealt, t.dealt[p]) <= t.cap
    /\ t.only => Even(t)

BookTypes ==
    /\ customer \in Books
    /\ usable \subseteq Account
    /\ nextId \in Nat
    /\ req \in [Request -> Transactions \cup {NoRequest}]

RequestInv ==
    /\ \A r \in Request :
          \/ req[r] = NoRequest
          \/ Reading(req[r], customer) /\ (req[r].pc = "flushed" => Settled(req[r]))
    /\ \A r, q \in Request : r # q => Held(req[r]) \cap Held(req[q]) = {}

BookInv == BookTypes /\ RequestInv

-----------------------------------------------------------------------------
(* What a step does to the requests                                        *)

LEMMA NoRequestParts == NoRequest.pc = "idle" /\ Held(NoRequest) = {} /\ NoRequest.made = {}
BY DEF NoRequest, Held

LEMMA Busy ==
    ASSUME BookInv, NEW r \in Request, req[r].pc # "idle"
    PROVE  /\ req[r] \in Transactions /\ Reading(req[r], customer)
           /\ req[r].pc = "flushed" => Settled(req[r])
BY NoRequestParts DEF BookInv, BookTypes, RequestInv

LEMMA HeldIn ==
    ASSUME NEW t \in Transactions
    PROVE  t.made \subseteq Held(t) /\ Held(t) \subseteq Phone
<1>1. t.dealt \in Placements(Phone, Account) /\ t.made \subseteq Phone
  BY DEF Transactions
<1>2. DOMAIN t.dealt \subseteq Phone
  BY <1>1 DEF Placements
<1> QED
  BY <1>1, <1>2 DEF Held

\* A request moves on, or ends.
LEMMA OwnStep ==
    ASSUME BookInv, NEW r \in Request, NEW t,
           t = NoRequest \/ (/\ t \in Transactions /\ Reading(t, customer)
                             /\ t.pc = "flushed" => Settled(t)),
           \A q \in Request \ {r} : Held(t) \cap Held(req[q]) = {},
           req' = [req EXCEPT ![r] = t],
           UNCHANGED customer, usable' \subseteq Account, nextId' \in Nat
    PROVE  BookInv'
<1>1. req \in [Request -> Transactions \cup {NoRequest}] /\ customer \in Books
  BY DEF BookInv, BookTypes
<1>2. \A q \in Request : req'[q] = IF q = r THEN t ELSE req[q]
  BY <1>1
<1>3. req' \in [Request -> Transactions \cup {NoRequest}]
  BY <1>1
<1>4. BookTypes'
  BY <1>1, <1>3 DEF BookTypes
<1>5. \A q \in Request : \/ req'[q] = NoRequest
                         \/ Reading(req'[q], customer') /\ (req'[q].pc = "flushed" => Settled(req'[q]))
  BY <1>2 DEF BookInv, RequestInv
<1>6. \A p, q \in Request : p # q => Held(req'[p]) \cap Held(req'[q]) = {}
  BY <1>2 DEF BookInv, RequestInv
<1> QED
  BY <1>4, <1>5, <1>6 DEF BookInv, RequestInv

\* The customers P are changed: the other requests are told, r ends.
LEMMA ChangeStep ==
    ASSUME BookInv, NEW P \in SUBSET Phone, customer' \in Books,
           \A p \in Phone \ P : customer'[p] = customer[p],
           req' \in [Request -> Transactions \cup {NoRequest}],
           \A q \in Request :
              \/ req'[q] = NoRequest
              \/ /\ req[q] # NoRequest /\ req'[q] = [req[q] EXCEPT !.late = @ \cup P]
                 /\ \A p \in req[q].made : customer'[p] = None
                 /\ \A p \in Held(req[q]) \ req[q].made : customer'[p] # None,
           usable' \subseteq Account, UNCHANGED nextId
    PROVE  BookInv'
<1>1. BookTypes'
  BY DEF BookInv, BookTypes
<1>2. ASSUME NEW q \in Request, req'[q] # NoRequest
      PROVE  /\ Held(req'[q]) = Held(req[q])
             /\ Reading(req'[q], customer')
             /\ req'[q].pc = "flushed" => Settled(req'[q])
  <2> DEFINE t == req[q]
             u == [t EXCEPT !.late = @ \cup P]
  <2>1. /\ t \in Transactions /\ Reading(t, customer) /\ (t.pc = "flushed" => Settled(t))
        /\ req'[q] = u /\ \A p \in t.made : customer'[p] = None
        /\ \A p \in Held(t) \ t.made : customer'[p] # None
    BY <1>2 DEF BookInv, BookTypes, RequestInv
  <2>2. /\ u.pc = t.pc /\ u.kind = t.kind /\ u.ids = t.ids /\ u.scope = t.scope /\ u.only = t.only
        /\ u.cap = t.cap /\ u.base = t.base /\ u.view = t.view /\ u.made = t.made
        /\ u.dealt = t.dealt /\ u.left = t.left /\ u.late = t.late \cup P
    BY <2>1 DEF Transactions
  <2> HIDE DEF t, u
  <2>3. Held(u) = Held(t)
    BY <2>2 DEF Held
  <2>4. Reading(u, customer')
    <3>1. \A p \in Phone \ u.late : p \in Phone \ t.late /\ p \in Phone \ P
      BY <2>2
    <3> QED BY <2>1, <2>2, <2>3, <3>1 DEF Reading
  <2>5. t.pc = "flushed" => Settled(u)
    <3>1. Candidates(u) = Candidates(t)
      BY <2>2 DEF Candidates, Asked
    <3>2. \A a : Full(u, u.dealt, a) <=> Full(t, t.dealt, a)
      BY <2>2 DEF Full
    <3>3. Even(u) <=> Even(t)
      BY <2>2, <3>2 DEF Even
    <3> QED BY <2>1, <2>2, <3>1, <3>3 DEF Settled
  <2> QED BY <2>1, <2>2, <2>3, <2>4, <2>5 DEF t
<1>3. \A r, q \in Request : r # q => Held(req'[r]) \cap Held(req'[q]) = {}
  <2>1. \A q \in Request : Held(req'[q]) = Held(req[q]) \/ Held(req'[q]) = {}
    BY <1>2, NoRequestParts
  <2> QED BY <2>1 DEF BookInv, RequestInv
<1> QED
  BY <1>1, <1>2, <1>3 DEF BookInv, RequestInv

LEMMA OpenedStep ==
    ASSUME BookInv, NEW r \in Request, NEW kind \in {"assign", "import"},
           NEW todo \in SUBSET Phone, NEW ids \in SUBSET Phone, NEW only \in BOOLEAN,
           kind = "import" => ids = {} /\ only,
           Opened(r, kind, todo, ids, only)
    PROVE  BookInv'
<1>1. PICK scope \in Scopes, cap \in Caps :
         req' = [req EXCEPT ![r] =
             [NoRequest EXCEPT !.pc = "open", !.kind = kind, !.todo = todo, !.ids = ids,
                          !.only = only, !.scope = scope \cap usable, !.cap = cap,
                          !.base = customer, !.view = customer]]
  BY DEF Opened
<1> DEFINE t == [NoRequest EXCEPT !.pc = "open", !.kind = kind, !.todo = todo, !.ids = ids,
                          !.only = only, !.scope = scope \cap usable, !.cap = cap,
                          !.base = customer, !.view = customer]
<1>2. /\ t.pc = "open" /\ t.kind = kind /\ t.todo = todo /\ t.ids = ids /\ t.only = only
      /\ t.scope = scope \cap usable /\ t.cap = cap /\ t.base = customer /\ t.view = customer
      /\ t.made = {} /\ t.dealt = <<>> /\ t.left = {} /\ t.late = {}
  BY DEF NoRequest
<1>3. <<>> \in Placements(Phone, Account)
  <2>1. <<>> \in [{} -> Account]
    OBVIOUS
  <2> QED BY <2>1 DEF Placements
<1>4. cap \in Nat \cup {None} /\ scope \cap usable \subseteq Account /\ customer \in Books
  BY BookAssumption DEF BookAssumption, BookInv, BookTypes
<1>5. t \in Transactions
  BY <1>2, <1>3, <1>4 DEF Transactions, NoRequest
<1> HIDE DEF t
<1>6. Reading(t, customer)
  BY <1>2 DEF Reading, Held
<1>7. Held(t) = {} /\ t.pc # "flushed"
  BY <1>2 DEF Held
<1>8. UNCHANGED <<customer, usable, nextId>> /\ usable \subseteq Account /\ nextId \in Nat
  BY DEF Opened, BookInv, BookTypes
<1> QED
  BY <1>1, <1>5, <1>6, <1>7, <1>8, OwnStep DEF t

LEMMA EndStep ==
    ASSUME BookInv, NEW r \in Request, req' = [req EXCEPT ![r] = NoRequest],
           UNCHANGED <<customer, usable, nextId>>
    PROVE  BookInv'
<1>1. usable \subseteq Account /\ nextId \in Nat
  BY DEF BookInv, BookTypes
<1> QED
  BY <1>1, OwnStep, NoRequestParts

LEMMA LineStep ==
    ASSUME BookInv, NEW r \in Request, NEW p \in Phone, Line(r, p)
    PROVE  BookInv'
<1> DEFINE t == req[r]
<1>1. /\ t \in Transactions /\ Reading(t, customer) /\ t.pc = "open"
      /\ UNCHANGED <<customer, usable>> /\ usable \subseteq Account /\ nextId \in Nat
  <2>1. t.pc = "open" /\ UNCHANGED <<customer, usable>> /\ usable \subseteq Account /\ nextId \in Nat
    BY DEF Line, BookInv, BookTypes
  <2> QED BY <2>1, Busy
<1>2. \A q \in Request \ {r} : Held(t) \cap Held(req[q]) = {}
  BY DEF BookInv, RequestInv
<1>3. CASE t.view[p] # None
  <2> DEFINE u == [t EXCEPT !.todo = @ \ {p}]
  <2>1. req' = [req EXCEPT ![r] = u] /\ nextId' = nextId
    BY <1>3 DEF Line
  <2>2. /\ u \in Transactions /\ u.pc = "open" /\ u.made = t.made /\ u.view = t.view
        /\ u.base = t.base /\ u.late = t.late /\ u.kind = t.kind /\ u.ids = t.ids /\ u.only = t.only
    BY <1>1 DEF Transactions
  <2> HIDE DEF u, t
  <2>3. Reading(u, customer) /\ Held(u) = Held(t)
    BY <1>1, <2>2 DEF Reading, Held
  <2> QED BY <1>1, <1>2, <2>1, <2>2, <2>3, OwnStep
<1>4. CASE t.view[p] = None
  <2>0. /\ customer[p] = None /\ Unlocked({p}, r) /\ nextId' = nextId + 1
        /\ \E consent \in BOOLEAN :
             req' = [req EXCEPT ![r] =
                        [t EXCEPT !.todo = @ \ {p}, !.made = @ \cup {p},
                            !.view[p] = [id |-> nextId, consent |-> consent, to |-> None]]]
    BY <1>4, Zenon DEF Line
  <2>1. PICK consent \in BOOLEAN :
          req' = [req EXCEPT ![r] =
                        [t EXCEPT !.todo = @ \ {p}, !.made = @ \cup {p},
                            !.view[p] = [id |-> nextId, consent |-> consent, to |-> None]]]
    BY <2>0
  <2> DEFINE row == [id |-> nextId, consent |-> consent, to |-> None]
             u == [t EXCEPT !.todo = @ \ {p}, !.made = @ \cup {p}, !.view[p] = row]
  <2>2. row \in CustomerRow /\ row.to = None
    BY <1>1 DEF CustomerRow
  <2>3. nextId' \in Nat /\ customer[p] = None /\ Unlocked({p}, r)
    BY <1>1, <2>0
  <2> HIDE DEF row
  <2>4. /\ u \in Transactions /\ u.pc = "open" /\ u.made = t.made \cup {p}
        /\ u.view = [t.view EXCEPT ![p] = row] /\ t.view \in Books
        /\ u.base = t.base /\ u.late = t.late /\ u.kind = t.kind /\ u.ids = t.ids /\ u.only = t.only
    BY <1>1, <2>2 DEF Transactions, Books
  <2>5. req' = [req EXCEPT ![r] = u]
    BY <2>1 DEF row
  <2> HIDE DEF u, t
  <2>6. p \notin t.made
    BY <1>1, <1>4, BookAssumption DEF Reading, BookAssumption
  <2>7. \A x \in Phone : u.view[x] = IF x = p THEN row ELSE t.view[x]
    BY <2>4 DEF Books
  <2>8. t.base[p] = None
    BY <1>1, <1>4, <2>6 DEF Reading
  <2>9. Held(u) = u.made /\ Held(u) = Held(t) \cup {p}
    BY <1>1, <2>4 DEF Held
  <2>10. Reading(u, customer)
    <3>1. t.made \subseteq Phone
      BY <1>1 DEF Transactions
    <3> QED BY <1>1, <2>2, <2>3, <2>4, <2>7, <2>8, <2>9, <3>1 DEF Reading
  <2>11. \A q \in Request \ {r} : Held(u) \cap Held(req[q]) = {}
    BY <1>2, <2>3, <2>9 DEF Unlocked
  <2> QED BY <1>1, <2>3, <2>4, <2>5, <2>10, <2>11, OwnStep
<1> QED
  BY <1>3, <1>4

-----------------------------------------------------------------------------
(* The deal of a request                                                   *)

\* What a request deals goes to candidates, within the limit, and evenly.
GoodDeal(t, new) ==
    /\ new.dealt \in Placements(Candidates(t), t.scope) /\ new.left \subseteq Candidates(t)
    /\ t.cap # None => \A a \in t.scope :
          Share(new.dealt, a) > 0 => Load(t.view, a) + Share(new.dealt, a) <= t.cap
    /\ \A a, b \in t.scope :
          Share(new.dealt, a) <= Share(new.dealt, b) + 1 \/ Full(t, new.dealt, b)
    /\ new.left # {} => \A a \in t.scope : Full(t, new.dealt, a)

LEMMA FairIsEven ==
    ASSUME NEW t, Askable(t), NEW acc, NEW P, IsFiniteSet(P), DealtFairly(t, acc, P)
    PROVE  \A a, b \in t.scope : Share(acc.dealt, a) <= Share(acc.dealt, b) + 1 \/ Full(t, acc.dealt, b)
<1>1. PICK q \in Nat : InTurn(t, acc, q)
  BY DEF DealtFairly
<1>2. \A a \in t.scope : Share(acc.dealt, a) \in Nat
  <2>1. acc.dealt \in Placements(P, t.scope)
    BY DEF DealtFairly
  <2> QED BY <2>1, PlacementDomain
<1>3. \A a \in t.scope : /\ Share(acc.dealt, a) <= q + 1
                         /\ Share(acc.dealt, a) >= q \/ Full(t, acc.dealt, a)
  <2> SUFFICES ASSUME NEW a \in t.scope
               PROVE  /\ Share(acc.dealt, a) <= q + 1
                      /\ Share(acc.dealt, a) >= q \/ Full(t, acc.dealt, a)
    OBVIOUS
  <2> DEFINE m == IF Place(t, a) < acc.cursor THEN q + 1 ELSE q
  <2>1. Share(acc.dealt, a) <= m /\ (Share(acc.dealt, a) = m \/ Full(t, acc.dealt, a))
    BY <1>1 DEF InTurn
  <2>2. m \in {q, q + 1}
    OBVIOUS
  <2> HIDE DEF m
  <2> QED BY <1>2, <2>1, <2>2
<1> QED
  BY <1>2, <1>3

LEMMA NothingIsGood ==
    ASSUME NEW t PROVE GoodDeal(t, NothingDealt) /\ DOMAIN NothingDealt.dealt = {}
<1>1. \A a : Share(NothingDealt.dealt, a) = 0
  <2>1. \A a : {p \in DOMAIN NothingDealt.dealt : NothingDealt.dealt[p] = a} = {}
    BY DEF NothingDealt
  <2> QED BY <2>1, FS_EmptySet DEF Share
<1>2. NothingDealt.left = {} /\ DOMAIN NothingDealt.dealt = {}
  BY DEF NothingDealt
<1>3. NothingDealt.dealt \in Placements(Candidates(t), t.scope)
  <2>1. NothingDealt.dealt \in [{} -> t.scope]
    BY DEF NothingDealt
  <2> QED BY <2>1 DEF Placements
<1> QED
  BY <1>1, <1>2, <1>3 DEF GoodDeal

LEMMA CandidatesIn ==
    ASSUME NEW t \in Transactions
    PROVE  /\ Candidates(t) \subseteq Phone /\ IsFiniteSet(Candidates(t))
           /\ \A p \in Candidates(t) : t.view[p] \in CustomerRow
<1>1. Candidates(t) \subseteq Phone /\ \A p \in Candidates(t) : t.view[p] # None
  BY DEF Candidates, Exists
<1>2. t.view \in Books
  BY DEF Transactions
<1> QED
  BY <1>1, <1>2, FS_Subset, BookAssumption DEF BookAssumption, Books

LEMMA DealIsGood ==
    ASSUME NEW t \in Transactions
    PROVE  GoodDeal(t, Deal(t))
<1>1. CASE t.scope = {}
  <2>1. Deal(t) = NothingDealt
    BY <1>1 DEF Deal
  <2> QED BY <2>1, NothingIsGood
<1>2. CASE t.scope # {}
  <2>1. Askable(t)
    BY <1>2 DEF Askable, Transactions
  <2>2. IsFiniteSet(Candidates(t)) /\ \A p \in Candidates(t) : t.view[p].id \in Nat
    BY CandidatesIn DEF CustomerRow
  <2>3. DealtFairly(t, Deal(t), Candidates(t))
    BY <2>1, <2>2, DealIsFair
  <2>4. \A a, b \in t.scope : Share(Deal(t).dealt, a) <= Share(Deal(t).dealt, b) + 1
                              \/ Full(t, Deal(t).dealt, b)
    BY <2>1, <2>2, <2>3, FairIsEven
  <2> QED BY <2>3, <2>4 DEF GoodDeal, DealtFairly
<1> QED
  BY <1>1, <1>2

\* What is written of a deal, and the transaction that has flushed it.
Moved(t, new) == {p \in DOMAIN new.dealt : t.view[p].to # new.dealt[p]}

Flushed(t, new) ==
    [t EXCEPT !.pc = "flushed", !.dealt = Restrict(new.dealt, Moved(t, new)),
              !.left = new.left]

LEMMA SettledDeal ==
    ASSUME NEW t \in Transactions, NEW new, GoodDeal(t, new),
           t.kind = "import" => DOMAIN new.dealt \subseteq t.made
    PROVE  /\ Flushed(t, new) \in Transactions /\ Settled(Flushed(t, new))
           /\ DOMAIN Flushed(t, new).dealt = Moved(t, new)
<1> DEFINE d == new.dealt
           written == Moved(t, new)
           u == Flushed(t, new)
           e == Restrict(d, written)
<1>1. /\ d \in Placements(Candidates(t), t.scope) /\ IsFiniteSet(Candidates(t))
      /\ Candidates(t) \subseteq Phone
  BY CandidatesIn DEF GoodDeal
<1>2. /\ DOMAIN d \subseteq Candidates(t) /\ IsFiniteSet(DOMAIN d)
      /\ \A p \in DOMAIN d : d[p] \in t.scope
      /\ \A a : Share(d, a) \in Nat
  BY <1>1, PlacementDomain
<1>3. /\ DOMAIN e = written /\ written \subseteq DOMAIN d /\ \A p \in written : e[p] = d[p]
      /\ e \in [written -> t.scope]
  BY <1>2 DEF Restrict, Moved
<1>4. t.scope \subseteq Account
  BY DEF Transactions
<1>5. e \in Placements(Phone, Account)
  <2>1. e \in [written -> Account] /\ written \in SUBSET Phone
    BY <1>1, <1>2, <1>3, <1>4
  <2> QED BY <2>1 DEF Placements
<1>6. new.left \subseteq Phone
  BY <1>1 DEF GoodDeal
<1>6a. u = [t EXCEPT !.pc = "flushed", !.dealt = e, !.left = new.left]
  BY DEF Flushed
<1> HIDE DEF e, u
<1>7. /\ u \in Transactions /\ u.pc = "flushed" /\ u.dealt = e /\ u.left = new.left
      /\ u.view = t.view /\ u.cap = t.cap /\ u.scope = t.scope /\ u.ids = t.ids
      /\ u.only = t.only /\ u.kind = t.kind /\ u.made = t.made
  BY <1>5, <1>6, <1>6a DEF Transactions
<1>8. Candidates(u) = Candidates(t)
  BY <1>7 DEF Candidates, Asked
<1>9. DOMAIN u.dealt \subseteq Candidates(u) /\ (u.kind = "import" => DOMAIN u.dealt \subseteq u.made)
  BY <1>2, <1>3, <1>7, <1>8
<1>10. \A a : Share(e, a) \in Nat /\ Share(e, a) <= Share(d, a)
  <2> TAKE a
  <2>1. {p \in DOMAIN e : e[p] = a} \in SUBSET {p \in DOMAIN d : d[p] = a}
    BY <1>3
  <2>2. IsFiniteSet({p \in DOMAIN d : d[p] = a})
    BY <1>2, FS_Subset
  <2> QED BY <2>1, <2>2, FS_Subset, FS_CardinalityType DEF Share
<1>11. u.cap # None => \A p \in DOMAIN u.dealt :
          Load(u.view, u.dealt[p]) + Share(u.dealt, u.dealt[p]) <= u.cap
  <2> SUFFICES ASSUME t.cap # None, NEW p \in written
               PROVE  Load(t.view, d[p]) + Share(e, d[p]) <= t.cap
    BY <1>3, <1>7
  <2>1. d[p] \in t.scope /\ p \in {q \in DOMAIN d : d[q] = d[p]}
    BY <1>2, <1>3
  <2>2. IsFiniteSet({q \in DOMAIN d : d[q] = d[p]})
    BY <1>2, FS_Subset
  <2>3. Share(d, d[p]) > 0
    <3>1. Share(d, d[p]) # 0
      BY <2>1, <2>2, FS_EmptySet DEF Share
    <3>2. Share(d, d[p]) \in Nat
      BY <1>2
    <3> HIDE DEF d
    <3> QED BY <3>1, <3>2
  <2>4. Load(t.view, d[p]) + Share(d, d[p]) <= t.cap
    BY <2>1, <2>3 DEF GoodDeal
  <2>5. t.cap \in Nat /\ Load(t.view, d[p]) \in Nat
    BY LoadType DEF Transactions
  <2> HIDE DEF d
  <2> QED BY <1>2, <1>10, <2>4, <2>5
<1>12. u.only => Even(u)
  <2> SUFFICES ASSUME t.only PROVE Even(u)
    BY <1>7
  <2>1. \A p \in DOMAIN d : t.view[p].to = None /\ d[p] # None
    BY <1>2, <1>4, BookAssumption DEF Candidates, BookAssumption
  <2>2. written = DOMAIN d
    BY <2>1 DEF Moved
  <2>3. e = d
    <3>1. d = [p \in DOMAIN d |-> d[p]]
      BY <1>1 DEF Placements
    <3> QED BY <2>2, <3>1 DEF e, Restrict
  <2>4. \A a : Full(u, u.dealt, a) <=> Full(t, d, a)
    BY <1>7, <2>3 DEF Full
  <2>5. /\ \A a, b \in t.scope : Share(d, a) <= Share(d, b) + 1 \/ Full(t, d, b)
        /\ new.left # {} => \A a \in t.scope : Full(t, d, a)
    BY DEF GoodDeal
  <2> HIDE DEF d
  <2> QED BY <1>7, <2>3, <2>4, <2>5 DEF Even
<1> QED
  BY <1>3, <1>7, <1>9, <1>11, <1>12 DEF Settled, u

LEMMA DealOutStep ==
    ASSUME BookInv, NEW r \in Request, DealOut(r)
    PROVE  BookInv'
<1> DEFINE t == IF req[r].kind = "import" THEN [req[r] EXCEPT !.ids = @ \cup req[r].made]
                ELSE req[r]
           new == IF Deals(t) THEN Deal(t) ELSE NothingDealt
           written == Moved(t, new)
           u == Flushed(t, new)
<1>1. /\ t.pc = "open" /\ Unlocked(written, r)
      /\ \/ req' = [req EXCEPT ![r] = u] /\ \A p \in written \ t.made : customer[p] # None
         \/ req' = [req EXCEPT ![r] = NoRequest]
      /\ UNCHANGED <<customer, usable, nextId>>
  BY Zenon DEF DealOut, Moved, Flushed
<1>2. req[r] \in Transactions /\ Reading(req[r], customer)
  <2>1. req[r].pc # "idle"
    <3>1. CASE req[r].kind # "import"
      BY <1>1, <3>1
    <3>2. CASE req[r].kind = "import" /\ req[r] = NoRequest
      BY <3>2 DEF NoRequest
    <3>3. CASE req[r] \in Transactions
      BY <3>3 DEF Transactions
    <3> QED BY <3>1, <3>2, <3>3 DEF BookInv, BookTypes
  <2> QED BY <2>1, Busy
<1>3. /\ t \in Transactions /\ Reading(t, customer) /\ t.made = req[r].made
      /\ t.kind = "import" => t.ids = t.made
  <2>1. CASE req[r].kind # "import"
    BY <1>2, <2>1
  <2>2. CASE req[r].kind = "import"
    <3> DEFINE v == [req[r] EXCEPT !.ids = @ \cup req[r].made]
    <3>1. /\ v \in Transactions /\ v.kind = "import" /\ v.ids = req[r].ids \cup req[r].made
          /\ v.made = req[r].made /\ v.view = req[r].view /\ v.base = req[r].base
          /\ v.late = req[r].late /\ v.only = req[r].only /\ v.pc = req[r].pc
          /\ v.dealt = req[r].dealt
      BY <1>2, <2>2 DEF Transactions
    <3>2. t = v
      BY <2>2
    <3> HIDE DEF v, t
    <3>3. req[r].ids \subseteq req[r].made /\ req[r].only
      BY <1>2, <2>2 DEF Reading
    <3>4. Held(v) = Held(req[r])
      BY <3>1 DEF Held
    <3>5. Reading(v, customer)
      BY <1>2, <3>1, <3>3, <3>4 DEF Reading
    <3> QED BY <3>1, <3>2, <3>3, <3>5
  <2> QED BY <2>1, <2>2
<1>4. t.pc = "open" /\ Held(req[r]) \cap Held(NoRequest) = {} /\ t.made \subseteq Held(req[r])
  BY <1>1, <1>3, NoRequestParts DEF Held
<1> HIDE DEF t
<1>5. GoodDeal(t, new) /\ (t.kind = "import" => DOMAIN new.dealt \subseteq t.made)
  <2>1. CASE ~Deals(t)
    BY <2>1, NothingIsGood
  <2>2. CASE Deals(t)
    <3>1. GoodDeal(t, Deal(t))
      BY <1>3, DealIsGood
    <3>2. DOMAIN Deal(t).dealt \subseteq Candidates(t) /\ IsFiniteSet(Candidates(t))
      BY <1>3, <3>1, PlacementDomain, CandidatesIn DEF GoodDeal
    <3>3. t.kind = "import" => Candidates(t) \subseteq t.made
      BY <1>3, <2>2 DEF Deals, Candidates, Asked
    <3>4. new = Deal(t)
      BY <2>2
    <3> HIDE DEF new
    <3> QED BY <3>1, <3>2, <3>3, <3>4
  <2> QED BY <2>1, <2>2
<1> HIDE DEF new
<1>6. u \in Transactions /\ Settled(u) /\ DOMAIN u.dealt = written
  BY <1>3, <1>5, SettledDeal
<1>7. /\ u.pc = "flushed" /\ u.made = t.made /\ u.view = t.view /\ u.base = t.base
      /\ u.late = t.late /\ u.kind = t.kind /\ u.ids = t.ids /\ u.only = t.only
  BY <1>3 DEF Transactions, Flushed
<1> HIDE DEF u, written
<1>8. Held(u) = t.made \cup written
  BY <1>6, <1>7 DEF Held
<1>9. req' # [req EXCEPT ![r] = NoRequest] => Reading(u, customer)
  <2>1. SUFFICES ASSUME req' # [req EXCEPT ![r] = NoRequest] PROVE Reading(u, customer)
    OBVIOUS
  <2>2. \A p \in Held(u) \ u.made : customer[p] # None
    BY <1>1, <1>7, <1>8, <2>1
  <2> QED BY <1>3, <1>7, <2>2 DEF Reading
<1>10. \A q \in Request \ {r} : Held(u) \cap Held(req[q]) = {}
  BY <1>1, <1>4, <1>8 DEF Unlocked, BookInv, RequestInv
<1>11. usable' \subseteq Account /\ nextId' \in Nat
  BY <1>1 DEF BookInv, BookTypes
<1>12. CASE req' = [req EXCEPT ![r] = u] /\ req' # [req EXCEPT ![r] = NoRequest]
  BY <1>1, <1>6, <1>9, <1>10, <1>11, <1>12, OwnStep
<1>13. CASE req' = [req EXCEPT ![r] = NoRequest]
  BY <1>1, <1>13, EndStep
<1> QED
  BY <1>1, <1>12, <1>13

LEMMA OvertakenType ==
    ASSUME BookInv, NEW P \in SUBSET Phone
    PROVE  /\ Overtaken(P) \in [Request -> Transactions \cup {NoRequest}]
           /\ \A q \in Request : \/ Overtaken(P)[q] = NoRequest
                                 \/ req[q] # NoRequest
                                    /\ Overtaken(P)[q] = [req[q] EXCEPT !.late = @ \cup P]
<1>1. ASSUME NEW q \in Request
      PROVE  IF req[q].pc = "idle" THEN req[q] = NoRequest
             ELSE req[q] # NoRequest /\ [req[q] EXCEPT !.late = @ \cup P] \in Transactions
  BY NoRequestParts DEF BookInv, BookTypes, Transactions
<1> QED
  BY <1>1 DEF Overtaken

LEMMA CommitStep ==
    ASSUME BookInv, NEW r \in Request, Commit(r)
    PROVE  BookInv'
<1> DEFINE t == req[r]
           P == Held(t)
<1>1. /\ t.pc = "flushed" /\ req' = [Overtaken(P) EXCEPT ![r] = NoRequest]
      /\ UNCHANGED <<usable, nextId>>
      /\ customer' = [p \in Phone |->
              LET row == IF p \in t.made THEN t.view[p] ELSE customer[p]
              IN  IF p \in DOMAIN t.dealt THEN [row EXCEPT !.to = t.dealt[p]] ELSE row]
  BY DEF Commit
<1>2. t \in Transactions /\ Reading(t, customer) /\ Settled(t)
  BY <1>1, Busy
<1> HIDE DEF t
<1>3. P = t.made \cup DOMAIN t.dealt /\ P \in SUBSET Phone
  <2>1. P = t.made \cup DOMAIN t.dealt
    BY <1>1 DEF Held
  <2> QED BY <1>2, <2>1, CandidatesIn DEF Settled, Transactions
<1>4. \A p \in DOMAIN t.dealt : t.dealt[p] \in Account
  <2>1. t.dealt \in Placements(Phone, Account)
    BY <1>2 DEF Transactions
  <2> QED BY <2>1 DEF Placements
<1>5. \A p \in Phone : customer[p] \in CustomerRow \cup {None}
  BY DEF BookInv, BookTypes, Books
<1>6. \A p \in DOMAIN t.dealt : p \in t.made \/ customer[p] # None
  BY <1>2, <1>3 DEF Reading
<1>7. customer' \in Books
  <2>1. ASSUME NEW p \in Phone
        PROVE  /\ (IF p \in t.made THEN t.view[p] ELSE customer[p]) \in CustomerRow \cup {None}
               /\ p \in DOMAIN t.dealt =>
                    (IF p \in t.made THEN t.view[p] ELSE customer[p]) \in CustomerRow
    BY <1>2, <1>5, <1>6 DEF Reading
  <2> QED BY <1>1, <1>4, <2>1 DEF Books, CustomerRow
<1>8. \A p \in Phone \ P : customer'[p] = customer[p]
  BY <1>1, <1>3
<1>9. \A q \in Request \ {r} : P \cap Held(req[q]) = {}
  BY DEF BookInv, RequestInv, t
<1> HIDE DEF P
<1>10. \A q \in Request : req'[q] = IF q = r THEN NoRequest ELSE Overtaken(P)[q]
  BY <1>1, <1>3, OvertakenType
<1>11. ASSUME NEW q \in Request \ {r}, req[q] # NoRequest
       PROVE  /\ \A p \in req[q].made : customer'[p] = None
              /\ \A p \in Held(req[q]) \ req[q].made : customer'[p] # None
  <2>1. Reading(req[q], customer) /\ req[q] \in Transactions
    BY <1>11 DEF BookInv, BookTypes, RequestInv
  <2>2. req[q].made \subseteq Held(req[q]) /\ Held(req[q]) \subseteq Phone
    BY <2>1, HeldIn
  <2> QED BY <1>8, <1>9, <2>1, <2>2 DEF Reading
<1>12. \A q \in Request :
          \/ req'[q] = NoRequest
          \/ /\ req[q] # NoRequest /\ req'[q] = [req[q] EXCEPT !.late = @ \cup P]
             /\ \A p \in req[q].made : customer'[p] = None
             /\ \A p \in Held(req[q]) \ req[q].made : customer'[p] # None
  BY <1>3, <1>10, <1>11, OvertakenType
<1>13. req' \in [Request -> Transactions \cup {NoRequest}]
  BY <1>1, <1>3, OvertakenType
<1>14. usable' \subseteq Account
  BY <1>1 DEF BookInv, BookTypes
<1> QED
  BY <1>1, <1>3, <1>7, <1>8, <1>12, <1>13, <1>14, ChangeStep

\* The customers P are changed, deleted or given away by a request of one step.
LEMMA OutsideStep ==
    ASSUME BookInv, NEW P \in SUBSET Phone, Unlocked(P, None), req' = Overtaken(P),
           customer' \in Books, \A p \in Phone \ P : customer'[p] = customer[p],
           usable' \subseteq Account, UNCHANGED nextId
    PROVE  BookInv'
<1>1. \A q \in Request : P \cap Held(req[q]) = {}
  BY BookAssumption DEF BookAssumption, Unlocked
<1>2. ASSUME NEW q \in Request, req[q] # NoRequest
      PROVE  /\ \A p \in req[q].made : customer'[p] = None
             /\ \A p \in Held(req[q]) \ req[q].made : customer'[p] # None
  <2>1. Reading(req[q], customer) /\ req[q] \in Transactions
    BY <1>2 DEF BookInv, BookTypes, RequestInv
  <2>2. req[q].made \subseteq Held(req[q]) /\ Held(req[q]) \subseteq Phone
    BY <2>1, HeldIn
  <2> QED BY <1>1, <2>1, <2>2 DEF Reading
<1>3. \A q \in Request :
          \/ req'[q] = NoRequest
          \/ /\ req[q] # NoRequest /\ req'[q] = [req[q] EXCEPT !.late = @ \cup P]
             /\ \A p \in req[q].made : customer'[p] = None
             /\ \A p \in Held(req[q]) \ req[q].made : customer'[p] # None
  BY <1>2, OvertakenType
<1>4. req' \in [Request -> Transactions \cup {NoRequest}]
  BY OvertakenType
<1> QED
  BY <1>3, <1>4, ChangeStep

LEMMA UpdateStep ==
    ASSUME BookInv, NEW p \in Phone, NEW consent \in BOOLEAN, NEW to \in Account \cup {None},
           UpdateCustomer(p, consent, to)
    PROVE  BookInv'
<1>1. /\ Unlocked({p}, None) /\ req' = Overtaken({p}) /\ UNCHANGED <<usable, nextId>>
      /\ customer[p] # None /\ customer' = [customer EXCEPT ![p].consent = consent, ![p].to = to]
  BY DEF UpdateCustomer, Exists
<1>2. customer \in Books /\ usable \subseteq Account
  BY DEF BookInv, BookTypes
<1>3. customer[p] \in CustomerRow
  BY <1>1, <1>2 DEF Books
<1>4. /\ customer' \in Books /\ \A q \in Phone \ {p} : customer'[q] = customer[q]
  BY <1>1, <1>2, <1>3 DEF Books, CustomerRow
<1> QED
  BY <1>1, <1>2, <1>4, OutsideStep

LEMMA DeleteStep ==
    ASSUME BookInv, NEW p \in Phone, DeleteCustomer(p)
    PROVE  BookInv'
<1>1. /\ Unlocked({p}, None) /\ req' = Overtaken({p}) /\ UNCHANGED <<usable, nextId>>
      /\ customer' = [customer EXCEPT ![p] = None]
  BY DEF DeleteCustomer
<1>2. customer \in Books /\ usable \subseteq Account
  BY DEF BookInv, BookTypes
<1>3. /\ customer' \in Books /\ \A q \in Phone \ {p} : customer'[q] = customer[q]
  BY <1>1, <1>2 DEF Books
<1> QED
  BY <1>1, <1>2, <1>3, OutsideStep

LEMMA DeleteAccountStep ==
    ASSUME BookInv, NEW a \in Account, DeleteAccount(a)
    PROVE  BookInv'
<1> DEFINE mine == {p \in Exists(customer) : customer[p].to = a}
<1>1. /\ Unlocked(mine, None) /\ req' = Overtaken(mine) /\ usable' = usable \ {a}
      /\ UNCHANGED nextId
      /\ customer' = [p \in Phone |-> IF p \in mine THEN [customer[p] EXCEPT !.to = None]
                                      ELSE customer[p]]
  BY DEF DeleteAccount
<1>2. customer \in Books /\ usable \subseteq Account
  BY DEF BookInv, BookTypes
<1>3. mine \in SUBSET Phone /\ \A p \in mine : customer[p] \in CustomerRow
  BY <1>2 DEF Exists, Books
<1> HIDE DEF mine
<1>4. /\ customer' \in Books /\ \A q \in Phone \ mine : customer'[q] = customer[q]
  BY <1>1, <1>2, <1>3 DEF Books, CustomerRow
<1> QED
  BY <1>1, <1>2, <1>3, <1>4, OutsideStep

-----------------------------------------------------------------------------
(* The invariant holds                                                     *)

LEMMA BookInvInit == BookInit => BookInv
<1> SUFFICES ASSUME BookInit PROVE BookInv
  OBVIOUS
<1>1. InitialBook \in Books
  BY BookAssumption DEF BookAssumption, Books
<1>2. nextId \in Nat
  <2>1. Exists(InitialBook) \in SUBSET Phone
    BY DEF Exists
  <2>2. Cardinality(Exists(InitialBook)) \in Nat
    BY <2>1, FS_Subset, FS_CardinalityType, BookAssumption DEF BookAssumption
  <2> QED BY <2>2 DEF BookInit
<1>3. BookTypes
  BY <1>1, <1>2 DEF BookInit, BookTypes
<1>4. RequestInv
  BY NoRequestParts DEF BookInit, RequestInv
<1> QED
  BY <1>3, <1>4 DEF BookInv

LEMMA BookInvNext == BookInv /\ [BookNext]_bookVars => BookInv'
<1> SUFFICES ASSUME BookInv, [BookNext]_bookVars PROVE BookInv'
  OBVIOUS
<1>1. ASSUME NEW r \in Request, OpenAssign(r) PROVE BookInv'
  <2>1. PICK ids \in Selections, only \in BOOLEAN : Opened(r, "assign", {}, ids, only)
    BY <1>1 DEF OpenAssign
  <2>2. ids \in SUBSET Phone
    BY BookAssumption DEF BookAssumption
  <2> QED BY <2>1, <2>2, OpenedStep
<1>2. ASSUME NEW r \in Request, OpenImport(r) PROVE BookInv'
  <2>1. PICK todo \in Imports : Opened(r, "import", todo, {}, TRUE)
    BY <1>2 DEF OpenImport
  <2>2. todo \in SUBSET Phone
    BY BookAssumption DEF BookAssumption
  <2> QED BY <2>1, <2>2, OpenedStep
<1>3. ASSUME NEW r \in Request, DealOut(r) PROVE BookInv'
  BY <1>3, DealOutStep
<1>4. ASSUME NEW r \in Request, Commit(r) PROVE BookInv'
  BY <1>4, CommitStep
<1>5. ASSUME NEW r \in Request, Fail(r) PROVE BookInv'
  BY <1>5, EndStep DEF Fail
<1>6. ASSUME NEW r \in Request, NEW p \in Phone, Line(r, p) PROVE BookInv'
  BY <1>6, LineStep
<1>7. ASSUME NEW r \in Request, NEW p \in Phone, LineFails(r, p) PROVE BookInv'
  BY <1>7, EndStep DEF LineFails
<1>8. ASSUME NEW p \in Phone, DeleteCustomer(p) PROVE BookInv'
  BY <1>8, DeleteStep
<1>9. ASSUME NEW p \in Phone, NEW consent \in BOOLEAN, NEW to \in Account \cup {None},
             UpdateCustomer(p, consent, to)
      PROVE  BookInv'
  BY <1>9, UpdateStep
<1>10. ASSUME NEW a \in Account, EditAccount(a) PROVE BookInv'
  BY <1>10 DEF EditAccount, BookInv, BookTypes, RequestInv
<1>11. ASSUME NEW a \in Account, DeleteAccount(a) PROVE BookInv'
  BY <1>11, DeleteAccountStep
<1>12. CASE UNCHANGED bookVars
  BY <1>12 DEF bookVars, BookInv, BookTypes, RequestInv
<1> QED
  BY <1>1, <1>2, <1>3, <1>4, <1>5, <1>6, <1>7, <1>8, <1>9, <1>10, <1>11, <1>12
     DEF BookNext, Handle

\* A request knows the book but for what it and others have changed since, nobody
\* else holds what it holds, and once flushed it has dealt as it should.
THEOREM BookInvHolds == BookSpec => []BookInv
<1> QED
  BY BookInvInit, BookInvNext, PTL DEF BookSpec

-----------------------------------------------------------------------------
(* What the requests promise                                               *)

\* Taking turns is fair: at every moment a flushed request has dealt evenly.
THEOREM EvenSharesHold == BookSpec => []EvenShares
<1>1. BookInv => EvenShares
  <2> SUFFICES ASSUME BookInv, NEW r \in Request, req[r].pc = "flushed", req[r].only
               PROVE  Even(req[r])
    BY DEF EvenShares, Even
  <2>1. req[r].pc # "idle"
    OBVIOUS
  <2> QED BY <2>1, Busy DEF Settled
<1> QED
  BY <1>1, BookInvHolds, PTL

\* Only its own commit or failure ends a request that has flushed.
LEMMA WhoEnds ==
    ASSUME BookInv, BookNext, NEW r \in Request, req[r].pc = "flushed", req'[r].pc = "idle"
    PROVE  Commit(r) \/ UNCHANGED customer
<1>1. \A q \in Request, P \in SUBSET Phone : Overtaken(P)[r].pc # "idle"
  BY Busy DEF Overtaken, Transactions
<1>2. ASSUME NEW q \in Request, Handle(q) PROVE Commit(r) \/ UNCHANGED customer
  <2>1. CASE Commit(q) /\ q # r
    <3>1. req'[r] = Overtaken(Held(req[q]))[r] /\ req[q].pc # "idle"
      BY <2>1 DEF Commit, Overtaken
    <3>2. Held(req[q]) \in SUBSET Phone
      BY <3>1, Busy, HeldIn
    <3> QED BY <1>1, <3>1, <3>2
  <2>2. CASE ~Commit(q)
    <3>1. CASE OpenAssign(q) \/ OpenImport(q)
      BY <3>1 DEF OpenAssign, OpenImport, Opened
    <3>2. CASE DealOut(q)
      BY <3>2, Zenon DEF DealOut
    <3>3. CASE Fail(q)
      BY <3>3 DEF Fail
    <3>4. CASE \E p \in Phone : Line(q, p) \/ LineFails(q, p)
      BY <3>4, Zenon DEF Line, LineFails
    <3> QED BY <1>2, <2>2, <3>1, <3>2, <3>3, <3>4 DEF Handle
  <2> QED BY <2>1, <2>2
<1>3. ASSUME NEW p \in Phone, req' = Overtaken({p}) PROVE FALSE
  BY <1>1, <1>3
<1>4. ASSUME NEW a \in Account, DeleteAccount(a) PROVE FALSE
  <2>1. {p \in Exists(customer) : customer[p].to = a} \in SUBSET Phone
    BY DEF Exists
  <2> QED BY <1>1, <1>4, <2>1 DEF DeleteAccount
<1> QED
  BY <1>2, <1>3, <1>4 DEF BookNext, EditAccount, DeleteCustomer, UpdateCustomer

LEMMA TwoParts ==
    ASSUME NEW A, NEW B, IsFiniteSet(A), IsFiniteSet(B)
    PROVE  /\ IsFiniteSet(A \cup B) /\ Cardinality(A \cup B) \in Nat
           /\ Cardinality(A) \in Nat /\ Cardinality(B) \in Nat
           /\ Cardinality(A \cup B) <= Cardinality(A) + Cardinality(B)
<1>1. /\ IsFiniteSet(A \cup B)
      /\ Cardinality(A \cup B) = Cardinality(A) + Cardinality(B) - Cardinality(A \cap B)
  BY FS_Union
<1>2. IsFiniteSet(A \cap B)
  BY FS_Intersection
<1>3. /\ Cardinality(A \cup B) \in Nat /\ Cardinality(A \cap B) \in Nat
      /\ Cardinality(A) \in Nat /\ Cardinality(B) \in Nat
  BY <1>1, <1>2, FS_CardinalityType
<1> QED
  BY <1>1, <1>3

LEMMA ThreeParts ==
    ASSUME NEW A, NEW B, NEW L, IsFiniteSet(A), IsFiniteSet(B), IsFiniteSet(L),
           NEW S, S \subseteq A \cup B \cup L
    PROVE  /\ Cardinality(S) \in Nat /\ Cardinality(A) \in Nat /\ Cardinality(B) \in Nat
           /\ Cardinality(L) \in Nat
           /\ Cardinality(S) <= Cardinality(A) + Cardinality(B) + Cardinality(L)
<1> DEFINE AB == A \cup B
           ABL == AB \cup L
<1>1. /\ IsFiniteSet(AB) /\ Cardinality(AB) \in Nat
      /\ Cardinality(A) \in Nat /\ Cardinality(B) \in Nat
      /\ Cardinality(AB) <= Cardinality(A) + Cardinality(B)
  BY TwoParts
<1> HIDE DEF AB
<1>2. /\ IsFiniteSet(ABL) /\ Cardinality(ABL) \in Nat /\ Cardinality(L) \in Nat
      /\ Cardinality(ABL) <= Cardinality(AB) + Cardinality(L)
  BY <1>1, TwoParts
<1>3. S \in SUBSET ABL
  BY DEF AB
<1> HIDE DEF ABL
<1>4. Cardinality(S) \in Nat /\ Cardinality(S) <= Cardinality(ABL)
  BY <1>2, <1>3, FS_Subset, FS_CardinalityType
<1> QED
  BY <1>1, <1>2, <1>4

\* A customer as a request ends: changed by others, dealt by it, gone, or as it saw it.
LEMMA WhereFrom ==
    ASSUME BookInv, NEW r \in Request, req[r].pc = "flushed", Commit(r) \/ UNCHANGED customer,
           NEW p \in Phone
    PROVE  \/ p \in req[r].late
           \/ p \in DOMAIN req[r].dealt /\ customer'[p].to = req[r].dealt[p]
           \/ customer'[p] = None
           \/ customer'[p] = req[r].view[p]
<1> DEFINE t == req[r]
<1>1. t \in Transactions /\ Reading(t, customer)
  <2>1. req[r].pc # "idle"
    OBVIOUS
  <2> QED BY <2>1, Busy
<1>2. /\ p \in t.made => customer[p] = None /\ t.view[p] \in CustomerRow
      /\ p \notin t.made => t.view[p] = t.base[p]
      /\ p \notin t.late => customer[p] = t.base[p]
      /\ p \in DOMAIN t.dealt => p \in t.made \/ customer[p] # None
  BY <1>1 DEF Reading, Held
<1>3. customer[p] \in CustomerRow \cup {None}
  BY DEF BookInv, BookTypes, Books
<1>4. CASE UNCHANGED customer
  BY <1>2, <1>4
<1>5. CASE Commit(r)
  <2> DEFINE row == IF p \in t.made THEN t.view[p] ELSE customer[p]
  <2>1. customer'[p] = IF p \in DOMAIN t.dealt THEN [row EXCEPT !.to = t.dealt[p]] ELSE row
    BY <1>5 DEF Commit
  <2>2. CASE p \in DOMAIN t.dealt
    <3>1. row \in CustomerRow
      BY <1>2, <1>3, <2>2
    <3> HIDE DEF row, t
    <3>2. customer'[p].to = t.dealt[p]
      BY <2>1, <2>2, <3>1 DEF CustomerRow
    <3> QED BY <2>2, <3>2 DEF t
  <2>3. CASE p \notin DOMAIN t.dealt
    BY <1>2, <2>1, <2>3
  <2> QED BY <2>2, <2>3
<1> QED
  BY <1>4, <1>5

\* An account is not dealt beyond the limit: it may exceed it as a request ends only by
\* the customers others brought to it meanwhile.
THEOREM AssignedWithinCapHolds == BookSpec => AssignedWithinCap
<1>1. ASSUME BookInv, [BookNext]_bookVars, NEW r \in Request,
             req[r].pc = "flushed", req'[r].pc = "idle", req[r].cap # None,
             NEW a \in Range(req[r].dealt)
      PROVE  Load(customer', a) <=
               req[r].cap + Cardinality({p \in req[r].late \cap Exists(customer') :
                                            customer'[p].to = a})
  <2> DEFINE t == req[r]
             S == {p \in Exists(customer') : customer'[p].to = a}
             A == {p \in Exists(t.view) : t.view[p].to = a}
             B == {p \in DOMAIN t.dealt : t.dealt[p] = a}
             L == {p \in t.late \cap Exists(customer') : customer'[p].to = a}
  <2>1. BookNext
    BY <1>1 DEF bookVars
  <2>2. Commit(r) \/ UNCHANGED customer
    BY <1>1, <2>1, WhoEnds
  <2>3. t \in Transactions /\ Settled(t)
    <3>1. req[r].pc # "idle"
      BY <1>1
    <3> QED BY <1>1, <3>1, Busy
  <2>4. S \subseteq A \cup B \cup L
    <3> SUFFICES ASSUME NEW p \in S PROVE p \in A \cup B \cup L
      OBVIOUS
    <3>1. p \in Phone /\ customer'[p] # None /\ customer'[p].to = a /\ p \in Exists(customer')
      BY DEF Exists
    <3>2. \/ p \in t.late
          \/ p \in DOMAIN t.dealt /\ customer'[p].to = t.dealt[p]
          \/ customer'[p] = t.view[p]
      BY <1>1, <2>2, <3>1, WhereFrom
    <3> QED BY <3>1, <3>2 DEF Exists
  <2>5. IsFiniteSet(A) /\ IsFiniteSet(B) /\ IsFiniteSet(L)
    <3>1. A \in SUBSET Phone /\ L \in SUBSET Phone
      BY DEF Exists
    <3>2. B \in SUBSET Phone
      BY <2>3, CandidatesIn DEF Settled
    <3>3. IsFiniteSet(Phone)
      BY BookAssumption DEF BookAssumption
    <3> HIDE DEF A, B, L
    <3> QED BY <3>1, <3>2, <3>3, FS_Subset
  <2>6. Cardinality(A) + Cardinality(B) <= t.cap /\ t.cap \in Nat
    <3>1. PICK q \in DOMAIN t.dealt : t.dealt[q] = a
      BY <1>1 DEF Range
    <3>2. Load(t.view, a) + Share(t.dealt, a) <= t.cap /\ t.cap \in Nat
      BY <1>1, <2>3, <3>1 DEF Settled, Transactions
    <3> QED BY <3>2 DEF Load, Share
  <2> HIDE DEF A, B, L, S
  <2>7. /\ Cardinality(S) <= Cardinality(A) + Cardinality(B) + Cardinality(L)
        /\ Cardinality(S) \in Nat /\ Cardinality(A) \in Nat /\ Cardinality(B) \in Nat
        /\ Cardinality(L) \in Nat
    BY <2>4, <2>5, ThreeParts
  <2>8. Cardinality(S) <= t.cap + Cardinality(L)
    BY <2>6, <2>7
  <2> QED BY <2>8 DEF Load, S, L
<1>2. BookInv /\ [BookNext]_bookVars =>
        (\A r \in Request :
          LET t == req[r]
          IN  t.pc = "flushed" /\ req'[r].pc = "idle" /\ t.cap # None
              => \A a \in Range(t.dealt) :
                    Load(customer', a) <=
                      t.cap + Cardinality({p \in t.late \cap Exists(customer') :
                                              customer'[p].to = a}))
  BY <1>1
<1> QED
  BY <1>2, BookInvHolds, PTL DEF BookSpec, AssignedWithinCap

\* Nobody is dealt who was not asked for, except over what others changed meanwhile.
THEOREM OnlyTheAskedHolds == BookSpec => OnlyTheAsked
<1>1. ASSUME BookInv, [BookNext]_bookVars, NEW r \in Request, NEW p \in Phone,
             req[r].pc = "flushed", req'[r].pc = "idle",
             customer[p] # None, customer'[p] # customer[p], p \notin req[r].late
      PROVE  /\ req[r].kind = "assign"
             /\ req[r].ids # {} => p \in req[r].ids
             /\ customer[p].consent
             /\ req[r].only => customer[p].to = None
  <2> DEFINE t == req[r]
  <2>1. BookNext
    BY <1>1 DEF bookVars
  <2>2. Commit(r)
    BY <1>1, <2>1, WhoEnds
  <2>3. t \in Transactions /\ Settled(t) /\ Reading(t, customer)
    <3>1. req[r].pc # "idle"
      BY <1>1
    <3> QED BY <1>1, <3>1, Busy
  <2>4. p \notin t.made /\ customer[p] = t.view[p]
    BY <1>1, <2>3 DEF Reading
  <2>5. p \in DOMAIN t.dealt
    BY <1>1, <2>2, <2>4 DEF Commit
  <2>6. p \in Candidates(t) /\ t.kind # "import" /\ t.kind \in {"assign", "import"}
    BY <2>3, <2>4, <2>5 DEF Settled, Transactions
  <2> QED BY <2>4, <2>6 DEF Candidates, Asked
<1>2. BookInv /\ [BookNext]_bookVars =>
        (\A r \in Request, p \in Phone :
          LET t == req[r]
          IN  /\ t.pc = "flushed" /\ req'[r].pc = "idle"
              /\ customer[p] # None /\ customer'[p] # customer[p]
              => \/ p \in t.late
                 \/ /\ t.kind = "assign"
                    /\ t.ids # {} => p \in t.ids
                    /\ customer[p].consent
                    /\ t.only => customer[p].to = None)
  BY <1>1
<1> QED
  BY <1>2, BookInvHolds, PTL DEF BookSpec, OnlyTheAsked
=============================================================================
