--------------------------- MODULE ProxyPoolProofs ---------------------------
(***************************************************************************)
(* The proxy pool, for any proxies, accounts, caps, requests and probes:   *)
(* what an operator disabled stays disabled, and an allocation keeps a     *)
(* proxy within its cap up to what others bound to it while it ran.        *)
(***************************************************************************)
EXTENDS ProxyPool, FiniteSetTheorems, WellFoundedInduction, TLAPS

Probes == {"beat", "admin"}

Row == [status: Chosen \cup {"none", "gone"}, group: Group \cup {None}, cap: Caps]

Bindings == [Account -> Proxy \cup {None}]

Transaction ==
    [pc: {"idle", "open"}, todo: SUBSET Account, auto: BOOLEAN,
     prefer: Country \cup {None},
     cand: UNION {[P -> Caps] : P \in SUBSET Proxy},
     own: UNION {[A -> Proxy \cup {None}] : A \in SUBSET Account},
     mine: SUBSET Account, late: SUBSET Account]

Probe ==
    [pc: {"idle", "open"},
     read: UNION {[P -> Chosen \cup {"none", "gone"}] : P \in SUBSET Proxy}]

PoolTypes ==
    /\ proxy \in [Proxy -> Row]
    /\ bound \in Bindings
    /\ req \in [Request -> Transaction]
    /\ \A r \in Request : req[r].pc = "open" => req[r].own \in Bindings
    /\ probe \in [Probes -> Probe]
    /\ parked \subseteq Proxy

\* No probe under way has read a parked proxy.
ReadInv == \A x \in Probes : probe[x].pc = "open" => DOMAIN probe[x].read \cap parked = {}

\* An open transaction t knows every binding in b but those others committed since, and
\* has filled no candidate beyond its cap.
Within(t, b) ==
    /\ \A a \in Account \ (t.mine \cup t.late) : t.own[a] = b[a]
    /\ \A a \in t.mine :
          LET p == t.own[a]
          IN  p \in DOMAIN t.cand /\ (t.cand[p] = None \/ Load(t.own, p) <= t.cand[p])

WithinInv == \A r \in Request : req[r].pc = "open" => Within(req[r], bound)

PoolInv == PoolTypes /\ DisabledStaysOut /\ ReadInv /\ WithinInv
-----------------------------------------------------------------------------
(* Types                                                                   *)

LEMMA IdleTyped == Idle \in Transaction /\ Quiet \in Probe /\ Idle.pc = "idle" /\ Quiet.pc = "idle"
<1>1. [p \in {} |-> None] \in [{} -> Caps] /\ [p \in {} |-> None] \in [{} -> Chosen \cup {"none", "gone"}]
  OBVIOUS
<1>2. [a \in {} |-> None] \in [{} -> Proxy \cup {None}]
  OBVIOUS
<1> QED
  BY <1>1, <1>2 DEF Idle, Quiet, Transaction, Probe

\* A transaction's candidates are proxies with their caps.
LEMMA CandidatesTyped ==
    ASSUME proxy \in [Proxy -> Row], NEW g, NEW limit \in Caps \cup {None}
    PROVE  Candidates(g, limit) \in UNION {[P -> Caps] : P \in SUBSET Proxy}
<1> DEFINE Q == {q \in Proxy : proxy[q].status = "active" /\ g \in {None, proxy[q].group}}
<1>1. \A p \in Q : CapOf(proxy[p], limit) \in Caps
  BY DEF Row, CapOf
<1>2. Candidates(g, limit) \in [Q -> Caps]
  BY <1>1 DEF Candidates
<1> QED
  BY <1>2

LEMMA CandShape ==
    ASSUME NEW t \in Transaction
    PROVE  /\ DOMAIN t.cand \subseteq Proxy
           /\ \A p \in DOMAIN t.cand : t.cand[p] \in Caps
           /\ t.cand \in UNION {[P -> Caps] : P \in SUBSET Proxy}
<1>1. t.cand \in UNION {[P -> Caps] : P \in SUBSET Proxy}
  BY DEF Transaction
<1>2. PICK P \in SUBSET Proxy : t.cand \in [P -> Caps]
  BY <1>1
<1> QED
  BY <1>1, <1>2

LEMMA LoadType ==
    ASSUME NEW b, NEW p
    PROVE  Load(b, p) \in Nat /\ IsFiniteSet({a \in Account : b[a] = p})
BY FS_Subset, FS_CardinalityType, PoolAssumption DEF Load

-----------------------------------------------------------------------------
(* The choice of a proxy                                                   *)

LEMMA LeastNat ==
    ASSUME NEW S \in SUBSET Nat, S # {}
    PROVE  \E x \in S : \A y \in S : x <= y
<1>1. PICK x \in S : \A y \in S : <<y, x>> \notin OpToRel(<, Nat)
  BY WFMin, NatLessThanWellFounded, Zenon
<1>2. \A y \in S : ~(y < x)
  BY <1>1, Zenon DEF OpToRel
<1> QED
  BY <1>2

\* Whenever a candidate has room, Pick finds one that has.
LEMMA PickAvailable ==
    ASSUME NEW t \in Transaction, NEW a \in Account, Available(t) # {}
    PROVE  Pick(t, a) \in Available(t) /\ Pick(t, a) \in Proxy
<1> DEFINE S == Preferred(t, a)
           loads == {Load(t.own, p) : p \in S}
<1>1. S # {} /\ S \subseteq Available(t) /\ Available(t) \subseteq Proxy
  BY CandShape DEF Preferred, Available
<1>2. \A p \in S : Load(t.own, p) \in Nat /\ p \in Nat
  BY <1>1, LoadType, PoolAssumption
<1> HIDE DEF S
<1>3. loads # {} /\ loads \in SUBSET Nat
  BY <1>1, <1>2
<1>4. PICK n \in loads : \A k \in loads : n <= k
  BY <1>3, LeastNat
<1> DEFINE least == {p \in S : Load(t.own, p) = n}
<1>5. least # {} /\ least \in SUBSET Nat
  BY <1>2, <1>4
<1>6. PICK p \in least : \A q \in least : p <= q
  BY <1>5, LeastNat
<1>7. p \in S /\ Load(t.own, p) = n
  BY <1>6
<1>8. \A q \in S : \/ Load(t.own, p) < Load(t.own, q)
                   \/ Load(t.own, p) = Load(t.own, q) /\ p <= q
  <2> SUFFICES ASSUME NEW q \in S
               PROVE  \/ Load(t.own, p) < Load(t.own, q)
                      \/ Load(t.own, p) = Load(t.own, q) /\ p <= q
    OBVIOUS
  <2>1. Load(t.own, q) \in loads /\ n \in Nat /\ Load(t.own, q) \in Nat
    BY <1>2, <1>3, <1>4
  <2>2. n <= Load(t.own, q)
    BY <1>4, <2>1
  <2>3. CASE Load(t.own, q) = n
    BY <1>6, <1>7, <2>3
  <2>4. CASE n < Load(t.own, q)
    BY <1>7, <2>4
  <2> QED
    BY <2>1, <2>2, <2>3, <2>4
<1>9. Pick(t, a) \in S
  BY <1>7, <1>8 DEF Pick, S
<1> QED
  BY <1>1, <1>9

\* Binding one more account to p adds at most one to the load of p, and nothing
\* to that of another.
LEMMA LoadOneMore ==
    ASSUME NEW b \in Bindings, NEW a \in Account, NEW p \in Proxy, NEW q
    PROVE  /\ Load([b EXCEPT ![a] = p], p) <= Load(b, p) + 1
           /\ q # p => Load([b EXCEPT ![a] = p], q) <= Load(b, q)
<1> DEFINE c == [b EXCEPT ![a] = p]
           at(f, x) == {y \in Account : f[y] = x}
<1>1. \A y \in Account : c[y] = IF y = a THEN p ELSE b[y]
  BY DEF Bindings
<1> HIDE DEF c
<1>2. /\ IsFiniteSet(at(b, p)) /\ IsFiniteSet(at(b, q))
      /\ Load(b, p) \in Nat /\ Load(c, p) \in Nat
      /\ Load(b, q) \in Nat /\ Load(c, q) \in Nat
  BY LoadType
<1>3. at(c, p) \subseteq at(b, p) \cup {a}
  BY <1>1
<1>4. /\ IsFiniteSet(at(b, p) \cup {a})
      /\ Cardinality(at(b, p) \cup {a}) <= Cardinality(at(b, p)) + 1
      /\ Cardinality(at(b, p) \cup {a}) \in Nat
  <2>1. /\ IsFiniteSet(at(b, p) \cup {a})
        /\ \/ Cardinality(at(b, p) \cup {a}) = Cardinality(at(b, p))
           \/ Cardinality(at(b, p) \cup {a}) = Cardinality(at(b, p)) + 1
    BY <1>2, FS_AddElement
  <2>2. Cardinality(at(b, p)) \in Nat
    BY <1>2, FS_CardinalityType
  <2> QED
    BY <2>1, <2>2
<1>5. Cardinality(at(c, p)) <= Cardinality(at(b, p) \cup {a})
  BY <1>3, <1>4, FS_Subset
<1>6. Load(c, p) <= Load(b, p) + 1
  BY <1>2, <1>4, <1>5 DEF Load
<1>7. ASSUME q # p PROVE Load(c, q) <= Load(b, q)
  <2>1. at(c, q) \subseteq at(b, q)
    BY <1>1, <1>7
  <2>2. Cardinality(at(c, q)) <= Cardinality(at(b, q))
    BY <1>2, <2>1, FS_Subset
  <2> QED
    BY <2>2 DEF Load
<1> QED
  BY <1>6, <1>7 DEF c

-----------------------------------------------------------------------------
(* The steps of the bindings' side                                         *)

LEMMA TxTyped ==
    ASSUME PoolTypes, NEW r \in Request
    PROVE  /\ req[r] \in Transaction
           /\ req[r].pc = "open" => req[r].own \in Bindings
BY DEF PoolTypes

\* What others commit reaches an open transaction only as late.
LEMMA OvertakenShape ==
    ASSUME PoolTypes, NEW A \in SUBSET Account, NEW r \in Request
    PROVE  LET t == Overtaken(A)[r]
           IN  /\ t \in Transaction
               /\ t.pc = req[r].pc /\ t.own = req[r].own /\ t.cand = req[r].cand
               /\ t.mine = req[r].mine /\ t.todo = req[r].todo
               /\ req[r].pc = "open" => t.late = req[r].late \cup A
<1>1. req[r] \in Transaction
  BY TxTyped
<1>2. CASE req[r].pc = "open"
  <2>1. Overtaken(A)[r] = [req[r] EXCEPT !.late = @ \cup A]
    BY <1>2 DEF Overtaken
  <2> QED
    BY <1>1, <1>2, <2>1 DEF Transaction
<1>3. CASE req[r].pc # "open"
  <2>1. Overtaken(A)[r] = req[r]
    BY <1>3 DEF Overtaken
  <2> QED
    BY <1>1, <1>3, <2>1
<1> QED
  BY <1>2, <1>3

\* A transaction that others overtook still stands.
LEMMA OvertakenStands ==
    ASSUME PoolTypes, NEW A \in SUBSET Account, NEW r \in Request,
           req[r].pc = "open", Within(req[r], bound),
           \A a \in Account \ A : bound'[a] = bound[a],
           req'[r] = Overtaken(A)[r]
    PROVE  Within(req'[r], bound')
<1>1. /\ req'[r].own = req[r].own /\ req'[r].cand = req[r].cand
      /\ req'[r].mine = req[r].mine /\ req'[r].late = req[r].late \cup A
  BY OvertakenShape
<1>2. \A a \in Account \ (req'[r].mine \cup req'[r].late) : req'[r].own[a] = bound'[a]
  BY <1>1 DEF Within
<1> QED
  BY <1>1, <1>2 DEF Within, Load

\* A transaction opens with the bindings as they are and none of its own.
LEMMA OpensFresh ==
    ASSUME PoolTypes, NEW r \in Request, OpenImport(r) \/ OpenAuto(r)
    PROVE  \E t \in Transaction :
              /\ t.own = bound /\ t.mine = {}
              /\ req' = [req EXCEPT ![r] = t]
              /\ UNCHANGED <<proxy, bound, probe, parked, ops>>
<1>1. bound \in UNION {[A -> Proxy \cup {None}] : A \in SUBSET Account}
  BY DEF PoolTypes, Bindings
<1>2. CASE OpenImport(r)
  <2>1. PICK todo \in Imports, g \in Group, limit \in Caps :
          req' = [req EXCEPT ![r] =
             [Idle EXCEPT !.pc = "open", !.todo = todo, !.own = bound,
                          !.cand = Candidates(g, limit)]]
    BY <1>2 DEF OpenImport
  <2> DEFINE k == Candidates(g, limit)
             t == [Idle EXCEPT !.pc = "open", !.todo = todo, !.own = bound, !.cand = k]
  <2>2. k \in UNION {[P -> Caps] : P \in SUBSET Proxy} /\ todo \in SUBSET Account
    BY CandidatesTyped, PoolAssumption DEF PoolTypes
  <2>3. req' = [req EXCEPT ![r] = t]
    BY <2>1
  <2> HIDE DEF k
  <2>4. t \in Transaction /\ t.own = bound /\ t.mine = {}
    BY <1>1, <2>2 DEF Idle, Transaction
  <2> QED
    BY <1>2, <2>3, <2>4 DEF OpenImport
<1>3. CASE OpenAuto(r)
  <2>1. PICK a \in Account, c \in Country \cup {None} :
          req' = [req EXCEPT ![r] =
             [Idle EXCEPT !.pc = "open", !.todo = {a}, !.auto = TRUE, !.prefer = c,
                          !.own = bound, !.cand = Candidates(None, None)]]
    BY <1>3 DEF OpenAuto
  <2> DEFINE k == Candidates(None, None)
             t == [Idle EXCEPT !.pc = "open", !.todo = {a}, !.auto = TRUE, !.prefer = c,
                               !.own = bound, !.cand = k]
  <2>2. k \in UNION {[P -> Caps] : P \in SUBSET Proxy}
    BY CandidatesTyped DEF PoolTypes
  <2>3. req' = [req EXCEPT ![r] = t]
    BY <2>1
  <2> HIDE DEF k
  <2>4. t \in Transaction /\ t.own = bound /\ t.mine = {}
    BY <1>1, <2>2 DEF Idle, Transaction
  <2> QED
    BY <1>3, <2>3, <2>4 DEF OpenAuto
<1> QED
  BY <1>2, <1>3

LEMMA OpenStands ==
    ASSUME PoolTypes, NEW r \in Request, OpenImport(r) \/ OpenAuto(r)
    PROVE  /\ req' \in [Request -> Transaction]
           /\ req'[r].own \in Bindings /\ Within(req'[r], bound')
           /\ \A q \in Request \ {r} : req'[q] = req[q]
<1>1. PICK t \in Transaction :
        /\ t.own = bound /\ t.mine = {} /\ bound' = bound
        /\ req' = [req EXCEPT ![r] = t]
  BY OpensFresh
<1>2. req' \in [Request -> Transaction] /\ req'[r] = t
  BY <1>1 DEF PoolTypes
<1> QED
  BY <1>1, <1>2 DEF Within, PoolTypes

\* auto_assign_proxy flushes before the next account is counted.
LEMMA AssignStands ==
    ASSUME PoolTypes, NEW r \in Request, Within(req[r], bound), NEW a \in Account, Assign(r, a)
    PROVE  /\ req' \in [Request -> Transaction]
           /\ req'[r].own \in Bindings /\ Within(req'[r], bound')
           /\ \A q \in Request \ {r} : req'[q] = req[q]
<1> DEFINE t == req[r]
           p == Pick(t, a)
           u == [t EXCEPT !.todo = @ \ {a}, !.own[a] = p, !.mine = @ \cup {a}]
<1>1. /\ t \in Transaction /\ t.pc = "open" /\ t.own \in Bindings
      /\ Available(t) # {} /\ bound' = bound
      /\ req' = [req EXCEPT ![r] = u]
  BY TxTyped DEF Assign, Turn
<1>2. p \in Available(t) /\ p \in Proxy
  BY <1>1, PickAvailable
<1>3. p \in DOMAIN t.cand /\ (t.cand[p] = None \/ Load(t.own, p) < t.cand[p])
  BY <1>2 DEF Available
<1>4. Within(t, bound)
  OBVIOUS
<1> HIDE DEF p
<1>5. /\ u.own = [t.own EXCEPT ![a] = p] /\ u.mine = t.mine \cup {a}
      /\ u.late = t.late /\ u.cand = t.cand /\ u.todo = t.todo \ {a}
      /\ u.pc = t.pc /\ u.auto = t.auto /\ u.prefer = t.prefer
  BY <1>1 DEF Transaction
<1>6. u.own \in Bindings
  BY <1>1, <1>2, <1>5 DEF Bindings
<1>7. u.own \in UNION {[A -> Proxy \cup {None}] : A \in SUBSET Account}
  BY <1>6 DEF Bindings
<1>8. u \in Transaction
  BY <1>1, <1>5, <1>7 DEF Transaction
<1>9. req' \in [Request -> Transaction] /\ req'[r] = u
      /\ \A q \in Request \ {r} : req'[q] = req[q]
  BY <1>1, <1>8 DEF PoolTypes
<1> HIDE DEF u, t
<1>10. \A b \in Account : u.own[b] = IF b = a THEN p ELSE t.own[b]
  BY <1>1, <1>5 DEF Bindings
<1>11. \A b \in Account \ (u.mine \cup u.late) : u.own[b] = bound'[b]
  BY <1>1, <1>4, <1>5, <1>10 DEF Within
<1>12. ASSUME NEW b \in u.mine
       PROVE  LET q == u.own[b]
              IN  q \in DOMAIN u.cand /\ (u.cand[q] = None \/ Load(u.own, q) <= u.cand[q])
  <2> DEFINE q == u.own[b]
  <2>1. b \in Account
    BY <1>1, <1>5 DEF Transaction
  <2>2. \A x \in DOMAIN t.cand : t.cand[x] = None \/ t.cand[x] \in Nat
    BY <1>1, CandShape, PoolAssumption
  <2>3. \A x : Load(t.own, x) \in Nat /\ Load(u.own, x) \in Nat
    BY LoadType
  <2>4. /\ Load(u.own, p) <= Load(t.own, p) + 1
        /\ q # p => Load(u.own, q) <= Load(t.own, q)
    BY <1>1, <1>2, <1>5, LoadOneMore
  <2>5. CASE q = p
    BY <1>3, <1>5, <2>2, <2>3, <2>4, <2>5
  <2>6. CASE q # p
    <3>1. b \in t.mine /\ q = t.own[b]
      BY <1>5, <1>10, <2>1, <2>6
    <3>2. q \in DOMAIN t.cand /\ (t.cand[q] = None \/ Load(t.own, q) <= t.cand[q])
      BY <1>4, <3>1 DEF Within
    <3> QED
      BY <1>5, <2>2, <2>3, <2>4, <2>6, <3>2
  <2> QED
    BY <2>5, <2>6
<1> QED
  BY <1>6, <1>9, <1>11, <1>12 DEF Within, Load

\* What holds of the allocations.
RequestInv ==
    /\ bound \in Bindings
    /\ req \in [Request -> Transaction]
    /\ \A r \in Request :
          req[r].pc = "open" => req[r].own \in Bindings /\ Within(req[r], bound)

\* A step that changes one transaction only.
LEMMA OneRequestStep ==
    ASSUME RequestInv, NEW r \in Request, bound' = bound,
           req' \in [Request -> Transaction], \A q \in Request \ {r} : req'[q] = req[q],
           req'[r].pc = "open" => req'[r].own \in Bindings /\ Within(req'[r], bound')
    PROVE  RequestInv'
BY DEF RequestInv

LEMMA SkipStep ==
    ASSUME PoolTypes, RequestInv, NEW r \in Request, NEW a \in Account, Skip(r, a)
    PROVE  RequestInv'
<1> DEFINE t == req[r]
           u == [t EXCEPT !.todo = @ \ {a}]
<1>1. t \in Transaction /\ t.pc = "open" /\ bound' = bound
      /\ t.own \in Bindings /\ Within(t, bound)
  BY TxTyped DEF Skip, Turn, RequestInv
<1>2. /\ u \in Transaction /\ u.own = t.own /\ u.mine = t.mine
      /\ u.late = t.late /\ u.cand = t.cand
  BY <1>1 DEF Transaction
<1>3. req' = [req EXCEPT ![r] = Idle] \/ req' = [req EXCEPT ![r] = u]
  BY DEF Skip
<1> HIDE DEF u
<1>4. Within(u, bound)
  BY <1>1, <1>2 DEF Within, Load
<1>5. CASE req' = [req EXCEPT ![r] = u]
  <2>1. /\ req' \in [Request -> Transaction] /\ req'[r] = u
        /\ \A q \in Request \ {r} : req'[q] = req[q]
    BY <1>2, <1>5 DEF PoolTypes
  <2> QED
    BY <1>1, <1>2, <1>4, <2>1, OneRequestStep
<1>6. CASE req' = [req EXCEPT ![r] = Idle]
  <2>1. /\ req' \in [Request -> Transaction] /\ req'[r] = Idle
        /\ \A q \in Request \ {r} : req'[q] = req[q]
    BY <1>6, IdleTyped DEF PoolTypes
  <2> QED
    BY <1>1, <2>1, IdleTyped, OneRequestStep
<1> QED
  BY <1>3, <1>5, <1>6

LEMMA CommitStep ==
    ASSUME PoolTypes, RequestInv, NEW r \in Request, CommitBindings(r)
    PROVE  RequestInv'
<1> DEFINE A == req[r].mine
<1>1. /\ req[r] \in Transaction /\ req[r].pc = "open" /\ req[r].own \in Bindings
      /\ bound' = [a \in Account |-> IF a \in A THEN req[r].own[a] ELSE bound[a]]
      /\ req' = [Overtaken(A) EXCEPT ![r] = Idle]
  BY TxTyped DEF CommitBindings
<1>2. A \in SUBSET Account
  BY <1>1 DEF Transaction
<1>3. bound' \in Bindings
  BY <1>1 DEF RequestInv, Bindings
<1>4. req'[r] = Idle /\ \A q \in Request \ {r} : req'[q] = Overtaken(A)[q]
  BY <1>1 DEF Overtaken
<1>5. req' \in [Request -> Transaction]
  <2>1. \A q \in Request : Overtaken(A)[q] \in Transaction
    BY <1>2, OvertakenShape
  <2> QED
    BY <1>1, <2>1, IdleTyped DEF Overtaken
<1>6. \A a \in Account \ A : bound'[a] = bound[a]
  BY <1>1
<1>7. ASSUME NEW q \in Request, req'[q].pc = "open"
      PROVE  req'[q].own \in Bindings /\ Within(req'[q], bound')
  <2>1. q # r /\ req'[q] = Overtaken(A)[q]
    BY <1>4, <1>7, IdleTyped
  <2>2. req[q].pc = "open" /\ req'[q].own = req[q].own
    BY <1>2, <1>7, <2>1, OvertakenShape
  <2>3. req[q].own \in Bindings /\ Within(req[q], bound)
    BY <2>2 DEF RequestInv
  <2> QED
    BY <1>2, <1>6, <2>1, <2>2, <2>3, OvertakenStands
<1> QED
  BY <1>3, <1>5, <1>7 DEF RequestInv

LEMMA BindStep ==
    ASSUME PoolTypes, RequestInv, NEW A \in SUBSET Account,
           NEW p \in Proxy \cup {None}, BindProxy(A, p)
    PROVE  RequestInv'
<1>1. /\ bound' = [a \in Account |-> IF a \in A THEN p ELSE bound[a]]
      /\ req' = Overtaken(A)
  BY DEF BindProxy
<1>2. bound' \in Bindings
  BY <1>1 DEF RequestInv, Bindings
<1>3. req' \in [Request -> Transaction]
  <2>1. \A q \in Request : Overtaken(A)[q] \in Transaction
    BY OvertakenShape
  <2> QED
    BY <1>1, <2>1 DEF Overtaken
<1>4. \A a \in Account \ A : bound'[a] = bound[a]
  BY <1>1
<1>5. ASSUME NEW q \in Request, req'[q].pc = "open"
      PROVE  req'[q].own \in Bindings /\ Within(req'[q], bound')
  <2>1. req'[q] = Overtaken(A)[q]
    BY <1>1
  <2>2. req[q].pc = "open" /\ req'[q].own = req[q].own
    BY <1>5, <2>1, OvertakenShape
  <2>3. req[q].own \in Bindings /\ Within(req[q], bound)
    BY <2>2 DEF RequestInv
  <2> QED
    BY <1>4, <2>1, <2>2, <2>3, OvertakenStands
<1> QED
  BY <1>2, <1>3, <1>5 DEF RequestInv

LEMMA RequestStep ==
    ASSUME PoolTypes, RequestInv, [Next]_vars
    PROVE  RequestInv'
<1>1. ASSUME NEW r \in Request, Allocation(r) PROVE RequestInv'
  <2>1. CASE OpenImport(r) \/ OpenAuto(r)
    <3>1. bound' = bound
      BY <2>1, OpensFresh
    <3> QED
      BY <2>1, <3>1, OpenStands, OneRequestStep
  <2>2. CASE CommitBindings(r)
    BY <2>2, CommitStep
  <2>3. ASSUME NEW a \in Account, Assign(r, a) PROVE RequestInv'
    <3>1. bound' = bound /\ Within(req[r], bound)
      BY <2>3 DEF Assign, Turn, RequestInv
    <3> QED
      BY <2>3, <3>1, AssignStands, OneRequestStep
  <2>4. ASSUME NEW a \in Account, Skip(r, a) PROVE RequestInv'
    BY <2>4, SkipStep
  <2>5. ASSUME NEW a \in Account, AssignFails(r, a) PROVE RequestInv'
    <3>1. /\ req' \in [Request -> Transaction] /\ req'[r] = Idle /\ bound' = bound
          /\ \A q \in Request \ {r} : req'[q] = req[q]
      BY <2>5, IdleTyped DEF AssignFails, PoolTypes
    <3> QED
      BY <3>1, IdleTyped, OneRequestStep
  <2> QED
    BY <1>1, <2>1, <2>2, <2>3, <2>4, <2>5 DEF Allocation
<1>2. ASSUME NEW A \in SUBSET Account, NEW p \in Proxy \cup {None}, BindProxy(A, p)
      PROVE  RequestInv'
  BY <1>2, BindStep
<1>3. CASE bound' = bound /\ req' = req
  BY <1>3 DEF RequestInv
<1>4. CASE Operator
  BY <1>2, <1>3, <1>4
     DEF Operator, DeleteProxies, CheckProxies, SetStatus, UpdateProxy, CreateProxy,
         DeleteGroup
<1>5. CASE CheckAllProxies \/ \E x \in Probes : WriteVerdicts(x) \/ VerdictsLost(x)
  BY <1>3, <1>5 DEF CheckAllProxies, WriteVerdicts, VerdictsLost
<1> QED
  BY <1>1, <1>3, <1>4, <1>5 DEF Next, vars, Probes

-----------------------------------------------------------------------------
(* The proxies' side                                                       *)

\* What holds of the pool and the probes.
ProbeInv ==
    /\ proxy \in [Proxy -> Row]
    /\ probe \in [Probes -> Probe]
    /\ parked \subseteq Proxy
    /\ DisabledStaysOut
    /\ ReadInv

\* Nothing a probe reads or holds changes, and what is parked stays as it was.
LEMMA ParkedKept ==
    ASSUME ProbeInv, proxy' \in [Proxy -> Row], probe' = probe, parked' \subseteq parked,
           \A p \in parked' : proxy'[p].status = proxy[p].status
    PROVE  ProbeInv'
BY DEF ProbeInv, DisabledStaysOut, ReadInv

LEMMA SetStatusStep ==
    ASSUME ProbeInv, NEW P \in SUBSET Proxy, NEW s \in Chosen, SetStatus(P, s)
    PROVE  ProbeInv'
<1>1. /\ proxy' = [p \in Proxy |-> IF p \in P THEN [proxy[p] EXCEPT !.status = s]
                                              ELSE proxy[p]]
      /\ parked' = AfterEdit(P, s) /\ probe' = probe
  BY DEF SetStatus
<1>2. \A p \in Proxy : [proxy[p] EXCEPT !.status = s] \in Row
                       /\ [proxy[p] EXCEPT !.status = s].status = s
  BY DEF ProbeInv, Row
<1>3. proxy' \in [Proxy -> Row]
  BY <1>1, <1>2 DEF ProbeInv
<1>4. \A p \in Proxy : proxy'[p].status = IF p \in P THEN s ELSE proxy[p].status
  BY <1>1, <1>2
<1>5. CASE s = "disabled" /\ \A x \in DOMAIN probe : probe[x].pc = "idle"
  <2>1. parked' = parked \cup P
    BY <1>1, <1>5 DEF AfterEdit
  <2>2. \A x \in Probes : probe[x].pc = "idle"
    BY <1>5 DEF ProbeInv
  <2> QED
    BY <1>1, <1>3, <1>4, <1>5, <2>1, <2>2 DEF ProbeInv, DisabledStaysOut, ReadInv
<1>6. CASE ~(s = "disabled" /\ \A x \in DOMAIN probe : probe[x].pc = "idle")
  <2>1. parked' = parked \ P
    BY <1>1, <1>6 DEF AfterEdit
  <2> QED
    BY <1>1, <1>3, <1>4, <2>1, ParkedKept DEF ProbeInv
<1> QED
  BY <1>5, <1>6

LEMMA EditStep ==
    ASSUME ProbeInv, NEW p \in Proxy, UpdateProxy(p) \/ CreateProxy(p)
    PROVE  ProbeInv'
<1>1. CASE UpdateProxy(p)
  <2>1. PICK g \in Group \cup {None}, k \in Caps :
          proxy' = [proxy EXCEPT ![p].group = g, ![p].cap = k]
    BY <1>1 DEF UpdateProxy
  <2>2. proxy[p] \in Row
    BY DEF ProbeInv
  <2>3. /\ [proxy[p] EXCEPT !.group = g, !.cap = k] \in Row
        /\ [proxy[p] EXCEPT !.group = g, !.cap = k].status = proxy[p].status
    BY <2>2 DEF Row
  <2>4. proxy' = [proxy EXCEPT ![p] = [proxy[p] EXCEPT !.group = g, !.cap = k]]
    BY <2>1 DEF ProbeInv
  <2> QED
    BY <1>1, <2>3, <2>4, ParkedKept DEF UpdateProxy, ProbeInv
<1>2. CASE CreateProxy(p)
  <2>1. PICK g \in Group \cup {None}, k \in Caps :
          proxy' = [proxy EXCEPT ![p] = [status |-> "unchecked", group |-> g, cap |-> k]]
    BY <1>2 DEF CreateProxy
  <2>2. [status |-> "unchecked", group |-> g, cap |-> k] \in Row
    BY DEF Row, Chosen
  <2>3. p \notin parked
    BY <1>2 DEF CreateProxy, ProbeInv, DisabledStaysOut
  <2> QED
    BY <1>2, <2>1, <2>2, <2>3, ParkedKept DEF CreateProxy, ProbeInv
<1> QED
  BY <1>1, <1>2

LEMMA DeleteStep ==
    ASSUME ProbeInv, NEW P \in SUBSET Proxy, DeleteProxies(P)
    PROVE  ProbeInv'
<1> DEFINE free == Deletable(P)
<1>1. /\ proxy' = [p \in Proxy |-> IF p \in free THEN [proxy[p] EXCEPT !.status = "gone"]
                                                 ELSE proxy[p]]
      /\ parked' = parked \ free /\ probe' = probe
  BY DEF DeleteProxies
<1> HIDE DEF free
<1>2. \A p \in Proxy : [proxy[p] EXCEPT !.status = "gone"] \in Row
  BY DEF ProbeInv, Row
<1> QED
  BY <1>1, <1>2, ParkedKept DEF ProbeInv

LEMMA GroupStep ==
    ASSUME ProbeInv, NEW g \in Group, DeleteGroup(g)
    PROVE  ProbeInv'
<1>1. \A p \in Proxy : /\ [proxy[p] EXCEPT !.group = None] \in Row
                       /\ [proxy[p] EXCEPT !.group = None].status = proxy[p].status
  BY DEF ProbeInv, Row
<1> QED
  BY <1>1, ParkedKept DEF DeleteGroup, ProbeInv

LEMMA StatusRead ==
    ASSUME ProbeInv, NEW P \in SUBSET Proxy
    PROVE  [pc |-> "open", read |-> [p \in P |-> proxy[p].status]] \in Probe
<1>1. [p \in P |-> proxy[p].status] \in [P -> Chosen \cup {"none", "gone"}]
  BY DEF ProbeInv, Row
<1> QED
  BY <1>1 DEF Probe

\* A probe that opens reads nothing that is parked.
LEMMA ProbeOpens ==
    ASSUME ProbeInv, NEW x \in Probes, NEW P \in SUBSET Proxy, proxy' = proxy,
           parked' \subseteq parked, P \cap parked' = {},
           probe' = [probe EXCEPT ![x] =
                        [pc |-> "open", read |-> [p \in P |-> proxy[p].status]]]
    PROVE  ProbeInv'
<1> DEFINE t == [pc |-> "open", read |-> [p \in P |-> proxy[p].status]]
<1>1. t \in Probe /\ DOMAIN t.read = P
  BY StatusRead
<1>2. probe' = [probe EXCEPT ![x] = t]
  OBVIOUS
<1> HIDE DEF t
<1> QED
  BY <1>1, <1>2 DEF ProbeInv, DisabledStaysOut, ReadInv

\* What a probe writes reaches no parked proxy.
LEMMA VerdictStep ==
    ASSUME ProbeInv, NEW x \in Probes, WriteVerdicts(x) \/ VerdictsLost(x)
    PROVE  ProbeInv'
<1>1. /\ probe[x].pc = "open" /\ parked' = parked
      /\ probe' = [probe EXCEPT ![x] = Quiet]
  BY DEF WriteVerdicts, VerdictsLost
<1>2. probe' \in [Probes -> Probe] /\ ReadInv'
  BY <1>1, IdleTyped DEF ProbeInv, ReadInv
<1>3. CASE proxy' = proxy
  BY <1>1, <1>2, <1>3 DEF ProbeInv, DisabledStaysOut
<1>4. CASE WriteVerdicts(x)
  <2> DEFINE read == probe[x].read
  <2>1. PICK ok \in SUBSET DOMAIN read :
              proxy' = [p \in Proxy |->
                 LET s == IF p \in ok THEN "active" ELSE "error"
                 IN  IF p \in DOMAIN read /\ s # read[p]
                     THEN [proxy[p] EXCEPT !.status = s] ELSE proxy[p]]
    BY <1>4 DEF WriteVerdicts
  <2>2. \A p \in Proxy : /\ [proxy[p] EXCEPT !.status = "active"] \in Row
                         /\ [proxy[p] EXCEPT !.status = "error"] \in Row
    BY DEF ProbeInv, Row, Chosen
  <2>3. \A p \in Proxy : proxy[p] \in Row
    BY DEF ProbeInv
  <2>4. proxy' \in [Proxy -> Row]
    BY <2>1, <2>2, <2>3
  <2>5. \A p \in parked : p \in Proxy /\ p \notin DOMAIN read
    BY <1>1 DEF ProbeInv, ReadInv
  <2>6. \A p \in parked : proxy'[p] = proxy[p]
    BY <2>1, <2>5
  <2> QED
    BY <1>1, <1>2, <2>4, <2>6 DEF ProbeInv, DisabledStaysOut
<1> QED
  BY <1>3, <1>4 DEF VerdictsLost

LEMMA ProbeStep ==
    ASSUME ProbeInv, [Next]_vars
    PROVE  ProbeInv'
<1>1. CASE UNCHANGED <<proxy, probe, parked>>
  BY <1>1, ParkedKept DEF ProbeInv
<1>2. ASSUME NEW r \in Request, Allocation(r) PROVE ProbeInv'
  BY <1>1, <1>2
     DEF Allocation, OpenImport, OpenAuto, CommitBindings, Assign, Skip, AssignFails
<1>3. ASSUME NEW P \in SUBSET Proxy, CheckProxies(P) PROVE ProbeInv'
  BY <1>3, ProbeOpens DEF CheckProxies, Probes
<1>4. CASE CheckAllProxies
  <2> DEFINE P == {q \in Proxy : Exists(proxy, q) /\ proxy[q].status # "disabled"}
  <2>1. P \cap parked = {}
    BY DEF ProbeInv, DisabledStaysOut
  <2> QED
    BY <1>4, <2>1, ProbeOpens DEF CheckAllProxies, Probes
<1>5. CASE Operator
  BY <1>1, <1>3, <1>5, SetStatusStep, EditStep, DeleteStep, GroupStep DEF Operator, BindProxy
<1> QED
  BY <1>1, <1>2, <1>4, <1>5, VerdictStep DEF Next, vars, Probes

-----------------------------------------------------------------------------
(* What follows                                                            *)

LEMMA PoolInvSplit == PoolInv <=> PoolTypes /\ RequestInv /\ ProbeInv
BY DEF PoolInv, PoolTypes, RequestInv, ProbeInv, WithinInv

LEMMA PoolCorrect == Spec => []PoolInv
<1>1. Init => PoolInv
  <2> SUFFICES ASSUME Init PROVE PoolInv
    OBVIOUS
  <2>1. proxy \in [Proxy -> Row] /\ bound \in Bindings /\ parked \subseteq Proxy
    BY PoolAssumption DEF Init, Row, Chosen, Bindings
  <2>2. req \in [Request -> Transaction] /\ probe \in [Probes -> Probe]
    BY IdleTyped DEF Init, Probes
  <2>3. /\ \A r \in Request : req[r].pc = "idle"
        /\ \A x \in Probes : probe[x].pc = "idle"
        /\ parked = {}
    BY IdleTyped DEF Init, Probes
  <2> QED
    BY <2>1, <2>2, <2>3
       DEF PoolInv, PoolTypes, DisabledStaysOut, ReadInv, WithinInv
<1>2. PoolInv /\ [Next]_vars => PoolInv'
  <2> SUFFICES ASSUME PoolInv, [Next]_vars PROVE PoolInv'
    OBVIOUS
  <2>1. RequestInv' /\ ProbeInv'
    BY PoolInvSplit, RequestStep, ProbeStep
  <2> QED
    BY <2>1 DEF PoolInv, PoolTypes, RequestInv, ProbeInv, WithinInv
<1> QED
  BY <1>1, <1>2, PTL DEF Spec

\* check_all_proxies: what an operator disabled with no probe under way stays
\* disabled until an operator takes it back, whatever the probes write.
THEOREM DisabledHolds == Spec => []DisabledStaysOut
<1>1. PoolInv => DisabledStaysOut
  BY DEF PoolInv
<1> QED
  BY <1>1, PoolCorrect, PTL

\* A transaction that has bound all it was to bind ends with its commit.
LEMMA EndsByCommit ==
    ASSUME PoolTypes, [Next]_vars, NEW r \in Request, req[r].pc = "open",
           req[r].todo = {}, req'[r].pc = "idle"
    PROVE  CommitBindings(r)
<1>1. ASSUME NEW q \in Request, Allocation(q) PROVE CommitBindings(r)
  <2>1. ASSUME NEW a \in Account, Assign(q, a) \/ Skip(q, a) \/ AssignFails(q, a)
        PROVE  FALSE
    <3>1. q # r /\ \E t : req' = [req EXCEPT ![q] = t]
      BY <2>1 DEF Assign, Skip, AssignFails, Turn
    <3> QED
      BY <3>1 DEF PoolTypes
  <2>2. ASSUME OpenImport(q) \/ OpenAuto(q) PROVE FALSE
    <3>1. q # r
      BY <2>2 DEF OpenImport, OpenAuto
    <3> QED
      BY <2>2, <3>1, OpenStands
  <2>3. ASSUME q # r, CommitBindings(q) PROVE FALSE
    <3>1. req[q].mine \in SUBSET Account
      BY TxTyped DEF Transaction
    <3>2. req'[r] = Overtaken(req[q].mine)[r]
      BY <2>3 DEF CommitBindings, Overtaken
    <3> QED
      BY <3>1, <3>2, OvertakenShape
  <2> QED
    BY <1>1, <2>1, <2>2, <2>3 DEF Allocation
<1>2. ASSUME NEW A \in SUBSET Account, NEW p, BindProxy(A, p) PROVE FALSE
  BY <1>2, OvertakenShape DEF BindProxy
<1>3. req' # req
  OBVIOUS
<1>4. CASE Operator
  BY <1>2, <1>3, <1>4
     DEF Operator, DeleteProxies, CheckProxies, SetStatus, UpdateProxy, CreateProxy,
         DeleteGroup
<1> QED
  BY <1>1, <1>3, <1>4 DEF Next, vars, CheckAllProxies, WriteVerdicts, VerdictsLost

\* auto_assign_proxy: an allocation that commits leaves each proxy it bound within
\* the stricter of its cap and the request's limit, but for the accounts others
\* bound there while it ran.
THEOREM AllocationCorrect == Spec => AllocationWithinCap
<1>1. ASSUME PoolInv, [Next]_vars, NEW r \in Request, req[r].pc = "open",
             req[r].todo = {}, req'[r].pc = "idle", NEW a \in req[r].mine
      PROVE  LET p == req[r].own[a]
                 k == req[r].cand[p]
                 late == {b \in req[r].late : bound'[b] = p}
             IN  k = None \/ Load(bound', p) <= k + Cardinality(late)
  <2> DEFINE t == req[r]
             p == t.own[a]
             k == t.cand[p]
             late == {b \in t.late : bound'[b] = p}
             at(f) == {b \in Account : f[b] = p}
  <2>1. PoolTypes /\ RequestInv
    BY <1>1, PoolInvSplit
  <2>2. CommitBindings(r)
    BY <1>1, <2>1, EndsByCommit
  <2>3. t \in Transaction /\ Within(t, bound)
    BY <1>1, <2>1, TxTyped DEF RequestInv
  <2>4. p \in DOMAIN t.cand /\ (k = None \/ Load(t.own, p) <= k)
    BY <1>1, <2>3 DEF Within
  <2>5. k = None \/ k \in Nat
    BY <2>3, <2>4, CandShape, PoolAssumption
  <2>6. bound' = [b \in Account |-> IF b \in t.mine THEN t.own[b] ELSE bound[b]]
    BY <2>2 DEF CommitBindings
  <2>7. at(bound') \subseteq at(t.own) \cup late
    <3> SUFFICES ASSUME NEW b \in Account, bound'[b] = p, b \notin t.late
                 PROVE  t.own[b] = p
      OBVIOUS
    <3>1. CASE b \in t.mine
      BY <2>6, <3>1
    <3>2. CASE b \notin t.mine
      BY <2>3, <2>6, <3>2 DEF Within
    <3> QED
      BY <3>1, <3>2
  <2>8. /\ Load(bound', p) \in Nat /\ Load(t.own, p) \in Nat
        /\ IsFiniteSet(at(t.own))
    BY LoadType
  <2>9. IsFiniteSet(late) /\ Cardinality(late) \in Nat
    <3>1. late \subseteq Account
      BY <2>3 DEF Transaction
    <3> QED
      BY <3>1, FS_Subset, FS_CardinalityType, PoolAssumption
  <2>10. /\ IsFiniteSet(at(t.own) \cup late)
         /\ Cardinality(at(t.own) \cup late)
              = Cardinality(at(t.own)) + Cardinality(late)
                - Cardinality(at(t.own) \cap late)
    BY <2>8, <2>9, FS_Union
  <2>11. Cardinality(at(t.own) \cap late) \in Nat
    BY <2>8, FS_Intersection, FS_CardinalityType
  <2>12. Cardinality(at(bound')) <= Cardinality(at(t.own) \cup late)
    BY <2>7, <2>10, FS_Subset
  <2>13. Load(bound', p) = Cardinality(at(bound')) /\ Load(t.own, p) = Cardinality(at(t.own))
    BY DEF Load
  <2>14. Load(bound', p) <= Load(t.own, p) + Cardinality(late)
    <3> HIDE DEF late, at, t, p
    <3> QED
      BY <2>8, <2>9, <2>10, <2>11, <2>12, <2>13
  <2> QED
    <3> HIDE DEF late, t, p, k
    <3> QED
      BY <2>4, <2>5, <2>8, <2>9, <2>14 DEF late, t, p, k
<1>2. PoolInv /\ [Next]_vars =>
        \A r \in Request :
          req[r].pc = "open" /\ req[r].todo = {} /\ req'[r].pc = "idle"
          => \A p \in {req[r].own[a] : a \in req[r].mine} :
                LET k == req[r].cand[p]
                    late == {a \in req[r].late : bound'[a] = p}
                IN  k = None \/ Load(bound', p) <= k + Cardinality(late)
  BY <1>1
<1> QED
  BY <1>2, PoolCorrect, PTL DEF Spec, AllocationWithinCap
=============================================================================
