------------------------------ MODULE ProxyPool ------------------------------
(***************************************************************************)
(* The proxy pool: which proxy an account goes through                     *)
(* (services/proxy_pool.py, the binding endpoints of accounts.py and the   *)
(* proxy part of the zip import), the operators' edits of the pool         *)
(* (proxies.py, proxy_groups.py), and the probes that set a proxy's status *)
(* (check_all_proxies every ten minutes, the check endpoints on demand).   *)
(*                                                                         *)
(* An allocation counts the accounts of each proxy and binds one more; it  *)
(* reads the snapshot of its transaction plus its own flushed rows, and    *)
(* nothing is locked but the rows it writes.  A probe reads the pool, then *)
(* spends seconds per proxy on TCP before it writes.  The other requests   *)
(* are short and blind, one atomic step each.                              *)
(***************************************************************************)
EXTENDS Integers, FiniteSets

CONSTANTS
    Request,       \* slots of the API for concurrent allocations
    Account,       \* ids, in the order the import takes them
    Proxy,         \* ids, in the order of creation
    Group, Country, None,
    CountryOf,     \* [Proxy -> Country or None], proxy_endpoints.country
    PhoneCountry,  \* [Account -> Country or None], by the phone's prefix
    Caps,          \* the values of max_accounts considered, None is uncapped
    Imports,       \* sets of accounts an archive may bring
    InitialPool,   \* the proxies there are at first
    MaxOps         \* bound: operators' requests other than allocations

ASSUME PoolAssumption ==
    /\ Account \subseteq Nat /\ IsFiniteSet(Account)
    /\ Proxy \subseteq Nat
    /\ None \notin Proxy \cup Group \cup Country \cup Nat
    /\ CountryOf \in [Proxy -> Country \cup {None}]
    /\ PhoneCountry \in [Account -> Country \cup {None}]
    /\ Imports \subseteq SUBSET Account
    /\ Caps \subseteq (Nat \ {0}) \cup {None}
    /\ InitialPool \in
          [Proxy -> [status: {"none", "unchecked", "active", "error", "disabled"},
                     group: Group \cup {None}, cap: Caps]]
    /\ MaxOps \in Nat

VARIABLES
    proxy,   \* the proxy_endpoints rows
    bound,   \* accounts.proxy_id
    req,     \* the allocations and their transactions
    probe,   \* the probes under way: the beat task's and an operator's
    \* Observability
    parked,  \* proxies disabled while no probe was under way
    ops      \* operators' requests so far

vars == <<proxy, bound, req, probe, parked, ops>>

-----------------------------------------------------------------------------
Chosen == {"unchecked", "active", "error", "disabled"}

\* "none" before the row is inserted, "gone" once it is deleted.
Exists(rows, p) == rows[p].status \in Chosen

\* cand: the caps of the candidates its snapshot shows; own: the bindings of the
\* snapshot and those flushed since, for the accounts in mine; late: the accounts
\* others bound meanwhile.
Idle ==
    [pc |-> "idle", todo |-> {}, auto |-> FALSE, prefer |-> None,
     cand |-> [p \in {} |-> None], own |-> [a \in {} |-> None], mine |-> {}, late |-> {}]

Quiet == [pc |-> "idle", read |-> [p \in {} |-> None]]

Load(b, p) == Cardinality({a \in Account : b[a] = p})

\* The stricter of the request's limit and the proxy's own.
CapOf(row, limit) ==
    IF limit = None \/ (row.cap # None /\ row.cap < limit) THEN row.cap ELSE limit

\* _candidates: active, and of group g if one is given.
Candidates(g, limit) ==
    [p \in {q \in Proxy : proxy[q].status = "active" /\ g \in {None, proxy[q].group}}
        |-> CapOf(proxy[p], limit)]

\* Mutant: the cap is reached when it is exceeded.
AvailableLate(t) ==
    {p \in DOMAIN t.cand : t.cand[p] = None \/ Load(t.own, p) <= t.cand[p]}

Available(t) ==
    {p \in DOMAIN t.cand : t.cand[p] = None \/ Load(t.own, p) < t.cand[p]}

\* A proxy of the wanted country if one is left, else any.
Desired(t, a) == IF t.prefer # None THEN t.prefer ELSE PhoneCountry[a]

Preferred(t, a) ==
    LET home == {p \in Available(t) :
                    Desired(t, a) # None /\ CountryOf[p] = Desired(t, a)}
    IN  IF home # {} THEN home ELSE Available(t)

\* The least loaded, the oldest of these.
Pick(t, a) ==
    CHOOSE p \in Preferred(t, a) :
        \A q \in Preferred(t, a) :
            \/ Load(t.own, p) < Load(t.own, q)
            \/ Load(t.own, p) = Load(t.own, q) /\ p <= q

\* Row locks: an uncommitted binding locks its account and, through the foreign
\* key, its proxy.
Unlocked(A) == \A r \in Request : A \cap req[r].mine = {}
Unused(P) == \A r \in Request : \A a \in req[r].mine : req[r].own[a] \notin P

\* The requests in flight when bindings of the accounts A are committed.
Overtaken(A) ==
    [r \in Request |-> IF req[r].pc = "open" THEN [req[r] EXCEPT !.late = @ \cup A]
                                             ELSE req[r]]

-----------------------------------------------------------------------------
(* Allocation                                                              *)

\* POST /accounts/import-zip with a proxy group: the accounts of the archive.
OpenImport(r) ==
    /\ req[r].pc = "idle"
    /\ \E todo \in Imports, g \in Group, limit \in Caps :
          req' = [req EXCEPT ![r] =
             [Idle EXCEPT !.pc = "open", !.todo = todo, !.own = bound,
                          !.cand = Candidates(g, limit)]]
    /\ UNCHANGED <<proxy, bound, probe, parked, ops>>

\* POST /accounts/{id}/proxy/auto.
OpenAuto(r) ==
    /\ req[r].pc = "idle"
    /\ \E a \in Account, c \in Country \cup {None} :
          req' = [req EXCEPT ![r] =
             [Idle EXCEPT !.pc = "open", !.todo = {a}, !.auto = TRUE, !.prefer = c,
                          !.own = bound, !.cand = Candidates(None, None)]]
    /\ UNCHANGED <<proxy, bound, probe, parked, ops>>

Turn(r, a) ==
    /\ req[r].pc = "open"
    /\ a \in req[r].todo
    /\ \A b \in req[r].todo : a <= b

\* auto_assign_proxy: pick, bind, flush.  An import leaves a bound account alone.
Assign(r, a) ==
    LET t == req[r]
        p == Pick(t, a)
    IN  /\ Turn(r, a)
        /\ t.auto \/ t.own[a] = None
        /\ Available(t) # {}
        /\ Unlocked({a})
        /\ Exists(proxy, p)
        /\ req' = [req EXCEPT ![r] =
              [t EXCEPT !.todo = @ \ {a}, !.own[a] = p, !.mine = @ \cup {a}]]
        /\ UNCHANGED <<proxy, bound, probe, parked, ops>>

\* PoolError, or nothing to do: the import goes on with the next account, the
\* single request is refused (409).
Skip(r, a) ==
    LET t == req[r]
    IN  /\ Turn(r, a)
        /\ Available(t) = {} \/ (~t.auto /\ t.own[a] # None)
        /\ req' = [req EXCEPT ![r] = IF t.auto THEN Idle ELSE [t EXCEPT !.todo = @ \ {a}]]
        /\ UNCHANGED <<proxy, bound, probe, parked, ops>>

\* The picked proxy was deleted meanwhile: the foreign key refuses the flush.
AssignFails(r, a) ==
    /\ Turn(r, a)
    /\ req[r].auto \/ req[r].own[a] = None
    /\ Available(req[r]) # {}
    /\ ~Exists(proxy, Pick(req[r], a))
    /\ req' = [req EXCEPT ![r] = Idle]
    /\ UNCHANGED <<proxy, bound, probe, parked, ops>>

CommitBindings(r) ==
    LET t == req[r]
    IN  /\ t.pc = "open"
        /\ t.todo = {}
        /\ bound' = [a \in Account |-> IF a \in t.mine THEN t.own[a] ELSE bound[a]]
        /\ req' = [Overtaken(t.mine) EXCEPT ![r] = Idle]
        /\ UNCHANGED <<proxy, probe, parked, ops>>

-----------------------------------------------------------------------------
(* Operators                                                               *)

Operation == ops < MaxOps /\ ops' = ops + 1

\* POST and DELETE /accounts/{id}/proxy, POST /accounts/batch: no cap is looked at.
BindProxy(A, p) ==
    /\ Operation
    /\ Unlocked(A)
    /\ p # None => Exists(proxy, p)
    /\ bound' = [a \in Account |-> IF a \in A THEN p ELSE bound[a]]
    /\ req' = Overtaken(A)
    /\ UNCHANGED <<proxy, probe, parked>>

\* Whether the probes may still write over an operator's disabling.
AfterEdit(P, s) ==
    IF s = "disabled" /\ \A x \in DOMAIN probe : probe[x].pc = "idle"
    THEN parked \cup P ELSE parked \ P

\* PATCH /proxies/{id}, POST /proxies/batch (status or group of a selection).
SetStatus(P, s) ==
    /\ Operation
    /\ \A p \in P : Exists(proxy, p)
    /\ proxy' = [p \in Proxy |-> IF p \in P THEN [proxy[p] EXCEPT !.status = s]
                                            ELSE proxy[p]]
    /\ parked' = AfterEdit(P, s)
    /\ UNCHANGED <<bound, req, probe>>

UpdateProxy(p) ==
    /\ Operation
    /\ Exists(proxy, p)
    /\ \E g \in Group \cup {None}, k \in Caps :
          proxy' = [proxy EXCEPT ![p].group = g, ![p].cap = k]
    /\ UNCHANGED <<bound, req, probe, parked>>

\* POST /proxies, and each line of POST /proxies/import-text.
CreateProxy(p) ==
    /\ Operation
    /\ proxy[p].status = "none"
    /\ \E g \in Group \cup {None}, k \in Caps :
          proxy' = [proxy EXCEPT ![p] = [status |-> "unchecked", group |-> g, cap |-> k]]
    /\ UNCHANGED <<bound, req, probe, parked>>

\* POST /proxies/batch/delete: the bound ones of the selection are kept.
Deletable(P) == {p \in P : Exists(proxy, p) /\ Load(bound, p) = 0}

DeleteProxies(P) ==
    LET free == Deletable(P)
    IN  /\ Operation
        /\ Unused(free)
        /\ proxy' = [p \in Proxy |-> IF p \in free THEN [proxy[p] EXCEPT !.status = "gone"]
                                                   ELSE proxy[p]]
        /\ parked' = parked \ free
        /\ UNCHANGED <<bound, req, probe>>

\* DELETE /proxy-groups/{id}: its proxies stay, ungrouped.
DeleteGroup(g) ==
    /\ Operation
    /\ proxy' = [p \in Proxy |-> IF proxy[p].group = g THEN [proxy[p] EXCEPT !.group = None]
                                                       ELSE proxy[p]]
    /\ UNCHANGED <<bound, req, probe, parked>>

-----------------------------------------------------------------------------
(* Probes                                                                  *)

\* Mutant: the beat task takes every proxy.
CheckAllProxiesAny ==
    /\ probe["beat"].pc = "idle"
    /\ probe' = [probe EXCEPT !["beat"] =
          [pc |-> "open", read |-> [p \in {q \in Proxy : Exists(proxy, q)} |-> proxy[p].status]]]
    /\ UNCHANGED <<proxy, bound, req, parked, ops>>

\* check_all_proxies reads the proxies that are not disabled.
CheckAllProxies ==
    /\ probe["beat"].pc = "idle"
    /\ probe' = [probe EXCEPT !["beat"] =
          [pc |-> "open",
           read |-> [p \in {q \in Proxy : Exists(proxy, q) /\ proxy[q].status # "disabled"}
                        |-> proxy[p].status]]]
    /\ UNCHANGED <<proxy, bound, req, parked, ops>>

\* POST /proxies/{id}/check and /proxies/batch/check take what is selected, and
\* so may end a disabling.
CheckProxies(P) ==
    /\ Operation
    /\ probe["admin"].pc = "idle"
    /\ \A p \in P : Exists(proxy, p)
    /\ probe' = [probe EXCEPT !["admin"] =
                    [pc |-> "open", read |-> [p \in P |-> proxy[p].status]]]
    /\ parked' = parked \ P
    /\ UNCHANGED <<proxy, bound, req>>

\* One commit; a status equal to the one read is not written.
WriteVerdicts(x) ==
    LET read == probe[x].read
    IN  /\ probe[x].pc = "open"
        /\ \A p \in DOMAIN read : Exists(proxy, p)
        /\ \E ok \in SUBSET DOMAIN read :
              proxy' = [p \in Proxy |->
                 LET s == IF p \in ok THEN "active" ELSE "error"
                 IN  IF p \in DOMAIN read /\ s # read[p]
                     THEN [proxy[p] EXCEPT !.status = s] ELSE proxy[p]]
        /\ probe' = [probe EXCEPT ![x] = Quiet]
        /\ UNCHANGED <<bound, req, parked, ops>>

\* A row it would update is gone (StaleDataError): every verdict is lost.
VerdictsLost(x) ==
    /\ probe[x].pc = "open"
    /\ \E p \in DOMAIN probe[x].read : ~Exists(proxy, p)
    /\ probe' = [probe EXCEPT ![x] = Quiet]
    /\ UNCHANGED <<proxy, bound, req, parked, ops>>

-----------------------------------------------------------------------------
Init ==
    /\ proxy = InitialPool
    /\ bound = [a \in Account |-> None]
    /\ req = [r \in Request |-> Idle]
    /\ probe = [x \in {"beat", "admin"} |-> Quiet]
    /\ parked = {}
    /\ ops = 0

Allocation(r) ==
    \/ OpenImport(r) \/ OpenAuto(r) \/ CommitBindings(r)
    \/ \E a \in Account : Assign(r, a) \/ Skip(r, a) \/ AssignFails(r, a)

Operator ==
    \/ \E A \in (SUBSET Account) \ {{}}, p \in Proxy \cup {None} : BindProxy(A, p)
    \/ \E P \in (SUBSET Proxy) \ {{}} :
          DeleteProxies(P) \/ CheckProxies(P) \/ \E s \in Chosen : SetStatus(P, s)
    \/ \E p \in Proxy : UpdateProxy(p) \/ CreateProxy(p)
    \/ \E g \in Group : DeleteGroup(g)

Next ==
    \/ \E r \in Request : Allocation(r)
    \/ Operator
    \/ CheckAllProxies
    \/ \E x \in {"beat", "admin"} : WriteVerdicts(x) \/ VerdictsLost(x)

Spec == Init /\ [][Next]_vars

-----------------------------------------------------------------------------
(* Properties                                                              *)

\* A request fills a proxy up to the stricter of its cap and the request's limit,
\* beyond that only by the accounts others bound to it in the meantime: an import
\* counts the accounts it has just bound (auto_assign_proxy flushes), and what an
\* overlap can add is exactly what it brought.
AllocationWithinCap ==
    [][\A r \in Request :
          req[r].pc = "open" /\ req[r].todo = {} /\ req'[r].pc = "idle"
          => \A p \in {req[r].own[a] : a \in req[r].mine} :
                LET k == req[r].cand[p]
                    late == {a \in req[r].late : bound'[a] = p}
                IN  k = None \/ Load(bound', p) <= k + Cardinality(late)]_vars

\* A proxy taken out of the pool by an operator, with no probe under way, stays
\* out until an operator takes it back: the periodic probe passes over it, and
\* what it writes for others does not reach it (check_all_proxies).
DisabledStaysOut == \A p \in parked : proxy[p].status = "disabled"

=============================================================================
