----------------------------- MODULE CustomerBook -----------------------------
(***************************************************************************)
(* Who writes to whom: customers are imported and dealt out to accounts in *)
(* turn, up to a limit per account (services/assignment.py, the import,    *)
(* assign, update and delete endpoints of customers.py, the deletion of    *)
(* accounts).                                                              *)
(*                                                                         *)
(* A request reads the snapshot of its transaction, deals in memory, and   *)
(* writes the customers it has changed; their rows stay locked until it    *)
(* commits.  status is written with assigned_account_id and left out.      *)
(***************************************************************************)
EXTENDS Integers, FiniteSets, Functions

CONSTANTS
    Request,      \* slots of the API for concurrent requests
    Account,      \* ids
    Phone,        \* customers.phone, UNIQUE
    None,
    Caps,         \* the values of max_per_account, None is no limit
    Scopes,       \* the accounts of the groups that are named, of all if none is
    Selections,   \* sets of customers that are named in an assignment, {} is none
    Imports,      \* sets of phones that are imported together
    InitialBook,  \* the customers there are at first
    MaxRequests,  \* bound: imports and assignments
    MaxOps        \* bound: other requests

CustomerRow == [id: Nat, consent: BOOLEAN, to: Account \cup {None}]

ASSUME BookAssumption ==
    /\ Account \subseteq Nat /\ IsFiniteSet(Account)
    /\ IsFiniteSet(Phone)                            \* they fit the column
    /\ None \notin Account \cup Request \cup CustomerRow
    /\ Caps \subseteq (Nat \ {0}) \cup {None}
    /\ Scopes \subseteq SUBSET Account
    /\ Selections \cup Imports \subseteq SUBSET Phone
    /\ InitialBook \in [Phone -> CustomerRow \cup {None}]
    /\ {MaxRequests, MaxOps} \subseteq Nat

VARIABLES
    customer,   \* the customers, by phone; None if there is none
    usable,     \* the accounts that are enabled and active or imported
    deleted,    \* accounts that are gone
    req,        \* the requests in flight and their transactions
    nextId,     \* AUTO_INCREMENT of customers
    opened, ops

bookVars == <<customer, usable, deleted, req, nextId, opened, ops>>

-----------------------------------------------------------------------------
Exists(book) == {p \in Phone : book[p] # None}

\* base: the snapshot; made: the phones it has inserted, view: base with them;
\* dealt: the account of each customer it has placed; late: the phones whose
\* customer others have changed since.
NoRequest ==
    [pc |-> "idle", kind |-> "none", todo |-> {}, ids |-> {}, scope |-> {}, only |-> TRUE,
     cap |-> None, base |-> <<>>, view |-> <<>>, made |-> {}, dealt |-> <<>>,
     left |-> {}, late |-> {}]

\* _current_load: customers of the account in the snapshot.
Load(book, a) == Cardinality({p \in Exists(book) : book[p].to = a})

\* What a transaction has written and not committed: its inserts, and once it has
\* flushed the customers it has dealt.
Held(t) == t.made \cup (IF t.pc = "flushed" THEN DOMAIN t.dealt ELSE {})
Unlocked(P, r) == \A q \in Request \ {r} : P \cap Held(req[q]) = {}
Dealt(t) == IF t.pc = "flushed" THEN Range(t.dealt) ELSE {}

\* The other requests in flight when customers P are changed.
Overtaken(P) ==
    [q \in Request |-> IF req[q].pc = "idle" THEN req[q] ELSE [req[q] EXCEPT !.late = @ \cup P]]

-----------------------------------------------------------------------------
(* assign_customers                                                        *)

\* customer_ids, or everyone if that is empty.
Asked(t) == IF t.ids = {} THEN Exists(t.view) ELSE t.ids

Candidates(t) ==
    {p \in Asked(t) \cap Exists(t.view) :
        t.view[p].consent /\ (t.only => t.view[p].to = None)}

Share(dealt, a) == Cardinality({p \in DOMAIN dealt : dealt[p] = a})

\* Bug: what this request has dealt already is not counted.
FullBySnapshot(t, dealt, a) == t.cap # None /\ Load(t.view, a) >= t.cap

Full(t, dealt, a) == t.cap # None /\ Load(t.view, a) + Share(dealt, a) >= t.cap

\* An account's place in the list, which has no ORDER BY and comes by primary key;
\* cursor is the next place to ask, the code's modulo the length of the list.
Place(t, a) == Cardinality({b \in t.scope : b < a})

\* Bug: every customer is offered to the first account first.
TurnFromFirst(t, acc, p) ==
    LET open == {a \in t.scope : ~Full(t, acc.dealt, a)}
        next == CHOOSE a \in open : \A b \in open : a <= b
    IN  IF open = {} THEN [acc EXCEPT !.left = @ \cup {p}]
        ELSE [acc EXCEPT !.dealt = [q \in DOMAIN @ \cup {p} |-> IF q = p THEN next ELSE acc.dealt[q]]]

\* One customer: the next account in turn that is not full, if there is one.
Turn(t, acc, p) ==
    LET n == Cardinality(t.scope)
        Wait(a) == (Place(t, a) - acc.cursor) % n
        open == {a \in t.scope : ~Full(t, acc.dealt, a)}
        next == CHOOSE a \in open : \A b \in open : Wait(a) <= Wait(b)
    IN  IF open = {} THEN [acc EXCEPT !.left = @ \cup {p}]
        ELSE [acc EXCEPT !.cursor = (Place(t, next) + 1) % n,
                         !.dealt = [q \in DOMAIN @ \cup {p} |->
                                       IF q = p THEN next ELSE acc.dealt[q]]]

NothingDealt == [cursor |-> 0, dealt |-> [p \in {} |-> None], left |-> {}]

Newest(t, P) == CHOOSE p \in P : \A q \in P : t.view[q].id <= t.view[p].id

\* The customers in the order of their ids.  Without an account nobody is placed.
Deal(t) ==
    LET dealing[P \in SUBSET Candidates(t)] ==
            IF P = {} THEN NothingDealt
            ELSE Turn(t, dealing[P \ {Newest(t, P)}], Newest(t, P))
    IN  IF t.scope = {} THEN NothingDealt ELSE dealing[Candidates(t)]

-----------------------------------------------------------------------------
(* Imports and assignments                                                 *)

Opened(r, kind, todo, ids, only) ==
    /\ req[r].pc = "idle"
    /\ opened < MaxRequests /\ opened' = opened + 1
    /\ \E scope \in Scopes, cap \in Caps :
          req' = [req EXCEPT ![r] =
             [NoRequest EXCEPT !.pc = "open", !.kind = kind, !.todo = todo, !.ids = ids,
                          !.only = only, !.scope = scope \cap usable, !.cap = cap,
                          !.base = customer, !.view = customer]]
    /\ UNCHANGED <<customer, usable, deleted, nextId, ops>>

\* POST /customers/assign.
OpenAssign(r) ==
    \E ids \in Selections, only \in BOOLEAN : Opened(r, "assign", {}, ids, only)

\* POST /customers/import.
OpenImport(r) == \E todo \in Imports : Opened(r, "import", todo, {}, TRUE)

\* A line of the import: a phone it can see is a duplicate, another is inserted.
Line(r, p) ==
    LET t == req[r]
    IN  /\ t.pc = "open" /\ p \in t.todo
        /\ IF t.view[p] # None
           THEN /\ req' = [req EXCEPT ![r].todo = @ \ {p}]
                /\ UNCHANGED nextId
           ELSE /\ customer[p] = None
                /\ Unlocked({p}, r)
                /\ nextId' = nextId + 1
                /\ \E consent \in BOOLEAN :
                     req' = [req EXCEPT ![r] =
                        [t EXCEPT !.todo = @ \ {p}, !.made = @ \cup {p},
                            !.view[p] = [id |-> nextId, consent |-> consent, to |-> None]]]
        /\ UNCHANGED <<customer, usable, deleted, opened, ops>>

\* The phone was taken since the snapshot: IntegrityError, nothing is imported.
LineFails(r, p) ==
    /\ req[r].pc = "open" /\ p \in req[r].todo
    /\ req[r].view[p] = None /\ customer[p] # None
    /\ req' = [req EXCEPT ![r] = NoRequest]
    /\ UNCHANGED <<customer, usable, deleted, nextId, opened, ops>>

\* Bug: the import deals also if it has created nobody.
DealsAlways(t) == TRUE

\* An import deals what it has created, and only if it has.
Deals(t) == t.kind = "assign" \/ t.made # {}

\* assign_customers and its flush: the customers dealt to another account are
\* written, if they are still there and so are the accounts.
DealOut(r) ==
    LET t == IF req[r].kind = "import" THEN [req[r] EXCEPT !.ids = @ \cup req[r].made]
             ELSE req[r]
        new == IF Deals(t) THEN Deal(t) ELSE NothingDealt
        written == {p \in DOMAIN new.dealt : t.view[p].to # new.dealt[p]}
        lands == /\ \A p \in written \ t.made :
                       customer[p] # None /\ customer[p].id = t.view[p].id
                 /\ \A p \in written : new.dealt[p] \notin deleted
    IN  /\ t.pc = "open" /\ t.todo = {}
        /\ Unlocked(written, r)
        /\ req' = [req EXCEPT ![r] =
              IF lands THEN [t EXCEPT !.pc = "flushed", !.dealt = Restrict(new.dealt, written),
                                      !.left = new.left]
              ELSE NoRequest]
        /\ UNCHANGED <<customer, usable, deleted, nextId, opened, ops>>

Commit(r) ==
    LET t == req[r]
    IN  /\ t.pc = "flushed"
        /\ customer' = [p \in Phone |->
              LET row == IF p \in t.made THEN t.view[p] ELSE customer[p]
              IN  IF p \in DOMAIN t.dealt THEN [row EXCEPT !.to = t.dealt[p]] ELSE row]
        /\ req' = [Overtaken(Held(t)) EXCEPT ![r] = NoRequest]
        /\ UNCHANGED <<usable, deleted, nextId, opened, ops>>

\* Rolled back by the database, or the process dies.
Fail(r) ==
    /\ req[r].pc # "idle"
    /\ req' = [req EXCEPT ![r] = NoRequest]
    /\ UNCHANGED <<customer, usable, deleted, nextId, opened, ops>>

-----------------------------------------------------------------------------
(* Other requests, one step each                                           *)

Operation == ops < MaxOps /\ ops' = ops + 1

\* PATCH /customers/{id}; the orphan threads and the listener also create some.
UpdateCustomer(p, consent, to) ==
    /\ Operation
    /\ p \in Exists(customer) /\ Unlocked({p}, None)
    /\ to \notin deleted
    /\ customer' = [customer EXCEPT ![p].consent = consent, ![p].to = to]
    /\ req' = Overtaken({p})
    /\ UNCHANGED <<usable, deleted, nextId, opened>>

DeleteCustomer(p) ==
    /\ Operation
    /\ p \in Exists(customer) /\ Unlocked({p}, None)
    /\ customer' = [customer EXCEPT ![p] = None]
    /\ req' = Overtaken({p})
    /\ UNCHANGED <<usable, deleted, nextId, opened>>

\* PATCH /accounts/{id}, the validation, the kill switch of a send.
EditAccount(a) ==
    /\ Operation
    /\ a \notin deleted
    /\ usable' = IF a \in usable THEN usable \ {a} ELSE usable \cup {a}
    /\ UNCHANGED <<customer, deleted, req, nextId, opened>>

\* DELETE /accounts/batch: its customers first; an uncommitted one locks the row.
DeleteAccount(a) ==
    LET mine == {p \in Exists(customer) : customer[p].to = a}
    IN  /\ Operation
        /\ a \notin deleted
        /\ Unlocked(mine, None) /\ \A q \in Request : a \notin Dealt(req[q])
        /\ customer' = [p \in Phone |-> IF p \in mine THEN [customer[p] EXCEPT !.to = None]
                                        ELSE customer[p]]
        /\ deleted' = deleted \cup {a} /\ usable' = usable \ {a}
        /\ req' = Overtaken(mine)
        /\ UNCHANGED <<nextId, opened>>

-----------------------------------------------------------------------------
BookInit ==
    /\ customer = InitialBook
    /\ usable = Account /\ deleted = {}
    /\ req = [r \in Request |-> NoRequest]
    /\ nextId = 1 + Cardinality(Exists(InitialBook))
    /\ opened = 0 /\ ops = 0

Handle(r) ==
    \/ OpenAssign(r) \/ OpenImport(r) \/ DealOut(r) \/ Commit(r) \/ Fail(r)
    \/ \E p \in Phone : Line(r, p) \/ LineFails(r, p)

BookNext ==
    \/ \E r \in Request : Handle(r)
    \/ \E p \in Phone :
          \/ DeleteCustomer(p)
          \/ \E consent \in BOOLEAN, to \in Account \cup {None} : UpdateCustomer(p, consent, to)
    \/ \E a \in Account : EditAccount(a) \/ DeleteAccount(a)

BookSpec == BookInit /\ [][BookNext]_bookVars

-----------------------------------------------------------------------------
(* A request fills an account up to its limit, beyond that only by the     *)
(* customers others brought to it in the meantime: the customers dealt in  *)
(* this request count beside those of the snapshot (assignment.py 68-80).  *)
AssignedWithinCap ==
    [][\A r \in Request :
          LET t == req[r]
          IN  t.pc = "flushed" /\ req'[r].pc = "idle" /\ t.cap # None
              => \A a \in Range(t.dealt) :
                    Load(customer', a) <=
                      t.cap + Cardinality({p \in t.late \cap Exists(customer') :
                                              customer'[p].to = a})]_bookVars

(* Taking turns among unassigned customers is fair in spite of accounts    *)
(* that fill up: none gets two more than another that had room left, and a *)
(* customer stays without one only if all are full (assignment.py 62-85).  *)
EvenShares ==
    \A r \in Request :
        LET t == req[r]
        IN  t.pc = "flushed" /\ t.only =>
              /\ \A a, b \in t.scope :
                    Share(t.dealt, a) <= Share(t.dealt, b) + 1 \/ Full(t, t.dealt, b)
              /\ t.left # {} => \A a \in t.scope : Full(t, t.dealt, a)

(* An import deals nobody but the customers it has created, an assignment  *)
(* nobody without consent and, if so asked, nobody who has an account,     *)
(* except over what others changed meanwhile (customers.py 112-121,        *)
(* assignment.py 52-57).                                                   *)
OnlyTheAsked ==
    [][\A r \in Request, p \in Phone :
          LET t == req[r]
          IN  /\ t.pc = "flushed" /\ req'[r].pc = "idle"
              /\ customer[p] # None /\ customer'[p] # customer[p]
              => \/ p \in t.late
                 \/ /\ t.kind = "assign"
                    /\ t.ids # {} => p \in t.ids
                    /\ customer[p].consent
                    /\ t.only => customer[p].to = None]_bookVars
=============================================================================
