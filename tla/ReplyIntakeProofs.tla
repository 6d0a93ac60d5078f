------------------------- MODULE ReplyIntakeProofs -------------------------
(***************************************************************************)
(* Replies are filed under their sender: an id read before a deletion, a   *)
(* rollback or a lost race for the unique key names nobody else when it is *)
(* used.  What that takes is that AUTO_INCREMENT does not run out.         *)
(***************************************************************************)
EXTENDS ReplyIntake, FiniteSetTheorems, TLAPS

\* There is an id for the next customer.
IdLeft == \E i \in Id : i \notin Used

-----------------------------------------------------------------------------
(* The inductive invariant                                                 *)

\* Customer i is under key k, committed or in an open transaction.
Under(i, k) ==
    \/ cust[k] = i
    \/ \E r \in Request : req[r].own[k] = i
    \/ lis.mine /\ lis.id = i /\ NewKey(lis.msg) = k

\* Somebody is about to file message m under customer i.
Refers(i, m) ==
    \/ lis.msg = m /\ lis.id = i
    \/ \E r \in Request : req[r].tags[m] = i

\* A customer has one key, and whoever refers to it means that key's sender.
IdsInv ==
    \A i \in Id, k \in Key : Under(i, k) =>
        /\ \A l \in Key : Under(i, l) => k = l
        /\ \A m \in Message : Refers(i, m) => k.who = From[m]

\* Who inserts a key holds it alone until the end of the transaction.
KeysInv ==
    /\ lis.mine => /\ cust[NewKey(lis.msg)] = NoId
                   /\ \A r \in Request : req[r].own[NewKey(lis.msg)] = NoId
    /\ \A r \in Request, k \in Key : req[r].own[k] # NoId =>
          /\ cust[k] = NoId
          /\ \A q \in Request \ {r} : req[q].own[k] = NoId

\* A promotion tags the messages of the sender it inserts.
PromoteInv ==
    \A r \in Request : req[r].pc = "promote" =>
        \A p \in req[r].todo, m \in req[r].seen : p[2].who = From[m]

\* Why the listener may come to store message m without a customer, or, its account
\* deleted, not to store it at all.
Excused(m) ==
    From[m] \in deleted \/ m \in Unnamed \/ m \in stumbled \/ To[m] \in gone

\* The listener goes on without a customer only for one of these reasons.
ListenInv ==
    /\ lis.pc # "idle" => lis.msg \in Message
    /\ lis.mine => lis.pc = "commit" /\ lis.id # NoId
    /\ lis.pc = "again" => cust[NewKey(lis.msg)] # NoId \/ Excused(lis.msg)
    /\ lis.pc = "commit" /\ lis.id = NoId => Excused(lis.msg)
    /\ lis.pc = "publish" => lis.msg \in stored

IntakeInv ==
    /\ TypeOK /\ IdsInv /\ KeysInv /\ PromoteInv /\ ListenInv
    /\ BoundToSender /\ OrphansComeFromDeletes
-----------------------------------------------------------------------------
(* Keys and ids                                                            *)

LEMMA KeyFacts ==
    /\ \A s \in Sender : /\ TgKey(s) \in Key /\ TgKey(s).who = s
                         /\ PhoneKey(s) \in Key /\ PhoneKey(s).who = s
    /\ \A m \in Message : /\ From[m] \in Sender /\ To[m] \in Account
                          /\ NewKey(m) \in Key /\ NewKey(m).who = From[m]
BY IntakeAssumption DEF TgKey, PhoneKey, NewKey, Key

LEMMA IdFacts == NoId \notin Id /\ \A i \in MaybeId : i # NoId => i \in Id
BY IntakeAssumption DEF MaybeId

\* What a transaction, or the listener, names is in use.
LEMMA UsedIds ==
    ASSUME TypeOK, NEW i \in Id
    PROVE  /\ \A k \in Key : Under(i, k) => i \in Used
           /\ \A m \in Message : Refers(i, m) => i \in Used
<1>1. i # NoId
  BY IdFacts
<1>2. \A f, x : x \in DOMAIN f /\ f[x] = i => i \in Ids(f)
  BY <1>1 DEF Ids
<1>3. /\ DOMAIN cust = Key
      /\ \A r \in Request : DOMAIN req[r].own = Key /\ DOMAIN req[r].tags = Message
  BY DEF TypeOK, Transaction
<1>4. \A k \in Key : cust[k] = i => i \in Used
  BY <1>2, <1>3 DEF Used
<1>5. \A r \in Request : i \in Ids(req[r].tags) \cup Ids(req[r].own) => i \in Used
  BY DEF Used
<1>6. \A r \in Request, k \in Key : req[r].own[k] = i => i \in Used
  BY <1>2, <1>3, <1>5
<1>7. \A r \in Request, m \in Message : req[r].tags[m] = i => i \in Used
  BY <1>2, <1>3, <1>5
<1>8. lis.id = i => i \in Used
  BY DEF Used
<1>9. QED
  BY <1>4, <1>6, <1>7, <1>8 DEF Under, Refers

LEMMA NewIdFree ==
    ASSUME TypeOK, IdLeft
    PROVE  /\ NewId \in Id /\ NewId # NoId
           /\ \A k \in Key : ~Under(NewId, k)
           /\ \A m \in Message : ~Refers(NewId, m)
<1>1. NewId \in Id /\ NewId \notin Used
  BY DEF NewId, IdLeft
<1>2. QED
  BY <1>1, UsedIds, IdFacts

\* A step keeps IdsInv if the only new id it hands out goes under key K, and
\* whoever refers to an id anew has it from that key or from one in the tables.
Named(K) ==
    /\ \A i \in Id, k \in Key : Under(i, k)' => Under(i, k) \/ (i = NewId /\ k = K)
    /\ \A i \in Id, m \in Message : Refers(i, m)' =>
          \/ Refers(i, m)
          \/ i = NewId /\ K.who = From[m]
          \/ \E k \in Key : Under(i, k) /\ k.who = From[m]

LEMMA IdsStep ==
    ASSUME TypeOK, IdLeft, IdsInv, NEW K, Named(K)
    PROVE  IdsInv'
<1> SUFFICES ASSUME NEW i \in Id, NEW k \in Key, Under(i, k)'
             PROVE  /\ \A l \in Key : Under(i, l)' => k = l
                    /\ \A m \in Message : Refers(i, m)' => k.who = From[m]
  BY DEF IdsInv
<1>1. CASE i = NewId
  <2>1. \A l \in Key : Under(i, l)' => l = K
    BY <1>1, NewIdFree DEF Named
  <2>2. \A m \in Message : Refers(i, m)' => K.who = From[m]
    BY <1>1, NewIdFree DEF Named
  <2>3. QED
    BY <2>1, <2>2
<1>2. CASE i # NewId
  <2>1. \A l \in Key : Under(i, l)' => Under(i, l)
    BY <1>2 DEF Named
  <2>2. Under(i, k)
    BY <2>1
  <2>3. \A l \in Key : Under(i, l) => k = l
    BY <2>2 DEF IdsInv
  <2>4. \A m \in Message : Refers(i, m) => k.who = From[m]
    BY <2>2 DEF IdsInv
  <2>5. \A m \in Message : Refers(i, m)' =>
           Refers(i, m) \/ \E l \in Key : Under(i, l) /\ l.who = From[m]
    BY <1>2 DEF Named
  <2>6. QED
    BY <2>1, <2>3, <2>4, <2>5
<1>3. QED
  BY <1>1, <1>2

-----------------------------------------------------------------------------
(* The requests                                                            *)

\* Request r's transaction becomes u: it inserts nothing but key K, and tags a
\* message with a customer of its sender, committed or under K.
Turn(r, u, K) ==
    /\ req' = [req EXCEPT ![r] = u]
    /\ \A k \in Key :
          \/ u.own[k] = NoId \/ u.own[k] = req[r].own[k]
          \/ k = K /\ u.own[k] = NewId /\ cust[k] = NoId /\ KeyFree(r, k)
    /\ \A m \in Message :
          \/ u.tags[m] = NoId \/ u.tags[m] = req[r].tags[m]
          \/ \E k \in Key : cust[k] = u.tags[m] /\ k.who = From[m]
          \/ u.tags[m] = NewId /\ K.who = From[m]
    /\ u.pc = "promote" => \A p \in u.todo, m \in u.seen : p[2].who = From[m]

Elsewhere == UNCHANGED <<cust, stored, bound, pending, lis, published, gone,
                         deleted, stumbled, deletes>>

LEMMA TurnStep ==
    ASSUME IntakeInv, IdLeft, Elsewhere, faults' \in Nat,
           NEW r \in Request, NEW u \in Transaction, NEW K, Turn(r, u, K)
    PROVE  IntakeInv'
<1> USE DEF IntakeInv
<1>1. /\ req \in [Request -> Transaction] /\ req' \in [Request -> Transaction]
      /\ req'[r] = u /\ \A q \in Request \ {r} : req'[q] = req[q]
  BY DEF Turn, TypeOK
<1>2. TypeOK'
  BY <1>1 DEF TypeOK, Elsewhere
<1>3. IdsInv'
  <2>1. ASSUME NEW i \in Id, NEW k \in Key, Under(i, k)'
        PROVE  Under(i, k) \/ (i = NewId /\ k = K)
    BY <1>1, <2>1, IdFacts DEF Under, Turn, Elsewhere
  <2>2. ASSUME NEW i \in Id, NEW m \in Message, Refers(i, m)'
        PROVE  \/ Refers(i, m)
               \/ i = NewId /\ K.who = From[m]
               \/ \E k \in Key : Under(i, k) /\ k.who = From[m]
    <3>1. CASE lis.msg = m /\ lis.id = i
      BY <3>1 DEF Refers
    <3>2. ASSUME NEW q \in Request, req'[q].tags[m] = i
          PROVE  \/ Refers(i, m)
                 \/ i = NewId /\ K.who = From[m]
                 \/ \E k \in Key : Under(i, k) /\ k.who = From[m]
      <4>1. CASE q # r
        BY <1>1, <3>2, <4>1 DEF Refers
      <4>2. CASE q = r
        <5>1. u.tags[m] = i /\ i # NoId
          BY <1>1, <3>2, <4>2, IdFacts
        <5>2. CASE req[r].tags[m] = i
          BY <5>2 DEF Refers
        <5>3. CASE \E k \in Key : cust[k] = i /\ k.who = From[m]
          BY <5>3 DEF Under
        <5>4. QED
          BY <5>1, <5>2, <5>3 DEF Turn
      <4>3. QED
        BY <4>1, <4>2
    <3>3. QED
      BY <2>2, <3>1, <3>2 DEF Refers, Elsewhere
  <2>3. Named(K)
    BY <2>1, <2>2 DEF Named
  <2>4. QED
    BY <2>3, IdsStep
<1>4. KeysInv'
  <2>1. ASSUME NEW k \in Key, u.own[k] # NoId
        PROVE  /\ cust[k] = NoId /\ \A q \in Request \ {r} : req[q].own[k] = NoId
               /\ ~(lis.mine /\ NewKey(lis.msg) = k)
    BY <2>1 DEF Turn, KeyFree, KeysInv
  <2>2. ASSUME lis.mine
        PROVE  /\ cust[NewKey(lis.msg)] = NoId
               /\ \A q \in Request : req'[q].own[NewKey(lis.msg)] = NoId
    <3>1. NewKey(lis.msg) \in Key
      BY <2>2, KeyFacts DEF ListenInv
    <3>2. QED
      BY <1>1, <2>1, <2>2, <3>1 DEF KeysInv
  <2>3. ASSUME NEW q \in Request, NEW k \in Key, req'[q].own[k] # NoId
        PROVE  cust[k] = NoId /\ \A o \in Request \ {q} : req'[o].own[k] = NoId
    <3>1. CASE q = r
      BY <1>1, <2>1, <2>3, <3>1
    <3>2. CASE q # r
      BY <1>1, <2>1, <2>3, <3>2 DEF KeysInv
    <3>3. QED
      BY <3>1, <3>2
  <2>4. QED
    BY <2>2, <2>3 DEF KeysInv, Elsewhere
<1>5. PromoteInv'
  BY <1>1 DEF PromoteInv, Turn
<1>6. ListenInv' /\ BoundToSender' /\ OrphansComeFromDeletes'
  BY DEF ListenInv, Excused, BoundToSender, OrphansComeFromDeletes, Orphans, Elsewhere
<1>7. QED
  BY <1>2, <1>3, <1>4, <1>5, <1>6
LEMMA ClosedTurn ==
    /\ Closed \in Transaction
    /\ \A r \in Request : \A K : req' = [req EXCEPT ![r] = Closed] => Turn(r, Closed, K)
BY DEF Closed, Transaction, MaybeId, Turn

\* The tags a request sets on the messages M.
LEMMA TagFacts ==
    \A tags, M, i : \A m \in Message : Tag(tags, M, i)[m] = IF m \in M THEN i ELSE tags[m]
BY DEF Tag

\* Both ways of opening a request.
LEMMA OpenStep ==
    ASSUME IntakeInv, IdLeft, NEW r \in Request,
           OpenRescan(r) \/ \E m \in Message : OpenPromote(r, m)
    PROVE  IntakeInv'
<1>1. TypeOK
  BY DEF IntakeInv
<1>2. CASE OpenRescan(r)
  <2> DEFINE found == [m \in Message |-> IF m \in Findable THEN cust[TgKey(From[m])] ELSE NoId]
             left  == {m \in Findable : found[m] = NoId /\ To[m] \notin gone}
             todo  == {<<To[m], TgKey(From[m])>> : m \in left}
             u     == [Closed EXCEPT !.pc = "rescan", !.seen = Findable, !.tags = found,
                                     !.todo = todo]
  <2>1. found \in [Message -> MaybeId] /\ Findable \subseteq Message
    BY <1>1, KeyFacts DEF TypeOK, MaybeId, Findable, Orphans
  <2>2. \A m \in Message : \/ found[m] = NoId
                           \/ \E k \in Key : cust[k] = found[m] /\ k.who = From[m]
    BY KeyFacts
  <2>3. todo \subseteq Account \X Key
    <3>1. \A m \in left : To[m] \in Account /\ TgKey(From[m]) \in Key
      BY <2>1, KeyFacts
    <3> SUFFICES ASSUME NEW p \in todo PROVE p \in Account \X Key
      OBVIOUS
    <3>2. PICK m \in left : p = <<To[m], TgKey(From[m])>>
      OBVIOUS
    <3>3. QED
      BY <3>1, <3>2
  <2>4. req' = [req EXCEPT ![r] = u] /\ Elsewhere /\ faults' = faults
    BY <1>2 DEF OpenRescan, Elsewhere, ghosts
  <2> HIDE DEF found, left, todo
  <2>5. /\ u.pc = "rescan" /\ u.tags = found /\ \A k \in Key : u.own[k] = NoId
        /\ u \in Transaction
    BY <2>1, <2>3, ClosedTurn DEF Closed, Transaction
  <2> HIDE DEF u
  <2>6. Turn(r, u, NoId)
    BY <2>2, <2>4, <2>5 DEF Turn
  <2>7. QED
    BY <1>1, <2>4, <2>5, <2>6, TurnStep DEF TypeOK
<1>3. ASSUME NEW m \in Message, OpenPromote(r, m)
      PROVE  IntakeInv'
  <2> DEFINE seen == {n \in Findable : From[n] = From[m] /\ To[n] = To[m]}
             todo == {<<To[m], NewKey(m)>>}
             u    == [Closed EXCEPT !.pc = "promote", !.todo = todo, !.seen = seen]
  <2>1. seen \subseteq Message /\ todo \subseteq Account \X Key
    BY <1>1, KeyFacts DEF TypeOK, Findable, Orphans
  <2>2. \A p \in todo, n \in seen : p[2].who = From[n]
    BY KeyFacts
  <2>3. req' = [req EXCEPT ![r] = u] /\ Elsewhere /\ faults' = faults
    BY <1>3 DEF OpenPromote, Elsewhere, ghosts
  <2> HIDE DEF seen, todo
  <2>4. /\ u.todo = todo /\ u.seen = seen /\ \A k \in Key : u.own[k] = NoId
        /\ \A n \in Message : u.tags[n] = NoId
        /\ u \in Transaction
    BY <2>1, ClosedTurn DEF Closed, Transaction
  <2> HIDE DEF u
  <2>5. Turn(r, u, NoId)
    BY <2>2, <2>3, <2>4 DEF Turn
  <2>6. QED
    BY <1>1, <2>3, <2>4, <2>5, TurnStep DEF TypeOK
<1>4. QED
  BY <1>2, <1>3

LEMMA PromoteStep ==
    ASSUME IntakeInv, IdLeft, NEW r \in Request, NEW p \in Account \X Key,
           PromoteSender(r, p) \/ PromoteFails(r, p) \/ InsertPromoted(r, p)
    PROVE  IntakeInv'
<1> DEFINE t == req[r]
           k == p[2]
<1>1. /\ TypeOK /\ PromoteInv /\ t \in Transaction /\ k \in Key
      /\ NewId \in MaybeId /\ cust[k] \in MaybeId
  BY NewIdFree DEF IntakeInv, TypeOK, MaybeId
<1>2. Elsewhere /\ faults' = faults
  BY DEF PromoteSender, PromoteFails, InsertPromoted, Elsewhere, ghosts
<1>3. \A m \in Thread(t, p) : k.who = From[m]
  <2> SUFFICES ASSUME NEW m \in Thread(t, p) PROVE k.who = From[m]
    OBVIOUS
  <2>1. m \in Message /\ k = TgKey(From[m])
    BY <1>1 DEF Thread, Transaction
  <2>2. QED
    BY <2>1, KeyFacts
<1>4. CASE PromoteSender(r, p)
  <2> DEFINE i == NewId
             tags == Tag(t.tags, Thread(t, p), i)
             u == [t EXCEPT !.todo = @ \ {p}, !.own[k] = i, !.held = Tagged(t), !.tags = tags]
  <2>1. /\ req' = [req EXCEPT ![r] = u] /\ t.pc = "rescan" /\ KeyFree(r, k)
        /\ cust[k] = NoId
    BY <1>4 DEF PromoteSender
  <2>2. tags \in [Message -> MaybeId] /\ Tagged(t) \subseteq Message
    BY <1>1 DEF Tag, Tagged, Transaction
  <2>3. \A m \in Message : tags[m] = IF m \in Thread(t, p) THEN i ELSE t.tags[m]
    BY TagFacts
  <2> HIDE DEF tags, i
  <2>4. /\ u.pc = "rescan" /\ u.tags = tags
        /\ \A l \in Key : u.own[l] = IF l = k THEN i ELSE t.own[l]
        /\ u \in Transaction
    BY <1>1, <2>1, <2>2 DEF Transaction, i
  <2> HIDE DEF u
  <2>5. Turn(r, u, k)
    BY <1>3, <2>1, <2>3, <2>4 DEF Turn, i
  <2>6. QED
    BY <1>1, <1>2, <2>4, <2>5, TurnStep DEF TypeOK
<1>5. CASE PromoteFails(r, p)
  <2> DEFINE tags == Tag(Closed.tags, Thread(t, p), cust[k])
             u == [Closed EXCEPT !.pc = "rescan", !.seen = t.seen, !.todo = t.todo \ {p},
                                 !.tags = tags]
  <2>1. req' = [req EXCEPT ![r] = u]
    BY <1>5 DEF PromoteFails, Closed
  <2>2. tags \in [Message -> MaybeId]
    BY <1>1, ClosedTurn DEF Tag, Transaction
  <2>3. \A m \in Message : tags[m] = IF m \in Thread(t, p) THEN cust[k] ELSE NoId
    BY TagFacts DEF Closed
  <2> HIDE DEF tags
  <2>4. /\ u.pc = "rescan" /\ u.tags = tags /\ \A l \in Key : u.own[l] = NoId
        /\ u \in Transaction
    BY <1>1, <2>2, ClosedTurn DEF Closed, Transaction
  <2> HIDE DEF u
  <2>5. Turn(r, u, k)
    BY <1>1, <1>3, <2>1, <2>3, <2>4 DEF Turn
  <2>6. QED
    BY <1>1, <1>2, <2>4, <2>5, TurnStep DEF TypeOK
<1>6. CASE InsertPromoted(r, p) /\ (cust[k] # NoId \/ p[1] \in gone)
  <2>1. req' = [req EXCEPT ![r] = Closed]
    BY <1>6 DEF InsertPromoted
  <2>2. QED
    BY <1>1, <1>2, <2>1, ClosedTurn, TurnStep DEF TypeOK
<1>7. CASE InsertPromoted(r, p) /\ cust[k] = NoId /\ p[1] \notin gone
  <2> DEFINE i == NewId
             tags == Tag(t.tags, t.seen, i)
             u == [t EXCEPT !.pc = "commit", !.todo = {}, !.own[k] = i, !.tags = tags]
  <2>1. /\ req' = [req EXCEPT ![r] = u] /\ t.pc = "promote" /\ p \in t.todo /\ KeyFree(r, k)
    BY <1>7 DEF InsertPromoted
  <2>2. tags \in [Message -> MaybeId]
    BY <1>1 DEF Tag, Transaction
  <2>3. \A m \in Message : tags[m] = IF m \in t.seen THEN i ELSE t.tags[m]
    BY TagFacts
  <2>4. \A m \in t.seen : k.who = From[m]
    BY <1>1, <2>1 DEF PromoteInv
  <2> HIDE DEF tags, i
  <2>5. /\ u.pc = "commit" /\ u.tags = tags
        /\ \A l \in Key : u.own[l] = IF l = k THEN i ELSE t.own[l]
        /\ u \in Transaction
    BY <1>1, <2>1, <2>2 DEF Transaction, i
  <2> HIDE DEF u
  <2>6. Turn(r, u, k)
    BY <1>7, <2>1, <2>3, <2>4, <2>5 DEF Turn, i
  <2>7. QED
    BY <1>1, <1>2, <2>5, <2>6, TurnStep DEF TypeOK
<1>8. QED
  BY <1>4, <1>5, <1>6, <1>7

LEMMA FailStep ==
    ASSUME IntakeInv, IdLeft, NEW r \in Request, Fail(r)
    PROVE  IntakeInv'
<1>1. req' = [req EXCEPT ![r] = Closed] /\ Elsewhere /\ faults' \in Nat
  BY DEF Fail, Elsewhere, ghosts, IntakeInv, TypeOK
<1>2. QED
  BY <1>1, ClosedTurn, TurnStep

LEMMA CommitStep ==
    ASSUME IntakeInv, IdLeft, NEW r \in Request, CommitTags(r)
    PROVE  IntakeInv'
<1> DEFINE t == req[r]
<1> USE DEF IntakeInv
<1>1. /\ UNCHANGED <<stored, pending, lis, published, gone, deleted, stumbled, deletes, faults>>
      /\ req' = [req EXCEPT ![r] = Closed]
      /\ t \in Transaction
  BY DEF CommitTags, TypeOK, ghosts
<1>2. CASE ~KeysHold(t)
  <2>1. Elsewhere
    BY <1>1, <1>2 DEF CommitTags, Elsewhere
  <2>2. QED
    BY <1>1, <2>1, ClosedTurn, TurnStep DEF TypeOK
<1>3. CASE KeysHold(t)
  <2>1. /\ bound' = [m \in Message |-> IF m \in Tagged(t) THEN t.tags[m] ELSE bound[m]]
        /\ cust' = [k \in Key |-> IF t.own[k] # NoId THEN t.own[k] ELSE cust[k]]
    BY <1>3 DEF CommitTags
  <2>2. /\ \A k \in Key : req'[r].own[k] = NoId
        /\ \A m \in Message : req'[r].tags[m] = NoId
        /\ req'[r].pc = "idle"
        /\ \A q \in Request \ {r} : req'[q] = req[q]
        /\ req' \in [Request -> Transaction]
    BY <1>1, ClosedTurn DEF Closed, TypeOK
  <2>3. TypeOK'
    BY <1>1, <2>1, <2>2 DEF TypeOK, Transaction, Tagged
  <2>4. \A k \in Key : t.own[k] # NoId => cust[k] = NoId
    BY DEF KeysInv
  <2>5. \A k \in Key : /\ cust[k] # NoId => cust'[k] = cust[k]
                       /\ t.own[k] # NoId => cust'[k] = t.own[k]
                       /\ cust'[k] = cust[k] \/ cust'[k] = t.own[k]
    BY <2>1, <2>4
  <2>6. IdsInv'
    <3>1. \A i \in Id, k \in Key : Under(i, k)' => Under(i, k)
      <4> SUFFICES ASSUME NEW i \in Id, NEW k \in Key, Under(i, k)'
                   PROVE  Under(i, k)
        OBVIOUS
      <4>1. CASE cust'[k] = i
        BY <2>5, <4>1 DEF Under
      <4>2. ASSUME NEW q \in Request, req'[q].own[k] = i
            PROVE  Under(i, k)
        BY <2>2, <4>2, IdFacts DEF Under
      <4>3. QED
        BY <1>1, <4>1, <4>2 DEF Under
    <3>2. \A i \in Id, m \in Message : Refers(i, m)' => Refers(i, m)
      <4> SUFFICES ASSUME NEW i \in Id, NEW m \in Message, Refers(i, m)'
                   PROVE  Refers(i, m)
        OBVIOUS
      <4>1. ASSUME NEW q \in Request, req'[q].tags[m] = i
            PROVE  Refers(i, m)
        BY <2>2, <4>1, IdFacts DEF Refers
      <4>2. QED
        BY <1>1, <4>1 DEF Refers
    <3>3. Named(NoId)
      BY <3>1, <3>2 DEF Named
    <3>4. QED
      BY <3>3, IdsStep
  <2>7. KeysInv'
    <3>1. ASSUME lis.mine
          PROVE  /\ cust'[NewKey(lis.msg)] = NoId
                 /\ \A q \in Request : req'[q].own[NewKey(lis.msg)] = NoId
      <4>1. NewKey(lis.msg) \in Key
        BY <3>1, KeyFacts DEF ListenInv
      <4>2. QED
        BY <2>2, <2>5, <3>1, <4>1 DEF KeysInv
    <3>2. ASSUME NEW q \in Request, NEW k \in Key, req'[q].own[k] # NoId
          PROVE  cust'[k] = NoId /\ \A o \in Request \ {q} : req'[o].own[k] = NoId
      BY <2>2, <2>5, <3>2 DEF KeysInv
    <3>3. QED
      BY <1>1, <3>1, <3>2 DEF KeysInv
  <2>8. PromoteInv'
    BY <2>2 DEF PromoteInv
  <2>9. ListenInv'
    <3>1. lis.pc = "again" => cust'[NewKey(lis.msg)] # NoId \/ Excused(lis.msg)
      <4>1. lis.pc = "again" => NewKey(lis.msg) \in Key
        BY KeyFacts DEF ListenInv
      <4>2. QED
        BY <2>5, <4>1 DEF ListenInv
    <3>2. QED
      BY <1>1, <3>1 DEF ListenInv, Excused
  <2>10. BoundToSender'
    <3> SUFFICES ASSUME NEW m \in Message, bound'[m] # NoId
                 PROVE  \E k \in Key : cust'[k] = bound'[m] /\ k.who = From[m]
      BY DEF BoundToSender
    <3>1. CASE m \in Tagged(t)
      <4> DEFINE i == t.tags[m]
      <4>1. bound'[m] = i /\ i \in Ids(t.tags) /\ i \in Id
        BY <1>1, <2>1, <3>1, IdFacts DEF Ids, Tagged, Transaction
      <4>2. PICK k \in Key : cust[k] = i \/ t.own[k] = i
        BY <1>1, <1>3, <4>1 DEF KeysHold, Ids, TypeOK, Transaction
      <4>3. Under(i, k) /\ Refers(i, m)
        BY <4>2 DEF Under, Refers
      <4>4. k.who = From[m]
        BY <4>1, <4>3 DEF IdsInv
      <4>5. cust'[k] = i
        BY <2>5, <4>1, <4>2, IdFacts
      <4>6. QED
        BY <4>1, <4>4, <4>5
    <3>2. CASE m \notin Tagged(t)
      <4>1. bound'[m] = bound[m]
        BY <2>1, <3>2
      <4>2. PICK k \in Key : cust[k] = bound[m] /\ k.who = From[m]
        BY <4>1 DEF BoundToSender
      <4>3. QED
        BY <2>5, <4>1, <4>2
    <3>3. QED
      BY <3>1, <3>2
  <2>11. OrphansComeFromDeletes'
    <3>1. Orphans' \subseteq Orphans
      BY <1>1, <2>1, <2>3 DEF Orphans, Tagged, TypeOK
    <3>2. QED
      BY <1>1, <3>1 DEF OrphansComeFromDeletes
  <2>12. QED
    BY <2>3, <2>6, <2>7, <2>8, <2>9, <2>10, <2>11
<1>4. QED
  BY <1>2, <1>3
-----------------------------------------------------------------------------
(* The listener and the deletions                                          *)

\* Excused after a step that deletes nothing.
Stays(m) == From[m] \in deleted \/ m \in Unnamed \/ m \in stumbled' \/ To[m] \in gone

\* A step of the handler that touches nothing but its own state and pending, and
\* matches the message it works on with a customer of the sender, if any.

Turns(u) ==
    /\ lis' = u /\ u \in Handler /\ pending' \subseteq Message
    /\ UNCHANGED <<cust, stored, bound, req, published, gone, deleted, deletes>>
    /\ stumbled \subseteq stumbled' /\ stumbled' \subseteq Message
    /\ u.pc # "idle" => u.msg \in Message
    /\ \/ u.id = NoId
       \/ u.msg = lis.msg /\ u.id = lis.id
       \/ \E k \in Key : cust[k] = u.id /\ k.who = From[u.msg]
       \/ u.id = NewId /\ u.mine
    /\ u.mine =>
          /\ u.pc = "commit" /\ u.id = NewId
          /\ cust[NewKey(u.msg)] = NoId
          /\ \A r \in Request : req[r].own[NewKey(u.msg)] = NoId
    /\ u.pc = "again" => cust[NewKey(u.msg)] # NoId \/ Stays(u.msg)
    /\ u.pc = "commit" /\ u.id = NoId => Stays(u.msg)
    /\ u.pc # "publish"

LEMMA TurnsStep ==
    ASSUME IntakeInv, IdLeft, faults' \in Nat, NEW u, Turns(u)
    PROVE  IntakeInv'
<1> USE DEF IntakeInv
<1>1. TypeOK'
  BY DEF TypeOK, Turns
<1>2. u.mine => u.msg \in Message
  BY DEF Turns
<1>3. IdsInv'
  <2> DEFINE K == NewKey(u.msg)
  <2>1. ASSUME NEW i \in Id, NEW k \in Key, Under(i, k)'
        PROVE  Under(i, k) \/ (i = NewId /\ k = K)
    BY <2>1 DEF Under, Turns
  <2>2. ASSUME NEW i \in Id, NEW m \in Message, Refers(i, m)'
        PROVE  \/ Refers(i, m)
               \/ i = NewId /\ K.who = From[m]
               \/ \E k \in Key : Under(i, k) /\ k.who = From[m]
    <3>1. CASE \E r \in Request : req[r].tags[m] = i
      BY <3>1 DEF Refers
    <3>2. CASE u.msg = m /\ u.id = i
      <4>1. CASE u.msg = lis.msg /\ u.id = lis.id
        BY <3>2, <4>1 DEF Refers
      <4>2. CASE \E k \in Key : cust[k] = u.id /\ k.who = From[u.msg]
        BY <3>2, <4>2 DEF Under
      <4>3. CASE u.id = NewId /\ u.mine
        BY <3>2, <4>3, KeyFacts
      <4>4. QED
        BY <3>2, <4>1, <4>2, <4>3, IdFacts DEF Turns
    <3>3. QED
      BY <2>2, <3>1, <3>2 DEF Refers, Turns
  <2> HIDE DEF K
  <2>3. Named(K)
    BY <2>1, <2>2 DEF Named
  <2>4. QED
    BY <2>3, IdsStep
<1>4. KeysInv' /\ PromoteInv'
  BY DEF KeysInv, PromoteInv, Turns
<1>5. ListenInv'
  <2>1. Stays(u.msg) = Excused(lis.msg)'
    BY DEF Turns, Excused, Stays
  <2>2. QED
    BY <2>1, NewIdFree DEF ListenInv, Turns
<1>6. BoundToSender' /\ OrphansComeFromDeletes'
  BY DEF BoundToSender, OrphansComeFromDeletes, Orphans, Turns
<1>7. QED
  BY <1>1, <1>3, <1>4, <1>5, <1>6

LEMMA HandlerStep ==
    ASSUME IntakeInv, IdLeft,
           \/ \E m \in Message : Receive(m)
           \/ InsertCustomer \/ InsertFails \/ LookAgain \/ CrashListener
    PROVE  IntakeInv'
<1>1. /\ TypeOK /\ ListenInv /\ lis \in Handler /\ lis.id \in MaybeId
      /\ pending \subseteq Message /\ stumbled \subseteq Message
      /\ faults \in Nat /\ NewId \in MaybeId
      /\ \A k \in Key : cust[k] \in MaybeId
  BY NewIdFree DEF IntakeInv, TypeOK, Handler, MaybeId
<1>2. ASSUME NEW m \in Message, Receive(m)
      PROVE  IntakeInv'
  <2> DEFINE u == [pc |-> IF Match(m) = NoId /\ m \notin Unnamed THEN "insert" ELSE "commit",
                   msg |-> m, id |-> Match(m), mine |-> FALSE]
  <2>1. \/ Match(m) = NoId
        \/ \E k \in Key : cust[k] = Match(m) /\ k.who = From[m]
    BY KeyFacts DEF Match
  <2>2. Match(m) \in MaybeId
    BY <1>1, <2>1 DEF MaybeId
  <2>3. u \in Handler
    BY <2>2 DEF Handler
  <2>4. /\ lis' = u /\ pending' \subseteq Message /\ faults' = faults
        /\ UNCHANGED <<cust, stored, bound, req, published, gone, deleted, stumbled, deletes>>
    BY <1>1, <1>2 DEF Receive, ghosts
  <2>5. u.pc = "commit" /\ u.id = NoId => Stays(u.msg)
    BY <2>4 DEF Stays
  <2>6. Turns(u)
    BY <1>1, <2>1, <2>3, <2>4, <2>5 DEF Turns
  <2>7. QED
    BY <1>1, <2>4, <2>6, TurnsStep
<1>3. CASE InsertCustomer /\ cust[NewKey(lis.msg)] = NoId /\ To[lis.msg] \notin gone
  <2> DEFINE u == [lis EXCEPT !.pc = "commit", !.id = NewId, !.mine = TRUE]
  <2>1. /\ lis' = u /\ lis.pc = "insert" /\ pending' = pending /\ faults' = faults
        /\ UNCHANGED <<cust, stored, bound, req, published, gone, deleted, stumbled, deletes>>
        /\ \A r \in Request : req[r].own[NewKey(lis.msg)] = NoId
    BY <1>3 DEF InsertCustomer, ghosts
  <2>2. /\ u \in Handler /\ u.msg = lis.msg /\ u.pc = "commit" /\ u.id = NewId
        /\ u.mine /\ lis.msg \in Message
    BY <1>1, <2>1 DEF Handler, ListenInv
  <2> HIDE DEF u
  <2>3. Turns(u)
    BY <1>1, <1>3, <2>1, <2>2, NewIdFree DEF Turns
  <2>4. QED
    BY <1>1, <2>1, <2>3, TurnsStep
<1>4. CASE InsertCustomer /\ (cust[NewKey(lis.msg)] # NoId \/ To[lis.msg] \in gone)
  <2> DEFINE u == [lis EXCEPT !.pc = "again"]
  <2>1. /\ lis' = u /\ lis.pc = "insert" /\ pending' = pending /\ faults' = faults
        /\ UNCHANGED <<cust, stored, bound, req, published, gone, deleted, stumbled, deletes>>
    BY <1>4 DEF InsertCustomer, ghosts
  <2>2. /\ u \in Handler /\ u.msg = lis.msg /\ u.pc = "again" /\ u.id = lis.id
        /\ ~u.mine /\ lis.msg \in Message
    BY <1>1, <2>1 DEF Handler, ListenInv
  <2> HIDE DEF u
  <2>3. cust[NewKey(u.msg)] # NoId \/ Stays(u.msg)
    BY <1>4, <2>1, <2>2 DEF Stays
  <2>4. Turns(u)
    BY <1>1, <2>1, <2>2, <2>3 DEF Turns
  <2>5. QED
    BY <1>1, <2>1, <2>4, TurnsStep
<1>5. CASE LookAgain
  <2> DEFINE k == NewKey(lis.msg)
             u == [lis EXCEPT !.pc = "commit", !.id = cust[k]]
  <2>1. /\ lis' = u /\ lis.pc = "again" /\ pending' = pending /\ faults' = faults
        /\ UNCHANGED <<cust, stored, bound, req, published, gone, deleted, stumbled, deletes>>
    BY <1>5 DEF LookAgain, ghosts
  <2>2. k \in Key /\ k.who = From[lis.msg] /\ lis.msg \in Message
    BY <1>1, <2>1, KeyFacts DEF ListenInv
  <2>3. cust[k] # NoId \/ Stays(lis.msg)
    BY <1>1, <2>1 DEF ListenInv, Excused, Stays
  <2> HIDE DEF k
  <2>4. /\ u \in Handler /\ u.msg = lis.msg /\ u.pc = "commit" /\ u.id = cust[k] /\ ~u.mine
    BY <1>1, <2>1, <2>2 DEF Handler, ListenInv
  <2> HIDE DEF u
  <2>5. Turns(u)
    BY <1>1, <2>1, <2>2, <2>3, <2>4 DEF Turns
  <2>6. QED
    BY <1>1, <2>1, <2>5, TurnsStep
<1>6. CASE CrashListener
  <2>1. /\ lis' = Quiet /\ faults' \in Nat /\ pending' \subseteq Message
        /\ UNCHANGED <<cust, stored, bound, req, published, gone, deleted, stumbled, deletes>>
    BY <1>1, <1>6 DEF CrashListener, ghosts
  <2>2. Quiet \in Handler
    BY DEF Quiet, Handler, MaybeId
  <2>3. Turns(Quiet)
    BY <1>1, <2>1, <2>2 DEF Turns, Quiet
  <2>4. QED
    BY <2>1, <2>3, TurnsStep
<1>7. CASE InsertFails
  <2> DEFINE u == [lis EXCEPT !.pc = "again"]
  <2>1. /\ lis' = u /\ lis.pc = "insert" /\ pending' = pending /\ faults' \in Nat
        /\ UNCHANGED <<cust, stored, bound, req, published, gone, deleted, deletes>>
        /\ stumbled' = stumbled \cup {lis.msg}
    BY <1>1, <1>7 DEF InsertFails
  <2>2. /\ u \in Handler /\ u.msg = lis.msg /\ u.pc = "again" /\ u.id = lis.id
        /\ ~u.mine /\ lis.msg \in Message
    BY <1>1, <2>1 DEF Handler, ListenInv
  <2> HIDE DEF u
  <2>3. Stays(u.msg)
    BY <2>1, <2>2 DEF Stays
  <2>4. Turns(u)
    BY <1>1, <2>1, <2>2, <2>3 DEF Turns
  <2>5. QED
    BY <2>1, <2>4, TurnsStep
<1>8. QED
  BY <1>2, <1>3, <1>4, <1>5, <1>6, <1>7

LEMMA PublishStep ==
    ASSUME IntakeInv, IdLeft, PublishReply
    PROVE  IntakeInv'
<1> USE DEF IntakeInv
<1>1. /\ lis.pc = "publish" /\ lis.msg \in stored /\ lis.msg \in Message
      /\ lis' = Quiet /\ published' = published \cup {lis.msg}
      /\ UNCHANGED <<cust, stored, bound, pending, req, gone, deleted, stumbled, deletes, faults>>
  BY DEF PublishReply, ListenInv, ghosts
<1>2. Quiet \in Handler
  BY DEF Quiet, Handler, MaybeId
<1>3. TypeOK'
  BY <1>1, <1>2 DEF TypeOK
<1>4. IdsInv'
  <2>1. \A i \in Id, k \in Key : Under(i, k)' => Under(i, k)
    BY <1>1 DEF Under, Quiet
  <2>2. \A i \in Id, m \in Message : Refers(i, m)' => Refers(i, m)
    BY <1>1, IdFacts DEF Refers, Quiet
  <2>3. Named(NoId)
    BY <2>1, <2>2 DEF Named
  <2>4. QED
    BY <2>3, IdsStep
<1>5. KeysInv' /\ PromoteInv' /\ ListenInv'
  BY <1>1 DEF KeysInv, PromoteInv, ListenInv, Quiet
<1>6. BoundToSender' /\ OrphansComeFromDeletes'
  BY <1>1 DEF BoundToSender, OrphansComeFromDeletes, Orphans
<1>7. QED
  BY <1>3, <1>4, <1>5, <1>6

LEMMA PersistStep ==
    ASSUME IntakeInv, IdLeft, PersistReply
    PROVE  IntakeInv'
<1> DEFINE m == lis.msg
           i == lis.id
<1> USE DEF IntakeInv
<1>1. /\ lis.pc = "commit" /\ m \in Message /\ NewKey(m) \in Key /\ NewKey(m).who = From[m]
      /\ i = NoId => Excused(m)
      /\ i # NoId => i \in Id
      /\ UNCHANGED <<pending, req, published, gone, deleted, stumbled, deletes, faults>>
  BY IdFacts, KeyFacts DEF PersistReply, ListenInv, TypeOK, Handler, ghosts
<1>2. CASE lis' = Quiet /\ UNCHANGED <<cust, stored, bound>>
  <2>1. Turns(Quiet)
    BY <1>1, <1>2 DEF Turns, Quiet, Handler, MaybeId, TypeOK
  <2>2. QED
    BY <1>1, <2>1, TurnsStep DEF TypeOK
<1>3. CASE To[m] \notin gone /\ (lis.mine \/ i \in Ids(cust) \cup {NoId})
  <2> DEFINE u == [lis EXCEPT !.pc = "publish", !.id = NoId, !.mine = FALSE]
  <2>1. /\ stored' = stored \cup {m}
        /\ bound' = [bound EXCEPT ![m] = i]
        /\ cust' = IF lis.mine THEN [cust EXCEPT ![NewKey(m)] = i] ELSE cust
        /\ lis' = u
    BY <1>3 DEF PersistReply
  <2>2. u \in Handler /\ u.pc = "publish" /\ u.msg = m /\ u.id = NoId /\ ~u.mine
    BY <1>1 DEF TypeOK, Handler, MaybeId
  <2> HIDE DEF u
  <2>3. TypeOK'
    BY <1>1, <2>1, <2>2 DEF TypeOK, Handler
  <2>4. \A k \in Key : /\ cust[k] # NoId => cust'[k] = cust[k]
                       /\ cust'[k] = cust[k] \/ (lis.mine /\ k = NewKey(m) /\ cust'[k] = i)
    BY <2>1 DEF KeysInv, TypeOK
  <2>5. lis.mine => cust'[NewKey(m)] = i
    BY <1>1, <2>1 DEF TypeOK
  <2>6. IdsInv'
    <3>1. \A j \in Id, k \in Key : Under(j, k)' => Under(j, k)
      BY <1>1, <2>1, <2>2, <2>4 DEF Under
    <3>2. \A j \in Id, n \in Message : Refers(j, n)' => Refers(j, n)
      BY <1>1, <2>1, <2>2, IdFacts DEF Refers
    <3>3. Named(NoId)
      BY <3>1, <3>2 DEF Named
    <3>4. QED
      BY <3>3, IdsStep
  <2>7. KeysInv'
    BY <1>1, <2>1, <2>2, <2>4 DEF KeysInv
  <2>8. PromoteInv' /\ ListenInv'
    BY <1>1, <2>1, <2>2 DEF PromoteInv, ListenInv
  <2>9. BoundToSender'
    <3> SUFFICES ASSUME NEW n \in Message, bound'[n] # NoId
                 PROVE  \E k \in Key : cust'[k] = bound'[n] /\ k.who = From[n]
      BY DEF BoundToSender
    <3>1. CASE n = m
      <4>1. bound'[n] = i /\ i \in Id
        BY <1>1, <2>1, <3>1 DEF TypeOK
      <4>2. CASE lis.mine
        BY <1>1, <2>5, <3>1, <4>1, <4>2
      <4>3. CASE ~lis.mine
        <5>1. PICK k \in Key : cust[k] = i
          BY <1>3, <4>1, <4>3, IdFacts DEF Ids, TypeOK
        <5>2. Under(i, k) /\ Refers(i, m)
          BY <5>1 DEF Under, Refers
        <5>3. k.who = From[m]
          BY <1>1, <4>1, <5>2 DEF IdsInv
        <5>4. QED
          BY <2>4, <3>1, <4>1, <5>1, <5>3, IdFacts
      <4>4. QED
        BY <4>2, <4>3
    <3>2. CASE n # m
      <4>1. bound'[n] = bound[n]
        BY <2>1, <3>2 DEF TypeOK
      <4>2. QED
        BY <2>4, <4>1 DEF BoundToSender
    <3>3. QED
      BY <3>1, <3>2
  <2>10. OrphansComeFromDeletes'
    <3>1. \A n \in Orphans' : n \in Orphans \/ (n = m /\ i = NoId)
      BY <1>1, <2>1 DEF Orphans, TypeOK
    <3>2. QED
      BY <1>1, <1>3, <2>1, <3>1 DEF OrphansComeFromDeletes, Excused
  <2>11. QED
    BY <2>3, <2>6, <2>7, <2>8, <2>9, <2>10
<1>4. QED
  BY <1>2, <1>3 DEF PersistReply

LEMMA DeleteStep ==
    ASSUME IntakeInv, IdLeft, NEW k \in Key, DeleteCustomer(k)
    PROVE  IntakeInv'
<1> USE DEF IntakeInv
<1>1a. k.who \in Sender /\ cust[k] \in MaybeId /\ cust[k] # NoId
  BY DEF DeleteCustomer, TypeOK, Key
<1>1. /\ cust[k] # NoId /\ cust[k] \in Id /\ k.who \in Sender
      /\ bound' = [m \in Message |-> IF bound[m] = cust[k] THEN NoId ELSE bound[m]]
      /\ deleted' = deleted \cup {k.who}
      /\ UNCHANGED <<stored, pending, lis, req, published, gone, stumbled, faults>>
      /\ deletes' \in Nat
  BY <1>1a, IdFacts DEF DeleteCustomer, TypeOK
<1>2. \A l \in Key : cust'[l] = IF l = k THEN NoId ELSE cust[l]
  BY DEF DeleteCustomer, TypeOK
<1>3. cust' \in [Key -> MaybeId]
  BY DEF DeleteCustomer, TypeOK, MaybeId
<1>4. TypeOK'
  BY <1>1, <1>3 DEF TypeOK, MaybeId
<1>5. IdsInv'
  <2>1. \A i \in Id, l \in Key : Under(i, l)' => Under(i, l)
    BY <1>1, <1>2, IdFacts DEF Under
  <2>2. \A i \in Id, m \in Message : Refers(i, m)' => Refers(i, m)
    BY <1>1 DEF Refers
  <2>3. Named(NoId)
    BY <2>1, <2>2 DEF Named
  <2>4. QED
    BY <2>3, IdsStep
<1>6. KeysInv'
  <2>1. lis.mine => NewKey(lis.msg) \in Key
    BY KeyFacts DEF ListenInv
  <2>2. QED
    BY <1>1, <1>2, <2>1 DEF KeysInv
<1>7. PromoteInv'
  BY <1>1 DEF PromoteInv
<1>8. ListenInv'
  <2>1. lis.pc = "again" => NewKey(lis.msg) \in Key /\ NewKey(lis.msg).who = From[lis.msg]
    BY KeyFacts DEF ListenInv
  <2>2. Excused(lis.msg) => Excused(lis.msg)'
    BY <1>1 DEF Excused
  <2>3. lis.pc = "again" => cust'[NewKey(lis.msg)] # NoId \/ Excused(lis.msg)'
    BY <1>1, <1>2, <2>1, <2>2 DEF ListenInv, Excused
  <2>4. QED
    BY <1>1, <2>2, <2>3 DEF ListenInv
<1>9. BoundToSender'
  BY <1>1, <1>2 DEF BoundToSender
<1>10. OrphansComeFromDeletes'
  <2> SUFFICES ASSUME NEW m \in Message, bound[m] = cust[k]
               PROVE  From[m] = k.who
    BY <1>1 DEF OrphansComeFromDeletes, Orphans, TypeOK
  <2>1. PICK l \in Key : cust[l] = bound[m] /\ l.who = From[m]
    BY <1>1 DEF BoundToSender
  <2>2. Under(cust[k], l) /\ Under(cust[k], k)
    BY <2>1 DEF Under
  <2>3. QED
    BY <1>1, <2>1, <2>2 DEF IdsInv
<1>11. QED
  BY <1>4, <1>5, <1>6, <1>7, <1>8, <1>9, <1>10

\* An account's deletion only adds to the reasons.
LEMMA DeleteAccountStep ==
    ASSUME IntakeInv, NEW a \in Account, DeleteAccount(a)
    PROVE  IntakeInv'
<1> USE DEF IntakeInv
<1>1. /\ gone' = gone \cup {a} /\ deletes' \in Nat
      /\ UNCHANGED <<cust, stored, bound, pending, lis, req, published, deleted, stumbled, faults>>
  BY DEF DeleteAccount, TypeOK
<1>2. TypeOK'
  BY <1>1 DEF TypeOK
<1>3. IdsInv' /\ KeysInv' /\ PromoteInv'
  BY <1>1 DEF IdsInv, Under, Refers, KeysInv, PromoteInv
<1>4. ListenInv'
  <2>1. Excused(lis.msg) => Excused(lis.msg)'
    BY <1>1 DEF Excused
  <2>2. QED
    BY <1>1, <2>1 DEF ListenInv
<1>5. BoundToSender' /\ OrphansComeFromDeletes'
  BY <1>1 DEF BoundToSender, OrphansComeFromDeletes, Orphans
<1>6. QED
  BY <1>2, <1>3, <1>4, <1>5

-----------------------------------------------------------------------------
(* What follows                                                            *)

LEMMA IntakeInit == Init => IntakeInv
<1> SUFFICES ASSUME Init PROVE IntakeInv
  OBVIOUS
<1>1. Quiet \in Handler /\ Closed \in Transaction
  BY ClosedTurn DEF Quiet, Handler, MaybeId
<1>2. TypeOK
  BY <1>1, IntakeAssumption DEF Init, TypeOK, MaybeId
<1>3. /\ lis.pc = "idle" /\ ~lis.mine /\ \A r \in Request : req[r].pc = "idle"
      /\ \A r \in Request, k \in Key : req[r].own[k] = NoId
      /\ \A k \in Key : cust[k] = NoId
      /\ \A m \in Message : bound[m] = NoId
      /\ stored = Legacy /\ published = {}
  BY DEF Init, Quiet, Closed
<1>4. IdsInv
  BY <1>3, IdFacts DEF IdsInv, Under
<1>5. KeysInv /\ PromoteInv /\ ListenInv
  BY <1>3 DEF KeysInv, PromoteInv, ListenInv, Excused
<1>6. BoundToSender /\ OrphansComeFromDeletes
  BY <1>3 DEF BoundToSender, OrphansComeFromDeletes, Orphans
<1>7. QED
  BY <1>2, <1>4, <1>5, <1>6 DEF IntakeInv

LEMMA IntakeStep == IntakeInv /\ IdLeft /\ [Next]_vars => IntakeInv'
<1> SUFFICES ASSUME IntakeInv, IdLeft, [Next]_vars PROVE IntakeInv'
  OBVIOUS
<1>1. CASE UNCHANGED vars
  BY <1>1 DEF vars, ghosts, IntakeInv, TypeOK, IdsInv, Under, Refers, KeysInv, PromoteInv,
              ListenInv, Excused, BoundToSender, OrphansComeFromDeletes, Orphans
<1>2. CASE Listen \/ InsertFails \/ CrashListener
  BY <1>2, HandlerStep, PersistStep, PublishStep DEF Listen
<1>3. ASSUME NEW r \in Request,
             OpenRescan(r) \/ Advance(r) \/ Fail(r) \/ \E m \in Message : OpenPromote(r, m)
      PROVE  IntakeInv'
  BY <1>3, OpenStep, PromoteStep, CommitStep, FailStep DEF Advance
<1>4. ASSUME NEW k \in Key, DeleteCustomer(k) PROVE IntakeInv'
  BY <1>4, DeleteStep
<1>5. ASSUME NEW a \in Account, DeleteAccount(a) PROVE IntakeInv'
  BY <1>5, DeleteAccountStep
<1>6. QED
  BY <1>1, <1>2, <1>3, <1>4, <1>5 DEF Next

LEMMA IntakeCorrect == Spec /\ []IdLeft => []IntakeInv
BY IntakeInit, IntakeStep, PTL DEF Spec

\* While there are ids, no message is filed under another sender's customer, nor
\* under one that is gone.
THEOREM FiledUnderSender == Spec /\ []IdLeft => []BoundToSender
<1>1. IntakeInv => BoundToSender
  BY DEF IntakeInv
<1>2. QED
  BY <1>1, IntakeCorrect, PTL

\* While there are ids, a message the listener stored is unmatched only after a
\* deletion of its sender's customer, for want of a sender, or after a flush that
\* failed otherwise than on the key; and the stream announces only what is stored.
THEOREM OrphansExplained == Spec /\ []IdLeft => []OrphansComeFromDeletes
<1>1. IntakeInv => OrphansComeFromDeletes
  BY DEF IntakeInv
<1>2. QED
  BY <1>1, IntakeCorrect, PTL
-----------------------------------------------------------------------------
(* There are ids                                                           *)

LEMMA RangeFinite ==
    ASSUME NEW S, NEW f, IsFiniteSet(S), DOMAIN f = S, f = [x \in S |-> f[x]]
    PROVE  IsFiniteSet({f[x] : x \in S})
<1> DEFINE R == {f[x] : x \in S}
<1>1. f \in Surjection(S, R)
  BY DEF Surjection
<1> HIDE DEF R
<1>2. IsFiniteSet(R)
  BY <1>1, FS_Surjection
<1>3. QED
  BY <1>2 DEF R

LEMMA IdsFinite ==
    ASSUME NEW S, NEW T, NEW f \in [S -> T], IsFiniteSet(S)
    PROVE  IsFiniteSet(Ids(f))
<1>1. IsFiniteSet({f[x] : x \in S})
  BY RangeFinite
<1>2. QED
  BY <1>1, FS_Difference DEF Ids

LEMMA KeyFinite ==
    ASSUME IsFiniteSet(Sender)
    PROVE  IsFiniteSet(Key)
<1> DEFINE tg == [s \in Sender |-> TgKey(s)]
           ph == [s \in Sender |-> PhoneKey(s)]
<1>1. IsFiniteSet({tg[s] : s \in Sender}) /\ IsFiniteSet({ph[s] : s \in Sender})
  BY RangeFinite
<1>2. ASSUME NEW k \in Key
      PROVE  k \in {tg[s] : s \in Sender} \cup {ph[s] : s \in Sender}
  <2>1. k.who \in Sender /\ (k = TgKey(k.who) \/ k = PhoneKey(k.who))
    BY DEF Key, TgKey, PhoneKey
  <2>2. tg[k.who] = TgKey(k.who) /\ ph[k.who] = PhoneKey(k.who)
    BY <2>1
  <2> HIDE DEF tg, ph
  <2>3. QED
    BY <2>1, <2>2
<1>3. IsFiniteSet({tg[s] : s \in Sender} \cup {ph[s] : s \in Sender})
  BY <1>1, FS_Union
<1> HIDE DEF tg, ph
<1>4. QED
  BY <1>2, <1>3, FS_Subset

\* AUTO_INCREMENT outlasts any finite number of senders, messages and requests:
\* the hypothesis of the two theorems above holds of every run.
THEOREM IdsNeverRunOut ==
    ASSUME IsFiniteSet(Message), IsFiniteSet(Sender), IsFiniteSet(Request),
           ~IsFiniteSet(Id)
    PROVE  Spec => []IdLeft
<1>1. TypeOK => IdLeft
  <2> SUFFICES ASSUME TypeOK PROVE IdLeft
    OBVIOUS
  <2> DEFINE named == [r \in Request |-> Ids(req[r].tags) \cup Ids(req[r].own)]
  <2>1. IsFiniteSet(Ids(cust))
    BY KeyFinite, IdsFinite DEF TypeOK
  <2>2. ASSUME NEW r \in Request PROVE IsFiniteSet(named[r])
    <3>1. req[r].tags \in [Message -> MaybeId] /\ req[r].own \in [Key -> MaybeId]
      BY DEF TypeOK, Transaction
    <3>2. IsFiniteSet(Ids(req[r].tags)) /\ IsFiniteSet(Ids(req[r].own))
      BY <3>1, KeyFinite, IdsFinite
    <3>3. QED
      BY <3>2, FS_Union
  <2>3. IsFiniteSet({named[r] : r \in Request})
    BY RangeFinite
  <2>4. IsFiniteSet(UNION {named[r] : r \in Request})
    BY <2>2, <2>3, FS_UNION
  <2>5. Used = Ids(cust) \cup {lis.id} \cup UNION {named[r] : r \in Request}
    BY DEF Used
  <2> HIDE DEF named
  <2>6. IsFiniteSet(Used)
    BY <2>1, <2>4, <2>5, FS_Union, FS_Singleton
  <2>7. ~(Id \subseteq Used)
    BY <2>6, FS_Subset
  <2>8. QED
    BY <2>7 DEF IdLeft
<1>2. Init => IntakeInv
  BY IntakeInit
<1>3. IntakeInv => IdLeft
  BY <1>1 DEF IntakeInv
<1>4. IntakeInv /\ [Next]_vars => IntakeInv'
  BY <1>3, IntakeStep
<1>5. QED
  BY <1>2, <1>3, <1>4, PTL DEF Spec
=============================================================================
