------------------------ MODULE ItemLifecycleProofs -------------------------
(***************************************************************************)
(* An item's idempotency key, for any number of requests; the trash of a   *)
(* chain of nested rows, for any depth and any number of users; and the    *)
(* stored history of an item's document (packages/data, docs/), for any    *)
(* number of writers, updates and re-baselines.                            *)
(*                                                                         *)
(* A key: one request at a time decides who holds it, and an item that is  *)
(* live without holding it was replaced and then restored.  The trash: row *)
(* locks keep what a transaction has written until it commits, and what it *)
(* has read but not yet written stays true, or is in raced.  The history:  *)
(* of two checkpoints the one that stands for the later time covers at     *)
(* least as many updates, and the baseline what the mirror no longer has.  *)
(***************************************************************************)
EXTENDS ItemLifecycle, Documents, WellFoundedInduction, FiniteSetTheorems, TLAPS

-----------------------------------------------------------------------------
(* Idempotent creation. *)

LEMMA CreateInitially == CreateInit => CreateInv
BY CreateAssumption DEF CreateInit, CreateInv, CreateShape, OneDecides, KeysAreHeld, Live

LEMMA GuardStep ==
  ASSUME CreateInv, NEW r \in Requests, AssertDatabaseWritableForCreate(r)
  PROVE  CreateInv'
<1>1. /\ CreateShape /\ OneDecides /\ KeysAreHeld
      /\ UNCHANGED <<seen, locker, reserving, reserved, itemState, revived, replaced>> /\ req[r] = "new"
  BY DEF CreateInv, AssertDatabaseWritableForCreate
<1>2. /\ late \subseteq late'
      /\ \/ req' = [req EXCEPT ![r] = "reserve"] /\ r \in late' /\ answered' = answered
         \/ /\ req' = [req EXCEPT ![r] = "done"]
            /\ answered' = [answered EXCEPT ![r] = FindIdempotentReplay]
         \/ req' = [req EXCEPT ![r] = "failed"] /\ answered' = answered
  BY DEF AssertDatabaseWritableForCreate, Answer
<1>3. CreateShape'
  BY <1>1, <1>2 DEF CreateShape, FindIdempotentReplay
<1>4. OneDecides'
  BY <1>1, <1>2 DEF CreateShape, OneDecides, Live
<1> QED
  BY <1>1, <1>3, <1>4 DEF CreateInv, KeysAreHeld

LEMMA ReserveStep ==
  ASSUME CreateInv, NEW r \in Requests, Reserve(r)
  PROVE  CreateInv'
<1>1. CreateShape /\ OneDecides /\ KeysAreHeld
  BY DEF CreateInv
<1>2. CreateShape' /\ OneDecides'
  BY <1>1, CreateAssumption DEF Reserve, CreateShape, OneDecides, Live
<1> QED
  BY <1>1, <1>2 DEF CreateInv, KeysAreHeld, Reserve

LEMMA LockStep ==
  ASSUME CreateInv, NEW r \in Requests, LockReservation(r)
  PROVE  CreateInv'
<1>1. /\ CreateShape /\ OneDecides /\ KeysAreHeld /\ locker = NoItem /\ req[r] = "lock"
      /\ UNCHANGED <<seen, reserved, itemState, revived, replaced, late>>
  BY DEF CreateInv, LockReservation
<1>2. \/ req' = [req EXCEPT ![r] = "failed"] /\ UNCHANGED <<locker, reserving, answered>>
      \/ req' = [req EXCEPT ![r] = "done"] /\ answered' = [answered EXCEPT ![r] = reserved]
         /\ UNCHANGED <<locker, reserving>>
      \/ /\ reserved = seen[r] /\ ~Live(reserved)
         /\ req' = [req EXCEPT ![r] = "insert"] /\ locker' = r /\ reserving' = r /\ UNCHANGED answered
  BY DEF LockReservation, Answer
<1>3. CreateShape'
  BY <1>1, <1>2 DEF CreateShape
<1>4. OneDecides'
  BY <1>1, <1>2, CreateAssumption DEF CreateShape, OneDecides, Live
<1> QED
  BY <1>1, <1>3, <1>4 DEF CreateInv, KeysAreHeld

LEMMA InsertStep ==
  ASSUME CreateInv, NEW r \in Requests, InsertItem(r)
  PROVE  CreateInv'
<1>1. /\ CreateShape /\ OneDecides /\ KeysAreHeld /\ req[r] = "insert"
      /\ UNCHANGED <<seen, revived, late>>
      /\ itemState' = [itemState EXCEPT ![r] = "live"] /\ reserved' = r
      /\ replaced' = IF reserved = NoItem THEN replaced ELSE replaced \cup {reserved}
      /\ reserving' = NoItem /\ locker' = IF locker = r THEN NoItem ELSE locker
  BY DEF CreateInv, InsertItem, Released
<1>2. \/ req' = [req EXCEPT ![r] = "done"] /\ answered' = [answered EXCEPT ![r] = r]
      \/ req' = [req EXCEPT ![r] = "failed"] /\ UNCHANGED answered
  BY DEF InsertItem, Answer
<1>3. CreateShape'
  BY <1>1, <1>2 DEF CreateShape
<1>4. OneDecides'
  BY <1>1, <1>2, CreateAssumption DEF CreateShape, OneDecides, Live
<1>5. KeysAreHeld'
  BY <1>1, CreateAssumption DEF CreateShape, OneDecides, KeysAreHeld, Live
<1> QED
  BY <1>3, <1>4, <1>5 DEF CreateInv

LEMMA FailStep ==
  ASSUME CreateInv, NEW r \in Requests, InsertFails(r)
  PROVE  CreateInv'
<1>1. CreateShape /\ OneDecides /\ KeysAreHeld
  BY DEF CreateInv
<1>2. CreateShape' /\ OneDecides'
  BY <1>1, CreateAssumption DEF InsertFails, Released, CreateShape, OneDecides, Live
<1> QED
  BY <1>1, <1>2 DEF CreateInv, KeysAreHeld, InsertFails

LEMMA TrashingStep ==
  ASSUME CreateInv, NEW i \in Requests, TrashCreated(i) \/ RestoreCreated(i) \/ PurgeCreated(i)
  PROVE  CreateInv'
<1>1. /\ CreateShape /\ OneDecides /\ KeysAreHeld
      /\ UNCHANGED <<req, seen, locker, reserving, answered, replaced, late>>
  BY DEF CreateInv, TrashCreated, RestoreCreated, PurgeCreated, RestC
<1>2. \/ /\ itemState' = [itemState EXCEPT ![i] = "trashed"] /\ UNCHANGED <<reserved, revived>>
         /\ itemState[i] = "live"
      \/ /\ itemState' = [itemState EXCEPT ![i] = "live"] /\ reserved' = reserved /\ itemState[i] = "trashed"
         /\ revived' = IF i \in replaced \/ (locker # NoItem /\ reserved = i) THEN revived \cup {i} ELSE revived
      \/ /\ itemState' = [itemState EXCEPT ![i] = "purged"] /\ revived' = revived /\ locker = NoItem
         /\ reserved' = IF reserved = i THEN NoItem ELSE reserved
  BY DEF TrashCreated, RestoreCreated, PurgeCreated
<1>3. CreateShape'
  BY <1>1, <1>2 DEF CreateShape
<1>4. OneDecides'
  BY <1>1, <1>2, CreateAssumption DEF CreateShape, OneDecides, Live
<1>5. KeysAreHeld'
  BY <1>1, <1>2, CreateAssumption DEF CreateShape, OneDecides, KeysAreHeld, Live
<1> QED
  BY <1>3, <1>4, <1>5 DEF CreateInv

\* Requests with one key, trashing, purging and archiving keep the invariant.
THEOREM CreateInvariance == CreateSpec => []CreateInv
<1>1. CreateInv /\ [CreateNext]_createVars => CreateInv'
  <2>1. ASSUME CreateInv, ArchiveC \/ UNCHANGED createVars PROVE CreateInv'
    BY <2>1 DEF ArchiveC, RestC, createVars, CreateInv, CreateShape, OneDecides, KeysAreHeld, Live
  <2> QED
    BY <2>1, GuardStep, ReserveStep, LockStep, InsertStep, FailStep, TrashingStep DEF CreateNext
<1> QED
  BY <1>1, CreateInitially, PTL DEF CreateSpec

\* createItemWithClient: retries and concurrent requests with one idempotency
\* key leave one live item, unless a replaced one was restored.
THEOREM OneItemPerKey == CreateSpec => []OneLiveItemPerKey
<1>1. CreateInv => OneLiveItemPerKey
  BY DEF CreateInv, KeysAreHeld, OneLiveItemPerKey, Live
<1> QED
  BY <1>1, CreateInvariance, PTL

\* An archived database gets a new item only from a request that was let in
\* before (assertDatabaseWritableForCreate).
THEOREM ArchivedStaysClosed == CreateSpec => ArchivedGetsNothing
<1>1. ASSUME CreateInv, [CreateNext]_createVars, NEW i \in Requests,
             archivedC, itemState[i] = "none", itemState'[i] = "live"
      PROVE  i \in late
  <2>1. CASE InsertItem(i)
    BY <1>1, <2>1 DEF InsertItem, CreateInv, OneDecides
  <2>2. ASSUME NEW r \in Requests, InsertItem(r), r # i PROVE FALSE
    BY <1>1, <2>2 DEF InsertItem, CreateInv, CreateShape
  <2>3. ASSUME NEW r \in Requests, TrashCreated(r) \/ RestoreCreated(r) \/ PurgeCreated(r) PROVE FALSE
    BY <1>1, <2>3 DEF TrashCreated, RestoreCreated, PurgeCreated, CreateInv, CreateShape
  <2>4. CASE UNCHANGED itemState
    BY <1>1, <2>4
  <2> QED
    BY <1>1, <2>1, <2>2, <2>3, <2>4 DEF CreateNext, AssertDatabaseWritableForCreate, Reserve, LockReservation,
      InsertFails, ArchiveC, createVars
<1>2. CreateInv /\ [CreateNext]_createVars =>
        [\A i \in Requests : archivedC /\ itemState[i] = "none" /\ itemState'[i] = "live" => i \in late]_createVars
  BY <1>1
<1> QED
  BY <1>2, CreateInvariance, PTL DEF CreateSpec, ArchivedGetsNothing

-----------------------------------------------------------------------------
(* The trash. *)

LEMMA Least ==
  ASSUME NEW T \in SUBSET Nat, T # {}
  PROVE  \E x \in T : \A y \in T : x <= y
<1>1. PICK x \in T : \A y \in T : ~(<<y, x>> \in OpToRel(<, Nat))
  BY NatLessThanWellFounded, WFMin
<1>2. \A y \in T : ~(y < x)
  BY <1>1 DEF OpToRel
<1> QED
  BY <1>2

LEMMA RowsAreNumbers == /\ Depth \in Nat /\ Depth >= 2 /\ RowsT \subseteq Nat /\ Depth \in RowsT
                        /\ \A r \in RowsT : 1 <= r /\ r <= Depth
                        /\ \A r \in RowsT : r # Depth => r + 1 \in RowsT
                        /\ \A r \in 2 .. Depth : r \in RowsT /\ r - 1 \in RowsT /\ r - 1 # Depth
BY TrashAssumption DEF RowsT

LEMMA TrashInitially == TrashInit => TrashInv
<1> SUFFICES ASSUME TrashInit PROVE TrashInv
  OBVIOUS
<1>1. /\ \A r \in RowsT : state[r] = IF r = Depth THEN "none" ELSE "live"
      /\ state \in [RowsT -> {"none", "live", "trashed", "purged"}]
      /\ stamp \in [RowsT -> Nat] /\ \A r \in RowsT : stamp[r] = 0
      /\ now = 1 /\ cutoff = 1 /\ alone = {} /\ trashExcused = {} /\ raced = {} /\ wrongly = {} /\ dropped = {}
  BY DEF TrashInit
<1>2. NoTx \in Transactions
  BY DEF NoTx, Transactions
<1>3. \A a \in TrashActors : tx[a] = NoTx
  BY DEF TrashInit
<1>4. NoTx.kind = "idle" /\ NoTx.todo = {} /\ NoTx.wrote = {} /\ NoTx.drops = {}
  BY DEF NoTx
<1>5. Purger \in TrashActors
  BY DEF TrashActors
<1>6. tx \in [TrashActors -> Transactions]
  BY <1>2 DEF TrashInit
<1>7. TrashShape
  BY <1>1, <1>3, <1>4, <1>5, <1>6 DEF TrashShape
<1>8. TransactionsAreApart
  BY <1>1, <1>3, <1>4 DEF TransactionsAreApart, Touches
<1>9. OwnStamps /\ ReadsHold /\ RestoreKeepsOwnDeletes /\ TrashIsRetained
  BY <1>1, <1>3, <1>4, <1>5 DEF OwnStamps, ReadsHold, RestoreKeepsOwnDeletes, TrashIsRetained
<1>a. CascadeIsWhole
  BY <1>1, RowsAreNumbers DEF CascadeIsWhole
<1> QED
  BY <1>7, <1>8, <1>9, <1>a DEF TrashInv

(* A transaction begins: it touches only what it is told to.                *)
LEMMA BeginEffect ==
  ASSUME TrashShape, NEW a \in TrashActors, NEW kind \in {"delete", "restore", "create", "purge"},
         NEW root \in Nat, NEW rows \in SUBSET RowsT, NEW locked \in SUBSET RowsT,
         Begin(a, kind, root, rows, locked)
  PROVE  /\ tx' \in [TrashActors -> Transactions]
         /\ now' = now + 1 /\ now \in Nat
         /\ \A b \in TrashActors \ {a} : tx'[b] = tx[b]
         /\ tx'[a].kind = kind /\ tx'[a].root = root /\ tx'[a].at = now
         /\ tx'[a].todo = rows /\ tx'[a].wrote = locked /\ tx'[a].drops = {}
<1> DEFINE t == [kind |-> kind, root |-> root, at |-> now, todo |-> rows, wrote |-> locked, drops |-> {}]
<1>1. t \in Transactions
  BY DEF TrashShape, Transactions
<1>2. tx' = [tx EXCEPT ![a] = t] /\ now' = now + 1
  BY DEF Begin
<1>3. t.kind = kind /\ t.root = root /\ t.at = now /\ t.todo = rows /\ t.wrote = locked /\ t.drops = {}
  OBVIOUS
<1> HIDE DEF t
<1>4. tx'[a] = t /\ \A b \in TrashActors \ {a} : tx'[b] = tx[b]
  BY <1>2 DEF TrashShape
<1>5. tx' \in [TrashActors -> Transactions]
  BY <1>1, <1>2 DEF TrashShape
<1>6. now \in Nat
  BY DEF TrashShape
<1> QED
  BY <1>2, <1>3, <1>4, <1>5, <1>6

LEMMA BeginStep ==
  ASSUME TrashInv, NEW a \in TrashActors, NEW kind \in {"delete", "restore", "create", "purge"},
         NEW root \in Nat, NEW rows \in SUBSET RowsT, NEW locked \in SUBSET RowsT,
         Begin(a, kind, root, rows, locked),
         UNCHANGED <<state, stamp, frozen, dropped, cutoff, alone, trashExcused, raced, wrongly>>,
         tx[a].kind = "idle", kind = "purge" <=> a = Purger,
         \A r \in rows \cup locked : r >= root,
         \A r \in locked : ~HeldByOther(a, r),
         kind = "restore" => \A r \in (rows \cup locked) \ {root} : r \notin alone,
         kind = "purge" => \A r \in rows \cup locked : stamp[r] < cutoff,
         kind = "create" => rows = {Depth} /\ locked = {Depth} /\ Depth \notin dropped,
         kind = "delete" => \A r \in 2 .. Depth :
                              r - 1 \in rows \cup locked /\ r \notin rows \cup locked => state[r] # "live"
  PROVE  TrashInv'
<1>1. /\ TrashShape /\ TransactionsAreApart /\ OwnStamps /\ ReadsHold
      /\ RestoreKeepsOwnDeletes /\ TrashIsRetained /\ CascadeIsWhole
  BY DEF TrashInv
<1>2. /\ tx' \in [TrashActors -> Transactions]
      /\ now' = now + 1 /\ now \in Nat
      /\ \A b \in TrashActors \ {a} : tx'[b] = tx[b]
      /\ tx'[a].kind = kind /\ tx'[a].root = root /\ tx'[a].at = now
      /\ tx'[a].todo = rows /\ tx'[a].wrote = locked /\ tx'[a].drops = {}
  <2>1. TrashShape
    BY <1>1
  <2> QED
    BY <2>1, BeginEffect, ZenonT(60)
<1>3. Purger \in TrashActors
  BY DEF TrashActors
<1>4. TrashShape'
  BY <1>1, <1>2, <1>3 DEF TrashShape
<1>5. \A b \in TrashActors \ {a} : locked \cap tx[b].wrote = {}
  BY DEF HeldByOther
<1>6. \A b \in TrashActors \ {a} : Touches(b)' = Touches(b)
  BY <1>2 DEF Touches
<1>7. Touches(a)' = rows \cup locked
  BY <1>2 DEF Touches
<1>8. \A b \in TrashActors : tx[b].at \in Nat
  BY <1>1 DEF TrashShape, Transactions
<1>9. \A r \in RowsT : stamp[r] \in Nat /\ stamp[r] < now
  BY <1>1 DEF TrashShape, TransactionsAreApart
<1>10. TransactionsAreApart'
  <2>1. \A b, c \in TrashActors : b # c => tx'[b].wrote \cap tx'[c].wrote = {}
    BY <1>1, <1>2, <1>5 DEF TransactionsAreApart
  <2>2. \A b \in TrashActors : tx'[b].kind = "idle" => Touches(b)' = {}
    BY <1>1, <1>2, <1>6 DEF TransactionsAreApart
  <2>3. ASSUME NEW b \in TrashActors, tx'[b].kind # "idle"
        PROVE  /\ tx'[b].at < now' /\ \A r \in RowsT : stamp'[r] # tx'[b].at
               /\ \A c \in TrashActors \ {b} : tx'[c].kind # "idle" => tx'[c].at # tx'[b].at
               /\ \A r \in Touches(b)' : r >= tx'[b].root
    <3>1. CASE b = a
      <4>1. tx'[b].at < now' /\ \A r \in RowsT : stamp'[r] # tx'[b].at
        BY <1>2, <1>9, <3>1
      <4>2. \A c \in TrashActors \ {b} : tx'[c].kind # "idle" => tx'[c].at # tx'[b].at
        BY <1>1, <1>2, <1>8, <3>1 DEF TransactionsAreApart
      <4>3. \A r \in Touches(b)' : r >= tx'[b].root
        BY <1>2, <1>7, <3>1
      <4> QED
        BY <4>1, <4>2, <4>3
    <3>2. CASE b # a
      <4>1. tx[b].kind # "idle" /\ tx'[b] = tx[b] /\ tx[b].at < now /\ tx[b].at \in Nat
        BY <1>1, <1>2, <1>8, <2>3, <3>2 DEF TransactionsAreApart
      <4>2. tx'[b].at < now' /\ \A r \in RowsT : stamp'[r] # tx'[b].at
        BY <1>1, <1>2, <4>1 DEF TransactionsAreApart
      <4>3. \A c \in TrashActors \ {b} : tx'[c].kind # "idle" => tx'[c].at # tx'[b].at
        <5> TAKE c \in TrashActors \ {b}
        <5>1. CASE c = a
          BY <1>2, <4>1, <5>1
        <5>2. CASE c # a
          BY <1>1, <1>2, <4>1, <5>2 DEF TransactionsAreApart
        <5> QED
          BY <5>1, <5>2
      <4>4. \A r \in Touches(b)' : r >= tx'[b].root
        BY <1>1, <1>6, <3>2, <4>1 DEF TransactionsAreApart
      <4> QED
        BY <4>2, <4>3, <4>4
    <3> QED
      BY <3>1, <3>2
  <2>4. \A r \in RowsT : stamp'[r] < now'
    BY <1>2, <1>9
  <2> QED
    BY <2>1, <2>2, <2>3, <2>4 DEF TransactionsAreApart
<1>11. OwnStamps'
  BY <1>1 DEF OwnStamps, Exists
<1>12. ReadsHold'
  <2>1. ASSUME NEW b \in TrashActors
        PROVE  /\ tx'[b].kind = "restore" =>
                    \A r \in Touches(b)' \ {tx'[b].root} : r \in alone => r \in raced
               /\ tx'[b].kind = "purge" => \A r \in Touches(b)' : stamp[r] < cutoff \/ r \in raced
               /\ tx'[b].kind = "create" => Touches(b)' = {Depth} /\ tx'[b].wrote = {Depth} /\ Depth \notin dropped
               /\ tx'[b].kind = "delete" =>
                    \A r \in 2 .. Depth : r - 1 \in Touches(b)' /\ r \notin Touches(b)' /\ state[r] = "live"
                                            => r \in trashExcused
    <3>1. CASE b = a
      BY <1>2, <1>7, <3>1
    <3>2. CASE b # a
      BY <1>1, <1>2, <1>6, <3>2 DEF ReadsHold
    <3> QED
      BY <3>1, <3>2
  <2>2. \A d \in tx'[Purger].drops :
          d = Depth \/ state[d] = "purged" \/ (d \in tx'[Purger].wrote /\ state[d] = "trashed")
    BY <1>1, <1>2, <1>3 DEF ReadsHold
  <2> QED
    BY <2>1, <2>2 DEF ReadsHold
<1>13. (RestoreKeepsOwnDeletes /\ TrashIsRetained /\ CascadeIsWhole)'
  BY <1>1 DEF RestoreKeepsOwnDeletes, TrashIsRetained, CascadeIsWhole
<1> QED
  BY <1>4, <1>10, <1>11, <1>12, <1>13 DEF TrashInv

(* Each operation begins with a read that its transaction relies on. *)
LEMMA DeleteStep ==
  ASSUME TrashInv, NEW u \in Users, NEW r \in RowsT, ItemDelete(u, r)
  PROVE  TrashInv'
<1> DEFINE rows == Subtree(r, RowsT)
<1>1. /\ u \in TrashActors /\ u # Purger /\ r \in Nat /\ rows \in SUBSET RowsT
      /\ OwnStamps /\ {r} \in SUBSET RowsT
  BY TrashAssumption, RowsAreNumbers DEF TrashActors, TrashInv, Subtree
<1>2. /\ tx[u].kind = "idle" /\ state[r] = "live" /\ r \notin dropped /\ ~HeldByOther(u, r)
      /\ Begin(u, "delete", r, rows, {r})
      /\ UNCHANGED <<state, stamp, frozen, dropped, cutoff, alone, trashExcused, raced, wrongly>>
  BY DEF ItemDelete, UserMayBegin
<1>3. r \in rows /\ \A q \in rows : q >= r
  BY <1>2, RowsAreNumbers DEF Subtree, Exists
<1>4. ASSUME NEW q \in 2 .. Depth, q - 1 \in rows, state[q] = "live"
      PROVE  q \in rows
  <2>1. /\ q \in RowsT /\ q \notin dropped /\ Exists(q) /\ q - 1 >= r /\ q \in Nat
        /\ \A p \in r .. (q - 1) : Exists(p) /\ p \notin dropped
    BY <1>1, <1>4, RowsAreNumbers DEF OwnStamps, Exists, Subtree
  <2>2. \A p \in r .. q : Exists(p) /\ p \notin dropped
    BY <1>1, <2>1
  <2>3. \A p \in (r + 1) .. q : p \in RowsT
    BY <1>1, <2>1, RowsAreNumbers DEF RowsT
  <2>4. q >= r
    BY <1>1, <2>1
  <2> QED
    BY <2>1, <2>2, <2>3, <2>4 DEF Subtree
<1> HIDE DEF rows
<1>5. \A q \in rows \cup {r} : q >= r
  BY <1>1, <1>3
<1>6. \A q \in {r} : ~HeldByOther(u, q)
  BY <1>2
<1>7. \A q \in 2 .. Depth : q - 1 \in rows \cup {r} /\ q \notin rows \cup {r} => state[q] # "live"
  BY <1>3, <1>4
<1> QED
  BY <1>1, <1>2, <1>5, <1>6, <1>7, BeginStep

LEMMA RestoreStep ==
  ASSUME TrashInv, NEW u \in Users, NEW r \in RowsT, RestoreItem(u, r)
  PROVE  TrashInv'
<1> DEFINE rows == {q \in Subtree(r, RowsT) : stamp[q] = stamp[r]}
<1>1. /\ u \in TrashActors /\ u # Purger /\ r \in Nat /\ rows \in SUBSET RowsT
      /\ OwnStamps /\ TrashShape /\ {r} \in SUBSET RowsT
  BY TrashAssumption, RowsAreNumbers DEF TrashActors, TrashInv, Subtree
<1>2. /\ tx[u].kind = "idle" /\ state[r] = "trashed" /\ ~HeldByOther(u, r)
      /\ Begin(u, "restore", r, rows, {r})
      /\ UNCHANGED <<state, stamp, frozen, dropped, cutoff, alone, trashExcused, raced, wrongly>>
  BY DEF RestoreItem, UserMayBegin
<1>3. \A q \in rows \cup {r} : q >= r
  BY <1>1 DEF Subtree
<1>4. ASSUME NEW q \in (rows \cup {r}) \ {r}, q \in alone PROVE FALSE
  <2>1. q \in RowsT /\ q > r /\ stamp[q] = stamp[r] /\ q \in r .. q
    <3>1. q \in rows /\ q # r /\ q >= r
      BY <1>3, <1>4
    <3>2. q \in RowsT /\ stamp[q] = stamp[r]
      BY <1>1, <3>1
    <3>3. q \in Nat /\ r \in Nat
      BY <3>2, RowsAreNumbers
    <3> QED
      BY <3>1, <3>2, <3>3
  <2>2. Exists(q)
    <3>1. q \in Subtree(r, RowsT)
      BY <1>4
    <3>2. \A p \in r .. q : Exists(p)
      BY <3>1 DEF Subtree
    <3> QED
      BY <2>1, <3>2
  <2>3. state[q] = "trashed"
    BY <1>1, <1>4, <2>1, <2>2 DEF OwnStamps, Exists
  <2> QED
    BY <1>1, <1>2, <1>4, <2>1, <2>3 DEF OwnStamps
<1> HIDE DEF rows
<1>5. \A q \in {r} : ~HeldByOther(u, q)
  BY <1>2
<1> QED
  BY <1>1, <1>2, <1>3, <1>4, <1>5, BeginStep

LEMMA CreateBelowStep ==
  ASSUME TrashInv, NEW u \in Users, CreateBelow(u)
  PROVE  TrashInv'
<1>1. u \in TrashActors /\ u # Purger /\ Depth \in Nat /\ {Depth} \in SUBSET RowsT
  BY TrashAssumption, RowsAreNumbers DEF TrashActors
<1>2. /\ tx[u].kind = "idle" /\ Depth \notin dropped /\ ~HeldByOther(u, Depth)
      /\ Begin(u, "create", Depth, {Depth}, {Depth})
      /\ UNCHANGED <<state, stamp, frozen, dropped, cutoff, alone, trashExcused, raced, wrongly>>
  BY DEF CreateBelow, UserMayBegin
<1>3. \A q \in {Depth} \cup {Depth} : q >= Depth
  BY <1>1
<1>4. \A q \in {Depth} : ~HeldByOther(u, q)
  BY <1>2
<1> QED
  BY <1>1, <1>2, <1>3, <1>4, BeginStep

LEMMA PurgeStep ==
  ASSUME TrashInv, NEW r \in RowsT, PurgeExpiredTrashSubtree(r)
  PROVE  TrashInv'
<1> DEFINE rows == Subtree(r, {q \in RowsT : Expired(q)})
<1>1. /\ Purger \in TrashActors /\ r \in Nat /\ rows \in SUBSET RowsT /\ {} \in SUBSET RowsT
  BY RowsAreNumbers DEF TrashActors, Subtree
<1>2. /\ tx[Purger].kind = "idle" /\ Expired(r)
      /\ Begin(Purger, "purge", r, rows, {})
      /\ UNCHANGED <<state, stamp, frozen, dropped, cutoff, alone, trashExcused, raced, wrongly>>
  BY DEF PurgeExpiredTrashSubtree
<1>3. \A q \in rows \cup {} : q >= r
  BY <1>1 DEF Subtree
<1>4. ASSUME NEW q \in rows \cup {} PROVE stamp[q] < cutoff
  <2>1. CASE q = r
    BY <1>2, <2>1 DEF Expired
  <2>2. CASE q # r
    <3>1. q \in (r + 1) .. q
      <4>1. q \in RowsT /\ q >= r
        BY <1>1, <1>3, <1>4
      <4>2. q \in Nat /\ r \in Nat
        BY <4>1, RowsAreNumbers
      <4> QED
        BY <2>2, <4>1, <4>2
    <3>2. q \in rows
      BY <1>4
    <3>3. \A p \in (r + 1) .. q : p \in {p1 \in RowsT : Expired(p1)}
      BY <3>2 DEF Subtree
    <3> QED
      BY <3>1, <3>3 DEF Expired
  <2> QED
    BY <2>1, <2>2
<1> HIDE DEF rows
<1>5. \A q \in {} : ~HeldByOther(Purger, q)
  OBVIOUS
<1> QED
  BY <1>1, <1>2, <1>3, <1>4, <1>5, BeginStep

(* A write moves its row to wrote, or leaves it when it is no longer due.   *)
LEMMA WriteEffect ==
  ASSUME TrashShape, NEW a \in TrashActors, WriteRow(a)
  PROVE  \E r \in tx[a].todo :
           /\ r \in RowsT /\ ~HeldByOther(a, r)
           /\ tx' \in [TrashActors -> Transactions]
           /\ \A b \in TrashActors \ {a} : tx'[b] = tx[b]
           /\ tx'[a].kind = tx[a].kind /\ tx'[a].root = tx[a].root /\ tx'[a].at = tx[a].at
           /\ tx'[a].drops = tx[a].drops /\ tx'[a].todo = tx[a].todo \ {r}
           /\ tx'[a].wrote = IF Writable(tx[a].kind, r) THEN tx[a].wrote \cup {r} ELSE tx[a].wrote
<1>1. /\ tx[a] \in Transactions /\ tx[a].todo \in SUBSET Nat /\ tx[a].todo # {}
      /\ tx[a].todo \subseteq RowsT
  BY RowsAreNumbers DEF TrashShape, Transactions, WriteRow
<1>2. \E q \in tx[a].todo : \A p \in tx[a].todo : q <= p
  BY <1>1, Least
<1> DEFINE r == CHOOSE q \in tx[a].todo : \A p \in tx[a].todo : q <= p
           t == [tx[a] EXCEPT !.todo = @ \ {r},
                              !.wrote = IF Writable(tx[a].kind, r) THEN @ \cup {r} ELSE @]
<1>3. r \in tx[a].todo
  BY <1>2
<1>4. ~HeldByOther(a, r) /\ tx' = [tx EXCEPT ![a] = t]
  BY DEF WriteRow
<1>5. t \in Transactions
  BY <1>1, <1>3 DEF Transactions
<1>6. /\ t.kind = tx[a].kind /\ t.root = tx[a].root /\ t.at = tx[a].at
      /\ t.drops = tx[a].drops /\ t.todo = tx[a].todo \ {r}
      /\ t.wrote = IF Writable(tx[a].kind, r) THEN tx[a].wrote \cup {r} ELSE tx[a].wrote
  BY <1>1 DEF Transactions
<1> HIDE DEF r, t
<1>7. tx'[a] = t /\ \A b \in TrashActors \ {a} : tx'[b] = tx[b]
  BY <1>4 DEF TrashShape
<1>8. tx' \in [TrashActors -> Transactions]
  BY <1>4, <1>5 DEF TrashShape
<1> QED
  BY <1>1, <1>3, <1>4, <1>6, <1>7, <1>8

LEMMA WriteStep ==
  ASSUME TrashInv, NEW a \in TrashActors, WriteRow(a)
  PROVE  TrashInv'
<1>1. /\ TrashShape /\ TransactionsAreApart /\ OwnStamps /\ ReadsHold
      /\ RestoreKeepsOwnDeletes /\ TrashIsRetained /\ CascadeIsWhole
  BY DEF TrashInv
<1>2. UNCHANGED <<state, stamp, frozen, dropped, now, cutoff, alone, trashExcused, raced, wrongly>>
  BY DEF WriteRow
<1>3. PICK r \in tx[a].todo :
           /\ r \in RowsT /\ ~HeldByOther(a, r)
           /\ tx' \in [TrashActors -> Transactions]
           /\ \A b \in TrashActors \ {a} : tx'[b] = tx[b]
           /\ tx'[a].kind = tx[a].kind /\ tx'[a].root = tx[a].root /\ tx'[a].at = tx[a].at
           /\ tx'[a].drops = tx[a].drops /\ tx'[a].todo = tx[a].todo \ {r}
           /\ tx'[a].wrote = IF Writable(tx[a].kind, r) THEN tx[a].wrote \cup {r} ELSE tx[a].wrote
  BY <1>1, WriteEffect
<1>4. \A b \in TrashActors : /\ tx'[b].kind = tx[b].kind /\ tx'[b].root = tx[b].root /\ tx'[b].at = tx[b].at
                             /\ tx'[b].drops = tx[b].drops /\ tx[b].wrote \subseteq tx'[b].wrote
                             /\ Touches(b)' \subseteq Touches(b)
  BY <1>3 DEF Touches
<1>5. Purger \in TrashActors
  BY DEF TrashActors
<1>6. TrashShape'
  BY <1>1, <1>2, <1>3, <1>4, <1>5 DEF TrashShape
<1>7. TransactionsAreApart'
  <2>1. \A b \in TrashActors \ {a} : r \notin tx[b].wrote
    BY <1>3 DEF HeldByOther
  <2>2. \A b, c \in TrashActors : b # c => tx'[b].wrote \cap tx'[c].wrote = {}
    BY <1>1, <1>3, <2>1 DEF TransactionsAreApart
  <2>3. \A b \in TrashActors : tx[b].kind = "idle" => Touches(b)' = {}
    BY <1>1, <1>4 DEF TransactionsAreApart
  <2>4. \A b \in TrashActors : tx[b].kind # "idle" => \A q \in Touches(b)' : q >= tx[b].root
    BY <1>1, <1>4 DEF TransactionsAreApart
  <2> QED
    BY <1>1, <1>2, <1>4, <2>2, <2>3, <2>4 DEF TransactionsAreApart
<1>8. OwnStamps'
  BY <1>1, <1>2 DEF OwnStamps, Exists
<1>9. ReadsHold'
  <2>1. ASSUME NEW b \in TrashActors, tx[b].kind = "restore"
        PROVE  \A q \in Touches(b)' \ {tx[b].root} : q \in alone => q \in raced
    BY <1>1, <1>4, <2>1 DEF ReadsHold
  <2>2. ASSUME NEW b \in TrashActors, tx[b].kind = "purge"
        PROVE  \A q \in Touches(b)' : stamp[q] < cutoff \/ q \in raced
    BY <1>1, <1>4, <2>2 DEF ReadsHold
  <2>3. ASSUME NEW b \in TrashActors, tx[b].kind = "create"
        PROVE  Touches(b)' = {Depth} /\ tx'[b].wrote = {Depth} /\ Depth \notin dropped
    BY <1>1, <1>4, <2>3 DEF ReadsHold, Touches
  <2>4. ASSUME NEW b \in TrashActors, tx[b].kind = "delete", NEW q \in 2 .. Depth,
               q - 1 \in Touches(b)', q \notin Touches(b)', state[q] = "live"
        PROVE  q \in trashExcused
    <3>1. q - 1 \in Touches(b)
      BY <1>4, <2>4
    <3>2. q \notin Touches(b)
      <4>1. CASE b = a
        BY <1>3, <2>4, <4>1 DEF Touches, Writable
      <4>2. CASE b # a
        BY <1>3, <2>4, <4>2 DEF Touches
      <4> QED
        BY <4>1, <4>2
    <3> QED
      BY <1>1, <2>4, <3>1, <3>2 DEF ReadsHold
  <2>5. \A d \in tx'[Purger].drops :
          d = Depth \/ state[d] = "purged" \/ (d \in tx'[Purger].wrote /\ state[d] = "trashed")
    BY <1>1, <1>4, <1>5 DEF ReadsHold
  <2> QED
    BY <1>2, <1>4, <2>1, <2>2, <2>3, <2>4, <2>5 DEF ReadsHold
<1>10. (RestoreKeepsOwnDeletes /\ TrashIsRetained /\ CascadeIsWhole)'
  BY <1>1, <1>2 DEF RestoreKeepsOwnDeletes, TrashIsRetained, CascadeIsWhole
<1> QED
  BY <1>6, <1>7, <1>8, <1>9, <1>10 DEF TrashInv

LEMMA DropStep ==
  ASSUME TrashInv, DropEmptyDatabases
  PROVE  TrashInv'
<1>1. /\ TrashShape /\ TransactionsAreApart /\ OwnStamps /\ ReadsHold
      /\ RestoreKeepsOwnDeletes /\ TrashIsRetained /\ CascadeIsWhole
  BY DEF TrashInv
<1>2. /\ UNCHANGED <<state, stamp, frozen, dropped, now, cutoff, alone, trashExcused, raced, wrongly>>
      /\ tx[Purger].kind = "purge" /\ Purger \in TrashActors /\ tx[Purger] \in Transactions
      /\ tx' = [tx EXCEPT ![Purger].drops = EmptyInline(Purger)]
  BY <1>1 DEF DropEmptyDatabases, TrashActors, TrashShape
<1>3. EmptyInline(Purger) \in SUBSET RowsT
  BY RowsAreNumbers DEF EmptyInline
<1>4. /\ tx' \in [TrashActors -> Transactions] /\ tx'[Purger].drops = EmptyInline(Purger)
      /\ \A b \in TrashActors : /\ tx'[b].kind = tx[b].kind /\ tx'[b].root = tx[b].root /\ tx'[b].at = tx[b].at
                                /\ tx'[b].wrote = tx[b].wrote /\ tx'[b].todo = tx[b].todo
  BY <1>1, <1>2, <1>3 DEF TrashShape, Transactions
<1>5. \A b \in TrashActors : Touches(b)' = Touches(b)
  BY <1>4 DEF Touches
<1>6. TrashShape' /\ TransactionsAreApart' /\ OwnStamps'
  <2>1. TrashShape'
    BY <1>1, <1>2, <1>4 DEF TrashShape
  <2>2. TransactionsAreApart'
    BY <1>1, <1>2, <1>4, <1>5 DEF TransactionsAreApart
  <2> QED
    BY <1>1, <1>2, <2>1, <2>2 DEF OwnStamps, Exists
<1>7. \A d \in EmptyInline(Purger) :
        d = Depth \/ state[d] = "purged" \/ (d \in tx[Purger].wrote /\ state[d] = "trashed")
  BY <1>1, <1>2, RowsAreNumbers DEF EmptyInline, Changed, Writable, TrashShape, Exists
<1>8. ReadsHold'
  BY <1>1, <1>2, <1>4, <1>5, <1>7 DEF ReadsHold
<1> QED
  BY <1>1, <1>2, <1>6, <1>8 DEF TrashInv, RestoreKeepsOwnDeletes, TrashIsRetained, CascadeIsWhole

LEMMA AgeStep ==
  ASSUME TrashInv, Age
  PROVE  TrashInv'
<1>1. /\ TrashShape /\ TransactionsAreApart /\ OwnStamps /\ ReadsHold
      /\ RestoreKeepsOwnDeletes /\ TrashIsRetained /\ CascadeIsWhole
  BY DEF TrashInv
<1>2. /\ UNCHANGED <<state, stamp, frozen, dropped, now, tx, alone, trashExcused, raced, wrongly>>
      /\ cutoff < cutoff' /\ cutoff' \in Nat /\ cutoff \in Nat
      /\ \A r \in RowsT : stamp[r] \in Nat /\ (stamp[r] < cutoff => stamp[r] < cutoff')
  BY <1>1 DEF Age, TrashShape
<1>3. \A a \in TrashActors : Touches(a)' = Touches(a) /\ Touches(a) \subseteq RowsT
  BY <1>1, <1>2 DEF Touches, TrashShape, Transactions
<1>4. TrashShape' /\ TransactionsAreApart' /\ OwnStamps'
  BY <1>1, <1>2, <1>3 DEF TrashShape, TransactionsAreApart, OwnStamps, Exists
<1>5. ReadsHold'
  BY <1>1, <1>2, <1>3 DEF ReadsHold
<1> QED
  BY <1>1, <1>2, <1>4, <1>5 DEF TrashInv, RestoreKeepsOwnDeletes, TrashIsRetained, CascadeIsWhole

(* A user's commit, spelled out.                                            *)
LEMMA CommitEffect ==
  ASSUME TrashInv, NEW u \in Users, CommitUser(u)
  PROVE  /\ u \in TrashActors /\ u # Purger /\ tx[u].kind \in {"delete", "restore", "create"}
         /\ tx[u].todo = {} /\ Touches(u) = tx[u].wrote /\ tx[u].wrote \subseteq RowsT
         /\ tx[u].at \in Nat /\ Changed(u) \subseteq tx[u].wrote
         /\ UNCHANGED <<frozen, dropped, now, cutoff>>
         /\ state' \in [RowsT -> {"none", "live", "trashed", "purged"}] /\ stamp' \in [RowsT -> Nat]
         /\ \A r \in RowsT : r \notin Changed(u) => state'[r] = state[r] /\ stamp'[r] = stamp[r]
         /\ tx[u].kind = "delete" =>
              /\ \A r \in Changed(u) : state[r] = "live" /\ state'[r] = "trashed" /\ stamp'[r] = tx[u].at
              /\ alone' = (alone \ Changed(u)) \cup (Changed(u) \cap {tx[u].root})
              /\ trashExcused' = trashExcused \ Changed(u)
         /\ tx[u].kind \in {"restore", "create"} =>
              /\ \A r \in Changed(u) : /\ state[r] \in {"none", "trashed"} /\ state'[r] = "live"
                                       /\ stamp'[r] = stamp[r]
                                       /\ tx[u].kind = "restore" => state[r] = "trashed"
              /\ alone' = alone \ Changed(u) /\ trashExcused' = trashExcused \cup Changed(u)
         /\ wrongly' = wrongly \cup
              {<<"resurrected", r>> : r \in {q \in Changed(u) \ {tx[u].root} :
                                               tx[u].kind = "restore" /\ q \in alone}}
         /\ raced' = raced \cup Races(u)
         /\ tx' \in [TrashActors -> Transactions] /\ tx'[u] = NoTx
         /\ \A b \in TrashActors \ {u} : tx'[b] = tx[b] /\ Touches(b)' = Touches(b)
<1>1. /\ TrashShape /\ u \in TrashActors /\ u # Purger
  BY TrashAssumption DEF TrashInv, TrashActors
<1>2. tx[u] \in Transactions /\ tx[u].kind # "idle" /\ tx[u].todo = {}
  BY <1>1 DEF TrashShape, CommitUser, Ready
<1>3. /\ tx[u].kind \in {"delete", "restore", "create"} /\ tx[u].at \in Nat
      /\ tx[u].wrote \subseteq RowsT /\ Touches(u) = tx[u].wrote
  BY <1>1, <1>2 DEF TrashShape, Transactions, Touches
<1>4. Changed(u) \subseteq tx[u].wrote
  BY DEF Changed
<1>5. \A r \in Changed(u) : /\ tx[u].kind = "delete" => state[r] = "live"
                            /\ tx[u].kind = "restore" => state[r] = "trashed"
                            /\ tx[u].kind = "create" => state[r] = "none"
  BY <1>3 DEF Changed, Writable
<1>6. /\ UNCHANGED <<frozen, dropped, now, cutoff>> /\ raced' = raced \cup Races(u)
      /\ tx' = [tx EXCEPT ![u] = NoTx]
      /\ state' = [r \in RowsT |-> IF r \notin Changed(u) THEN state[r]
                                   ELSE IF tx[u].kind = "delete" THEN "trashed" ELSE "live"]
      /\ stamp' = [r \in RowsT |-> IF r \in Changed(u) /\ tx[u].kind = "delete" THEN tx[u].at ELSE stamp[r]]
      /\ wrongly' = wrongly \cup
              {<<"resurrected", r>> : r \in {q \in Changed(u) \ {tx[u].root} :
                                               tx[u].kind = "restore" /\ q \in alone}}
  BY DEF CommitUser
<1>7. /\ tx[u].kind = "delete" =>
              /\ alone' = (alone \ Changed(u)) \cup (Changed(u) \cap {tx[u].root})
              /\ trashExcused' = trashExcused \ Changed(u)
      /\ tx[u].kind \in {"restore", "create"} =>
              alone' = alone \ Changed(u) /\ trashExcused' = trashExcused \cup Changed(u)
  BY DEF CommitUser
<1>8. NoTx \in Transactions
  BY DEF NoTx, Transactions
<1>9. /\ tx' \in [TrashActors -> Transactions] /\ tx'[u] = NoTx
      /\ \A b \in TrashActors \ {u} : tx'[b] = tx[b]
  BY <1>1, <1>6, <1>8 DEF TrashShape
<1>10. \A b \in TrashActors \ {u} : Touches(b)' = Touches(b)
  BY <1>9 DEF Touches
<1>11. /\ state' \in [RowsT -> {"none", "live", "trashed", "purged"}] /\ stamp' \in [RowsT -> Nat]
       /\ \A r \in RowsT : r \notin Changed(u) => state'[r] = state[r] /\ stamp'[r] = stamp[r]
  BY <1>1, <1>3, <1>6 DEF TrashShape
<1>12. tx[u].kind = "delete" =>
         \A r \in Changed(u) : state[r] = "live" /\ state'[r] = "trashed" /\ stamp'[r] = tx[u].at
  BY <1>3, <1>4, <1>5, <1>6
<1>13. tx[u].kind \in {"restore", "create"} =>
         \A r \in Changed(u) : /\ state[r] \in {"none", "trashed"} /\ state'[r] = "live"
                               /\ stamp'[r] = stamp[r]
                               /\ tx[u].kind = "restore" => state[r] = "trashed"
  BY <1>3, <1>4, <1>5, <1>6
<1> QED
  BY <1>1, <1>2, <1>3, <1>4, <1>6, <1>7, <1>9, <1>10, <1>11, <1>12, <1>13

LEMMA CommitStep ==
  ASSUME TrashInv, NEW u \in Users, CommitUser(u)
  PROVE  TrashInv'
<1>1. /\ TrashShape /\ TransactionsAreApart /\ OwnStamps /\ ReadsHold
      /\ RestoreKeepsOwnDeletes /\ TrashIsRetained /\ CascadeIsWhole
  BY DEF TrashInv
<1>2. PICK ch : ch = Changed(u)
  OBVIOUS
<1>3. /\ u \in TrashActors /\ u # Purger /\ tx[u].kind \in {"delete", "restore", "create"}
      /\ tx[u].todo = {} /\ Touches(u) = tx[u].wrote /\ tx[u].wrote \subseteq RowsT
      /\ tx[u].at \in Nat /\ ch \subseteq tx[u].wrote
      /\ UNCHANGED <<frozen, dropped, now, cutoff>>
      /\ state' \in [RowsT -> {"none", "live", "trashed", "purged"}] /\ stamp' \in [RowsT -> Nat]
      /\ \A r \in RowsT : r \notin ch => state'[r] = state[r] /\ stamp'[r] = stamp[r]
      /\ raced' = raced \cup Races(u)
      /\ tx' \in [TrashActors -> Transactions] /\ tx'[u] = NoTx
      /\ \A b \in TrashActors \ {u} : tx'[b] = tx[b] /\ Touches(b)' = Touches(b)
  BY <1>2, CommitEffect
<1>4. ASSUME tx[u].kind = "delete"
      PROVE  /\ \A r \in ch : state[r] = "live" /\ state'[r] = "trashed" /\ stamp'[r] = tx[u].at
             /\ alone' = (alone \ ch) \cup (ch \cap {tx[u].root})
             /\ trashExcused' = trashExcused \ ch
  BY <1>2, <1>4, CommitEffect
<1>5. ASSUME tx[u].kind # "delete"
      PROVE  /\ \A r \in ch : /\ state[r] \in {"none", "trashed"} /\ state'[r] = "live"
                              /\ stamp'[r] = stamp[r]
                              /\ tx[u].kind = "restore" => state[r] = "trashed"
             /\ alone' = alone \ ch /\ trashExcused' = trashExcused \cup ch
  <2>1. tx[u].kind \in {"restore", "create"}
    BY <1>3, <1>5
  <2> QED
    BY <1>2, <2>1, CommitEffect
<1>6. wrongly' = wrongly \cup {<<"resurrected", r>> : r \in {q \in ch \ {tx[u].root} :
                                               tx[u].kind = "restore" /\ q \in alone}}
  BY <1>2, CommitEffect
<1>7. /\ NoTx.kind = "idle" /\ NoTx.todo = {} /\ NoTx.wrote = {} /\ NoTx.drops = {}
      /\ Touches(u)' = {} /\ Purger \in TrashActors
  BY <1>3 DEF NoTx, Touches, TrashActors
<1>8. \A b \in TrashActors \ {u} : \A r \in ch :
         r \in Touches(b) /\ tx[b].kind \in {"delete", "restore", "purge"} => r \in raced'
  <2> TAKE b \in TrashActors \ {u}
  <2> TAKE r \in ch
  <2>1. r \notin tx[b].wrote
    BY <1>1, <1>3 DEF TransactionsAreApart
  <2> QED
    BY <1>2, <1>3, <2>1 DEF Races, Touches
<1>9. TrashShape'
  BY <1>1, <1>3, <1>4, <1>5, <1>7 DEF TrashShape
<1>10. TransactionsAreApart'
  <2>1. \A b, c \in TrashActors : b # c => tx'[b].wrote \cap tx'[c].wrote = {}
    BY <1>1, <1>3, <1>7 DEF TransactionsAreApart
  <2>2. \A b \in TrashActors : tx'[b].kind = "idle" => Touches(b)' = {}
    BY <1>1, <1>3, <1>7 DEF TransactionsAreApart
  <2>3. \A r \in RowsT : stamp'[r] = stamp[r] \/ stamp'[r] = tx[u].at
    BY <1>3, <1>4, <1>5
  <2>4. tx[u].kind # "idle" /\ tx[u].at < now
    BY <1>1, <1>3 DEF TransactionsAreApart
  <2>5. ASSUME NEW b \in TrashActors, tx'[b].kind # "idle"
        PROVE  /\ tx'[b].at < now' /\ \A r \in RowsT : stamp'[r] # tx'[b].at
               /\ \A c \in TrashActors \ {b} : tx'[c].kind # "idle" => tx'[c].at # tx'[b].at
               /\ \A r \in Touches(b)' : r >= tx'[b].root
    <3>1. b # u /\ tx'[b] = tx[b] /\ tx[b].kind # "idle" /\ Touches(b)' = Touches(b)
      BY <1>3, <1>7, <2>5
    <3>2. tx[u].at # tx[b].at
      BY <1>1, <1>3, <2>4, <3>1 DEF TransactionsAreApart
    <3>3. tx'[b].at < now' /\ \A r \in RowsT : stamp'[r] # tx'[b].at
      BY <1>1, <1>3, <2>3, <3>1, <3>2 DEF TransactionsAreApart
    <3>4. \A c \in TrashActors \ {b} : tx'[c].kind # "idle" => tx'[c].at # tx'[b].at
      BY <1>1, <1>3, <1>7, <3>1 DEF TransactionsAreApart
    <3>5. \A r \in Touches(b)' : r >= tx'[b].root
      BY <1>1, <3>1 DEF TransactionsAreApart
    <3> QED
      BY <3>3, <3>4, <3>5
  <2>6. \A r \in RowsT : stamp'[r] < now'
    BY <1>1, <1>3, <2>3, <2>4 DEF TransactionsAreApart
  <2> QED
    BY <2>1, <2>2, <2>5, <2>6 DEF TransactionsAreApart
<1>11. OwnStamps'
  <2>1. \A r \in RowsT : stamp[r] # tx[u].at
    BY <1>1, <1>3 DEF TransactionsAreApart
  <2>2. \A r \in ch : r >= tx[u].root /\ r \in RowsT
    BY <1>1, <1>3 DEF TransactionsAreApart
  <2>3. ASSUME NEW p \in RowsT, NEW q \in RowsT, p < q, state'[p] = "trashed", state'[q] = "trashed",
               stamp'[p] = stamp'[q], q \in alone'
        PROVE  FALSE
    <3>1. CASE tx[u].kind = "delete"
      <4>1. p \in ch <=> q \in ch
        BY <1>3, <1>4, <2>1, <2>3, <3>1
      <4>2. CASE p \in ch
        <5>1. q = tx[u].root /\ p >= tx[u].root
          BY <1>4, <2>2, <2>3, <3>1, <4>1, <4>2
        <5>2. p \in Nat /\ q \in Nat
          BY RowsAreNumbers
        <5> QED
          BY <2>3, <5>1, <5>2
      <4>3. CASE p \notin ch
        BY <1>1, <1>3, <1>4, <2>3, <3>1, <4>1, <4>3 DEF OwnStamps
      <4> QED
        BY <4>2, <4>3
    <3>2. CASE tx[u].kind # "delete"
      <4>1. p \notin ch /\ q \notin ch /\ q \in alone
        BY <1>5, <2>3, <3>2
      <4> QED
        BY <1>1, <1>3, <2>3, <4>1 DEF OwnStamps
    <3> QED
      BY <3>1, <3>2
  <2>4. \A r \in RowsT : r \in alone' => state'[r] # "live"
    BY <1>1, <1>3, <1>4, <1>5 DEF OwnStamps
  <2>5. \A r \in RowsT : r \in dropped' => ~Exists(r)'
    <3>1. ASSUME NEW r \in RowsT, r \in dropped, r \in ch PROVE FALSE
      <4>1. state[r] # "live" /\ state[r] # "trashed"
        BY <1>1, <3>1 DEF OwnStamps, Exists
      <4>2. tx[u].kind = "create" /\ r \in Touches(u)
        BY <1>3, <1>4, <1>5, <3>1, <4>1
      <4> QED
        BY <1>1, <1>3, <3>1, <4>2 DEF ReadsHold
    <3> QED
      BY <1>1, <1>3, <3>1 DEF OwnStamps, Exists
  <2> QED
    BY <2>3, <2>4, <2>5 DEF OwnStamps
<1>12. ReadsHold'
  <2>1. ASSUME NEW b \in TrashActors, b # u
        PROVE  /\ tx[b].kind = "restore" =>
                    \A r \in Touches(b) \ {tx[b].root} : r \in alone' => r \in raced'
               /\ tx[b].kind = "purge" => \A r \in Touches(b) : stamp'[r] < cutoff \/ r \in raced'
               /\ tx[b].kind = "create" => Touches(b) = {Depth} /\ tx[b].wrote = {Depth} /\ Depth \notin dropped
               /\ tx[b].kind = "delete" =>
                    \A r \in 2 .. Depth : r - 1 \in Touches(b) /\ r \notin Touches(b) /\ state'[r] = "live"
                                            => r \in trashExcused'
    <3>0. Touches(b) \subseteq RowsT
      BY <1>1 DEF TrashShape, Transactions, Touches
    <3>1. ASSUME tx[b].kind = "restore", NEW r \in Touches(b) \ {tx[b].root}, r \in alone'
          PROVE  r \in raced'
      <4>1. CASE r \in ch
        BY <1>8, <2>1, <3>1, <4>1
      <4>2. CASE r \notin ch
        <5>1. r \in alone
          BY <1>4, <1>5, <3>1, <4>2
        <5> QED
          BY <1>1, <1>3, <2>1, <3>1, <5>1 DEF ReadsHold
      <4> QED
        BY <4>1, <4>2
    <3>2. ASSUME tx[b].kind = "purge", NEW r \in Touches(b)
          PROVE  stamp'[r] < cutoff \/ r \in raced'
      <4>1. CASE r \in ch
        BY <1>8, <2>1, <3>2, <4>1
      <4>2. CASE r \notin ch
        BY <1>1, <1>3, <2>1, <3>0, <3>2, <4>2 DEF ReadsHold
      <4> QED
        BY <4>1, <4>2
    <3>3. ASSUME tx[b].kind = "delete", NEW r \in 2 .. Depth, r - 1 \in Touches(b), r \notin Touches(b),
                 state'[r] = "live"
          PROVE  r \in trashExcused'
      <4>1. CASE r \in ch
        BY <1>4, <1>5, <3>3, <4>1
      <4>2. CASE r \notin ch
        <5>1. state[r] = "live"
          BY <1>3, <3>3, <4>2, RowsAreNumbers
        <5>2. r \in trashExcused
          BY <1>1, <2>1, <3>3, <5>1 DEF ReadsHold
        <5> QED
          BY <1>4, <1>5, <4>2, <5>2
      <4> QED
        BY <4>1, <4>2
    <3> QED
      BY <1>1, <2>1, <3>1, <3>2, <3>3 DEF ReadsHold
  <2>2. ASSUME NEW d \in tx[Purger].drops
        PROVE  d = Depth \/ state'[d] = "purged" \/ (d \in tx[Purger].wrote /\ state'[d] = "trashed")
    <3>1. d \in RowsT
      BY <1>1, <1>7, <2>2 DEF TrashShape, Transactions
    <3>2. CASE d = Depth
      BY <3>2
    <3>3. CASE state[d] = "purged"
      BY <1>3, <1>4, <1>5, <3>1, <3>3
    <3>4. CASE d \in tx[Purger].wrote /\ state[d] = "trashed"
      <4>1. d \notin ch
        BY <1>1, <1>3, <1>7, <3>4 DEF TransactionsAreApart
      <4> QED
        BY <1>3, <3>1, <3>4, <4>1
    <3> QED
      BY <1>1, <2>2, <3>2, <3>3, <3>4 DEF ReadsHold
  <2>3. tx'[Purger] = tx[Purger]
    BY <1>3, <1>7
  <2>4. ASSUME NEW b \in TrashActors
        PROVE  /\ tx'[b].kind = "restore" =>
                    \A r \in Touches(b)' \ {tx'[b].root} : r \in alone' => r \in raced'
               /\ tx'[b].kind = "purge" => \A r \in Touches(b)' : stamp'[r] < cutoff' \/ r \in raced'
               /\ tx'[b].kind = "create" => /\ Touches(b)' = {Depth} /\ tx'[b].wrote = {Depth}
                                            /\ Depth \notin dropped'
               /\ tx'[b].kind = "delete" =>
                    \A r \in 2 .. Depth : r - 1 \in Touches(b)' /\ r \notin Touches(b)' /\ state'[r] = "live"
                                            => r \in trashExcused'
    <3>1. CASE b = u
      BY <1>3, <1>7, <3>1
    <3>2. CASE b # u
      BY <1>3, <2>1, <3>2
    <3> QED
      BY <3>1, <3>2
  <2> QED
    BY <2>2, <2>3, <2>4 DEF ReadsHold
<1>13. RestoreKeepsOwnDeletes'
  <2>1. ASSUME NEW r \in RowsT, <<"resurrected", r>> \in wrongly' PROVE r \in raced'
    <3>1. CASE <<"resurrected", r>> \in wrongly
      BY <1>1, <1>3, <3>1 DEF RestoreKeepsOwnDeletes
    <3>2. CASE r \in ch \ {tx[u].root} /\ tx[u].kind = "restore" /\ r \in alone
      BY <1>1, <1>3, <3>2 DEF ReadsHold
    <3> QED
      BY <1>6, <2>1, <3>1, <3>2
  <2> QED
    BY <2>1 DEF RestoreKeepsOwnDeletes
<1>14. TrashIsRetained'
  <2>1. ASSUME NEW r \in RowsT, <<"too fresh", r>> \in wrongly' PROVE <<"too fresh", r>> \in wrongly
    BY <1>6, <2>1
  <2> QED
    BY <1>1, <1>3, <2>1 DEF TrashIsRetained
<1>15. CascadeIsWhole'
  <2>1. ASSUME NEW r \in 2 .. Depth, state'[r] = "live", state'[r - 1] \in {"trashed", "purged"}
        PROVE  r \in trashExcused'
    <3>1. r \in RowsT /\ r - 1 \in RowsT
      BY RowsAreNumbers
    <3>2. CASE r \in ch
      BY <1>4, <1>5, <2>1, <3>2
    <3>3. CASE r \notin ch
      <4>1. state[r] = "live"
        BY <1>3, <2>1, <3>1, <3>3
      <4>2. CASE r - 1 \in ch
        <5>1. tx[u].kind = "delete"
          BY <1>5, <2>1, <4>2
        <5>2. r \notin Touches(u)
          BY <1>2, <1>3, <3>3, <4>1, <5>1 DEF Changed, Writable
        <5>3. r \in trashExcused
          BY <1>1, <1>3, <4>1, <4>2, <5>1, <5>2 DEF ReadsHold
        <5> QED
          BY <1>4, <3>3, <5>1, <5>3
      <4>3. CASE r - 1 \notin ch
        <5>1. r \in trashExcused
          BY <1>1, <1>3, <2>1, <3>1, <4>1, <4>3 DEF CascadeIsWhole
        <5> QED
          BY <1>4, <1>5, <3>3, <5>1
      <4> QED
        BY <4>2, <4>3
    <3> QED
      BY <3>2, <3>3
  <2> QED
    BY <2>1 DEF CascadeIsWhole
<1> QED
  BY <1>9, <1>10, <1>11, <1>12, <1>13, <1>14, <1>15 DEF TrashInv

(* The purge's commit, spelled out.  A partition dropped with a row that the *)
(* purge did not write itself held the row created meanwhile, nothing else.  *)
LEMMA PurgeEffect ==
  ASSUME TrashInv, CommitPurge
  PROVE  \E gone \in SUBSET {Depth} :
           /\ Purger \in TrashActors /\ tx[Purger].kind = "purge" /\ Touches(Purger) = tx[Purger].wrote
           /\ Changed(Purger) \subseteq tx[Purger].wrote /\ tx[Purger].wrote \subseteq RowsT
           /\ tx[Purger].drops \subseteq RowsT
           /\ \A b \in TrashActors \ {Purger} : tx[b].wrote \cap tx[Purger].drops = {}
           /\ \A r \in Changed(Purger) : state[r] = "trashed"
           /\ gone = {d \in tx[Purger].drops \ Changed(Purger) : Exists(d)}
           /\ UNCHANGED <<stamp, frozen, now, cutoff, alone>>
           /\ state' \in [RowsT -> {"none", "live", "trashed", "purged"}]
           /\ \A r \in RowsT : state'[r] = IF r \in Changed(Purger) \cup gone THEN "purged" ELSE state[r]
           /\ dropped' = dropped \cup tx[Purger].drops
           /\ wrongly' = wrongly \cup {<<"destroyed", r>> : r \in gone}
                                 \cup {<<"too fresh", r>> : r \in {q \in Changed(Purger) : stamp[q] >= cutoff}}
           /\ trashExcused' = trashExcused \ (Changed(Purger) \cup gone)
           /\ raced \cup gone \subseteq raced'
           /\ tx' \in [TrashActors -> Transactions] /\ tx'[Purger] = NoTx
           /\ \A b \in TrashActors \ {Purger} : tx'[b] = tx[b] /\ Touches(b)' = Touches(b)
<1>1. /\ TrashShape /\ ReadsHold /\ Purger \in TrashActors
  BY DEF TrashInv, TrashActors
<1>2. /\ tx[Purger] \in Transactions /\ tx[Purger].kind = "purge" /\ tx[Purger].todo = {}
  BY <1>1 DEF TrashShape, CommitPurge, Ready
<1>3. /\ tx[Purger].wrote \subseteq RowsT /\ tx[Purger].drops \subseteq RowsT
      /\ Touches(Purger) = tx[Purger].wrote
  BY <1>2 DEF Transactions, Touches
<1>4. Changed(Purger) \subseteq tx[Purger].wrote /\ \A r \in Changed(Purger) : state[r] = "trashed"
  BY <1>2 DEF Changed, Writable
<1>5. PICK gone : gone = {d \in tx[Purger].drops \ Changed(Purger) : Exists(d)}
  OBVIOUS
<1>6. gone \in SUBSET {Depth}
  <2>1. ASSUME NEW d \in gone PROVE d = Depth
    <3>1. d \in tx[Purger].drops /\ d \notin Changed(Purger) /\ state[d] # "purged"
      BY <1>5, <2>1 DEF Exists
    <3>2. ~(d \in tx[Purger].wrote /\ state[d] = "trashed")
      BY <1>2, <3>1 DEF Changed, Writable
    <3> QED
      BY <1>1, <3>1, <3>2 DEF ReadsHold
  <2> QED
    BY <2>1
<1>7. /\ UNCHANGED <<stamp, frozen, now, cutoff, alone>>
      /\ \A d \in tx[Purger].drops : ~HeldByOther(Purger, d)
      /\ state' = [r \in RowsT |-> IF r \in Changed(Purger) \cup gone THEN "purged" ELSE state[r]]
      /\ dropped' = dropped \cup tx[Purger].drops
      /\ wrongly' = wrongly \cup {<<"destroyed", r>> : r \in gone}
                            \cup {<<"too fresh", r>> : r \in {q \in Changed(Purger) : stamp[q] >= cutoff}}
      /\ trashExcused' = trashExcused \ (Changed(Purger) \cup gone)
      /\ raced' = raced \cup Races(Purger) \cup gone
      /\ tx' = [tx EXCEPT ![Purger] = NoTx]
  BY <1>5 DEF CommitPurge
<1>8. NoTx \in Transactions
  BY DEF NoTx, Transactions
<1>9. /\ tx' \in [TrashActors -> Transactions] /\ tx'[Purger] = NoTx
      /\ \A b \in TrashActors \ {Purger} : tx'[b] = tx[b]
  BY <1>1, <1>7, <1>8 DEF TrashShape
<1>10. \A b \in TrashActors \ {Purger} : Touches(b)' = Touches(b)
  BY <1>9 DEF Touches
<1>11. \A b \in TrashActors \ {Purger} : tx[b].wrote \cap tx[Purger].drops = {}
  BY <1>7 DEF HeldByOther
<1>12. /\ state' \in [RowsT -> {"none", "live", "trashed", "purged"}]
       /\ \A r \in RowsT : state'[r] = IF r \in Changed(Purger) \cup gone THEN "purged" ELSE state[r]
  BY <1>1, <1>7 DEF TrashShape
<1> QED
  BY <1>1, <1>2, <1>3, <1>4, <1>5, <1>6, <1>7, <1>9, <1>10, <1>11, <1>12

LEMMA CommitPurgeStep ==
  ASSUME TrashInv, CommitPurge
  PROVE  TrashInv' /\ \A r \in RowsT : state[r] = "live" /\ state'[r] = "purged" => r = Depth /\ r \in raced'
<1>1. /\ TrashShape /\ TransactionsAreApart /\ OwnStamps /\ ReadsHold
      /\ RestoreKeepsOwnDeletes /\ TrashIsRetained /\ CascadeIsWhole
  BY DEF TrashInv
<1>2. PICK ch : ch = Changed(Purger)
  OBVIOUS
<1>3. PICK gone \in SUBSET {Depth} :
        /\ Purger \in TrashActors /\ tx[Purger].kind = "purge" /\ Touches(Purger) = tx[Purger].wrote
        /\ ch \subseteq tx[Purger].wrote /\ tx[Purger].wrote \subseteq RowsT
        /\ tx[Purger].drops \subseteq RowsT
        /\ \A b \in TrashActors \ {Purger} : tx[b].wrote \cap tx[Purger].drops = {}
        /\ \A r \in ch : state[r] = "trashed"
        /\ gone = {d \in tx[Purger].drops \ ch : Exists(d)}
        /\ UNCHANGED <<stamp, frozen, now, cutoff, alone>>
        /\ state' \in [RowsT -> {"none", "live", "trashed", "purged"}]
        /\ \A r \in RowsT : state'[r] = IF r \in ch \cup gone THEN "purged" ELSE state[r]
        /\ dropped' = dropped \cup tx[Purger].drops
        /\ wrongly' = wrongly \cup {<<"destroyed", r>> : r \in gone}
                              \cup {<<"too fresh", r>> : r \in {q \in ch : stamp[q] >= cutoff}}
        /\ trashExcused' = trashExcused \ (ch \cup gone)
        /\ raced \cup gone \subseteq raced'
        /\ tx' \in [TrashActors -> Transactions] /\ tx'[Purger] = NoTx
        /\ \A b \in TrashActors \ {Purger} : tx'[b] = tx[b] /\ Touches(b)' = Touches(b)
  BY <1>2, PurgeEffect
<1>0. /\ Purger \in TrashActors /\ tx'[Purger] = NoTx /\ now' = now /\ stamp' = stamp /\ cutoff' = cutoff
      /\ \A b \in TrashActors \ {Purger} : tx'[b] = tx[b] /\ Touches(b)' = Touches(b)
  BY <1>3
<1>4. /\ NoTx.kind = "idle" /\ NoTx.todo = {} /\ NoTx.wrote = {} /\ NoTx.drops = {}
      /\ Touches(Purger)' = {}
  BY <1>0 DEF NoTx, Touches
<1>5. TrashShape'
  BY <1>1, <1>3, <1>4 DEF TrashShape
<1>6. TransactionsAreApart'
  <2>1. \A b, c \in TrashActors : b # c => tx'[b].wrote \cap tx'[c].wrote = {}
    BY <1>1, <1>0, <1>4 DEF TransactionsAreApart
  <2>2. \A b \in TrashActors : tx'[b].kind = "idle" => Touches(b)' = {}
    BY <1>1, <1>0, <1>4 DEF TransactionsAreApart
  <2>3. ASSUME NEW b \in TrashActors, tx'[b].kind # "idle"
        PROVE  /\ tx'[b].at < now' /\ \A r \in RowsT : stamp'[r] # tx'[b].at
               /\ \A c \in TrashActors \ {b} : tx'[c].kind # "idle" => tx'[c].at # tx'[b].at
               /\ \A r \in Touches(b)' : r >= tx'[b].root
    <3>1. b # Purger /\ tx'[b] = tx[b] /\ tx[b].kind # "idle" /\ Touches(b)' = Touches(b)
      BY <1>0, <1>4, <2>3
    <3>2. \A c \in TrashActors \ {b} : tx'[c].kind # "idle" => tx'[c].at # tx'[b].at
      BY <1>1, <1>0, <1>4, <3>1 DEF TransactionsAreApart
    <3> QED
      BY <1>1, <1>0, <3>1, <3>2 DEF TransactionsAreApart
  <2>4. \A r \in RowsT : stamp'[r] < now'
    BY <1>1, <1>0 DEF TransactionsAreApart
  <2> QED
    BY <2>1, <2>2, <2>3, <2>4 DEF TransactionsAreApart
<1>7. OwnStamps'
  <2>1. \A r \in RowsT : state'[r] \in {"live", "trashed"} => state'[r] = state[r] /\ r \notin ch \cup gone
    BY <1>3
  <2>2. \A r \in RowsT : r \in dropped' => ~Exists(r)'
    BY <1>1, <1>3, <2>1 DEF OwnStamps, Exists
  <2> QED
    BY <1>1, <1>3, <2>1, <2>2 DEF OwnStamps
<1>8. ReadsHold'
  <2>1. ASSUME NEW b \in TrashActors
        PROVE  /\ tx'[b].kind = "restore" =>
                    \A r \in Touches(b)' \ {tx'[b].root} : r \in alone' => r \in raced'
               /\ tx'[b].kind = "purge" => \A r \in Touches(b)' : stamp'[r] < cutoff' \/ r \in raced'
               /\ tx'[b].kind = "create" => /\ Touches(b)' = {Depth} /\ tx'[b].wrote = {Depth}
                                            /\ Depth \notin dropped'
               /\ tx'[b].kind = "delete" =>
                    \A r \in 2 .. Depth : r - 1 \in Touches(b)' /\ r \notin Touches(b)' /\ state'[r] = "live"
                                            => r \in trashExcused'
    <3>1. CASE b = Purger
      BY <1>3, <1>4, <3>1
    <3>2. CASE b # Purger
      <4>1. tx'[b] = tx[b] /\ Touches(b)' = Touches(b) /\ tx[b].wrote \cap tx[Purger].drops = {}
        BY <1>3, <3>2
      <4>2. tx[b].kind # "purge"
        BY <1>1, <3>2 DEF TrashShape
      <4>3. tx[b].kind = "restore" => \A r \in Touches(b) \ {tx[b].root} : r \in alone' => r \in raced'
        BY <1>1, <1>3 DEF ReadsHold
      <4>4. tx[b].kind = "create" => /\ Touches(b) = {Depth} /\ tx[b].wrote = {Depth}
                                     /\ Depth \notin dropped'
        BY ZenonT(60), <1>1, <1>3, <4>1 DEF ReadsHold
      <4>5. ASSUME tx[b].kind = "delete", NEW r \in 2 .. Depth, r - 1 \in Touches(b), r \notin Touches(b),
                   state'[r] = "live"
            PROVE  r \in trashExcused'
        <5>1. state[r] = "live" /\ r \notin ch \cup gone
          BY <1>3, <4>5, RowsAreNumbers
        <5> QED
          BY <1>1, <1>3, <4>5, <5>1 DEF ReadsHold
      <4> QED
        BY <4>1, <4>2, <4>3, <4>4, <4>5
    <3> QED
      BY <3>1, <3>2
  <2>2. tx'[Purger].drops = {}
    BY <1>3, <1>4
  <2> QED
    BY <2>1, <2>2 DEF ReadsHold
<1>9. RestoreKeepsOwnDeletes'
  <2>1. ASSUME NEW r \in RowsT, <<"resurrected", r>> \in wrongly' PROVE <<"resurrected", r>> \in wrongly
    BY <1>3, <2>1
  <2> QED
    BY <1>1, <1>3, <2>1 DEF RestoreKeepsOwnDeletes
<1>10. TrashIsRetained'
  <2>1. ASSUME NEW r \in RowsT, <<"too fresh", r>> \in wrongly' PROVE r \in raced'
    <3>1. CASE <<"too fresh", r>> \in wrongly
      BY <1>1, <1>3, <3>1 DEF TrashIsRetained
    <3>2. CASE r \in ch /\ stamp[r] >= cutoff
      <4>1. r \in Touches(Purger) /\ stamp[r] \in Nat /\ cutoff \in Nat
        BY ZenonT(60), <1>1, <1>3, <3>2 DEF TrashShape
      <4>2. tx[Purger].kind = "purge" /\ raced \subseteq raced'
        BY <1>3
      <4>3. stamp[r] < cutoff \/ r \in raced
        BY <1>0, <1>1, <4>1, <4>2 DEF ReadsHold
      <4>4. ~(stamp[r] < cutoff)
        BY <3>2, <4>1
      <4> QED
        BY <4>2, <4>3, <4>4
    <3> QED
      BY ZenonT(60), <1>3, <2>1, <3>1, <3>2
  <2> QED
    BY <2>1 DEF TrashIsRetained
<1>11. CascadeIsWhole'
  <2>1. ASSUME NEW r \in 2 .. Depth, state'[r] = "live", state'[r - 1] \in {"trashed", "purged"}
        PROVE  r \in trashExcused'
    <3>1. r \in RowsT /\ r - 1 \in RowsT /\ r - 1 # Depth
      BY RowsAreNumbers
    <3>2. r \notin ch \cup gone /\ state[r] = "live"
      BY <1>3, <2>1, <3>1
    <3>3. state[r - 1] \in {"trashed", "purged"}
      BY <1>3, <2>1, <3>1
    <3> QED
      BY <1>1, <1>3, <3>2, <3>3 DEF CascadeIsWhole
  <2> QED
    BY <2>1 DEF CascadeIsWhole
<1>12. \A r \in RowsT : state[r] = "live" /\ state'[r] = "purged" => r = Depth /\ r \in raced'
  BY <1>3
<1> QED
  BY <1>5, <1>6, <1>7, <1>8, <1>9, <1>10, <1>11, <1>12 DEF TrashInv

LEMMA TrashSteps == TrashInv /\ [TrashNext]_trashVars => TrashInv'
<1> SUFFICES ASSUME TrashInv, [TrashNext]_trashVars PROVE TrashInv'
  OBVIOUS
<1>1. CASE UNCHANGED trashVars
  BY ZenonT(60), <1>1 DEF trashVars, TrashInv, TrashShape, TransactionsAreApart, OwnStamps, ReadsHold, Touches, Exists,
              RestoreKeepsOwnDeletes, TrashIsRetained, CascadeIsWhole
<1>2. ASSUME NEW u \in Users, NEW r \in RowsT, ItemDelete(u, r) PROVE TrashInv'
  BY <1>2, DeleteStep
<1>3. ASSUME NEW u \in Users, NEW r \in RowsT, RestoreItem(u, r) PROVE TrashInv'
  BY <1>3, RestoreStep
<1>4. ASSUME NEW u \in Users, CreateBelow(u) PROVE TrashInv'
  BY <1>4, CreateBelowStep
<1>5. ASSUME NEW u \in Users, CommitUser(u) PROVE TrashInv'
  BY <1>5, CommitStep
<1>6. ASSUME NEW a \in TrashActors, WriteRow(a) PROVE TrashInv'
  BY <1>6, WriteStep
<1>7. ASSUME NEW r \in RowsT, PurgeExpiredTrashSubtree(r) PROVE TrashInv'
  BY <1>7, PurgeStep
<1>8. CASE DropEmptyDatabases
  BY <1>8, DropStep
<1>9. CASE CommitPurge
  BY <1>9, CommitPurgeStep
<1>10. CASE Age
  BY <1>10, AgeStep
<1> QED
  BY <1>1, <1>2, <1>3, <1>4, <1>5, <1>6, <1>7, <1>8, <1>9, <1>10 DEF TrashNext

(* Row locks exclude, a transaction's time marks what it alone trashed, and *)
(* what an open transaction has read holds unless another one raced it.     *)
THEOREM TrashInvariance == TrashSpec => []TrashInv
<1> QED
  BY TrashInitially, TrashSteps, PTL DEF TrashSpec

(* itemTrash.ts: a restore brings back no row that was trashed on its own,  *)
(* unless another transaction changed it between the walk and the write.    *)
THEOREM RestoreIsExact == TrashSpec => []RestoreKeepsOwnDeletes
<1>1. TrashInv => RestoreKeepsOwnDeletes
  BY DEF TrashInv
<1> QED
  BY <1>1, TrashInvariance, PTL

(* itemTrash.ts: only what is past its retention is purged, unless it was   *)
(* restored and trashed again under the running purge.                      *)
THEOREM PurgedWasExpired == TrashSpec => []TrashIsRetained
<1>1. TrashInv => TrashIsRetained
  BY DEF TrashInv
<1> QED
  BY <1>1, TrashInvariance, PTL

(* itemTrash.ts: below a row in the trash nothing is live but what was      *)
(* restored or created there.                                               *)
THEOREM CascadesAreWhole == TrashSpec => []CascadeIsWhole
<1>1. TrashInv => CascadeIsWhole
  BY DEF TrashInv
<1> QED
  BY <1>1, TrashInvariance, PTL

LEMMA OthersDestroyNothing ==
  ASSUME TrashInv, [TrashNext]_trashVars, ~CommitPurge, NEW r \in RowsT, state[r] = "live"
  PROVE  state'[r] # "purged"
<1>1. CASE state' = state
  BY <1>1
<1>2. ASSUME NEW u \in Users, CommitUser(u) PROVE state'[r] # "purged"
  <2>1. state' = [q \in RowsT |-> IF q \notin Changed(u) THEN state[q]
                                  ELSE IF tx[u].kind = "delete" THEN "trashed" ELSE "live"]
    BY <1>2 DEF CommitUser
  <2> QED
    BY <2>1
<1>3. state' = state \/ \E u \in Users : CommitUser(u)
  BY DEF TrashNext, trashVars, ItemDelete, RestoreItem, CreateBelow, WriteRow, PurgeExpiredTrashSubtree,
         DropEmptyDatabases, Age
<1> QED
  BY <1>1, <1>2, <1>3

(* itemTrash.ts and the partition's drop: no transaction destroys a live    *)
(* row, but the one created in a partition while the purge drops it.        *)
THEOREM LiveRowsAreKept == TrashSpec => LiveRowsSurvive
<1>1. TrashInv /\ [TrashNext]_trashVars
        => [\A r \in RowsT : state[r] = "live" /\ state'[r] = "purged" => r = Depth /\ r \in raced']_trashVars
  <2> SUFFICES ASSUME TrashInv, [TrashNext]_trashVars, NEW r \in RowsT,
                      state[r] = "live", state'[r] = "purged"
               PROVE  r = Depth /\ r \in raced'
    OBVIOUS
  <2>1. CASE CommitPurge
    BY <2>1, CommitPurgeStep
  <2>2. CASE ~CommitPurge
    BY <2>2, OthersDestroyNothing
  <2> QED
    BY <2>1, <2>2
<1> QED
  BY <1>1, TrashInvariance, PTL DEF TrashSpec, LiveRowsSurvive

-----------------------------------------------------------------------------
(* The history of a document. Max, which compactions and re-baselines take *)
(* their boundary from: every set of naturals has a least element, so a    *)
(* bounded one has a greatest.                                             *)

\* Max of a set of update ids is what its name says.
LEMMA MaxIsLast ==
  ASSUME NEW n \in Nat, NEW S \in SUBSET (1 .. n), S # {}
  PROVE  Max(S) \in S /\ \A y \in S : y <= Max(S)
<1> DEFINE T == {n - x : x \in S}
<1>1. PICK t \in T : \A y \in T : t <= y
  <2>1. \A x \in S : n - x \in Nat
    OBVIOUS
  <2>2. T \in SUBSET Nat /\ T # {}
    BY <2>1
  <2> HIDE DEF T
  <2> QED
    BY <2>2, Least
<1>2. PICK m \in S : t = n - m
  OBVIOUS
<1>3. \A y \in S : y <= m
  <2> TAKE y \in S
  <2>1. n - y \in T
    OBVIOUS
  <2>2. t <= n - y
    BY <1>1, <2>1
  <2> QED
    BY <1>2, <2>2
<1> QED
  BY <1>3 DEF Max

LEMMA HistInitially == HistInit => HistInv
BY DocHistoryAssumption DEF HistInit, HistInv, HistShape, CheckpointTimes, HistoryIsOrdered, IsBaseline,
     DocIsWhole, UpdateIds, Never

\* A compaction takes every update: its boundary is the last one.
LEMMA CompactionEffect ==
  ASSUME HistShape, Compacts
  PROVE  /\ Len(createdAt) > 0 /\ CompactionCheckpoint.through = Len(createdAt)
         /\ CompactionCheckpoint.at = createdAt[Len(createdAt)]
         /\ CompactionCheckpoint.at \in Nat
         /\ CompactionCheckpoint.expires \in Nat /\ CompactionCheckpoint.expires # Never
         /\ CompactionCheckpoint.holds = 1 .. Len(createdAt)
<1>1. unmerged # {}
  <2>1. SUFFICES ASSUME unmerged = {} PROVE FALSE
    OBVIOUS
  <2>2. Cardinality(unmerged) = 0
    BY <2>1, FS_EmptySet
  <2>3. Cardinality(unmerged) >= CompactAt /\ CompactAt \in Nat \ {0}
    BY DocHistoryAssumption DEF Compacts
  <2> QED
    BY <2>2, <2>3
<1>2. Len(createdAt) \in Nat /\ unmerged \in SUBSET (1 .. Len(createdAt)) /\ Len(createdAt) \in unmerged
  BY <1>1 DEF HistShape, DocIsWhole, UpdateIds
<1>3. Max(unmerged) = Len(createdAt)
  <2> DEFINE m == Max(unmerged)
  <2>1. m \in unmerged /\ Len(createdAt) <= m
    BY <1>1, <1>2, MaxIsLast
  <2> HIDE DEF m
  <2>2. m \in 1 .. Len(createdAt)
    BY <1>2, <2>1
  <2>3. m = Len(createdAt)
    BY <1>2, <2>1, <2>2
  <2> QED
    BY <2>3 DEF m
<1>4. Len(createdAt) > 0 /\ createdAt[Len(createdAt)] \in Nat
  BY <1>2 DEF HistShape
<1>5. snapshot \union unmerged = 1 .. Len(createdAt)
  BY DEF HistShape, DocIsWhole, UpdateIds
<1> QED
  BY <1>3, <1>4, <1>5, DocHistoryAssumption DEF CompactionCheckpoint, Never

\* Whether or not a step compacts: checkpoints stay, and the new one is last.
LEMMA Growing ==
  ASSUME HistInv,
         Len(createdAt') \in Nat, Len(createdAt) <= Len(createdAt'),
         \A i \in 1 .. Len(createdAt) : createdAt'[i] = createdAt[i],
         availableFrom' = availableFrom, (UpdateIds \ mirror)' \subseteq UpdateIds \ mirror,
         \/ checkpoints' = checkpoints /\ overtaken' = overtaken
         \/ /\ Compacts /\ checkpoints' = checkpoints \union {CompactionCheckpoint}
            /\ overtaken' = (overtaken \/ \E k \in checkpoints : k.at > CompactionCheckpoint.at)
  PROVE  /\ \A k \in checkpoints' : /\ k.through \in 0 .. Len(createdAt') /\ k.at \in Nat /\ k.expires \in Nat
         /\ CheckpointTimes'
         /\ (\E k \in checkpoints : k.expires = Never /\ k.at = availableFrom)'
         /\ (~overtaken => HistoryIsOrdered)'
<1> DEFINE n == Len(createdAt)
           c == CompactionCheckpoint
<1>0. HistShape /\ CheckpointTimes /\ n \in Nat
  BY DEF HistInv, HistShape
<1>1. checkpoints' # checkpoints =>
         /\ n > 0 /\ c.through = n /\ c.at = createdAt[n] /\ c.at \in Nat
         /\ c.expires \in Nat /\ c.expires # Never /\ c.holds = 1 .. n
  BY <1>0, CompactionEffect
<1> HIDE DEF c
<1>2. \A k \in checkpoints : /\ k.through \in 0 .. n /\ k.at \in Nat /\ k.expires \in Nat
  BY <1>0 DEF HistShape
<1>3. \A k \in checkpoints' : k \in checkpoints \/ (checkpoints' # checkpoints /\ k = c)
  BY DEF c
<1>4. \A k \in checkpoints : k \in checkpoints'
  OBVIOUS
<1>5. \A i \in 1 .. n : createdAt'[i] = createdAt[i]
  OBVIOUS
<1>6. \A k \in checkpoints' : /\ k.through \in 0 .. n /\ k.at \in Nat /\ k.expires \in Nat
  BY <1>0, <1>1, <1>2, <1>3
<1>7. CheckpointTimes'
  <2>1. SUFFICES ASSUME NEW k \in checkpoints'
                 PROVE  /\ k.expires = Never => k.at <= availableFrom'
                        /\ k.expires # Never => k.through > 0 /\ k.at = createdAt'[k.through]
    BY DEF CheckpointTimes
  <2>2. CASE k \in checkpoints
    BY <1>0, <1>2, <1>5, <2>2 DEF CheckpointTimes
  <2>3. CASE k \notin checkpoints
    BY <1>0, <1>1, <1>3, <1>5, <2>1, <2>3
  <2> QED
    BY <2>2, <2>3
<1>8. (\E k \in checkpoints : k.expires = Never /\ k.at = availableFrom)'
  BY <1>4 DEF HistInv
<1>9. ASSUME ~overtaken' PROVE HistoryIsOrdered'
  <2>0. HistoryIsOrdered /\ (checkpoints' # checkpoints => \A k \in checkpoints : ~(k.at > c.at))
    BY <1>9 DEF HistInv, c
  <2>1. ASSUME NEW k \in checkpoints'
        PROVE  1 .. k.through \subseteq k.holds /\ (k.through > 0 => createdAt'[k.through] <= k.at)
    <3>1. CASE k \in checkpoints
      <4>1. 1 .. k.through \subseteq k.holds /\ (k.through > 0 => createdAt[k.through] <= k.at)
        BY <2>0, <3>1 DEF HistoryIsOrdered
      <4>2. k.through > 0 => createdAt'[k.through] = createdAt[k.through]
        BY <1>0, <1>2, <1>5, <3>1
      <4> QED
        BY <4>1, <4>2
    <3>2. CASE k \notin checkpoints
      BY <1>0, <1>1, <1>3, <1>5, <2>1, <3>2
    <3> QED
      BY <3>1, <3>2
  <2>2. ASSUME NEW j \in checkpoints', NEW k \in checkpoints', j.at < k.at PROVE j.through <= k.through
    <3>1. CASE j \in checkpoints /\ k \in checkpoints
      BY <2>0, <2>2, <3>1 DEF HistoryIsOrdered
    <3>2. CASE k \notin checkpoints
      BY <1>0, <1>1, <1>3, <1>6, <2>2, <3>2
    <3>3. CASE j \notin checkpoints /\ k \in checkpoints
      BY <1>1, <1>2, <1>3, <2>0, <2>2, <3>3
    <3> QED
      BY <3>1, <3>2, <3>3
  <2>3. \E k \in checkpoints' : IsBaseline(k)'
    <3>1. PICK k \in checkpoints : IsBaseline(k)
      BY <2>0 DEF HistoryIsOrdered
    <3> QED
      BY <1>4, <3>1 DEF IsBaseline
  <2> QED
    BY <2>1, <2>2, <2>3 DEF HistoryIsOrdered, IsBaseline
<1> QED
  BY <1>0, <1>6, <1>7, <1>8, <1>9

LEMMA NearestIs ==
  ASSUME HistShape, NEW at \in Nat, NEW k \in Nearest(at)
  PROVE  /\ k \in checkpoints /\ k.at <= at
         /\ \A j \in checkpoints : j.at <= at => j.at <= k.at /\ (j.at = k.at => j.through <= k.through)
<1>1. \A j \in checkpoints : j.at \in Nat
  BY DEF HistShape
<1> QED
  BY <1>1 DEF Nearest

\* Under the order of checkpoints, the nearest one holds what the mirror lacks.
LEMMA NearestCovers ==
  ASSUME HistShape, HistoryIsOrdered, NEW at \in Nat, availableFrom <= at, NEW k \in Nearest(at)
  PROVE  /\ \A id \in UpdateIds \ mirror : id <= k.through
         /\ 1 .. k.through \subseteq k.holds
<1>1. PICK b \in checkpoints : IsBaseline(b)
  BY DEF HistoryIsOrdered
<1>2. k \in checkpoints /\ (b.at < k.at \/ (b.at = k.at /\ b.through <= k.through))
  BY <1>1, NearestIs DEF IsBaseline, HistShape
<1>3. b.through <= k.through
  BY <1>2 DEF HistoryIsOrdered
<1>4. b.through \in Nat /\ k.through \in Nat /\ \A id \in UpdateIds : id \in Nat
  BY <1>2 DEF HistShape, UpdateIds
<1> QED
  BY <1>1, <1>2, <1>3, <1>4 DEF IsBaseline, HistoryIsOrdered

\* The run of updates a re-baseline folds into its base.
LEMMA FoldedRun ==
  ASSUME HistShape, NEW k \in checkpoints, NEW edge \in Nat, NEW through,
         through = IF Folded(k, edge) = {} THEN k.through ELSE Max(Folded(k, edge))
  PROVE  /\ through \in 0 .. Len(createdAt) /\ k.through <= through
         /\ through > k.through => through \in mirror
         /\ \A id \in mirror : k.through < id /\ id <= through => id \in Folded(k, edge)
         /\ \A id \in Folded(k, edge) : createdAt[id] <= edge /\ id <= through
<1> DEFINE F == Folded(k, edge)
<1>0. Len(createdAt) \in Nat /\ k.through \in 0 .. Len(createdAt)
  BY DEF HistShape
<1>1. F \in SUBSET (1 .. Len(createdAt)) /\ F \subseteq mirror
  BY DEF HistShape, UpdateIds, Folded
<1>2. \A id \in F : id > k.through /\ \A j \in mirror : k.through < j /\ j <= id => createdAt[j] <= edge
  BY DEF Folded
<1>3. \A id \in mirror : id \in Nat
  BY DEF HistShape, UpdateIds
<1>4. CASE F = {}
  BY <1>0, <1>3, <1>4
<1>5. CASE F # {}
  <2>1. through \in F /\ \A y \in F : y <= through
    <3>1. Max(F) \in F /\ \A y \in F : y <= Max(F)
      BY <1>0, <1>1, <1>5, MaxIsLast
    <3> QED
      BY <1>5, <3>1
  <2>2. ASSUME NEW id \in mirror, k.through < id, id <= through PROVE id \in F
    <3>1. \A j \in mirror : k.through < j /\ j <= through => createdAt[j] <= edge
      BY <1>2, <2>1
    <3>2. through \in Nat
      BY <1>1, <2>1
    <3>3. \A j \in mirror : k.through < j /\ j <= id => createdAt[j] <= edge
      BY <1>3, <2>2, <3>1, <3>2
    <3> QED
      BY <1>0, <1>3, <2>2, <3>3 DEF Folded
  <2> HIDE DEF F
  <2>3. \A id \in F : createdAt[id] <= edge
    <3> TAKE id \in F
    <3>1. id \in mirror /\ id > k.through /\ id \in Nat
      BY <1>1, <1>2, <1>3
    <3> QED
      BY <1>2, <3>1
  <2> QED
    BY <1>0, <1>1, <1>2, <2>1, <2>2, <2>3 DEF F
<1> QED
  BY <1>4, <1>5

(* A re-baseline: the checkpoints after the edge cover what it folds,     *)
(* for their own last update is later than the run of updates up to it.     *)
LEMMA RebaselineStep ==
  ASSUME HistInv, RebaselineDocHistory
  PROVE  HistInv'
<1> DEFINE edge == docClock - Retention
<1>0. /\ HistShape /\ CheckpointTimes
      /\ UNCHANGED <<docClock, begun, createdAt, unmerged, snapshot, overtaken>>
      /\ edge \in Nat /\ edge > availableFrom /\ availableFrom' = edge
      /\ availableFrom \in Nat /\ Len(createdAt) \in Nat
  BY DocHistoryAssumption DEF HistInv, HistShape, RebaselineDocHistory
<1>1. PICK k \in Nearest(edge) :
        LET folded  == Folded(k, edge)
            through == IF folded = {} THEN k.through ELSE Max(folded)
        IN  InstallBaseline(edge, [through |-> through, at |-> edge, expires |-> Never,
                                     holds |-> k.holds \union folded], through)
  BY DEF RebaselineDocHistory
<1> HIDE DEF edge
<1>2. PICK T : T = IF Folded(k, edge) = {} THEN k.through ELSE Max(Folded(k, edge))
  OBVIOUS
<1>3. PICK N : N = [through |-> T, at |-> edge, expires |-> Never, holds |-> k.holds \union Folded(k, edge)]
  OBVIOUS
<1>4. checkpoints' = {j \in checkpoints : j.at >= edge} \union {N} /\ mirror' = {id \in mirror : id > T}
  BY <1>1, <1>2, <1>3 DEF InstallBaseline
<1>5. N.through = T /\ N.at = edge /\ N.expires = Never /\ N.holds = k.holds \union Folded(k, edge)
  BY <1>3
<1>6. k \in checkpoints /\ k.at <= edge /\ k.at \in Nat /\ k.through \in 0 .. Len(createdAt)
  BY <1>0, NearestIs DEF HistShape
<1>7. /\ T \in 0 .. Len(createdAt) /\ k.through <= T /\ (T > k.through => T \in mirror)
      /\ \A id \in mirror : k.through < id /\ id <= T => id \in Folded(k, edge)
      /\ \A id \in Folded(k, edge) : createdAt[id] <= edge /\ id <= T
  BY <1>0, <1>2, <1>6, FoldedRun
<1>8. \A j \in checkpoints' : (j \in checkpoints /\ j.at >= edge) \/ j = N
  BY <1>4
<1>a. \A j \in checkpoints : j.through \in 0 .. Len(createdAt) /\ j.at \in Nat /\ j.expires \in Nat
  BY <1>0 DEF HistShape
<1>b. \A id \in UpdateIds : id \in Nat
  BY DEF UpdateIds
<1>c. HistShape'
  <2>1. \A j \in checkpoints' : /\ j.through \in 0 .. Len(createdAt) /\ j.at \in Nat /\ j.expires \in Nat
    BY <1>0, <1>5, <1>7, <1>8, <1>a DEF Never
  <2>2. mirror' \subseteq UpdateIds
    BY <1>0, <1>4 DEF HistShape
  <2> QED
    BY <1>0, <2>1, <2>2 DEF HistShape, DocIsWhole, UpdateIds
<1>d. CheckpointTimes'
  <2>1. SUFFICES ASSUME NEW j \in checkpoints'
                 PROVE  /\ j.expires = Never => j.at <= edge
                        /\ j.expires # Never => j.through > 0 /\ j.at = createdAt[j.through]
    BY <1>0 DEF CheckpointTimes
  <2>2. CASE j \in checkpoints
    BY <1>0, <1>a, <2>2 DEF CheckpointTimes
  <2>3. CASE j = N
    BY <1>0, <1>5, <2>3
  <2> QED
    BY <1>8, <2>2, <2>3
<1>e. (\E j \in checkpoints : j.expires = Never /\ j.at = availableFrom)'
  BY <1>0, <1>4, <1>5
<1>f. ASSUME ~overtaken PROVE HistoryIsOrdered'
  <2>0. HistoryIsOrdered
    BY <1>f DEF HistInv
  <2>1. /\ \A id \in UpdateIds \ mirror : id <= k.through
        /\ 1 .. k.through \subseteq k.holds
    BY <1>0, <2>0, NearestCovers
  <2>2. 1 .. T \subseteq N.holds
    <3>1. SUFFICES ASSUME NEW id \in 1 .. T PROVE id \in N.holds
      OBVIOUS
    <3>2. CASE id <= k.through
      BY <1>5, <1>6, <2>1, <3>2
    <3>3. CASE ~(id <= k.through)
      <4>1. id \in UpdateIds
        BY <1>0, <1>7 DEF UpdateIds
      <4>2. id \in mirror
        BY <2>1, <3>3, <4>1
      <4> QED
        BY <1>5, <1>6, <1>7, <3>3, <4>2
    <3> QED
      BY <3>2, <3>3
  <2>3. T > 0 => createdAt[T] <= edge
    <3>1. CASE T > k.through
      BY <1>6, <1>7, <3>1
    <3>2. CASE ~(T > k.through)
      <4>1. T = k.through
        BY <1>6, <1>7, <3>2
      <4>2. T > 0 => createdAt[T] <= k.at /\ createdAt[T] \in Nat
        BY <1>0, <1>6, <1>7, <2>0, <4>1 DEF HistoryIsOrdered, HistShape
      <4> QED
        BY <1>0, <1>6, <4>2
    <3> QED
      BY <3>1, <3>2
  <2>4. ASSUME NEW j \in checkpoints, j.at > edge PROVE T <= j.through
    <3>1. j.through > 0 /\ j.at = createdAt[j.through] /\ j.through \in Nat
      BY <1>0, <1>a, <2>4 DEF CheckpointTimes
    <3>2. k.through <= j.through
      BY <1>0, <1>6, <1>a, <2>0, <2>4 DEF HistoryIsOrdered
    <3>3. SUFFICES ASSUME j.through < T PROVE FALSE
      BY <1>7, <3>1
    <3>4. CASE j.through = k.through
      <4>1. createdAt[j.through] <= k.at
        BY <1>6, <2>0, <3>1, <3>4 DEF HistoryIsOrdered
      <4> QED
        BY <1>0, <1>6, <1>a, <2>4, <3>1, <4>1
    <3>5. CASE k.through < j.through
      <4>1. j.through \in UpdateIds
        BY <1>a, <3>1 DEF UpdateIds
      <4>2. j.through \in mirror
        BY <1>6, <2>1, <3>1, <3>5, <4>1
      <4>3. createdAt[j.through] <= edge
        BY <1>7, <3>1, <3>3, <3>5, <4>2
      <4> QED
        BY <1>0, <1>a, <2>4, <3>1, <4>3
    <3> QED
      BY <1>6, <3>1, <3>2, <3>4, <3>5
  <2>5. \A j \in checkpoints' : /\ 1 .. j.through \subseteq j.holds
                                /\ j.through > 0 => createdAt[j.through] <= j.at
    BY <1>5, <1>8, <2>0, <2>2, <2>3 DEF HistoryIsOrdered
  <2>6. ASSUME NEW i \in checkpoints', NEW j \in checkpoints', i.at < j.at PROVE i.through <= j.through
    <3>1. i = N \/ (i \in checkpoints /\ i.at >= edge)
      BY <1>8
    <3>2. j \in checkpoints /\ j.at >= edge
      BY <1>0, <1>5, <1>8, <1>a, <2>6
    <3> QED
      BY <1>5, <2>0, <2>4, <2>6, <3>1, <3>2 DEF HistoryIsOrdered
  <2>7. ASSUME NEW id \in UpdateIds, id \notin mirror' PROVE id <= T
    <3>1. CASE id \in mirror
      BY <1>4, <1>7, <1>b, <2>7, <3>1
    <3>2. CASE id \notin mirror
      BY <1>6, <1>7, <1>b, <2>1, <3>2
    <3> QED
      BY <3>1, <3>2
  <2>8. N \in checkpoints' /\ IsBaseline(N)'
    BY <1>0, <1>4, <1>5, <2>7 DEF IsBaseline, UpdateIds
  <2> QED
    BY <1>0, <2>5, <2>6, <2>8 DEF HistoryIsOrdered
<1> QED
  BY <1>0, <1>c, <1>d, <1>e, <1>f DEF HistInv

LEMMA LoadStep ==
  ASSUME HistInv, LoadDoc
  PROVE  HistInv'
<1>0. HistShape /\ Len(createdAt) \in Nat
  BY DEF HistInv, HistShape
<1>1. /\ Compacts /\ checkpoints' = checkpoints \union {CompactionCheckpoint}
      /\ overtaken' = (overtaken \/ \E k \in checkpoints : k.at > CompactionCheckpoint.at)
      /\ snapshot' = snapshot \union unmerged /\ unmerged' = {}
      /\ UNCHANGED <<docClock, begun, createdAt, mirror, availableFrom>>
  BY DEF LoadDoc, Compact
<1>2. /\ \A k \in checkpoints' : k.through \in 0 .. Len(createdAt') /\ k.at \in Nat /\ k.expires \in Nat
      /\ CheckpointTimes'
      /\ (\E k \in checkpoints : k.expires = Never /\ k.at = availableFrom)'
      /\ (~overtaken => HistoryIsOrdered)'
  BY <1>0, <1>1, Growing DEF UpdateIds
<1>3. HistShape'
  BY <1>0, <1>1, <1>2 DEF HistShape, DocIsWhole, UpdateIds
<1> QED
  BY <1>2, <1>3 DEF HistInv

LEMMA MutateStep ==
  ASSUME HistInv, NEW w \in HistoryWriters, MutateDoc(w)
  PROVE  HistInv'
<1> DEFINE id == Len(createdAt) + 1
<1>0. HistShape /\ Len(createdAt) \in Nat /\ createdAt \in Seq(Nat) /\ begun[w] \in Nat
  BY DEF HistInv, HistShape
<1>1. /\ createdAt' = Append(createdAt, begun[w]) /\ mirror' = mirror \union {id}
      /\ begun' = [begun EXCEPT ![w] = 0] /\ UNCHANGED <<docClock, availableFrom>>
  BY DEF MutateDoc
<1>2. /\ createdAt' \in Seq(Nat) /\ Len(createdAt') = id
      /\ \A i \in 1 .. Len(createdAt) : createdAt'[i] = createdAt[i]
  BY <1>0, <1>1
<1>3. UpdateIds' = UpdateIds \union {id} /\ id \notin UpdateIds
  BY <1>0, <1>2 DEF UpdateIds
<1>4. \/ checkpoints' = checkpoints /\ overtaken' = overtaken
      \/ /\ Compacts /\ checkpoints' = checkpoints \union {CompactionCheckpoint}
         /\ overtaken' = (overtaken \/ \E k \in checkpoints : k.at > CompactionCheckpoint.at)
  BY DEF MutateDoc, Compact
<1>5. \/ unmerged' = {id} /\ snapshot' = snapshot \union unmerged
      \/ unmerged' = unmerged \union {id} /\ snapshot' = snapshot
  BY DEF MutateDoc, Compact
<1> HIDE DEF id
<1>6. (UpdateIds \ mirror)' \subseteq UpdateIds \ mirror
  BY <1>1, <1>3
<1>7. Len(createdAt') \in Nat /\ Len(createdAt) <= Len(createdAt')
  BY <1>0, <1>2 DEF id
<1>8. /\ \A k \in checkpoints' : k.through \in 0 .. Len(createdAt') /\ k.at \in Nat /\ k.expires \in Nat
      /\ CheckpointTimes'
      /\ (\E k \in checkpoints : k.expires = Never /\ k.at = availableFrom)'
      /\ (~overtaken => HistoryIsOrdered)'
  BY <1>1, <1>2, <1>4, <1>6, <1>7, Growing
<1>9. HistShape'
  <2>1. DocIsWhole'
    BY <1>0, <1>3, <1>5 DEF HistShape, DocIsWhole
  <2>2. mirror' \subseteq UpdateIds' /\ begun' \in [HistoryWriters -> Nat]
    BY <1>0, <1>1, <1>3 DEF HistShape
  <2>3. Len(createdAt') \in unmerged'
    BY <1>2, <1>5
  <2> QED
    BY <1>0, <1>1, <1>2, <1>8, <2>1, <2>2, <2>3 DEF HistShape
<1> QED
  BY <1>8, <1>9 DEF HistInv

LEMMA QuietHistStep ==
  ASSUME HistInv,
         \/ \E w \in HistoryWriters : BeginMutation(w)
         \/ CleanupExpiredDocHistory \/ DocClockTicks \/ UNCHANGED histVars
  PROVE  HistInv'
<1>1. /\ UNCHANGED <<createdAt, unmerged, snapshot, mirror, availableFrom, overtaken>>
      /\ checkpoints' \subseteq checkpoints
      /\ \A k \in checkpoints : k.expires = Never => k \in checkpoints'
  BY DEF BeginMutation, CleanupExpiredDocHistory, DocClockTicks, histVars
<1>2. docClock' \in Nat /\ begun' \in [HistoryWriters -> Nat]
  BY DEF BeginMutation, CleanupExpiredDocHistory, DocClockTicks, histVars, HistInv, HistShape
<1>3. HistShape'
  BY <1>1, <1>2 DEF HistInv, HistShape, DocIsWhole, UpdateIds
<1>4. CheckpointTimes' /\ (\E k \in checkpoints : k.expires = Never /\ k.at = availableFrom)'
  BY <1>1 DEF HistInv, CheckpointTimes
<1>5. ASSUME HistoryIsOrdered PROVE HistoryIsOrdered'
  <2>1. PICK b \in checkpoints : IsBaseline(b)
    BY <1>5 DEF HistoryIsOrdered
  <2>2. b \in checkpoints' /\ IsBaseline(b)'
    BY <1>1, <2>1 DEF IsBaseline, UpdateIds
  <2>3. /\ \A k \in checkpoints' : 1 .. k.through \subseteq k.holds /\ (k.through > 0 => createdAt'[k.through] <= k.at)
        /\ \A j, k \in checkpoints' : j.at < k.at => j.through <= k.through
    BY <1>1, <1>5 DEF HistoryIsOrdered
  <2> QED
    BY <2>2, <2>3 DEF HistoryIsOrdered
<1> QED
  BY <1>1, <1>3, <1>4, <1>5 DEF HistInv

\* Appends, compactions, re-baselines and cleanups keep the history's order.
THEOREM HistoryInvariance == HistSpec => []HistInv
<1>1. HistInv /\ [HistNext]_histVars => HistInv'
  BY LoadStep, MutateStep, RebaselineStep, QuietHistStep DEF HistNext
<1> QED
  BY <1>1, HistInitially, PTL DEF HistSpec

\* Whatever compactions, re-baselines and the expiry cleanup delete, every
\* time of the retained window has a checkpoint to start its replay from.
THEOREM RetainedTimesHaveCheckpoints == HistSpec => []RetainedHasCheckpoint
<1>1. HistInv => RetainedHasCheckpoint
  BY DEF HistInv, HistShape, RetainedHasCheckpoint, Retained
<1> QED
  BY <1>1, HistoryInvariance, PTL

\* docPersistence's compaction neither loses nor repeats an update.
THEOREM DocumentsAreWhole == HistSpec => []DocIsWhole
<1>1. HistInv => DocIsWhole
  BY DEF HistInv, HistShape
<1> QED
  BY <1>1, HistoryInvariance, PTL

\* openDocVersionAt answers with every edit made by its time, unless a
\* compaction's boundary was an update that began before an earlier one's.
THEOREM VersionsAreComplete == HistSpec => []GapsNeedOvertaking
<1>1. ASSUME HistInv PROVE GapsNeedOvertaking
  <2>1. SUFFICES ASSUME ~overtaken, NEW at \in 1 .. MaxDocClock, Retained(at), NEW k \in Nearest(at),
                        NEW id \in UpdateIds, createdAt[id] <= at
                 PROVE  id \in VersionFrom(k, at)
    BY DEF GapsNeedOvertaking, Complete
  <2>2. HistShape /\ HistoryIsOrdered /\ at \in Nat /\ availableFrom <= at
    BY <1>1, <2>1, DocHistoryAssumption DEF HistInv, HistShape, Retained
  <2>3. (id \notin mirror => id <= k.through) /\ 1 .. k.through \subseteq k.holds
    BY <2>2, NearestCovers
  <2>4. id \in Nat /\ id >= 1 /\ k.through \in Nat
    BY <2>2, NearestIs DEF UpdateIds, HistShape
  <2> QED
    BY <2>1, <2>3, <2>4 DEF VersionFrom
<1> QED
  BY <1>1, HistoryInvariance, PTL
=============================================================================
