--------------------------- MODULE ItemLifecycle ----------------------------
(***************************************************************************)
(* An item's life: created under an idempotency key, trashed and restored  *)
(* with its subtree, purged.                                               *)
(***************************************************************************)
EXTENDS Naturals, FiniteSets

-----------------------------------------------------------------------------
(***************************************************************************)
(* Item creation under an idempotency key (itemWrites.ts,                  *)
(* createItemWithClient; itemsStore.ts, insertItemWithReplay).  Requests   *)
(* carry the same key: the clients' retries, or two clients at once.  Each *)
(* is one transaction that reserves the key, or finds the reservation,     *)
(* locks it and decides between the reserved item and a new one.  Between  *)
(* the steps users trash and restore the item, the purge removes it with   *)
(* its reservation, and the database is archived.                          *)
(***************************************************************************)

CONSTANTS Requests,   \* requests with the key; each may create one item, named after it
          NoItem,     \* no item
          MaxTrashing \* bound: trash, restore, purge and archive operations

ASSUME CreateAssumption == NoItem \notin Requests /\ MaxTrashing \in Nat

VARIABLES
  req,       \* request -> "new", "reserve", "lock", "insert", "done", "failed"
  seen,      \* request -> the reservation its locking read looks for
  locker,    \* the request that holds the reservation's row
  reserving, \* the request whose new reservation is not committed yet
  reserved,  \* the item of the committed reservation
  itemState, \* item -> "none", "live", "trashed", "purged"
  answered,  \* request -> the item it was answered with
  events,    \* item -> create events committed for it
  archivedC, \* the database is archived
  trashings, \* operations on the items so far (bounds the model)
  replaced,  \* items whose reservation was given to another one
  revived,   \* items restored after they were replaced
  late       \* requests that passed the guard before the database was archived

createVars == <<req, seen, locker, reserving, reserved, itemState, answered, events, archivedC,
                trashings, replaced, revived, late>>

Live(i) == i # NoItem /\ itemState[i] = "live"

\* findIdempotentReplay with requireLive.
FindIdempotentReplay == IF Live(reserved) THEN reserved ELSE NoItem

Answer(r, i) == answered' = [answered EXCEPT ![r] = i] /\ req' = [req EXCEPT ![r] = "done"]

\* assertDatabaseWritableForCreate: of an archived database only a replay.
AssertDatabaseWritableForCreate(r) ==
  /\ req[r] = "new"
  /\ CASE ~archivedC -> /\ req' = [req EXCEPT ![r] = "reserve"] /\ late' = late \cup {r}
                        /\ UNCHANGED answered
       [] archivedC /\ FindIdempotentReplay # NoItem -> Answer(r, FindIdempotentReplay) /\ UNCHANGED late
       [] OTHER -> req' = [req EXCEPT ![r] = "failed"] /\ UNCHANGED <<answered, late>>
  /\ UNCHANGED <<seen, locker, reserving, reserved, itemState, events, archivedC, trashings,
                 replaced, revived>>

\* INSERT ... ON CONFLICT DO NOTHING waits for an uncommitted reservation.
Reserve(r) ==
  /\ req[r] = "reserve" /\ reserving = NoItem
  /\ IF reserved = NoItem
     THEN reserving' = r /\ req' = [req EXCEPT ![r] = "insert"] /\ UNCHANGED seen
     ELSE seen' = [seen EXCEPT ![r] = reserved] /\ req' = [req EXCEPT ![r] = "lock"] /\ UNCHANGED reserving
  /\ UNCHANGED <<locker, reserved, itemState, answered, events, archivedC, trashings, replaced,
                 revived, late>>

\* A mutant: a reservation is released although its item is live.
ReleaseAnyway(r) ==
  /\ req[r] = "lock" /\ locker = NoItem
  /\ IF reserved # seen[r]
     THEN req' = [req EXCEPT ![r] = "failed"] /\ UNCHANGED <<locker, reserving, answered>>
     ELSE locker' = r /\ reserving' = r /\ req' = [req EXCEPT ![r] = "insert"] /\ UNCHANGED answered
  /\ UNCHANGED <<seen, reserved, itemState, events, archivedC, trashings, replaced, revived, late>>

\* SELECT ... FOR UPDATE: a live item answers; a trashed one gives its key
\* back, within the transaction that reserves it again; a reservation that
\* was removed meanwhile is a conflict.
LockReservation(r) ==
  /\ req[r] = "lock" /\ locker = NoItem
  /\ CASE reserved # seen[r] ->
            req' = [req EXCEPT ![r] = "failed"] /\ UNCHANGED <<locker, reserving, answered>>
       [] reserved = seen[r] /\ Live(reserved) ->
            Answer(r, reserved) /\ UNCHANGED <<locker, reserving>>
       [] OTHER ->
            locker' = r /\ reserving' = r /\ req' = [req EXCEPT ![r] = "insert"] /\ UNCHANGED answered
  /\ UNCHANGED <<seen, reserved, itemState, events, archivedC, trashings, replaced, revived, late>>

Released(r) == /\ reserving' = NoItem
               /\ locker' = IF locker = r THEN NoItem ELSE locker

\* The item, its reservation, the hooks' writes and the heartbeat event
\* commit together.
InsertItem(r) ==
  /\ req[r] = "insert"
  /\ itemState' = [itemState EXCEPT ![r] = "live"]
  /\ replaced' = IF reserved = NoItem THEN replaced ELSE replaced \cup {reserved}
  /\ reserved' = r
  /\ events' = [events EXCEPT ![r] = @ + 1]
  /\ Released(r)
  /\ \/ Answer(r, r)
     \/ req' = [req EXCEPT ![r] = "failed"] /\ UNCHANGED answered   \* the answer is lost
  /\ UNCHANGED <<seen, archivedC, trashings, revived, late>>

\* runItemCreateHooks rejects the row, or the connection is lost.
InsertFails(r) ==
  /\ req[r] = "insert"
  /\ req' = [req EXCEPT ![r] = "failed"] /\ Released(r)
  /\ UNCHANGED <<seen, reserved, itemState, answered, events, archivedC, trashings, replaced,
                 revived, late>>

Trashing == trashings < MaxTrashing /\ trashings' = trashings + 1
RestC == UNCHANGED <<req, seen, locker, reserving, answered, events, replaced, late>>

TrashCreated(i) ==
  /\ Trashing /\ itemState[i] = "live" /\ itemState' = [itemState EXCEPT ![i] = "trashed"]
  /\ RestC /\ UNCHANGED <<reserved, archivedC, revived>>

RestoreCreated(i) ==
  /\ Trashing /\ itemState[i] = "trashed" /\ itemState' = [itemState EXCEPT ![i] = "live"]
  /\ revived' = IF i \in replaced \/ (locker # NoItem /\ reserved = i) THEN revived \cup {i} ELSE revived
  /\ RestC /\ UNCHANGED <<reserved, archivedC>>

\* deleteItemDependents takes the item's reservation with it.
PurgeCreated(i) ==
  /\ Trashing /\ itemState[i] = "trashed" /\ locker = NoItem
  /\ itemState' = [itemState EXCEPT ![i] = "purged"]
  /\ reserved' = IF reserved = i THEN NoItem ELSE reserved
  /\ RestC /\ UNCHANGED <<archivedC, revived>>

ArchiveC == Trashing /\ archivedC' = ~archivedC /\ RestC /\ UNCHANGED <<reserved, itemState, revived>>

CreateInit ==
  /\ req = [r \in Requests |-> "new"] /\ seen = [r \in Requests |-> NoItem]
  /\ locker = NoItem /\ reserving = NoItem /\ reserved = NoItem
  /\ itemState = [i \in Requests |-> "none"]
  /\ answered = [r \in Requests |-> NoItem] /\ events = [i \in Requests |-> 0]
  /\ archivedC \in BOOLEAN /\ trashings = 0
  /\ replaced = {} /\ revived = {} /\ late = {}

CreateNext ==
  \/ \E r \in Requests : \/ AssertDatabaseWritableForCreate(r) \/ Reserve(r) \/ LockReservation(r)
                         \/ InsertItem(r) \/ InsertFails(r)
                         \/ TrashCreated(r) \/ RestoreCreated(r) \/ PurgeCreated(r)
  \/ ArchiveC

CreateSpec == CreateInit /\ [][CreateNext]_createVars

----------------------------------------------------------------------------
CreateTypeOK ==
  /\ reserved \in Requests \cup {NoItem} /\ reserving \in Requests \cup {NoItem}
  /\ locker \in Requests \cup {NoItem}
  /\ answered \in [Requests -> Requests \cup {NoItem}]

\* However requests, retries, trashing and the purge interleave, the key has
\* one live item, unless a user restored one whose key had gone to another.
OneLiveItemPerKey ==
  \A i, j \in Requests : Live(i) /\ Live(j) /\ i # j => {i, j} \cap revived # {}

\* A request is answered with an item that was live at that moment.
AnswersAreLive ==
  [][\A r \in Requests : answered'[r] # answered[r] => itemState'[answered'[r]] = "live"]_createVars

\* An archived database gets no new item, except from a request that had
\* passed the guard before.
ArchivedGetsNothing ==
  [][\A i \in Requests : archivedC /\ itemState[i] = "none" /\ itemState'[i] = "live" => i \in late]_createVars

\* The inductive invariant behind them.
CreateShape ==
  /\ req \in [Requests -> {"new", "reserve", "lock", "insert", "done", "failed"}]
  /\ seen \in [Requests -> Requests \cup {NoItem}]
  /\ {reserved, reserving, locker} \subseteq Requests \cup {NoItem}
  /\ itemState \in [Requests -> {"none", "live", "trashed", "purged"}]
  /\ answered \in [Requests -> Requests \cup {NoItem}]

\* One request at a time decides: it reserves a key nobody has, or it holds
\* the reservation whose item was not live when it was locked.
OneDecides ==
  /\ \A r \in Requests : /\ req[r] = "insert" => reserving = r
                         /\ req[r] = "lock" => seen[r] # NoItem
                         /\ req[r] \in {"reserve", "lock", "insert"} => r \in late
  /\ locker # NoItem => /\ reserving = locker /\ reserved # NoItem
                        /\ Live(reserved) => reserved \in revived
  /\ reserving # NoItem /\ locker = NoItem => reserved = NoItem

\* Who is left without the key was replaced, and lives again only if revived.
KeysAreHeld ==
  \A i \in Requests : /\ itemState[i] \in {"live", "trashed"} => i = reserved \/ i \in replaced
                      /\ itemState[i] = "live" => i = reserved \/ i \in revived

CreateInv == CreateShape /\ OneDecides /\ KeysAreHeld

-----------------------------------------------------------------------------
(***************************************************************************)
(* The trash of the choke point (itemTrash.ts): soft delete and restore of *)
(* a page with everything nested below it, and the purge of an expired     *)
(* subtree.  The tree is a chain: row r lives in database r, and database  *)
(* r > 1 is the inline database owned by row r - 1.  Every operation is    *)
(* one transaction: it walks the subtree on an unlocked read, then writes  *)
(* row by row, root first, each write locking its row until the commit.    *)
(* Three actors run their transactions at the same time: the users and the *)
(* nightly purge.                                                          *)
(***************************************************************************)

CONSTANTS Depth,       \* rows of the chain; the last one is created meanwhile
          Users,       \* transactions of users, at most one each at a time
          Purger,      \* the purge sweep's transaction
          MaxTrashOps, \* bound: user transactions begun
          MaxPurges    \* bound: purge transactions begun

ASSUME TrashAssumption ==
  /\ Depth \in Nat \ {0, 1}
  /\ Purger \notin Users
  /\ MaxTrashOps \in Nat
  /\ MaxPurges \in Nat

VARIABLES
  state,    \* row -> "none", "live", "trashed" or "purged", as committed
  stamp,    \* row -> deleted_at: the start of the transaction that trashed it
  frozen,   \* databases that are archived
  dropped,  \* databases removed with their partition
  now,      \* the clock of transaction starts
  cutoff,   \* stamps below it are past retention
  tx,       \* the open transaction of each actor
  alone,    \* rows whose last trashing named them as its root
  trashExcused,  \* rows live below trash because they were restored or created there
  raced,    \* rows another transaction committed to while an open one had read them
  wrongly   \* what went wrong: <<kind, row>>

trashVars == <<state, stamp, frozen, dropped, now, cutoff, tx, alone, trashExcused, raced, wrongly>>

RowsT   == 1 .. Depth
TrashActors  == Users \cup {Purger}
NoTx    == [kind |-> "idle", root |-> 0, at |-> 0,
            todo |-> {}, wrote |-> {}, drops |-> {}]
Exists(r) == state[r] \in {"live", "trashed"}

\* A row another open transaction holds: it wrote it or locked it as its root.
HeldByOther(a, r) == \E b \in TrashActors \ {a} : r \in tx[b].wrote

\* collectItemSubtree: from the root down, through rows that satisfy keep.
Subtree(root, keep) ==
  {r \in RowsT : /\ r >= root
                 /\ \A q \in root .. r : Exists(q) /\ q \notin dropped
                 /\ \A q \in (root + 1) .. r : q \in keep}

\* assertDatabaseNotArchived for every row of the subtree.
Unarchived(rows) == rows \cap frozen = {}

Begin(a, kind, root, rows, locked) ==
  /\ tx' = [tx EXCEPT ![a] = [kind |-> kind, root |-> root, at |-> now,
                              todo |-> rows, wrote |-> locked, drops |-> {}]]
  /\ now' = now + 1

UserMayBegin(u) == tx[u].kind = "idle" /\ now <= MaxTrashOps

\* itemDeleteWithClient: the root is locked; nothing to do when it is trashed.
ItemDelete(u, r) ==
  /\ UserMayBegin(u)
  /\ state[r] = "live" /\ r \notin dropped /\ ~HeldByOther(u, r)
  /\ Unarchived(Subtree(r, RowsT))
  /\ Begin(u, "delete", r, Subtree(r, RowsT), {r})
  /\ UNCHANGED <<state, stamp, frozen, dropped, cutoff, alone, trashExcused, raced, wrongly>>

\* restoreItemWithClient: only rows whose deletedAt is the root's are restored.
RestoreItem(u, r) ==
  /\ UserMayBegin(u)
  /\ state[r] = "trashed" /\ ~HeldByOther(u, r)
  /\ Unarchived(Subtree(r, RowsT))
  /\ Begin(u, "restore", r,
           {q \in Subtree(r, RowsT) : stamp[q] = stamp[r]}, {r})
  /\ UNCHANGED <<state, stamp, frozen, dropped, cutoff, alone, trashExcused, raced, wrongly>>

\* An item is created in the deepest inline database.  Creating asks only
\* whether the database is archived, not whether the page above it is trashed.
CreateBelow(u) ==
  /\ UserMayBegin(u)
  /\ state[Depth] = "none" /\ Depth \notin (dropped \cup frozen)
  /\ ~HeldByOther(u, Depth)
  /\ Begin(u, "create", Depth, {Depth}, {Depth})
  /\ UNCHANGED <<state, stamp, frozen, dropped, cutoff, alone, trashExcused, raced, wrongly>>

\* purgeExpiredTrashSubtree: the root is read without a lock, and only rows
\* past the cutoff are walked.
Expired(r) == state[r] = "trashed" /\ stamp[r] < cutoff
PurgeExpiredTrashSubtree(r) ==
  /\ tx[Purger].kind = "idle" /\ now <= MaxTrashOps + MaxPurges
  /\ Expired(r)
  /\ Unarchived(Subtree(r, {q \in RowsT : Expired(q)}))
  /\ Begin(Purger, "purge", r, Subtree(r, {q \in RowsT : Expired(q)}), {})
  /\ UNCHANGED <<state, stamp, frozen, dropped, cutoff, alone, trashExcused, raced, wrongly>>

\* The statements' own conditions, evaluated when the row lock is held:
\* softDeleteItem, restoreItem, insertItem and hardDeleteItem.
Writable(kind, r) ==
  CASE kind = "delete"  -> state[r] = "live"
    [] kind = "restore" -> state[r] = "trashed"
    [] kind = "create"  -> state[r] = "none"
    [] kind = "purge"   -> state[r] = "trashed"

\* The next row of the loop, root first.
WriteRow(a) ==
  /\ tx[a].todo # {}
  /\ LET r == CHOOSE q \in tx[a].todo : \A p \in tx[a].todo : q <= p IN
       /\ ~HeldByOther(a, r)
       /\ tx' = [tx EXCEPT ![a].todo = @ \ {r},
                           ![a].wrote = IF Writable(tx[a].kind, r) THEN @ \cup {r} ELSE @]
  /\ UNCHANGED <<state, stamp, frozen, dropped, now, cutoff, alone, trashExcused, raced, wrongly>>

\* Rows the transaction changes: a root it only locked may need no change.
Changed(a) == {r \in tx[a].wrote : Writable(tx[a].kind, r)}

\* The inline databases of the removed rows that hold no committed row are to
\* be dropped; the partition's drop then waits for open inserts.
EmptyInline(a) ==
  {d \in 2 .. Depth : /\ d - 1 \in Changed(a) /\ d \notin dropped /\ d # tx[a].root
                      /\ (~Exists(d) \/ d \in Changed(a))}
DropEmptyDatabases ==
  /\ tx[Purger].kind = "purge" /\ tx[Purger].todo = {} /\ tx[Purger].drops = {}
  /\ EmptyInline(Purger) # {}
  /\ tx' = [tx EXCEPT ![Purger].drops = EmptyInline(Purger)]
  /\ UNCHANGED <<state, stamp, frozen, dropped, now, cutoff, alone, trashExcused, raced, wrongly>>

\* What a commit does to a row another open transaction has read.
Races(a) == {r \in Changed(a) : \E b \in TrashActors \ {a} :
               tx[b].kind \notin {"idle", "create"} /\ r \in tx[b].todo}

Ready(a) == tx[a].kind # "idle" /\ tx[a].todo = {}

CommitUser(u) ==
  /\ Ready(u)
  /\ LET k == tx[u].kind
         ch == Changed(u)
         root == tx[u].root IN
       /\ state' = [r \in RowsT |-> IF r \notin ch THEN state[r]
                                    ELSE IF k = "delete" THEN "trashed" ELSE "live"]
       /\ stamp' = [r \in RowsT |-> IF r \in ch /\ k = "delete" THEN tx[u].at ELSE stamp[r]]
       /\ alone' = IF k = "delete" THEN (alone \ ch) \cup (ch \cap {root}) ELSE alone \ ch
       /\ trashExcused' = CASE k = "delete" -> trashExcused \ ch
                       [] k \in {"restore", "create"} -> trashExcused \cup ch
       /\ wrongly' = wrongly \cup
            {<<"resurrected", r>> : r \in {q \in ch \ {root} : k = "restore" /\ q \in alone}}
  /\ raced' = raced \cup Races(u)
  /\ tx' = [tx EXCEPT ![u] = NoTx]
  /\ UNCHANGED <<frozen, dropped, now, cutoff>>

CommitPurge ==
  /\ Ready(Purger)
  /\ tx[Purger].drops = {} => EmptyInline(Purger) = {}
  /\ \A d \in tx[Purger].drops : ~HeldByOther(Purger, d)
  /\ LET ch == Changed(Purger)
         gone == {d \in tx[Purger].drops \ ch : Exists(d)} IN
       /\ state' = [r \in RowsT |-> IF r \in ch \cup gone THEN "purged" ELSE state[r]]
       /\ dropped' = dropped \cup tx[Purger].drops
       /\ wrongly' = wrongly \cup {<<"destroyed", r>> : r \in gone}
                             \cup {<<"too fresh", r>> : r \in {q \in ch : stamp[q] >= cutoff}}
       /\ trashExcused' = trashExcused \ (ch \cup gone)
       /\ raced' = raced \cup Races(Purger) \cup gone
  /\ tx' = [tx EXCEPT ![Purger] = NoTx]
  /\ UNCHANGED <<stamp, frozen, now, cutoff, alone>>

\* Thirty days pass: everything trashed so far is past retention.
Age ==
  /\ cutoff < now
  /\ cutoff' = now
  /\ UNCHANGED <<state, stamp, frozen, dropped, now, tx, alone, trashExcused, raced, wrongly>>

TrashInit ==
  /\ state = [r \in RowsT |-> IF r = Depth THEN "none" ELSE "live"]
  /\ stamp = [r \in RowsT |-> 0]
  /\ frozen \in {{}, {Depth - 1}}
  /\ dropped = {}
  /\ now = 1 /\ cutoff = 1
  /\ tx = [a \in TrashActors |-> NoTx]
  /\ alone = {} /\ trashExcused = {} /\ raced = {} /\ wrongly = {}

TrashNext ==
  \/ \E u \in Users : \/ \E r \in RowsT : ItemDelete(u, r) \/ RestoreItem(u, r)
                      \/ CreateBelow(u) \/ CommitUser(u)
  \/ \E a \in TrashActors : WriteRow(a)
  \/ \E r \in RowsT : PurgeExpiredTrashSubtree(r)
  \/ DropEmptyDatabases \/ CommitPurge \/ Age

TrashSpec == TrashInit /\ [][TrashNext]_trashVars

----------------------------------------------------------------------------
TrashTypeOK ==
  /\ state \in [RowsT -> {"none", "live", "trashed", "purged"}]
  /\ stamp \in [RowsT -> Nat]
  /\ frozen \subseteq RowsT /\ dropped \subseteq RowsT
  /\ now \in Nat /\ cutoff \in Nat
  /\ \A a \in TrashActors :
       /\ tx[a].kind \in {"idle", "delete", "restore", "create", "purge"}
       /\ tx[a].todo \subseteq RowsT /\ tx[a].wrote \subseteq RowsT

\* A restore brings back what was trashed together with its root.  A row that
\* was trashed on its own stays in the trash, unless it changed between the
\* restore's walk and its write: the write asks only for a row in the trash.
RestoreKeepsOwnDeletes ==
  \A r \in RowsT : <<"resurrected", r>> \in wrongly => r \in raced

\* The purge removes only what has been in the trash for the whole retention;
\* a row restored and trashed again under a running purge goes early.
TrashIsRetained ==
  \A r \in RowsT : <<"too fresh", r>> \in wrongly => r \in raced

\* A cascade is whole: a live row below a row in the trash (or purged) was
\* restored or created while the cascade above it ran, or afterwards.
CascadeIsWhole ==
  \A r \in 2 .. Depth :
    state[r] = "live" /\ state[r - 1] \in {"trashed", "purged"} => r \in trashExcused

\* No transaction destroys a live row: a row restored under a running purge
\* survives it.  A row created in an inline database between the purge's
\* emptiness check and its drop is the exception.
LiveRowsSurvive ==
  [][\A r \in RowsT : state[r] = "live" /\ state'[r] = "purged" => r = Depth /\ r \in raced']_trashVars

----------------------------------------------------------------------------
\* The inductive invariant behind them.
Transactions == [kind : {"idle", "delete", "restore", "create", "purge"},
                 root : Nat, at : Nat, todo : SUBSET RowsT,
                 wrote : SUBSET RowsT, drops : SUBSET RowsT]

TrashShape ==
  /\ state \in [RowsT -> {"none", "live", "trashed", "purged"}]
  /\ stamp \in [RowsT -> Nat] /\ now \in Nat /\ cutoff \in Nat
  /\ tx \in [TrashActors -> Transactions]
  /\ \A r \in RowsT \ {Depth} : state[r] # "none"
  /\ \A a \in TrashActors : tx[a].kind = "purge" => a = Purger
  /\ tx[Purger].kind \in {"idle", "purge"}

Touches(a) == tx[a].todo \cup tx[a].wrote

\* Row locks exclude, and a transaction's time stamps what it alone trashes.
TransactionsAreApart ==
  /\ \A a, b \in TrashActors : a # b => tx[a].wrote \cap tx[b].wrote = {}
  /\ \A a \in TrashActors : tx[a].kind = "idle" => Touches(a) = {}
  /\ \A a \in TrashActors : tx[a].kind # "idle" =>
       /\ tx[a].at < now /\ \A r \in RowsT : stamp[r] # tx[a].at
       /\ \A b \in TrashActors \ {a} : tx[b].kind # "idle" => tx[b].at # tx[a].at
       /\ \A r \in Touches(a) : r >= tx[a].root
  /\ \A r \in RowsT : stamp[r] < now

\* A row that was trashed on its own shares its stamp with no row above it,
\* and is not live; a dropped database holds nothing.
OwnStamps ==
  /\ \A p, q \in RowsT :
       p < q /\ state[p] = "trashed" /\ state[q] = "trashed" /\ stamp[p] = stamp[q] => q \notin alone
  /\ \A r \in RowsT : r \in alone => state[r] # "live"
  /\ \A r \in RowsT : r \in dropped => ~Exists(r)

\* What a transaction has read still holds, where no other one raced it.
ReadsHold ==
  /\ \A a \in TrashActors :
       /\ tx[a].kind = "restore" => \A r \in Touches(a) \ {tx[a].root} : r \in alone => r \in raced
       /\ tx[a].kind = "purge" => \A r \in Touches(a) : stamp[r] < cutoff \/ r \in raced
       /\ tx[a].kind = "create" => Touches(a) = {Depth} /\ tx[a].wrote = {Depth} /\ Depth \notin dropped
       /\ tx[a].kind = "delete" =>
            \A r \in 2 .. Depth : r - 1 \in Touches(a) /\ r \notin Touches(a) /\ state[r] = "live"
                                    => r \in trashExcused
  /\ \A d \in tx[Purger].drops :
       d = Depth \/ state[d] = "purged" \/ (d \in tx[Purger].wrote /\ state[d] = "trashed")

TrashInv ==
  /\ TrashShape /\ TransactionsAreApart /\ OwnStamps /\ ReadsHold
  /\ RestoreKeepsOwnDeletes /\ TrashIsRetained /\ CascadeIsWhole
=============================================================================
