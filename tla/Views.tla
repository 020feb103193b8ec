------------------------------- MODULE Views --------------------------------
(***************************************************************************)
(* Views of a database: the pages of a computed one, and the stored order  *)
(* and configuration of a curated one.                                     *)
(***************************************************************************)
EXTENDS Integers, Sequences, FiniteSets, SequencesExt

-----------------------------------------------------------------------------
(***************************************************************************)
(* Paged queries of a database (views/viewQuery.ts, sortCompiler.ts,       *)
(* filterCompiler.ts; itemsStore.ts, listItems).  A client asks page after *)
(* page with the cursor of the last one while other users write rows.  The *)
(* filter is evaluated in SQL's three-valued logic, every sort key orders  *)
(* its nulls last, and the cursor of a sorted query is the last row's      *)
(* whole sort tuple with its id.  Rows are 1 .. Rows, named by their ids.  *)
(***************************************************************************)

CONSTANTS Rows,      \* rows of the database
          KeyValues, \* sort key -> the values it takes, beside null
          PageLimit, \* rows on a page
          MaxRowEdits   \* bound: rows written while the client pages

ASSUME PageAssumption ==
  Rows \in Nat /\ KeyValues \in [1 .. 2 -> SUBSET (Nat \ {0})] /\ PageLimit \in Nat \ {0} /\ MaxRowEdits \in Nat

VARIABLES
  row,     \* id -> its two keys and whether it is in the trash
  linkedTo,\* ids that have an edge to the item a relation condition names
  sorts,   \* the query's sort directions, key by key (empty: by id)
  filter,  \* the query's filter
  cursor,  \* the cursor of the next page, or <<>> for the first one
  pages,   \* the ids the client has been given, in order
  ended,   \* the last page had no nextCursor
  touched, \* rows written since the client began
  rowEdits    \* rows written so far (bounds the model)

pageVars == <<row, linkedTo, sorts, filter, cursor, pages, ended, touched, rowEdits>>

Null    == 0
RowIds  == 1 .. Rows
Key(i, n) == row[i].keys[n]

----------------------------------------------------------------------------
\* Conditions in three-valued logic: "t", "f" or, for a null operand, "u".
Truth(b) == IF b THEN "t" ELSE "f"

\* compileCondition on the first key; a relation condition asks for an edge.
CompileCondition(c, i) ==
  LET k == Key(i, 1) IN
  CASE c.type = "equals"     -> IF k = Null THEN "u" ELSE Truth(k = c.value)
    [] c.type = "not_equals" -> Truth(k # c.value)
    [] c.type = "is_empty"   -> Truth(k = Null)
    [] c.type = "before"     -> IF k = Null THEN "u" ELSE Truth(k < c.value)
    [] c.type = "relation_contains"     -> Truth(i \in linkedTo)
    [] c.type = "relation_not_contains" -> Truth(i \notin linkedTo)

\* compileFilterNode: a condition, its negation, or two of them joined.
CompileFilterNode(f, i) ==
  LET v == {CompileCondition(c, i) : c \in f.nodes} IN
  CASE f.type = "all" -> "t"
    [] f.type = "not" -> IF "u" \in v THEN "u" ELSE Truth("f" \in v)
    [] f.type = "and" -> IF "f" \in v THEN "f" ELSE IF "u" \in v THEN "u" ELSE "t"
    [] f.type = "or"  -> IF "t" \in v THEN "t" ELSE IF "u" \in v THEN "u" ELSE "f"

\* WHERE deleted_at IS NULL AND the filter: rows for which it is true.
Matching == {i \in RowIds : ~row[i].deleted /\ CompileFilterNode(filter, i) = "t"}

----------------------------------------------------------------------------
\* compileSort: ORDER BY the keys, NULLS LAST in either direction, then id.
SortsBefore(dir, a, b) ==
  a # Null /\ (b = Null \/ IF dir = "asc" THEN a < b ELSE a > b)

CompileSort(i, j) ==
  \/ \E n \in DOMAIN sorts : /\ SortsBefore(sorts[n], Key(i, n), Key(j, n))
                             /\ \A m \in 1 .. n - 1 : Key(i, m) = Key(j, m)
  \/ (\A n \in DOMAIN sorts : Key(i, n) = Key(j, n)) /\ i < j

\* encodeSortCursor: the last row's values and its id.
EncodeSortCursor(i) == [v |-> [n \in DOMAIN sorts |-> Key(i, n)], id |-> i]

\* The keyset's two terms for one key.
KeyAfter(n, i) == /\ cursor.v[n] # Null
                  /\ \/ Key(i, n) = Null
                     \/ IF sorts[n] = "asc" THEN Key(i, n) > cursor.v[n] ELSE Key(i, n) < cursor.v[n]
KeySame(n, i)  == Key(i, n) = cursor.v[n]

\* compileSortKeyset: strictly after the cursor's tuple, as an OR of prefixes.
CompileSortKeyset(i) ==
  \/ \E n \in DOMAIN sorts : KeyAfter(n, i) /\ \A m \in 1 .. n - 1 : KeySame(m, i)
  \/ (\A n \in DOMAIN sorts : KeySame(n, i)) /\ i > cursor.id

\* listItems: limit + 1 rows tell whether there is a next page.
ListItems ==
  LET after == {i \in Matching : cursor = <<>> \/ CompileSortKeyset(i)} IN
  SetToSortSeq(after, CompileSort)

QueryItems ==
  LET found == ListItems
      page  == SubSeq(found, 1, IF Len(found) > PageLimit THEN PageLimit ELSE Len(found)) IN
  /\ ~ended
  /\ pages' = pages \o page
  /\ ended' = (Len(found) <= PageLimit)
  /\ cursor' = IF Len(found) > PageLimit THEN EncodeSortCursor(Last(page)) ELSE cursor
  /\ UNCHANGED <<row, linkedTo, sorts, filter, touched, rowEdits>>

----------------------------------------------------------------------------
Edit(i) == /\ rowEdits < MaxRowEdits /\ ~ended /\ rowEdits' = rowEdits + 1
           /\ touched' = touched \cup {i}
           /\ UNCHANGED <<sorts, filter, cursor, pages, ended>>

WriteKey(i, n, k) == /\ Edit(i) /\ row' = [row EXCEPT ![i].keys[n] = k] /\ UNCHANGED linkedTo
TrashRow(i)       == /\ Edit(i) /\ row' = [row EXCEPT ![i].deleted = ~@] /\ UNCHANGED linkedTo
LinkRow(i)        == /\ Edit(i) /\ UNCHANGED row
                     /\ linkedTo' = IF i \in linkedTo THEN linkedTo \ {i} ELSE linkedTo \cup {i}

Value == CHOOSE v \in KeyValues[1] : TRUE
KeyRange(n) == KeyValues[n] \cup {Null}
Cond(t) == [type |-> t, value |-> Value]
Filters ==
  {[type |-> "all", nodes |-> {}], [type |-> "not", nodes |-> {Cond("equals")}],
   [type |-> "or", nodes |-> {Cond("is_empty"), Cond("relation_contains")}],
   [type |-> "and", nodes |-> {Cond("not_equals"), Cond("relation_not_contains")}]}

PageInit ==
  /\ row \in [RowIds -> [keys : {<<a, b>> : a \in KeyRange(1), b \in KeyRange(2)}, deleted : {FALSE}]]
  /\ linkedTo = {1} /\ filter \in Filters
  /\ sorts \in {<<>>, <<"asc">>, <<"desc", "asc">>}
  /\ cursor = <<>> /\ pages = <<>> /\ ended = FALSE /\ touched = {} /\ rowEdits = 0

PageNext ==
  \/ QueryItems
  \/ \E i \in RowIds : \/ TrashRow(i) \/ LinkRow(i)
                       \/ \E n \in 1 .. 2, k \in KeyRange(1) \cup KeyRange(2) : k \in KeyRange(n) /\ WriteKey(i, n, k)

PageSpec == PageInit /\ [][PageNext]_pageVars

----------------------------------------------------------------------------
PageTypeOK ==
  /\ row \in [RowIds -> [keys : KeyRange(1) \X KeyRange(2), deleted : BOOLEAN]]
  /\ pages \in Seq(RowIds) /\ touched \subseteq RowIds

Times(i) == Cardinality({n \in DOMAIN pages : pages[n] = i})

\* Whatever others write meanwhile, a client that pages to the end has been
\* given each matching row that nobody touched, and no untouched row twice,
\* also when rows share their sort keys or have none (sortCompiler.ts,
\* compileSortKeyset).
PagesCoverUntouched ==
  \A i \in RowIds \ touched : /\ Times(i) <= 1
                              /\ i \notin Matching => Times(i) = 0
                              /\ i \in Matching /\ ended => Times(i) = 1

\* Untouched rows come in the order one unpaged query would give them.
PagesAreOrdered ==
  \A m, n \in DOMAIN pages :
    m < n /\ pages[m] \notin touched /\ pages[n] \notin touched => CompileSort(pages[m], pages[n])

-----------------------------------------------------------------------------
(***************************************************************************)
(* A view that a user and agents write at the same time (viewOps.ts,       *)
(* viewsStore.ts) and, as a curated view, its members and their positions  *)
(* (viewItemsStore.ts).  Every operation is one transaction: it reads the  *)
(* view and checks its owner without a lock, a user's write adopts an      *)
(* agent's view, and a change of positions locks the view's row first.     *)
(* A client pages through the members meanwhile (views/viewQuery.ts).      *)
(***************************************************************************)

CONSTANTS ViewWriters, \* transactions open at the same time
          Members,     \* items that may be members
          Agents,      \* projects agents write for
          NoOne,       \* no project, and no holder of a lock
          MaxPosition, \* bound: positions a request names
          MaxViewOps   \* bound: operations begun

ASSUME ViewAssumption ==
  NoOne \notin Agents \cup ViewWriters /\ MaxPosition \in Nat /\ MaxViewOps \in Nat

VARIABLES
  view,      \* the committed row: "createdBy", "creator", "config", or "deleted"
  position,  \* committed member -> its position
  viewLock,  \* the transaction that holds the view's row
  vtx,       \* writer -> its open transaction
  viewOps,   \* operations begun (bounds the model)
  lateAgents,\* agents' transactions whose check the view's adoption overtook
  stalePatch,\* patches that merged into a config another one has replaced
  pagesShown,     \* members the paging client has been given
  pagePos,   \* its cursor
  moved      \* members whose position or membership changed since it began

viewVars == <<view, position, viewLock, vtx, viewOps, lateAgents, stalePatch, pagesShown, pagePos, moved>>

User == [type |-> "user", project |-> NoOne]
ViewActors == {User} \cup [type : {"ai_agent"}, project : Agents]
ViewIdle == [step |-> "idle", actor |-> User, op |-> "none", item |-> NoOne, pos |-> 0,
             field |-> "none", adopts |-> FALSE, merged |-> <<>>]

\* A mutant: any agent may write an agent's view.
AnyAgentWrites(actor) == actor.type = "user" \/ view.createdBy = "ai_agent"

\* assertViewWritable: an agent writes the views of its own project only.
AssertViewWritable(actor) ==
  actor.type = "user" \/ (view.createdBy = "ai_agent" /\ view.creator = actor.project)

VTx(w, t) == vtx' = [vtx EXCEPT ![w] = t]

BeginViewOp(w, actor, op, i, p, f) ==
  /\ vtx[w].step = "idle" /\ viewOps < MaxViewOps /\ viewOps' = viewOps + 1
  /\ view.createdBy # "deleted" /\ AssertViewWritable(actor)
  /\ LET adopts == actor.type = "user" /\ view.createdBy = "ai_agent" /\ op # "delete" IN
     VTx(w, [ViewIdle EXCEPT !.step = IF adopts THEN "adopt" ELSE IF op = "patch" THEN "merge" ELSE "apply",
                            !.actor = actor, !.op = op, !.item = i, !.pos = p, !.field = f])
  /\ UNCHANGED <<view, position, viewLock, lateAgents, stalePatch, pagesShown, pagePos, moved>>

ViewLockFree(w) == viewLock \in {NoOne, w}

\* adoptIfUserWrite: the UPDATE holds the row until the commit.
AdoptIfUserWrite(w) ==
  /\ vtx[w].step = "adopt" /\ ViewLockFree(w) /\ view.createdBy # "deleted"
  /\ viewLock' = w
  /\ VTx(w, [vtx[w] EXCEPT !.adopts = TRUE, !.step = IF vtx[w].op = "patch" THEN "merge" ELSE "apply"])
  /\ UNCHANGED <<view, position, viewOps, lateAgents, stalePatch, pagesShown, pagePos, moved>>

\* patchView merges the patch into the config it reads, without a lock.
MergeConfig(w) ==
  /\ vtx[w].step = "merge" /\ view.createdBy # "deleted"
  /\ VTx(w, [vtx[w] EXCEPT !.step = "apply", !.merged = [view.config EXCEPT ![vtx[w].field] = w]])
  /\ UNCHANGED <<view, position, viewLock, viewOps, lateAgents, stalePatch, pagesShown, pagePos, moved>>

----------------------------------------------------------------------------
Held == DOMAIN position
NextPosition == IF Held = {} THEN 0
                ELSE 1 + (CHOOSE p \in {position[i] : i \in Held} : \A i \in Held : position[i] <= p)
With(i, p, pos) == [j \in DOMAIN pos \cup {i} |-> IF j = i THEN p ELSE pos[j]]

\* reorderViewItem: the rows between the old and the new position shift by one.
ReorderViewItem(i, p) ==
  LET old == position[i] IN
  [j \in Held |-> CASE j = i -> p
                    [] j # i /\ position[j] > old /\ position[j] <= p -> position[j] - 1
                    [] j # i /\ position[j] < old /\ position[j] >= p -> position[j] + 1
                    [] OTHER -> position[j]]

\* addViewItem: a member moves; a new one is appended or makes room.
AddViewItem(i, p, explicit) ==
  CASE i \in Held -> IF explicit THEN ReorderViewItem(i, p) ELSE position
    [] i \notin Held /\ ~explicit -> With(i, NextPosition, position)
    [] OTHER -> With(i, p, [j \in Held |-> IF position[j] >= p THEN position[j] + 1 ELSE position[j]])

RemoveViewItem(i) == [j \in Held \ {i} |-> position[j]]

\* What the operation's transaction leaves of the members.
Result(t) == CASE t.op = "append"  -> AddViewItem(t.item, 0, FALSE)
               [] t.op = "insert"  -> AddViewItem(t.item, t.pos, TRUE)
               [] t.op = "reorder" -> ReorderViewItem(t.item, t.pos)
               [] t.op = "remove"  -> RemoveViewItem(t.item)
               [] OTHER            -> position

Applies(w) ==
  LET t == vtx[w] IN
  /\ t.step = "apply" /\ view.createdBy # "deleted"
  /\ t.op # "remove" => ViewLockFree(w)
  /\ t.op \in {"reorder", "remove"} => t.item \in Held

CommitView(w) ==
  LET t == vtx[w] IN
  /\ view' = CASE t.op = "delete" -> [view EXCEPT !.createdBy = "deleted"]
               [] OTHER -> [createdBy |-> IF t.adopts THEN "user" ELSE view.createdBy,
                            creator |-> IF t.adopts THEN NoOne ELSE view.creator,
                            config |-> IF t.op = "patch" THEN t.merged ELSE view.config]
  /\ lateAgents' = IF t.adopts THEN {v \in ViewWriters : vtx[v].actor.type = "ai_agent"}
                    ELSE lateAgents \ {w}
  /\ stalePatch' = IF t.op = "patch"
                    THEN {v \in ViewWriters : vtx[v].op = "patch" /\ vtx[v].step = "apply"} \ {w}
                    ELSE stalePatch
  /\ viewLock' = IF viewLock = w THEN NoOne ELSE viewLock
  /\ VTx(w, ViewIdle)

\* The change and its commit; the lock is held from before the first read.
ApplyViewOp(w) ==
  /\ Applies(w) /\ CommitView(w)
  /\ position' = IF vtx[w].op = "delete" THEN <<>> ELSE Result(vtx[w])
  /\ moved' = IF pagesShown = <<>> THEN moved
              ELSE moved \cup {i \in Held \cup DOMAIN position' : {i} \subseteq Held \cap DOMAIN position'
                                                               => position[i] # position'[i]}
  /\ UNCHANGED <<viewOps, pagesShown, pagePos>>

\* A lock wait that ends with the view gone, a missing member, a lost connection.
ViewOpFails(w) ==
  /\ vtx[w].step # "idle" /\ VTx(w, ViewIdle)
  /\ viewLock' = IF viewLock = w THEN NoOne ELSE viewLock
  /\ lateAgents' = lateAgents \ {w} /\ stalePatch' = stalePatch \ {w}
  /\ UNCHANGED <<view, position, viewOps, pagesShown, pagePos, moved>>

\* queryCuratedView with pages of one: the next member after the cursor.
QueryCuratedView ==
  \E i \in Held :
    /\ position[i] > pagePos /\ \A j \in Held : position[j] > pagePos => position[i] <= position[j]
    /\ pagesShown' = Append(pagesShown, i) /\ pagePos' = position[i]
    /\ UNCHANGED <<view, position, viewLock, vtx, viewOps, lateAgents, stalePatch, moved>>

Ranked == CHOOSE p \in [Members -> 0 .. Cardinality(Members) - 1] : \A i, j \in Members : p[i] = p[j] => i = j

ViewInit ==
  /\ \E a \in Agents : view \in [createdBy : {"ai_agent"}, creator : {a}, config : {[sort |-> NoOne, filter |-> NoOne]}]
                         \cup [createdBy : {"user"}, creator : {NoOne}, config : {[sort |-> NoOne, filter |-> NoOne]}]
  /\ position \in {<<>>, Ranked} /\ viewLock = NoOne /\ vtx = [w \in ViewWriters |-> ViewIdle]
  /\ viewOps = 0 /\ lateAgents = {} /\ stalePatch = {}
  /\ pagesShown = <<>> /\ pagePos = -1 /\ moved = {}

ViewNext ==
  \/ \E w \in ViewWriters :
       \/ \E actor \in ViewActors :
            \/ \E i \in Members : \/ BeginViewOp(w, actor, "append", i, 0, "none")
                                  \/ BeginViewOp(w, actor, "remove", i, 0, "none")
                                  \/ \E p \in 0 .. MaxPosition : \/ BeginViewOp(w, actor, "insert", i, p, "none")
                                                                 \/ BeginViewOp(w, actor, "reorder", i, p, "none")
            \/ \E f \in {"sort", "filter"} : BeginViewOp(w, actor, "patch", NoOne, 0, f)
            \/ BeginViewOp(w, actor, "delete", NoOne, 0, "none")
       \/ AdoptIfUserWrite(w) \/ MergeConfig(w) \/ ApplyViewOp(w) \/ ViewOpFails(w)
  \/ QueryCuratedView

ViewSpec == ViewInit /\ [][ViewNext]_viewVars

----------------------------------------------------------------------------
ViewTypeOK ==
  /\ view.createdBy \in {"user", "ai_agent", "deleted"}
  /\ Held \subseteq Members /\ viewLock \in ViewWriters \cup {NoOne}
  /\ lateAgents \cup stalePatch \subseteq ViewWriters

\* However adds, moves and removals overlap, no two members share a position:
\* the order of the view is determined (viewItemsStore.ts, reorderViewItem).
PositionsAreUnique == \A i, j \in Held : position[i] = position[j] => i = j

\* A client that pages through the view has been given, once each, exactly
\* the members up to its cursor that stayed where they were.
UnmovedShownOnce ==
  \A i \in Held \ moved :
    Cardinality({n \in DOMAIN pagesShown : pagesShown[n] = i}) = IF position[i] <= pagePos THEN 1 ELSE 0

\* A view that is not a project's own is not changed by its agent, unless
\* the owner changed between the agent's check and its write.
AgentsRespectOwners ==
  [][\A w \in ViewWriters : /\ vtx[w].step = "apply" /\ vtx'[w].step = "idle"
                            /\ vtx[w].actor.type = "ai_agent" /\ <<view, position>>' # <<view, position>>
                            /\ w \notin lateAgents
                            => view.createdBy = "ai_agent" /\ view.creator = vtx[w].actor.project]_viewVars

\* A patch of one setting leaves the other alone, unless another patch was
\* committed between its read of the config and its write.
PatchesMerge ==
  [][\A w \in ViewWriters, f \in {"sort", "filter"} :
       /\ vtx[w].step = "apply" /\ vtx[w].op = "patch" /\ view'.config # view.config
       /\ vtx'[w].step = "idle" /\ w \notin stalePatch /\ f # vtx[w].field
       => view'.config[f] = view.config[f]]_viewVars
=============================================================================
