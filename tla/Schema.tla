------------------------------- MODULE Schema -------------------------------
(***************************************************************************)
(* A database's properties: the guards of schema changes, the migration of *)
(* a retyped property, and the values of rollups.                          *)
(***************************************************************************)
EXTENDS Naturals, FiniteSets

-----------------------------------------------------------------------------
(***************************************************************************)
(* The schema operations of the choke point and the guards that protect    *)
(* rollups: propertyOps.ts, propertiesStore.ts, relationPropertyOps.ts and *)
(* rollup/{config,mirror,dependencies}.ts.  Database A has a relation to   *)
(* database B ("rel", its inverse "inv") and a rollup ("roll") that        *)
(* aggregates the property "src" of B over it.  An operation is one        *)
(* transaction: it checks what is committed, then writes and commits; the  *)
(* checks take no lock but the one a retype or a new configuration takes   *)
(* on its own property, so another operation may commit in between.        *)
(***************************************************************************)

CONSTANTS Editors,      \* transactions open at the same time
          MaxSchemaOps  \* bound: operations begun

ASSUME SchemaAssumption == MaxSchemaOps \in Nat

VARIABLES
  props,     \* properties that exist
  srcType,   \* the type of src
  default,   \* the type src's configured default is a value of, or "none"
  rollup,    \* the aggregation the rollup is configured for
  reldef,    \* the relation definition's row exists
  dep,       \* the rollup's dependency row: "none", "relation" or "source"
  lockedP,   \* properties locked for ever
  lockedDb,  \* databases whose schema is locked
  archivedDb,\* databases that are archived
  pairLinked,    \* the relation has an edge
  op,        \* the open operation of each editor
  opsBegun,  \* operations begun (bounds the model)
  overtaken  \* the rollup is unsound since an operation committed on a stale check

schemaVars == <<props, srcType, default, rollup, reldef, dep, lockedP, lockedDb, archivedDb, pairLinked,
                op, opsBegun, overtaken>>

PropIds   == {"rel", "inv", "src", "roll"}
DbOf      == [p \in PropIds |-> IF p \in {"rel", "roll"} THEN "A" ELSE "B"]
SrcTypes  == {"number", "date", "text"}
Aggregations == {"count", "sum", "earliest"}
Defaults  == SrcTypes \cup {"none"}
NoOp      == [kind |-> "idle", on |-> "src", to |-> "none", given |-> "none"]

\* assertValidDefault; given is the default the operation brings, "keep" none.
DefaultFits(d, t) == d \in {"none", t}
Given(o) == IF o.given = "keep" THEN default ELSE o.given

\* assertTargetTypeCompatible and NO_TARGET.
NeedsSource(agg) == agg # "count"
Compatible(agg, t) ==
  /\ agg = "sum"      => t = "number"
  /\ agg = "earliest" => t = "date"

\* validateRollupConfig and applyRollupConfig on what is committed.
RollupConfigValid(agg) ==
  /\ "rel" \in props /\ reldef
  /\ NeedsSource(agg) => "src" \in props /\ Compatible(agg, srcType)

Sound == "roll" \in props =>
           RollupConfigValid(rollup) /\ dep = (IF NeedsSource(rollup) THEN "source" ELSE "relation")

\* findDependenciesByRelationDefinition and findDependenciesBySource.
RelationDeletable  == dep = "none"
SourceDeletable(p) == ~(p = "src" /\ dep = "source")
RetypeAllowed(t)   == dep = "source" => Compatible(rollup, t)

\* assertPropertySchemaMutable and assertDatabaseSchemaUnlocked.
Mutable(p) == p \in props /\ p \notin lockedP /\ DbOf[p] \notin lockedDb

Paired == [p \in {"rel", "inv"} |-> IF p = "rel" THEN "inv" ELSE "rel"]

\* propertyDeleteWithClient: neither side of the pair is locked.
PairDeletable(p) ==
  p \in {"rel", "inv"} => RelationDeletable /\ (reldef => Mutable(Paired[p]))

\* What an operation checks before it writes.
Checks(o) ==
  CASE o.kind = "relation" -> {"rel", "inv"} \cap props = {} /\ lockedDb = {}
    [] o.kind = "property" -> o.on \notin props /\ DbOf[o.on] \notin lockedDb
                              /\ DefaultFits(o.given, o.to)
    [] o.kind = "rollup"   -> "roll" \notin props /\ "A" \notin lockedDb /\ RollupConfigValid(o.to)
    [] o.kind = "config"   -> Mutable("roll") /\ RollupConfigValid(o.to)
    [] o.kind = "retype"   -> Mutable("src") /\ o.to # srcType /\ RetypeAllowed(o.to)
                              /\ DefaultFits(Given(o), o.to)
    [] o.kind = "default"  -> Mutable("src") /\ DefaultFits(o.given, srcType)
    [] o.kind = "delete"   -> Mutable(o.on) /\ PairDeletable(o.on) /\ SourceDeletable(o.on)
    [] o.kind = "link"     -> "rel" \in props /\ reldef /\ archivedDb = {}
    [] OTHER -> FALSE

\* getPropertyForUpdate: the row is held from the check to the commit.
HeldProps(w) == CASE op[w].kind \in {"retype", "default"} -> {"src"}
                  [] op[w].kind = "config" -> {"roll"}
                  [] OTHER -> {}
Free(ps)  == \A w \in Editors : HeldProps(w) \cap ps = {}

BeginOp(w, o) ==
  /\ op[w] = NoOp /\ opsBegun < MaxSchemaOps
  /\ Checks(o)
  /\ o.kind \in {"retype", "default"} => Free({"src"})
  /\ o.kind = "config" => Free({"roll"})
  /\ op' = [op EXCEPT ![w] = o] /\ opsBegun' = opsBegun + 1
  /\ UNCHANGED <<props, srcType, default, rollup, reldef, dep, lockedP, lockedDb, archivedDb, pairLinked, overtaken>>

CreateProperty(w, t, d) == BeginOp(w, [kind |-> "property", on |-> "src", to |-> t, given |-> d])
CreateRelation(w, ls)  == BeginOp(w, [kind |-> "relation", on |-> "rel", to |-> ls, given |-> "none"])
CreateRollupProperty(w, agg) == BeginOp(w, [kind |-> "rollup", on |-> "roll", to |-> agg, given |-> "none"])
UpdatePropertyConfig(w, agg) == BeginOp(w, [kind |-> "config", on |-> "roll", to |-> agg, given |-> "none"])
RetypeProperty(w, t, d) == BeginOp(w, [kind |-> "retype", on |-> "src", to |-> t, given |-> d])
SetDefault(w, d) == BeginOp(w, [kind |-> "default", on |-> "src", to |-> "none", given |-> d])
DeleteProperty(w, p)   == BeginOp(w, [kind |-> "delete", on |-> p, to |-> "none", given |-> "none"])
LinkThrough(w)         == BeginOp(w, [kind |-> "link", on |-> "rel", to |-> "none", given |-> "none"])

\* Operations on rows that gone takes away: they name them by id, and a
\* property created again has another one.
Loses(o, gone) ==
  \/ o.kind = "delete" /\ o.on \in gone
  \/ o.kind \in {"rollup", "config", "link"} /\ "rel" \in gone

\* The operation's stale checks, if any, and what they left behind.
Closing(w) ==
  /\ op' = [v \in Editors |-> CASE v = w -> NoOp
                               [] v # w /\ Loses(op[v], props \ props') -> [op[v] EXCEPT !.kind = "lost"]
                               [] OTHER -> op[v]]
  /\ overtaken' = ((overtaken \/ ~Checks(op[w])) /\ ~Sound')
  /\ UNCHANGED <<lockedDb, archivedDb, opsBegun>>

\* Inserted with the pair's locks, both properties and the definition at once.
CommitRelation(w) ==
  /\ op[w].kind = "relation" /\ {"rel", "inv"} \cap props = {}
  /\ props' = props \cup {"rel", "inv"} /\ reldef' = TRUE
  /\ lockedP' = lockedP \cup (CASE op[w].to = "both" -> {"rel", "inv"}
                                [] op[w].to = "inverse" -> {"inv"} [] OTHER -> {})
  /\ UNCHANGED <<srcType, default, rollup, dep, pairLinked>> /\ Closing(w)

CommitProperty(w) ==
  /\ op[w].kind = "property" /\ "src" \notin props
  /\ props' = props \cup {"src"} /\ srcType' = op[w].to /\ default' = op[w].given
  /\ UNCHANGED <<rollup, reldef, dep, lockedP, pairLinked>> /\ Closing(w)

\* The property, its dependency row and the backfill job; the row's foreign
\* key needs the relation definition, nothing needs the source property.
CommitRollup(w) ==
  /\ op[w].kind \in {"rollup", "config"}
  /\ op[w].kind = "rollup" => "roll" \notin props
  /\ props' = props \cup {"roll"} /\ rollup' = op[w].to
  /\ dep' = IF NeedsSource(op[w].to) THEN "source" ELSE "relation"
  /\ UNCHANGED <<srcType, default, reldef, lockedP, pairLinked>> /\ Closing(w)

CommitRetype(w) ==
  /\ op[w].kind \in {"retype", "default"}
  /\ srcType' = IF op[w].kind = "retype" THEN op[w].to ELSE srcType
  /\ default' = Given(op[w])
  /\ UNCHANGED <<props, rollup, reldef, dep, lockedP, pairLinked>> /\ Closing(w)

\* The pair goes together; ON DELETE CASCADE takes the definition, its edges
\* and the dependency rows with it.
CommitDelete(w) ==
  LET p == op[w].on
      gone == (IF p \in {"rel", "inv"} /\ reldef THEN {"rel", "inv"} ELSE {p}) \cap props IN
  /\ op[w].kind = "delete"
  /\ \A v \in Editors \ {w} : HeldProps(v) \cap gone = {}
  /\ props' = props \ gone
  /\ reldef' = (reldef /\ {"rel", "inv"} \cap gone = {})
  /\ pairLinked' = (pairLinked /\ reldef')
  /\ dep' = IF ~reldef' \/ "roll" \in gone THEN "none" ELSE dep
  /\ UNCHANGED <<srcType, default, rollup, lockedP>> /\ Closing(w)

\* createItemRelation: the edge's foreign key needs the definition.
CommitLink(w) ==
  /\ op[w].kind = "link" /\ pairLinked' = TRUE
  /\ UNCHANGED <<props, srcType, default, rollup, reldef, dep, lockedP>> /\ Closing(w)

\* A duplicate key, a missing definition or a row that is gone.
Rejected(w) ==
  /\ \/ op[w].kind = "lost"
     \/ op[w].kind = "relation" /\ {"rel", "inv"} \cap props # {}
     \/ op[w].kind = "property" /\ "src" \in props
     \/ op[w].kind = "rollup" /\ "roll" \in props
  /\ op' = [op EXCEPT ![w] = NoOp]
  /\ UNCHANGED <<props, srcType, default, rollup, reldef, dep, lockedP, lockedDb, archivedDb, pairLinked,
                 opsBegun, overtaken>>

\* archiveDatabase and restoreDatabase.
ArchiveDb(d) ==
  /\ opsBegun < MaxSchemaOps /\ opsBegun' = opsBegun + 1
  /\ archivedDb' = IF d \in archivedDb THEN archivedDb \ {d} ELSE archivedDb \cup {d}
  /\ UNCHANGED <<props, srcType, default, rollup, reldef, dep, lockedP, lockedDb, pairLinked, op, overtaken>>

SchemaInit ==
  /\ props \in {{}, {"src"}, {"src", "rel", "inv"}}
  /\ srcType \in SrcTypes /\ rollup = "count" /\ default = "none"
  /\ reldef = ("rel" \in props) /\ dep = "none"
  /\ lockedP \in {{}, {"inv"} \cap props} /\ lockedDb \in {{}, {"B"}}
  /\ archivedDb = {} /\ pairLinked = FALSE
  /\ op = [w \in Editors |-> NoOp] /\ opsBegun = 0 /\ overtaken = FALSE

SchemaNext ==
  \/ \E w \in Editors :
       \/ \E t \in SrcTypes, d \in Defaults : CreateProperty(w, t, d)
       \/ \E t \in SrcTypes, d \in Defaults \cup {"keep"} : RetypeProperty(w, t, d)
       \/ \E d \in Defaults : SetDefault(w, d)
       \/ \E ls \in {"none", "inverse", "both"} : CreateRelation(w, ls)
       \/ \E agg \in Aggregations : CreateRollupProperty(w, agg) \/ UpdatePropertyConfig(w, agg)
       \/ \E p \in PropIds : DeleteProperty(w, p)
       \/ LinkThrough(w)
       \/ CommitRelation(w) \/ CommitProperty(w) \/ CommitRollup(w) \/ CommitRetype(w)
       \/ CommitDelete(w) \/ CommitLink(w) \/ Rejected(w)
  \/ \E d \in {"A", "B"} : ArchiveDb(d)

SchemaSpec == SchemaInit /\ [][SchemaNext]_schemaVars

----------------------------------------------------------------------------
SchemaTypeOK ==
  /\ props \subseteq PropIds /\ srcType \in SrcTypes /\ default \in Defaults /\ rollup \in Aggregations
  /\ dep \in {"none", "relation", "source"}
  /\ lockedP \subseteq PropIds /\ pairLinked \in BOOLEAN /\ overtaken \in BOOLEAN

\* A rollup's relation exists, and its source property with a type that fits
\* its aggregation, unless an operation committed after what it had checked
\* was changed by another one.
RollupIsSound == Sound \/ overtaken

\* The default configured for a property is a value of its type, whatever a
\* retype and a new configuration do at the same time.
DefaultFitsType == "src" \in props => DefaultFits(default, srcType)

\* A relation's two properties and its definition exist together.
PairsAreWhole == ("rel" \in props) = reldef /\ ("inv" \in props) = reldef

\* A locked property is never deleted, not even through its pair.
LockedPropertiesStay == [][lockedP \cap props \subseteq props']_schemaVars

-----------------------------------------------------------------------------
(***************************************************************************)
(* Changing a property's type (propertyOps.ts, propertiesStore.ts) and the *)
(* job that converts every item's value (propertyTypeMigration.ts), one    *)
(* row per batch.  The job key lets a later retype replace a job that is   *)
(* not running; a running one finishes with the type it read at its start. *)
(* Values are classes: a word, a numeral, a day, the converter's own date  *)
(* shape, a JSON number.                                                   *)
(***************************************************************************)

CONSTANTS NRows,          \* items of the database, in id order
          MaxRetypes,     \* bound: changes of type
          MaxCellEdits,       \* bound: values users write
          MigrationTries, \* attempts of the job
          MaxJobFaults    \* bound: failed attempts and deaths

ASSUME MigrationAssumption ==
  /\ NRows \in Nat \ {0} /\ MigrationTries \in Nat \ {0}
  /\ MaxRetypes \in Nat /\ MaxCellEdits \in Nat /\ MaxJobFaults \in Nat

VARIABLES
  ptype,      \* the property's type
  pstatus,    \* its migration_status
  dropMark,   \* its migration_dropped_values
  held,       \* row -> its value's class
  queuedJob,  \* the waiting job: [from, tries], tries = 0 without one
  atWork,     \* the running attempt
  retypes, cellEdits, jobFaults,
  lostSince,  \* a value was discarded since the last retype
  wrongDrops, \* rows whose value was discarded although it had the target type
  stranded    \* the last attempt died, or could not record its end

migrationVars == <<ptype, pstatus, dropMark, held, queuedJob, atWork, retypes, cellEdits, jobFaults,
                   lostSince, wrongDrops, stranded>>

Types   == {"text", "number", "date"}
Strings == {"word", "numeral", "day", "iso"}
NoJobM  == [from |-> "text", tries |-> 0]
NoWork  == [step |-> "none", from |-> "text", to |-> "text", row |-> 0, tries |-> 0, dropped |-> FALSE]

\* CONVERTERS: what a value of one type becomes in another; "none" drops it.
Supported == {<<"text", "number">>, <<"text", "date">>, <<"number", "text">>, <<"date", "text">>}
Convert(from, to, v) ==
  CASE from = to -> v
    [] <<from, to>> = <<"text", "number">> -> IF v = "numeral" THEN "num" ELSE "none"
    [] <<from, to>> = <<"text", "date">>   -> IF v \in {"day", "iso"} THEN "iso" ELSE "none"
    [] <<from, to>> = <<"number", "text">> -> IF v = "num" THEN "numeral" ELSE "none"
    [] <<from, to>> = <<"date", "text">>   -> IF v \in Strings THEN v ELSE "none"
    [] OTHER -> "none"

\* isAlreadyTargetType: an earlier attempt converted the value.
IsAlreadyTarget(type, v) ==
  CASE type = "number" -> v = "num"
    [] type = "text"   -> v \in Strings
    [] type = "date"   -> v = "iso"

\* changePropertyType: one transaction for type, status, mark and job.
ChangePropertyType(t) ==
  /\ retypes < MaxRetypes /\ <<ptype, t>> \in Supported
  /\ ptype' = t /\ pstatus' = "pending" /\ dropMark' = FALSE
  /\ queuedJob' = [from |-> ptype, tries |-> MigrationTries]
  /\ retypes' = retypes + 1
  /\ lostSince' = FALSE
  /\ stranded' = FALSE
  /\ UNCHANGED <<held, atWork, cellEdits, jobFaults, wrongDrops>>

\* A user writes a value of the current type.
WriteValue(r, v) ==
  /\ cellEdits < MaxCellEdits
  /\ v \in (CASE ptype = "number" -> {"num"} [] ptype = "date" -> {"day"} [] OTHER -> {"word"})
  /\ held' = [held EXCEPT ![r] = v] /\ cellEdits' = cellEdits + 1
  /\ UNCHANGED <<ptype, pstatus, dropMark, queuedJob, atWork, retypes, jobFaults, lostSince,
                 wrongDrops, stranded>>

\* runPropertyTypeMigrationJob reads the property and marks it running.
StartMigration ==
  /\ atWork = NoWork /\ queuedJob.tries > 0
  /\ atWork' = [step |-> "convert", from |-> queuedJob.from, to |-> ptype, row |-> 1,
                tries |-> queuedJob.tries, dropped |-> FALSE]
  /\ queuedJob' = NoJobM
  /\ pstatus' = "running"
  /\ UNCHANGED <<ptype, dropMark, held, retypes, cellEdits, jobFaults, lostSince, wrongDrops, stranded>>

Row == atWork.row
AfterRow == IF Row = NRows THEN [atWork EXCEPT !.step = "settle"] ELSE [atWork EXCEPT !.row = @ + 1]

\* One batch, one transaction: rows locked, marked before a value is dropped.
ConvertBatch ==
  LET v == held[Row]
      skip == v = "none" \/ (atWork.from # atWork.to /\ IsAlreadyTarget(atWork.to, v))
      c == Convert(atWork.from, atWork.to, v)
      drop == ~skip /\ c = "none" IN
  /\ atWork.step = "convert"
  /\ held' = [held EXCEPT ![Row] = IF skip THEN v ELSE c]
  /\ dropMark' = (dropMark \/ drop)
  /\ atWork' = [AfterRow EXCEPT !.dropped = @ \/ drop]
  /\ lostSince' = (lostSince \/ drop)
  /\ wrongDrops' = IF drop /\ IsAlreadyTarget(atWork.to, v) THEN wrongDrops \cup {Row} ELSE wrongDrops
  /\ UNCHANGED <<ptype, pstatus, queuedJob, retypes, cellEdits, jobFaults, stranded>>

\* settlePropertyMigrationStatus: the verdict comes from the durable mark.
Settle ==
  /\ atWork.step = "settle"
  /\ pstatus' = IF dropMark THEN "partial" ELSE "done"
  /\ atWork' = NoWork
  /\ UNCHANGED <<ptype, dropMark, held, queuedJob, retypes, cellEdits, jobFaults, lostSince,
                 wrongDrops, stranded>>

\* handlePropertyTypeMigrationTask: a failed attempt is retried, unless a
\* newer job took its key; the last one settles on a partial migration.
MigrationFails ==
  /\ atWork # NoWork /\ jobFaults < MaxJobFaults
  /\ jobFaults' = jobFaults + 1
  /\ atWork' = NoWork
  /\ IF atWork.tries > 1
     THEN /\ queuedJob' = IF queuedJob = NoJobM
                          THEN [from |-> atWork.from, tries |-> atWork.tries - 1] ELSE queuedJob
          /\ UNCHANGED <<pstatus, dropMark, stranded>>
     ELSE /\ \/ dropMark' = TRUE /\ pstatus' = "partial" /\ UNCHANGED stranded
             \/ stranded' = TRUE /\ UNCHANGED <<dropMark, pstatus>>
          /\ UNCHANGED queuedJob
  /\ UNCHANGED <<ptype, held, retypes, cellEdits, lostSince, wrongDrops>>

\* The process dies; graphile-worker gives the job back until its last try.
MigrationDies ==
  /\ atWork # NoWork /\ jobFaults < MaxJobFaults
  /\ jobFaults' = jobFaults + 1
  /\ atWork' = NoWork
  /\ IF atWork.tries > 1
     THEN /\ queuedJob' = IF queuedJob = NoJobM
                          THEN [from |-> atWork.from, tries |-> atWork.tries - 1] ELSE queuedJob
          /\ UNCHANGED stranded
     ELSE stranded' = TRUE /\ UNCHANGED queuedJob
  /\ UNCHANGED <<ptype, pstatus, dropMark, held, retypes, cellEdits, lostSince, wrongDrops>>

MigrationInit ==
  /\ ptype \in {"text", "number"}
  /\ pstatus = "stable" /\ dropMark = FALSE
  /\ held \in [1 .. NRows -> IF ptype = "text" THEN {"word", "numeral", "day"} ELSE {"num"}]
  /\ queuedJob = NoJobM /\ atWork = NoWork
  /\ retypes = 0 /\ cellEdits = 0 /\ jobFaults = 0
  /\ lostSince = FALSE /\ wrongDrops = {} /\ stranded = FALSE

MigrationStep == StartMigration \/ ConvertBatch \/ Settle

MigrationNext ==
  \/ \E t \in Types : ChangePropertyType(t)
  \/ \E r \in 1 .. NRows, v \in Strings \cup {"num"} : WriteValue(r, v)
  \/ MigrationStep \/ MigrationFails \/ MigrationDies

MigrationFairness == WF_migrationVars(MigrationStep)
MigrationSpec == MigrationInit /\ [][MigrationNext]_migrationVars /\ MigrationFairness

----------------------------------------------------------------------------
MigrationTypeOK ==
  /\ ptype \in Types
  /\ pstatus \in {"stable", "pending", "running", "done", "partial"}
  /\ held \in [1 .. NRows -> Strings \cup {"num", "none"}]
  /\ queuedJob.tries \in 0 .. MigrationTries
  /\ atWork.row \in 0 .. NRows

Settled == pstatus \in {"done", "partial"} /\ queuedJob = NoJobM /\ atWork = NoWork

OfType(v) == CASE ptype = "number" -> v \in {"num", "none"}
               [] ptype = "text"   -> v \in Strings \cup {"none"}
               [] ptype = "date"   -> v \in {"day", "iso", "none"}

\* When the last job has settled as done, every value is one of the current
\* type and none was discarded since the retype; after values were discarded
\* the property says so, whichever attempts and retypes overlapped.
DoneMeansConverted ==
  Settled /\ pstatus = "done" => ~lostSince /\ \A r \in 1 .. NRows : OfType(held[r])

\* A retry never discards a value that already has the target type.
ConvertedStays == wrongDrops = {}

\* A retyped property settles, unless its last attempt died or could not
\* record its end: nothing looks at the property again.
RetypeSettled == pstatus \in {"pending", "running"} => stranded

-----------------------------------------------------------------------------
(***************************************************************************)
(* Relation edges and the rollup cells computed from them (relationOps.ts, *)
(* itemWrites.ts, itemTrash.ts, rollup/): every write that can change a    *)
(* cell queues a recompute of it in its own transaction, and a recompute   *)
(* always aggregates the whole cell again.  One relation, from the items   *)
(* of Parents (side A) to Children (side B), and one rollup on side A.     *)
(* The two databases differ.                                               *)
(***************************************************************************)

CONSTANTS ItemsR,        \* items of both databases
          Parents,       \* items of the rollup's database, side A
          Children,      \* items of the relation's target database, side B
          Writers,       \* transactions that write
          MaxValue,      \* bound: values of the aggregated property
          MaxWrites,     \* bound: write transactions begun
          MaxTriesR,     \* attempts of a recompute job and of a backfill (3)
          BackfillPage   \* parents on a page of the backfill (500)

ASSUME RollupAssumption ==
  /\ Parents \cup Children = ItemsR /\ Parents \cap Children = {}
  /\ MaxValue \in Nat /\ MaxWrites \in Nat /\ {MaxTriesR, BackfillPage} \subseteq Nat \ {0}

VARIABLES
  value,     \* item -> value of the aggregated property
  alive,     \* item -> not in the trash
  edges,     \* committed edges <<a, b>>
  cardinal,  \* cardinality of the relation: constant
  declared,  \* rollup_dependencies holds the rollup
  cell,      \* parent -> the value last computed: the set of <<item, value>> it saw
  jobs,      \* queued recomputes by job key: item -> attempts left, 0 without a job
  backfill,  \* the backfill job: attempts left, the page it has read and not yet queued,
             \* the parents it has walked past, whether the page is the last one, and
             \* history: the parents no attempt has queued
  wtx,       \* open transaction of each writer
  writes,    \* write transactions begun
  hidden,    \* cells whose change two overlapping transactions hid from each other
  failedFor  \* cells whose recompute used up its attempts

rollupVars == <<value, alive, edges, cardinal, declared, cell, jobs, backfill, wtx, writes,
                hidden, failedFor>>

NoBackfill == [tries |-> 0, page |-> {}, walked |-> {}, last |-> FALSE, missing |-> {}]
NewBackfill == [NoBackfill EXCEPT !.tries = MaxTriesR, !.missing = Parents]
NoWrite == [kind |-> "idle", item |-> <<>>, to |-> 0, queue |-> {}, saw |-> {}, sawRollup |-> FALSE]
Other(e, i) == IF e[1] = i THEN e[2] ELSE e[1]
EdgesOf(i)  == {e \in edges : i \in {e[1], e[2]}}

\* aggregationSql over the edges of an item: its live counterparts.
Aggregate(i) == {<<Other(e, i), value[Other(e, i)]>> :
                   e \in {d \in EdgesOf(i) : alive[Other(d, i)] /\ Other(d, i) \in Children}}

\* resolveRollupRecomputeTargets: the rollup's database is that of side A.
RollupTarget(e) == e[1]
RollupTargets(es) == IF declared THEN {RollupTarget(e) : e \in es} ELSE {}

\* The rows an open transaction holds.
RowsHeld(w) == IF wtx[w].kind \in {"update", "trash", "restore"} THEN {wtx[w].item[1]} ELSE {}
RowHeld(i) == \E w \in Writers : i \in RowsHeld(w)

\* The writers are alike: the next transaction takes the first that is idle.
FirstIdle(w) == wtx[w].kind = "idle" /\ w = CHOOSE v \in Writers : wtx[v].kind = "idle"

Open(w, kind, item, to, queue) ==
  /\ FirstIdle(w) /\ writes < MaxWrites
  /\ writes' = writes + 1
  /\ wtx' = [wtx EXCEPT ![w] = [kind |-> kind, item |-> item, to |-> to, queue |-> queue,
                                saw |-> edges, sawRollup |-> declared]]
  /\ UNCHANGED <<value, alive, edges, cardinal, declared, cell, jobs, backfill, hidden, failedFor>>

\* updateItemWithClient: the aggregated property is written, and the cells at
\* the other ends of the item's edges are queued.
UpdateItem(w, i, v) ==
  /\ alive[i] /\ v # value[i] /\ ~RowHeld(i)
  /\ Open(w, "update", <<i>>, v, IF declared THEN {Other(e, i) : e \in EdgesOf(i)} ELSE {})

\* itemDeleteWithClient and restoreItemWithClient: a recompute per edge.
TrashItem(w, i)     == alive[i] /\ ~RowHeld(i) /\ Open(w, "trash", <<i>>, 0, RollupTargets(EdgesOf(i)))
RestoreItemR(w, i)  == ~alive[i] /\ ~RowHeld(i) /\ Open(w, "restore", <<i>>, 0, RollupTargets(EdgesOf(i)))

\* enforce_relation_cardinality: inserts of one definition wait for each other,
\* and the second sees the first's edge.
Fits(a, b) ==
  /\ cardinal = "one_to_one" => \A e \in edges : (e[1] = a) = (e[2] = b)
  /\ cardinal = "one_to_many" => \A e \in edges : e[2] = b => e[1] = a
RollupLockFree == \A w \in Writers : wtx[w].kind # "link"

\* createRelationWithClient: both ends must be live when it looks.
Link(w, a, b) ==
  /\ alive[a] /\ alive[b] /\ a \in Parents /\ b \in Children
  /\ RollupLockFree /\ Fits(a, b)
  /\ Open(w, "link", <<a, b>>, 0, RollupTargets({<<a, b>>}))

\* deleteRelationWithClient: the ends may be in the trash.
Unlink(w, e) ==
  /\ e \in edges /\ \A v \in Writers : ~(wtx[v].kind = "unlink" /\ wtx[v].item = e)
  /\ Open(w, "unlink", e, 0, RollupTargets({e}))

\* createProperty of a rollup: its dependency row and the backfill job.
CreateRollup(w) ==
  /\ ~declared /\ \A v \in Writers : wtx[v].kind # "rollup"
  /\ Open(w, "rollup", <<>>, 0, {})

\* Cells a commit changes without queuing them: the edge, or the rollup, was
\* committed after this transaction had chosen the cells to queue.
Unseen(w) ==
  LET touched == {wtx[w].item[k] : k \in DOMAIN wtx[w].item}
      new == {e \in edges : e \notin wtx[w].saw /\ e[2] \in touched}
      affected == touched \cup {e[1] : e \in {d \in edges : d[2] \in touched}} IN
  CASE ~declared -> {}
    [] declared /\ ~wtx[w].sawRollup -> affected \cap Parents
    [] OTHER -> IF wtx[w].kind \in {"link", "unlink"} THEN {} ELSE {e[1] : e \in new}

CommitWrite(w) ==
  /\ wtx[w].kind # "idle"
  /\ LET t == wtx[w] IN
       /\ value' = IF t.kind = "update" THEN [value EXCEPT ![t.item[1]] = t.to] ELSE value
       /\ alive' = CASE t.kind = "trash"   -> [alive EXCEPT ![t.item[1]] = FALSE]
                     [] t.kind = "restore" -> [alive EXCEPT ![t.item[1]] = TRUE]
                     [] OTHER -> alive
       /\ edges' = CASE t.kind = "link"   -> edges \cup {t.item}
                     [] t.kind = "unlink" -> edges \ {t.item}
                     [] OTHER -> edges
       /\ declared' = (declared \/ t.kind = "rollup")
       /\ backfill' = IF t.kind = "rollup" THEN NewBackfill ELSE backfill
       /\ jobs' = [i \in ItemsR |-> IF i \in t.queue THEN MaxTriesR ELSE jobs[i]]
       /\ hidden' = hidden \cup Unseen(w)
       /\ failedFor' = failedFor \ t.queue
  /\ wtx' = [wtx EXCEPT ![w] = NoWrite]
  /\ UNCHANGED <<cardinal, cell, writes>>

\* recomputeRollupCell: the target is locked, then the committed sources are
\* aggregated; writes that commit later queue another job.
RecomputeRollupCell(i) ==
  /\ jobs[i] > 0 /\ ~RowHeld(i)
  /\ cell' = [cell EXCEPT ![i] = IF i \in Parents /\ declared THEN Aggregate(i) ELSE @]
  /\ jobs' = [jobs EXCEPT ![i] = 0]
  /\ hidden' = hidden \ {i}
  /\ UNCHANGED <<value, alive, edges, cardinal, declared, backfill, wtx, writes, failedFor>>

RecomputeFails(i) ==
  /\ jobs[i] > 0
  /\ jobs' = [jobs EXCEPT ![i] = @ - 1]
  /\ failedFor' = IF jobs[i] = 1 THEN failedFor \cup {i} ELSE failedFor
  /\ UNCHANGED <<value, alive, edges, cardinal, declared, cell, backfill, wtx, writes, hidden>>

(***************************************************************************)
(* backfillRollup, a job of its own: page by page of the live parents in   *)
(* id order, it queues a recompute of each in a statement of its own, so   *)
(* writers commit between the page and its rows. A retry begins again with *)
(* the first page; after the last attempt the rest is not computed.        *)
(***************************************************************************)
ReadBackfillPage ==
  /\ backfill.tries > 0 /\ backfill.page = {}
  /\ \E part \in SUBSET (Parents \ backfill.walked) :
       LET rows == {i \in part : alive[i]}
           rest == part = Parents \ backfill.walked
       IN  /\ Cardinality(rows) = BackfillPage \/ (rest /\ Cardinality(rows) <= BackfillPage)
           /\ IF rows = {}
              THEN backfill' = NoBackfill
              ELSE backfill' = [backfill EXCEPT !.page = rows, !.walked = @ \cup part,
                                                !.last = Cardinality(rows) < BackfillPage]
  /\ UNCHANGED <<value, alive, edges, cardinal, declared, cell, jobs, wtx, writes, hidden, failedFor>>

BackfillCell(i) ==
  /\ i \in backfill.page
  /\ jobs' = [jobs EXCEPT ![i] = MaxTriesR]
  /\ backfill' = IF backfill.last /\ backfill.page = {i} THEN NoBackfill
                 ELSE [backfill EXCEPT !.page = @ \ {i}, !.missing = @ \ {i}]
  /\ failedFor' = failedFor \ {i}
  /\ UNCHANGED <<value, alive, edges, cardinal, declared, cell, wtx, writes, hidden>>

BackfillFails ==
  /\ backfill.tries > 0
  /\ IF backfill.tries > 1
     THEN /\ backfill' = [NewBackfill EXCEPT !.tries = backfill.tries - 1, !.missing = backfill.missing]
          /\ UNCHANGED failedFor
     ELSE backfill' = NoBackfill /\ failedFor' = failedFor \cup backfill.missing
  /\ UNCHANGED <<value, alive, edges, cardinal, declared, cell, jobs, wtx, writes, hidden>>

RollupInit ==
  /\ value = [i \in ItemsR |-> 0] /\ alive = [i \in ItemsR |-> TRUE]
  /\ edges \in {{}} \cup {{e} : e \in Parents \X Children} /\ cardinal \in {"one_to_one", "one_to_many", "many_to_many"}
  /\ declared \in BOOLEAN
  /\ cell = [i \in ItemsR |-> IF i \in Parents /\ declared THEN Aggregate(i) ELSE {}]
  /\ jobs = [i \in ItemsR |-> 0] /\ backfill = NoBackfill
  /\ wtx = [w \in Writers |-> NoWrite] /\ writes = 0
  /\ hidden = {} /\ failedFor = {}

RollupNext ==
  \/ \E w \in Writers :
       \/ \E i \in ItemsR : \/ \E v \in 0 .. MaxValue : UpdateItem(w, i, v)
                            \/ TrashItem(w, i) \/ RestoreItemR(w, i)
       \/ \E a \in Parents, b \in Children : a # b /\ (Link(w, a, b) \/ Unlink(w, <<a, b>>))
       \/ CreateRollup(w) \/ CommitWrite(w)
  \/ \E i \in ItemsR : RecomputeRollupCell(i) \/ RecomputeFails(i) \/ BackfillCell(i)
  \/ ReadBackfillPage \/ BackfillFails

RollupSpec == RollupInit /\ [][RollupNext]_rollupVars

----------------------------------------------------------------------------
RollupTypeOK ==
  /\ value \in [ItemsR -> 0 .. MaxValue] /\ alive \in [ItemsR -> BOOLEAN]
  /\ edges \subseteq Parents \X Children
  /\ jobs \in [ItemsR -> 0 .. MaxTriesR]
  /\ backfill.tries \in 0 .. MaxTriesR /\ backfill.page \subseteq backfill.walked
  /\ hidden \subseteq ItemsR /\ failedFor \subseteq ItemsR

\* With no recompute queued and no transaction open, a live parent's cell is
\* the aggregate of its edges, unless its job, or the backfill that had not
\* yet queued one, used up its attempts, or two overlapping transactions each
\* missed what the other was writing.
CellsAreCurrent ==
  (declared /\ backfill = NoBackfill /\ \A w \in Writers : wtx[w].kind = "idle") =>
    \A i \in Parents \ (hidden \cup failedFor) :
      jobs[i] = 0 /\ alive[i] => cell[i] = Aggregate(i)

\* The relation's cardinality holds under concurrent links.
CardinalityHolds ==
  \A e, d \in edges :
    /\ cardinal # "many_to_many" /\ e[2] = d[2] => e[1] = d[1]
    /\ cardinal = "one_to_one" /\ e[1] = d[1] => e[2] = d[2]
=============================================================================
