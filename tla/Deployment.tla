----------------------------- MODULE Deployment -----------------------------
(***************************************************************************)
(* What a deploy and an activation do to tenants: seeding the system       *)
(* databases, and running the data migrations of the modules.              *)
(***************************************************************************)
EXTENDS Naturals, Sequences, FiniteSets

-----------------------------------------------------------------------------
(***************************************************************************)
(* Seeding and activating a tenant (seed/*, tenancy/provisionTenant.ts):   *)
(* deploys that seed every maintained tenant, two of them at once, beside  *)
(* an administrator who suspends or deletes it and the purge that erases   *)
(* it. The seed is one transaction under the tenant's advisory lock; the   *)
(* data migrations and the activation follow in transactions of their own. *)
(***************************************************************************)

CONSTANTS
    Deploys,            \* runs of the seed command
    MaxDeploys,         \* how often one of them is started again
    MaxStatusChanges,   \* what the administrators do
    MaxSeedFaults,      \* failed statements, lost answers, deaths of a deploy
    NoDeploy

ASSUME ProvisioningAssumption ==
    MaxDeploys \in Nat /\ MaxStatusChanges \in Nat /\ MaxSeedFaults \in Nat /\ NoDeploy \notin Deploys

VARIABLES
    pstatus,        \* tenants.status, "gone" once purged
    schema,         \* the tenant's committed system databases
    migrated,       \* whether module_migrations records the data migrations
    deploy,         \* what every deploy is doing, and the seed parts its transaction holds
    seedLock,       \* the holder of the advisory lock (2331, tenant)
    sharing,        \* deploys whose transaction holds the tenant row FOR SHARE
    migrationLock,  \* the holder of the migration's session lock
    result,         \* how every deploy's last run ended
    started, statusChanges, seedFaults,
    unawaited       \* history: a deploy went on while another one still migrated

provVars == <<pstatus, schema, migrated, deploy, seedLock, sharing, migrationLock, result,
              started, statusChanges, seedFaults, unawaited>>
seedCounters == <<started, statusChanges, seedFaults>>

-----------------------------------------------------------------------------
(* The seed, part by part. A part creates databases, relates them (a       *)
(* mirrored relation adds a property to both sides), locks their schemas   *)
(* and hangs heartbeats on them, in this order; each of the steps checks   *)
(* what it needs of the steps before it.                                   *)
Nothing == [creates |-> {}, relates |-> {}, mirrors |-> {}, locks |-> {}, beats |-> {}, project |-> FALSE]

TenModules == {"areas", "projects", "tasks", "people", "files", "events", "healthRecords", "companies",
               "transcripts", "journal"}

SeedTenDatabases == [Nothing EXCEPT !.creates = TenModules]

RelateTenDatabases ==
    [Nothing EXCEPT
        !.mirrors = {<<"areas", "projects">>, <<"areas", "companies">>, <<"areas", "healthRecords">>,
                     <<"companies", "projects">>, <<"projects", "tasks">>, <<"people", "projects">>,
                     <<"people", "companies">>, <<"files", "projects">>, <<"files", "healthRecords">>,
                     <<"files", "companies">>, <<"projects", "events">>, <<"events", "transcripts">>,
                     <<"events", "companies">>, <<"healthRecords", "projects">>},
        !.relates = {<<"files", "areas">>, <<"events", "people">>, <<"events", "tasks">>,
                     <<"transcripts", "people">>, <<"journal", "areas">>}]

LockTenDatabases == [Nothing EXCEPT !.locks = TenModules]

SeedSettings ==
    [Nothing EXCEPT !.project = TRUE, !.creates = {"systemSettings"}, !.locks = {"systemSettings"},
                    !.beats = {"systemSettings"}]

SeedLibrary ==
    [Nothing EXCEPT !.project = TRUE, !.creates = {"books", "movies"}, !.relates = {<<"movies", "people">>},
                    !.locks = {"books", "movies"}, !.beats = {"books", "movies"}]

CreateMailDatabases ==
    [Nothing EXCEPT !.project = TRUE, !.creates = {"mailboxes", "folders"}, !.mirrors = {<<"mailboxes", "folders">>}]

RelateEmails ==
    [Nothing EXCEPT !.creates = {"emails"}, !.mirrors = {<<"emails", "folders">>},
                    !.relates = {<<"emails", "files">>, <<"emails", "people">>},
                    !.locks = {"mailboxes", "folders", "emails"}]

MailHeartbeats == [Nothing EXCEPT !.beats = {"people", "emails"}]
TranscriptionHeartbeats == [Nothing EXCEPT !.beats = {"files", "transcripts"}]

SeedInboxPipeline ==
    [Nothing EXCEPT !.creates = {"inbox", "inboxItemTypes", "processingProposals"},
                    !.relates = {<<"inbox", "inboxItemTypes">>, <<"inbox", "journal">>,
                                 <<"processingProposals", "inbox">>, <<"processingProposals", "transcripts">>}]

LockInboxPipeline ==
    [Nothing EXCEPT !.beats = {"inbox"}, !.locks = {"inbox", "inboxItemTypes", "processingProposals"}]

SeedMcp == [Nothing EXCEPT !.project = TRUE, !.creates = {"mcpServers"}, !.locks = {"mcpServers"}]

SeedParts == <<SeedTenDatabases, RelateTenDatabases, LockTenDatabases, SeedSettings, SeedLibrary, CreateMailDatabases,
               RelateEmails, MailHeartbeats, TranscriptionHeartbeats, SeedInboxPipeline, LockInboxPipeline, SeedMcp>>

(* A schema is the databases it has, those of them that are locked, and    *)
(* the number of parts that built it.                                      *)
Blank == [dbs |-> {}, locked |-> {}, parts |-> 0]
Databases == UNION {SeedParts[i].creates : i \in DOMAIN SeedParts}
Whole(s) == s.parts = Len(SeedParts) /\ s.dbs = Databases /\ s.locked = Databases

(* No second database of a module, no property of a locked schema, no      *)
(* heartbeat before the settings hold a timezone.                          *)
Allows(s, part) ==
    LET dbs == s.dbs \cup part.creates IN
    /\ part.creates \cap s.dbs = {}
    /\ part.project => "projects" \in s.dbs
    /\ \A r \in part.relates : r[1] \in dbs \ s.locked /\ r[2] \in dbs
    /\ \A r \in part.mirrors : {r[1], r[2]} \subseteq dbs \ s.locked
    /\ part.locks \subseteq dbs
    /\ part.beats # {} => "systemSettings" \in dbs /\ part.beats \subseteq dbs

Applied(s, part) ==
    [dbs |-> s.dbs \cup part.creates, locked |-> s.locked \cup part.locks, parts |-> s.parts + 1]

-----------------------------------------------------------------------------
Maintained == {"provisioning", "active", "suspended"}
DeployStates == {"idle", "listed", "locked", "seeding", "migrate", "migrating", "remigrate",
                 "remigrating", "activate"}
Migrating == {"migrating", "remigrating"}

ProvInit ==
    /\ pstatus \in {"provisioning", "active"} /\ schema = Blank /\ migrated = FALSE
    /\ deploy = [d \in Deploys |-> [at |-> "idle", draft |-> Blank]]
    /\ seedLock = NoDeploy /\ sharing = {} /\ migrationLock = NoDeploy
    /\ result = [d \in Deploys |-> "none"]
    /\ started = [d \in Deploys |-> 0] /\ statusChanges = 0 /\ seedFaults = 0 /\ unawaited = FALSE

ProvTypeOK ==
    /\ pstatus \in Maintained \cup {"deleting", "gone"} /\ migrated \in BOOLEAN /\ unawaited \in BOOLEAN
    /\ schema.locked \subseteq schema.dbs /\ schema.dbs \subseteq Databases
    /\ \A d \in Deploys : deploy[d].at \in DeployStates /\ deploy[d].draft.parts \in 0 .. Len(SeedParts)
    /\ seedLock \in Deploys \cup {NoDeploy} /\ migrationLock \in Deploys \cup {NoDeploy}
    /\ \A d \in sharing : deploy[d].at = "seeding" /\ seedLock = d
    /\ result \in [Deploys -> {"none", "created", "already", "refused", "conflict", "failed"}]
    /\ \A d \in Deploys : migrationLock = d <=> deploy[d].at \in Migrating

DeployAt(d) == deploy[d].at
Moves(d, to) == deploy' = [deploy EXCEPT ![d] = [at |-> to, draft |-> Blank]]

(* The end of the seed transaction releases both of its locks.             *)
EndsSeedTransaction(d) ==
    /\ seedLock' = IF seedLock = d THEN NoDeploy ELSE seedLock
    /\ sharing' = sharing \ {d}

Ends(d, how) == Moves(d, "idle") /\ result' = [result EXCEPT ![d] = how]

(* forEachMaintainedTenant: the status is a snapshot of the list.          *)
ListTenants(d) ==
    /\ DeployAt(d) = "idle" /\ started[d] < MaxDeploys /\ pstatus \in Maintained
    /\ started' = [started EXCEPT ![d] = @ + 1]
    /\ Moves(d, "listed")
    /\ UNCHANGED <<pstatus, schema, migrated, seedLock, sharing, migrationLock, result, statusChanges, seedFaults, unawaited>>

TakeSeedLock(d) ==
    /\ DeployAt(d) = "listed" /\ seedLock = NoDeploy
    /\ seedLock' = d /\ Moves(d, "locked")
    /\ UNCHANGED <<pstatus, schema, migrated, sharing, migrationLock, result, seedCounters, unawaited>>

(* The tenant's row FOR SHARE under the lock, then whether it is seeded.   *)
LockTenant(d) ==
    /\ DeployAt(d) = "locked"
    /\ \/ /\ pstatus \notin Maintained
          /\ Ends(d, "refused") /\ EndsSeedTransaction(d)
       \/ /\ pstatus \in Maintained /\ schema # Blank
          /\ result' = [result EXCEPT ![d] = "already"] /\ Moves(d, "migrate") /\ EndsSeedTransaction(d)
       \/ /\ pstatus \in Maintained /\ schema = Blank
          /\ result' = [result EXCEPT ![d] = "none"] /\ Moves(d, "seeding")
          /\ sharing' = sharing \cup {d} /\ UNCHANGED seedLock
    /\ UNCHANGED <<pstatus, schema, migrated, migrationLock, seedCounters, unawaited>>

SeedPart(d) ==
    /\ DeployAt(d) = "seeding" /\ deploy[d].draft.parts < Len(SeedParts)
    /\ Allows(deploy[d].draft, SeedParts[deploy[d].draft.parts + 1])
    /\ deploy' = [deploy EXCEPT ![d].draft = Applied(@, SeedParts[@.parts + 1])]
    /\ UNCHANGED <<pstatus, schema, migrated, seedLock, sharing, migrationLock, result, seedCounters, unawaited>>

(* Everything at once; the module's unique index refuses a second copy,    *)
(* and the rows' foreign key a tenant that is gone.                        *)
CommitSeed(d) ==
    /\ DeployAt(d) = "seeding" /\ deploy[d].draft.parts = Len(SeedParts)
    /\ EndsSeedTransaction(d)
    /\ IF schema = Blank /\ pstatus # "gone"
       THEN schema' = deploy[d].draft /\ result' = [result EXCEPT ![d] = "created"] /\ Moves(d, "migrate")
       ELSE Ends(d, "conflict") /\ UNCHANGED schema
    /\ UNCHANGED <<pstatus, migrated, migrationLock, seedCounters, unawaited>>

SeedFault == seedFaults < MaxSeedFaults /\ seedFaults' = seedFaults + 1

(* A statement fails or the deploy dies: nothing of the seed remains.      *)
SeedFails(d) ==
    /\ DeployAt(d) \in {"locked", "seeding"} /\ SeedFault
    /\ Ends(d, "failed") /\ EndsSeedTransaction(d)
    /\ UNCHANGED <<pstatus, schema, migrated, migrationLock, started, statusChanges, unawaited>>

(* The answer to COMMIT is lost: seeded, and the deploy has failed.        *)
CommitAnswerLost(d) ==
    /\ DeployAt(d) = "seeding" /\ deploy[d].draft.parts = Len(SeedParts) /\ SeedFault
    /\ schema = Blank /\ pstatus # "gone" /\ schema' = deploy[d].draft
    /\ Ends(d, "failed") /\ EndsSeedTransaction(d)
    /\ UNCHANGED <<pstatus, migrated, migrationLock, started, statusChanges, unawaited>>

-----------------------------------------------------------------------------
(* runModuleDataMigrations, at the end of seedSystem and again with the    *)
(* full registry: nothing to do when recorded, and nothing when another    *)
(* deploy holds the migration's lock.                                      *)
StartMigrations(d) ==
    /\ DeployAt(d) \in {"migrate", "remigrate"}
    /\ \/ /\ migrated \/ migrationLock # NoDeploy
          /\ Moves(d, IF DeployAt(d) = "migrate" THEN "remigrate" ELSE "activate")
          /\ unawaited' = (unawaited \/ (~migrated /\ DeployAt(d) = "remigrate"))
          /\ UNCHANGED <<migrationLock, result>>
       \/ /\ ~migrated /\ migrationLock = NoDeploy /\ schema = Blank
          /\ Ends(d, "failed") /\ UNCHANGED <<migrationLock, unawaited>>
       \/ /\ ~migrated /\ migrationLock = NoDeploy /\ schema # Blank
          /\ Moves(d, IF DeployAt(d) = "migrate" THEN "migrating" ELSE "remigrating")
          /\ migrationLock' = d /\ UNCHANGED <<result, unawaited>>
    /\ UNCHANGED <<pstatus, schema, migrated, seedLock, sharing, seedCounters>>

FinishMigrations(d) ==
    /\ DeployAt(d) \in Migrating /\ migrationLock' = NoDeploy
    /\ IF pstatus = "gone" THEN Ends(d, "failed") /\ UNCHANGED migrated
       ELSE /\ migrated' = TRUE /\ UNCHANGED result
            /\ Moves(d, IF DeployAt(d) = "migrating" THEN "remigrate" ELSE "activate")
    /\ UNCHANGED <<pstatus, schema, seedLock, sharing, seedCounters, unawaited>>

MigrationsFail(d) ==
    /\ DeployAt(d) \in Migrating /\ SeedFault /\ migrationLock' = NoDeploy /\ Ends(d, "failed")
    /\ UNCHANGED <<pstatus, schema, migrated, seedLock, sharing, started, statusChanges, unawaited>>

(* provisionTenant's last transaction: the row FOR UPDATE, which waits for *)
(* a seed that holds it FOR SHARE.                                         *)
Activate(d) ==
    /\ DeployAt(d) = "activate" /\ sharing = {}
    /\ CASE pstatus = "provisioning" -> pstatus' = "active" /\ Moves(d, "idle") /\ UNCHANGED result
         [] pstatus \in {"active", "suspended"} -> Moves(d, "idle") /\ UNCHANGED <<pstatus, result>>
         [] OTHER -> Ends(d, "failed") /\ UNCHANGED pstatus
    /\ UNCHANGED <<schema, migrated, seedLock, sharing, migrationLock, seedCounters, unawaited>>

-----------------------------------------------------------------------------
(* The only writer of the status afterwards, kept out by a FOR SHARE.      *)
TransitionStatus(to) ==
    /\ statusChanges < MaxStatusChanges /\ statusChanges' = statusChanges + 1
    /\ sharing = {}
    /\ CASE to = "suspended" -> pstatus = "active"
         [] to = "active"    -> pstatus = "suspended"
         [] to = "deleting"  -> pstatus \in {"active", "suspended"}
    /\ pstatus' = to
    /\ UNCHANGED <<schema, migrated, deploy, seedLock, sharing, migrationLock, result, started, seedFaults, unawaited>>

Erased ==
    /\ pstatus = "deleting" /\ pstatus' = "gone" /\ schema' = Blank /\ migrated' = FALSE
    /\ UNCHANGED <<deploy, seedLock, sharing, migrationLock, result, seedCounters, unawaited>>

DeployStep(d) ==
    \/ TakeSeedLock(d) \/ LockTenant(d) \/ SeedPart(d) \/ CommitSeed(d)
    \/ StartMigrations(d) \/ FinishMigrations(d) \/ Activate(d)

ProvNext ==
    \/ \E d \in Deploys : \/ ListTenants(d) \/ DeployStep(d)
                          \/ SeedFails(d) \/ CommitAnswerLost(d) \/ MigrationsFail(d)
    \/ \E to \in {"suspended", "active", "deleting"} : TransitionStatus(to)
    \/ Erased

ProvFairness == \A d \in Deploys : WF_provVars(DeployStep(d))
ProvSpec == ProvInit /\ [][ProvNext]_provVars /\ ProvFairness

-----------------------------------------------------------------------------
(* What a tenant serves is nothing or the whole set of system databases,   *)
(* each with its schema locked: a failing seed leaves no half of it.       *)
SeedIsWhole == schema = Blank \/ Whole(schema)

(* "Of two concurrent calls for one tenant exactly one reports it": the    *)
(* other one finds the databases there and never runs into them.           *)
SeedersAgree == \A d \in Deploys : result[d] # "conflict"

(* A tenant becomes one that users sign in to only with its databases, and *)
(* with the migrations of its modules applied, unless the deploy skipped   *)
(* them because another one was applying them.                             *)
ActivatedIsSeeded ==
    [][pstatus = "provisioning" /\ pstatus' = "active" => Whole(schema) /\ (migrated \/ unawaited)]_provVars

(* No seed is written into a tenant that is being deleted.                 *)
DeletedIsNotSeeded == [][schema' # schema /\ schema' # Blank => pstatus \in Maintained]_provVars

(* A deploy that started ends: it waits for the locks of others, which     *)
(* their transactions release however they end.                            *)
DeploysEnded == \A d \in Deploys : DeployAt(d) = "idle"

-----------------------------------------------------------------------------
(***************************************************************************)
(* One module data migration of one tenant (migrationJob/                  *)
(* moduleDataMigration.ts): runners page through the items in id order,    *)
(* twice, committing each page with the progress, beside users who edit    *)
(* and create items. A session lock keeps a second runner out until its    *)
(* connection is lost.                                                     *)
(***************************************************************************)

CONSTANTS
    Migrators,          \* runs of runModuleDataMigration
    ItemEditors,        \* requests that edit or create an item of the database
    MaxItem,            \* item ids are 1 .. MaxItem
    MigrationPage,      \* pageSize
    MaxItemEdits,
    MaxRunnerStarts,
    MaxRunnerFaults,    \* failing converters, deaths, lost lock connections
    NoRunner

ASSUME DataMigrationAssumption ==
    /\ MaxItem \in Nat /\ MigrationPage \in Nat \ {0} /\ MaxItemEdits \in Nat
    /\ NoRunner \notin Migrators \cup ItemEditors /\ Migrators \cap ItemEditors = {}

VARIABLES
    stored,         \* the committed rows: shape and number of edits, by id
    progress,       \* module_migration_progress, pass 0 when there is no row
    recorded,       \* whether module_migrations has the transition
    runner,         \* every runner: its step, the page it holds, the progress it read
    sessionLock,
    itemLock,       \* the holder of every row's lock
    editor,         \* every request: what it does to which item, the row it read
    edited,         \* history: committed edits by id
    slipped,        \* history: items created behind the second pass
    lockLoss,       \* history: a runner went on without its lock
    editsMade, runnerStarts, runnerFaults

dmVars == <<stored, progress, recorded, runner, sessionLock, itemLock, editor, edited, slipped, lockLoss,
            editsMade, runnerStarts, runnerFaults>>
runnerCounts == <<runnerStarts, runnerFaults>>

ItemIds == 1 .. MaxItem
NoRow == [shape |-> "none", edits |-> 0]
RunnerResting == [at |-> "idle", page |-> {}, rows |-> [i \in ItemIds |-> NoRow], read |-> [pass |-> 0, cursor |-> 0]]
NoEdit == [does |-> "idle", item |-> 0, row |-> NoRow]
There(i) == stored[i] # NoRow

(* Tenants with items of the old shape and gaps between the ids.           *)
DMInit ==
    /\ \E some \in SUBSET ItemIds :
         /\ 1 \in some
         /\ stored = [i \in ItemIds |-> IF i \in some THEN [shape |-> "old", edits |-> 0] ELSE NoRow]
    /\ progress = [pass |-> 0, cursor |-> 0] /\ recorded = FALSE
    /\ runner = [m \in Migrators |-> RunnerResting] /\ sessionLock = NoRunner
    /\ itemLock = [i \in ItemIds |-> NoRunner] /\ editor = [e \in ItemEditors |-> NoEdit]
    /\ edited = [i \in ItemIds |-> 0] /\ slipped = {} /\ lockLoss = FALSE
    /\ editsMade = 0 /\ runnerStarts = 0 /\ runnerFaults = 0

DMTypeOK ==
    /\ \A i \in ItemIds : stored[i].shape \in {"none", "old", "new"} /\ stored[i].edits \in 0 .. MaxItemEdits
    /\ progress.pass \in 0 .. 2 /\ progress.cursor \in 0 .. MaxItem /\ recorded \in BOOLEAN
    /\ \A m \in Migrators : runner[m].at \in {"idle", "checking", "batch", "locking", "converting", "record"}
                            /\ runner[m].page \subseteq ItemIds
    /\ sessionLock \in Migrators \cup {NoRunner}
    /\ itemLock \in [ItemIds -> Migrators \cup ItemEditors \cup {NoRunner}]
    /\ \A m \in Migrators : runner[m].at = "converting" => \A i \in runner[m].page : itemLock[i] = m
    /\ slipped \subseteq ItemIds

-----------------------------------------------------------------------------
(* Requests. An edit reads the row under its lock and writes it whole; it  *)
(* knows both shapes and keeps the one it found. A created item has the    *)
(* old shape when the request's process runs the old release.              *)
StartEdit(e, i) ==
    /\ editor[e] = NoEdit /\ editsMade < MaxItemEdits /\ editsMade' = editsMade + 1
    /\ There(i) /\ itemLock[i] = NoRunner
    /\ itemLock' = [itemLock EXCEPT ![i] = e]
    /\ editor' = [editor EXCEPT ![e] = [does |-> "edit", item |-> i, row |-> stored[i]]]
    /\ UNCHANGED <<stored, progress, recorded, runner, sessionLock, edited, slipped, lockLoss, runnerCounts>>

StartCreate(e, i) ==
    /\ editor[e] = NoEdit /\ editsMade < MaxItemEdits /\ editsMade' = editsMade + 1
    /\ ~There(i) /\ \A o \in ItemEditors : editor[o].item # i
    /\ editor' = [editor EXCEPT ![e] = [does |-> "create", item |-> i, row |-> [shape |-> "old", edits |-> 0]]]
    /\ UNCHANGED <<stored, progress, recorded, runner, sessionLock, itemLock, edited, slipped, lockLoss, runnerCounts>>

(* The pass that no longer comes to item i.                                *)
Behind(i) ==
    \/ recorded \/ \E m \in Migrators : runner[m].at = "record"
    \/ progress.pass = 2 /\ progress.cursor >= i
    \/ \E m \in Migrators :
         /\ runner[m].at \in {"locking", "converting"} /\ runner[m].read.pass = 2
         /\ \/ i <= runner[m].read.cursor
            \/ Cardinality(runner[m].page) < MigrationPage
            \/ \E j \in runner[m].page : i < j

CommitEdit(e) ==
    LET i == editor[e].item IN
    /\ editor[e] # NoEdit
    /\ IF editor[e].does = "edit"
       THEN /\ stored' = [stored EXCEPT ![i] = [editor[e].row EXCEPT !.edits = @ + 1]]
            /\ edited' = [edited EXCEPT ![i] = @ + 1]
            /\ itemLock' = [itemLock EXCEPT ![i] = NoRunner] /\ UNCHANGED slipped
       ELSE /\ stored' = [stored EXCEPT ![i] = editor[e].row]
            /\ slipped' = IF Behind(i) THEN slipped \cup {i} ELSE slipped
            /\ UNCHANGED <<edited, itemLock>>
    /\ editor' = [editor EXCEPT ![e] = NoEdit]
    /\ UNCHANGED <<progress, recorded, runner, sessionLock, lockLoss, editsMade, runnerCounts>>

-----------------------------------------------------------------------------
Goes(m, at) == runner' = [runner EXCEPT ![m] = [RunnerResting EXCEPT !.at = at]]
ReleasePage(m) == itemLock' = [i \in ItemIds |-> IF itemLock[i] = m THEN NoRunner ELSE itemLock[i]]
UnlockSession(m) == sessionLock' = IF sessionLock = m THEN NoRunner ELSE sessionLock

(* The try-lock: a runner that does not get it has nothing to do.          *)
StartRunner(m) ==
    /\ runner[m].at = "idle" /\ runnerStarts < MaxRunnerStarts /\ sessionLock = NoRunner
    /\ runnerStarts' = runnerStarts + 1 /\ sessionLock' = m /\ Goes(m, "checking")
    /\ UNCHANGED <<stored, progress, recorded, itemLock, editor, edited, slipped, lockLoss, editsMade, runnerFaults>>

CheckRecorded(m) ==
    /\ runner[m].at = "checking"
    /\ IF recorded THEN Goes(m, "idle") /\ UnlockSession(m) ELSE Goes(m, "batch") /\ UNCHANGED sessionLock
    /\ UNCHANGED <<stored, progress, recorded, itemLock, editor, edited, slipped, lockLoss, editsMade, runnerCounts>>

ReadProgress == IF progress.pass = 0 THEN [pass |-> 1, cursor |-> 0] ELSE progress

(* The first rows after the cursor, as many as a page holds; pass 1 takes  *)
(* only those nobody has locked, pass 2 waits for them.                    *)
FirstOf(ids) == {i \in ids : Cardinality({j \in ids : j < i}) < MigrationPage}
Eligible(p) == {i \in ItemIds : There(i) /\ i > p.cursor /\ (p.pass = 1 => itemLock[i] = NoRunner)}

ItemRows(page) == [i \in ItemIds |-> IF i \in page THEN stored[i] ELSE NoRow]

LockItemBatch(m) ==
    LET p == ReadProgress  page == FirstOf(Eligible(p)) IN
    /\ runner[m].at = "batch"
    /\ runner' = [runner EXCEPT ![m] = [at |-> IF p.pass = 1 THEN "converting" ELSE "locking",
                                        page |-> page, rows |-> ItemRows(page), read |-> p]]
    /\ itemLock' = [i \in ItemIds |-> IF p.pass = 1 /\ i \in page THEN m ELSE itemLock[i]]
    /\ UNCHANGED <<stored, progress, recorded, sessionLock, editor, edited, slipped, lockLoss, editsMade, runnerCounts>>

AwaitRows(m) ==
    /\ runner[m].at = "locking" /\ \A i \in runner[m].page : itemLock[i] = NoRunner
    /\ runner' = [runner EXCEPT ![m].at = "converting", ![m].rows = ItemRows(runner[m].page)]
    /\ itemLock' = [i \in ItemIds |-> IF i \in runner[m].page THEN m ELSE itemLock[i]]
    /\ UNCHANGED <<stored, progress, recorded, sessionLock, editor, edited, slipped, lockLoss, editsMade, runnerCounts>>

LastOf(page, otherwise) == IF page = {} THEN otherwise ELSE CHOOSE i \in page : \A j \in page : j <= i

(* A short page ends its pass; the second pass starts from the beginning.  *)
NextProgress(full, p, cursor) ==
    IF full \/ p.pass = 2 THEN [pass |-> p.pass, cursor |-> cursor] ELSE [pass |-> 2, cursor |-> 0]

(* The page converted and the progress with it, in one transaction.        *)
CommitBatch(m) ==
    LET p == runner[m].read
        full == Cardinality(runner[m].page) = MigrationPage IN
    /\ runner[m].at = "converting"
    /\ stored' = [i \in ItemIds |-> IF i \in runner[m].page THEN [runner[m].rows[i] EXCEPT !.shape = "new"] ELSE stored[i]]
    /\ progress' = NextProgress(full, p, LastOf(runner[m].page, p.cursor))
    /\ ReleasePage(m)
    /\ Goes(m, IF ~full /\ p.pass = 2 THEN "record" ELSE "batch")
    /\ UNCHANGED <<recorded, sessionLock, editor, edited, slipped, lockLoss, editsMade, runnerCounts>>

(* The record, and the progress row deleted, which has to be there; the    *)
(* second of two runners fails on it.                                      *)
RecordMigration(m) ==
    /\ runner[m].at = "record"
    /\ IF progress.pass = 0 THEN UNCHANGED <<recorded, progress>>
       ELSE recorded' = TRUE /\ progress' = [pass |-> 0, cursor |-> 0]
    /\ Goes(m, "idle") /\ UnlockSession(m)
    /\ UNCHANGED <<stored, itemLock, editor, edited, slipped, lockLoss, editsMade, runnerCounts>>

RunnerFault == runnerFaults < MaxRunnerFaults /\ runnerFaults' = runnerFaults + 1

(* A converter throws, or the process dies: the page rolls back, and the   *)
(* session lock ends with the run, which stops.                            *)
RunnerFails(m) ==
    /\ runner[m].at # "idle" /\ RunnerFault
    /\ ReleasePage(m) /\ Goes(m, "idle") /\ UnlockSession(m)
    /\ UNCHANGED <<stored, progress, recorded, editor, edited, slipped, lockLoss, editsMade, runnerStarts>>

(* The connection that holds the lock is lost; the batches run on others.  *)
LosesSessionLock(m) ==
    /\ sessionLock = m /\ RunnerFault
    /\ sessionLock' = NoRunner /\ lockLoss' = TRUE
    /\ UNCHANGED <<stored, progress, recorded, runner, itemLock, editor, edited, slipped, editsMade, runnerStarts>>

MigratorStep(m) == CheckRecorded(m) \/ LockItemBatch(m) \/ AwaitRows(m) \/ CommitBatch(m) \/ RecordMigration(m)

DMNext ==
    \/ \E m \in Migrators : StartRunner(m) \/ MigratorStep(m) \/ RunnerFails(m) \/ LosesSessionLock(m)
    \/ \E e \in ItemEditors : \/ \E i \in ItemIds : StartEdit(e, i) \/ StartCreate(e, i)
                              \/ CommitEdit(e)

DMFairness ==
    /\ \A m \in Migrators : WF_dmVars(MigratorStep(m))
    /\ \A e \in ItemEditors : WF_dmVars(CommitEdit(e))

DMSpec == DMInit /\ [][DMNext]_dmVars /\ DMFairness

-----------------------------------------------------------------------------
(* Once the migration is recorded no item has the old shape, except those  *)
(* created behind the second pass: every row is converted at least once,   *)
(* those included that were locked or created during the first pass.       *)
RecordedMeansConverted == recorded => \A i \in ItemIds \ slipped : stored[i].shape # "old"

(* No edit is lost to the full replace of a converted row.                 *)
NoEditIsOverwritten == \A i \in ItemIds : stored[i].edits = edited[i]

(* While the lock holds, the progress only advances: a resumed run starts  *)
(* at the last committed page and never revisits a pass.                   *)
ProgressAdvances ==
    [][progress' # progress /\ ~lockLoss =>
         \/ progress'.pass = 0 /\ recorded'
         \/ progress'.pass > progress.pass
         \/ progress'.pass = progress.pass /\ progress'.cursor >= progress.cursor]_dmVars

(* A runner ends: a row it waits for is released, and its pages run out.   *)
RunnersEnded == \A m \in Migrators : runner[m].at = "idle"
=============================================================================
