----------------------------- MODULE MCPlatform -----------------------------
(***************************************************************************)
(* The platform around tenants, part by part: accounts and the limiter of  *)
(* their routes, the erasure and the export of a tenant, the health        *)
(* checks, deploys and data migrations, the module registry. They share no *)
(* state in the model, so the stage picks the one that moves and their     *)
(* state spaces add up.                                                    *)
(***************************************************************************)
EXTENDS Authentication, TenantLifecycle, HealthChecks, Deployment, ModuleRegistry

CONSTANTS d1

HealthFamilies == <<"backlog", "mail">>

Manifest(id, name, claims, routes, texts, converts) ==
    [id |-> id, name |-> name, claims |-> claims, routes |-> routes, texts |-> texts,
     converts |-> converts, exported |-> TRUE]

\* Loadable files: two that fit together, and others that collide with them,
\* with themselves or with what core reserves.
ModuleFiles ==
    {Manifest("docs", "Docs", <<<<"database", "notes">>, <<"task", "squash">>>>, <<"GET /api/notes">>, {"notes"}, <<>>),
     Manifest("mail", "Mail", <<<<"database", "emails">>>>, <<>>, {}, <<<<"emails", "1">>>>),
     Manifest("mail", "Docs", <<<<"tool", "a">>, <<"tool", "a">>>>, <<>>, {"other"}, <<>>),
     Manifest("library", "Library", <<<<"database", "books">>, <<"task", "squash">>>>, <<>>, {}, <<>>),
     Manifest("inbox", "Inbox", <<<<"task", "inbox">>>>, <<"GET /api/notes">>, {}, <<>>),
     Manifest("views", "Views", <<<<"task", "purge">>>>, <<"GET /api/b", "GET /api/b">>, {"notes"}, <<<<"emails", "1">>>>)}

CoreKeys == {<<"task", "purge">>}

VARIABLE stage

platformVars ==
    <<stage, acctVars, throttleVars, purgeVars, exportVars, hVars, provVars,
      dmVars, regVars>>

PlatformInit ==
    /\ stage \in {"accounts", "throttle", "purge", "export", "health",
                    "provisioning", "migration", "registry"}
    \* one initial state for the parts at rest
    /\ AcctInit /\ Cardinality({u \in Users : tokens[u] = 1}) <= 1
    /\ (stage # "accounts" => \A u \in Users : role[u] = "admin" /\ tokens[u] = 0)
    /\ ThrottleInit
    /\ PurgeInit /\ (stage # "purge" => d1 \in dbs)
    /\ ExportInit
    /\ HInit
    /\ ProvInit /\ (stage # "provisioning" => pstatus = "active")
    /\ DMInit /\ (stage # "migration" => \A i \in ItemIds : stored[i] # NoRow)
    /\ RegInit

(* The types of every part.                                                *)
PlatformTypeOK ==
    /\ AcctTypeOK /\ ThrottleTypeOK /\ PurgeTypeOK /\ ExportTypeOK /\ HTypeOK
    /\ ProvTypeOK /\ DMTypeOK /\ RegTypeOK

PlatformNext ==
    /\ UNCHANGED stage
    /\ \/ stage = "accounts" /\ AcctNext
            /\ UNCHANGED <<throttleVars, purgeVars, exportVars, hVars,
                            provVars, dmVars, regVars>>
       \/ stage = "throttle" /\ ThrottleNext
            /\ UNCHANGED <<acctVars, purgeVars, exportVars, hVars,
                            provVars, dmVars, regVars>>
       \/ stage = "purge" /\ PurgeNext
            /\ UNCHANGED <<acctVars, throttleVars, exportVars, hVars,
                            provVars, dmVars, regVars>>
       \/ stage = "export" /\ ExportNext
            /\ UNCHANGED <<acctVars, throttleVars, purgeVars, hVars,
                            provVars, dmVars, regVars>>
       \/ stage = "health" /\ HNext
            /\ UNCHANGED <<acctVars, throttleVars, purgeVars, exportVars,
                            provVars, dmVars, regVars>>
       \/ stage = "provisioning" /\ ProvNext
            /\ UNCHANGED <<acctVars, throttleVars, purgeVars, exportVars,
                            hVars, dmVars, regVars>>
       \/ stage = "migration" /\ DMNext
            /\ UNCHANGED <<acctVars, throttleVars, purgeVars, exportVars,
                            hVars, provVars, regVars>>
       \/ stage = "registry" /\ RegNext
            /\ UNCHANGED <<acctVars, throttleVars, purgeVars, exportVars,
                            hVars, provVars, dmVars>>

(* The fairness of each component, in its own stage.                       *)
PlatformSpec ==
    /\ PlatformInit /\ [][PlatformNext]_platformVars
    /\ \A p \in PurgeRuns : WF_purgeVars(stage = "purge" /\ PurgeStep(p))
    /\ \A b \in TenantBlobs : WF_purgeVars(stage = "purge" /\ (CreateBlobRow(b) \/ WriterDies(b)))
    /\ \A e \in Exports : WF_exportVars(stage = "export" /\ ExportWork(e))
    /\ \A t \in Ticks : WF_hVars(stage = "health" /\ TickStep(t)) /\ WF_hVars(stage = "health" /\ StartTick(t))
    /\ \A d \in Deploys : WF_provVars(stage = "provisioning" /\ DeployStep(d))
    /\ \A m \in Migrators : WF_dmVars(stage = "migration" /\ MigratorStep(m))
    /\ \A e \in ItemEditors : WF_dmVars(stage = "migration" /\ CommitEdit(e))

-----------------------------------------------------------------------------
(* The safety properties of the components, each stated and explained in   *)
(* its own module: accounts and their sessions, the erasure and the export *)
(* of a tenant, health alerts, the seed and the migrations of a deploy,    *)
(* the module registry.                                                    *)
PlatformIsSafe ==
    /\ PlatformTypeOK
    /\ KeysAreBounded /\ AnActiveAdminRemains /\ NoSessionOutlivesSuspension
    /\ ResetEndsSessions
    /\ DeletionIsConfirmed /\ PushEndsWithRevocation
    /\ ErasedMeansNoRows /\ ErasedMeansNoBytes /\ ErasedMeansNoPartitions
    /\ ReadyHasArchive /\ StrandedExportLostItsTask /\ NoLeakedArchives
    /\ AlertedOncePerFault /\ AlertingIsKnownToAll
    /\ SeedIsWhole /\ SeedersAgree
    /\ RecordedMeansConverted /\ NoEditIsOverwritten
    /\ OwnersAreLoaded /\ ProjectionsAreUnambiguous

(* What no step of the platform may do: prune a live job's row, activate a *)
(* tenant that is not seeded, seed one that is deleted, take a migration's *)
(* progress back, or show a module that was inactive all the while.        *)
PlatformStepsAreSound ==
    /\ PruneTakesOnlyTheDead
    /\ ActivatedIsSeeded /\ DeletedIsNotSeeded
    /\ ProgressAdvances /\ DeactivationIsSeen

(* What is begun on the platform ends: a tenant's deletion, its exports,   *)
(* the alert of a fault, a deploy, a data migration.                       *)
PlatformSettles ==
    <>[](/\ stage = "purge" => DeletionEnded
         /\ stage = "export" => ExportsEnded
         /\ stage = "health" => HealthShown
         /\ stage = "provisioning" => DeploysEnded
         /\ stage = "migration" => RunnersEnded)
=============================================================================
