--------------------------- MODULE ModuleRegistry ---------------------------
(***************************************************************************)
(* packages/module-registry: modules are imported one by one, checked      *)
(* against what the loaded ones own and registered; consumers ask for the  *)
(* identifiers of the active ones. A load stops at two awaits (the import  *)
(* and the catalogs), a projection at one (the active ids).                *)
(***************************************************************************)
EXTENDS Naturals, Sequences, FiniteSets, SequencesExt

CONSTANTS
    Manifests,          \* what the loadable files export: [id, name, claims, routes, texts, converts, exported]
    ReservedKeys,       \* <<label, key>> core owns: its task names and heartbeat rule kinds
    MaxSwitches,        \* changes of the active set
    MaxReads,           \* projections
    Unloaded

(* moduleManifestSchema: what a file must export to get as far as the      *)
(* checks below.                                                           *)
ModuleManifest(m) ==
    /\ DOMAIN m = {"id", "name", "claims", "routes", "texts", "converts", "exported"}
    /\ \A c \in ToSet(m.claims) : c[1] \in {"database", "tool", "task", "worker", "kind"}

ASSUME RegistryAssumption ==
    /\ \A m \in Manifests : ModuleManifest(m)
    /\ \A k \in ReservedKeys : k[1] \in {"task", "kind"}
    /\ MaxSwitches \in Nat /\ MaxReads \in Nat

VARIABLES
    modulesById, moduleIdByName, catalogsById,
    owners,             \* label and key -> module id: databases, tools, tasks, workers, rule kinds
    customRouteOwners, catalogKeyOwners,
    loading,            \* the manifest between its two awaits
    activeIds,          \* what ActiveModuleIdsSource answers
    projection,         \* [step, active, rows] of the consumer
    sinceAsked,         \* history: the ids active at some moment of the projection
    switches, reads

regVars == <<modulesById, moduleIdByName, catalogsById, owners, customRouteOwners, catalogKeyOwners, loading,
             activeIds, projection, sinceAsked, switches, reads>>
regMaps == <<modulesById, moduleIdByName, catalogsById, owners, customRouteOwners, catalogKeyOwners>>

Ids == {m.id : m \in Manifests}
NoRows == [step |-> "none", active |-> {}, rows |-> {}]

(* Partial functions from what is owned to the owner's id.                 *)
OwnsAll(map, keys, id) == [k \in DOMAIN map \cup keys |-> IF k \in keys THEN id ELSE map[k]]

RegInit ==
    /\ modulesById = <<>> /\ moduleIdByName = <<>> /\ catalogsById = <<>>
    /\ owners = <<>> /\ customRouteOwners = <<>> /\ catalogKeyOwners = <<>>
    /\ loading = Unloaded /\ activeIds = Ids /\ projection = NoRows /\ sinceAsked = {}
    /\ switches = 0 /\ reads = 0

RegTypeOK ==
    /\ DOMAIN modulesById \subseteq Ids /\ DOMAIN catalogsById = DOMAIN modulesById
    /\ \A n \in DOMAIN moduleIdByName : modulesById[moduleIdByName[n]].name = n
    /\ loading \in Manifests \cup {Unloaded} /\ activeIds \subseteq Ids
    /\ projection.step \in {"none", "asked", "answered"} /\ sinceAsked \subseteq Ids
    /\ switches \in 0 .. MaxSwitches /\ reads \in 0 .. MaxReads

-----------------------------------------------------------------------------
(* Every handler and schema the manifest names is an export of its module. *)
ExportsExist(m) == m.exported

ManifestDatabases(m) == {c[2] : c \in {c \in ToSet(m.claims) : c[1] = "database"}}

(* A data migration converts a database of its own module, and one         *)
(* transition of it once.                                                  *)
DataMigrationsReferenceOwnDatabases(m) ==
    IsInjective(m.converts) /\ \A c \in ToSet(m.converts) : c[1] \in ManifestDatabases(m)

(* Import, manifest, id, name, exports and data migrations; then the       *)
(* catalogs are awaited. A rejected module leaves nothing.                 *)
ImportModule(m) ==
    /\ loading = Unloaded
    /\ m.id \notin DOMAIN modulesById /\ m.name \notin DOMAIN moduleIdByName
    /\ ExportsExist(m) /\ DataMigrationsReferenceOwnDatabases(m)
    /\ loading' = m
    /\ UNCHANGED <<regMaps, activeIds, projection, sinceAsked, switches, reads>>

CatalogKeysAvailable(m) == m.texts \cap DOMAIN catalogKeyOwners = {}
CustomRoutesAvailable(m) == IsInjective(m.routes) /\ ToSet(m.routes) \cap DOMAIN customRouteOwners = {}
Claimable(m) ==
    /\ IsInjective(m.claims)
    /\ ToSet(m.claims) \cap (ReservedKeys \cup DOMAIN owners) = {}

CommitModule(m) ==
    /\ modulesById' = OwnsAll(modulesById, {m.id}, m)
    /\ moduleIdByName' = OwnsAll(moduleIdByName, {m.name}, m.id)
    /\ catalogsById' = OwnsAll(catalogsById, {m.id}, m.texts)
    /\ owners' = OwnsAll(owners, ToSet(m.claims), m.id)
    /\ customRouteOwners' = OwnsAll(customRouteOwners, ToSet(m.routes), m.id)
    /\ catalogKeyOwners' = OwnsAll(catalogKeyOwners, m.texts, m.id)

(* The catalogs are there: every check, then every commit, with no await   *)
(* between them.                                                           *)
RegisterModule ==
    /\ loading # Unloaded /\ loading' = Unloaded
    /\ IF CatalogKeysAvailable(loading) /\ CustomRoutesAvailable(loading) /\ Claimable(loading)
       THEN CommitModule(loading) ELSE UNCHANGED regMaps
    /\ UNCHANGED <<activeIds, projection, sinceAsked, switches, reads>>

(* A catalog file that does not parse fails the load.                      *)
CatalogUnreadable ==
    /\ loading # Unloaded /\ loading.texts # {} /\ loading' = Unloaded
    /\ UNCHANGED <<regMaps, activeIds, projection, sinceAsked, switches, reads>>

SwitchModule(id) ==
    /\ switches < MaxSwitches /\ switches' = switches + 1
    /\ activeIds' = IF id \in activeIds THEN activeIds \ {id} ELSE activeIds \cup {id}
    /\ sinceAsked' = sinceAsked \cup activeIds'
    /\ UNCHANGED <<regMaps, loading, projection, reads>>

-----------------------------------------------------------------------------

(* getActiveModules asks the source anew for every projection.             *)
AskActiveModules ==
    /\ projection.step # "asked" /\ reads < MaxReads /\ reads' = reads + 1
    /\ projection' = [step |-> "asked", active |-> activeIds, rows |-> {}]
    /\ sinceAsked' = activeIds
    /\ UNCHANGED <<regMaps, loading, activeIds, switches>>

(* One row per identifier of the loaded modules that were active: the      *)
(* databases, tools, tasks, workers and kinds, the routes and the labels.  *)
Rows(m) == {<<m.id, k>> : k \in ToSet(m.claims) \cup {<<"route", r>> : r \in ToSet(m.routes)}
                              \cup {<<"label", t>> : t \in catalogsById[m.id]}}

Project ==
    /\ projection.step = "asked"
    /\ projection' = [projection EXCEPT !.step = "answered",
                          !.rows = UNION {Rows(modulesById[i]) : i \in DOMAIN modulesById \cap projection.active}]
    /\ UNCHANGED <<regMaps, loading, activeIds, sinceAsked, switches, reads>>

RegNext ==
    \/ \E m \in Manifests : ImportModule(m)
    \/ RegisterModule \/ CatalogUnreadable \/ AskActiveModules \/ Project
    \/ \E i \in Ids : SwitchModule(i)

RegSpec == RegInit /\ [][RegNext]_regVars

-----------------------------------------------------------------------------
(* What is owned is owned by a loaded module that declares it: loadModule  *)
(* "never partially registers a rejected module's identifiers".            *)
OwnersAreLoaded ==
    /\ \A k \in DOMAIN owners : owners[k] \in DOMAIN modulesById /\ k \in ToSet(modulesById[owners[k]].claims)
    /\ \A k \in DOMAIN customRouteOwners : k \in ToSet(modulesById[customRouteOwners[k]].routes)
    /\ \A k \in DOMAIN catalogKeyOwners : k \in modulesById[catalogKeyOwners[k]].texts

(* Whatever is active, no consumer is given one identifier twice, nor one  *)
(* that core owns: a task name, a route or a label has one module.         *)
ProjectionsAreUnambiguous ==
    /\ \A r1, r2 \in projection.rows : r1[2] = r2[2] => r1 = r2
    /\ \A r \in projection.rows : r[2] \notin ReservedKeys

(* No projection shows a module that was inactive from before the call to  *)
(* its end: "evaluated fresh on every projection call rather than cached". *)
DeactivationIsSeen ==
    [][projection'.step = "answered" /\ projection.step = "asked"
         => \A r \in projection'.rows : r[1] \in sinceAsked]_regVars
=============================================================================
