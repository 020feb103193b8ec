-------------------------- MODULE TenantLifecycle ---------------------------
(***************************************************************************)
(* The end of a tenant: its erasure, and the export of its data.           *)
(***************************************************************************)
EXTENDS Naturals, FiniteSets

-----------------------------------------------------------------------------
(***************************************************************************)
(* The sweep that erases a deleted tenant (tenantPurgeJob.ts): keys, jobs, *)
(* bytes, partitions, rows, the directories again, and the identity with   *)
(* the tombstone. Requests and jobs that ran when the deletion began keep  *)
(* writing beside it, runs overlap when the connection that holds the      *)
(* advisory lock is lost, and a run may stop between any two steps.        *)
(***************************************************************************)

CONSTANTS
    PurgeRuns,          \* runs of the tenantPurge task
    TenantBlobs,        \* files, each with a blobs row
    TenantDbs,          \* databases, each with a partition of items
    MaxLateWrites,      \* what late writers still do
    MaxPurgeFaults,     \* interruptions, failed steps, lost lock connections
    Nobody

ASSUME PurgeAssumption == MaxLateWrites \in Nat /\ MaxPurgeFaults \in Nat /\ Nobody \notin PurgeRuns

VARIABLES
    tstate,         \* tenants.status, "gone" once the row is deleted
    tkey,           \* whether tenant_keys has its row
    queued,         \* whether unlocked jobs of the tenant are queued
    bytes,          \* files under the tenant's directories
    blobRows,       \* rows of blobs
    dbs,            \* rows of databases
    parts,          \* partitions of items that exist
    items,          \* databases whose partition holds an item
    storing,        \* files a writer has stored without their row yet
    lateWrites,
    purging,        \* the step of every run
    purgeLock,      \* the holder of the tenant's advisory lock
    purgeFaults,
    lateBytes,      \* history: files stored after the last directory removal
    lateDbs,        \* history: databases created after the last pass over partitions
    found,          \* history: databases whose rows a run found outside a dropped partition
    lockLost        \* history: whether a run has gone on without its lock

purgeVars == <<tstate, tkey, queued, bytes, blobRows, dbs, parts, items, storing, lateWrites,
               purging, purgeLock, purgeFaults, lateBytes, lateDbs, found, lockLost>>
tenantRows == <<tkey, queued, bytes, blobRows, dbs, parts, items>>
writerVars == <<storing, lateWrites>>
purgeHistory == <<lateBytes, lateDbs, found, lockLost>>

PurgeSteps == {"idle", "keys", "jobs", "bytes", "partitions", "blobRows", "latePartitions", "items",
               "databases", "directories", "finalise"}

PurgeInit ==
    /\ tstate = "active" /\ tkey = TRUE /\ queued = TRUE
    /\ bytes = TenantBlobs /\ blobRows = TenantBlobs
    /\ \E d \in TenantDbs : dbs = {d} /\ parts = {d} /\ items = {d}
    /\ storing = {} /\ lateWrites = 0
    /\ purging = [p \in PurgeRuns |-> "idle"] /\ purgeLock = Nobody /\ purgeFaults = 0
    /\ lateBytes = {} /\ lateDbs = {} /\ found = {} /\ lockLost = FALSE

PurgeTypeOK ==
    /\ tstate \in {"active", "deleting", "gone"} /\ tkey \in BOOLEAN /\ queued \in BOOLEAN
    /\ bytes \subseteq TenantBlobs /\ blobRows \subseteq TenantBlobs /\ storing \subseteq TenantBlobs
    /\ dbs \subseteq TenantDbs /\ parts \subseteq TenantDbs /\ items \subseteq parts
    /\ purging \in [PurgeRuns -> PurgeSteps] /\ purgeLock \in PurgeRuns \cup {Nobody}
    /\ lateWrites \in 0 .. MaxLateWrites /\ purgeFaults \in 0 .. MaxPurgeFaults
    /\ lateBytes \subseteq TenantBlobs /\ lateDbs \subseteq TenantDbs /\ found \subseteq TenantDbs /\ lockLost \in BOOLEAN

(* beginTenantDeletion: the status, and the wrapped key shredded with it.  *)
DeleteTenant ==
    /\ tstate = "active" /\ tstate' = "deleting" /\ tkey' = FALSE
    /\ UNCHANGED <<queued, bytes, blobRows, dbs, parts, items, writerVars, purging, purgeLock, purgeFaults, purgeHistory>>

-----------------------------------------------------------------------------
(* Writers that ran when the deletion began. Every row they insert has a   *)
(* foreign key to tenants, so nothing of theirs commits once it is gone.   *)
LateWrite == tstate = "deleting" /\ lateWrites < MaxLateWrites /\ lateWrites' = lateWrites + 1

StoreBytes(b) ==
    /\ tstate # "active" /\ lateWrites < MaxLateWrites /\ lateWrites' = lateWrites + 1
    /\ b \notin bytes /\ b \notin blobRows
    /\ bytes' = bytes \cup {b} /\ storing' = storing \cup {b} /\ lateBytes' = lateBytes \cup {b}
    /\ UNCHANGED <<tstate, tkey, queued, blobRows, dbs, parts, items, purging, purgeLock, purgeFaults, lateDbs, found, lockLost>>

(* The row after the bytes; a refused row takes its bytes with it.         *)
CreateBlobRow(b) ==
    /\ b \in storing /\ storing' = storing \ {b}
    /\ IF tstate = "gone" THEN bytes' = bytes \ {b} /\ UNCHANGED blobRows
                          ELSE blobRows' = blobRows \cup {b} /\ UNCHANGED bytes
    /\ UNCHANGED <<tstate, tkey, queued, dbs, parts, items, lateWrites, purging, purgeLock, purgeFaults, purgeHistory>>

WriterDies(b) ==
    /\ b \in storing /\ storing' = storing \ {b}
    /\ UNCHANGED <<tstate, tenantRows, lateWrites, purging, purgeLock, purgeFaults, purgeHistory>>

\* Its id is a new one; of the ids that are free again, those once found matter here.
LateDatabase(d) ==
    /\ LateWrite /\ d \notin dbs /\ d \notin parts /\ d \notin found
    /\ dbs' = dbs \cup {d} /\ parts' = parts \cup {d} /\ lateDbs' = lateDbs \cup {d}
    /\ UNCHANGED <<tstate, tkey, queued, bytes, blobRows, items, storing, purging, purgeLock, purgeFaults, lateBytes, found, lockLost>>

LateItem(d) ==
    /\ LateWrite /\ d \in dbs \cap parts /\ items' = items \cup {d}
    /\ UNCHANGED <<tstate, tkey, queued, bytes, blobRows, dbs, parts, storing, purging, purgeLock, purgeFaults, purgeHistory>>

LateKeyOrJob ==
    /\ LateWrite /\ tkey' = TRUE /\ queued' = TRUE
    /\ UNCHANGED <<tstate, bytes, blobRows, dbs, parts, items, storing, purging, purgeLock, purgeFaults, purgeHistory>>

-----------------------------------------------------------------------------
Goto(p, s) == purging' = [purging EXCEPT ![p] = s]

(* The lock is released when the run ends, however it ends.                *)
Free(p) == purgeLock' = IF purgeLock = p THEN Nobody ELSE purgeLock

(* purgeUnderLock: the try-lock, and the status under it.                  *)
PurgeUnderLock(p) ==
    /\ tstate = "deleting" /\ purging[p] = "idle" /\ purgeLock = Nobody
    /\ purgeLock' = p /\ Goto(p, "keys")
    /\ UNCHANGED <<tstate, tenantRows, writerVars, purgeFaults, purgeHistory>>

(* Shutdown between two units of work, a failed statement or a crash: the  *)
(* run ends and its lock is released.                                      *)
PurgeStops(p) ==
    /\ purging[p] # "idle" /\ purgeFaults < MaxPurgeFaults /\ purgeFaults' = purgeFaults + 1
    /\ Goto(p, "idle") /\ Free(p)
    /\ UNCHANGED <<tstate, tenantRows, writerVars, purgeHistory>>

(* The connection of the session lock is lost; the run goes on.            *)
LockConnectionLost(p) ==
    /\ purgeLock = p /\ purgeFaults < MaxPurgeFaults /\ purgeFaults' = purgeFaults + 1
    /\ purgeLock' = Nobody /\ lockLost' = TRUE
    /\ UNCHANGED <<tstate, tenantRows, writerVars, purging, lateBytes, lateDbs, found>>

PurgeKeys(p) ==
    /\ purging[p] = "keys" /\ Goto(p, "jobs") /\ tkey' = FALSE
    /\ UNCHANGED <<tstate, queued, bytes, blobRows, dbs, parts, items, writerVars, purgeLock, purgeFaults, purgeHistory>>

PurgeQueuedJobs(p) ==
    /\ purging[p] = "jobs" /\ Goto(p, "bytes") /\ queued' = FALSE
    /\ UNCHANGED <<tstate, tkey, bytes, blobRows, dbs, parts, items, writerVars, purgeLock, purgeFaults, purgeHistory>>

(* The bytes of every row in both roots, then the tenant's directories.    *)
PurgeBytes(p) ==
    /\ purging[p] = "bytes" /\ Goto(p, "partitions") /\ bytes' = {} /\ lateBytes' = {}
    /\ UNCHANGED <<tstate, tkey, queued, blobRows, dbs, parts, items, writerVars, purgeLock, purgeFaults, lateDbs, found, lockLost>>

(* The partition of every database, with the items in it: a step of its    *)
(* own and again right before items.                                       *)
PurgePartitions(p) ==
    /\ \/ purging[p] = "partitions" /\ Goto(p, "blobRows")
       \/ purging[p] = "latePartitions" /\ Goto(p, "items")
    /\ parts' = parts \ dbs /\ items' = items \ dbs /\ lateDbs' = lateDbs \ dbs
    /\ UNCHANGED <<tstate, tkey, queued, bytes, blobRows, dbs, writerVars, purgeLock, purgeFaults, lateBytes, found, lockLost>>

(* deleteInChunks, for the tables before items (and the key once more).    *)
DeleteBlobRows(p) ==
    /\ purging[p] = "blobRows" /\ Goto(p, "latePartitions") /\ blobRows' = {} /\ tkey' = FALSE
    /\ UNCHANGED <<tstate, queued, bytes, dbs, parts, items, writerVars, purgeLock, purgeFaults, purgeHistory>>

(* deleteInOneStatement on items must find nothing; rows it finds are      *)
(* deleted and the run fails before databases.                             *)
DeleteItems(p) ==
    /\ purging[p] = "items" /\ items' = {} /\ found' = found \cup items
    /\ IF items = {} THEN Goto(p, "databases") /\ UNCHANGED purgeLock
                     ELSE Goto(p, "idle") /\ Free(p)
    /\ UNCHANGED <<tstate, tkey, queued, bytes, blobRows, dbs, parts, writerVars, purgeFaults, lateBytes, lateDbs, lockLost>>

(* A database with an item is refused by the foreign key of items.         *)
DeleteDatabases(p) ==
    /\ purging[p] = "databases"
    /\ IF items \cap dbs = {} THEN dbs' = {} /\ Goto(p, "directories") /\ UNCHANGED purgeLock
                              ELSE Goto(p, "idle") /\ Free(p) /\ UNCHANGED dbs
    /\ UNCHANGED <<tstate, tkey, queued, bytes, blobRows, parts, items, writerVars, purgeFaults, purgeHistory>>

(* removeTenantDirectories, again, once the rows are gone.                 *)
RemoveTenantDirectories(p) ==
    /\ purging[p] = "directories" /\ Goto(p, "finalise") /\ bytes' = {} /\ lateBytes' = {}
    /\ UNCHANGED <<tstate, tkey, queued, blobRows, dbs, parts, items, writerVars, purgeLock, purgeFaults, lateDbs, found, lockLost>>

NothingRemains == ~tkey /\ blobRows = {} /\ dbs = {} /\ items = {}

(* finalise: in one transaction nothing may remain, the identity goes, the *)
(* tombstone is written and the tenants row deleted.                       *)
Finalise(p) ==
    /\ purging[p] = "finalise" /\ Goto(p, "idle") /\ Free(p)
    /\ tstate' = IF NothingRemains THEN "gone" ELSE tstate
    /\ UNCHANGED <<tenantRows, writerVars, purgeFaults, purgeHistory>>

PurgeStep(p) ==
    \/ PurgeUnderLock(p) \/ PurgeKeys(p) \/ PurgeQueuedJobs(p) \/ PurgeBytes(p) \/ PurgePartitions(p)
    \/ DeleteBlobRows(p) \/ DeleteItems(p) \/ DeleteDatabases(p) \/ RemoveTenantDirectories(p) \/ Finalise(p)

PurgeNext ==
    \/ DeleteTenant \/ LateKeyOrJob
    \/ \E b \in TenantBlobs : StoreBytes(b) \/ CreateBlobRow(b) \/ WriterDies(b)
    \/ \E d \in TenantDbs : LateDatabase(d) \/ LateItem(d)
    \/ \E p \in PurgeRuns : PurgeStep(p) \/ PurgeStops(p) \/ LockConnectionLost(p)

(* The task runs every minute and a run takes its steps; a writer ends.    *)
PurgeSpec ==
    /\ PurgeInit /\ [][PurgeNext]_purgeVars
    /\ \A p \in PurgeRuns : WF_purgeVars(PurgeStep(p))
    /\ \A b \in TenantBlobs : WF_purgeVars(CreateBlobRow(b) \/ WriterDies(b))

-----------------------------------------------------------------------------
(* A tenant whose tombstone is written has no row left, whatever late      *)
(* writers inserted between the steps of the purge.                        *)
ErasedMeansNoRows == tstate = "gone" => NothingRemains

(* ... and no bytes but those a writer stored after the directories were   *)
(* removed for the last time.                                              *)
ErasedMeansNoBytes == tstate = "gone" => bytes \subseteq lateBytes

(* ... and no partition of items but that of a database created after the  *)
(* last pass, in which no item was found unless runs overlapped.           *)
ErasedMeansNoPartitions ==
    tstate = "gone" => parts \subseteq IF lockLost THEN lateDbs ELSE lateDbs \ found

(* A deletion, once begun, ends: overlapping and interrupted runs and late *)
(* writers delay the purge and do not stop it.                             *)
DeletionEnded == tstate # "deleting"

-----------------------------------------------------------------------------
(***************************************************************************)
(* A tenant's data export (tenantExportsStore.ts, tenantExportJob.ts): the *)
(* request that inserts at most one active row with its job, the task that *)
(* builds the archive, the retry after a shutdown, and the sweep of        *)
(* expired exports. The job has one attempt, so nothing repeats a task     *)
(* whose claim failed or whose process died.                               *)
(***************************************************************************)

CONSTANTS
    Exports,            \* rows of tenant_exports
    Requesters,         \* requests for an export
    RequestAttempts,    \* REQUEST_ATTEMPTS
    MaxExportFaults     \* failed statements, lost answers, process deaths

ASSUME ExportAssumption == RequestAttempts \in Nat \ {0} /\ MaxExportFaults \in Nat

VARIABLES
    export,         \* tenant_exports.status, "none" before the row and "swept" after it
    job,            \* the tenantExport job: "none", "queued", "locked"
    archive,        \* the file of the export: "none", "partial", "whole"
    build,          \* where the task is
    request,        \* what every request does next, or how it ended
    attempt,        \* its attempts
    exportFaults,
    unstarted,      \* history: exports whose job was used up before its claim was known to commit
    died,           \* history: exports whose task died, or could not write its last status
    lostAnswer,     \* history: exports whose "ready" committed without an answer
    leaked          \* history: exports whose file could not be deleted

exportVars == <<export, job, archive, build, request, attempt, exportFaults, unstarted, died, lostAnswer, leaked>>
requestVars == <<request, attempt>>
exportHistory == <<unstarted, died, lostAnswer, leaked>>

Active(e) == export[e] \in {"pending", "running"}
ActiveExports == {e \in Exports : Active(e)}

ExportInit ==
    /\ export = [e \in Exports |-> "none"] /\ job = [e \in Exports |-> "none"]
    /\ archive = [e \in Exports |-> "none"] /\ build = [e \in Exports |-> "idle"]
    /\ request = [q \in Requesters |-> "insert"] /\ attempt = [q \in Requesters |-> 0] /\ exportFaults = 0
    /\ unstarted = {} /\ died = {} /\ lostAnswer = {} /\ leaked = {}

ExportTypeOK ==
    /\ export \in [Exports -> {"none", "pending", "running", "ready", "failed", "swept"}]
    /\ job \in [Exports -> {"none", "queued", "locked"}]
    /\ archive \in [Exports -> {"none", "partial", "whole"}]
    /\ build \in [Exports -> {"idle", "writing", "written", "discardInterrupted", "discardFailed",
                              "requeue", "markFailed", "deleteFile"}]
    /\ request \in [Requesters -> {"insert", "read", "answered", "refused"}]
    /\ attempt \in [Requesters -> 0 .. RequestAttempts]
    /\ exportFaults \in 0 .. MaxExportFaults
    /\ unstarted \subseteq Exports /\ died \subseteq Exports /\ lostAnswer \subseteq Exports /\ leaked \subseteq Exports

Fault == exportFaults < MaxExportFaults /\ exportFaults' = exportFaults + 1
SetExport(e, s) == export' = [export EXCEPT ![e] = s]
SetBuild(e, s) == build' = [build EXCEPT ![e] = s]
SetJob(e, s) == job' = [job EXCEPT ![e] = s]

-----------------------------------------------------------------------------
(* The insert that the unique index of active exports ignores, or the row  *)
(* and its job together.                                                   *)
InsertExport(q) ==
    /\ request[q] = "insert" /\ attempt' = [attempt EXCEPT ![q] = @ + 1]
    /\ IF ActiveExports # {}
       THEN request' = [request EXCEPT ![q] = "read"] /\ UNCHANGED <<export, job>>
       ELSE /\ request' = [request EXCEPT ![q] = "answered"]
            /\ \E e \in Exports : export[e] = "none" /\ SetExport(e, "pending") /\ SetJob(e, "queued")
    /\ UNCHANGED <<archive, build, exportFaults, exportHistory>>

(* The read-back of the active export, which may have finished meanwhile.  *)
ReadActive(q) ==
    /\ request[q] = "read"
    /\ request' = [request EXCEPT ![q] =
            IF ActiveExports # {} THEN "answered" ELSE IF attempt[q] < RequestAttempts THEN "insert" ELSE "refused"]
    /\ UNCHANGED <<export, job, archive, build, attempt, exportFaults, exportHistory>>

-----------------------------------------------------------------------------
(* The claim under the row's lock; an export that is not pending is left   *)
(* alone.                                                                  *)
StartExport(e) ==
    /\ job[e] = "queued" /\ build[e] = "idle"
    /\ IF export[e] = "pending"
       THEN SetJob(e, "locked") /\ SetExport(e, "running") /\ SetBuild(e, "writing")
       ELSE SetJob(e, "none") /\ UNCHANGED <<export, build>>
    /\ UNCHANGED <<archive, requestVars, exportFaults, exportHistory>>

(* The claim stands before the handler's try and the job has one attempt:  *)
(* when its transaction or the look-up of the tenant before it fails, or   *)
(* the tenant is suspended at that moment, the job is used up and the row  *)
(* stays as it was, or running when only the commit's answer was lost.     *)
StartFails(e) ==
    /\ job[e] = "queued" /\ build[e] = "idle" /\ Fault /\ SetJob(e, "none")
    /\ unstarted' = unstarted \cup {e}
    /\ \/ UNCHANGED export
       \/ export[e] = "pending" /\ SetExport(e, "running")
    /\ UNCHANGED <<archive, build, requestVars, died, lostAnswer, leaked>>

(* writeArchive, entry by entry in one snapshot.                           *)
WriteEntry(e) ==
    /\ build[e] = "writing"
    /\ \/ archive[e] # "partial" /\ archive' = [archive EXCEPT ![e] = "partial"] /\ UNCHANGED build
       \/ archive[e] = "partial" /\ archive' = [archive EXCEPT ![e] = "whole"] /\ SetBuild(e, "written")
    /\ UNCHANGED <<export, job, requestVars, exportFaults, exportHistory>>

(* The worker shuts down; an entry fails.                                  *)
WriteInterrupted(e) ==
    /\ build[e] = "writing" /\ Fault /\ SetBuild(e, "discardInterrupted")
    /\ UNCHANGED <<export, job, archive, requestVars, exportHistory>>

WriteFails(e) ==
    /\ build[e] = "writing" /\ Fault /\ SetBuild(e, "discardFailed")
    /\ UNCHANGED <<export, job, archive, requestVars, exportHistory>>

MarkReady(e) ==
    /\ build[e] = "written" /\ SetExport(e, "ready") /\ SetBuild(e, "idle") /\ SetJob(e, "none")
    /\ UNCHANGED <<archive, requestVars, exportFaults, exportHistory>>

(* The update fails, or commits and its answer is lost: the file goes.     *)
MarkReadyFails(e) ==
    /\ build[e] = "written" /\ Fault /\ SetBuild(e, "discardFailed")
    /\ \/ UNCHANGED <<export, lostAnswer>>
       \/ SetExport(e, "ready") /\ lostAnswer' = lostAnswer \cup {e}
    /\ UNCHANGED <<job, archive, requestVars, unstarted, died, leaked>>

(* deletePartialArchive: a failure is logged and the file stays.           *)
DeletePartialArchive(e) ==
    /\ build[e] \in {"discardInterrupted", "discardFailed"}
    /\ SetBuild(e, IF build[e] = "discardInterrupted" THEN "requeue" ELSE "markFailed")
    /\ \/ archive' = [archive EXCEPT ![e] = "none"] /\ UNCHANGED <<exportFaults, leaked>>
       \/ Fault /\ leaked' = leaked \cup {e} /\ UNCHANGED archive
    /\ UNCHANGED <<export, job, requestVars, unstarted, died, lostAnswer>>

(* The row goes back to pending and no job is queued for it.               *)
RequeueWithoutJob(e) ==
    /\ build[e] = "requeue" /\ SetExport(e, "pending") /\ SetJob(e, "none") /\ SetBuild(e, "idle")
    /\ UNCHANGED <<archive, requestVars, exportFaults, exportHistory>>

(* requeueInterruptedExport: pending and the job again, in one             *)
(* transaction; when it fails the export is marked failed.                 *)
RequeueInterruptedExport(e) ==
    /\ build[e] = "requeue"
    /\ \/ SetExport(e, "pending") /\ SetJob(e, "queued") /\ SetBuild(e, "idle") /\ UNCHANGED exportFaults
       \/ Fault /\ SetBuild(e, "markFailed") /\ UNCHANGED <<export, job>>
    /\ UNCHANGED <<archive, requestVars, exportHistory>>

(* markFailedPreservingCause: only a running export, and a failure to      *)
(* write it is logged.                                                     *)
MarkFailed(e) ==
    /\ build[e] = "markFailed" /\ SetBuild(e, "idle") /\ SetJob(e, "none")
    /\ \/ /\ export' = [export EXCEPT ![e] = IF @ = "running" THEN "failed" ELSE @]
          /\ UNCHANGED <<exportFaults, died>>
       \/ Fault /\ died' = died \cup {e} /\ UNCHANGED export
    /\ UNCHANGED <<archive, requestVars, unstarted, lostAnswer, leaked>>

(* The process dies: the job had its one attempt.                          *)
ExporterDies(e) ==
    /\ build[e] # "idle" /\ Fault /\ SetBuild(e, "idle") /\ SetJob(e, "none")
    /\ died' = died \cup {e}
    /\ UNCHANGED <<export, archive, requestVars, unstarted, lostAnswer, leaked>>

(* The expiry sweep: the row in a transaction, then its file.              *)
DeleteExpiredExport(e) ==
    /\ export[e] \in {"ready", "failed"} /\ build[e] = "idle"
    /\ SetExport(e, "swept")
    /\ SetBuild(e, IF export[e] = "ready" THEN "deleteFile" ELSE "idle")
    /\ UNCHANGED <<job, archive, requestVars, exportFaults, exportHistory>>

DeleteExpiredFile(e) ==
    /\ build[e] = "deleteFile" /\ SetBuild(e, "idle")
    /\ \/ archive' = [archive EXCEPT ![e] = "none"] /\ UNCHANGED <<exportFaults, leaked>>
       \/ Fault /\ leaked' = leaked \cup {e} /\ UNCHANGED archive
    /\ UNCHANGED <<export, job, requestVars, unstarted, died, lostAnswer>>

ExportWork(e) ==
    \/ StartExport(e) \/ WriteEntry(e) \/ MarkReady(e) \/ DeletePartialArchive(e)
    \/ RequeueInterruptedExport(e) \/ MarkFailed(e) \/ DeleteExpiredFile(e)

ExportNext ==
    \/ \E q \in Requesters : InsertExport(q) \/ ReadActive(q)
    \/ \E e \in Exports :
         \/ ExportWork(e) \/ StartFails(e) \/ WriteInterrupted(e) \/ WriteFails(e) \/ MarkReadyFails(e)
         \/ ExporterDies(e) \/ DeleteExpiredExport(e)

ExportFairness == \A e \in Exports : WF_exportVars(ExportWork(e))

ExportSpec == ExportInit /\ [][ExportNext]_exportVars /\ ExportFairness

-----------------------------------------------------------------------------
(* An export that can be downloaded has its whole file, but for one whose  *)
(* task lost the answer of the update that made it ready.                  *)
ReadyHasArchive == \A e \in Exports : export[e] = "ready" => archive[e] = "whole" \/ e \in lostAnswer

(* An export that holds the tenant's one active place without a task or a  *)
(* job lost its only attempt: its claim failed, its process died or could  *)
(* not record its end. Shutdowns, failed entries, failed requeues and lost *)
(* answers later on never do this.                                         *)
StrandedExportLostItsTask ==
    \A e \in ActiveExports : build[e] = "idle" /\ job[e] = "none" => e \in unstarted \cup died

(* A file no row leads to was left by a task that died or a failed delete. *)
NoLeakedArchives ==
    \A e \in Exports :
        archive[e] # "none" /\ build[e] = "idle" /\ export[e] \in {"pending", "failed", "swept"}
            => e \in died \cup leaked

(* An active export ends, however often it is interrupted, unless its      *)
(* only attempt is lost.                                                   *)
ExportsEnded == \A e \in Exports : Active(e) => e \in unstarted \cup died
=============================================================================
