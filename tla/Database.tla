------------------------------ MODULE Database ------------------------------
(***************************************************************************)
(* What every service builds on: the job queue, and the connection pool    *)
(* with its tenant scope.                                                  *)
(***************************************************************************)
EXTENDS Naturals, FiniteSets

-----------------------------------------------------------------------------
(***************************************************************************)
(* The job queue as this program uses it (packages/queue): producers       *)
(* enqueue one keyed task of a tenant, workers run it in the tenant's      *)
(* scope, and a run superseded by a new enqueue does not fail for good.    *)
(* The deploy's step that stamps the tenant onto jobs of the old release   *)
(* runs beside both. graphile-worker's tables follow its documented rules. *)
(***************************************************************************)

CONSTANTS
    QueueWorkers,
    MaxChanges,         \* changes that enqueue the task
    MaxTries,           \* max_attempts of the job
    MaxQueueFaults,     \* failing handlers, lookups and statements, dying workers
    MaxTenantMoves,     \* suspensions and reactivations
    NoWorker

ASSUME QueueAssumption ==
    /\ MaxChanges \in Nat \ {0} /\ MaxTries \in Nat \ {0} /\ MaxQueueFaults \in Nat
    /\ NoWorker \notin QueueWorkers

VARIABLES
    want,           \* the number of changes that enqueued the task
    jobRows,        \* graphile_worker.jobs, by id
    running,        \* every worker: its job, the key it saw, its step, the changes it has read
    tenantActive,
    stamp,          \* the stamping step: the legacy job it has read
    covered,        \* history: the changes a finished handler has seen
    diedAt, droppedAt, \* history: the changes made when a job failed for good, or was skipped
    stampOvertaken, \* history: a job was updated between the stamp's read and its write
    queueFaults, tenantMoves

queueVars == <<want, jobRows, running, tenantActive, stamp, covered, diedAt, droppedAt,
               stampOvertaken, queueFaults, tenantMoves>>
queueHistory == <<covered, diedAt, droppedAt, stampOvertaken>>

JobIds == 1 .. (MaxChanges + 2)
NoJob == [there |-> FALSE, keyed |-> FALSE, payload |-> 0, tries |-> 0, worker |-> NoWorker, stamped |-> FALSE,
          excused |-> FALSE]
QueueIdle == [step |-> "idle", job |-> 0, keyed |-> FALSE, read |-> 0]
NoStamp == [step |-> "none", job |-> 0, payload |-> 0]
Absent(j) == ~jobRows[j].there
KeyHolders == {j \in JobIds : jobRows[j].there /\ jobRows[j].keyed}

(* A fresh queue, or one in which the release before the tenant stamp left *)
(* a job.                                                                  *)
QueueInit ==
    /\ \/ want = 0 /\ jobRows = [j \in JobIds |-> NoJob]
       \/ want = 1 /\ jobRows = [j \in JobIds |->
              IF j = 1 THEN [NoJob EXCEPT !.there = TRUE, !.keyed = TRUE, !.payload = 1] ELSE NoJob]
    /\ running = [w \in QueueWorkers |-> QueueIdle] /\ tenantActive = TRUE /\ stamp = NoStamp
    /\ covered = 0 /\ diedAt = 0 /\ droppedAt = 0 /\ stampOvertaken = FALSE
    /\ queueFaults = 0 /\ tenantMoves = 0

QueueTypeOK ==
    /\ want \in 0 .. MaxChanges /\ covered \in 0 .. want /\ diedAt \in 0 .. want /\ droppedAt \in 0 .. want
    /\ \A j \in JobIds : jobRows[j].tries \in 0 .. MaxTries /\ jobRows[j].payload \in 0 .. want
                         /\ jobRows[j].worker \in QueueWorkers \cup {NoWorker}
    /\ \A w \in QueueWorkers : running[w].step \in {"idle", "fetched", "handler", "threw"}
    /\ Cardinality(KeyHolders) <= 1
    /\ \A w \in QueueWorkers : running[w].step # "idle" => jobRows[running[w].job].worker = w

-----------------------------------------------------------------------------
New(payload) == [there |-> TRUE, keyed |-> TRUE, payload |-> payload, tries |-> 0, worker |-> NoWorker, stamped |-> TRUE,
                 excused |-> FALSE]
FirstFree(rows) == CHOOSE i \in JobIds : ~rows[i].there /\ \A k \in JobIds : ~rows[k].there => i <= k

Available(row) == row.worker = NoWorker /\ row.tries < MaxTries

(* add_job in mode replace: an available job of the key starts over with   *)
(* the new payload; a locked or finally failed one loses its key, is never *)
(* tried again, and a new job takes the key.                               *)
AddJob(rows, payload) ==
    LET held == {j \in JobIds : rows[j].there /\ rows[j].keyed}
        free == {j \in held : Available(rows[j])} IN
    IF free # {} THEN [j \in JobIds |-> IF j \in free THEN New(payload) ELSE rows[j]]
    ELSE [j \in JobIds |->
             CASE j \in held -> [rows[j] EXCEPT !.keyed = FALSE, !.tries = MaxTries,
                                               !.excused = @ \/ rows[j].worker = NoWorker]
               [] j = FirstFree(rows) -> New(payload)
               [] OTHER -> rows[j]]

(* The enqueue commits with the change that caused it.                     *)
EnqueueJob ==
    /\ want < MaxChanges /\ \E j \in JobIds : Absent(j)
    /\ want' = want + 1 /\ jobRows' = AddJob(jobRows, want + 1)
    /\ stampOvertaken' = (stampOvertaken \/ stamp # NoStamp)
    /\ UNCHANGED <<running, tenantActive, stamp, covered, diedAt, droppedAt, queueFaults, tenantMoves>>

Fetch(w, j) ==
    /\ running[w] = QueueIdle /\ jobRows[j].there /\ Available(jobRows[j])
    /\ jobRows' = [jobRows EXCEPT ![j].worker = w, ![j].tries = @ + 1]
    /\ running' = [running EXCEPT ![w] = [step |-> "fetched", job |-> j, keyed |-> jobRows[j].keyed, read |-> 0]]
    /\ UNCHANGED <<want, tenantActive, stamp, queueHistory, queueFaults, tenantMoves>>

Finishes(w) ==
    /\ jobRows' = [jobRows EXCEPT ![running[w].job] = NoJob]
    /\ running' = [running EXCEPT ![w] = QueueIdle]

(* Attempts are left as they are; the last one leaves the job dead.        *)
FailsJob(w, excuse) ==
    LET j == running[w].job IN
    /\ jobRows' = [jobRows EXCEPT ![j].worker = NoWorker, ![j].excused = @ \/ excuse]
    /\ running' = [running EXCEPT ![w] = QueueIdle]
    /\ diedAt' = IF jobRows[j].tries = MaxTries /\ jobRows[j].keyed THEN want ELSE diedAt

QueueFault == queueFaults < MaxQueueFaults /\ queueFaults' = queueFaults + 1

(* A tenant task without a tenant is refused; one of an inactive tenant is *)
(* complete without running.                                               *)
RunInTaskScope(w) ==
    /\ running[w].step = "fetched"
    /\ \/ /\ ~jobRows[running[w].job].stamped
          /\ running' = [running EXCEPT ![w].step = "threw"] /\ UNCHANGED <<jobRows, droppedAt>>
       \/ /\ jobRows[running[w].job].stamped /\ ~tenantActive
          /\ Finishes(w)
          /\ droppedAt' = IF jobRows[running[w].job].keyed THEN want ELSE droppedAt
       \/ /\ jobRows[running[w].job].stamped /\ tenantActive
          /\ running' = [running EXCEPT ![w].step = "handler", ![w].read = want] /\ UNCHANGED <<jobRows, droppedAt>>
    /\ UNCHANGED <<want, tenantActive, stamp, covered, diedAt, stampOvertaken, queueFaults, tenantMoves>>

HandlerDone(w) ==
    /\ running[w].step = "handler" /\ Finishes(w)
    /\ covered' = IF running[w].read > covered THEN running[w].read ELSE covered
    /\ UNCHANGED <<want, tenantActive, stamp, diedAt, droppedAt, stampOvertaken, queueFaults, tenantMoves>>

HandlerThrows(w) ==
    /\ running[w].step \in {"fetched", "handler"} /\ QueueFault
    /\ running' = [running EXCEPT ![w].step = "threw"]
    /\ UNCHANGED <<want, jobRows, tenantActive, stamp, queueHistory, tenantMoves>>

(* jobKeyWasCleared: a run that lost its key has been superseded, and its  *)
(* failure is swallowed; the job that took the key does the work.          *)
SettleFailure(w) ==
    /\ running[w].step = "threw"
    /\ IF running[w].keyed /\ ~jobRows[running[w].job].keyed THEN Finishes(w) /\ UNCHANGED diedAt ELSE FailsJob(w, FALSE)
    /\ UNCHANGED <<want, tenantActive, stamp, covered, droppedAt, stampOvertaken, queueFaults, tenantMoves>>

(* A lookup that fails must not hide the failure.                          *)
LookupFails(w) ==
    /\ running[w].step = "threw" /\ running[w].keyed /\ QueueFault /\ FailsJob(w, TRUE)
    /\ UNCHANGED <<want, tenantActive, stamp, covered, droppedAt, stampOvertaken, tenantMoves>>

(* The worker dies; its lock lapses four hours later.                      *)
WorkerDies(w) ==
    /\ running[w].step # "idle" /\ QueueFault /\ FailsJob(w, TRUE)
    /\ UNCHANGED <<want, tenantActive, stamp, covered, droppedAt, stampOvertaken, tenantMoves>>

MoveTenant ==
    /\ tenantMoves < MaxTenantMoves /\ tenantMoves' = tenantMoves + 1
    /\ tenantActive' = ~tenantActive
    /\ UNCHANGED <<want, jobRows, running, stamp, queueHistory, queueFaults>>

-----------------------------------------------------------------------------
Legacy == {j \in JobIds : jobRows[j].there /\ ~jobRows[j].stamped /\ jobRows[j].tries < MaxTries}

(* The legacy jobs, none of them locked; the read takes no lock.           *)
StampReads ==
    /\ stamp = NoStamp /\ \A j \in Legacy : jobRows[j].worker = NoWorker
    /\ \E j \in Legacy : stamp' = [step |-> "read", job |-> j, payload |-> jobRows[j].payload]
    /\ UNCHANGED <<want, jobRows, running, tenantActive, queueHistory, queueFaults, tenantMoves>>

(* Removed, unless a worker has it, and enqueued again with the payload    *)
(* that was read; otherwise the step throws and nothing changes.           *)
StampWrites ==
    /\ stamp.step = "read" /\ stamp' = NoStamp
    /\ LET row == jobRows[stamp.job] IN
       IF row.there /\ row.worker = NoWorker
       THEN jobRows' = AddJob([jobRows EXCEPT ![stamp.job] = NoJob], stamp.payload)
       ELSE UNCHANGED jobRows
    /\ UNCHANGED <<want, running, tenantActive, queueHistory, queueFaults, tenantMoves>>

WorkerStep(w) == (\E j \in JobIds : Fetch(w, j)) \/ RunInTaskScope(w) \/ HandlerDone(w) \/ SettleFailure(w)

QueueNext ==
    \/ EnqueueJob \/ MoveTenant \/ StampReads \/ StampWrites
    \/ \E w \in QueueWorkers : WorkerStep(w) \/ HandlerThrows(w) \/ LookupFails(w) \/ WorkerDies(w)

QueueFairness == \A w \in QueueWorkers : WF_queueVars(WorkerStep(w))
QueueSpec == QueueInit /\ [][QueueNext]_queueVars /\ QueueFairness

-----------------------------------------------------------------------------
Accounted == covered = want \/ diedAt = want \/ droppedAt = want

(* A change whose task was enqueued has a job that will still read it:     *)
(* "inserts the replacement under that key instead of waiting".            *)
EveryChangeHasAJob ==
    Accounted \/ \E j \in JobIds :
        /\ jobRows[j].there
        /\ \/ jobRows[j].worker = NoWorker /\ jobRows[j].tries < MaxTries
           \/ \E w \in QueueWorkers : /\ running[w].job = j /\ running[w].step # "idle"
                                      /\ running[w].step = "handler" => running[w].read = want

(* A superseded run does not stay behind as a permanently failed job,      *)
(* unless its key could not be looked up, its worker died, or it had       *)
(* failed for good before (registerTask, jobKeyWasCleared).                *)
SupersededIsNotDead ==
    \A j \in JobIds : jobRows[j].there /\ jobRows[j].worker = NoWorker /\ jobRows[j].tries = MaxTries
                        => jobRows[j].keyed \/ jobRows[j].excused

(* The job that waits under the key carries the newest payload, unless the *)
(* stamping step put back the one it had read before an enqueue.           *)
WaitingIsNewest == \A j \in KeyHolders : jobRows[j].payload = want \/ stampOvertaken

-----------------------------------------------------------------------------
(***************************************************************************)
(* The connection pool with its tenant scope and after-commit callbacks    *)
(* (db/pool.ts): operations of several tenants check connections out, as   *)
(* transactions, as one-statement queries and as sessions, and give them   *)
(* back. The scope of a connection is a setting of its session or of its   *)
(* transaction, and callbacks are parked on the connection.                *)
(***************************************************************************)

CONSTANTS
    PoolOps,            \* operations that use a connection once
    KindOf,             \* "transaction", "query" or "session", by operation
    TenantOf,           \* the scope of every operation, NoTenant for the system
    PoolSize,           \* connections are 1 .. PoolSize
    MaxPoolFaults,      \* failing statements and broken connections
    NoTenant, NoOp

ASSUME ConnectionAssumption == PoolSize \in Nat \ {0} /\ MaxPoolFaults \in Nat /\ NoOp \notin PoolOps

VARIABLES
    poolConn,           \* every connection: holder, settings, transaction, parked callbacks, health
    use,            \* every operation: its step, its connection, whether it threw
    ran,            \* history: the tenants an operation's statements ran as
    parkedBy,       \* history: operations that registered a callback
    committedOps,   \* history: operations whose transaction committed
    fired,          \* history: operations whose callback ran
    unanswered,     \* history: operations whose COMMIT was never answered
    swallowed,      \* history: operations that caught a failed statement and went on
    poolFaults

connVars == <<poolConn, use, ran, parkedBy, committedOps, fired, unanswered, swallowed, poolFaults>>
opHistory == <<ran, parkedBy, committedOps, fired, unanswered, swallowed>>

Connections == 1 .. PoolSize
Unscoped == "unset"
Closed == [holder |-> NoOp, open |-> FALSE, session |-> Unscoped, txn |-> "none", local |-> Unscoped,
           parked |-> {}, broken |-> FALSE]
Scoped(o) == KindOf[o] # "session"

ConnInit ==
    /\ poolConn = [c \in Connections |-> Closed]
    /\ use = [o \in PoolOps |-> [at |-> "start", conn |-> 0, threw |-> FALSE]]
    /\ ran = [o \in PoolOps |-> {}]
    /\ parkedBy = {} /\ committedOps = {} /\ fired = {} /\ unanswered = {} /\ swallowed = {} /\ poolFaults = 0

ConnTypeOK ==
    /\ \A c \in Connections :
         /\ poolConn[c].holder \in PoolOps \cup {NoOp} /\ poolConn[c].txn \in {"none", "open", "aborted"}
         /\ poolConn[c].parked \subseteq PoolOps
    /\ \A o \in PoolOps : use[o].at \in {"start", "scope", "begin", "local", "work", "commit", "rollback",
                                         "release", "reset", "done"}
    /\ UNION {poolConn[c].parked : c \in Connections} \subseteq parkedBy
    /\ committedOps \cup fired \subseteq PoolOps

C(o) == poolConn[use[o].conn]
Steps(o, to) == use' = [use EXCEPT ![o].at = to]
Throws(o, to) == use' = [use EXCEPT ![o].at = to, ![o].threw = TRUE]
Sets(o, new) == poolConn' = [poolConn EXCEPT ![use[o].conn] = new]

(* A free connection, or a new one while the pool has room; a broken idle  *)
(* one has already been discarded.                                         *)
Checkout(o, c) ==
    /\ use[o].at = "start" /\ poolConn[c].holder = NoOp
    /\ poolConn[c].open \/ \A d \in Connections : poolConn[d].open => poolConn[d].holder # NoOp
    /\ poolConn' = [poolConn EXCEPT ![c].holder = o, ![c].open = TRUE]
    /\ use' = [use EXCEPT ![o].at = IF Scoped(o) THEN "begin" ELSE "scope", ![o].conn = c]
    /\ UNCHANGED <<opHistory, poolFaults>>

(* checkoutWithSession: the setting of the session.                        *)
SetSession(o) ==
    /\ use[o].at = "scope" /\ ~C(o).broken
    /\ Sets(o, [C(o) EXCEPT !.session = TenantOf[o]]) /\ Steps(o, "work")
    /\ UNCHANGED <<opHistory, poolFaults>>

Begin(o) ==
    /\ use[o].at = "begin" /\ ~C(o).broken
    /\ Sets(o, [C(o) EXCEPT !.txn = "open", !.local = Unscoped]) /\ Steps(o, "local")
    /\ UNCHANGED <<opHistory, poolFaults>>

(* A transaction that relies on the session's setting.                     *)
SkipLocal(o) ==
    /\ use[o].at = "local" /\ ~C(o).broken /\ Steps(o, "work")
    /\ UNCHANGED <<poolConn, opHistory, poolFaults>>

SetLocal(o) ==
    /\ use[o].at = "local" /\ ~C(o).broken
    /\ Sets(o, [C(o) EXCEPT !.local = TenantOf[o]]) /\ Steps(o, "work")
    /\ UNCHANGED <<opHistory, poolFaults>>

Effective(c) == IF c.txn # "none" /\ c.local # Unscoped THEN c.local ELSE c.session

(* The statements of the operation; a transaction may register a callback. *)
Work(o) ==
    /\ use[o].at = "work" /\ ~C(o).broken /\ C(o).txn # "aborted"
    /\ ran' = [ran EXCEPT ![o] = @ \cup {Effective(C(o))}]
    /\ IF KindOf[o] = "transaction"
       THEN Sets(o, [C(o) EXCEPT !.parked = @ \cup {o}]) /\ parkedBy' = parkedBy \cup {o}
       ELSE UNCHANGED <<poolConn, parkedBy>>
    /\ Steps(o, IF Scoped(o) THEN "commit" ELSE "release")
    /\ UNCHANGED <<committedOps, fired, unanswered, swallowed, poolFaults>>

PoolFault == poolFaults < MaxPoolFaults /\ poolFaults' = poolFaults + 1

(* A statement fails, which aborts its transaction; the function throws,   *)
(* or catches the error and returns.                                       *)
StatementFails(o) ==
    /\ use[o].at \in {"work", "commit"} /\ ~C(o).broken /\ PoolFault
    /\ KindOf[o] # "session" => C(o).txn = "open"
    /\ Sets(o, [C(o) EXCEPT !.txn = IF @ = "open" THEN "aborted" ELSE @])
    /\ \/ Throws(o, IF Scoped(o) THEN "rollback" ELSE "release") /\ UNCHANGED swallowed
       \/ KindOf[o] = "transaction" /\ use[o].at = "commit"
          /\ swallowed' = swallowed \cup {o} /\ UNCHANGED use
    /\ UNCHANGED <<ran, parkedBy, committedOps, fired, unanswered>>

(* The connection breaks: nothing on it is answered any more.              *)
Breaks(o) ==
    /\ use[o].at \notin {"start", "done"} /\ ~C(o).broken /\ PoolFault
    /\ Sets(o, [C(o) EXCEPT !.broken = TRUE])
    /\ UNCHANGED <<use, opHistory>>

(* What a step that goes unanswered leads to; a COMMIT may have been       *)
(* carried out.                                                            *)
Unanswered(o) ==
    /\ use[o].at \notin {"start", "done"} /\ C(o).broken
    /\ \/ use[o].at \in {"scope", "begin"} /\ Throws(o, "release") /\ UNCHANGED <<committedOps, unanswered>>
       \/ use[o].at \in {"local", "work"}
          /\ Throws(o, IF Scoped(o) THEN "rollback" ELSE "release") /\ UNCHANGED <<committedOps, unanswered>>
       \/ /\ use[o].at = "commit" /\ Throws(o, "rollback")
          /\ committedOps' = IF C(o).txn = "open" THEN committedOps \cup {o} ELSE committedOps
          /\ unanswered' = unanswered \cup {o}
       \/ use[o].at = "commit" /\ Throws(o, "rollback") /\ UNCHANGED <<committedOps, unanswered>>
    /\ UNCHANGED <<poolConn, ran, parkedBy, fired, swallowed, poolFaults>>

(* COMMIT. Of an aborted transaction it is a rollback that is answered as  *)
(* a success. Then the callbacks parked on the connection.                 *)
Commit(o) ==
    /\ use[o].at = "commit" /\ ~C(o).broken
    /\ committedOps' = IF C(o).txn = "open" THEN committedOps \cup {o} ELSE committedOps
    /\ fired' = IF KindOf[o] = "transaction" THEN fired \cup C(o).parked ELSE fired
    /\ Sets(o, [C(o) EXCEPT !.txn = "none", !.local = Unscoped,
                            !.parked = IF KindOf[o] = "transaction" THEN {} ELSE @])
    /\ Steps(o, "release")
    /\ UNCHANGED <<ran, parkedBy, unanswered, swallowed, poolFaults>>

Discarded(o) == {}

(* ROLLBACK, and the callbacks discarded before it.                        *)
Rollback(o) ==
    /\ use[o].at = "rollback"
    /\ Sets(o, IF C(o).broken THEN [C(o) EXCEPT !.parked = Discarded(o)]
               ELSE [C(o) EXCEPT !.txn = "none", !.local = Unscoped, !.parked = Discarded(o)])
    /\ Steps(o, "release")
    /\ UNCHANGED <<opHistory, poolFaults>>

(* In a finally: a broken connection is destroyed, the session's setting   *)
(* of a checkout reset before the connection goes back.                    *)
Release(o) ==
    /\ use[o].at = "release"
    /\ IF Scoped(o) \/ C(o).broken
       THEN Steps(o, "done") /\ Sets(o, IF C(o).broken THEN Closed ELSE [C(o) EXCEPT !.holder = NoOp])
       ELSE Steps(o, "reset") /\ UNCHANGED poolConn
    /\ UNCHANGED <<opHistory, poolFaults>>

ResetSession(o) ==
    /\ use[o].at = "reset" /\ Steps(o, "done")
    /\ Sets(o, IF C(o).broken THEN Closed ELSE [C(o) EXCEPT !.session = Unscoped, !.holder = NoOp])
    /\ UNCHANGED <<opHistory, poolFaults>>

(* The server drops an idle connection, and the pool discards it.          *)
IdleDropped(c) ==
    /\ poolConn[c].open /\ poolConn[c].holder = NoOp /\ PoolFault
    /\ poolConn' = [poolConn EXCEPT ![c] = Closed]
    /\ UNCHANGED <<use, opHistory>>

OpStep(o) ==
    \/ \E c \in Connections : Checkout(o, c)
    \/ SetSession(o) \/ Begin(o) \/ SetLocal(o) \/ Work(o) \/ Commit(o) \/ Rollback(o)
    \/ Release(o) \/ ResetSession(o) \/ Unanswered(o)

ConnNext ==
    \/ \E o \in PoolOps : OpStep(o) \/ StatementFails(o) \/ Breaks(o)
    \/ \E c \in Connections : IdleDropped(c)

ConnFairness == \A o \in PoolOps : WF_connVars(OpStep(o))
ConnSpec == ConnInit /\ [][ConnNext]_connVars /\ ConnFairness

-----------------------------------------------------------------------------
(* A connection never goes back into the pool with the tenant, the         *)
(* transaction or the callbacks of the operation that used it.             *)
IdleIsClean ==
    \A c \in Connections : poolConn[c].holder = NoOp =>
        poolConn[c].session = Unscoped /\ poolConn[c].txn = "none" /\ poolConn[c].parked = {}

(* Every statement runs as its own operation's tenant, whatever ran on the *)
(* connection before.                                                      *)
RunsAsOwnTenant == \A o \in PoolOps : ran[o] \subseteq {TenantOf[o]}

(* A callback runs for a transaction that committed, unless its function   *)
(* caught the error of a statement: the COMMIT of an aborted transaction   *)
(* is answered as a success.                                               *)
ToldAfterCommit == fired \subseteq committedOps \cup swallowed

(* And a committed transaction's callback runs, unless its COMMIT was      *)
(* never answered.                                                         *)
CommittedIsTold == \A o \in parkedBy \cap committedOps : use[o].at = "done" => o \in fired \cup unanswered

(* An operation that is over holds no connection.                          *)
NothingIsLeaked == \A c \in Connections : poolConn[c].holder # NoOp => use[poolConn[c].holder].at # "done"

(* Every operation gets its connection and ends.                           *)
OperationsEnded == \A o \in PoolOps : use[o].at = "done"
=============================================================================
