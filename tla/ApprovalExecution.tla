------------------------- MODULE ApprovalExecution -------------------------
(***************************************************************************)
(* Deferred execution of agent calls that a human must approve.            *)
(*                                                                         *)
(* An agent's call becomes a `pending` row of approval_requests; the owner *)
(* of the run approves or rejects it; an approval enqueues one             *)
(* approvalExecute job in the same transaction; a queue worker carries the *)
(* call out.  Two kinds of call settle in two different ways:              *)
(*                                                                         *)
(*   - "mcpInvoke" calls a third-party tool between two transactions       *)
(*     (claim, then record the outcome), so a delivery that dies in        *)
(*     between leaves a claim that a later delivery settles once it is     *)
(*     stale;                                                              *)
(*   - the five destructive operations run in one transaction that locks   *)
(*     the row, revalidates the resource, mutates it and settles the row.  *)
(*     "item.delete" stands for the ones that succeed when the resource is *)
(*     gone by then (relation.delete too), "property.delete", of a paired  *)
(*     relation property, for the ones that raise not_found.               *)
(*                                                                         *)
(* A transaction's statements are separate actions wherever READ COMMITTED *)
(* (db/pool.ts) lets another transaction commit in between.                *)
(***************************************************************************)
EXTENDS Naturals

CONSTANTS
  Requests,         \* approval_requests ids
  Workers,          \* slots of the queue worker pool
  Users,            \* accounts that may call the decision route
  Resources,        \* what a destructive request targets
  Kind,             \* request -> kind of its payload, fixed when it is created
  RunActor,         \* request -> the user its agent run acts for
  Target,           \* destructive request -> the resource it names
  NoWorker,         \* absence of a worker (an unlocked job or row)
  NoRequest,        \* absence of a request (an idle worker)
  MaxAttempts,      \* graphile-worker's max_attempts
  StaleAfter,       \* MCP_APPROVAL_CLAIM_STALE_AFTER_MS, in ticks
  MaxFailures,      \* bound: database errors, crashes and stolen job locks
  MaxEdits,         \* bound: changes other writers make to resources and grants
  MaxSuspensions    \* bound: times an administrator suspends the tenant

Kinds == {"mcpInvoke", "item.delete", "property.delete"}
Statuses == {"absent", "resolved", "pending", "approved", "rejected"}
ExecutionStatuses == {"not_approved", "queued", "succeeded", "conflict"}
Terminal == {"succeeded", "conflict"}

(* "locked": the property or its database's schema is locked; "lone": so is the
   property, and its paired property is gone; "barred": every destructive check
   refuses it (archived database, system-active item, locked pair...). *)
ResourceStates == {"live", "locked", "lone", "barred", "deleted"}

Pcs == {"idle", "claim", "settle", "verdict", "resolve", "call", "record",
        "lockRow", "project", "mutate", "complete", "fail"}

ASSUME ConstantsAssumption ==
  /\ Kind \in [Requests -> Kinds]
  /\ RunActor \in [Requests -> Users]
  /\ Target \in [{r \in Requests : Kind[r] # "mcpInvoke"} -> Resources]
  /\ NoWorker \notin Workers
  /\ NoRequest \notin Requests
  /\ MaxAttempts \in Nat \ {0}
  /\ StaleAfter \in Nat
  /\ MaxFailures \in Nat
  /\ MaxEdits \in Nat
  /\ MaxSuspensions \in Nat

VARIABLES
  status,           \* approval_requests.status, with two stages before the row
  exec,             \* approval_requests.execution_status
  claimed,          \* approval_requests.executed_at IS NOT NULL
  age,              \* ticks since executed_at, up to StaleAfter + 1
  snapshot,         \* version the resource snapshot was hashed from
  queued,           \* the keyed approvalExecute job exists
  attempts,         \* the job's attempts
  wait,             \* ticks until the job's run_at
  lockedBy,         \* the job's locked_by
  pc,               \* where each worker is in its handler
  cur,              \* the request each worker handles
  err,              \* the outcome a worker carries to its record step
  rowLock,          \* holder of the row's FOR UPDATE lock
  resState,         \* state of each resource
  version,          \* version of each resource (what its projection hashes)
  granted,          \* grant, registration and server are all still active
  tenantActive,     \* tenants.status of the requests' tenant
  calls,            \* history: times the request's tool was run
  mutations,        \* history: times the request's mutation was applied
  seen,             \* history: version the mutation was applied to
  failures, edits, suspensions

requestVars == <<status, exec, claimed, age, snapshot>>
jobVars == <<queued, attempts, wait, lockedBy>>
workerVars == <<pc, cur, err>>
resourceVars == <<resState, version, granted, tenantActive>>
effectVars == <<calls, mutations, seen>>
boundVars == <<failures, edits, suspensions>>
vars == <<requestVars, jobVars, workerVars, rowLock, resourceVars, effectVars,
          boundVars>>

----------------------------------------------------------------------------
(* What the code tests *)

Destructive(r) == Kind[r] # "mcpInvoke"

(* Mutant: the claim's UPDATE does not test executed_at IS NULL *)
ClaimableTwice(r) == status[r] = "approved" /\ exec[r] = "queued"

(* claimApprovalRequestExecution's WHERE clause *)
Claimable(r) == status[r] = "approved" /\ ~claimed[r] /\ exec[r] = "queued"

(* settleStaleApprovalRequestClaim's WHERE clause *)
StaleClaim(r) ==
  /\ status[r] = "approved"
  /\ exec[r] = "queued"
  /\ claimed[r]
  /\ age[r] > StaleAfter

(* computeDestructiveResourceProjection: its checks on the resource.  A locked
   property passes them: its lock is only part of what is hashed. *)
Authorised(r) ==
  \/ resState[Target[r]] = "live"
  \/ Kind[r] = "property.delete" /\ resState[Target[r]] \in {"locked", "lone"}

(* Authorised, and the projection still hashes to the snapshot *)
Revalidates(r) == Authorised(r) /\ version[Target[r]] = snapshot[r]

(* graphile-worker's retry delay grows with the attempts made *)
Backoff(n) == n

(* graphile-worker's get_job: due, unlocked and not out of attempts *)
Runnable(r) ==
  /\ queued[r]
  /\ lockedBy[r] = NoWorker
  /\ wait[r] = 0
  /\ attempts[r] < MaxAttempts

Goto(w, l) == pc' = [pc EXCEPT ![w] = l]

Finish(w) ==
  /\ pc' = [pc EXCEPT ![w] = "idle"]
  /\ cur' = [cur EXCEPT ![w] = NoRequest]
  /\ UNCHANGED err

----------------------------------------------------------------------------
Init ==
  /\ status = [r \in Requests |-> "absent"]
  /\ exec = [r \in Requests |-> "not_approved"]
  /\ claimed = [r \in Requests |-> FALSE]
  /\ age = [r \in Requests |-> 0]
  /\ snapshot = [r \in Requests |-> 0]
  /\ queued = [r \in Requests |-> FALSE]
  /\ attempts = [r \in Requests |-> 0]
  /\ wait = [r \in Requests |-> 0]
  /\ lockedBy = [r \in Requests |-> NoWorker]
  /\ pc = [w \in Workers |-> "idle"]
  /\ cur = [w \in Workers |-> NoRequest]
  /\ err = [w \in Workers |-> FALSE]
  /\ rowLock = [r \in Requests |-> NoWorker]
  /\ resState \in [Resources -> {"live", "locked"}]
  /\ version = [o \in Resources |-> 0]
  /\ granted = [r \in Requests |-> TRUE]
  /\ tenantActive = TRUE
  /\ calls = [r \in Requests |-> 0]
  /\ mutations = [r \in Requests |-> 0]
  /\ seen = [r \in Requests |-> 0]
  /\ failures = 0
  /\ edits = 0
  /\ suspensions = 0

----------------------------------------------------------------------------
(* The agent's call *)

(* resolveMcpInvocation: the grant is checked in a transaction of its own *)
ResolveMcpInvocation(r) ==
  /\ ~Destructive(r)
  /\ status[r] = "absent"
  /\ granted[r]
  /\ status' = [status EXCEPT ![r] = "resolved"]
  /\ UNCHANGED <<exec, claimed, age, snapshot, jobVars, workerVars, rowLock,
                 resourceVars, effectVars, boundVars>>

(* createPendingApprovalRequest for a resolved tool that requires approval *)
CreatePendingMcpRequest(r) ==
  /\ status[r] = "resolved"
  /\ status' = [status EXCEPT ![r] = "pending"]
  /\ UNCHANGED <<exec, claimed, age, snapshot, jobVars, workerVars, rowLock,
                 resourceVars, effectVars, boundVars>>

(* preflightDestructiveApproval: authorise, snapshot and insert *)
PreflightDestructiveApproval(r) ==
  /\ Destructive(r)
  /\ status[r] = "absent"
  /\ Authorised(r)
  /\ status' = [status EXCEPT ![r] = "pending"]
  /\ snapshot' = [snapshot EXCEPT ![r] = version[Target[r]]]
  /\ UNCHANGED <<exec, claimed, age, jobVars, workerVars, rowLock,
                 resourceVars, effectVars, boundVars>>

(* Mutant: the approval commits without its job *)
DecideWithoutJob(r, u, decision) ==
  /\ status[r] = "pending"
  /\ u = RunActor[r]
  /\ status' = [status EXCEPT ![r] = decision]
  /\ exec' = [exec EXCEPT ![r] = IF decision = "approved" THEN "queued" ELSE @]
  /\ UNCHANGED <<claimed, age, snapshot, jobVars, workerVars, rowLock,
                 resourceVars, effectVars, boundVars>>

(* decideAndEnqueueApprovalRequest: the decision and, on approval, the job.  The
   session was checked before this transaction, so the tenant may have been
   suspended (and its sessions revoked) in the meantime. *)
Decide(r, u, decision) ==
  /\ status[r] = "pending"
  /\ u = RunActor[r]
  /\ status' = [status EXCEPT ![r] = decision]
  /\ IF decision = "approved"
       THEN /\ exec' = [exec EXCEPT ![r] = "queued"]
            /\ queued' = [queued EXCEPT ![r] = TRUE]
       ELSE UNCHANGED <<exec, queued>>
  /\ UNCHANGED <<claimed, age, snapshot, attempts, wait, lockedBy, workerVars,
                 rowLock, resourceVars, effectVars, boundVars>>

----------------------------------------------------------------------------
(* The queue worker *)

(* get_job, then runInTaskScope: a job of an inactive tenant is a no-op that
   completes; otherwise the handler dispatches on the payload's kind. *)
TakeJob(w, r) ==
  /\ pc[w] = "idle"
  /\ Runnable(r)
  /\ attempts' = [attempts EXCEPT ![r] = @ + 1]
  /\ lockedBy' = [lockedBy EXCEPT ![r] = w]
  /\ cur' = [cur EXCEPT ![w] = r]
  /\ Goto(w, IF ~tenantActive THEN "complete"
             ELSE IF Destructive(r) THEN "lockRow" ELSE "claim")
  /\ UNCHANGED <<requestVars, queued, wait, err, rowLock, resourceVars,
                 effectVars, boundVars>>

(* complete_job deletes the job, whoever holds its lock by now *)
CompleteJob(w) ==
  /\ pc[w] = "complete"
  /\ queued' = [queued EXCEPT ![cur[w]] = FALSE]
  /\ lockedBy' = [lockedBy EXCEPT ![cur[w]] = NoWorker]
  /\ Finish(w)
  /\ UNCHANGED <<requestVars, attempts, wait, rowLock, resourceVars,
                 effectVars, boundVars>>

(* fail_job reschedules the job if this worker still holds its lock *)
FailJob(w) ==
  /\ pc[w] = "fail"
  /\ IF lockedBy[cur[w]] = w
       THEN /\ lockedBy' = [lockedBy EXCEPT ![cur[w]] = NoWorker]
            /\ wait' = [wait EXCEPT ![cur[w]] = Backoff(attempts[cur[w]])]
       ELSE UNCHANGED <<lockedBy, wait>>
  /\ Finish(w)
  /\ UNCHANGED <<requestVars, queued, attempts, rowLock, resourceVars,
                 effectVars, boundVars>>

----------------------------------------------------------------------------
(* handleApprovalRequestExecuteTask, mcpInvoke payloads *)

ClaimExecution(w) ==
  /\ pc[w] = "claim"
  /\ IF Claimable(cur[w])
       THEN /\ claimed' = [claimed EXCEPT ![cur[w]] = TRUE]
            /\ age' = [age EXCEPT ![cur[w]] = 0]
            /\ Goto(w, "resolve")
       ELSE Goto(w, "settle") /\ UNCHANGED <<claimed, age>>
  /\ UNCHANGED <<status, exec, snapshot, jobVars, cur, err, rowLock,
                 resourceVars, effectVars, boundVars>>

(* settleStaleApprovalRequestClaim: its UPDATE *)
SettleStaleClaim(w) ==
  /\ pc[w] = "settle"
  /\ IF StaleClaim(cur[w])
       THEN /\ exec' = [exec EXCEPT ![cur[w]] = "conflict"]
            /\ Goto(w, "complete")
       ELSE Goto(w, "verdict") /\ UNCHANGED exec
  /\ UNCHANGED <<status, claimed, age, snapshot, jobVars, cur, err, rowLock,
                 resourceVars, effectVars, boundVars>>

(* Mutant: a delivery that finds the claim in flight completes its job *)
VerdictWithoutRetry(w) ==
  /\ pc[w] = "verdict"
  /\ Goto(w, "complete")
  /\ UNCHANGED <<requestVars, jobVars, cur, err, rowLock, resourceVars,
                 effectVars, boundVars>>

(* settleStaleApprovalRequestClaim: its re-read; "in_flight" throws *)
SettlementVerdict(w) ==
  /\ pc[w] = "verdict"
  /\ Goto(w, IF exec[cur[w]] = "queued" /\ claimed[cur[w]]
             THEN "fail" ELSE "complete")
  /\ UNCHANGED <<requestVars, jobVars, cur, err, rowLock, resourceVars,
                 effectVars, boundVars>>

(* resolveGrantedMcpTool at execution time *)
ResolveGrantedMcpTool(w) ==
  /\ pc[w] = "resolve"
  /\ Goto(w, IF granted[cur[w]] THEN "call" ELSE "record")
  /\ err' = [err EXCEPT ![w] = ~granted[cur[w]]]
  /\ UNCHANGED <<requestVars, jobVars, cur, rowLock, resourceVars, effectVars,
                 boundVars>>

(* executeMcpInvocation: the tool may run and still answer with an error (a
   timeout, isError), and never runs when the connection fails. *)
ExecuteMcpInvocation(w) ==
  /\ pc[w] = "call"
  /\ \E ran, error \in BOOLEAN :
       /\ ran \/ error
       /\ calls' = [calls EXCEPT ![cur[w]] = IF ran THEN @ + 1 ELSE @]
       /\ err' = [err EXCEPT ![w] = error]
  /\ Goto(w, "record")
  /\ UNCHANGED <<requestVars, jobVars, cur, rowLock, resourceVars, mutations,
                 seen, boundVars>>

(* Mutant: the outcome is written whatever the row says by now *)
RecordUnguarded(w) ==
  /\ pc[w] = "record"
  /\ exec' = [exec EXCEPT ![cur[w]] = IF err[w] THEN "conflict" ELSE "succeeded"]
  /\ Goto(w, "complete")
  /\ UNCHANGED <<status, claimed, age, snapshot, jobVars, cur, err, rowLock,
                 resourceVars, effectVars, boundVars>>

(* Mutant: an outcome that reports an error is recorded as succeeded *)
RecordSuccess(w) ==
  /\ pc[w] = "record"
  /\ exec' = IF exec[cur[w]] = "queued"
               THEN [exec EXCEPT ![cur[w]] = "succeeded"] ELSE exec
  /\ Goto(w, "complete")
  /\ UNCHANGED <<status, claimed, age, snapshot, jobVars, cur, err, rowLock,
                 resourceVars, effectVars, boundVars>>

(* recordApprovalRequestOutcome: discarded when the row is no longer queued *)
RecordOutcome(w) ==
  /\ pc[w] = "record"
  /\ exec' = IF exec[cur[w]] = "queued"
               THEN [exec EXCEPT ![cur[w]] =
                       IF err[w] THEN "conflict" ELSE "succeeded"]
               ELSE exec
  /\ Goto(w, "complete")
  /\ UNCHANGED <<status, claimed, age, snapshot, jobVars, cur, err, rowLock,
                 resourceVars, effectVars, boundVars>>

----------------------------------------------------------------------------
(* replayApprovedGenericOperation *)

(* Mutant: the row is read without FOR UPDATE *)
ReadRequestRow(w) ==
  /\ pc[w] = "lockRow"
  /\ UNCHANGED rowLock
  /\ Goto(w, IF exec[cur[w]] \in Terminal THEN "complete"
             ELSE IF status[cur[w]] = "approved" /\ exec[cur[w]] = "queued"
             THEN "project" ELSE "fail")
  /\ UNCHANGED <<requestVars, jobVars, cur, err, resourceVars, effectVars,
                 boundVars>>

(* SELECT ... FOR UPDATE of the request, and the early exits on its status *)
LockRequestRow(w) ==
  /\ pc[w] = "lockRow"
  /\ rowLock[cur[w]] = NoWorker
  /\ IF exec[cur[w]] \in Terminal
       THEN Goto(w, "complete") /\ UNCHANGED rowLock
       ELSE IF status[cur[w]] = "approved" /\ exec[cur[w]] = "queued"
              THEN /\ rowLock' = [rowLock EXCEPT ![cur[w]] = w]
                   /\ Goto(w, "project")
              ELSE Goto(w, "fail") /\ UNCHANGED rowLock
  /\ UNCHANGED <<requestVars, jobVars, cur, err, resourceVars, effectVars,
                 boundVars>>

(* Revalidate provenance, authorisation and snapshot; a failure terminalizes
   the row as conflict and commits. *)
RevalidateResource(w) ==
  /\ pc[w] = "project"
  /\ IF Revalidates(cur[w])
       THEN Goto(w, "mutate") /\ UNCHANGED <<exec, claimed, rowLock>>
       ELSE /\ exec' = [exec EXCEPT ![cur[w]] = "conflict"]
            /\ claimed' = [claimed EXCEPT ![cur[w]] = TRUE]
            /\ rowLock' = [rowLock EXCEPT ![cur[w]] = NoWorker]
            /\ Goto(w, "complete")
  /\ UNCHANGED <<status, age, snapshot, jobVars, cur, err, resourceVars,
                 effectVars, boundVars>>

(* Mutant: the row is marked succeeded although the mutation refused *)
ExecuteUnchecked(w) ==
  LET r == cur[w]
      o == Target[cur[w]]
      live == resState[o] = "live"
  IN
  /\ pc[w] = "mutate"
  /\ exec' = [exec EXCEPT ![r] = "succeeded"]
  /\ claimed' = [claimed EXCEPT ![r] = TRUE]
  /\ rowLock' = [rowLock EXCEPT ![r] = NoWorker]
  /\ resState' = [resState EXCEPT ![o] = IF live THEN "deleted" ELSE @]
  /\ mutations' = [mutations EXCEPT ![r] = IF live THEN @ + 1 ELSE @]
  /\ seen' = [seen EXCEPT ![r] = IF live THEN version[o] ELSE @]
  /\ Goto(w, "complete")
  /\ UNCHANGED <<status, age, snapshot, jobVars, cur, err, version, granted,
                 tenantActive, calls, boundVars>>

(* The *WithClient mutation and the terminal write, in one commit.  Deleting an
   item that is gone succeeds without a write.  propertyDeleteWithClient deletes
   the paired property, then finds its own property locked and throws; as any
   ChokePointError, that terminalizes the row as conflict, and commits. *)
ExecuteDestructive(w) ==
  LET r == cur[w]
      o == Target[cur[w]]
      live == resState[o] = "live"
      gone == Kind[r] = "item.delete" /\ resState[o] = "deleted"
      torn == Kind[r] = "property.delete" /\ resState[o] = "locked"
  IN
  /\ pc[w] = "mutate"
  /\ exec' = [exec EXCEPT ![r] = IF live \/ gone THEN "succeeded" ELSE "conflict"]
  /\ claimed' = [claimed EXCEPT ![r] = TRUE]
  /\ rowLock' = [rowLock EXCEPT ![r] = NoWorker]
  /\ resState' = [resState EXCEPT ![o] = IF live THEN "deleted"
                                        ELSE IF torn THEN "lone" ELSE @]
  /\ IF live \/ torn
       THEN /\ mutations' = [mutations EXCEPT ![r] = @ + 1]
            /\ seen' = [seen EXCEPT ![r] = version[o]]
       ELSE UNCHANGED <<mutations, seen>>
  /\ Goto(w, "complete")
  /\ UNCHANGED <<status, age, snapshot, jobVars, cur, err, version, granted,
                 tenantActive, calls, boundVars>>

----------------------------------------------------------------------------
(* Failures, time and the rest of the system *)

ReleaseRowLocks(w) ==
  rowLock' = [r \in Requests |-> IF rowLock[r] = w THEN NoWorker ELSE rowLock[r]]

(* A query rejects: the open transaction rolls back and the handler throws.  At
   the label that follows a commit, it is the commit's answer that is lost. *)
InfrastructureError(w) ==
  /\ pc[w] \notin {"idle", "fail"}
  /\ failures < MaxFailures
  /\ failures' = failures + 1
  /\ ReleaseRowLocks(w)
  /\ Goto(w, "fail")
  /\ UNCHANGED <<requestVars, jobVars, cur, err, resourceVars, effectVars,
                 edits, suspensions>>

(* The process dies: its transaction rolls back, its job stays locked *)
Crash(w) ==
  /\ pc[w] # "idle"
  /\ failures < MaxFailures
  /\ failures' = failures + 1
  /\ ReleaseRowLocks(w)
  /\ Finish(w)
  /\ UNCHANGED <<requestVars, jobVars, resourceVars, effectVars, edits,
                 suspensions>>

(* graphile-worker frees the job of a worker that is gone *)
OrphanLockExpires(r) ==
  /\ lockedBy[r] # NoWorker
  /\ cur[lockedBy[r]] # r
  /\ lockedBy' = [lockedBy EXCEPT ![r] = NoWorker]
  /\ UNCHANGED <<requestVars, queued, attempts, wait, workerVars, rowLock,
                 resourceVars, effectVars, boundVars>>

(* graphile-worker frees a job whose delivery outlived the lock: the job can be
   delivered again while the first delivery still runs. *)
LockOutlived(r) ==
  /\ lockedBy[r] # NoWorker
  /\ cur[lockedBy[r]] = r
  /\ failures < MaxFailures
  /\ failures' = failures + 1
  /\ lockedBy' = [lockedBy EXCEPT ![r] = NoWorker]
  /\ UNCHANGED <<requestVars, queued, attempts, wait, workerVars, rowLock,
                 resourceVars, effectVars, edits, suspensions>>

Ageing(r) == claimed[r] /\ exec[r] = "queued" /\ age[r] <= StaleAfter

Tick ==
  /\ \E r \in Requests : wait[r] > 0 \/ Ageing(r)
  /\ age' = [r \in Requests |-> IF Ageing(r) THEN age[r] + 1 ELSE age[r]]
  /\ wait' = [r \in Requests |-> IF wait[r] > 0 THEN wait[r] - 1 ELSE 0]
  /\ UNCHANGED <<status, exec, claimed, snapshot, queued, attempts, lockedBy,
                 workerVars, rowLock, resourceVars, effectVars, boundVars>>

(* Another writer edits, locks, archives or deletes the resource *)
ChangeResource(o, s) ==
  /\ resState[o] # "deleted"
  /\ s # "lone"
  /\ edits < MaxEdits
  /\ edits' = edits + 1
  /\ resState' = [resState EXCEPT ![o] = s]
  /\ version' = [version EXCEPT ![o] = @ + 1]
  /\ UNCHANGED <<requestVars, jobVars, workerVars, rowLock, granted,
                 tenantActive, effectVars, failures, suspensions>>

(* The grant is revoked or given back, the registration or server toggled *)
ToggleGrant(r) ==
  /\ ~Destructive(r)
  /\ edits < MaxEdits
  /\ edits' = edits + 1
  /\ granted' = [granted EXCEPT ![r] = ~@]
  /\ UNCHANGED <<requestVars, jobVars, workerVars, rowLock, resState, version,
                 tenantActive, effectVars, failures, suspensions>>

SuspendTenant ==
  /\ tenantActive
  /\ suspensions < MaxSuspensions
  /\ suspensions' = suspensions + 1
  /\ tenantActive' = FALSE
  /\ UNCHANGED <<requestVars, jobVars, workerVars, rowLock, resState, version,
                 granted, effectVars, failures, edits>>

ReactivateTenant ==
  /\ ~tenantActive
  /\ tenantActive' = TRUE
  /\ UNCHANGED <<requestVars, jobVars, workerVars, rowLock, resState, version,
                 granted, effectVars, boundVars>>

----------------------------------------------------------------------------
WorkerStep(w) ==
  \/ CompleteJob(w) \/ FailJob(w)
  \/ ClaimExecution(w) \/ SettleStaleClaim(w) \/ SettlementVerdict(w)
  \/ ResolveGrantedMcpTool(w) \/ ExecuteMcpInvocation(w) \/ RecordOutcome(w)
  \/ LockRequestRow(w) \/ RevalidateResource(w) \/ ExecuteDestructive(w)

RequestStep(r) ==
  \/ ResolveMcpInvocation(r)
  \/ CreatePendingMcpRequest(r)
  \/ PreflightDestructiveApproval(r)
  \/ \E u \in Users, d \in {"approved", "rejected"} : Decide(r, u, d)

Environment ==
  \/ \E w \in Workers : InfrastructureError(w) \/ Crash(w)
  \/ \E r \in Requests : LockOutlived(r) \/ ToggleGrant(r)
  \/ \E o \in Resources, s \in ResourceStates : ChangeResource(o, s)
  \/ SuspendTenant
  \/ ReactivateTenant

Next ==
  \/ \E r \in Requests : RequestStep(r) \/ OrphanLockExpires(r)
  \/ \E w \in Workers : WorkerStep(w) \/ \E r \in Requests : TakeJob(w, r)
  \/ Tick
  \/ Environment

Spec == Init /\ [][Next]_vars

(* A running handler goes on, the queue serves every runnable job, expired
   locks are released and time passes.  Nobody has to ask or decide. *)
Fairness ==
  /\ \A w \in Workers : WF_vars(WorkerStep(w))
  /\ \A r \in Requests : SF_vars(\E w \in Workers : TakeJob(w, r))
  /\ \A r \in Requests : WF_vars(OrphanLockExpires(r))
  /\ WF_vars(Tick)
  /\ WF_vars(ReactivateTenant)

FairSpec == Spec /\ Fairness

----------------------------------------------------------------------------
(* The contract this implements *)

(* An executed effect shows in the history counters; a decision and an outcome
   are columns of the row. *)
decisionOf == [r \in Requests |-> IF status[r] \in {"approved", "rejected"}
                                  THEN status[r] ELSE "none"]
effectsOf == [r \in Requests |-> calls[r] + mutations[r]]
outcomeOf == [r \in Requests |-> IF exec[r] \in Terminal THEN exec[r] ELSE "open"]

Contract == INSTANCE ApprovalContract WITH
  decision <- decisionOf, effects <- effectsOf, outcome <- outcomeOf

(* Every behaviour of the claim-and-record and lock-and-replay protocols is one
   the contract allows. *)
ImplementsContract == Contract!Spec

----------------------------------------------------------------------------
(* Properties *)

TypeOK ==
  /\ status \in [Requests -> Statuses]
  /\ exec \in [Requests -> ExecutionStatuses]
  /\ claimed \in [Requests -> BOOLEAN]
  /\ age \in [Requests -> Nat]
  /\ snapshot \in [Requests -> Nat]
  /\ queued \in [Requests -> BOOLEAN]
  /\ attempts \in [Requests -> Nat]
  /\ wait \in [Requests -> Nat]
  /\ lockedBy \in [Requests -> Workers \cup {NoWorker}]
  /\ pc \in [Workers -> Pcs]
  /\ cur \in [Workers -> Requests \cup {NoRequest}]
  /\ \A w \in Workers : pc[w] # "idle" => cur[w] \in Requests
  /\ err \in [Workers -> BOOLEAN]
  /\ rowLock \in [Requests -> Workers \cup {NoWorker}]
  /\ resState \in [Resources -> ResourceStates]
  /\ version \in [Resources -> Nat]
  /\ granted \in [Requests -> BOOLEAN]
  /\ tenantActive \in BOOLEAN
  /\ calls \in [Requests -> Nat]
  /\ mutations \in [Requests -> Nat]
  /\ seen \in [Requests -> Nat]
  /\ failures \in Nat /\ edits \in Nat /\ suspensions \in Nat

(* However often the job is redelivered, and wherever a delivery dies, the
   approved tool is run at most once and the approved mutation is applied at
   most once, and neither without an approval. *)
AtMostOnce ==
  \A r \in Requests :
    /\ calls[r] + mutations[r] <= 1
    /\ calls[r] + mutations[r] = 1 => status[r] = "approved"

(* What a settled row says about the effect: a row that says succeeded has its
   tool call or mutation behind it, or names an item that is gone. *)
OutcomeIsTrue ==
  \A r \in Requests :
    exec[r] = "succeeded" =>
      \/ calls[r] + mutations[r] = 1
      \/ Kind[r] = "item.delete" /\ resState[Target[r]] = "deleted"

(* A destructive request that ended in conflict changed nothing. *)
ConflictChangesNothing ==
  \A r \in Requests : exec[r] = "conflict" => mutations[r] = 0

(* While the tenant stays active, an approved request that is not settled
   still has a job that can be delivered. *)
ApprovedIsNotStranded ==
  \A r \in Requests :
    exec[r] = "queued" =>
      queued[r] /\ (attempts[r] < MaxAttempts \/ lockedBy[r] # NoWorker)

(* decideAndEnqueueApprovalRequest promises that an approved request is
   executed: its row reaches a terminal execution status. *)
ApprovedIsSettled ==
  \A r \in Requests : exec[r] = "queued" ~> exec[r] \in Terminal

----------------------------------------------------------------------------
(* The inductive invariant behind AtMostOnce *)

ClaimLabels == {"claim", "settle", "verdict", "resolve", "call", "record"}
ReplayLabels == {"lockRow", "project", "mutate"}

(* A delivery is in the part of the handler its request's kind belongs to *)
PathOK ==
  \A w \in Workers :
    /\ pc[w] \in ClaimLabels => ~Destructive(cur[w])
    /\ pc[w] \in ReplayLabels => Destructive(cur[w])

(* A delivery that may still run the tool holds the claim of a request whose
   tool has not run, and no other delivery is in that position. *)
ClaimHolder(w) == pc[w] \in {"resolve", "call"}

ClaimIsExclusive ==
  /\ \A w \in Workers :
       ClaimHolder(w) => claimed[cur[w]] /\ calls[cur[w]] = 0
  /\ \A v, w \in Workers :
       ClaimHolder(v) /\ ClaimHolder(w) /\ v # w => cur[v] # cur[w]

(* A delivery inside the replay transaction holds the row of a queued request *)
RowLockIsHeld ==
  \A w \in Workers :
    pc[w] \in {"project", "mutate"} =>
      rowLock[cur[w]] = w /\ exec[cur[w]] = "queued"

(* What an approval, a claim and an effect leave on the row *)
EffectsAreRecorded ==
  \A r \in Requests :
    /\ exec[r] # "not_approved" => status[r] = "approved"
    /\ claimed[r] => exec[r] # "not_approved"
    /\ calls[r] # 0 => ~Destructive(r) /\ claimed[r] /\ calls[r] = 1
    /\ mutations[r] # 0 => Destructive(r) /\ exec[r] \in Terminal /\ mutations[r] = 1
    /\ exec[r] = "succeeded" /\ ~Destructive(r) => calls[r] = 1

(* A delivery that brings back a result has run the tool *)
ResultsAreReal ==
  \A w \in Workers : pc[w] = "record" /\ ~err[w] => calls[cur[w]] = 1

IndInv ==
  /\ TypeOK
  /\ PathOK
  /\ ClaimIsExclusive
  /\ RowLockIsHeld
  /\ EffectsAreRecorded
  /\ ResultsAreReal
=============================================================================
