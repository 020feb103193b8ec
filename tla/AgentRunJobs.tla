---------------------------- MODULE AgentRunJobs ----------------------------
(***************************************************************************)
(* The jobs of the agents process that drive an agent run: an agentRun     *)
(* job, whose agent_runs row exists before the job, and the fires of one   *)
(* heartbeat occurrence, where coreAgentRunAction opens a row for every    *)
(* attempt.  Beside them the listener that aborts the runs of a tenant     *)
(* that is deactivated, the startup repair of a restarted process, and a   *)
(* job whose lock went stale while its first worker still runs it.         *)
(***************************************************************************)
EXTENDS Naturals, FiniteSets

CONSTANTS
    JobWorkers,      \* executions of the job that can be under way
    MaxAttempts,     \* attempts the queue gives the job
    MaxRunFaults,    \* failed writes, crashes and stale locks
    MaxDeactivations,
    NoRun

ASSUME JobsAssumption ==
    /\ MaxAttempts \in Nat \ {0} /\ MaxRunFaults \in Nat /\ MaxDeactivations \in Nat
    /\ NoRun \notin Nat

VARIABLES
    kind,        \* "agentRun" or "heartbeat"
    row,         \* agent_runs.status, "none" before the row exists
    said,        \* the last run_status event of the run
    notices,     \* agent_run_error notifications of the run
    job,         \* the queue's row: its state and the attempts used
    exec,        \* what each worker does
    tenant,      \* tenants.status: active or not
    listener,    \* the LISTEN connection of the process
    signal,      \* a notification Postgres holds for that connection
    runFaults, restarts, deactivations

jobVars == <<kind, row, said, notices, job, exec, tenant, listener, signal,
             runFaults, restarts, deactivations>>

RunIds == 1 .. MaxAttempts
Resting == [pc |-> "none", run |-> NoRun, try |-> 0, aborted |-> FALSE]
(* Between register and unregister the controller is in the registry.      *)
Registered(w) == exec[w].pc \in {"reading", "checking", "composing", "claiming", "turn",
                                 "closing", "failing"}
RunFault == runFaults < MaxRunFaults /\ runFaults' = runFaults + 1
Goto(w, pc) == exec' = [exec EXCEPT ![w].pc = pc]

RunsInit ==
    /\ kind \in {"agentRun", "heartbeat"}
    /\ row = [r \in RunIds |-> IF kind = "agentRun" /\ r = 1 THEN "running" ELSE "none"]
    /\ said = [r \in RunIds |-> "none"]
    /\ notices = [r \in RunIds |-> 0]
    /\ job = [state |-> "queued", attempts |-> 0]
    /\ exec = [w \in JobWorkers |-> Resting]
    /\ tenant = "active" /\ listener = "up" /\ signal = FALSE
    /\ runFaults = 0 /\ restarts = 0 /\ deactivations = 0

-----------------------------------------------------------------------------
(* A worker takes the job; runInTaskScope completes the job of an inactive *)
(* tenant without calling the handler.                                     *)
TakeJob(w) ==
    /\ listener # "dead" /\ exec[w].pc = "none" /\ job.state = "queued"
    /\ IF tenant # "active"
       THEN job' = [job EXCEPT !.state = "gone"] /\ UNCHANGED exec
       ELSE /\ job' = [state |-> "locked", attempts |-> job.attempts + 1]
            /\ exec' = [exec EXCEPT ![w] = [pc |-> "opening", run |-> NoRun,
                                            try |-> job.attempts + 1, aborted |-> FALSE]]
    /\ UNCHANGED <<kind, row, said, notices, tenant, listener, signal, runFaults, restarts, deactivations>>

(* Graphile Worker gives the job away again once its lock is 4 hours old,  *)
(* whether or not the worker that holds it is alive.                       *)
LockGoesStale ==
    /\ job.state = "locked" /\ job.attempts < MaxAttempts
    /\ job' = [job EXCEPT !.state = "queued"]
    /\ IF \E w \in JobWorkers : exec[w].pc # "none" THEN RunFault ELSE UNCHANGED runFaults
    /\ UNCHANGED <<kind, row, said, notices, exec, tenant, listener, signal, restarts, deactivations>>

(* coreAgentRunAction opens a row for the attempt; an agentRun job has its *)
(* row already.  Then the controller is registered.                        *)
OpenRun(w) ==
    /\ exec[w].pc = "opening"
    /\ LET r == IF kind = "agentRun" THEN 1 ELSE exec[w].try
       IN  /\ exec' = [exec EXCEPT ![w].pc = "reading", ![w].run = r]
           /\ row' = IF kind = "heartbeat" THEN [row EXCEPT ![r] = "running"] ELSE row
    /\ UNCHANGED <<kind, said, notices, job, tenant, listener, signal, runFaults, restarts, deactivations>>

(* The status is read after the registration: an earlier deactivation is   *)
(* seen here, a later one reaches the registered controller.               *)
WithInFlightRegistration(w) ==
    /\ exec[w].pc = "reading"
    /\ exec' = [exec EXCEPT ![w].pc = "checking", ![w].aborted = @ \/ tenant # "active"]
    /\ UNCHANGED <<kind, row, said, notices, job, tenant, listener, signal, runFaults, restarts, deactivations>>

(* A job that ends without an error is deleted, unless another worker took *)
(* it over; a failed one is queued again while attempts are left.          *)
JobEnds(w, ok) ==
    /\ exec' = [exec EXCEPT ![w] = Resting]
    /\ job' = IF job.state # "locked" \/ job.attempts # exec[w].try THEN job
              ELSE [job EXCEPT !.state = IF ok \/ job.attempts = MaxAttempts THEN "gone" ELSE "queued"]

(* A job for a run that is no longer running is a no-op.                   *)
CheckRun(w) ==
    /\ exec[w].pc = "checking"
    /\ IF kind = "agentRun" /\ row[exec[w].run] # "running"
       THEN JobEnds(w, TRUE)
       ELSE Goto(w, "composing") /\ UNCHANGED job
    /\ UNCHANGED <<kind, row, said, notices, tenant, listener, signal, runFaults, restarts, deactivations>>

ComposeSession(w) ==
    /\ exec[w].pc = "composing"
    /\ \/ Goto(w, "claiming") /\ UNCHANGED runFaults
       \/ RunFault /\ Goto(w, "failing")
    /\ UNCHANGED <<kind, row, said, notices, job, tenant, listener, signal, restarts, deactivations>>

(* claimRunningRun records the running status only while the row is        *)
(* running, under its lock; a heartbeat's session records it unguarded.    *)
ClaimRunningRun(w) ==
    /\ exec[w].pc = "claiming"
    /\ IF kind = "agentRun" /\ row[exec[w].run] # "running"
       THEN JobEnds(w, TRUE) /\ UNCHANGED said
       ELSE /\ said' = [said EXCEPT ![exec[w].run] = "running"]
            /\ Goto(w, "turn") /\ UNCHANGED job
    /\ UNCHANGED <<kind, row, notices, tenant, listener, signal, runFaults, restarts, deactivations>>

(* The stream ends, or fails: an event for a run that another writer       *)
(* closed is refused.  A hung session never gets here.                     *)
RunAgentTurn(w) ==
    /\ exec[w].pc = "turn"
    /\ \/ ~exec[w].aborted /\ row[exec[w].run] = "running" /\ Goto(w, "closing") /\ UNCHANGED runFaults
       \/ row[exec[w].run] # "running" /\ Goto(w, "failing") /\ UNCHANGED runFaults
       \/ RunFault /\ Goto(w, "failing")
    /\ UNCHANGED <<kind, row, said, notices, job, tenant, listener, signal, restarts, deactivations>>

(* An abort wins the race against the session's next message, whether or   *)
(* not that message ever comes.                                            *)
CancelTurn(w) ==
    /\ exec[w].pc = "turn" /\ exec[w].aborted
    /\ Goto(w, "failing")
    /\ UNCHANGED <<kind, row, said, notices, job, tenant, listener, signal, runFaults, restarts, deactivations>>

(* runAgentSessionForRun: the terminal status and its event commit         *)
(* together, and only the call that closed the row writes the event.       *)
CloseDone(w) ==
    /\ kind = "agentRun" /\ exec[w].pc = "closing"
    /\ \/ /\ IF row[exec[w].run] = "running"
             THEN /\ row' = [row EXCEPT ![exec[w].run] = "done"]
                  /\ said' = [said EXCEPT ![exec[w].run] = "done"]
             ELSE UNCHANGED <<row, said>>
          /\ JobEnds(w, TRUE) /\ UNCHANGED runFaults
       \/ RunFault /\ Goto(w, "failing") /\ UNCHANGED <<row, said, job>>
    /\ UNCHANGED <<kind, notices, tenant, listener, signal, restarts, deactivations>>

(* The error path of an agentRun job: the session's, or closeUncomposedRun *)
(* when there was no session.  A failed close leaves the row running.      *)
CloseError(w) ==
    /\ kind = "agentRun" /\ exec[w].pc = "failing"
    /\ \/ /\ IF row[exec[w].run] = "running"
             THEN /\ row' = [row EXCEPT ![exec[w].run] = "error"]
                  /\ said' = [said EXCEPT ![exec[w].run] = "error"]
                  /\ notices' = [notices EXCEPT ![exec[w].run] = @ + 1]
             ELSE UNCHANGED <<row, said, notices>>
          /\ UNCHANGED runFaults
       \/ RunFault /\ UNCHANGED <<row, said, notices>>
    /\ JobEnds(w, FALSE)
    /\ UNCHANGED <<kind, tenant, listener, signal, restarts, deactivations>>

(* runHeartbeatSession writes the terminal event itself, whatever the row  *)
(* says; coreAgentRunAction closes the row afterwards.                     *)
SayOutcome(w) ==
    /\ kind = "heartbeat" /\ exec[w].pc \in {"closing", "failing"}
    /\ LET ok == exec[w].pc = "closing" IN
       \/ /\ said' = [said EXCEPT ![exec[w].run] = IF ok THEN "done" ELSE "error"]
          /\ Goto(w, IF ok THEN "saidDone" ELSE "saidError")
          /\ UNCHANGED runFaults
       \/ /\ RunFault /\ Goto(w, IF ok THEN "failing" ELSE "saidError")
          /\ UNCHANGED said
    /\ UNCHANGED <<kind, row, notices, job, tenant, listener, signal, restarts, deactivations>>

CloseHeartbeatRun(w) ==
    /\ kind = "heartbeat" /\ exec[w].pc = "saidDone"
    /\ \/ /\ row' = [row EXCEPT ![exec[w].run] = IF @ = "running" THEN "done" ELSE @]
          /\ JobEnds(w, TRUE) /\ UNCHANGED runFaults
       \/ RunFault /\ Goto(w, "saidError") /\ UNCHANGED <<row, job>>
    /\ UNCHANGED <<kind, said, notices, tenant, listener, signal, restarts, deactivations>>

(* Only the final attempt of the occurrence notifies.                      *)
FailHeartbeatRun(w) ==
    /\ kind = "heartbeat" /\ exec[w].pc = "saidError"
    /\ \/ /\ row' = [row EXCEPT ![exec[w].run] = IF @ = "running" THEN "error" ELSE @]
          /\ notices' = IF row[exec[w].run] = "running" /\ exec[w].try = MaxAttempts
                        THEN [notices EXCEPT ![exec[w].run] = @ + 1] ELSE notices
          /\ UNCHANGED runFaults
       \/ RunFault /\ UNCHANGED <<row, notices>>
    /\ JobEnds(w, FALSE)
    /\ UNCHANGED <<kind, said, tenant, listener, signal, restarts, deactivations>>

-----------------------------------------------------------------------------
(* An administrator suspends the tenant: the notification is queued in the *)
(* same transaction for every connection that listens.                     *)
Deactivate ==
    /\ tenant = "active" /\ deactivations < MaxDeactivations
    /\ tenant' = "suspended" /\ deactivations' = deactivations + 1
    /\ signal' = (listener \in {"up", "setup", "synced"})
    /\ UNCHANGED <<kind, row, said, notices, job, exec, listener, runFaults, restarts>>

Reactivate ==
    /\ tenant = "suspended" /\ tenant' = "active"
    /\ UNCHANGED <<kind, row, said, notices, job, exec, listener, signal, runFaults, restarts, deactivations>>

AbortTenant == exec' = [w \in JobWorkers |->
                          IF Registered(w) THEN [exec[w] EXCEPT !.aborted = TRUE] ELSE exec[w]]

DispatchDeactivation ==
    /\ listener = "up" /\ signal
    /\ signal' = FALSE /\ AbortTenant
    /\ UNCHANGED <<kind, row, said, notices, job, tenant, listener, runFaults, restarts, deactivations>>

(* The connection drops, and with it what it had not delivered.            *)
ListenerDrops ==
    /\ listener \in {"up", "setup", "synced"} /\ RunFault
    /\ listener' = "down" /\ signal' = FALSE
    /\ UNCHANGED <<kind, row, said, notices, job, exec, tenant, restarts, deactivations>>

(* connect() listens first and reads the inactive tenants afterwards; the  *)
(* notifications of the time between are buffered and replayed by attach.  *)
Listen ==
    /\ listener = "down" /\ listener' = "setup"
    /\ UNCHANGED <<kind, row, said, notices, job, exec, tenant, signal, runFaults, restarts, deactivations>>

Resync ==
    /\ listener = "setup" /\ listener' = "synced"
    /\ signal' = (signal \/ tenant # "active")
    /\ UNCHANGED <<kind, row, said, notices, job, exec, tenant, runFaults, restarts, deactivations>>

Attach ==
    /\ listener = "synced" /\ listener' = "up" /\ signal' = FALSE
    /\ IF signal THEN AbortTenant ELSE UNCHANGED exec
    /\ UNCHANGED <<kind, row, said, notices, job, tenant, runFaults, restarts, deactivations>>

(* The process dies: its sessions and its registry are gone, the job stays *)
(* locked until the lock is stale.                                         *)
ProcessDies ==
    /\ listener # "dead" /\ RunFault
    /\ exec' = [w \in JobWorkers |-> Resting]
    /\ listener' = "dead" /\ signal' = FALSE
    /\ UNCHANGED <<kind, row, said, notices, job, tenant, restarts, deactivations>>

(* repairInterruptedRuns closes every running row of an active tenant      *)
(* before the queue starts; it writes no run_status event.                 *)
RepairInterruptedRuns ==
    /\ listener = "dead"
    /\ listener' = "down" /\ restarts' = restarts + 1
    /\ IF tenant = "active"
       THEN /\ row' = [r \in RunIds |-> IF row[r] = "running" THEN "error" ELSE row[r]]
            /\ notices' = [r \in RunIds |-> IF row[r] = "running" THEN notices[r] + 1 ELSE notices[r]]
       ELSE UNCHANGED <<row, notices>>
    /\ UNCHANGED <<kind, said, job, exec, tenant, signal, runFaults, deactivations>>

-----------------------------------------------------------------------------
JobStep(w) ==
    \/ TakeJob(w) \/ OpenRun(w) \/ WithInFlightRegistration(w) \/ CheckRun(w) \/ ComposeSession(w)
    \/ ClaimRunningRun(w) \/ CancelTurn(w) \/ CloseDone(w) \/ CloseError(w)
    \/ SayOutcome(w) \/ CloseHeartbeatRun(w) \/ FailHeartbeatRun(w)
ListenerStep == DispatchDeactivation \/ Listen \/ Resync \/ Attach \/ RepairInterruptedRuns

RunsNext ==
    \/ \E w \in JobWorkers : JobStep(w) \/ RunAgentTurn(w)
    \/ ListenerStep
    \/ LockGoesStale \/ Deactivate \/ Reactivate \/ ListenerDrops \/ ProcessDies

RunsSpec ==
    /\ RunsInit /\ [][RunsNext]_jobVars
    /\ \A w \in JobWorkers : WF_jobVars(JobStep(w))
    /\ WF_jobVars(ListenerStep)

-----------------------------------------------------------------------------
-----------------------------------------------------------------------------
RunsTypeOK ==
    /\ kind \in {"agentRun", "heartbeat"}
    /\ row \in [RunIds -> {"none", "running", "done", "error"}]
    /\ said \in [RunIds -> {"none", "running", "done", "error"}]
    /\ notices \in [RunIds -> Nat]
    /\ job \in [state : {"queued", "locked", "gone"}, attempts : 0 .. MaxAttempts]
    /\ exec \in [JobWorkers -> [pc : {"none", "opening", "reading", "checking", "composing", "claiming",
                                      "turn", "closing", "failing", "saidDone", "saidError"},
                                run : RunIds \cup {NoRun}, try : 0 .. MaxAttempts, aborted : BOOLEAN]]
    /\ tenant \in {"active", "suspended"}
    /\ listener \in {"up", "down", "setup", "synced", "dead"} /\ signal \in BOOLEAN

(* A session of a suspended tenant is aborted already, or the signal that  *)
(* aborts it is on its way: in Postgres' queue, or in the resync that a    *)
(* listener without a connection does next.                                *)
NoMissedDeactivation ==
    tenant = "suspended" =>
        \A w \in JobWorkers :
            exec[w].pc \in {"checking", "composing", "claiming", "turn"} =>
                exec[w].aborted \/ signal \/ listener \in {"down", "setup"}

(* What a watcher of an agentRun job's run is told last about its end is   *)
(* what the row says, whichever of two workers closed it.                  *)
LastWordIsTrue ==
    kind = "agentRun" =>
        \A r \in RunIds : said[r] \in {"done", "error"} => row[r] = said[r]

(* The user is told of every agentRun that ended in an error, once.        *)
ErrorIsNotifiedOnce ==
    kind = "agentRun" => \A r \in RunIds : notices[r] = IF row[r] = "error" THEN 1 ELSE 0

(* A heartbeat occurrence that is retried yields at most one notification, *)
(* unless a restart repaired one of its attempts.                          *)
OneNoticePerOccurrence ==
    kind = "heartbeat" /\ restarts = 0 =>
        Cardinality({r \in RunIds : notices[r] > 0}) <= 1 /\ \A r \in RunIds : notices[r] <= 1

(* A run stays open without a worker or a queued job only after a fault: a *)
(* close that failed, a process that died, or a tenant suspended before    *)
(* the job was taken.                                                      *)
OnlyFaultsStrandRuns ==
    \A r \in RunIds :
        row[r] = "running" /\ job.state = "gone" /\ (\A w \in JobWorkers : exec[w].run # r)
            => runFaults > 0 \/ deactivations > 0

(* Once a tenant stays suspended, none of its sessions keeps running.      *)
SuspendedRunsEnded == tenant = "suspended" => \A w \in JobWorkers : exec[w].pc # "turn"
=============================================================================
