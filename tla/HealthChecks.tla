---------------------------- MODULE HealthChecks ----------------------------
(***************************************************************************)
(* The health checks of packages/data/src/observability: the every-minute  *)
(* job observabilityCheckSystem, the alerts it writes to the operators and *)
(* to a tenant's user, and the daily prune of the permanently failed jobs  *)
(* one of the checks looks at.                                             *)
(*                                                                         *)
(* A tick evaluates its families of checks in order.  Each check is one    *)
(* transaction: it takes the check's row, derives the new status from the  *)
(* previous one, and on a turn to `alerting` writes one notification per   *)
(* operator, each in a transaction of its own that commits first.          *)
(* A retried tick runs beside the next one: nothing keeps them apart.      *)
(*                                                                         *)
(* Out of the model: what a notification says, and the push that follows   *)
(* it (ServerPush).                                                        *)
(***************************************************************************)
EXTENDS Naturals, FiniteSets, Sequences

CONSTANTS
  Ticks,          \* jobs that may run at once, one job id each while they last
  Operators,      \* the admins of active tenants
  Families,       \* the checks of a tick, in the order it runs them
  MaxChanges,     \* bound: how often the observed system changes
  MaxAlertFaults  \* bound: failed writes and deaths of the worker

Checks == {"process", "backlog", "failed", "mail"}
Ended == "ended"  \* stands for every job that is over

ASSUME HealthAssumption ==
  /\ Families \in Seq(Checks) /\ Families # <<>>
  /\ MaxChanges \in Nat /\ MaxAlertFaults \in Nat
  /\ Ended \notin Ticks

VARIABLES
  world,     \* what the checks look at
  check,     \* the committed status of each check row
  tick,      \* the ticks: the family they are at, and how far into it
  told,      \* the notifications a tick's job has written: its dedupe keys
  notices,   \* per check and operator: notifications of the present fault
  rolled,    \* jobs whose turn of a row was undone after they may have notified
  excused,   \* checks for which the code's own comment allows a second notice
  pruning,   \* the prune transaction: none, or the failed job's row is its
  wasLow,    \* the queue has been low since the backlog was last alerted
  changes, alertFaults

hVars == <<world, check, tick, told, notices, rolled, excused, pruning, wasLow, changes, alertFaults>>

Worlds == [stale : BOOLEAN, level : {"low", "middle", "high"},
           job : {"none", "running", "failed", "old"}, error : BOOLEAN, account : BOOLEAN]

Statuses == {"missing", "ok", "alerting"}
CheckResting == [at |-> 1, doing |-> "rest", saw |-> "ok", was |-> "ok", to |-> {}, missed |-> FALSE]

HInit ==
  \* the first tick finds a backlog and a dead job
  /\ world = [stale |-> FALSE, level |-> "high", job |-> "failed", error |-> FALSE, account |-> TRUE]
  /\ check = [k \in Checks |-> "missing"]
  /\ tick = [t \in Ticks |-> CheckResting]
  /\ told = [t \in Ticks |-> {}]
  /\ notices = [k \in Checks |-> [o \in Operators |-> 0]]
  /\ rolled = [k \in Checks |-> {}]
  /\ excused = {}
  /\ pruning = "no" /\ wasLow = FALSE
  /\ changes = 0 /\ alertFaults = 0

Current(t) == Families[tick[t].at]
Doing(t, what) == tick[t].doing = what
\* FOR UPDATE locks a row that exists; a row that does not is only taken by the upsert.
HoldsRow(t, k) ==
  Current(t) = k /\ (Doing(t, "notify") \/ (Doing(t, "upsert") /\ tick[t].was # "missing"))
RowFree(k) == \A t \in Ticks : ~HoldsRow(t, k)
Enter(t, rest) == tick' = [tick EXCEPT ![t] = rest]
Forgiven(k) ==
  /\ notices' = [notices EXCEPT ![k] = [o \in Operators |-> 0]]
  /\ excused' = excused \ {k}

----------------------------------------------------------------------------
(* The observed system.                                                    *)

InUse(k) == \E i \in 1..Len(Families) : Families[i] = k
JobMoves == {<<"none", "running">>, <<"running", "none">>, <<"running", "failed">>, <<"failed", "old">>}

WorldChanges ==
  /\ changes < MaxChanges /\ changes' = changes + 1
  /\ \E w \in Worlds :
       /\ Cardinality({f \in DOMAIN w : w[f] # world[f] /\ (f = "error" => w.account)}) = 1
       /\ w.stale => InUse("process")
       /\ w.job # world.job => <<world.job, w.job>> \in JobMoves
       /\ ~w.account => ~w.error
       /\ world' = w
       /\ wasLow' = (wasLow \/ w.level = "low")
  /\ UNCHANGED <<check, tick, told, notices, rolled, excused, pruning, alertFaults>>

\* add_jobs on a dead job's key gives it new attempts; it waits for the row.
ReEnqueueDeadJob ==
  /\ world.job \in {"failed", "old"} /\ pruning # "held"
  /\ changes < MaxChanges /\ changes' = changes + 1
  /\ world' = [world EXCEPT !.job = "running"]
  /\ UNCHANGED <<check, tick, told, notices, rolled, excused, pruning, wasLow, alertFaults>>

----------------------------------------------------------------------------
(* What a check makes of what it saw.                                      *)

Saw(bad) == IF bad THEN "alerting" ELSE "ok"

\* computeQueueBacklogStatus: breached above the threshold, recovered below half of it.
ComputeQueueBacklogStatus(previous, level) ==
  IF previous = "alerting" THEN Saw(level # "low") ELSE Saw(level = "high")

\* A heartbeat older than its threshold: of a fixed process, or of a mailbox's.
StaleProcess == Saw(world.stale)

\* Neither a locked job counts nor one past its retention.
PermanentlyFailedJobs == Saw(world.job = "failed")

\* Overdue or in error; an account that is gone is in no listing.
MailSync == IF world.account THEN Saw(world.error) ELSE "absent"

QueueBacklogSnapshot == world.level

Observed(k) ==
  CASE k = "process" -> StaleProcess
    [] k = "backlog" -> QueueBacklogSnapshot
    [] k = "failed"  -> PermanentlyFailedJobs
    [] k = "mail"    -> MailSync

StatusFor(k, saw, previous) ==
  IF k = "backlog" THEN ComputeQueueBacklogStatus(previous, saw) ELSE saw

----------------------------------------------------------------------------
(* One tick.                                                               *)

JobForgotten(r, t) == [k \in Checks |-> IF t \in r[k] THEN (r[k] \ {t}) \cup {Ended} ELSE r[k]]

\* The job is over: its id, and with it its dedupe keys, never come back. `left` is what
\* its last step leaves of `rolled`.
EndsJob(t, left) ==
  /\ Enter(t, CheckResting)
  /\ told' = [told EXCEPT ![t] = {}]
  /\ rolled' = JobForgotten(left, t)

\* On to the next family, or the end of the tick.
Advance(t, left) ==
  IF tick[t].at = Len(Families)
  THEN EndsJob(t, left)
  ELSE /\ Enter(t, [CheckResting EXCEPT !.at = tick[t].at + 1, !.doing = "read"])
       /\ rolled' = left /\ UNCHANGED told

\* The crontab adds a job under a new id, or the queue retries a failed one under its own.
\* A tick is done within the minute (bound); a retry is not held up by the next tick.
StartTick(t) ==
  /\ Doing(t, "failed") \/ \A u \in Ticks : tick[u].doing \in {"rest", "failed"}
  /\ Enter(t, [CheckResting EXCEPT !.doing = "read"])
  /\ UNCHANGED <<world, check, told, notices, rolled, excused, pruning, wasLow, changes, alertFaults>>

\* The attempts of a failed job are used up.
GiveUpTick(t) ==
  /\ Doing(t, "failed")
  /\ EndsJob(t, rolled)
  /\ UNCHANGED <<world, check, notices, excused, pruning, wasLow, changes, alertFaults>>

ReadSources(t) ==
  /\ Doing(t, "read")
  /\ Enter(t, [tick[t] EXCEPT !.doing = IF Observed(Current(t)) = "absent" THEN "orphan" ELSE "lock",
                              !.saw = Observed(Current(t))])
  /\ UNCHANGED <<world, check, told, notices, rolled, excused, pruning, wasLow, changes, alertFaults>>

\* The mail pass drops the rows of accounts it did not see; it has no others to check.
DeleteOrphanedTenantChecks(t) ==
  /\ Doing(t, "orphan") /\ RowFree(Current(t))
  /\ check' = [check EXCEPT ![Current(t)] = "missing"]
  /\ Forgiven(Current(t))
  /\ Advance(t, [rolled EXCEPT ![Current(t)] = {}])
  /\ UNCHANGED <<world, pruning, wasLow, changes, alertFaults>>

\* SELECT status ... FOR UPDATE
LockCheckRow(t) ==
  /\ Doing(t, "lock")
  /\ check[Current(t)] = "missing" \/ RowFree(Current(t))
  /\ Enter(t, [tick[t] EXCEPT !.doing = "upsert", !.was = check[Current(t)]])
  /\ UNCHANGED <<world, check, told, notices, rolled, excused, pruning, wasLow, changes, alertFaults>>

\* A tick that overlaps another acts on a row, or a queue, that is no longer what it read.
Overtaken(t) ==
  \/ tick[t].was # check[Current(t)]
  \/ Current(t) = "backlog" /\ tick[t].saw # world.level

\* The upsert commits at once unless the row turns to alerting.
TransitionCheck(t) ==
  LET k == Current(t)
      status == StatusFor(k, tick[t].saw, tick[t].was)
  IN /\ Doing(t, "upsert")
     /\ \A u \in Ticks \ {t} : ~HoldsRow(u, k)
     /\ IF status = "alerting" /\ tick[t].was # "alerting"
        THEN /\ Enter(t, [tick[t] EXCEPT !.doing = "notify",
                                         !.to = IF k = "mail" THEN {} ELSE Operators])
             \* a later job alerts again for a turn that was undone; a retry whose first try
             \* alerted of a fault that is over has its notifications of this one deduplicated
             /\ excused' = IF \/ rolled[k] \ {t} # {} \/ Overtaken(t)
                              \/ t \notin rolled[k] /\ \E o \in Operators : <<k, o>> \in told[t]
                           THEN excused \cup {k} ELSE excused
             /\ UNCHANGED <<check, told, notices, rolled>>
        ELSE /\ check' = [check EXCEPT ![k] = status]
             \* a backlog is over when the queue has been low, the other faults when the row says so
             /\ IF status = "ok" /\ (k = "backlog" => wasLow /\ ~Overtaken(t))
                THEN Forgiven(k) /\ Advance(t, [rolled EXCEPT ![k] = {}])
                ELSE /\ excused' = IF k = "backlog" /\ Overtaken(t) THEN excused \cup {k} ELSE excused
                     /\ Advance(t, rolled) /\ UNCHANGED notices
     /\ UNCHANGED <<world, pruning, wasLow, changes, alertFaults>>

Notice(k, os) == [notices EXCEPT ![k] = [o \in Operators |->
                    IF o \in os /\ @[o] < 2 THEN @[o] + 1 ELSE @[o]]]

\* writeOperatorAlert: one admin's notification, committed on its own, at most one per job.
WriteOperatorAlert(t, o) ==
  LET k == Current(t) IN
  /\ Doing(t, "notify") /\ o \in tick[t].to
  /\ Enter(t, [tick[t] EXCEPT !.to = @ \ {o}])
  /\ notices' = IF <<k, o>> \in told[t] THEN notices ELSE Notice(k, {o})
  /\ told' = [told EXCEPT ![t] = @ \cup {<<k, o>>}]
  /\ UNCHANGED <<world, check, rolled, excused, pruning, wasLow, changes, alertFaults>>

Fails == alertFaults < MaxAlertFaults /\ alertFaults' = alertFaults + 1

\* One admin's failure is collected and skips nobody else.
OperatorAlertFails(t, o) ==
  /\ Doing(t, "notify") /\ o \in tick[t].to /\ Fails
  /\ Enter(t, [tick[t] EXCEPT !.to = @ \ {o}, !.missed = TRUE])
  /\ UNCHANGED <<world, check, told, notices, rolled, excused, pruning, wasLow, changes>>

\* A mail check's one notification is part of the check's own transaction.
CommitAlert(t) ==
  LET k == Current(t) IN
  /\ Doing(t, "notify") /\ tick[t].to = {} /\ ~tick[t].missed
  /\ check' = [check EXCEPT ![k] = "alerting"]
  /\ notices' = IF k = "mail" THEN Notice(k, Operators) ELSE notices
  /\ wasLow' = IF k = "backlog" THEN world.level = "low" ELSE wasLow
  /\ Advance(t, rolled)
  /\ UNCHANGED <<world, excused, pruning, changes, alertFaults>>

\* The transaction is undone.  A row that goes with it comes back under another id, which
\* is part of every dedupe key.
Undone(t) ==
  LET k == Current(t) IN
  /\ Enter(t, [CheckResting EXCEPT !.doing = "failed"])
  /\ IF Doing(t, "notify")
     THEN /\ rolled' = [rolled EXCEPT ![k] = @ \cup {t}]
          /\ IF tick[t].was = "missing"
             THEN excused' = excused \cup {k} /\ told' = [told EXCEPT ![t] = {p \in @ : p[1] # k}]
             ELSE UNCHANGED <<excused, told>>
     ELSE UNCHANGED <<rolled, excused, told>>

\* The AggregateError ends the attempt, the families after this one with it.
RollBackAlert(t) ==
  /\ Doing(t, "notify") /\ tick[t].to = {} /\ tick[t].missed
  /\ Undone(t)
  /\ UNCHANGED <<world, check, notices, pruning, wasLow, changes, alertFaults>>

WorkerDiesInTick(t) ==
  /\ tick[t].doing \notin {"rest", "failed"} /\ Fails
  /\ Undone(t)
  /\ UNCHANGED <<world, check, notices, pruning, wasLow, changes>>

----------------------------------------------------------------------------
(* The prune of permanently failed jobs, one transaction.                  *)

\* As if the rows were selected without FOR UPDATE.
SelectUnlocked ==
  /\ pruning = "no" /\ world.job = "old"
  /\ pruning' = "picked"
  /\ UNCHANGED <<world, check, tick, told, notices, rolled, excused, wasLow, changes, alertFaults>>

SelectPrunable ==
  /\ pruning = "no" /\ world.job = "old"
  /\ pruning' = "held"
  /\ UNCHANGED <<world, check, tick, told, notices, rolled, excused, wasLow, changes, alertFaults>>

CompletePruned ==
  /\ pruning # "no"
  /\ pruning' = "no"
  /\ world' = [world EXCEPT !.job = "none"]
  /\ UNCHANGED <<check, tick, told, notices, rolled, excused, wasLow, changes, alertFaults>>

----------------------------------------------------------------------------

TickStep(t) ==
  \/ ReadSources(t) \/ DeleteOrphanedTenantChecks(t) \/ LockCheckRow(t) \/ TransitionCheck(t)
  \/ \E o \in Operators : WriteOperatorAlert(t, o)
  \/ CommitAlert(t) \/ RollBackAlert(t)

HNext ==
  \/ WorldChanges \/ ReEnqueueDeadJob \/ SelectPrunable \/ CompletePruned
  \/ \E t \in Ticks :
       \/ StartTick(t) \/ GiveUpTick(t) \/ TickStep(t) \/ WorkerDiesInTick(t)
       \/ \E o \in Operators : OperatorAlertFails(t, o)

\* The crontab never stops, the queue runs what it has, and graphile retries.
HFairness == \A t \in Ticks : WF_hVars(TickStep(t)) /\ WF_hVars(StartTick(t))

HSpec == HInit /\ [][HNext]_hVars /\ HFairness

----------------------------------------------------------------------------

HTypeOK ==
  /\ world \in Worlds /\ check \in [Checks -> Statuses]
  /\ tick \in [Ticks -> [at : 1..Len(Families),
                         doing : {"rest", "failed", "read", "orphan", "lock", "upsert", "notify"},
                         saw : {"ok", "alerting", "absent", "low", "middle", "high"},
                         was : Statuses, to : SUBSET Operators, missed : BOOLEAN]]
  /\ told \in [Ticks -> SUBSET (Checks \X Operators)]
  /\ notices \in [Checks -> [Operators -> 0..2]]
  /\ rolled \in [Checks -> SUBSET (Ticks \cup {Ended})] /\ excused \subseteq Checks
  /\ pruning \in {"no", "picked", "held"} /\ wasLow \in BOOLEAN

\* A fault that lasts is notified once: over many ticks, over retries of a tick whose
\* notifications partly failed, over ticks that overlap, and for the backlog over any
\* wavering above the recovery threshold (the comments of handleObservabilityCheckSystemTask
\* and writeOperatorAlert, whose exceptions `excused` holds).
AlertedOncePerFault ==
  \A k \in Checks \ excused : \A o \in Operators : notices[k][o] <= 1

\* A row only says `alerting` once every operator has been written: a failed write undoes
\* the turn, so that it is made again (writeOperatorAlert).
AlertingIsKnownToAll ==
  \A k \in Checks \ excused : check[k] = "alerting" => \A o \in Operators : notices[k][o] >= 1

\* The prune never completes a job that has come back to life (pruneQueueFailedJobs).
PruneTakesOnlyTheDead ==
  [][pruning # "no" /\ pruning' = "no" => world.job = "old"]_hVars

\* What lasts is shown and what is over is cleared, the row of a deleted mail account
\* included, whatever failed on the way.
HealthShown ==
  \A k \in {f \in Checks : InUse(f)} :
    /\ Observed(k) \in {"alerting", "high"} => check[k] = "alerting"
    /\ Observed(k) \in {"ok", "low", "absent"} => check[k] # "alerting"
=============================================================================
