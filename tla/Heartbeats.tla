----------------------------- MODULE Heartbeats -----------------------------
(***************************************************************************)
(* The heartbeat scheduler: project_heartbeats rows are swept every        *)
(* minute; a due row gets one heartbeat_occurrences row per due time and a *)
(* keyed queue job, whose attempts lock both rows, decide, and run the     *)
(* action handler.  A fixed rule (dailyTime, weekly) advances in the       *)
(* sweep; a floating one (everyNDays, interval) is unscheduled until its   *)
(* fire's first attempt starts and reschedules it from that instant.       *)
(*                                                                         *)
(* Transactions are actions.  updateHeartbeatRule and enabling read the    *)
(* row without a lock, compute, and write: two actions, between which the  *)
(* sweep, the clock and the other editors move.                            *)
(***************************************************************************)
EXTENDS Naturals

CONSTANTS
  Heartbeats,         \* ids of project_heartbeats rows
  Rules,              \* parsed rules: records with a field kind
  Zones,              \* timezones the tenant's settings may hold
  NextFireAt(_, _, _),\* computeNextFireAt(rule, timezone, after), see NextFireAt.tla
  Editors,            \* concurrent callers of the store's edit operations
  MaxAttempts,        \* maxAttempts of a fire job
  NoTime,             \* NULL in a timestamp column
  NoRule,             \* rule of a heartbeat that does not exist
  MaxClock,           \* bound: ticks that pass
  MaxGeneration,      \* bound: generations of one occurrence
  MaxLag,             \* bound: ticks the application clock lags the database
  Budgets             \* bound: the mixes of disturbances, how often each kind happens

Disturbances == {"edit", "zone", "module", "suspend", "delete",
                 "error", "closeError", "crash"}

CoreKinds == {"dailyTime", "weekly", "everyNDays", "interval", "onItemEvent"}
Kinds == CoreKinds \cup {"module"}
IsFloatingRuleKind(kind) == kind \in {"everyNDays", "interval"}
IsOnItemEventRule(r) == r.kind = "onItemEvent"

Instants == 0 .. MaxClock
Times == Nat \cup {NoTime}
Generations == 1 .. MaxGeneration

Occurrences == Heartbeats \X Instants       \* UNIQUE (heartbeat_id, scheduled_for)
Jobs == Heartbeats \X Instants \X Generations   \* occurrenceFireJobKey
OccurrenceOf(j) == <<j[1], j[2]>>

Statuses == {"none", "queued", "running", "succeeded", "failed", "cancelled"}

(* A job's attempt: started (resolved the module rule kinds), prepared     *)
(* (preparation committed), handling, closing after a setup or a handler   *)
(* error of the final attempt, finishing (success committed, job not yet   *)
(* acknowledged).  dead: max_attempts exhausted.                           *)
Pcs == {"none", "queued", "started", "prepared", "handling",
        "closeSetup", "closeHandler", "finishing", "done", "dead"}
InAttempt == {"started", "prepared", "handling", "closeSetup", "closeHandler", "finishing"}
Firing == {"prepared", "handling", "closeHandler", "finishing"}

ASSUME HeartbeatsAssumption ==
  /\ \A r \in Rules : r.kind \in Kinds
  /\ \A r \in Rules, z \in Zones, t \in Instants :
       IF IsOnItemEventRule(r) THEN NextFireAt(r, z, t) = NoTime
                               ELSE NextFireAt(r, z, t) \in Nat /\ NextFireAt(r, z, t) > t
  /\ MaxAttempts \in Nat \ {0}
  /\ NoTime \notin Nat
  /\ NoRule \notin Rules
  /\ MaxClock \in Nat /\ MaxLag \in Nat
  /\ MaxGeneration \in Nat \ {0}
  /\ Budgets \subseteq [Disturbances -> Nat]

VARIABLES
  rule, enabled, next, lastFired, lastError,  \* project_heartbeats
  occ,        \* heartbeat_occurrences
  job,        \* the fire jobs: where the current attempt is, attempts, rule kinds it resolved
  edit,       \* what an editor has read and computed, not yet written
  zone, moduleActive, tenantActive,           \* settings, module registry, tenants.status
  clock,      \* the database clock
  notified,   \* jobs that wrote a heartbeat_error notification
  starts,     \* history: handler starts per occurrence
  spent

heartbeatVars == <<rule, enabled, next, lastFired, lastError>>
envVars == <<zone, moduleActive, tenantActive, clock>>
vars == <<heartbeatVars, occ, job, edit, envVars, notified, starts, spent>>

NoOccurrence == [status |-> "none", snapshot |-> NoRule, started |-> NoTime, gen |-> 1]
NewOccurrence(r) == [status |-> "queued", snapshot |-> r, started |-> NoTime, gen |-> 1]
NoJob == [pc |-> "none", attempts |-> 0, kinds |-> FALSE]
QueuedJob == [pc |-> "queued", attempts |-> 0, kinds |-> FALSE]
NoEdit == [op |-> "none"]

Exists(h) == rule[h] # NoRule
AppNow == {t \in Instants : t <= clock /\ clock <= t + MaxLag}     \* new Date()
Parses(r, kinds) == r.kind \in CoreKinds \/ kinds
Spend(d) ==
  /\ spent' = [spent EXCEPT ![d] = @ + 1]
  /\ \E b \in Budgets : \A e \in Disturbances : spent'[e] <= b[e]

RowsType ==
  /\ rule \in [Heartbeats -> Rules \cup {NoRule}]
  /\ enabled \in [Heartbeats -> BOOLEAN]
  /\ next \in [Heartbeats -> Times]
  /\ lastFired \in [Heartbeats -> Times]
  /\ lastError \in [Heartbeats -> BOOLEAN]
OccurrencesType ==
  occ \in [Occurrences -> [status : Statuses, snapshot : Rules \cup {NoRule},
                           started : Times, gen : Generations]]
JobsType ==
  job \in [Jobs -> [pc : Pcs, attempts : 0 .. MaxAttempts, kinds : BOOLEAN]]
EditsType ==
  edit \in [Editors -> {NoEdit} \cup [op : {"rule", "enable"}, h : Heartbeats,
                                      rule : Rules, next : Times]]
EnvType ==
  /\ zone \in Zones
  /\ moduleActive \in BOOLEAN /\ tenantActive \in BOOLEAN
  /\ clock \in Instants
HistoryType ==
  /\ notified \subseteq Jobs
  /\ starts \in [Occurrences -> Nat]
  /\ spent \in [Disturbances -> Nat]

TypeOK ==
  /\ RowsType /\ OccurrencesType /\ JobsType /\ EditsType /\ EnvType /\ HistoryType

-----------------------------------------------------------------------------
\* createHeartbeat's next_fire_at: only an enabled rule with a schedule has one.
Scheduled(r, isEnabled, z, now) ==
  IF isEnabled THEN NextFireAt(r, z, now) ELSE NoTime

Init ==
  /\ rule \in [Heartbeats -> Rules]
  /\ enabled \in [Heartbeats -> BOOLEAN]
  /\ zone \in Zones
  /\ next = [h \in Heartbeats |-> Scheduled(rule[h], enabled[h], zone, 0)]
  /\ lastFired = [h \in Heartbeats |-> NoTime]
  /\ lastError = [h \in Heartbeats |-> FALSE]
  /\ occ = [o \in Occurrences |-> NoOccurrence]
  /\ job = [j \in Jobs |-> NoJob]
  /\ edit = [e \in Editors |-> NoEdit]
  /\ moduleActive = TRUE /\ tenantActive = TRUE
  /\ clock = 0
  /\ notified = {}
  /\ starts = [o \in Occurrences |-> 0]
  /\ spent = [d \in Disturbances |-> 0]

-----------------------------------------------------------------------------
(* The store's edit operations.                                            *)

UpdateHeartbeatRuleRead(e, h, r) ==
  /\ edit[e] = NoEdit
  /\ Exists(h)
  /\ Parses(r, moduleActive)
  /\ Spend("edit")
  /\ \E now \in AppNow :
       edit' = [edit EXCEPT ![e] = [op |-> "rule", h |-> h, rule |-> r,
                                    next |-> Scheduled(r, enabled[h], zone, now)]]
  /\ UNCHANGED <<heartbeatVars, occ, job, envVars, notified, starts>>

EnableHeartbeatRead(e, h) ==
  /\ edit[e] = NoEdit
  /\ Exists(h)
  /\ Parses(rule[h], moduleActive)
  /\ Spend("edit")
  /\ \E now \in AppNow :
       edit' = [edit EXCEPT ![e] = [op |-> "enable", h |-> h, rule |-> rule[h],
                                    next |-> Scheduled(rule[h], TRUE, zone, now)]]
  /\ UNCHANGED <<heartbeatVars, occ, job, envVars, notified, starts>>

\* The UPDATE ... WHERE id = $1; it finds no row when the heartbeat was deleted.
WriteEdit(e) ==
  /\ edit[e] # NoEdit
  /\ LET w == edit[e] IN
       IF Exists(w.h)
       THEN /\ next' = [next EXCEPT ![w.h] = w.next]
            /\ IF w.op = "rule"
               THEN rule' = [rule EXCEPT ![w.h] = w.rule] /\ UNCHANGED enabled
               ELSE enabled' = [enabled EXCEPT ![w.h] = TRUE] /\ UNCHANGED rule
       ELSE UNCHANGED <<rule, enabled, next>>
  /\ edit' = [edit EXCEPT ![e] = NoEdit]
  /\ UNCHANGED <<lastFired, lastError, occ, job, envVars, notified, starts, spent>>

DisableHeartbeat(h) ==
  /\ Exists(h) /\ enabled[h]
  /\ Spend("edit")
  /\ enabled' = [enabled EXCEPT ![h] = FALSE]
  /\ next' = [next EXCEPT ![h] = NoTime]
  /\ UNCHANGED <<rule, lastFired, lastError, occ, job, edit, envVars, notified, starts>>

\* ON DELETE CASCADE takes the occurrences with the row; queued jobs stay.
DeleteHeartbeat(h) ==
  /\ Exists(h)
  /\ Spend("delete")
  /\ rule' = [rule EXCEPT ![h] = NoRule]
  /\ enabled' = [enabled EXCEPT ![h] = FALSE]
  /\ next' = [next EXCEPT ![h] = NoTime]
  /\ occ' = [o \in Occurrences |-> IF o[1] = h THEN NoOccurrence ELSE occ[o]]
  /\ UNCHANGED <<lastFired, lastError, job, edit, envVars, notified, starts>>

\* Reads and writes under FOR UPDATE, in the transaction of the settings write.
RecomputeAllForTimezoneChange(z) ==
  /\ z # zone
  /\ Spend("zone")
  /\ zone' = z
  /\ \E now \in AppNow :
       LET rows == {h \in Heartbeats : enabled[h] /\ next[h] # NoTime}
           parsed == {h \in rows : Parses(rule[h], moduleActive)}
       IN /\ next' = [h \in Heartbeats |->
                        IF h \in parsed THEN NextFireAt(rule[h], z, now) ELSE next[h]]
          /\ lastError' = [h \in Heartbeats |-> lastError[h] \/ h \in rows \ parsed]
  /\ UNCHANGED <<rule, enabled, lastFired, occ, job, edit, moduleActive, tenantActive,
                 clock, notified, starts>>

-----------------------------------------------------------------------------
(* The sweep, row by row: a chunk's rows are locked and independent.       *)

\* Enqueue of the fire job of occurrence o's generation g.
EnqueueFire(o, g) ==
  job' = [job EXCEPT ![<<o[1], o[2], g>>] = QueuedJob]

(* Mutant: any occurrence of another rule is taken over, finished ones too *)
ReactivatableFinished(c, r) ==
  c.status = "cancelled" \/ (c.status # "none" /\ c.snapshot # r)

\* A conflict with running, succeeded, failed, or a queued row of the same rule: no-op.
Reactivatable(c, r) ==
  c.status = "cancelled" \/ (c.status = "queued" /\ c.snapshot # r)

InsertHeartbeatOccurrence(o, r) ==
  LET c == occ[o] IN
  \/ /\ c.status = "none"
     /\ occ' = [occ EXCEPT ![o] = NewOccurrence(r)]
     /\ EnqueueFire(o, 1)
  \/ /\ Reactivatable(c, r)
     /\ c.gen < MaxGeneration
     /\ occ' = [occ EXCEPT ![o] = [status |-> "queued", snapshot |-> r,
                  started |-> IF c.status = "cancelled" THEN NoTime ELSE c.started,
                  gen |-> c.gen + 1]]
     /\ EnqueueFire(o, c.gen + 1)

Due(h) == enabled[h] /\ next[h] # NoTime /\ next[h] <= clock

(* Mutant: the next fire is computed from an application clock that lags *)
SweepByLaggingClock(h) ==
  /\ tenantActive
  /\ Due(h)
  /\ Parses(rule[h], moduleActive)
  /\ InsertHeartbeatOccurrence(<<h, next[h]>>, rule[h])
  /\ \E now \in {t \in Instants : t <= clock /\ clock <= t + 1} :
       next' = [next EXCEPT ![h] = IF IsFloatingRuleKind(rule[h].kind) THEN NoTime
                                   ELSE NextFireAt(rule[h], zone, now)]
  /\ UNCHANGED <<rule, enabled, lastFired, lastError, edit, envVars, notified, starts, spent>>

\* The sweep computes the next fire from the database clock.
SweepFires(h) ==
  /\ tenantActive
  /\ Due(h)
  /\ Parses(rule[h], moduleActive)
  /\ InsertHeartbeatOccurrence(<<h, next[h]>>, rule[h])
  /\ next' = [next EXCEPT ![h] = IF IsFloatingRuleKind(rule[h].kind) THEN NoTime
                                 ELSE NextFireAt(rule[h], zone, clock)]
  /\ UNCHANGED <<rule, enabled, lastFired, lastError, edit, envVars, notified, starts, spent>>

\* A rule whose module is inactive is left due, with the failure recorded.
SweepCannotParse(h) ==
  /\ tenantActive
  /\ Due(h)
  /\ ~Parses(rule[h], moduleActive)
  /\ lastError' = [lastError EXCEPT ![h] = TRUE]
  /\ UNCHANGED <<rule, enabled, next, lastFired, occ, job, edit, envVars, notified, starts, spent>>

SweepDueHeartbeats(h) == SweepFires(h) \/ SweepCannotParse(h)

-----------------------------------------------------------------------------
(* The fire task.                                                          *)

SetPc(j, pc) == job' = [job EXCEPT ![j].pc = pc]
IsFinalAttempt(j) == job[j].attempts >= MaxAttempts
RetryOrDie(j) == SetPc(j, IF IsFinalAttempt(j) THEN "dead" ELSE "queued")

\* The queue hands the job to a worker; an inactive tenant's job completes as a no-op.
StartJob(j) ==
  /\ job[j].pc = "queued"
  /\ job' = [job EXCEPT ![j] = [pc |-> IF tenantActive THEN "started" ELSE "done",
                                attempts |-> job[j].attempts + 1,
                                kinds |-> moduleActive]]
  /\ UNCHANGED <<heartbeatVars, occ, edit, envVars, notified, starts, spent>>

\* missing and stale: the attempt ends without touching a row.
PrepareNothing(j) ==
  /\ job[j].pc = "started"
  /\ \/ occ[OccurrenceOf(j)].status = "none"
     \/ occ[OccurrenceOf(j)].gen # j[3]
  /\ SetPc(j, "done")
  /\ UNCHANGED <<heartbeatVars, occ, edit, envVars, notified, starts, spent>>

(* Mutant: the job's generation is not compared *)
CurrentAnyGeneration(j) == occ[OccurrenceOf(j)].status # "none"

Current(j) == /\ occ[OccurrenceOf(j)].status # "none"
              /\ occ[OccurrenceOf(j)].gen = j[3]
Wanted(j) == /\ enabled[j[1]]
             /\ rule[j[1]] = occ[OccurrenceOf(j)].snapshot

PrepareCancels(j) ==
  /\ job[j].pc = "started"
  /\ Current(j)
  /\ ~Wanted(j)
  /\ occ' = [occ EXCEPT ![OccurrenceOf(j)].status = "cancelled"]
  /\ SetPc(j, "done")
  /\ UNCHANGED <<heartbeatVars, edit, envVars, notified, starts, spent>>

PrepareDegrades(j) ==
  /\ job[j].pc = "started"
  /\ Current(j)
  /\ Wanted(j)
  /\ ~Parses(rule[j[1]], job[j].kinds)
  /\ occ' = [occ EXCEPT ![OccurrenceOf(j)].status = "failed"]
  /\ lastError' = [lastError EXCEPT ![j[1]] = TRUE]
  /\ SetPc(j, "done")
  /\ UNCHANGED <<rule, enabled, next, lastFired, edit, envVars, notified, starts, spent>>

\* Only the first attempt of a generation starts the occurrence and moves the schedule.
FirstStart(j) ==
  LET h == j[1] IN
  \E now \in AppNow :
    /\ occ' = [occ EXCEPT ![OccurrenceOf(j)].status = "running",
                          ![OccurrenceOf(j)].started = now]
    /\ lastFired' = [lastFired EXCEPT ![h] = now]
    /\ next' = IF IsFloatingRuleKind(rule[h].kind)
               THEN [next EXCEPT ![h] = NextFireAt(rule[h], zone, now)]
               ELSE next

PrepareProceeds(j) ==
  /\ job[j].pc = "started"
  /\ Current(j)
  /\ Wanted(j)
  /\ Parses(rule[j[1]], job[j].kinds)
  /\ IF occ[OccurrenceOf(j)].started = NoTime
     THEN FirstStart(j)
     ELSE UNCHANGED <<occ, lastFired, next>>
  /\ SetPc(j, "prepared")
  /\ UNCHANGED <<rule, enabled, lastError, edit, envVars, notified, starts, spent>>

(* Mutant: the error is swallowed; the final attempt is retried as well *)
SetupErrorSwallowed(j) ==
  /\ job[j].pc \in {"started", "prepared"}
  /\ Spend("error")
  /\ SetPc(j, "done")
  /\ UNCHANGED <<heartbeatVars, occ, edit, envVars, notified, starts>>

\* Preparation (rolled back), the affinity check or the handler lookup throws.
SetupError(j) ==
  /\ job[j].pc \in {"started", "prepared"}
  /\ Spend("error")
  /\ SetPc(j, IF IsFinalAttempt(j) THEN "closeSetup" ELSE "queued")
  /\ UNCHANGED <<heartbeatVars, occ, edit, envVars, notified, starts>>

StartHandler(j) ==
  /\ job[j].pc = "prepared"
  /\ starts' = [starts EXCEPT ![OccurrenceOf(j)] = @ + 1]
  /\ SetPc(j, "handling")
  /\ UNCHANGED <<heartbeatVars, occ, edit, envVars, notified, spent>>

\* An UPDATE of a deleted row changes nothing; lastError of such a row means nothing.
HandlerSucceeds(j) ==
  /\ job[j].pc = "handling"
  /\ lastError' = [lastError EXCEPT ![j[1]] = FALSE]
  /\ occ' = IF occ[OccurrenceOf(j)].status = "none" THEN occ
            ELSE [occ EXCEPT ![OccurrenceOf(j)].status = "succeeded"]
  /\ SetPc(j, "finishing")
  /\ UNCHANGED <<rule, enabled, next, lastFired, edit, envVars, notified, starts, spent>>

\* The handler, or the transaction that records its success, throws.
HandlerError(j) ==
  /\ job[j].pc = "handling"
  /\ Spend("error")
  /\ SetPc(j, IF IsFinalAttempt(j) THEN "closeHandler" ELSE "queued")
  /\ UNCHANGED <<heartbeatVars, occ, edit, envVars, notified, starts>>

(* Mutant: the schedule is not restored; only a queued occurrence is closed *)
CloseSetupUnrestored(j) ==
  /\ job[j].pc = "closeSetup"
  /\ occ' = IF occ[OccurrenceOf(j)].status \in {"queued", "running"}
            THEN [occ EXCEPT ![OccurrenceOf(j)].status = "failed"]
            ELSE occ
  /\ notified' = notified \cup {j}
  /\ SetPc(j, "dead")
  /\ UNCHANGED <<heartbeatVars, edit, envVars, starts, spent>>

(* Mutant: a running occurrence is taken for the handler's to close *)
CloseSetupQueuedOnly(j) ==
  /\ job[j].pc = "closeSetup"
  /\ LET h == j[1]
         o == OccurrenceOf(j)
     IN IF Exists(h)
        THEN /\ lastError' = [lastError EXCEPT ![h] = TRUE]
             /\ next' = IF enabled[h] /\ next[h] = NoTime /\ Parses(rule[h], job[j].kinds)
                        THEN [next EXCEPT ![h] = NextFireAt(rule[h], zone, clock)]
                        ELSE next
             /\ occ' = IF occ[o].status = "queued"
                       THEN [occ EXCEPT ![o].status = "failed"]
                       ELSE occ
             /\ notified' = notified \cup {j}
        ELSE UNCHANGED <<lastError, next, occ, notified>>
  /\ SetPc(j, "dead")
  /\ UNCHANGED <<rule, enabled, lastFired, edit, envVars, starts, spent>>

\* recordHeartbeatFireSetupFailure and notifyHeartbeatError, one transaction.
\* It restores the schedule a floating rule's sweep had cleared.
CloseSetup(j) ==
  /\ job[j].pc = "closeSetup"
  /\ LET h == j[1]
         o == OccurrenceOf(j)
     IN IF Exists(h)
        THEN /\ lastError' = [lastError EXCEPT ![h] = TRUE]
             /\ next' = IF enabled[h] /\ next[h] = NoTime /\ Parses(rule[h], job[j].kinds)
                        THEN [next EXCEPT ![h] = NextFireAt(rule[h], zone, clock)]
                        ELSE next
             /\ occ' = IF occ[o].status \in {"queued", "running"}
                       THEN [occ EXCEPT ![o].status = "failed"]
                       ELSE occ
             /\ notified' = notified \cup {j}
        ELSE UNCHANGED <<lastError, next, occ, notified>>
  /\ SetPc(j, "dead")
  /\ UNCHANGED <<rule, enabled, lastFired, edit, envVars, starts, spent>>

\* recordHeartbeatFailure, failHeartbeatOccurrence and notifyHeartbeatError.
CloseHandler(j) ==
  /\ job[j].pc = "closeHandler"
  /\ lastError' = [lastError EXCEPT ![j[1]] = TRUE]
  /\ occ' = IF occ[OccurrenceOf(j)].status = "none" THEN occ
            ELSE [occ EXCEPT ![OccurrenceOf(j)].status = "failed"]
  /\ notified' = notified \cup {j}
  /\ SetPc(j, "dead")
  /\ UNCHANGED <<rule, enabled, next, lastFired, edit, envVars, starts, spent>>

\* The close-out transaction itself fails: the original error still kills the job.
CloseOutError(j) ==
  /\ job[j].pc \in {"closeSetup", "closeHandler"}
  /\ Spend("closeError")
  /\ SetPc(j, "dead")
  /\ UNCHANGED <<heartbeatVars, occ, edit, envVars, notified, starts>>

\* The queue deletes the completed job.
CompleteJob(j) ==
  /\ job[j].pc = "finishing"
  /\ SetPc(j, "done")
  /\ UNCHANGED <<heartbeatVars, occ, edit, envVars, notified, starts, spent>>

\* The worker dies; its lock on the job expires and another attempt follows, if any is left.
CrashWorker(j) ==
  /\ job[j].pc \in InAttempt
  /\ Spend("crash")
  /\ RetryOrDie(j)
  /\ UNCHANGED <<heartbeatVars, occ, edit, envVars, notified, starts>>

-----------------------------------------------------------------------------
(* The surroundings.                                                       *)

Tick ==
  /\ clock < MaxClock
  /\ clock' = clock + 1
  /\ UNCHANGED <<heartbeatVars, occ, job, edit, zone, moduleActive, tenantActive,
                 notified, starts, spent>>

ToggleModule ==
  /\ Spend("module")
  /\ moduleActive' = ~moduleActive
  /\ UNCHANGED <<heartbeatVars, occ, job, edit, zone, tenantActive, clock, notified, starts>>

SuspendTenant ==
  /\ tenantActive
  /\ Spend("suspend")
  /\ tenantActive' = FALSE
  /\ UNCHANGED <<heartbeatVars, occ, job, edit, zone, moduleActive, clock, notified, starts>>

ReactivateTenant ==
  /\ ~tenantActive
  /\ tenantActive' = TRUE
  /\ UNCHANGED <<heartbeatVars, occ, job, edit, zone, moduleActive, clock, notified, starts, spent>>

EditStep ==
  \/ \E e \in Editors, h \in Heartbeats :
       \/ \E r \in Rules : UpdateHeartbeatRuleRead(e, h, r)
       \/ EnableHeartbeatRead(e, h)
  \/ \E e \in Editors : WriteEdit(e)
  \/ \E h \in Heartbeats : DisableHeartbeat(h) \/ DeleteHeartbeat(h)
  \/ \E z \in Zones : RecomputeAllForTimezoneChange(z)

FireStep(j) ==
  \/ StartJob(j) \/ PrepareNothing(j) \/ PrepareCancels(j) \/ PrepareDegrades(j)
  \/ PrepareProceeds(j) \/ SetupError(j) \/ StartHandler(j) \/ HandlerSucceeds(j)
  \/ HandlerError(j) \/ CloseSetup(j) \/ CloseHandler(j) \/ CloseOutError(j)
  \/ CompleteJob(j) \/ CrashWorker(j)

Next ==
  \/ EditStep
  \/ \E h \in Heartbeats : SweepDueHeartbeats(h)
  \/ \E j \in Jobs : FireStep(j)
  \/ Tick \/ ToggleModule \/ SuspendTenant \/ ReactivateTenant

Spec == Init /\ [][Next]_vars

\* What a live worker does with a job it holds, when nothing is thrown.
Progress(j) ==
  \/ StartJob(j) \/ PrepareNothing(j) \/ PrepareCancels(j) \/ PrepareDegrades(j)
  \/ PrepareProceeds(j) \/ StartHandler(j) \/ HandlerSucceeds(j)
  \/ CloseSetup(j) \/ CloseHandler(j) \/ CompleteJob(j)

(* The sweep is a cron task of every minute and the queue's workers keep   *)
(* taking jobs; errors, crashes, edits and the clock are under no          *)
(* obligation.                                                             *)
Fairness ==
  /\ \A h \in Heartbeats : WF_vars(SweepDueHeartbeats(h))
  /\ \A j \in Jobs : WF_vars(Progress(j))

FairSpec == Spec /\ Fairness

-----------------------------------------------------------------------------
(* Properties.                                                             *)

Untouched(ds) == \A d \in ds : spent[d] = 0

(* At most one handler runs for an occurrence: the generation check of     *)
(* prepareHeartbeatOccurrenceFire keeps the job of a superseded generation *)
(* from firing beside the reactivated one.                                 *)
OneHandlerPerOccurrence ==
  \A i, j \in Jobs :
    /\ OccurrenceOf(i) = OccurrenceOf(j)
    /\ job[i].pc \in Firing
    /\ job[j].pc \in Firing
    => i = j

(* Without errors and crashes the handler of a due time runs at most once, *)
(* although its occurrence may be cancelled, resnapshotted and reactivated *)
(* under several generations, each with a job of its own.                  *)
FiresAtMostOnce ==
  Untouched({"error", "crash"}) => \A o \in Occurrences : starts[o] <= 1

(* A heartbeat never drops out of the schedule: an enabled rule that has   *)
(* one has a next_fire_at, or its occurrence's current job has yet to make *)
(* its first start (recordHeartbeatFireSetupFailure: "not silently         *)
(* unscheduled").                                                          *)
AwaitsFirstStart(h) ==
  \E j \in Jobs :
    /\ j[1] = h
    /\ Current(j)
    /\ occ[OccurrenceOf(j)].started = NoTime
    /\ job[j].pc \in {"queued", "started", "closeSetup"}

NeverUnscheduled ==
  \A h \in Heartbeats :
    enabled[h] /\ next[h] = NoTime => IsOnItemEventRule(rule[h]) \/ AwaitsFirstStart(h)

(* With one editor at a time, and unless a worker dies in, or cannot close *)
(* out, the final attempt or the tenant is suspended.                      *)
NotSilentlyUnscheduled ==
  Untouched({"crash", "closeError", "suspend"}) => NeverUnscheduled

(* A job that used up its attempts was reported and its occurrence is      *)
(* closed, whichever step of the fire failed, unless an edit has meanwhile *)
(* handed the occurrence to the job of a later generation.                 *)
DeadJobsAreReported ==
  Untouched({"crash", "closeError", "delete"}) =>
    \A j \in Jobs : job[j].pc = "dead" =>
      /\ j \in notified
      /\ Current(j) => occ[OccurrenceOf(j)].status \notin {"queued", "running"}

(* No due heartbeat is stuck behind a finished occurrence of its due time, *)
(* which every later sweep would treat as an idempotent no-op.             *)
NeverStalled ==
  \A h \in Heartbeats :
    Due(h) => occ[<<h, next[h]>>].status \notin {"succeeded", "failed"}

(* Without edits, and with an application clock that does not lag, the     *)
(* scheduler never stalls: the sweep, the first start of a floating rule   *)
(* and a timezone change all move next_fire_at past every occurrence there *)
(* is.                                                                     *)
NeverStalledWithoutEdits ==
  MaxLag = 0 /\ Untouched({"edit"}) => NeverStalled

(* The close-out of a fire restores the schedule of its floating rule      *)
(* although the next fire is already queued; the start of that one then    *)
(* moves the restored time on, due or not.                                 *)
MovedOn(o) ==
  /\ occ[o].status = "none"
  /\ next[o[1]] # o[2]
  /\ \E p \in Occurrences \ {o} :
       /\ p[1] = o[1]
       /\ occ[p].started # NoTime
       /\ next[o[1]] = NextFireAt(rule[o[1]], zone, occ[p].started)

(* A due fire ends: the sweep picks it up, also long after its time, and   *)
(* its occurrence succeeds or is recorded as failed, unless the start of   *)
(* an overlapping fire has moved its time on.                              *)
DueFireEnds ==
  \A o \in Occurrences :
    next[o[1]] = o[2] /\ Due(o[1])
      ~> occ[o].status \in {"succeeded", "failed"} \/ MovedOn(o)

-----------------------------------------------------------------------------
(* The inductive invariant behind OneHandlerPerOccurrence, FiresAtMostOnce *)
(* and NeverStalledWithoutEdits.                                           *)

GoneIsGone ==
  \A h \in Heartbeats : ~Exists(h) =>
    /\ ~enabled[h] /\ next[h] = NoTime
    /\ \A t \in Instants : occ[<<h, t>>].status = "none"

QueuedHasAttempts ==
  \A j \in Jobs : job[j].pc = "queued" => job[j].attempts < MaxAttempts

FiringIsCurrent ==
  \A j \in Jobs : job[j].pc \in Firing /\ Exists(j[1]) =>
    /\ occ[OccurrenceOf(j)].gen = j[3]
    /\ occ[OccurrenceOf(j)].status \in {"running", "succeeded", "failed"}

QueuedHasNotStarted ==
  \A o \in Occurrences : occ[o].status = "queued" => occ[o].started = NoTime

CancelledIsDone ==
  \A j \in Jobs : occ[OccurrenceOf(j)].status = "cancelled" /\ occ[OccurrenceOf(j)].gen = j[3]
                   => job[j].pc = "done"

OccurrenceProtocol ==
  /\ GoneIsGone /\ QueuedHasAttempts
  /\ FiringIsCurrent /\ OneHandlerPerOccurrence
  /\ QueuedHasNotStarted /\ CancelledIsDone

\* Who may still start an occurrence's handler, when nothing has failed so far.
StartIsFirst ==
  Untouched({"error", "crash"}) =>
    /\ \A o \in Occurrences :
         /\ starts[o] <= 1
         /\ starts[o] > 0 /\ Exists(o[1]) => occ[o].status \in {"running", "succeeded", "failed"}
    /\ \A j \in Jobs :
         \/ job[j].pc = "prepared"
         \/ job[j].pc \in {"queued", "started"} /\ Current(j)
         => starts[OccurrenceOf(j)] = 0

\* Without edits and clock lag, next_fire_at lies beyond every occurrence.
ScheduleIsAhead ==
  MaxLag = 0 /\ Untouched({"edit"}) =>
    /\ \A e \in Editors : edit[e] = NoEdit
    /\ \A h \in Heartbeats, t \in Instants :
         occ[<<h, t>>].status # "none" => t <= clock /\ (next[h] # NoTime => t < next[h])

\* What DeadJobsAreReported needs besides: a close-out finds its heartbeat.
DeathIsReported ==
  /\ Untouched({"delete"}) => \A h \in Heartbeats : Exists(h)
  /\ DeadJobsAreReported

IndInv ==
  TypeOK /\ OccurrenceProtocol /\ StartIsFirst /\ ScheduleIsAhead

-----------------------------------------------------------------------------
(* The inductive invariant behind NotSilentlyUnscheduled, for one editor:  *)
(* what it is about to write fits the row, and an unscheduled rule is a    *)
(* floating one whose fire holds its snapshot and has not begun.           *)

OneEditor == \A d, e \in Editors : d = e

HasSchedule(r, t) == IsOnItemEventRule(r) \/ t # NoTime

EditsAreInformed ==
  \A e \in Editors :
    LET w == edit[e] IN
      w # NoEdit /\ Exists(w.h) =>
        /\ w.op = "rule" /\ enabled[w.h] => HasSchedule(w.rule, w.next)
        /\ w.op = "enable" => rule[w.h] = w.rule /\ HasSchedule(w.rule, w.next)

Awaits(j) ==
  /\ Current(j)
  /\ occ[OccurrenceOf(j)].started = NoTime
  /\ occ[OccurrenceOf(j)].snapshot = rule[j[1]]
  /\ job[j].pc \in {"queued", "started", "closeSetup"}

FloatingAwaits(h) ==
  IsFloatingRuleKind(rule[h].kind) /\ \E j \in Jobs : j[1] = h /\ Awaits(j)

ScheduleIsKept ==
  Untouched({"crash", "closeError", "suspend"}) =>
    /\ tenantActive
    /\ EditsAreInformed
    /\ \A h \in Heartbeats : enabled[h] => HasSchedule(rule[h], next[h]) \/ FloatingAwaits(h)
=============================================================================
