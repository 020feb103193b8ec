-------------------------- MODULE HeartbeatsProofs --------------------------
(* Proofs that the occurrence and generation protocol of the heartbeat
   scheduler fires a due time once, and that without edits its schedule never
   stalls, for any number of heartbeats, attempts, generations and faults. *)
EXTENDS Heartbeats, TLAPS

USE HeartbeatsAssumption

LEMMA FireTimes ==
  \A r \in Rules, z \in Zones, t \in Instants : NextFireAt(r, z, t) \in Times
BY DEF Times

LEMMA JobParts ==
  \A j \in Jobs : /\ j[1] \in Heartbeats /\ j[2] \in Instants /\ j[3] \in Generations
                  /\ OccurrenceOf(j) = <<j[1], j[2]>>
                  /\ OccurrenceOf(j) \in Occurrences
                  /\ j = <<j[1], j[2], j[3]>>
BY DEF Jobs, Occurrences, OccurrenceOf

-----------------------------------------------------------------------------
(* Type correctness. *)

LEMMA SetPcType ==
  ASSUME JobsType, NEW j \in Jobs, NEW pc \in Pcs, SetPc(j, pc)
  PROVE  JobsType'
BY DEF JobsType, SetPc

LEMMA SetStatusType ==
  ASSUME OccurrencesType, NEW o \in Occurrences, NEW s \in Statuses,
         occ' = [occ EXCEPT ![o].status = s]
  PROVE  OccurrencesType'
BY DEF OccurrencesType

LEMMA SpendType ==
  ASSUME HistoryType, NEW d \in Disturbances, Spend(d)
  PROVE  spent' \in [Disturbances -> Nat]
BY DEF Spend, HistoryType

LEMMA TypeInit == Init => TypeOK
<1> SUFFICES ASSUME Init PROVE TypeOK
  OBVIOUS
<1>1. RowsType
  BY FireTimes DEF Init, RowsType, Scheduled, Instants, Times
<1>2. OccurrencesType /\ JobsType
  BY DEF Init, OccurrencesType, JobsType, NoOccurrence, NoJob, Statuses, Pcs, Generations, Times
<1> QED
  BY <1>1, <1>2 DEF Init, TypeOK, EditsType, EnvType, HistoryType, Instants

LEMMA TypeStep == ASSUME TypeOK, GoneIsGone, QueuedHasAttempts, [Next]_vars PROVE TypeOK'
<1> USE DEF TypeOK
<1>0. \A h \in Heartbeats : enabled[h] \/ next[h] # NoTime => rule[h] \in Rules
  BY DEF GoneIsGone, Exists, RowsType
<1>1. ASSUME NEW e \in Editors, NEW h \in Heartbeats, NEW r \in Rules, UpdateHeartbeatRuleRead(e, h, r)
      PROVE  TypeOK'
  <2>1. spent' \in [Disturbances -> Nat]
    BY <1>1, SpendType DEF UpdateHeartbeatRuleRead, Disturbances
  <2>2. EditsType'
    BY <1>1, FireTimes DEF UpdateHeartbeatRuleRead, EditsType, Scheduled, AppNow, EnvType, RowsType, Exists, Times
  <2> QED
    BY <1>1, <2>1, <2>2 DEF UpdateHeartbeatRuleRead, RowsType, OccurrencesType, JobsType, EnvType, HistoryType, heartbeatVars, envVars
<1>2. ASSUME NEW e \in Editors, NEW h \in Heartbeats, EnableHeartbeatRead(e, h)
      PROVE  TypeOK'
  <2>1. spent' \in [Disturbances -> Nat]
    BY <1>2, SpendType DEF EnableHeartbeatRead, Disturbances
  <2>2. EditsType'
    BY <1>2, FireTimes DEF EnableHeartbeatRead, EditsType, Scheduled, AppNow, EnvType, RowsType, Exists, Times
  <2> QED
    BY <1>2, <2>1, <2>2 DEF EnableHeartbeatRead, RowsType, OccurrencesType, JobsType, EnvType, HistoryType, heartbeatVars, envVars
<1>3. ASSUME NEW e \in Editors, WriteEdit(e)
      PROVE  TypeOK'
  <2>1. EditsType'
    BY <1>3 DEF WriteEdit, EditsType
  <2>2. RowsType'
    <3>1. edit[e].h \in Heartbeats /\ edit[e].rule \in Rules /\ edit[e].next \in Times
      BY <1>3 DEF WriteEdit, EditsType, NoEdit
    <3>2. next' \in [Heartbeats -> Times]
      BY <1>3, <3>1 DEF WriteEdit, RowsType
    <3>3. rule' \in [Heartbeats -> Rules \cup {NoRule}]
      BY <1>3, <3>1 DEF WriteEdit, RowsType
    <3>4. enabled' \in [Heartbeats -> BOOLEAN]
      BY <1>3, <3>1 DEF WriteEdit, RowsType
    <3> QED
      BY <1>3, <3>2, <3>3, <3>4 DEF WriteEdit, RowsType
  <2> QED
    BY <1>3, <2>1, <2>2 DEF WriteEdit, OccurrencesType, JobsType, EnvType, HistoryType, heartbeatVars, envVars
<1>4. ASSUME NEW h \in Heartbeats, DisableHeartbeat(h)
      PROVE  TypeOK'
  <2>1. spent' \in [Disturbances -> Nat]
    BY <1>4, SpendType DEF DisableHeartbeat, Disturbances
  <2>2. RowsType'
    BY <1>4 DEF DisableHeartbeat, RowsType, Times
  <2> QED
    BY <1>4, <2>1, <2>2 DEF DisableHeartbeat, OccurrencesType, JobsType, EditsType, EnvType, HistoryType, heartbeatVars, envVars
<1>5. ASSUME NEW h \in Heartbeats, DeleteHeartbeat(h)
      PROVE  TypeOK'
  <2>1. spent' \in [Disturbances -> Nat]
    BY <1>5, SpendType DEF DeleteHeartbeat, Disturbances
  <2>2. RowsType'
    BY <1>5 DEF DeleteHeartbeat, RowsType, Times
  <2>3. OccurrencesType'
    BY <1>5 DEF DeleteHeartbeat, OccurrencesType, NoOccurrence, Statuses, Times, Generations
  <2> QED
    BY <1>5, <2>1, <2>2, <2>3 DEF DeleteHeartbeat, JobsType, EditsType, EnvType, HistoryType, heartbeatVars, envVars
<1>6. ASSUME NEW z \in Zones, RecomputeAllForTimezoneChange(z)
      PROVE  TypeOK'
  <2>1. spent' \in [Disturbances -> Nat]
    BY <1>6, SpendType DEF RecomputeAllForTimezoneChange, Disturbances
  <2>2. PICK now \in AppNow :
          LET rows == {h \in Heartbeats : enabled[h] /\ next[h] # NoTime}
              parsed == {h \in rows : Parses(rule[h], moduleActive)}
          IN /\ next' = [h \in Heartbeats |->
                            IF h \in parsed THEN NextFireAt(rule[h], z, now) ELSE next[h]]
             /\ lastError' = [h \in Heartbeats |-> lastError[h] \/ h \in rows \ parsed]
    BY <1>6 DEF RecomputeAllForTimezoneChange
  <2>3. \A h \in Heartbeats : enabled[h] => NextFireAt(rule[h], z, now) \in Times
    BY <1>0, FireTimes DEF AppNow
  <2>4. next' \in [Heartbeats -> Times]
    BY <2>2, <2>3 DEF RowsType
  <2>5. lastError' \in [Heartbeats -> BOOLEAN]
    BY <2>2, Zenon DEF RowsType
  <2>6. RowsType'
    BY <1>6, <2>4, <2>5 DEF RecomputeAllForTimezoneChange, RowsType
  <2> QED
    BY <1>6, <2>1, <2>6 DEF RecomputeAllForTimezoneChange, OccurrencesType, JobsType, EditsType, EnvType, HistoryType, heartbeatVars, envVars
<1>7. ASSUME NEW h \in Heartbeats, SweepFires(h)
      PROVE  TypeOK'
  <2>1. <<h, next[h]>> \in Occurrences
    BY <1>7 DEF SweepFires, Due, Occurrences, RowsType, EnvType, Instants, Times
  <2>2. rule[h] \in Rules /\ clock \in Instants /\ zone \in Zones
    BY <1>0, <1>7 DEF SweepFires, Due, EnvType
  <2>3. next' \in [Heartbeats -> Times]
    BY <1>7, <2>2, FireTimes DEF SweepFires, RowsType, Times
  <2>4. RowsType'
    BY <1>7, <2>3 DEF SweepFires, RowsType
  <2> DEFINE o == <<h, next[h]>>
             c == occ[o]
             Row == [status : Statuses, snapshot : Rules \cup {NoRule},
                     started : Times, gen : Generations]
             Job == [pc : Pcs, attempts : 0 .. MaxAttempts, kinds : BOOLEAN]
  <2>5. c \in Row
    BY <2>1 DEF OccurrencesType
  <2>6. \E x \in Row, g \in Generations :
          /\ occ' = [occ EXCEPT ![o] = x]
          /\ job' = [job EXCEPT ![<<h, next[h], g>>] = QueuedJob]
    <3>1. InsertHeartbeatOccurrence(o, rule[h])
      BY <1>7 DEF SweepFires
    <3>2. CASE /\ occ' = [occ EXCEPT ![o] = NewOccurrence(rule[h])]
               /\ EnqueueFire(o, 1)
      <4>1. /\ NewOccurrence(rule[h]) \in Row
            /\ 1 \in Generations
        BY <2>2 DEF NewOccurrence, Statuses, Times, Generations
      <4> QED
        BY <3>2, <4>1 DEF EnqueueFire
    <3>3. CASE /\ c.gen < MaxGeneration
               /\ occ' = [occ EXCEPT ![o] = [status |-> "queued", snapshot |-> rule[h],
                     started |-> IF c.status = "cancelled" THEN NoTime ELSE c.started,
                     gen |-> c.gen + 1]]
               /\ EnqueueFire(o, c.gen + 1)
      <4>1. /\ [status |-> "queued", snapshot |-> rule[h],
                started |-> IF c.status = "cancelled" THEN NoTime ELSE c.started,
                gen |-> c.gen + 1] \in Row
            /\ c.gen + 1 \in Generations
        BY <2>2, <2>5, <3>3 DEF Statuses, Times, Generations
      <4> QED
        BY <3>3, <4>1 DEF EnqueueFire
    <3> QED
      BY <3>1, <3>2, <3>3 DEF InsertHeartbeatOccurrence
  <2>7. OccurrencesType'
    BY <2>6 DEF OccurrencesType
  <2>8. JobsType'
    <3>1. QueuedJob \in Job
      BY DEF QueuedJob, Pcs
    <3> QED
      BY <2>6, <3>1 DEF JobsType
  <2> QED
    BY <1>7, <2>4, <2>7, <2>8 DEF SweepFires, EditsType, EnvType, HistoryType, envVars
<1>8. ASSUME NEW h \in Heartbeats, SweepCannotParse(h)
      PROVE  TypeOK'
  BY <1>8 DEF SweepCannotParse, RowsType, OccurrencesType, JobsType, EditsType, EnvType, HistoryType, heartbeatVars, envVars
<1>9. ASSUME NEW j \in Jobs, StartJob(j)
      PROVE  TypeOK'
  <2>1. JobsType'
    BY <1>9 DEF StartJob, JobsType, EnvType, Pcs, QueuedHasAttempts
  <2> QED
    BY <1>9, <2>1 DEF StartJob, RowsType, OccurrencesType, EditsType, EnvType, HistoryType, heartbeatVars, envVars
<1>10. ASSUME NEW j \in Jobs, PrepareNothing(j)
       PROVE  TypeOK'
  <2>1. JobsType'
    BY <1>10, SetPcType DEF PrepareNothing, Pcs
  <2> QED
    BY <1>10, <2>1 DEF PrepareNothing, RowsType, OccurrencesType, EditsType, EnvType, HistoryType, heartbeatVars, envVars
<1>11. ASSUME NEW j \in Jobs, PrepareCancels(j)
       PROVE  TypeOK'
  <2>1. JobsType'
    BY <1>11, SetPcType DEF PrepareCancels, Pcs
  <2>2. OccurrencesType'
    BY <1>11, SetStatusType, JobParts DEF PrepareCancels, Statuses, OccurrencesType
  <2> QED
    BY <1>11, <2>1, <2>2 DEF PrepareCancels, RowsType, EditsType, EnvType, HistoryType, heartbeatVars, envVars
<1>12. ASSUME NEW j \in Jobs, PrepareDegrades(j)
       PROVE  TypeOK'
  <2>1. JobsType'
    BY <1>12, SetPcType DEF PrepareDegrades, Pcs
  <2>2. OccurrencesType'
    BY <1>12, SetStatusType, JobParts DEF PrepareDegrades, Statuses, OccurrencesType
  <2> QED
    BY <1>12, <2>1, <2>2 DEF PrepareDegrades, RowsType, EditsType, EnvType, HistoryType, heartbeatVars, envVars
<1>13. ASSUME NEW j \in Jobs, PrepareProceeds(j)
       PROVE  TypeOK'
  <2>1. JobsType'
    BY <1>13, SetPcType DEF PrepareProceeds, Pcs
  <2>2. OccurrencesType' /\ RowsType'
    BY <1>13, JobParts, FireTimes DEF PrepareProceeds, FirstStart, OccurrencesType, RowsType, EnvType, AppNow, Statuses, Times, Instants
  <2> QED
    BY <1>13, <2>1, <2>2 DEF PrepareProceeds, EditsType, EnvType, HistoryType, heartbeatVars, envVars
<1>14. ASSUME NEW j \in Jobs, SetupError(j)
       PROVE  TypeOK'
  <2>1. spent' \in [Disturbances -> Nat]
    BY <1>14, SpendType DEF SetupError, Disturbances
  <2>2. JobsType'
    BY <1>14, SetPcType DEF SetupError, Pcs
  <2> QED
    BY <1>14, <2>1, <2>2 DEF SetupError, RowsType, OccurrencesType, EditsType, EnvType, HistoryType, heartbeatVars, envVars
<1>15. ASSUME NEW j \in Jobs, StartHandler(j)
       PROVE  TypeOK'
  <2>1. JobsType'
    BY <1>15, SetPcType DEF StartHandler, Pcs
  <2>2. HistoryType'
    BY <1>15, JobParts DEF StartHandler, HistoryType
  <2> QED
    BY <1>15, <2>1, <2>2 DEF StartHandler, RowsType, OccurrencesType, EditsType, EnvType, heartbeatVars, envVars
<1>16. ASSUME NEW j \in Jobs, HandlerSucceeds(j)
       PROVE  TypeOK'
  <2>1. JobsType'
    BY <1>16, SetPcType DEF HandlerSucceeds, Pcs
  <2>2. OccurrencesType'
    BY <1>16, SetStatusType, JobParts DEF HandlerSucceeds, Statuses, OccurrencesType
  <2> QED
    BY <1>16, <2>1, <2>2 DEF HandlerSucceeds, RowsType, EditsType, EnvType, HistoryType, heartbeatVars, envVars
<1>17. ASSUME NEW j \in Jobs, HandlerError(j)
       PROVE  TypeOK'
  <2>1. spent' \in [Disturbances -> Nat]
    BY <1>17, SpendType DEF HandlerError, Disturbances
  <2>2. JobsType'
    BY <1>17, SetPcType DEF HandlerError, Pcs
  <2> QED
    BY <1>17, <2>1, <2>2 DEF HandlerError, RowsType, OccurrencesType, EditsType, EnvType, HistoryType, heartbeatVars, envVars
<1>18. ASSUME NEW j \in Jobs, CloseSetup(j)
       PROVE  TypeOK'
  <2>1. JobsType'
    BY <1>18, SetPcType DEF CloseSetup, Pcs
  <2>2. OccurrencesType'
    BY <1>18, SetStatusType, JobParts DEF CloseSetup, Statuses, OccurrencesType
  <2>3. j[1] \in Heartbeats /\ (enabled[j[1]] => NextFireAt(rule[j[1]], zone, clock) \in Times)
    BY <1>0, JobParts, FireTimes DEF EnvType
  <2>4. next' \in [Heartbeats -> Times]
    BY <1>18, <2>3 DEF CloseSetup, RowsType
  <2>5. lastError' \in [Heartbeats -> BOOLEAN]
    BY <1>18, <2>3 DEF CloseSetup, RowsType
  <2>6. RowsType'
    BY <1>18, <2>4, <2>5 DEF CloseSetup, RowsType
  <2> QED
    BY <1>18, <2>1, <2>2, <2>6 DEF CloseSetup, EditsType, EnvType, HistoryType, heartbeatVars, envVars
<1>19. ASSUME NEW j \in Jobs, CloseHandler(j)
       PROVE  TypeOK'
  <2>1. JobsType'
    BY <1>19, SetPcType DEF CloseHandler, Pcs
  <2>2. OccurrencesType'
    BY <1>19, SetStatusType, JobParts DEF CloseHandler, Statuses, OccurrencesType
  <2> QED
    BY <1>19, <2>1, <2>2 DEF CloseHandler, RowsType, EditsType, EnvType, HistoryType, heartbeatVars, envVars
<1>20. ASSUME NEW j \in Jobs, CloseOutError(j)
       PROVE  TypeOK'
  <2>1. spent' \in [Disturbances -> Nat]
    BY <1>20, SpendType DEF CloseOutError, Disturbances
  <2>2. JobsType'
    BY <1>20, SetPcType DEF CloseOutError, Pcs
  <2> QED
    BY <1>20, <2>1, <2>2 DEF CloseOutError, RowsType, OccurrencesType, EditsType, EnvType, HistoryType, heartbeatVars, envVars
<1>21. ASSUME NEW j \in Jobs, CompleteJob(j)
       PROVE  TypeOK'
  <2>1. JobsType'
    BY <1>21, SetPcType DEF CompleteJob, Pcs
  <2> QED
    BY <1>21, <2>1 DEF CompleteJob, RowsType, OccurrencesType, EditsType, EnvType, HistoryType, heartbeatVars, envVars
<1>22. ASSUME NEW j \in Jobs, CrashWorker(j)
       PROVE  TypeOK'
  <2>1. spent' \in [Disturbances -> Nat]
    BY <1>22, SpendType DEF CrashWorker, Disturbances
  <2>2. JobsType'
    BY <1>22, SetPcType DEF CrashWorker, Pcs, RetryOrDie
  <2> QED
    BY <1>22, <2>1, <2>2 DEF CrashWorker, RowsType, OccurrencesType, EditsType, EnvType, HistoryType, heartbeatVars, envVars
<1>23. ASSUME Tick
       PROVE  TypeOK'
  BY <1>23 DEF Tick, RowsType, OccurrencesType, JobsType, EditsType, EnvType, HistoryType, heartbeatVars, envVars, Instants
<1>24. ASSUME ToggleModule
       PROVE  TypeOK'
  <2>1. spent' \in [Disturbances -> Nat]
    BY <1>24, SpendType DEF ToggleModule, Disturbances
  <2> QED
    BY <1>24, <2>1 DEF ToggleModule, RowsType, OccurrencesType, JobsType, EditsType, EnvType, HistoryType, heartbeatVars, envVars
<1>25. ASSUME SuspendTenant
       PROVE  TypeOK'
  <2>1. spent' \in [Disturbances -> Nat]
    BY <1>25, SpendType DEF SuspendTenant, Disturbances
  <2> QED
    BY <1>25, <2>1 DEF SuspendTenant, RowsType, OccurrencesType, JobsType, EditsType, EnvType, HistoryType, heartbeatVars, envVars
<1>26. ASSUME ReactivateTenant
       PROVE  TypeOK'
  BY <1>26 DEF ReactivateTenant, RowsType, OccurrencesType, JobsType, EditsType, EnvType, HistoryType, heartbeatVars, envVars
<1>27. CASE UNCHANGED vars
  BY <1>27 DEF vars, RowsType, OccurrencesType, JobsType, EditsType, EnvType, HistoryType, heartbeatVars, envVars
<1> QED
  BY <1>1, <1>2, <1>3, <1>4, <1>5, <1>6, <1>7, <1>8, <1>9, <1>10, <1>11, <1>12, <1>13, <1>14, <1>15, <1>16, <1>17, <1>18, <1>19, <1>20, <1>21, <1>22, <1>23, <1>24, <1>25, <1>26, <1>27 DEF Next, EditStep, FireStep, SweepDueHeartbeats

-----------------------------------------------------------------------------
(* The protocol of occurrences, generations and jobs. *)

LEMMA SameJob ==
  \A i, j \in Jobs : OccurrenceOf(i) = OccurrenceOf(j) /\ i[3] = j[3] => i = j
BY JobParts

LEMMA SetPcEffect ==
  ASSUME JobsType, NEW j \in Jobs, NEW pc \in Pcs, SetPc(j, pc)
  PROVE  \A i \in Jobs : /\ job'[i].attempts = job[i].attempts
                         /\ job'[i].pc = IF i = j THEN pc ELSE job[i].pc
BY DEF JobsType, SetPc

LEMMA SweepEffect ==
  ASSUME TypeOK, OccurrenceProtocol, NEW h \in Heartbeats, SweepFires(h)
  PROVE  /\ <<h, next[h]>> \in Occurrences /\ Exists(h)
         /\ occ[<<h, next[h]>>].status \in {"none", "queued", "cancelled"}
         /\ \E x \in [status : Statuses, snapshot : Rules \cup {NoRule}, started : Times, gen : Generations] :
              /\ x.status = "queued" /\ x.started = NoTime
              /\ \A p \in Occurrences : occ'[p] = IF p = <<h, next[h]>> THEN x ELSE occ[p]
              /\ \A i \in Jobs :
                   job'[i] = IF OccurrenceOf(i) = <<h, next[h]>> /\ i[3] = x.gen THEN QueuedJob ELSE job[i]
<1> DEFINE o == <<h, next[h]>>
           Row == [status : Statuses, snapshot : Rules \cup {NoRule}, started : Times, gen : Generations]
<1>1. o \in Occurrences /\ Exists(h) /\ rule[h] \in Rules
  BY DEF SweepFires, Due, TypeOK, RowsType, EnvType, Occurrences, Instants, Times,
         OccurrenceProtocol, GoneIsGone, Exists
<1>2. occ[o].status \in {"none", "queued", "cancelled"}
  BY DEF SweepFires, InsertHeartbeatOccurrence, Reactivatable
<1>3. \E x \in Row : /\ x.status = "queued" /\ x.started = NoTime
                     /\ occ' = [occ EXCEPT ![o] = x]
                     /\ job' = [job EXCEPT ![<<h, next[h], x.gen>>] = QueuedJob]
  <2>1. CASE occ' = [occ EXCEPT ![o] = NewOccurrence(rule[h])] /\ EnqueueFire(o, 1)
    <3> DEFINE y == NewOccurrence(rule[h])
    <3>1. y \in Row /\ y.status = "queued" /\ y.started = NoTime /\ y.gen = 1
      BY <1>1 DEF NewOccurrence, Statuses, Times, Generations
    <3>2. /\ occ' = [occ EXCEPT ![o] = y]
          /\ job' = [job EXCEPT ![<<h, next[h], y.gen>>] = QueuedJob]
      BY <2>1, <3>1 DEF EnqueueFire
    <3> HIDE DEF y
    <3> QED
      BY <3>1, <3>2
  <2>2. CASE /\ Reactivatable(occ[o], rule[h])
             /\ occ[o].gen < MaxGeneration
             /\ occ' = [occ EXCEPT ![o] = [status |-> "queued", snapshot |-> rule[h],
                   started |-> IF occ[o].status = "cancelled" THEN NoTime ELSE occ[o].started,
                   gen |-> occ[o].gen + 1]]
             /\ EnqueueFire(o, occ[o].gen + 1)
    <3>1. occ[o] \in Row
      BY <1>1 DEF TypeOK, OccurrencesType
    <3>2. occ[o].status # "cancelled" => occ[o].started = NoTime
      BY <1>1, <2>2 DEF Reactivatable, OccurrenceProtocol, QueuedHasNotStarted
    <3> DEFINE y == [status |-> "queued", snapshot |-> rule[h],
                     started |-> IF occ[o].status = "cancelled" THEN NoTime ELSE occ[o].started,
                     gen |-> occ[o].gen + 1]
    <3>3. /\ y \in Row
          /\ y.status = "queued" /\ y.started = NoTime /\ y.gen = occ[o].gen + 1
      BY <1>1, <2>2, <3>1, <3>2 DEF Statuses, Times, Generations
    <3>4. /\ occ' = [occ EXCEPT ![o] = y]
          /\ job' = [job EXCEPT ![<<h, next[h], y.gen>>] = QueuedJob]
      BY <2>2, <3>3 DEF EnqueueFire
    <3> HIDE DEF y
    <3> QED
      BY <3>3, <3>4
  <2> QED
    BY <2>1, <2>2 DEF SweepFires, InsertHeartbeatOccurrence
<1>4. PICK x \in Row : /\ x.status = "queued" /\ x.started = NoTime
                      /\ occ' = [occ EXCEPT ![o] = x]
                      /\ job' = [job EXCEPT ![<<h, next[h], x.gen>>] = QueuedJob]
  BY <1>3
<1>5. \A p \in Occurrences : occ'[p] = IF p = o THEN x ELSE occ[p]
  BY <1>1, <1>4 DEF TypeOK, OccurrencesType
<1>6. \A i \in Jobs : job'[i] = IF OccurrenceOf(i) = o /\ i[3] = x.gen THEN QueuedJob ELSE job[i]
  BY <1>4, JobParts DEF TypeOK, JobsType
<1> QED
  BY <1>1, <1>2, <1>4, <1>5, <1>6

LEMMA ProtocolStep ==
  ASSUME TypeOK, OccurrenceProtocol, TypeOK', [Next]_vars
  PROVE  OccurrenceProtocol'
<1>1. ASSUME NEW e \in Editors, NEW h \in Heartbeats, NEW r \in Rules, UpdateHeartbeatRuleRead(e, h, r)
      PROVE  OccurrenceProtocol'
  BY <1>1, JobParts, SameJob
  DEF UpdateHeartbeatRuleRead, heartbeatVars, envVars,
       OccurrenceProtocol, GoneIsGone, QueuedHasAttempts, FiringIsCurrent, OneHandlerPerOccurrence,
       QueuedHasNotStarted, CancelledIsDone, Firing, Exists
<1>2. ASSUME NEW e \in Editors, NEW h \in Heartbeats, EnableHeartbeatRead(e, h)
      PROVE  OccurrenceProtocol'
  BY <1>2, JobParts, SameJob
  DEF EnableHeartbeatRead, heartbeatVars, envVars,
       OccurrenceProtocol, GoneIsGone, QueuedHasAttempts, FiringIsCurrent, OneHandlerPerOccurrence,
       QueuedHasNotStarted, CancelledIsDone, Firing, Exists
<1>3. ASSUME NEW e \in Editors, WriteEdit(e)
      PROVE  OccurrenceProtocol'
  <2>1. edit[e] \in [op : {"rule", "enable"}, h : Heartbeats, rule : Rules, next : Times]
    BY <1>3 DEF WriteEdit, TypeOK, EditsType
  <2>2. \A h \in Heartbeats :
          /\ rule'[h] = NoRule <=> rule[h] = NoRule
          /\ rule[h] = NoRule => enabled'[h] = enabled[h] /\ next'[h] = next[h]
    BY <1>3, <2>1 DEF WriteEdit, TypeOK, RowsType, Exists
  <2>3. UNCHANGED <<occ, job>>
    BY <1>3 DEF WriteEdit
  <2> QED
    BY <2>2, <2>3, JobParts
    DEF OccurrenceProtocol, GoneIsGone, QueuedHasAttempts, FiringIsCurrent, OneHandlerPerOccurrence,
       QueuedHasNotStarted, CancelledIsDone, Firing, Exists
<1>4. ASSUME NEW h \in Heartbeats, DisableHeartbeat(h)
      PROVE  OccurrenceProtocol'
  BY <1>4, JobParts, SameJob
  DEF DisableHeartbeat, heartbeatVars, envVars,
       OccurrenceProtocol, GoneIsGone, QueuedHasAttempts, FiringIsCurrent, OneHandlerPerOccurrence,
       QueuedHasNotStarted, CancelledIsDone, Firing, Exists
<1>5. ASSUME NEW h \in Heartbeats, DeleteHeartbeat(h)
      PROVE  OccurrenceProtocol'
  <2>1. \A o \in Occurrences : IF o[1] = h THEN occ'[o].status = "none" ELSE occ'[o] = occ[o]
    BY <1>5 DEF DeleteHeartbeat, NoOccurrence
  <2>2. /\ rule' = [rule EXCEPT ![h] = NoRule] /\ rule \in [Heartbeats -> Rules \cup {NoRule}]
        /\ ~enabled'[h] /\ next'[h] = NoTime
        /\ \A k \in Heartbeats : k # h => enabled'[k] = enabled[k] /\ next'[k] = next[k]
        /\ job' = job
    BY <1>5 DEF DeleteHeartbeat, TypeOK, RowsType
  <2>3. \A k \in Heartbeats, t \in Instants : <<k, t>> \in Occurrences /\ <<k, t>>[1] = k
    BY DEF Occurrences
  <2>4. \A j \in Jobs : OccurrenceOf(j)[1] = j[1]
    BY DEF OccurrenceOf
  <2>5. GoneIsGone'
    BY <2>1, <2>2, <2>3 DEF OccurrenceProtocol, GoneIsGone, Exists
  <2>6. FiringIsCurrent' /\ CancelledIsDone'
    BY <2>1, <2>2, <2>4, JobParts DEF OccurrenceProtocol, FiringIsCurrent, CancelledIsDone, Exists
  <2> QED
    BY <2>1, <2>2, <2>5, <2>6
    DEF OccurrenceProtocol, QueuedHasAttempts, OneHandlerPerOccurrence, QueuedHasNotStarted
<1>6. ASSUME NEW z \in Zones, RecomputeAllForTimezoneChange(z)
      PROVE  OccurrenceProtocol'
  BY <1>6, JobParts, SameJob
  DEF RecomputeAllForTimezoneChange, heartbeatVars, envVars,
       OccurrenceProtocol, GoneIsGone, QueuedHasAttempts, FiringIsCurrent, OneHandlerPerOccurrence,
       QueuedHasNotStarted, CancelledIsDone, Firing, Exists
<1>7. ASSUME NEW h \in Heartbeats, SweepFires(h)
      PROVE  OccurrenceProtocol'
  <2> DEFINE o == <<h, next[h]>>
  <2>1. PICK x \in [status : Statuses, snapshot : Rules \cup {NoRule}, started : Times, gen : Generations] :
          /\ x.status = "queued" /\ x.started = NoTime
          /\ \A p \in Occurrences : occ'[p] = IF p = o THEN x ELSE occ[p]
          /\ \A i \in Jobs : job'[i] = IF OccurrenceOf(i) = o /\ i[3] = x.gen THEN QueuedJob ELSE job[i]
    BY <1>7, SweepEffect
  <2>2. /\ o \in Occurrences /\ Exists(h)
        /\ occ[o].status \in {"none", "queued", "cancelled"}
    BY <1>7, SweepEffect
  <2>6. /\ UNCHANGED <<rule, enabled>>
        /\ \A k \in Heartbeats : k # h => next'[k] = next[k]
    BY <1>7 DEF SweepFires, TypeOK, RowsType
  <2>7. GoneIsGone'
    BY <2>1, <2>2, <2>6 DEF OccurrenceProtocol, GoneIsGone, Exists, Occurrences
  <2>8. \A i \in Jobs : OccurrenceOf(i) = o => i[1] = h /\ job[i].pc \notin Firing
    BY <2>2, JobParts DEF OccurrenceProtocol, FiringIsCurrent
  <2>9. \A i \in Jobs : job'[i].pc \in Firing => job'[i] = job[i] /\ OccurrenceOf(i) # o
    BY <2>1, <2>8 DEF QueuedJob, Firing
  <2>10. FiringIsCurrent' /\ OneHandlerPerOccurrence'
    BY <2>1, <2>6, <2>9, JobParts DEF OccurrenceProtocol, FiringIsCurrent, OneHandlerPerOccurrence, Exists
  <2>11. QueuedHasAttempts' /\ QueuedHasNotStarted' /\ CancelledIsDone'
    BY <2>1, JobParts
    DEF OccurrenceProtocol, QueuedHasAttempts, QueuedHasNotStarted, CancelledIsDone, QueuedJob
  <2> QED
    BY <2>7, <2>10, <2>11 DEF OccurrenceProtocol
<1>8. ASSUME NEW h \in Heartbeats, SweepCannotParse(h)
      PROVE  OccurrenceProtocol'
  BY <1>8, JobParts, SameJob
  DEF SweepCannotParse, heartbeatVars, envVars,
       OccurrenceProtocol, GoneIsGone, QueuedHasAttempts, FiringIsCurrent, OneHandlerPerOccurrence,
       QueuedHasNotStarted, CancelledIsDone, Firing, Exists
<1>9. ASSUME NEW j \in Jobs, StartJob(j)
      PROVE  OccurrenceProtocol'
  BY <1>9, JobParts, SameJob
  DEF StartJob, heartbeatVars, envVars,
       OccurrenceProtocol, GoneIsGone, QueuedHasAttempts, FiringIsCurrent, OneHandlerPerOccurrence,
       QueuedHasNotStarted, CancelledIsDone, Firing, Exists
<1>10. ASSUME NEW j \in Jobs, PrepareNothing(j)
       PROVE  OccurrenceProtocol'
  <2>1. \A i \in Jobs : /\ job'[i].attempts = job[i].attempts
                         /\ job'[i].pc = IF i = j THEN "done" ELSE job[i].pc
    BY <1>10, SetPcEffect DEF TypeOK, PrepareNothing, Pcs
  <2> QED
    BY <1>10, <2>1, JobParts, SameJob
    DEF PrepareNothing, heartbeatVars, envVars, Current, Wanted,
       OccurrenceProtocol, GoneIsGone, QueuedHasAttempts, FiringIsCurrent, OneHandlerPerOccurrence,
       QueuedHasNotStarted, CancelledIsDone, Firing, Exists
<1>11. ASSUME NEW j \in Jobs, PrepareCancels(j)
       PROVE  OccurrenceProtocol'
  <2>1. \A i \in Jobs : /\ job'[i].attempts = job[i].attempts
                         /\ job'[i].pc = IF i = j THEN "done" ELSE job[i].pc
    BY <1>11, SetPcEffect DEF TypeOK, PrepareCancels, Pcs
  <2>2. \A p \in Occurrences : /\ occ'[p].gen = occ[p].gen
                                /\ occ'[p].started = occ[p].started
                                /\ occ'[p].status = IF p = OccurrenceOf(j)
                                                   THEN "cancelled" ELSE occ[p].status
    BY <1>11, JobParts DEF TypeOK, OccurrencesType, PrepareCancels, Statuses
  <2> QED
    BY <1>11, <2>1, <2>2, JobParts, SameJob
    DEF PrepareCancels, heartbeatVars, envVars, Current, Wanted,
       OccurrenceProtocol, GoneIsGone, QueuedHasAttempts, FiringIsCurrent, OneHandlerPerOccurrence,
       QueuedHasNotStarted, CancelledIsDone, Firing, Exists
<1>12. ASSUME NEW j \in Jobs, PrepareDegrades(j)
       PROVE  OccurrenceProtocol'
  <2>1. \A i \in Jobs : /\ job'[i].attempts = job[i].attempts
                         /\ job'[i].pc = IF i = j THEN "done" ELSE job[i].pc
    BY <1>12, SetPcEffect DEF TypeOK, PrepareDegrades, Pcs
  <2>2. \A p \in Occurrences : /\ occ'[p].gen = occ[p].gen
                                /\ occ'[p].started = occ[p].started
                                /\ occ'[p].status = IF p = OccurrenceOf(j)
                                                   THEN "failed" ELSE occ[p].status
    BY <1>12, JobParts DEF TypeOK, OccurrencesType, PrepareDegrades, Statuses
  <2> QED
    BY <1>12, <2>1, <2>2, JobParts, SameJob
    DEF PrepareDegrades, heartbeatVars, envVars, Current, Wanted,
       OccurrenceProtocol, GoneIsGone, QueuedHasAttempts, FiringIsCurrent, OneHandlerPerOccurrence,
       QueuedHasNotStarted, CancelledIsDone, Firing, Exists
<1>13. ASSUME NEW j \in Jobs, PrepareProceeds(j)
       PROVE  OccurrenceProtocol'
  <2>1. \A i \in Jobs : /\ job'[i].attempts = job[i].attempts
                        /\ job'[i].pc = IF i = j THEN "prepared" ELSE job[i].pc
    BY <1>13, SetPcEffect DEF TypeOK, PrepareProceeds, Pcs
  <2>2. /\ Exists(j[1])
        /\ occ[OccurrenceOf(j)].gen = j[3]
        /\ occ[OccurrenceOf(j)].status \notin {"none", "cancelled"}
        /\ job[j].pc = "started"
    BY <1>13, JobParts DEF PrepareProceeds, Current, OccurrenceProtocol, GoneIsGone, CancelledIsDone, Exists
  <2>3. \A p \in Occurrences :
          /\ occ'[p].gen = occ[p].gen
          /\ p # OccurrenceOf(j) => occ'[p] = occ[p]
          /\ p = OccurrenceOf(j) => occ'[p].status \in {"running", "succeeded", "failed"}
    <3>1. CASE occ[OccurrenceOf(j)].started = NoTime
      BY <1>13, <3>1, JobParts DEF PrepareProceeds, FirstStart, TypeOK, OccurrencesType
    <3>2. CASE occ[OccurrenceOf(j)].started # NoTime
      <4>1. occ[OccurrenceOf(j)].status \in {"running", "succeeded", "failed"}
        BY <2>2, <3>2, JobParts DEF OccurrenceProtocol, QueuedHasNotStarted, TypeOK, OccurrencesType, Statuses
      <4> QED
        BY <1>13, <3>2, <4>1 DEF PrepareProceeds
    <3> QED
      BY <3>1, <3>2
  <2>4. /\ UNCHANGED <<rule, enabled>>
        /\ \A k \in Heartbeats : k # j[1] => next'[k] = next[k]
    BY <1>13 DEF PrepareProceeds, FirstStart, TypeOK, RowsType
  <2>5. GoneIsGone'
    BY <2>2, <2>3, <2>4, JobParts DEF OccurrenceProtocol, GoneIsGone, Exists, Occurrences
  <2>6. FiringIsCurrent' /\ OneHandlerPerOccurrence'
    BY <2>1, <2>2, <2>3, <2>4, JobParts, SameJob
    DEF OccurrenceProtocol, FiringIsCurrent, OneHandlerPerOccurrence, Firing, Exists
  <2>7. QueuedHasAttempts' /\ QueuedHasNotStarted' /\ CancelledIsDone'
    BY <2>1, <2>3, JobParts, SameJob
    DEF OccurrenceProtocol, QueuedHasAttempts, QueuedHasNotStarted, CancelledIsDone
  <2> QED
    BY <2>5, <2>6, <2>7 DEF OccurrenceProtocol
<1>14. ASSUME NEW j \in Jobs, SetupError(j)
       PROVE  OccurrenceProtocol'
  <2>1. \A i \in Jobs : /\ job'[i].attempts = job[i].attempts
                        /\ i # j => job'[i].pc = job[i].pc
    BY <1>14, SetPcEffect DEF TypeOK, SetupError, Pcs
  <2>2. \/ job'[j].pc = "closeSetup"
        \/ job'[j].pc = "queued" /\ job[j].attempts < MaxAttempts
    BY <1>14, SetPcEffect DEF SetupError, Pcs, IsFinalAttempt, TypeOK, JobsType
  <2>3. /\ job[j].pc \in InAttempt
        /\ UNCHANGED <<rule, enabled, next, occ>>
    BY <1>14 DEF SetupError, InAttempt, heartbeatVars
  <2> QED
    BY <2>1, <2>2, <2>3, JobParts, SameJob
    DEF InAttempt, OccurrenceProtocol, GoneIsGone, QueuedHasAttempts, FiringIsCurrent, OneHandlerPerOccurrence,
       QueuedHasNotStarted, CancelledIsDone, Firing, Exists
<1>15. ASSUME NEW j \in Jobs, StartHandler(j)
       PROVE  OccurrenceProtocol'
  <2>1. \A i \in Jobs : /\ job'[i].attempts = job[i].attempts
                         /\ job'[i].pc = IF i = j THEN "handling" ELSE job[i].pc
    BY <1>15, SetPcEffect DEF TypeOK, StartHandler, Pcs
  <2> QED
    BY <1>15, <2>1, JobParts, SameJob
    DEF StartHandler, heartbeatVars, envVars,
       OccurrenceProtocol, GoneIsGone, QueuedHasAttempts, FiringIsCurrent, OneHandlerPerOccurrence,
       QueuedHasNotStarted, CancelledIsDone, Firing, Exists
<1>16. ASSUME NEW j \in Jobs, HandlerSucceeds(j)
       PROVE  OccurrenceProtocol'
  <2>1. \A i \in Jobs : /\ job'[i].attempts = job[i].attempts
                         /\ job'[i].pc = IF i = j THEN "finishing" ELSE job[i].pc
    BY <1>16, SetPcEffect DEF TypeOK, HandlerSucceeds, Pcs
  <2>2. \A p \in Occurrences : /\ occ'[p].gen = occ[p].gen
                                /\ occ'[p].started = occ[p].started
                                /\ occ'[p].status = IF p = OccurrenceOf(j) /\ occ[p].status # "none"
                                                   THEN "succeeded" ELSE occ[p].status
    BY <1>16, JobParts DEF TypeOK, OccurrencesType, HandlerSucceeds, Statuses
  <2> QED
    BY <1>16, <2>1, <2>2, JobParts, SameJob
    DEF HandlerSucceeds, heartbeatVars, envVars,
       OccurrenceProtocol, GoneIsGone, QueuedHasAttempts, FiringIsCurrent, OneHandlerPerOccurrence,
       QueuedHasNotStarted, CancelledIsDone, Firing, Exists
<1>17. ASSUME NEW j \in Jobs, HandlerError(j)
       PROVE  OccurrenceProtocol'
  <2>1. \A i \in Jobs : /\ job'[i].attempts = job[i].attempts
                        /\ i # j => job'[i].pc = job[i].pc
    BY <1>17, SetPcEffect DEF TypeOK, HandlerError, Pcs
  <2>2. \/ job'[j].pc = "closeHandler"
        \/ job'[j].pc = "queued" /\ job[j].attempts < MaxAttempts
    BY <1>17, SetPcEffect DEF HandlerError, Pcs, IsFinalAttempt, TypeOK, JobsType
  <2>3. /\ job[j].pc \in InAttempt
        /\ job[j].pc = "handling"
        /\ UNCHANGED <<rule, enabled, next, occ>>
    BY <1>17 DEF HandlerError, InAttempt, heartbeatVars
  <2> QED
    BY <2>1, <2>2, <2>3, JobParts, SameJob
    DEF InAttempt, OccurrenceProtocol, GoneIsGone, QueuedHasAttempts, FiringIsCurrent, OneHandlerPerOccurrence,
       QueuedHasNotStarted, CancelledIsDone, Firing, Exists
<1>18. ASSUME NEW j \in Jobs, CloseSetup(j)
       PROVE  OccurrenceProtocol'
  <2>1. \A i \in Jobs : /\ job'[i].attempts = job[i].attempts
                         /\ job'[i].pc = IF i = j THEN "dead" ELSE job[i].pc
    BY <1>18, SetPcEffect DEF TypeOK, CloseSetup, Pcs
  <2>2. \A p \in Occurrences : /\ occ'[p].gen = occ[p].gen
                                /\ occ'[p].started = occ[p].started
                                /\ occ'[p].status = IF p = OccurrenceOf(j) /\ occ[p].status \in {"queued", "running"} /\ Exists(j[1])
                                                   THEN "failed" ELSE occ[p].status
    BY <1>18, JobParts DEF TypeOK, OccurrencesType, CloseSetup, Statuses
  <2>3. /\ UNCHANGED <<rule, enabled>>
        /\ \A k \in Heartbeats : ~Exists(k) => next'[k] = next[k]
        /\ job[j].pc = "closeSetup"
    BY <1>18, JobParts DEF CloseSetup, TypeOK, RowsType
  <2> QED
    BY <2>1, <2>2, <2>3, JobParts, SameJob
    DEF Occurrences, OccurrenceProtocol, GoneIsGone, QueuedHasAttempts, FiringIsCurrent, OneHandlerPerOccurrence,
       QueuedHasNotStarted, CancelledIsDone, Firing, Exists
<1>19. ASSUME NEW j \in Jobs, CloseHandler(j)
       PROVE  OccurrenceProtocol'
  <2>1. \A i \in Jobs : /\ job'[i].attempts = job[i].attempts
                         /\ job'[i].pc = IF i = j THEN "dead" ELSE job[i].pc
    BY <1>19, SetPcEffect DEF TypeOK, CloseHandler, Pcs
  <2>2. \A p \in Occurrences : /\ occ'[p].gen = occ[p].gen
                                /\ occ'[p].started = occ[p].started
                                /\ occ'[p].status = IF p = OccurrenceOf(j) /\ occ[p].status # "none"
                                                   THEN "failed" ELSE occ[p].status
    BY <1>19, JobParts DEF TypeOK, OccurrencesType, CloseHandler, Statuses
  <2> QED
    BY <1>19, <2>1, <2>2, JobParts, SameJob
    DEF CloseHandler, heartbeatVars, envVars,
       OccurrenceProtocol, GoneIsGone, QueuedHasAttempts, FiringIsCurrent, OneHandlerPerOccurrence,
       QueuedHasNotStarted, CancelledIsDone, Firing, Exists
<1>20. ASSUME NEW j \in Jobs, CloseOutError(j)
       PROVE  OccurrenceProtocol'
  <2>1. \A i \in Jobs : /\ job'[i].attempts = job[i].attempts
                         /\ job'[i].pc = IF i = j THEN "dead" ELSE job[i].pc
    BY <1>20, SetPcEffect DEF TypeOK, CloseOutError, Pcs
  <2> QED
    BY <1>20, <2>1, JobParts, SameJob
    DEF CloseOutError, heartbeatVars, envVars,
       OccurrenceProtocol, GoneIsGone, QueuedHasAttempts, FiringIsCurrent, OneHandlerPerOccurrence,
       QueuedHasNotStarted, CancelledIsDone, Firing, Exists
<1>21. ASSUME NEW j \in Jobs, CompleteJob(j)
       PROVE  OccurrenceProtocol'
  <2>1. \A i \in Jobs : /\ job'[i].attempts = job[i].attempts
                         /\ job'[i].pc = IF i = j THEN "done" ELSE job[i].pc
    BY <1>21, SetPcEffect DEF TypeOK, CompleteJob, Pcs
  <2> QED
    BY <1>21, <2>1, JobParts, SameJob
    DEF CompleteJob, heartbeatVars, envVars,
       OccurrenceProtocol, GoneIsGone, QueuedHasAttempts, FiringIsCurrent, OneHandlerPerOccurrence,
       QueuedHasNotStarted, CancelledIsDone, Firing, Exists
<1>22. ASSUME NEW j \in Jobs, CrashWorker(j)
       PROVE  OccurrenceProtocol'
  <2>1. \A i \in Jobs : /\ job'[i].attempts = job[i].attempts
                        /\ i # j => job'[i].pc = job[i].pc
    BY <1>22, SetPcEffect DEF TypeOK, CrashWorker, Pcs, RetryOrDie
  <2>2. \/ job'[j].pc = "dead"
        \/ job'[j].pc = "queued" /\ job[j].attempts < MaxAttempts
    BY <1>22, SetPcEffect DEF CrashWorker, Pcs, RetryOrDie, IsFinalAttempt, TypeOK, JobsType
  <2>3. /\ job[j].pc \in InAttempt
                /\ UNCHANGED <<rule, enabled, next, occ>>
    BY <1>22 DEF CrashWorker, InAttempt, heartbeatVars
  <2> QED
    BY <2>1, <2>2, <2>3, JobParts, SameJob
    DEF InAttempt, OccurrenceProtocol, GoneIsGone, QueuedHasAttempts, FiringIsCurrent, OneHandlerPerOccurrence,
       QueuedHasNotStarted, CancelledIsDone, Firing, Exists
<1>23. ASSUME Tick
       PROVE  OccurrenceProtocol'
  BY <1>23, JobParts, SameJob
  DEF Tick, heartbeatVars, envVars,
       OccurrenceProtocol, GoneIsGone, QueuedHasAttempts, FiringIsCurrent, OneHandlerPerOccurrence,
       QueuedHasNotStarted, CancelledIsDone, Firing, Exists
<1>24. ASSUME ToggleModule
       PROVE  OccurrenceProtocol'
  BY <1>24, JobParts, SameJob
  DEF ToggleModule, heartbeatVars, envVars,
       OccurrenceProtocol, GoneIsGone, QueuedHasAttempts, FiringIsCurrent, OneHandlerPerOccurrence,
       QueuedHasNotStarted, CancelledIsDone, Firing, Exists
<1>25. ASSUME SuspendTenant
       PROVE  OccurrenceProtocol'
  BY <1>25, JobParts, SameJob
  DEF SuspendTenant, heartbeatVars, envVars,
       OccurrenceProtocol, GoneIsGone, QueuedHasAttempts, FiringIsCurrent, OneHandlerPerOccurrence,
       QueuedHasNotStarted, CancelledIsDone, Firing, Exists
<1>26. ASSUME ReactivateTenant
       PROVE  OccurrenceProtocol'
  BY <1>26, JobParts, SameJob
  DEF ReactivateTenant, heartbeatVars, envVars,
       OccurrenceProtocol, GoneIsGone, QueuedHasAttempts, FiringIsCurrent, OneHandlerPerOccurrence,
       QueuedHasNotStarted, CancelledIsDone, Firing, Exists
<1>27. CASE UNCHANGED vars
  BY <1>27 DEF vars, heartbeatVars,
       OccurrenceProtocol, GoneIsGone, QueuedHasAttempts, FiringIsCurrent, OneHandlerPerOccurrence,
       QueuedHasNotStarted, CancelledIsDone, Firing, Exists
<1> QED
  BY <1>1, <1>2, <1>3, <1>4, <1>5, <1>6, <1>7, <1>8, <1>9, <1>10, <1>11, <1>12, <1>13, <1>14, <1>15, <1>16, <1>17, <1>18, <1>19, <1>20, <1>21, <1>22, <1>23, <1>24, <1>25, <1>26, <1>27 DEF Next, EditStep, FireStep, SweepDueHeartbeats
-----------------------------------------------------------------------------
(* Disturbances. *)

LEMMA SpendEffect ==
  ASSUME HistoryType, NEW d \in Disturbances, Spend(d)
  PROVE  /\ spent[d] \in Nat
         /\ \A e \in Disturbances : spent'[e] = IF e = d THEN spent[e] + 1 ELSE spent[e]
BY DEF Spend, HistoryType

LEMMA SpentStep ==
  ASSUME TypeOK, [Next]_vars
  PROVE  \A d \in Disturbances : spent[d] <= spent'[d]
<1>1. HistoryType /\ spent \in [Disturbances -> Nat]
  BY DEF TypeOK, HistoryType
<1>2. spent' = spent \/ \E d \in Disturbances : Spend(d)
  BY DEF Next, EditStep, SweepDueHeartbeats, FireStep, vars, Disturbances,
         UpdateHeartbeatRuleRead, EnableHeartbeatRead, WriteEdit, DisableHeartbeat, DeleteHeartbeat,
         RecomputeAllForTimezoneChange, SweepFires, SweepCannotParse, StartJob, PrepareNothing,
         PrepareCancels, PrepareDegrades, PrepareProceeds, SetupError, StartHandler, HandlerSucceeds,
         HandlerError, CloseSetup, CloseHandler, CloseOutError, CompleteJob, CrashWorker,
         Tick, ToggleModule, SuspendTenant, ReactivateTenant
<1> QED
  BY <1>1, <1>2, SpendEffect

\* A kind of disturbance that has not happened after a step had not happened before it.
LEMMA UntouchedBefore ==
  ASSUME TypeOK, [Next]_vars, NEW ds \in SUBSET Disturbances, Untouched(ds)'
  PROVE  Untouched(ds) /\ \A d \in ds : ~Spend(d)
<1>1. HistoryType /\ spent \in [Disturbances -> Nat]
  BY DEF TypeOK, HistoryType
<1>2. \A d \in ds : spent[d] <= spent'[d] /\ spent'[d] = 0
  BY SpentStep DEF Untouched
<1>3. \A d \in ds : spent[d] = 0
  BY <1>1, <1>2
<1>4. ASSUME NEW d \in ds, Spend(d) PROVE FALSE
  BY <1>1, <1>2, <1>3, <1>4, SpendEffect
<1> QED
  BY <1>3, <1>4 DEF Untouched

-----------------------------------------------------------------------------
(* A due time's handler starts at most once. *)

LEMMA StartsStep ==
  ASSUME TypeOK, OccurrenceProtocol, StartIsFirst, TypeOK', [Next]_vars
  PROVE  StartIsFirst'
<1> SUFFICES ASSUME Untouched({"error", "crash"})' PROVE StartIsFirst'
  BY DEF StartIsFirst
<1>0. /\ Untouched({"error", "crash"}) /\ ~Spend("error") /\ ~Spend("crash")
  BY UntouchedBefore DEF Disturbances
<1>a. /\ \A o \in Occurrences :
           /\ starts[o] \in Nat /\ starts[o] <= 1
           /\ starts[o] > 0 /\ Exists(o[1]) => occ[o].status \in {"running", "succeeded", "failed"}
      /\ \A j \in Jobs :
           \/ job[j].pc = "prepared"
           \/ job[j].pc \in {"queued", "started"} /\ Current(j)
           => starts[OccurrenceOf(j)] = 0
  BY <1>0 DEF StartIsFirst, TypeOK, HistoryType
<1>1. ASSUME NEW e \in Editors, NEW h \in Heartbeats, NEW r \in Rules, UpdateHeartbeatRuleRead(e, h, r)
      PROVE  StartIsFirst'
  BY <1>1, <1>a, JobParts DEF UpdateHeartbeatRuleRead, heartbeatVars, StartIsFirst, Untouched, Current, Exists, OccurrenceOf, Occurrences
<1>2. ASSUME NEW e \in Editors, NEW h \in Heartbeats, EnableHeartbeatRead(e, h)
      PROVE  StartIsFirst'
  BY <1>2, <1>a, JobParts DEF EnableHeartbeatRead, heartbeatVars, StartIsFirst, Untouched, Current, Exists, OccurrenceOf, Occurrences
<1>3. ASSUME NEW e \in Editors, WriteEdit(e)
      PROVE  StartIsFirst'
  <2>1. edit[e] \in [op : {"rule", "enable"}, h : Heartbeats, rule : Rules, next : Times]
    BY <1>3 DEF WriteEdit, TypeOK, EditsType
  <2>2. /\ \A h \in Heartbeats : rule'[h] = NoRule <=> rule[h] = NoRule
        /\ UNCHANGED <<occ, job, starts>>
    BY <1>3, <2>1 DEF WriteEdit, TypeOK, RowsType, Exists
  <2> QED
    BY <1>a, <2>2, JobParts DEF StartIsFirst, Untouched, Current, Exists, Occurrences
<1>4. ASSUME NEW h \in Heartbeats, DisableHeartbeat(h)
      PROVE  StartIsFirst'
  BY <1>4, <1>a, JobParts DEF DisableHeartbeat, heartbeatVars, StartIsFirst, Untouched, Current, Exists, OccurrenceOf, Occurrences
<1>5. ASSUME NEW h \in Heartbeats, DeleteHeartbeat(h)
      PROVE  StartIsFirst'
  <2>1. \A o \in Occurrences : IF o[1] = h THEN occ'[o].status = "none" ELSE occ'[o] = occ[o]
    BY <1>5 DEF DeleteHeartbeat, NoOccurrence
  <2>2. /\ rule' = [rule EXCEPT ![h] = NoRule] /\ rule \in [Heartbeats -> Rules \cup {NoRule}]
        /\ UNCHANGED <<job, starts>>
    BY <1>5 DEF DeleteHeartbeat, TypeOK, RowsType
  <2>3. \A o \in Occurrences : o[1] \in Heartbeats
    BY DEF Occurrences
  <2>4. \A o \in Occurrences : Exists(o[1])' => o[1] # h /\ Exists(o[1])
    BY <2>2, <2>3 DEF Exists
  <2>5. \A j \in Jobs : Current(j)' => Current(j)
    BY <2>1, JobParts DEF Current
  <2> QED
    BY <1>a, <2>1, <2>2, <2>4, <2>5 DEF StartIsFirst
<1>6. ASSUME NEW z \in Zones, RecomputeAllForTimezoneChange(z)
      PROVE  StartIsFirst'
  BY <1>6, <1>a, JobParts DEF RecomputeAllForTimezoneChange, heartbeatVars, StartIsFirst, Untouched, Current, Exists, OccurrenceOf, Occurrences
<1>7. ASSUME NEW h \in Heartbeats, SweepFires(h)
      PROVE  StartIsFirst'
  <2> DEFINE o == <<h, next[h]>>
  <2>1. PICK x \in [status : Statuses, snapshot : Rules \cup {NoRule}, started : Times, gen : Generations] :
          /\ x.status = "queued" /\ x.started = NoTime
          /\ \A p \in Occurrences : occ'[p] = IF p = o THEN x ELSE occ[p]
          /\ \A i \in Jobs : job'[i] = IF OccurrenceOf(i) = o /\ i[3] = x.gen THEN QueuedJob ELSE job[i]
    BY <1>7, SweepEffect
  <2>2. /\ o \in Occurrences /\ Exists(h) /\ o[1] = h
        /\ occ[o].status \in {"none", "queued", "cancelled"}
    BY <1>7, SweepEffect
  <2>3. UNCHANGED <<rule, starts>>
    BY <1>7 DEF SweepFires
  <2>4. starts[o] = 0
    BY <1>a, <2>2
  <2>5. \A i \in Jobs : OccurrenceOf(i) # o => job'[i] = job[i] /\ (Current(i)' <=> Current(i))
    BY <2>1, JobParts DEF Current
  <2> QED
    BY <1>a, <2>1, <2>2, <2>3, <2>4, <2>5 DEF StartIsFirst, Exists
<1>8. ASSUME NEW h \in Heartbeats, SweepCannotParse(h)
      PROVE  StartIsFirst'
  BY <1>8, <1>a, JobParts DEF SweepCannotParse, heartbeatVars, StartIsFirst, Untouched, Current, Exists, OccurrenceOf, Occurrences
<1>9. ASSUME NEW j \in Jobs, StartJob(j)
      PROVE  StartIsFirst'
  <2>1. /\ job[j].pc = "queued"
        /\ \A i \in Jobs : /\ i # j => job'[i] = job[i]
                           /\ i = j => job'[i].pc \in {"started", "done"}
        /\ UNCHANGED <<rule, occ, starts>>
    BY <1>9 DEF StartJob, heartbeatVars, TypeOK, JobsType
  <2> QED
    BY <1>a, <2>1, JobParts DEF StartIsFirst, Untouched, Current, Exists
<1>10. ASSUME NEW j \in Jobs, PrepareNothing(j)
       PROVE  StartIsFirst'
  <2>1. \A i \in Jobs : job'[i].pc = IF i = j THEN "done" ELSE job[i].pc
    BY <1>10, SetPcEffect DEF TypeOK, PrepareNothing, Pcs
  <2>2. UNCHANGED <<rule, starts, occ>>
    BY <1>10 DEF PrepareNothing, heartbeatVars
  <2> QED
    BY <1>a, <2>1, <2>2, JobParts DEF StartIsFirst, Untouched, Current, Exists
<1>11. ASSUME NEW j \in Jobs, PrepareCancels(j)
       PROVE  StartIsFirst'
  <2>1. \A i \in Jobs : job'[i].pc = IF i = j THEN "done" ELSE job[i].pc
    BY <1>11, SetPcEffect DEF TypeOK, PrepareCancels, Pcs
  <2>2. /\ UNCHANGED <<rule, starts>>
        /\ \A p \in Occurrences :
             /\ occ'[p].gen = occ[p].gen
             /\ occ'[p].status # occ[p].status => p = OccurrenceOf(j) /\ occ'[p].status = "cancelled"
             /\ occ'[p].status = "none" <=> occ[p].status = "none"
    BY <1>11, JobParts DEF TypeOK, OccurrencesType, PrepareCancels, heartbeatVars, Current
  <2>3. starts[OccurrenceOf(j)] = 0
    BY <1>11, <1>a DEF PrepareCancels
  <2> QED
    BY <1>a, <2>1, <2>2, <2>3, JobParts DEF StartIsFirst, Untouched, Current, Exists
<1>12. ASSUME NEW j \in Jobs, PrepareDegrades(j)
       PROVE  StartIsFirst'
  <2>1. \A i \in Jobs : job'[i].pc = IF i = j THEN "done" ELSE job[i].pc
    BY <1>12, SetPcEffect DEF TypeOK, PrepareDegrades, Pcs
  <2>2. /\ UNCHANGED <<rule, starts>>
        /\ \A p \in Occurrences :
             /\ occ'[p].gen = occ[p].gen
             /\ occ'[p].status # occ[p].status => occ'[p].status = "failed"
             /\ occ'[p].status = "none" <=> occ[p].status = "none"
    BY <1>12, JobParts DEF TypeOK, OccurrencesType, PrepareDegrades, heartbeatVars, Current
  <2> QED
    BY <1>a, <2>1, <2>2, JobParts DEF StartIsFirst, Untouched, Current, Exists
<1>13. ASSUME NEW j \in Jobs, PrepareProceeds(j)
       PROVE  StartIsFirst'
  <2>1. \A i \in Jobs : job'[i].pc = IF i = j THEN "prepared" ELSE job[i].pc
    BY <1>13, SetPcEffect DEF TypeOK, PrepareProceeds, Pcs
  <2>2. /\ UNCHANGED <<rule, starts>>
        /\ \A p \in Occurrences :
             /\ occ'[p].gen = occ[p].gen
             /\ occ'[p].status # occ[p].status => occ'[p].status = "running"
             /\ occ'[p].status = "none" <=> occ[p].status = "none"
    BY <1>13, JobParts DEF TypeOK, OccurrencesType, PrepareProceeds, heartbeatVars, FirstStart, Current
  <2>3. starts[OccurrenceOf(j)] = 0
    BY <1>13, <1>a DEF PrepareProceeds
  <2> QED
    BY <1>a, <2>1, <2>2, <2>3, JobParts DEF StartIsFirst, Untouched, Current, Exists
<1>14. ASSUME NEW j \in Jobs, StartHandler(j)
       PROVE  StartIsFirst'
  <2>1. \A i \in Jobs : job'[i].pc = IF i = j THEN "handling" ELSE job[i].pc
    BY <1>14, SetPcEffect DEF TypeOK, StartHandler, Pcs
  <2>2. /\ job[j].pc = "prepared"
        /\ UNCHANGED <<rule, occ>>
        /\ \A p \in Occurrences : starts'[p] = IF p = OccurrenceOf(j) THEN 1 ELSE starts[p]
    BY <1>14, <1>a, JobParts DEF StartHandler, heartbeatVars, TypeOK, HistoryType
  <2>3. Exists(j[1]) => /\ occ[OccurrenceOf(j)].gen = j[3]
                        /\ occ[OccurrenceOf(j)].status \in {"running", "succeeded", "failed"}
    BY <2>2 DEF OccurrenceProtocol, FiringIsCurrent, Firing
  <2>4. \A i \in Jobs : OccurrenceOf(i) = OccurrenceOf(j) /\ i # j =>
                          job[i].pc # "prepared" /\ ~Current(i)
    <3>1. \A i \in Jobs : OccurrenceOf(i) = OccurrenceOf(j) /\ i # j => job[i].pc # "prepared"
      BY <2>2 DEF OccurrenceProtocol, OneHandlerPerOccurrence, Firing
    <3>2. ~Exists(j[1]) => occ[OccurrenceOf(j)].status = "none"
      BY JobParts DEF OccurrenceProtocol, GoneIsGone
    <3> QED
      BY <2>3, <3>1, <3>2, SameJob DEF Current
  <2>5. OccurrenceOf(j)[1] = j[1]
    BY DEF OccurrenceOf
  <2> QED
    BY <1>a, <2>1, <2>2, <2>3, <2>4, <2>5, JobParts DEF StartIsFirst, Untouched, Current, Exists
<1>15. ASSUME NEW j \in Jobs, HandlerSucceeds(j)
       PROVE  StartIsFirst'
  <2>1. \A i \in Jobs : job'[i].pc = IF i = j THEN "finishing" ELSE job[i].pc
    BY <1>15, SetPcEffect DEF TypeOK, HandlerSucceeds, Pcs
  <2>2. /\ UNCHANGED <<rule, starts>>
        /\ \A p \in Occurrences :
             /\ occ'[p].gen = occ[p].gen
             /\ occ'[p].status # occ[p].status => occ'[p].status = "succeeded"
             /\ occ'[p].status = "none" <=> occ[p].status = "none"
    BY <1>15, JobParts DEF TypeOK, OccurrencesType, HandlerSucceeds, heartbeatVars
  <2> QED
    BY <1>a, <2>1, <2>2, JobParts DEF StartIsFirst, Untouched, Current, Exists
<1>16. ASSUME NEW j \in Jobs, CloseSetup(j)
       PROVE  StartIsFirst'
  <2>1. \A i \in Jobs : job'[i].pc = IF i = j THEN "dead" ELSE job[i].pc
    BY <1>16, SetPcEffect DEF TypeOK, CloseSetup, Pcs
  <2>2. /\ UNCHANGED <<rule, starts>>
        /\ \A p \in Occurrences :
             /\ occ'[p].gen = occ[p].gen
             /\ occ'[p].status # occ[p].status => occ'[p].status = "failed"
             /\ occ'[p].status = "none" <=> occ[p].status = "none"
    BY <1>16, JobParts DEF TypeOK, OccurrencesType, CloseSetup, heartbeatVars
  <2> QED
    BY <1>a, <2>1, <2>2, JobParts DEF StartIsFirst, Untouched, Current, Exists
<1>17. ASSUME NEW j \in Jobs, CloseHandler(j)
       PROVE  StartIsFirst'
  <2>1. \A i \in Jobs : job'[i].pc = IF i = j THEN "dead" ELSE job[i].pc
    BY <1>17, SetPcEffect DEF TypeOK, CloseHandler, Pcs
  <2>2. /\ UNCHANGED <<rule, starts>>
        /\ \A p \in Occurrences :
             /\ occ'[p].gen = occ[p].gen
             /\ occ'[p].status # occ[p].status => occ'[p].status = "failed"
             /\ occ'[p].status = "none" <=> occ[p].status = "none"
    BY <1>17, JobParts DEF TypeOK, OccurrencesType, CloseHandler, heartbeatVars
  <2> QED
    BY <1>a, <2>1, <2>2, JobParts DEF StartIsFirst, Untouched, Current, Exists
<1>18. ASSUME NEW j \in Jobs, CloseOutError(j)
       PROVE  StartIsFirst'
  <2>1. \A i \in Jobs : job'[i].pc = IF i = j THEN "dead" ELSE job[i].pc
    BY <1>18, SetPcEffect DEF TypeOK, CloseOutError, Pcs
  <2>2. UNCHANGED <<rule, starts, occ>>
    BY <1>18 DEF CloseOutError, heartbeatVars
  <2> QED
    BY <1>a, <2>1, <2>2, JobParts DEF StartIsFirst, Untouched, Current, Exists
<1>19. ASSUME NEW j \in Jobs, CompleteJob(j)
       PROVE  StartIsFirst'
  <2>1. \A i \in Jobs : job'[i].pc = IF i = j THEN "done" ELSE job[i].pc
    BY <1>19, SetPcEffect DEF TypeOK, CompleteJob, Pcs
  <2>2. UNCHANGED <<rule, starts, occ>>
    BY <1>19 DEF CompleteJob, heartbeatVars
  <2> QED
    BY <1>a, <2>1, <2>2, JobParts DEF StartIsFirst, Untouched, Current, Exists
<1>20. ASSUME NEW j \in Jobs, SetupError(j) \/ HandlerError(j) \/ CrashWorker(j)
      PROVE  StartIsFirst'
  BY <1>20, <1>0 DEF SetupError, HandlerError, CrashWorker
<1>21. ASSUME Tick
       PROVE  StartIsFirst'
  BY <1>21, <1>a, JobParts DEF Tick, heartbeatVars, StartIsFirst, Untouched, Current, Exists, OccurrenceOf, Occurrences
<1>22. ASSUME ToggleModule
       PROVE  StartIsFirst'
  BY <1>22, <1>a, JobParts DEF ToggleModule, heartbeatVars, StartIsFirst, Untouched, Current, Exists, OccurrenceOf, Occurrences
<1>23. ASSUME SuspendTenant
       PROVE  StartIsFirst'
  BY <1>23, <1>a, JobParts DEF SuspendTenant, heartbeatVars, StartIsFirst, Untouched, Current, Exists, OccurrenceOf, Occurrences
<1>24. ASSUME ReactivateTenant
       PROVE  StartIsFirst'
  BY <1>24, <1>a, JobParts DEF ReactivateTenant, heartbeatVars, StartIsFirst, Untouched, Current, Exists, OccurrenceOf, Occurrences
<1>25. CASE UNCHANGED vars
  BY <1>25, <1>a DEF vars, heartbeatVars, StartIsFirst, Untouched, Current, Exists
<1> QED
  BY <1>1, <1>2, <1>3, <1>4, <1>5, <1>6, <1>7, <1>8, <1>9, <1>10, <1>11, <1>12, <1>13, <1>14, <1>15, <1>16, <1>17, <1>18, <1>19, <1>20, <1>21, <1>22, <1>23, <1>24, <1>25 DEF Next, EditStep, FireStep, SweepDueHeartbeats

-----------------------------------------------------------------------------
(* The schedule stays ahead of the occurrences. *)

\* Every operation that moves next_fire_at computes a time after now, or none.
LEMMA FireAfter ==
  ASSUME NEW r \in Rules, NEW z \in Zones, NEW t \in Instants, NextFireAt(r, z, t) # NoTime
  PROVE  NextFireAt(r, z, t) \in Nat /\ NextFireAt(r, z, t) > t
OBVIOUS

\* Each row keeps its next_fire_at, loses it, or gets one in the future; and
\* occurrences appear only at times that are due and past the row's next_fire_at.
AheadStep ==
  /\ clock' >= clock
  /\ \A e \in Editors : edit[e] = NoEdit => edit'[e] = NoEdit
  /\ \A h \in Heartbeats : next'[h] = next[h] \/ next'[h] = NoTime \/ next'[h] > clock
  /\ \A h \in Heartbeats, t \in Instants :
       occ'[<<h, t>>].status # "none" =>
         \/ occ[<<h, t>>].status # "none"
         \/ t <= clock /\ (next'[h] = NoTime \/ next'[h] > clock)

LEMMA AheadStepKeeps ==
  ASSUME TypeOK, TypeOK', ScheduleIsAhead, MaxLag = 0, Untouched({"edit"}), AheadStep
  PROVE  ScheduleIsAhead'
<1>1. /\ \A e \in Editors : edit[e] = NoEdit
      /\ \A h \in Heartbeats, t \in Instants :
           occ[<<h, t>>].status # "none" => t <= clock /\ (next[h] # NoTime => t < next[h])
  BY DEF ScheduleIsAhead
<1>2. /\ clock \in Nat /\ clock' \in Nat
      /\ \A t \in Instants : t \in Nat
      /\ \A h \in Heartbeats : next[h] \in Nat \cup {NoTime} /\ next'[h] \in Nat \cup {NoTime}
  BY DEF TypeOK, EnvType, RowsType, Instants, Times
<1>3. \A e \in Editors : edit'[e] = NoEdit
  BY <1>1 DEF AheadStep
<1>4. ASSUME NEW h \in Heartbeats, NEW t \in Instants, occ'[<<h, t>>].status # "none"
      PROVE  t <= clock' /\ (next'[h] # NoTime => t < next'[h])
  BY <1>1, <1>2, <1>4 DEF AheadStep
<1> QED
  BY <1>3, <1>4 DEF ScheduleIsAhead

LEMMA AheadStepHolds ==
  ASSUME TypeOK, OccurrenceProtocol, TypeOK', ScheduleIsAhead, MaxLag = 0, Untouched({"edit"}),
         ~Spend("edit"), [Next]_vars
  PROVE  AheadStep
<1>a. /\ clock \in Instants /\ clock \in Nat /\ zone \in Zones
      /\ \A h \in Heartbeats : enabled[h] \/ next[h] # NoTime => rule[h] \in Rules
      /\ \A p \in Heartbeats, t \in Instants : <<p, t>> \in Occurrences
  BY DEF TypeOK, EnvType, RowsType, OccurrenceProtocol, GoneIsGone, Exists, Instants, Occurrences
<1>b. AppNow = {clock}
  BY <1>a DEF AppNow, Instants
<1>c. \A e \in Editors : edit[e] = NoEdit
  BY DEF ScheduleIsAhead
<1>1. ASSUME NEW e \in Editors, NEW h \in Heartbeats,
             (\E r \in Rules : UpdateHeartbeatRuleRead(e, h, r)) \/ EnableHeartbeatRead(e, h)
      PROVE  AheadStep
  BY <1>1 DEF UpdateHeartbeatRuleRead, EnableHeartbeatRead
<1>2. ASSUME NEW h \in Heartbeats, DisableHeartbeat(h)
      PROVE  AheadStep
  BY <1>2 DEF DisableHeartbeat
<1>3. ASSUME NEW h \in Heartbeats, DeleteHeartbeat(h)
      PROVE  AheadStep
  <2>1. \A k \in Heartbeats : next'[k] = next[k] \/ next'[k] = NoTime
    BY <1>3 DEF DeleteHeartbeat, TypeOK, RowsType
  <2>2. \A o \in Occurrences : occ'[o].status # "none" => occ[o].status # "none"
    BY <1>3 DEF DeleteHeartbeat, NoOccurrence
  <2> QED
    BY <1>3, <1>a, <2>1, <2>2 DEF DeleteHeartbeat, envVars, AheadStep
<1>4. ASSUME NEW z \in Zones, RecomputeAllForTimezoneChange(z)
      PROVE  AheadStep
  <2>1. \A h \in Heartbeats :
          next'[h] = next[h] \/ (rule[h] \in Rules /\ next'[h] = NextFireAt(rule[h], z, clock))
    BY <1>4, <1>a, <1>b DEF RecomputeAllForTimezoneChange
  <2>2. \A h \in Heartbeats : next'[h] = next[h] \/ next'[h] = NoTime \/ next'[h] > clock
    BY <1>a, <2>1, FireAfter
  <2> QED
    BY <1>4, <1>a, <2>2 DEF RecomputeAllForTimezoneChange, AheadStep
<1>5. ASSUME NEW h \in Heartbeats, SweepFires(h)
      PROVE  AheadStep
  <2>1. rule[h] \in Rules /\ next[h] <= clock
    BY <1>5, <1>a DEF SweepFires, Due
  <2>2. next'[h] = NoTime \/ next'[h] = NextFireAt(rule[h], zone, clock)
    BY <1>5 DEF SweepFires, TypeOK, RowsType
  <2>3. next'[h] = NoTime \/ next'[h] > clock
    BY <1>a, <2>1, <2>2, FireAfter
  <2>4. /\ \A k \in Heartbeats : k # h => next'[k] = next[k]
        /\ UNCHANGED <<edit, clock>>
    BY <1>5 DEF SweepFires, TypeOK, RowsType, envVars
  <2>5. \A p \in Occurrences : p # <<h, next[h]>> => occ'[p] = occ[p]
    BY <1>5, SweepEffect
  <2>6. ASSUME NEW k \in Heartbeats, NEW t \in Instants, occ'[<<k, t>>].status # "none",
               occ[<<k, t>>].status = "none"
        PROVE  k = h /\ t <= clock
    <3>1. <<k, t>> = <<h, next[h]>>
      BY <1>a, <2>5, <2>6
    <3> QED
      BY <2>1, <3>1
  <2>7. \A k \in Heartbeats : next'[k] = next[k] \/ next'[k] = NoTime \/ next'[k] > clock
    BY <2>3, <2>4
  <2>8. \A k \in Heartbeats, t \in Instants :
          occ'[<<k, t>>].status # "none" =>
            \/ occ[<<k, t>>].status # "none"
            \/ t <= clock /\ (next'[k] = NoTime \/ next'[k] > clock)
    BY <2>3, <2>6
  <2> QED
    BY <1>a, <2>4, <2>7, <2>8 DEF AheadStep
<1>6. ASSUME NEW h \in Heartbeats, SweepCannotParse(h)
      PROVE  AheadStep
  BY <1>6, <1>a DEF SweepCannotParse, heartbeatVars, envVars, AheadStep
<1>7. ASSUME NEW j \in Jobs, StartJob(j)
      PROVE  AheadStep
  BY <1>7, <1>a DEF StartJob, heartbeatVars, envVars, AheadStep
<1>8. ASSUME NEW j \in Jobs, PrepareNothing(j)
      PROVE  AheadStep
  BY <1>8, <1>a DEF PrepareNothing, heartbeatVars, envVars, AheadStep
<1>9. ASSUME NEW j \in Jobs, PrepareCancels(j)
      PROVE  AheadStep
  <2>1. \A p \in Occurrences : occ'[p].status # "none" => occ[p].status # "none"
    BY <1>9, JobParts DEF PrepareCancels, TypeOK, OccurrencesType, Current
  <2> QED
    BY <1>9, <1>a, <2>1 DEF PrepareCancels, heartbeatVars, envVars, AheadStep
<1>10. ASSUME NEW j \in Jobs, PrepareDegrades(j)
       PROVE  AheadStep
  <2>1. \A p \in Occurrences : occ'[p].status # "none" => occ[p].status # "none"
    BY <1>10, JobParts DEF PrepareDegrades, TypeOK, OccurrencesType, Current
  <2> QED
    BY <1>10, <1>a, <2>1 DEF PrepareDegrades, heartbeatVars, envVars, AheadStep
<1>11. ASSUME NEW j \in Jobs, PrepareProceeds(j)
       PROVE  AheadStep
  <2>1. \A p \in Occurrences : occ'[p].status # "none" => occ[p].status # "none"
    BY <1>11, JobParts DEF PrepareProceeds, FirstStart, Current, TypeOK, OccurrencesType
  <2>2. rule[j[1]] \in Rules /\ j[1] \in Heartbeats
    BY <1>11, <1>a, JobParts DEF PrepareProceeds, Wanted
  <2>3. \A h \in Heartbeats :
          next'[h] = next[h] \/ (h = j[1] /\ next'[h] = NextFireAt(rule[h], zone, clock))
    BY <1>11, <1>b, <2>2 DEF PrepareProceeds, FirstStart, TypeOK, RowsType
  <2>4. \A h \in Heartbeats : next'[h] = next[h] \/ next'[h] = NoTime \/ next'[h] > clock
    BY <1>a, <2>2, <2>3, FireAfter
  <2> QED
    BY <1>11, <1>a, <2>1, <2>4 DEF PrepareProceeds, envVars, AheadStep
<1>12. ASSUME NEW j \in Jobs, SetupError(j)
       PROVE  AheadStep
  BY <1>12, <1>a DEF SetupError, heartbeatVars, envVars, AheadStep
<1>13. ASSUME NEW j \in Jobs, StartHandler(j)
       PROVE  AheadStep
  BY <1>13, <1>a DEF StartHandler, heartbeatVars, envVars, AheadStep
<1>14. ASSUME NEW j \in Jobs, HandlerSucceeds(j)
       PROVE  AheadStep
  <2>1. \A p \in Occurrences : occ'[p].status # "none" => occ[p].status # "none"
    BY <1>14, JobParts DEF HandlerSucceeds, TypeOK, OccurrencesType
  <2> QED
    BY <1>14, <1>a, <2>1 DEF HandlerSucceeds, heartbeatVars, envVars, AheadStep
<1>15. ASSUME NEW j \in Jobs, HandlerError(j)
       PROVE  AheadStep
  BY <1>15, <1>a DEF HandlerError, heartbeatVars, envVars, AheadStep
<1>16. ASSUME NEW j \in Jobs, CloseSetup(j)
       PROVE  AheadStep
  <2>1. \A p \in Occurrences : occ'[p].status # "none" => occ[p].status # "none"
    BY <1>16, JobParts DEF CloseSetup, TypeOK, OccurrencesType
  <2>2. \A h \in Heartbeats :
          next'[h] = next[h] \/ (rule[h] \in Rules /\ next'[h] = NextFireAt(rule[h], zone, clock))
    BY <1>16, <1>a, JobParts DEF CloseSetup, TypeOK, RowsType
  <2>3. \A h \in Heartbeats : next'[h] = next[h] \/ next'[h] = NoTime \/ next'[h] > clock
    BY <1>a, <2>2, FireAfter
  <2> QED
    BY <1>16, <1>a, <2>1, <2>3 DEF CloseSetup, envVars, AheadStep
<1>17. ASSUME NEW j \in Jobs, CloseHandler(j)
       PROVE  AheadStep
  <2>1. \A p \in Occurrences : occ'[p].status # "none" => occ[p].status # "none"
    BY <1>17, JobParts DEF CloseHandler, TypeOK, OccurrencesType
  <2> QED
    BY <1>17, <1>a, <2>1 DEF CloseHandler, heartbeatVars, envVars, AheadStep
<1>18. ASSUME NEW j \in Jobs, CloseOutError(j)
       PROVE  AheadStep
  BY <1>18, <1>a DEF CloseOutError, heartbeatVars, envVars, AheadStep
<1>19. ASSUME NEW j \in Jobs, CompleteJob(j)
       PROVE  AheadStep
  BY <1>19, <1>a DEF CompleteJob, heartbeatVars, envVars, AheadStep
<1>20. ASSUME NEW j \in Jobs, CrashWorker(j)
       PROVE  AheadStep
  BY <1>20, <1>a DEF CrashWorker, heartbeatVars, envVars, AheadStep
<1>21. ASSUME Tick
       PROVE  AheadStep
  BY <1>21, <1>a DEF Tick, heartbeatVars, envVars, AheadStep
<1>22. ASSUME ToggleModule
       PROVE  AheadStep
  BY <1>22, <1>a DEF ToggleModule, heartbeatVars, envVars, AheadStep
<1>23. ASSUME SuspendTenant
       PROVE  AheadStep
  BY <1>23, <1>a DEF SuspendTenant, heartbeatVars, envVars, AheadStep
<1>24. ASSUME ReactivateTenant
       PROVE  AheadStep
  BY <1>24, <1>a DEF ReactivateTenant, heartbeatVars, envVars, AheadStep
<1>25. CASE UNCHANGED vars
  BY <1>25, <1>a DEF vars, heartbeatVars, envVars, AheadStep
<1>26. ASSUME NEW e \in Editors, WriteEdit(e)
       PROVE  AheadStep
  BY <1>26, <1>c DEF WriteEdit
<1> QED
  BY <1>1, <1>2, <1>3, <1>4, <1>5, <1>6, <1>7, <1>8, <1>9, <1>10, <1>11, <1>12, <1>13, <1>14, <1>15, <1>16, <1>17, <1>18, <1>19, <1>20, <1>21, <1>22, <1>23, <1>24, <1>25, <1>26 DEF Next, EditStep, FireStep, SweepDueHeartbeats

LEMMA ScheduleStep ==
  ASSUME TypeOK, OccurrenceProtocol, ScheduleIsAhead, TypeOK', [Next]_vars
  PROVE  ScheduleIsAhead'
<1> SUFFICES ASSUME MaxLag = 0, Untouched({"edit"})' PROVE ScheduleIsAhead'
  BY DEF ScheduleIsAhead
<1>1. Untouched({"edit"}) /\ ~Spend("edit")
  BY UntouchedBefore DEF Disturbances
<1> QED
  BY <1>1, AheadStepHolds, AheadStepKeeps

-----------------------------------------------------------------------------
(* The theorems. *)

LEMMA InitInv == Init => IndInv
<1> SUFFICES ASSUME Init PROVE IndInv
  OBVIOUS
<1>1. TypeOK
  BY TypeInit
<1>2. /\ \A o \in Occurrences : occ[o].status = "none" /\ starts[o] = 0
      /\ \A j \in Jobs : job[j].pc = "none"
      /\ \A h \in Heartbeats : Exists(h)
  BY DEF Init, NoOccurrence, NoJob, Exists
<1>3. OccurrenceProtocol
  BY <1>2, JobParts DEF OccurrenceProtocol, GoneIsGone, QueuedHasAttempts, FiringIsCurrent, Firing,
                        OneHandlerPerOccurrence, QueuedHasNotStarted, CancelledIsDone
<1>4. StartIsFirst
  BY <1>2 DEF StartIsFirst
<1>5. ScheduleIsAhead
  <2>1. \A h \in Heartbeats, t \in Instants : <<h, t>> \in Occurrences
    BY DEF Occurrences
  <2> QED
    BY <1>2, <2>1 DEF ScheduleIsAhead, Init
<1> QED
  BY <1>1, <1>3, <1>4, <1>5 DEF IndInv

(* The scheduler's state stays well formed and keeps its inductive         *)
(* invariant through every sweep, fire, edit, fault and crash of           *)
(* schedulerStore.ts and sweep.ts.                                         *)
THEOREM Invariance == Spec => []IndInv
<1>1. IndInv /\ [Next]_vars => IndInv'
  <2> SUFFICES ASSUME IndInv, [Next]_vars PROVE IndInv'
    OBVIOUS
  <2>1. TypeOK'
    BY TypeStep DEF IndInv, OccurrenceProtocol
  <2> QED
    BY <2>1, ProtocolStep, StartsStep, ScheduleStep DEF IndInv
<1> QED
  BY InitInv, <1>1, PTL DEF Spec

(* At any time at most one fire job of an occurrence is past preparation:  *)
(* prepareHeartbeatOccurrenceFire lets only the current generation through.*)
THEOREM OneHandler == Spec => []OneHandlerPerOccurrence
<1>1. IndInv => OneHandlerPerOccurrence
  BY DEF IndInv, OccurrenceProtocol
<1> QED
  BY Invariance, <1>1, PTL

(* As long as no attempt fails and no worker dies, the handler of a due    *)
(* time runs at most once, however often the rule is edited, disabled,     *)
(* enabled and swept again.                                                *)
THEOREM AtMostOneFire == Spec => []FiresAtMostOnce
<1>1. IndInv => FiresAtMostOnce
  BY DEF IndInv, StartIsFirst, FiresAtMostOnce
<1> QED
  BY Invariance, <1>1, PTL

(* Without edits, and without lag between the clocks, no due heartbeat is  *)
(* stuck behind a finished occurrence: sweepDueHeartbeats never meets the  *)
(* conflict it would treat as a no-op for ever.                            *)
THEOREM NoStall == Spec => []NeverStalledWithoutEdits
<1>1. IndInv => NeverStalledWithoutEdits
  <2> SUFFICES ASSUME IndInv, MaxLag = 0, Untouched({"edit"}), NEW h \in Heartbeats, Due(h)
               PROVE  occ[<<h, next[h]>>].status \notin {"succeeded", "failed"}
    BY DEF NeverStalledWithoutEdits, NeverStalled
  <2>1. next[h] \in Instants
    BY DEF IndInv, TypeOK, RowsType, EnvType, Due, Times, Instants
  <2>2. ~(next[h] < next[h]) /\ next[h] # NoTime
    BY <2>1 DEF Due, Instants
  <2> QED
    BY <2>1, <2>2 DEF IndInv, ScheduleIsAhead
<1> QED
  BY Invariance, <1>1, PTL

-----------------------------------------------------------------------------
(* No enabled heartbeat drops out of the schedule. *)

LEMMA FireHasSchedule ==
  \A r \in Rules, z \in Zones, t \in Instants : HasSchedule(r, NextFireAt(r, z, t))
BY DEF HasSchedule

\* An enabled heartbeat exists, and what it fires by is a rule.
LEMMA EnabledHasRule ==
  ASSUME IndInv
  PROVE  /\ \A h \in Heartbeats : enabled[h] => rule[h] \in Rules /\ Exists(h)
         /\ \A h \in Heartbeats : Exists(h) => rule[h] \in Rules
         /\ zone \in Zones /\ clock \in Instants
         /\ AppNow \subseteq Instants
BY DEF IndInv, TypeOK, OccurrenceProtocol, GoneIsGone, RowsType, EnvType, AppNow, Exists

Kept(h) == enabled[h] => HasSchedule(rule[h], next[h]) \/ FloatingAwaits(h)

(* A fire's step leaves rows, settings and edits alone but for next_fire_at, *)
(* and a fire that waits for its first start either keeps waiting or gives   *)
(* the heartbeat a schedule.                                                 *)
FireEffect ==
  /\ UNCHANGED <<rule, enabled, edit, tenantActive>>
  /\ \A h \in Heartbeats : enabled[h] => next'[h] = next[h] \/ HasSchedule(rule[h], next'[h])
  /\ \A w \in Jobs :
       enabled[w[1]] /\ next[w[1]] = NoTime /\ IsFloatingRuleKind(rule[w[1]].kind) /\ Awaits(w)
         => Awaits(w)' \/ HasSchedule(rule[w[1]], next'[w[1]])

\* No occurrence disappears, changes its generation or snapshot, or forgets its start.
KeepsOccurrences ==
  \A o \in Occurrences :
    /\ occ'[o].gen = occ[o].gen /\ occ'[o].snapshot = occ[o].snapshot
    /\ occ'[o].started = occ[o].started
    /\ occ[o].status # "none" => occ'[o].status # "none"

LEMMA StatusEffect ==
  ASSUME OccurrencesType, NEW o \in Occurrences, NEW s \in Statuses \ {"none"},
         occ' = [occ EXCEPT ![o].status = s] \/ occ' = occ
  PROVE  KeepsOccurrences
BY DEF OccurrencesType, KeepsOccurrences

LEMMA StillAwaits ==
  ASSUME NEW w \in Jobs, Awaits(w), rule' = rule, KeepsOccurrences,
         job'[w].pc \in {"queued", "started", "closeSetup"}
  PROVE  Awaits(w)'
<1>1. OccurrenceOf(w) \in Occurrences
  BY JobParts
<1> QED
  BY <1>1 DEF Awaits, Current, KeepsOccurrences

LEMMA FireStepEffect ==
  ASSUME IndInv, tenantActive, NEW j \in Jobs, FireStep(j), ~CloseOutError(j), ~CrashWorker(j)
  PROVE  FireEffect
<1>0. /\ TypeOK /\ JobsType /\ OccurrencesType /\ RowsType
      /\ j[1] \in Heartbeats /\ OccurrenceOf(j) \in Occurrences
      /\ \A w \in Jobs : w[1] \in Heartbeats /\ OccurrenceOf(w) \in Occurrences
      /\ \A w \in Jobs : Awaits(w) => job[w].pc \in {"queued", "started", "closeSetup"}
  BY JobParts DEF IndInv, TypeOK, Awaits
<1>a. ASSUME occ' = occ PROVE KeepsOccurrences
  BY <1>a DEF KeepsOccurrences
<1>1. CASE StartJob(j)
  <2>1. /\ UNCHANGED <<rule, enabled, edit, tenantActive, next, occ>>
        /\ job'[j].pc = "started"
        /\ \A w \in Jobs \ {j} : job'[w] = job[w]
    BY <1>0, <1>1 DEF StartJob, heartbeatVars, envVars, JobsType
  <2>2. \A w \in Jobs : Awaits(w) => Awaits(w)'
    BY <1>0, <1>a, <2>1, StillAwaits
  <2> QED
    BY <2>1, <2>2 DEF FireEffect
<1>2. CASE PrepareNothing(j)
  <2>1. /\ UNCHANGED <<rule, enabled, edit, tenantActive, next, occ>>
        /\ \A w \in Jobs \ {j} : job'[w].pc = job[w].pc
        /\ ~Awaits(j)
    BY <1>0, <1>2, SetPcEffect DEF PrepareNothing, heartbeatVars, envVars, Pcs, Awaits, Current
  <2>2. \A w \in Jobs : Awaits(w) => Awaits(w)'
    BY <1>0, <1>a, <2>1, StillAwaits
  <2> QED
    BY <2>1, <2>2 DEF FireEffect
<1>3. CASE PrepareCancels(j)
  <2>1. /\ UNCHANGED <<rule, enabled, edit, tenantActive, next>>
        /\ \A w \in Jobs \ {j} : job'[w].pc = job[w].pc
        /\ ~(enabled[j[1]] /\ Awaits(j))
    BY <1>0, <1>3, SetPcEffect DEF PrepareCancels, heartbeatVars, envVars, Pcs, Awaits, Wanted
  <2>2. KeepsOccurrences
    BY <1>0, <1>3, StatusEffect DEF PrepareCancels, Statuses
  <2>3. \A w \in Jobs : enabled[w[1]] /\ Awaits(w) => Awaits(w)'
    BY <1>0, <2>1, <2>2, StillAwaits
  <2> QED
    BY <2>1, <2>3 DEF FireEffect
<1>4. CASE PrepareDegrades(j)
  <2>1. /\ UNCHANGED <<rule, enabled, edit, tenantActive, next>>
        /\ \A w \in Jobs \ {j} : job'[w].pc = job[w].pc
        /\ ~IsFloatingRuleKind(rule[j[1]].kind)
    BY <1>0, <1>4, SetPcEffect
       DEF PrepareDegrades, envVars, Pcs, Parses, CoreKinds, IsFloatingRuleKind
  <2>2. KeepsOccurrences
    BY <1>0, <1>4, StatusEffect DEF PrepareDegrades, Statuses
  <2>3. \A w \in Jobs : IsFloatingRuleKind(rule[w[1]].kind) /\ Awaits(w) => Awaits(w)'
    BY <1>0, <2>1, <2>2, StillAwaits
  <2> QED
    BY <2>1, <2>3 DEF FireEffect
<1>5. CASE PrepareProceeds(j)
  <2>1. /\ UNCHANGED <<rule, enabled, edit, tenantActive>>
        /\ \A w \in Jobs \ {j} : job'[w].pc = job[w].pc
        /\ enabled[j[1]] /\ rule[j[1]] \in Rules /\ Current(j)
    BY <1>0, <1>5, SetPcEffect, EnabledHasRule DEF PrepareProceeds, envVars, Pcs, Wanted
  <2>2. CASE occ[OccurrenceOf(j)].started = NoTime
    <3>1. PICK now \in AppNow :
            /\ occ' = [occ EXCEPT ![OccurrenceOf(j)].status = "running",
                                  ![OccurrenceOf(j)].started = now]
            /\ next' = IF IsFloatingRuleKind(rule[j[1]].kind)
                       THEN [next EXCEPT ![j[1]] = NextFireAt(rule[j[1]], zone, now)]
                       ELSE next
      BY <1>5, <2>2 DEF PrepareProceeds, FirstStart
    <3>2. HasSchedule(rule[j[1]], NextFireAt(rule[j[1]], zone, now))
      BY <2>1, FireHasSchedule, EnabledHasRule
    <3>3. \A h \in Heartbeats :
            next'[h] = IF h = j[1] /\ IsFloatingRuleKind(rule[h].kind)
                       THEN NextFireAt(rule[j[1]], zone, now) ELSE next[h]
      BY <1>0, <3>1 DEF RowsType
    <3>4. \A w \in Jobs : OccurrenceOf(w) # OccurrenceOf(j) => occ'[OccurrenceOf(w)] = occ[OccurrenceOf(w)]
      BY <1>0, <3>1 DEF OccurrencesType
    <3>5. ASSUME NEW w \in Jobs, Awaits(w), IsFloatingRuleKind(rule[w[1]].kind)
          PROVE  Awaits(w)' \/ HasSchedule(rule[w[1]], next'[w[1]])
      <4>1. CASE w[1] = j[1]
        BY <1>0, <3>2, <3>3, <3>5, <4>1
      <4>2. CASE w[1] # j[1]
        <5>1. w # j /\ OccurrenceOf(w) # OccurrenceOf(j)
          BY <4>2, JobParts DEF OccurrenceOf
        <5> QED
          BY <1>0, <2>1, <3>4, <3>5, <5>1 DEF Awaits, Current
      <4> QED
        BY <4>1, <4>2
    <3>6. \A h \in Heartbeats : next'[h] = next[h] \/ HasSchedule(rule[h], next'[h])
      BY <3>2, <3>3
    <3> QED
      BY <2>1, <3>5, <3>6 DEF FireEffect
  <2>3. CASE occ[OccurrenceOf(j)].started # NoTime
    <3>1. UNCHANGED <<next, occ>> /\ ~Awaits(j)
      BY <1>5, <2>3 DEF PrepareProceeds, Awaits
    <3>2. \A w \in Jobs : Awaits(w) => Awaits(w)'
      BY <1>0, <1>a, <2>1, <3>1, StillAwaits
    <3> QED
      BY <2>1, <3>1, <3>2 DEF FireEffect
  <2> QED
    BY <2>2, <2>3
<1>6. CASE SetupError(j)
  <2>1. /\ UNCHANGED <<rule, enabled, edit, tenantActive, next, occ>>
        /\ \A w \in Jobs \ {j} : job'[w].pc = job[w].pc
        /\ job'[j].pc \in {"queued", "closeSetup"}
    BY <1>0, <1>6, SetPcEffect DEF SetupError, heartbeatVars, envVars, Pcs
  <2>2. \A w \in Jobs : Awaits(w) => Awaits(w)'
    BY <1>0, <1>a, <2>1, StillAwaits
  <2> QED
    BY <2>1, <2>2 DEF FireEffect
<1>7. CASE CloseSetup(j)
  <2>1. /\ UNCHANGED <<rule, enabled, edit, tenantActive>>
        /\ \A w \in Jobs \ {j} : job'[w].pc = job[w].pc
    BY <1>0, <1>7, SetPcEffect DEF CloseSetup, envVars, Pcs
  <2>2. KeepsOccurrences
    BY <1>0, <1>7, StatusEffect DEF CloseSetup, Statuses
  <2>3. \A h \in Heartbeats :
          \/ next'[h] = next[h]
          \/ h = j[1] /\ enabled[h] /\ next'[h] = NextFireAt(rule[h], zone, clock)
    BY <1>0, <1>7 DEF CloseSetup, RowsType
  <2>4. \A h \in Heartbeats : next'[h] = next[h] \/ HasSchedule(rule[h], next'[h])
    BY <2>3, FireHasSchedule, EnabledHasRule
  <2>5. ASSUME enabled[j[1]], next[j[1]] = NoTime, IsFloatingRuleKind(rule[j[1]].kind)
        PROVE  HasSchedule(rule[j[1]], next'[j[1]])
    <3>1. Exists(j[1]) /\ Parses(rule[j[1]], job[j].kinds)
      BY <1>0, <2>5, EnabledHasRule DEF Parses, IsFloatingRuleKind, CoreKinds
    <3>2. next'[j[1]] = NextFireAt(rule[j[1]], zone, clock)
      BY <1>0, <1>7, <2>5, <3>1 DEF CloseSetup, RowsType
    <3> QED
      BY <1>0, <2>5, <3>2, FireHasSchedule, EnabledHasRule
  <2>6. \A w \in Jobs : Awaits(w) /\ w # j => Awaits(w)'
    BY <1>0, <2>1, <2>2, StillAwaits
  <2> QED
    BY <2>1, <2>4, <2>5, <2>6 DEF FireEffect
<1>8. CASE HandlerSucceeds(j) \/ CloseHandler(j)
  <2>0. \E pc \in Pcs : SetPc(j, pc)
    BY <1>8 DEF HandlerSucceeds, CloseHandler, Pcs
  <2>1. /\ UNCHANGED <<rule, enabled, edit, tenantActive, next>>
        /\ \A w \in Jobs \ {j} : job'[w].pc = job[w].pc
    BY <1>0, <1>8, <2>0, SetPcEffect DEF HandlerSucceeds, CloseHandler, envVars
  <2>a. ~Awaits(j)
    BY <1>8 DEF HandlerSucceeds, CloseHandler, Awaits
  <2>2. KeepsOccurrences
    BY <1>0, <1>8, StatusEffect DEF HandlerSucceeds, CloseHandler, Statuses
  <2>3. \A w \in Jobs : Awaits(w) => Awaits(w)'
    BY <1>0, <2>1, <2>a, <2>2, StillAwaits
  <2> QED
    BY <2>1, <2>3 DEF FireEffect
<1>9. CASE StartHandler(j) \/ HandlerError(j) \/ CompleteJob(j)
  <2>0. \E pc \in Pcs : SetPc(j, pc)
    BY <1>9 DEF StartHandler, HandlerError, CompleteJob, Pcs
  <2>1. /\ UNCHANGED <<rule, enabled, edit, tenantActive, next, occ>>
        /\ \A w \in Jobs \ {j} : job'[w].pc = job[w].pc
    BY <1>0, <1>9, <2>0, SetPcEffect DEF StartHandler, HandlerError, CompleteJob, heartbeatVars, envVars
  <2>a. ~Awaits(j)
    BY <1>9 DEF StartHandler, HandlerError, CompleteJob, Awaits
  <2>2. \A w \in Jobs : Awaits(w) => Awaits(w)'
    BY <1>0, <1>a, <2>1, <2>a, StillAwaits
  <2> QED
    BY <2>1, <2>2 DEF FireEffect
<1> QED
  BY <1>1, <1>2, <1>3, <1>4, <1>5, <1>6, <1>7, <1>8, <1>9 DEF FireStep
\* A sweep leaves its heartbeat scheduled, or unscheduled behind a fire of its rule.
LEMMA SweepKeeps ==
  ASSUME IndInv, NEW h \in Heartbeats, SweepFires(h), NEW k \in Heartbeats, Kept(k)
  PROVE  Kept(k)'
<1> DEFINE o == <<h, next[h]>>
<1>0. /\ UNCHANGED <<rule, enabled>>
      /\ TypeOK /\ RowsType /\ OccurrencesType /\ JobsType
      /\ o \in Occurrences /\ enabled[h] /\ rule[h] \in Rules /\ zone \in Zones /\ clock \in Instants
  BY SweepEffect, EnabledHasRule DEF IndInv, TypeOK, SweepFires, Due
<1>1. CASE k # h
  <2>1. next'[k] = next[k]
    BY <1>0, <1>1 DEF SweepFires, RowsType
  <2>2. ASSUME NEW w \in Jobs, w[1] = k, Awaits(w) PROVE Awaits(w)'
    <3>1. OccurrenceOf(w) # o /\ OccurrenceOf(w) \in Occurrences
      BY <1>1, <2>2, JobParts
    <3>2. occ'[OccurrenceOf(w)] = occ[OccurrenceOf(w)] /\ job'[w] = job[w]
      BY <3>1, SweepEffect DEF IndInv
    <3> QED
      BY <1>0, <2>2, <3>2 DEF Awaits, Current
  <2> QED
    BY <1>0, <2>1, <2>2 DEF Kept, FloatingAwaits
<1>2. CASE k = h /\ ~IsFloatingRuleKind(rule[h].kind)
  <2>1. next'[h] = NextFireAt(rule[h], zone, clock)
    BY <1>0, <1>2 DEF SweepFires, RowsType
  <2> QED
    BY <1>0, <1>2, <2>1, FireHasSchedule DEF Kept
<1>3. CASE k = h /\ IsFloatingRuleKind(rule[h].kind)
  <2>1. PICK g \in Generations, s \in Times :
          /\ occ' = [occ EXCEPT ![o] = [status |-> "queued", snapshot |-> rule[h], started |-> s, gen |-> g]]
          /\ s = NoTime
          /\ EnqueueFire(o, g)
    <3>1. InsertHeartbeatOccurrence(o, rule[h])
      BY DEF SweepFires
    <3>2. CASE occ' = [occ EXCEPT ![o] = NewOccurrence(rule[h])] /\ EnqueueFire(o, 1)
      <4>1. 1 \in Generations /\ NoTime \in Times
        BY DEF Generations, Times
      <4>2. occ' = [occ EXCEPT ![o] = [status |-> "queued", snapshot |-> rule[h],
                                       started |-> NoTime, gen |-> 1]]
        BY <3>2 DEF NewOccurrence
      <4> QED
        BY <3>2, <4>1, <4>2
    <3>3. CASE /\ Reactivatable(occ[o], rule[h]) /\ occ[o].gen < MaxGeneration
               /\ occ' = [occ EXCEPT ![o] = [status |-> "queued", snapshot |-> rule[h],
                     started |-> IF occ[o].status = "cancelled" THEN NoTime ELSE occ[o].started,
                     gen |-> occ[o].gen + 1]]
               /\ EnqueueFire(o, occ[o].gen + 1)
      <4>1. occ[o].gen + 1 \in Generations
        BY <1>0, <3>3 DEF OccurrencesType, Generations
      <4>2. occ[o].status # "cancelled" => occ[o].started = NoTime
        BY <1>0, <3>3 DEF Reactivatable, IndInv, OccurrenceProtocol, QueuedHasNotStarted
      <4> QED
        BY <3>3, <4>1, <4>2 DEF Times
    <3> QED
      BY <3>1, <3>2, <3>3 DEF InsertHeartbeatOccurrence
  <2>a. PICK w \in Jobs : w = <<h, next[h], g>>
    BY <1>0 DEF Jobs, Occurrences
  <2>2. w[1] = h /\ OccurrenceOf(w) = o /\ w[3] = g
    BY <2>a DEF OccurrenceOf
  <2>3. job'[w].pc = "queued"
    <3>1. job' = [job EXCEPT ![w] = QueuedJob]
      BY <2>1, <2>a DEF EnqueueFire
    <3> QED
      BY <1>0, <3>1 DEF JobsType, QueuedJob
  <2>4. /\ occ'[o].status = "queued" /\ occ'[o].snapshot = rule[h]
        /\ occ'[o].started = NoTime /\ occ'[o].gen = g
    BY <1>0, <2>1 DEF OccurrencesType
  <2>5. Awaits(w)'
    BY <1>0, <2>2, <2>3, <2>4 DEF Awaits, Current
  <2> QED
    BY <1>0, <1>3, <2>2, <2>5 DEF Kept, FloatingAwaits
<1> QED
  BY <1>1, <1>2, <1>3

\* A step that touches no occurrence and no job keeps a fire waiting, or schedules.
LEMMA RowStepKeeps ==
  ASSUME NEW h \in Heartbeats, Kept(h), UNCHANGED <<occ, job>>,
         enabled'[h] => \/ HasSchedule(rule'[h], next'[h])
                        \/ enabled[h] /\ rule'[h] = rule[h] /\ next'[h] = next[h]
  PROVE  Kept(h)'
BY DEF Kept, FloatingAwaits, Awaits, Current

\* The fires' steps, from their effect.
LEMMA FireKeeps ==
  ASSUME FireEffect, NEW h \in Heartbeats, Kept(h)
  PROVE  Kept(h)'
<1>1. rule' = rule /\ enabled' = enabled
  BY DEF FireEffect
<1> SUFFICES ASSUME enabled[h], ~HasSchedule(rule[h], next'[h])
             PROVE  FloatingAwaits(h)'
  BY <1>1 DEF Kept
<1>2. next'[h] = next[h]
  BY DEF FireEffect
<1>3. FloatingAwaits(h) /\ next[h] = NoTime
  BY <1>2 DEF Kept, HasSchedule
<1>4. PICK w \in Jobs : w[1] = h /\ Awaits(w)
  BY <1>3 DEF FloatingAwaits
<1>5. Awaits(w)'
  BY <1>3, <1>4 DEF FireEffect, FloatingAwaits
<1> QED
  BY <1>1, <1>3, <1>4, <1>5 DEF FloatingAwaits
\* What the one editor is about to write fits the row it is written to.
LEMMA EditsStayInformed ==
  ASSUME OneEditor, IndInv, EditsAreInformed, [Next]_vars
  PROVE  EditsAreInformed'
<1>0. /\ TypeOK /\ RowsType /\ EditsType
      /\ \A h \in Heartbeats : Exists(h) => rule[h] \in Rules
      /\ zone \in Zones /\ AppNow \subseteq Instants
  BY EnabledHasRule DEF IndInv, TypeOK
<1>a. ASSUME edit' = edit,
             \A h \in Heartbeats : rule'[h] # NoRule =>
               Exists(h) /\ rule'[h] = rule[h] /\ (enabled'[h] => enabled[h])
      PROVE  EditsAreInformed'
  <2> SUFFICES ASSUME NEW e \in Editors, edit[e] # NoEdit, rule'[edit[e].h] # NoRule
               PROVE  /\ edit[e].op = "rule" /\ enabled'[edit[e].h] => HasSchedule(edit[e].rule, edit[e].next)
                      /\ edit[e].op = "enable" => rule'[edit[e].h] = edit[e].rule
                                                  /\ HasSchedule(edit[e].rule, edit[e].next)
    BY <1>a DEF EditsAreInformed, Exists
  <2>1. edit[e].h \in Heartbeats
    BY <1>0 DEF EditsType
  <2>2. /\ Exists(edit[e].h) /\ rule'[edit[e].h] = rule[edit[e].h]
        /\ enabled'[edit[e].h] => enabled[edit[e].h]
    BY <1>a, <2>1 DEF Exists
  <2>3. /\ edit[e].op = "rule" /\ enabled[edit[e].h] => HasSchedule(edit[e].rule, edit[e].next)
        /\ edit[e].op = "enable" => rule[edit[e].h] = edit[e].rule
                                    /\ HasSchedule(edit[e].rule, edit[e].next)
    BY <2>2 DEF EditsAreInformed
  <2> QED
    BY <2>2, <2>3
<1>1. ASSUME NEW e \in Editors, NEW h \in Heartbeats, NEW r \in Rules, UpdateHeartbeatRuleRead(e, h, r)
      PROVE  EditsAreInformed'
  <2>1. PICK now \in AppNow :
          edit' = [edit EXCEPT ![e] = [op |-> "rule", h |-> h, rule |-> r,
                                       next |-> Scheduled(r, enabled[h], zone, now)]]
    BY <1>1 DEF UpdateHeartbeatRuleRead
  <2>2. \A d \in Editors : edit'[d] = [op |-> "rule", h |-> h, rule |-> r,
                                      next |-> Scheduled(r, enabled[h], zone, now)]
    BY <1>0, <2>1 DEF OneEditor, EditsType
  <2>3. UNCHANGED <<rule, enabled>>
    BY <1>1 DEF UpdateHeartbeatRuleRead, heartbeatVars
  <2>4. enabled[h] => HasSchedule(r, Scheduled(r, enabled[h], zone, now))
    BY <1>0, FireHasSchedule DEF Scheduled
  <2> QED
    BY <2>2, <2>3, <2>4 DEF EditsAreInformed
<1>2. ASSUME NEW e \in Editors, NEW h \in Heartbeats, EnableHeartbeatRead(e, h)
      PROVE  EditsAreInformed'
  <2>1. PICK now \in AppNow :
          edit' = [edit EXCEPT ![e] = [op |-> "enable", h |-> h, rule |-> rule[h],
                                       next |-> NextFireAt(rule[h], zone, now)]]
    BY <1>2 DEF EnableHeartbeatRead, Scheduled
  <2>2. \A d \in Editors : edit'[d] = [op |-> "enable", h |-> h, rule |-> rule[h],
                                      next |-> NextFireAt(rule[h], zone, now)]
    BY <1>0, <2>1 DEF OneEditor, EditsType
  <2>3. UNCHANGED <<rule, enabled>> /\ rule[h] \in Rules
    BY <1>0, <1>2 DEF EnableHeartbeatRead, heartbeatVars
  <2>4. HasSchedule(rule[h], NextFireAt(rule[h], zone, now))
    BY <1>0, <2>3, FireHasSchedule
  <2> QED
    BY <2>2, <2>3, <2>4 DEF EditsAreInformed
<1>3. ASSUME NEW e \in Editors, WriteEdit(e)
      PROVE  EditsAreInformed'
  <2>1. \A d \in Editors : edit'[d] = NoEdit
    BY <1>0, <1>3 DEF WriteEdit, OneEditor, EditsType
  <2> QED
    BY <2>1 DEF EditsAreInformed
<1>4. ASSUME NEW h \in Heartbeats, DisableHeartbeat(h) \/ DeleteHeartbeat(h)
      PROVE  EditsAreInformed'
  <2>1. edit' = edit
    BY <1>4 DEF DisableHeartbeat, DeleteHeartbeat
  <2>2. \A k \in Heartbeats : rule'[k] # NoRule =>
               Exists(k) /\ rule'[k] = rule[k] /\ (enabled'[k] => enabled[k])
    BY <1>0, <1>4 DEF DisableHeartbeat, DeleteHeartbeat, RowsType, Exists
  <2> QED
    BY <1>a, <2>1, <2>2
<1>5. ASSUME NEW z \in Zones, RecomputeAllForTimezoneChange(z)
      PROVE  EditsAreInformed'
  BY <1>a, <1>5 DEF RecomputeAllForTimezoneChange, Exists
<1>6. ASSUME NEW h \in Heartbeats, SweepDueHeartbeats(h)
      PROVE  EditsAreInformed'
  BY <1>a, <1>6 DEF SweepDueHeartbeats, SweepFires, SweepCannotParse, Exists
<1>7. ASSUME NEW j \in Jobs, FireStep(j)
      PROVE  EditsAreInformed'
  BY <1>a, <1>7 DEF FireStep, StartJob, PrepareNothing, PrepareCancels, PrepareDegrades,
    PrepareProceeds, SetupError, StartHandler, HandlerSucceeds, HandlerError, CloseSetup,
    CloseHandler, CloseOutError, CompleteJob, CrashWorker, heartbeatVars, Exists
<1>8. CASE Tick \/ ToggleModule \/ SuspendTenant \/ ReactivateTenant \/ UNCHANGED vars
  BY <1>a, <1>8 DEF Tick, ToggleModule, SuspendTenant, ReactivateTenant, vars, heartbeatVars, Exists
<1> QED
  BY <1>1, <1>2, <1>3, <1>4, <1>5, <1>6, <1>7, <1>8 DEF Next, EditStep
LEMMA KeptStep ==
  ASSUME IndInv, [Next]_vars, tenantActive, EditsAreInformed, \A h \in Heartbeats : Kept(h),
         ~Spend("crash"), ~Spend("closeError"), ~Spend("suspend"), NEW h \in Heartbeats
  PROVE  Kept(h)'
<1>0. /\ TypeOK /\ RowsType /\ EditsType /\ EnvType
      /\ \A k \in Heartbeats : enabled[k] => rule[k] \in Rules /\ Exists(k)
      /\ zone \in Zones /\ AppNow \subseteq Instants
  BY EnabledHasRule DEF IndInv, TypeOK
<1>1. ASSUME NEW e \in Editors, NEW k \in Heartbeats,
             (\E r \in Rules : UpdateHeartbeatRuleRead(e, k, r)) \/ EnableHeartbeatRead(e, k)
      PROVE  Kept(h)'
  BY <1>1, RowStepKeeps DEF UpdateHeartbeatRuleRead, EnableHeartbeatRead, heartbeatVars, envVars
<1>2. ASSUME NEW e \in Editors, WriteEdit(e)
      PROVE  Kept(h)'
  <2>1. UNCHANGED <<occ, job, tenantActive>>
    BY <1>2 DEF WriteEdit, envVars
  <2>2. CASE ~Exists(edit[e].h) \/ edit[e].h # h
    BY <1>0, <1>2, <2>1, <2>2, RowStepKeeps DEF WriteEdit, RowsType
  <2>3. CASE Exists(edit[e].h) /\ edit[e].h = h
    <3>1. /\ edit[e] # NoEdit /\ edit[e].op \in {"rule", "enable"}
          /\ next'[h] = edit[e].next
          /\ edit[e].op = "rule" => rule'[h] = edit[e].rule /\ enabled' = enabled
          /\ edit[e].op = "enable" => rule' = rule
      BY <1>0, <1>2, <2>3 DEF WriteEdit, RowsType, EditsType, NoEdit
    <3>2. /\ edit[e].op = "rule" /\ enabled[h] => HasSchedule(edit[e].rule, edit[e].next)
          /\ edit[e].op = "enable" => rule[h] = edit[e].rule /\ HasSchedule(edit[e].rule, edit[e].next)
      BY <2>3, <3>1 DEF EditsAreInformed
    <3>3. enabled'[h] => HasSchedule(rule'[h], next'[h])
      BY <3>1, <3>2
    <3> QED
      BY <2>1, <3>3, RowStepKeeps
  <2> QED
    BY <2>2, <2>3
<1>3. ASSUME NEW k \in Heartbeats, DisableHeartbeat(k)
      PROVE  Kept(h)'
  BY <1>0, <1>3, RowStepKeeps DEF DisableHeartbeat, envVars, RowsType
<1>4. ASSUME NEW k \in Heartbeats, DeleteHeartbeat(k)
      PROVE  Kept(h)'
  <2>1. /\ UNCHANGED <<job, tenantActive>> /\ ~enabled'[k]
        /\ \A i \in Heartbeats \ {k} : /\ rule'[i] = rule[i] /\ next'[i] = next[i]
                                      /\ enabled'[i] = enabled[i]
    BY <1>0, <1>4 DEF DeleteHeartbeat, envVars, RowsType
  <2>2. CASE h = k
    BY <2>1, <2>2 DEF Kept
  <2>3. CASE h # k
    <3>1. \A w \in Jobs : w[1] = h => OccurrenceOf(w) \in Occurrences /\ OccurrenceOf(w)[1] # k
      BY <2>3, JobParts
    <3>2. \A w \in Jobs : w[1] = h => occ'[OccurrenceOf(w)] = occ[OccurrenceOf(w)]
      BY <1>4, <3>1 DEF DeleteHeartbeat
    <3>3. \A w \in Jobs : w[1] = h /\ Awaits(w) => Awaits(w)'
      BY <2>1, <2>3, <3>2 DEF Awaits, Current
    <3> QED
      BY <2>1, <2>3, <3>3 DEF Kept, FloatingAwaits
  <2> QED
    BY <2>2, <2>3
<1>5. ASSUME NEW z \in Zones, RecomputeAllForTimezoneChange(z)
      PROVE  Kept(h)'
  <2>1. UNCHANGED <<occ, job, rule, enabled, tenantActive>>
    BY <1>5 DEF RecomputeAllForTimezoneChange
  <2>2. \E now \in AppNow : next'[h] = next[h] \/ (enabled[h] /\ next'[h] = NextFireAt(rule[h], z, now))
    BY <1>5 DEF RecomputeAllForTimezoneChange
  <2>3. next'[h] = next[h] \/ HasSchedule(rule[h], next'[h])
    BY <1>0, <2>2, FireHasSchedule
  <2> QED
    BY <2>1, <2>3, RowStepKeeps
<1>6. ASSUME NEW k \in Heartbeats, SweepDueHeartbeats(k)
      PROVE  Kept(h)'
  <2>1. CASE SweepFires(k)
    BY <2>1, SweepKeeps DEF SweepFires, envVars
  <2>2. CASE SweepCannotParse(k)
    BY <2>2, RowStepKeeps DEF SweepCannotParse, envVars
  <2> QED
    BY <1>6, <2>1, <2>2 DEF SweepDueHeartbeats
<1>7. ASSUME NEW j \in Jobs, FireStep(j)
      PROVE  Kept(h)'
  <2>1. ~CloseOutError(j) /\ ~CrashWorker(j)
    BY DEF CloseOutError, CrashWorker
  <2>2. FireEffect
    BY <1>7, <2>1, FireStepEffect
  <2> QED
    BY <2>2, FireKeeps DEF FireEffect
<1>8. CASE Tick \/ ToggleModule \/ ReactivateTenant \/ UNCHANGED vars
  BY <1>8, RowStepKeeps DEF Tick, ToggleModule, ReactivateTenant, vars, heartbeatVars, envVars
<1>9. ~SuspendTenant
  BY DEF SuspendTenant
<1> QED
  BY <1>1, <1>2, <1>3, <1>4, <1>5, <1>6, <1>7, <1>8, <1>9 DEF Next, EditStep

LEMMA ScheduleKeptStep ==
  ASSUME OneEditor, IndInv, ScheduleIsKept, [Next]_vars
  PROVE  ScheduleIsKept'
<1> DEFINE ds == {"crash", "closeError", "suspend"}
<1> SUFFICES ASSUME Untouched(ds)'
             PROVE  tenantActive' /\ EditsAreInformed' /\ \A h \in Heartbeats : Kept(h)'
  BY DEF ScheduleIsKept, Kept
<1>1. Untouched(ds) /\ \A d \in ds : ~Spend(d)
  BY UntouchedBefore DEF Disturbances, IndInv
<1>2. tenantActive /\ EditsAreInformed /\ \A h \in Heartbeats : Kept(h)
  BY <1>1 DEF ScheduleIsKept, Kept
<1>3. EditsAreInformed'
  BY <1>2, EditsStayInformed
<1>4. \A h \in Heartbeats : Kept(h)'
  BY <1>1, <1>2, KeptStep
<1>5. tenantActive'
  <2>1. ~SuspendTenant
    BY <1>1 DEF SuspendTenant
  <2>2. CASE EditStep
    BY <1>2, <2>2 DEF EditStep, UpdateHeartbeatRuleRead, EnableHeartbeatRead, WriteEdit,
      DisableHeartbeat, DeleteHeartbeat, RecomputeAllForTimezoneChange, envVars
  <2>3. CASE \E h \in Heartbeats : SweepDueHeartbeats(h)
    BY <1>2, <2>3 DEF SweepDueHeartbeats, SweepFires, SweepCannotParse, envVars
  <2>4. CASE \E j \in Jobs : FireStep(j)
    BY <1>2, <2>4 DEF FireStep, StartJob, PrepareNothing, PrepareCancels, PrepareDegrades,
      PrepareProceeds, SetupError, StartHandler, HandlerSucceeds, HandlerError, CloseSetup,
      CloseHandler, CloseOutError, CompleteJob, CrashWorker, envVars
  <2>5. CASE Tick \/ ToggleModule \/ ReactivateTenant \/ UNCHANGED vars
    BY <1>2, <2>5 DEF Tick, ToggleModule, ReactivateTenant, vars, envVars
  <2> QED
    BY <2>1, <2>2, <2>3, <2>4, <2>5 DEF Next
<1> QED
  BY <1>3, <1>4, <1>5

LEMMA ScheduleKeptInit == Init => ScheduleIsKept
<1> SUFFICES ASSUME Init PROVE ScheduleIsKept
  OBVIOUS
<1>1. tenantActive /\ EditsAreInformed
  BY DEF Init, EditsAreInformed
<1>2. \A h \in Heartbeats : enabled[h] => HasSchedule(rule[h], next[h])
  <2>1. 0 \in Instants /\ zone \in Zones /\ \A h \in Heartbeats : rule[h] \in Rules
    BY DEF Init, Instants
  <2>2. \A h \in Heartbeats : enabled[h] => next[h] = NextFireAt(rule[h], zone, 0)
    BY DEF Init, Scheduled
  <2> QED
    BY <2>1, <2>2, FireHasSchedule
<1> QED
  BY <1>1, <1>2 DEF ScheduleIsKept

(* With one editor at a time, an enabled heartbeat that has a schedule has *)
(* a next_fire_at, or a queued or running fire that has yet to start and   *)
(* will set it: recordHeartbeatFireSetupFailure's "not silently            *)
(* unscheduled", through sweeps, edits, deletions, timezone and module     *)
(* changes and failing attempts, unless a worker dies, a close-out fails   *)
(* or the tenant is suspended.                                             *)
THEOREM NotUnscheduled == OneEditor => (Spec => []NotSilentlyUnscheduled)
<1> SUFFICES ASSUME OneEditor PROVE Spec => []NotSilentlyUnscheduled
  OBVIOUS
<1>1. IndInv /\ ScheduleIsKept /\ [Next]_vars => ScheduleIsKept'
  BY ScheduleKeptStep
<1>2. ScheduleIsKept => NotSilentlyUnscheduled
  BY DEF ScheduleIsKept, NotSilentlyUnscheduled, NeverUnscheduled, HasSchedule,
         FloatingAwaits, Awaits, AwaitsFirstStart
<1> QED
  BY Invariance, ScheduleKeptInit, <1>1, <1>2, PTL DEF Spec

-----------------------------------------------------------------------------
(* Dead jobs. *)

Reported(j) ==
  job[j].pc = "dead" =>
    /\ j \in notified
    /\ Current(j) => occ[OccurrenceOf(j)].status \notin {"queued", "running"}

\* A step of job j that leaves it alive, or reported, and reopens no other job's occurrence.
LEMMA FireKeepsReported ==
  ASSUME TypeOK, NEW j \in Jobs, \A i \in Jobs : Reported(i),
         \A i \in Jobs \ {j} : job'[i].pc = job[i].pc,
         notified \subseteq notified',
         \/ occ' = occ
         \/ /\ \A o \in Occurrences : occ'[o].gen = occ[o].gen
            /\ \A o \in Occurrences :
                 occ'[o] # occ[o] => o = OccurrenceOf(j) /\ occ'[o].status \notin {"queued", "running"}
         \/ /\ Current(j)
            /\ \A o \in Occurrences : occ'[o].gen = occ[o].gen
            /\ \A o \in Occurrences : occ'[o] # occ[o] => o = OccurrenceOf(j),
         Reported(j)'
  PROVE  \A i \in Jobs : Reported(i)'
<1> SUFFICES ASSUME NEW i \in Jobs, i # j, job[i].pc = "dead",
                    Current(i)', occ'[OccurrenceOf(i)].status \in {"queued", "running"}
             PROVE  FALSE
  BY DEF Reported
<1>1. OccurrenceOf(i) \in Occurrences /\ OccurrenceOf(j) \in Occurrences
  BY JobParts
<1>2. occ'[OccurrenceOf(i)].gen = occ[OccurrenceOf(i)].gen
  BY <1>1
<1>3. CASE occ'[OccurrenceOf(i)] = occ[OccurrenceOf(i)]
  BY <1>3 DEF Reported, Current
<1>4. CASE Current(j) /\ OccurrenceOf(i) = OccurrenceOf(j)
  <2>1. i[3] = j[3]
    BY <1>2, <1>4 DEF Current
  <2> QED
    BY <1>4, <2>1, SameJob
<1> QED
  BY <1>1, <1>3, <1>4

LEMMA SweepKeepsReported ==
  ASSUME TypeOK, OccurrenceProtocol, NEW h \in Heartbeats, SweepFires(h),
         \A j \in Jobs : Reported(j)
  PROVE  \A j \in Jobs : Reported(j)'
<1> DEFINE o == <<h, next[h]>>
           Row == [status : Statuses, snapshot : Rules \cup {NoRule}, started : Times, gen : Generations]
<1>1. notified' = notified
  BY DEF SweepFires
<1>2. PICK x \in Row :
        /\ \A p \in Occurrences : occ'[p] = IF p = o THEN x ELSE occ[p]
        /\ \A i \in Jobs : job'[i] = IF OccurrenceOf(i) = o /\ i[3] = x.gen THEN QueuedJob ELSE job[i]
  BY SweepEffect
<1>3. QueuedJob.pc # "dead"
  BY DEF QueuedJob
<1> SUFFICES ASSUME NEW j \in Jobs, job'[j].pc = "dead"
             PROVE  /\ j \in notified
                    /\ Current(j)' => occ'[OccurrenceOf(j)].status \notin {"queued", "running"}
  BY <1>1 DEF Reported
<1>4. OccurrenceOf(j) \in Occurrences /\ job'[j] = job[j] /\ ~(OccurrenceOf(j) = o /\ j[3] = x.gen)
  BY <1>2, <1>3, JobParts
<1>5. CASE OccurrenceOf(j) = o
  BY <1>2, <1>4, <1>5 DEF Current, Reported
<1>6. CASE OccurrenceOf(j) # o
  BY <1>2, <1>4, <1>6 DEF Current, Reported
<1> QED
  BY <1>5, <1>6

LEMMA Closing ==
  ASSUME OccurrencesType, NEW p \in Occurrences, NEW s \in {"succeeded", "failed", "cancelled"},
         occ' = occ \/ occ' = [occ EXCEPT ![p].status = s]
  PROVE  /\ \A o \in Occurrences : occ'[o].gen = occ[o].gen
         /\ \A o \in Occurrences :
              occ'[o] # occ[o] => o = p /\ occ'[o].status \notin {"queued", "running"}
         /\ occ'[p].status = occ[p].status \/ occ'[p].status = s
<1>1. CASE occ' = occ
  BY <1>1
<1>2. CASE occ' = [occ EXCEPT ![p].status = s]
  <2>1. occ[p] \in [status : Statuses, snapshot : Rules \cup {NoRule}, started : Times, gen : Generations]
    BY DEF OccurrencesType
  <2>2. \A o \in Occurrences : occ'[o] = IF o = p THEN [occ[p] EXCEPT !.status = s] ELSE occ[o]
    BY <1>2 DEF OccurrencesType
  <2>3. occ'[p].status = s /\ occ'[p].gen = occ[p].gen
    BY <2>1, <2>2
  <2> QED
    BY <2>2, <2>3
<1> QED
  BY <1>1, <1>2

LEMMA FireStepKeepsReported ==
  ASSUME IndInv, \A h \in Heartbeats : Exists(h), NEW j \in Jobs, FireStep(j),
         ~Spend("crash"), ~Spend("closeError"), \A i \in Jobs : Reported(i)
  PROVE  \A i \in Jobs : Reported(i)'
<1>0. /\ TypeOK /\ JobsType /\ OccurrencesType
      /\ j[1] \in Heartbeats /\ OccurrenceOf(j) \in Occurrences
  BY JobParts DEF IndInv, TypeOK
<1>1. CASE StartJob(j)
  <2>1. job'[j].pc # "dead" /\ (\A i \in Jobs \ {j} : job'[i].pc = job[i].pc)
    BY <1>0, <1>1, SetPcEffect DEF StartJob, JobsType
  <2>2. notified' = notified /\ occ' = occ
    BY <1>1 DEF StartJob
  <2> QED
    BY <1>0, <2>1, <2>2, FireKeepsReported DEF Reported
<1>2. CASE PrepareNothing(j)
  <2>1. job'[j].pc # "dead" /\ (\A i \in Jobs \ {j} : job'[i].pc = job[i].pc)
    BY <1>0, <1>2, SetPcEffect DEF PrepareNothing, Pcs
  <2>2. notified' = notified /\ occ' = occ
    BY <1>2 DEF PrepareNothing
  <2> QED
    BY <1>0, <2>1, <2>2, FireKeepsReported DEF Reported
<1>3. CASE SetupError(j)
  <2>1. job'[j].pc # "dead" /\ (\A i \in Jobs \ {j} : job'[i].pc = job[i].pc)
    BY <1>0, <1>3, SetPcEffect DEF SetupError, Pcs
  <2>2. notified' = notified /\ occ' = occ
    BY <1>3 DEF SetupError
  <2> QED
    BY <1>0, <2>1, <2>2, FireKeepsReported DEF Reported
<1>4. CASE StartHandler(j)
  <2>1. job'[j].pc # "dead" /\ (\A i \in Jobs \ {j} : job'[i].pc = job[i].pc)
    BY <1>0, <1>4, SetPcEffect DEF StartHandler, Pcs
  <2>2. notified' = notified /\ occ' = occ
    BY <1>4 DEF StartHandler
  <2> QED
    BY <1>0, <2>1, <2>2, FireKeepsReported DEF Reported
<1>5. CASE HandlerError(j)
  <2>1. job'[j].pc # "dead" /\ (\A i \in Jobs \ {j} : job'[i].pc = job[i].pc)
    BY <1>0, <1>5, SetPcEffect DEF HandlerError, Pcs
  <2>2. notified' = notified /\ occ' = occ
    BY <1>5 DEF HandlerError
  <2> QED
    BY <1>0, <2>1, <2>2, FireKeepsReported DEF Reported
<1>6. CASE CompleteJob(j)
  <2>1. job'[j].pc # "dead" /\ (\A i \in Jobs \ {j} : job'[i].pc = job[i].pc)
    BY <1>0, <1>6, SetPcEffect DEF CompleteJob, Pcs
  <2>2. notified' = notified /\ occ' = occ
    BY <1>6 DEF CompleteJob
  <2> QED
    BY <1>0, <2>1, <2>2, FireKeepsReported DEF Reported
<1>7. CASE PrepareCancels(j)
  <2>1. job'[j].pc # "dead" /\ (\A i \in Jobs \ {j} : job'[i].pc = job[i].pc)
    BY <1>0, <1>7, SetPcEffect DEF PrepareCancels, Pcs
  <2>2. /\ notified' = notified
        /\ \A o \in Occurrences : occ'[o].gen = occ[o].gen
        /\ \A o \in Occurrences :
             occ'[o] # occ[o] => o = OccurrenceOf(j) /\ occ'[o].status \notin {"queued", "running"}
    BY <1>0, <1>7, Closing DEF PrepareCancels
  <2> QED
    BY <1>0, <2>1, <2>2, FireKeepsReported DEF Reported
<1>8. CASE PrepareDegrades(j)
  <2>1. job'[j].pc # "dead" /\ (\A i \in Jobs \ {j} : job'[i].pc = job[i].pc)
    BY <1>0, <1>8, SetPcEffect DEF PrepareDegrades, Pcs
  <2>2. /\ notified' = notified
        /\ \A o \in Occurrences : occ'[o].gen = occ[o].gen
        /\ \A o \in Occurrences :
             occ'[o] # occ[o] => o = OccurrenceOf(j) /\ occ'[o].status \notin {"queued", "running"}
    BY <1>0, <1>8, Closing DEF PrepareDegrades
  <2> QED
    BY <1>0, <2>1, <2>2, FireKeepsReported DEF Reported
<1>9. CASE HandlerSucceeds(j)
  <2>1. job'[j].pc # "dead" /\ (\A i \in Jobs \ {j} : job'[i].pc = job[i].pc)
    BY <1>0, <1>9, SetPcEffect DEF HandlerSucceeds, Pcs
  <2>2. /\ notified' = notified
        /\ \A o \in Occurrences : occ'[o].gen = occ[o].gen
        /\ \A o \in Occurrences :
             occ'[o] # occ[o] => o = OccurrenceOf(j) /\ occ'[o].status \notin {"queued", "running"}
    BY <1>0, <1>9, Closing DEF HandlerSucceeds
  <2> QED
    BY <1>0, <2>1, <2>2, FireKeepsReported DEF Reported
<1>10. CASE PrepareProceeds(j)
  <2>1. job'[j].pc # "dead" /\ (\A i \in Jobs \ {j} : job'[i].pc = job[i].pc)
    BY <1>0, <1>10, SetPcEffect DEF PrepareProceeds, Pcs
  <2>2. /\ notified' = notified /\ Current(j)
        /\ \A o \in Occurrences : occ'[o].gen = occ[o].gen
        /\ \A o \in Occurrences : occ'[o] # occ[o] => o = OccurrenceOf(j)
    <3>1. notified' = notified /\ Current(j)
      BY <1>10 DEF PrepareProceeds
    <3>2. \/ occ' = occ
          \/ \E now \in Instants :
               occ' = [occ EXCEPT ![OccurrenceOf(j)].status = "running", ![OccurrenceOf(j)].started = now]
      BY <1>10 DEF PrepareProceeds, FirstStart, AppNow
    <3> QED
      BY <1>0, <3>1, <3>2 DEF OccurrencesType
  <2> QED
    BY <1>0, <2>1, <2>2, FireKeepsReported DEF Reported
<1>11. CASE CloseSetup(j)
  <2>1. notified' = notified \cup {j} /\ \A i \in Jobs \ {j} : job'[i].pc = job[i].pc
    BY <1>0, <1>11, SetPcEffect DEF CloseSetup, Pcs
  <2>2. /\ occ'[OccurrenceOf(j)].status \notin {"queued", "running"}
        /\ \A o \in Occurrences : occ'[o].gen = occ[o].gen
        /\ \A o \in Occurrences :
             occ'[o] # occ[o] => o = OccurrenceOf(j) /\ occ'[o].status \notin {"queued", "running"}
    <3>1. \/ occ' = occ /\ occ[OccurrenceOf(j)].status \notin {"queued", "running"}
          \/ occ' = [occ EXCEPT ![OccurrenceOf(j)].status = "failed"]
      BY <1>0, <1>11 DEF CloseSetup
    <3>2. occ' = [occ EXCEPT ![OccurrenceOf(j)].status = "failed"]
            => occ'[OccurrenceOf(j)].status = "failed"
      BY <1>0 DEF OccurrencesType
    <3> QED
      BY <1>0, <3>1, <3>2, Closing
  <2> QED
    BY <1>0, <2>1, <2>2, FireKeepsReported DEF Reported
<1>12. CASE CloseHandler(j)
  <2>1. notified' = notified \cup {j} /\ \A i \in Jobs \ {j} : job'[i].pc = job[i].pc
    BY <1>0, <1>12, SetPcEffect DEF CloseHandler, Pcs
  <2>2. /\ occ'[OccurrenceOf(j)].status \notin {"queued", "running"}
        /\ \A o \in Occurrences : occ'[o].gen = occ[o].gen
        /\ \A o \in Occurrences :
             occ'[o] # occ[o] => o = OccurrenceOf(j) /\ occ'[o].status \notin {"queued", "running"}
    <3>1. \/ occ' = occ /\ occ[OccurrenceOf(j)].status \notin {"queued", "running"}
          \/ occ' = [occ EXCEPT ![OccurrenceOf(j)].status = "failed"]
      BY <1>0, <1>12 DEF CloseHandler
    <3>2. occ' = [occ EXCEPT ![OccurrenceOf(j)].status = "failed"]
            => occ'[OccurrenceOf(j)].status = "failed"
      BY <1>0 DEF OccurrencesType
    <3> QED
      BY <1>0, <3>1, <3>2, Closing
  <2> QED
    BY <1>0, <2>1, <2>2, FireKeepsReported DEF Reported
<1>13. ~CloseOutError(j) /\ ~CrashWorker(j)
  BY DEF CloseOutError, CrashWorker
<1> QED
  BY <1>1, <1>2, <1>3, <1>4, <1>5, <1>6, <1>7, <1>8, <1>9, <1>10, <1>11, <1>12, <1>13 DEF FireStep

LEMMA DeathStep ==
  ASSUME IndInv, DeathIsReported, TypeOK', [Next]_vars
  PROVE  DeathIsReported'
<1>0. TypeOK /\ RowsType /\ EditsType
  BY DEF IndInv, TypeOK
<1>1. ASSUME Untouched({"delete"})'
      PROVE  \A h \in Heartbeats : Exists(h) /\ Exists(h)'
  <2>1. Untouched({"delete"}) /\ ~Spend("delete")
    BY <1>0, <1>1, UntouchedBefore DEF Disturbances
  <2>2. \A h \in Heartbeats : Exists(h)
    BY <2>1 DEF DeathIsReported
  <2>3. CASE \E e \in Editors : WriteEdit(e)
    BY <1>0, <2>2, <2>3 DEF WriteEdit, RowsType, EditsType, NoEdit, Exists
  <2>4. CASE rule' = rule
    BY <2>2, <2>4 DEF Exists
  <2>5. rule' = rule \/ (\E e \in Editors : WriteEdit(e)) \/ \E h \in Heartbeats : DeleteHeartbeat(h)
    BY DEF Next, EditStep, SweepDueHeartbeats, FireStep, vars, heartbeatVars,
       UpdateHeartbeatRuleRead, EnableHeartbeatRead, DisableHeartbeat,
       RecomputeAllForTimezoneChange, SweepFires, SweepCannotParse, StartJob, PrepareNothing,
       PrepareCancels, PrepareDegrades, PrepareProceeds, SetupError, StartHandler, HandlerSucceeds,
       HandlerError, CloseSetup, CloseHandler, CloseOutError, CompleteJob, CrashWorker,
       Tick, ToggleModule, SuspendTenant, ReactivateTenant
  <2> QED
    BY <2>1, <2>2, <2>3, <2>4, <2>5 DEF DeleteHeartbeat
<1>2. ASSUME Untouched({"crash", "closeError", "delete"})'
      PROVE  \A j \in Jobs : Reported(j)'
  <2>1. Untouched({"crash", "closeError", "delete"}) /\ \A d \in {"crash", "closeError", "delete"} : ~Spend(d)
    BY <1>0, <1>2, UntouchedBefore DEF Disturbances
  <2>2. Untouched({"delete"})' /\ \A j \in Jobs : Reported(j)
    BY <1>2, <2>1 DEF Untouched, DeathIsReported, DeadJobsAreReported, Reported
  <2>3. \A h \in Heartbeats : Exists(h)
    BY <1>1, <2>2
  <2>4. CASE \E j \in Jobs : FireStep(j)
    BY <2>1, <2>2, <2>3, <2>4, FireStepKeepsReported
  <2>5. CASE \E h \in Heartbeats : SweepFires(h)
    BY <2>2, <2>5, SweepKeepsReported DEF IndInv
  <2>6. CASE job' = job /\ occ' = occ /\ notified' = notified
    BY <2>2, <2>6 DEF Reported, Current
  <2>7. \/ \E j \in Jobs : FireStep(j)
        \/ \E h \in Heartbeats : SweepFires(h)
        \/ job' = job /\ occ' = occ /\ notified' = notified
    BY <2>1 DEF Next, EditStep, SweepDueHeartbeats, vars, WriteEdit, DeleteHeartbeat,
       UpdateHeartbeatRuleRead, EnableHeartbeatRead, DisableHeartbeat,
       RecomputeAllForTimezoneChange, SweepCannotParse,
       Tick, ToggleModule, SuspendTenant, ReactivateTenant
  <2> QED
    BY <2>4, <2>5, <2>6, <2>7
<1> QED
  BY <1>1, <1>2 DEF DeathIsReported, DeadJobsAreReported, Reported

(* A fire job that used up its attempts has written its notification, and  *)
(* its occurrence is closed unless a later generation has taken it over:   *)
(* both close-outs of the final attempt write the two in one transaction.  *)
(* It holds unless a worker dies, a close-out fails, or the heartbeat is   *)
(* deleted.                                                                *)
THEOREM DeadJobsReported == Spec => []DeadJobsAreReported
<1>1. Init => DeathIsReported
  <2> SUFFICES ASSUME Init PROVE DeathIsReported
    OBVIOUS
  <2>1. \A h \in Heartbeats : Exists(h)
    BY DEF Init, Exists
  <2>2. \A j \in Jobs : job[j].pc # "dead"
    BY DEF Init, NoJob
  <2> QED
    BY <2>1, <2>2 DEF DeathIsReported, DeadJobsAreReported
<1>2. IndInv /\ IndInv' /\ DeathIsReported /\ [Next]_vars => DeathIsReported'
  BY DeathStep DEF IndInv
<1>3. DeathIsReported => DeadJobsAreReported
  BY DEF DeathIsReported
<1> QED
  BY Invariance, <1>1, <1>2, <1>3, PTL DEF Spec
=============================================================================
