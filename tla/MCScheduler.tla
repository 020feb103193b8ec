---------------------------- MODULE MCScheduler -----------------------------
(***************************************************************************)
(* The heartbeat scheduler once more, now with the fairness of its worker, *)
(* and beside it the calendar it computes the next fire with.  The         *)
(* heartbeats of MCHeartbeats stand for any calendar; here the calendar is *)
(* the code's own: days of six instants, weeks of three days, an offset    *)
(* that shifts by one or two instants at any time of the second or third   *)
(* day, and every rule.  The stage picks the one that moves.               *)
(***************************************************************************)
EXTENDS MCHeartbeats, NextFireAt

TimesOfDay == 0 .. Day - 1

Shifts == [shiftAt : Day .. 3 * Day - 1, by : {-2, -1, 1, 2}]

\* The local times a shift repeats, or skips and those they are moved to, share a date.
WithinADate(z) ==
  IF z.by < 0 THEN (z.shiftAt - 1) \div Day = (z.shiftAt + z.by) \div Day
              ELSE z.shiftAt \div Day = (z.shiftAt + 2 * z.by - 1) \div Day

CommonZones == {z \in Shifts : WithinADate(z)}

EveryRule ==
  [kind : {"dailyTime"}, at : TimesOfDay]
  \cup [kind : {"weekly"}, days : SUBSET (0 .. Week - 1) \ {{}}, at : TimesOfDay]
  \cup [kind : {"everyNDays"}, n : 1 .. 2, at : TimesOfDay]
  \cup [kind : {"interval"}, minutes : 1 .. 3]
  \cup [kind : {"onItemEvent"}]

OneZone == CHOOSE z \in CalZones : TRUE

VARIABLE stage

schedulerVars == <<stage, vars, calVars>>

SchedulerInit ==
  /\ stage \in {"fires", "calendar"}
  /\ Init /\ (stage # "fires" => rule[h1] = Hourly /\ enabled[h1])
  /\ CalInit /\ (stage # "calendar" => calRule.kind = "onItemEvent" /\ calZone = OneZone /\ after = 0)

SchedulerNext ==
  /\ UNCHANGED stage
  /\ \/ stage = "fires" /\ Next /\ UNCHANGED calVars
     \/ stage = "calendar" /\ CalNext /\ UNCHANGED vars

(* The fairness of the scheduler, in its own stage.                        *)
SchedulerSpec ==
  /\ SchedulerInit /\ [][SchedulerNext]_schedulerVars
  /\ Fairness    \* nothing is due and no job exists while the calendar moves

-----------------------------------------------------------------------------
(* A job that died was reported, and the calendar is right: a fire is      *)
(* strictly later than its run, nothing on the calendar is skipped, and    *)
(* the fire is aligned to its rule, whatever the offset does.              *)
SchedulerIsSafe ==
  /\ TypeOK /\ DeadJobsAreReported
  /\ StrictlyLater /\ NothingSkipped /\ AlignedToRule
  /\ WeeklyFindsADay /\ LandsNDatesLater

(* A due fire ends, succeeded or recorded as failed, and a fixed rule that *)
(* is picked up on time fires once per local date.                         *)
SchedulerSettles == DueFireEnds /\ OncePerDate
=============================================================================
