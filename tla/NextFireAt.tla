----------------------------- MODULE NextFireAt -----------------------------
(***************************************************************************)
(* computeNextFireAt: when a heartbeat fires next, in a timezone whose     *)
(* offset shifts once, forward (a gap of local times) or back (local times *)
(* that occur twice).  A behaviour is a chain of fires, each computed from *)
(* the instant the previous one was picked up.                             *)
(*                                                                         *)
(* Instants are integers; a luxon DateTime is an instant, read in the      *)
(* zone.  luxon is external and modelled from its use: a local time is     *)
(* turned into an instant starting from the offset of the DateTime it was  *)
(* derived from.                                                           *)
(***************************************************************************)
EXTENDS Integers, FiniteSets, FiniteSetsExt

CONSTANTS
  Day,        \* instants per day
  Week,       \* days per week
  CalZones,      \* records [shiftAt, by]: the offset is 0, and by from shiftAt on
  CalRules,      \* rules of the core kinds
  Horizon,    \* bound: the latest instant a fire is computed from
  MaxDelay,   \* bound: how late a due fire is picked up
  NoInstant,     \* null: the rule has no schedule
  Unreachable \* the error thrown after the weekly loop

ASSUME NextFireAtAssumption ==
  /\ Day \in Nat \ {0} /\ Week \in Nat \ {0}
  /\ Horizon \in Nat /\ MaxDelay \in Nat
  /\ \A z \in CalZones : z.shiftAt \in Nat /\ z.by \in (1 - Day) .. (Day - 1)

VARIABLES calZone, calRule, after, calNext

calVars == <<calZone, calRule, after, calNext>>

-----------------------------------------------------------------------------
(* luxon. *)

Offset(z, t) == IF t < z.shiftAt THEN 0 ELSE z.by
Local(z, t) == t + Offset(z, t)
Date(z, t) == Local(z, t) \div Day
TimeOfDay(z, t) == Local(z, t) % Day
Weekday(z, t) == Date(z, t) % Week

\* The instant of local time l, guessed with offset o and corrected once.
FixOffset(z, l, o) ==
  LET o2 == Offset(z, l - o)
      o3 == Offset(z, l - o2)
  IN IF o = o2 \/ o2 = o3 THEN l - o2
     ELSE l - (IF o2 < o3 THEN o2 ELSE o3)

PlusDays(z, t, n) == FixOffset(z, Local(z, t) + n * Day, Offset(z, t))

-----------------------------------------------------------------------------
(* computeNextFireAt. *)

AtLocalTime(z, t, at) == FixOffset(z, Date(z, t) * Day + at, Offset(z, t))

(* Mutant: a time that has passed is taken from a day of fixed length *)
DailyTimeByDayLength(z, at, ref) ==
  LET candidate == AtLocalTime(z, ref, at)
  IN IF candidate <= ref THEN candidate + Day ELSE candidate

DailyTime(z, at, ref) ==
  LET candidate == AtLocalTime(z, ref, at)
  IN IF candidate <= ref THEN PlusDays(z, candidate, 1) ELSE candidate

Weekly(z, days, at, ref) ==
  LET candidate(offset) == AtLocalTime(z, PlusDays(z, ref, offset), at)
      found == {offset \in 0 .. Week :
                  /\ Weekday(z, PlusDays(z, ref, offset)) \in days
                  /\ candidate(offset) > ref}
  IN IF found = {} THEN Unreachable ELSE candidate(Min(found))

EveryNDays(z, n, at, ref) == AtLocalTime(z, PlusDays(z, ref, n), at)

ComputeNextFireAt(r, z, ref) ==
  CASE r.kind = "dailyTime"  -> DailyTime(z, r.at, ref)
    [] r.kind = "weekly"     -> Weekly(z, r.days, r.at, ref)
    [] r.kind = "everyNDays" -> EveryNDays(z, r.n, r.at, ref)
    [] r.kind = "interval"   -> ref + r.minutes
    [] r.kind = "onItemEvent" -> NoInstant

IsFixedRule(r) == r.kind \in {"dailyTime", "weekly"}

-----------------------------------------------------------------------------
CalInit ==
  /\ calZone \in CalZones
  /\ calRule \in CalRules
  /\ after \in 0 .. Horizon
  /\ calNext = ComputeNextFireAt(calRule, calZone, after)

\* A fixed rule is advanced by the sweep, a floating one by its first attempt.
Fire ==
  /\ calNext \in Int
  /\ \E delay \in 0 .. MaxDelay :
       /\ calNext + delay <= Horizon
       /\ after' = calNext + delay
       /\ calNext' = ComputeNextFireAt(calRule, calZone, calNext + delay)
  /\ UNCHANGED <<calZone, calRule>>

CalNext == Fire

CalSpec == CalInit /\ [][CalNext]_calVars

-----------------------------------------------------------------------------
(* Properties. *)

\* The local time at of date d exists in zone z; an instant's local time occurred before.
Exist(z, d, at) == \E t \in {d * Day + at, d * Day + at - z.by} : Local(z, t) = d * Day + at
IsSecondReading(z, t) == z.by < 0 /\ t >= z.shiftAt /\ t + z.by < z.shiftAt

\* The instants at which a fixed rule is to fire.
Matches(r, z, t) ==
  /\ TimeOfDay(z, t) = r.at
  /\ r.kind = "weekly" => Weekday(z, t) \in r.days
  /\ ~IsSecondReading(z, t)

InGap(r, z, t) == ~Exist(z, Date(z, t), r.at)

(* "The point in time the result must be strictly later than": a fire that *)
(* is not later than the run it is computed from stays due, and the sweep  *)
(* would meet its own occurrence for ever.                                 *)
StrictlyLater ==
  calNext \in Int => calNext > after

(* The loop of a weekly rule finds a day ("unreachable, days is validated  *)
(* non-empty").                                                            *)
WeeklyFindsADay ==
  calNext # Unreachable

(* A fixed rule skips none of its calendar times, whatever the offset and  *)
(* however late the run (it may take the second reading of a time that     *)
(* occurs twice), except after a dailyTime run on a date on which its time *)
(* does not exist.                                                         *)
NothingSkipped ==
  IsFixedRule(calRule) /\ calNext \in Int =>
    \/ calRule.kind = "dailyTime" /\ InGap(calRule, calZone, after)
    \/ \A t \in after + 1 .. calNext - 1 :
         Matches(calRule, calZone, t) => Local(calZone, t) = Local(calZone, calNext)

(* A rule with a time of day fires at that time, or on a date on which it  *)
(* does not exist ("a fixed heartbeat remains aligned to its calendar rule *)
(* after delay or catch-up"), except after a dailyTime run on such a date, *)
(* which hands the moved time on to the next date.                         *)
AlignedToRule ==
  "at" \in DOMAIN calRule /\ calNext \in Int =>
    \/ TimeOfDay(calZone, calNext) = calRule.at
    \/ InGap(calRule, calZone, calNext)
    \/ calRule.kind = "dailyTime" /\ InGap(calRule, calZone, after)

(* A fixed rule that is picked up on time fires at most once per local     *)
(* date, also on the date that lasts longer.                               *)
OncePerDate ==
  [][IsFixedRule(calRule) /\ after' = calNext /\ calNext' \in Int => Date(calZone, calNext') > Date(calZone, calNext)]_calVars

(* An everyNDays rule lands n dates after the date it ran on, over dates   *)
(* that are shorter or longer than a day.                                  *)
LandsNDatesLater ==
  calRule.kind = "everyNDays" => Date(calZone, calNext) = Date(calZone, after) + calRule.n
=============================================================================
