---------------------------- MODULE MCHeartbeats ----------------------------
(***************************************************************************)
(* One heartbeat over a calendar of short days: a day is two ticks, a      *)
(* timezone says at which of them a fixed rule fires, and a floating rule  *)
(* fires its interval after its last run.                                  *)
(***************************************************************************)
EXTENDS Heartbeats

CONSTANTS h1, e1

TicksPerDay == 2

Daily == [kind |-> "dailyTime"]
Hourly == [kind |-> "interval"]
Module == [kind |-> "module"]
OnEvent == [kind |-> "onItemEvent"]

\* The next tick of the zone's phase after t, one tick later, or never.
MCNextFireAt(r, z, t) ==
  CASE r.kind \in {"dailyTime", "module"} ->
         IF t % TicksPerDay = z THEN t + TicksPerDay ELSE t + 1
    [] r.kind = "interval" -> t + 1
    [] OTHER -> NoTime

ASSUME ZonesArePhases == Zones \subseteq 0 .. TicksPerDay - 1

CoreRules == {Daily, Hourly}
AllRules == {Daily, Hourly, Module, OnEvent}

Quiet == [d \in Disturbances |-> 0]
Edits == [Quiet EXCEPT !["edit"] = 2, !["error"] = 2]
Retiming == [Quiet EXCEPT !["zone"] = 1, !["module"] = 1, !["delete"] = 1, !["error"] = 1]
Faults == [Quiet EXCEPT !["suspend"] = 1, !["error"] = 2, !["closeError"] = 1, !["crash"] = 1]

Mixed == [Quiet EXCEPT !["edit"] = 1, !["zone"] = 1, !["delete"] = 1, !["crash"] = 1]

Safety == {Edits, Retiming, Faults, Mixed}
\* A job that dies of errors is closed; one whose last attempt crashes is not.
Live == {[Quiet EXCEPT !["error"] = MaxAttempts], [Quiet EXCEPT !["error"] = 1, !["crash"] = 1]}
=============================================================================
