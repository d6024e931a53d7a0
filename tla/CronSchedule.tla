----------------------------- MODULE CronSchedule -----------------------------
(***************************************************************************)
(* The instants a schedule plans (ScheduleSpec::next_run_after) against     *)
(* what they ought to be: the first point of the schedule's own grid that   *)
(* is not over yet.  The state is a schedule, a clock that moves by any     *)
(* number of steps, and the instant planned when the clock was last read.   *)
(***************************************************************************)
EXTENDS CronJobs

CONSTANTS
  Schedules,      \* the schedules looked at
  Horizon         \* bound on the clock

ASSUME SchedulesAssumption == Schedules \subseteq Schedule /\ Horizon \in Nat

VARIABLES sched, clock, planned

schedVars == <<sched, clock, planned>>

PlanInit ==
  /\ sched \in Schedules
  /\ clock \in 0..Horizon
  /\ planned = NextRunAfter(sched, clock)

\* A run ends (or a job is patched) at a later instant, and is planned again.
PlanAgain ==
  /\ \E t \in 0..Horizon :
       /\ t >= clock
       /\ clock' = t
       /\ planned' = NextRunAfter(sched, t)
  /\ UNCHANGED sched

PlanSpec == PlanInit /\ [][PlanAgain]_schedVars

(***************************************************************************)
(* The grid of a schedule and the points of it that may be planned at t: a  *)
(* point of "every" is the anchor, as long as that lies ahead, and then     *)
(* every positive multiple of the interval after it; an interval without an *)
(* anchor starts now.                                                       *)
(***************************************************************************)
Origin(s, t) == IF s.anchor = NoTime THEN t ELSE s.anchor

Point(s, t, n) ==
  CASE s.kind = "at"    -> n = s.ms
    [] s.kind = "every" -> \/ n = Origin(s, t) /\ t < Origin(s, t)
                           \/ /\ n >= t /\ t >= Origin(s, t)
                              /\ \E k \in 1..n : n = Origin(s, t) + k * s.ms
    [] s.kind = "cron"  -> n > t /\ \E k \in 1..n : n = k * s.ms

\* next_run_after plans a point of the grid and never skips one: of the points
\* that may still be planned it takes the first.  Rounding the elapsed intervals
\* down, or an interval too many, would run early or miss runs.
NextIsFirst ==
  /\ Point(sched, clock, planned)
  /\ \A n \in 0..planned : Point(sched, clock, n) => n = planned

=============================================================================
