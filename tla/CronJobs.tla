------------------------------- MODULE CronJobs -------------------------------
(***************************************************************************)
(* The record of one cron job and the functions of clawdex/src/cron.rs that *)
(* compute on it: when it runs next, whether it is due, and what adding,    *)
(* patching, starting and finishing it makes of it.  No operator here reads *)
(* or writes a file; CronDaemon and CronStore do.                           *)
(*                                                                          *)
(* Instants are natural numbers (the code's epoch milliseconds, i64).       *)
(***************************************************************************)
EXTENDS Integers

CONSTANT NoJob          \* stands for "jobs.json has no job of this id"

\* An absent optional instant (None).
NoTime == -1

(***************************************************************************)
(* ScheduleSpec.  ms is at_ms of an "at" schedule, every_ms of an "every"   *)
(* schedule and, of a "cron" expression, the distance between its instants: *)
(* the expression is kept as a grid because the cron crate only contributes *)
(* "the first instant strictly after now".  every_ms = 0 divides by zero in *)
(* next_run_after, so schedules here have a positive interval.              *)
(***************************************************************************)
Schedule ==
  [kind : {"at"}, ms : Nat, anchor : {NoTime}]
    \cup [kind : {"every"}, ms : Nat \ {0}, anchor : Nat \cup {NoTime}]
    \cup [kind : {"cron"}, ms : Nat \ {0}, anchor : {NoTime}]

(***************************************************************************)
(* What the scheduler reads of a job.  next is state.nextRunAtMs, running   *)
(* says that state.runningAtMs is present, last is state.lastStatus.        *)
(***************************************************************************)
Job == [sched   : Schedule,
        wake    : {"now", "next-heartbeat"},
        del     : BOOLEAN,                      \* deleteAfterRun
        enabled : BOOLEAN,
        next    : Nat \cup {NoTime},
        running : BOOLEAN,
        last    : {"none", "ok", "error", "skipped"}]

ASSUME NoJobAssumption == NoJob \notin Job

-----------------------------------------------------------------------------

\* Faulty: the elapsed intervals are rounded down.
EveryNextFloor(every, anchor, t) ==
  LET rounded   == (t - anchor) \div every
      intervals == IF rounded < 1 THEN 1 ELSE rounded
  IN  IF t < anchor THEN anchor ELSE anchor + intervals * every

(***************************************************************************)
(* ScheduleSpec::next_run_after.  An "at" schedule always answers at_ms,    *)
(* past or not.  An "every" schedule without an anchor is anchored at now.  *)
(***************************************************************************)
EveryNext(every, anchor, t) ==
  LET elapsed   == t - anchor
      rounded   == (elapsed + every - 1) \div every
      intervals == IF rounded < 1 THEN 1 ELSE rounded
  IN  IF t < anchor THEN anchor ELSE anchor + intervals * every

NextRunAfter(s, t) ==
  CASE s.kind = "at"    -> s.ms
    [] s.kind = "every" -> EveryNext(s.ms, IF s.anchor = NoTime THEN t ELSE s.anchor, t)
    [] s.kind = "cron"  -> ((t \div s.ms) + 1) * s.ms

\* compute_next_run: a one-shot job that ended well has no next run.
ComputeNextRun(job, t) ==
  IF job.sched.kind = "at" /\ job.last = "ok" THEN NoTime
                                              ELSE NextRunAfter(job.sched, t)

\* The nextRunAtMs that collect_due_jobs works with: the stored one or, when
\* there is none, a computed one that it stores.
Filled(job, t) ==
  IF job.next = NoTime THEN [job EXCEPT !.next = ComputeNextRun(job, t)] ELSE job

Reached(next, t) == next # NoTime /\ t >= next

\* is_job_due_value.  A forced run is due whatever the job's state.
IsDue(job, t, forced) ==
  forced \/ (job.enabled /\ Reached(Filled(job, t).next, t))

\* The jobs collect_due_jobs acts on in mode "due" or "force": it skips
\* disabled and running jobs in both modes.
Collectable(job, t, forced) ==
  /\ job.enabled
  /\ ~job.running
  /\ forced \/ Reached(Filled(job, t).next, t)

-----------------------------------------------------------------------------

\* add_job: nextRunAtMs is set when the job is enabled.
Added(job, t) ==
  IF job.enabled THEN [job EXCEPT !.next = ComputeNextRun(job, t)] ELSE job

\* The patches of cron.update that the scheduler can tell apart.
Patch == [enabled : BOOLEAN, sched : Schedule]

\* update_job: the patch first, then nextRunAtMs is recomputed (a "None" leaves
\* the old value) or, for a disabled job, nextRunAtMs and runningAtMs go.
Patched(job, p, t) ==
  LET new  == [job EXCEPT !.enabled = p.enabled, !.sched = p.sched]
      next == ComputeNextRun(new, t)
  IN  IF ~p.enabled THEN [new EXCEPT !.next = NoTime, !.running = FALSE]
      ELSE IF next = NoTime THEN new
      ELSE [new EXCEPT !.next = next]

\* mark_job_running
Started(job) == [job EXCEPT !.running = TRUE]

\* Faulty: the running mark survives the end of the run.
AfterRunMarked(job, status, t) ==
  LET fired == job.sched.kind = "at" /\ status = "ok"
  IN  CASE fired /\ job.del  -> NoJob
        [] fired /\ ~job.del -> [job EXCEPT !.enabled = FALSE, !.next = NoTime,
                                           !.running = FALSE, !.last = status]
        [] ~fired -> [job EXCEPT !.last = status,
                                 !.next = IF job.enabled THEN NextRunAfter(job.sched, t)
                                                         ELSE NoTime]

\* Faulty: a one-shot job is treated like any other.
AfterRunAgain(job, status, t) ==
  [job EXCEPT !.running = FALSE, !.last = status,
              !.next = IF job.enabled THEN NextRunAfter(job.sched, t) ELSE NoTime]

(***************************************************************************)
(* update_job_state_from_run for a run that ended at t with status.  A      *)
(* one-shot job that ended well is deleted or disabled; any other enabled   *)
(* job gets its next run.  NoJob means that the job is deleted.             *)
(***************************************************************************)
AfterRun(job, status, t) ==
  LET ended == [job EXCEPT !.running = FALSE, !.last = status]
      fired == job.sched.kind = "at" /\ status = "ok"
  IN  CASE fired /\ job.del  -> NoJob
        [] fired /\ ~job.del -> [ended EXCEPT !.enabled = FALSE, !.next = NoTime]
        [] ~fired -> [ended EXCEPT !.next = IF job.enabled THEN NextRunAfter(job.sched, t)
                                                           ELSE NoTime]
=============================================================================
