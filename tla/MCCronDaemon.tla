---------------------------- MODULE MCCronDaemon ----------------------------
(***************************************************************************)
(* Small instances of CronDaemon: constant values for the .cfg files.       *)
(***************************************************************************)
EXTENDS CronDaemon

CONSTANTS a, b          \* two job ids

At(t)       == [kind |-> "at", ms |-> t, anchor |-> NoTime]
Every(n, t) == [kind |-> "every", ms |-> n, anchor |-> t]
Grid(n)     == [kind |-> "cron", ms |-> n, anchor |-> NoTime]

\* A job as cron.add leaves it at time 0.
Fresh(sched, wake, del) ==
  Added([sched |-> sched, wake |-> wake, del |-> del, enabled |-> TRUE,
         next |-> NoTime, running |-> FALSE, last |-> "none"], 0)

\* A job from a jobs.json of another program: without state.nextRunAtMs.
Imported(sched, wake) ==
  [Fresh(sched, wake, FALSE) EXCEPT !.next = NoTime]

Two(x, y) == [j \in JobIds |-> IF j = a THEN x ELSE y]
One(x)    == [j \in JobIds |-> IF j = a THEN x ELSE NoJob]

\* One repeating job, in either wake mode, or no job yet.
InitialEvery ==
  {NoJobs} \cup
  {One(Fresh(Every(1, 0), w, FALSE)) : w \in {"now", "next-heartbeat"}}
    \cup {One(Imported(Every(1, NoTime), "now"))}

\* A one-shot job, deleted or disabled after it ran, beside a repeating job.
InitialBoth ==
  {Two(Fresh(At(t), w, t = 0), Fresh(sched, v, FALSE)) :
     t \in {0, 1}, w, v \in {"now", "next-heartbeat"},
     sched \in {Grid(1), Every(1, NoTime)}}
    \cup {Two(Imported(At(1), w), Imported(Every(1, 1), v)) :
            w, v \in {"now", "next-heartbeat"}}

\* Two repeating jobs, one on a grid and one with an anchor or none.
InitialRepeating ==
  {Two(Fresh(Grid(1), w, FALSE), Fresh(Every(1, t), v, FALSE)) :
     w, v \in {"now", "next-heartbeat"}, t \in {NoTime, 1}}
    \cup {Two(Imported(Grid(1), "now"), Imported(Every(1, 0), "next-heartbeat"))}

\* The same beside a one-shot job.
InitialLive ==
  InitialRepeating
    \cup {Two(Fresh(At(1), w, TRUE), Fresh(Every(1, 0), v, FALSE)) :
            w, v \in {"now", "next-heartbeat"}}

\* Two one-shot jobs in the far future, reached only by manual runs.
InitialFuture ==
  {Two(Fresh(At(9), "next-heartbeat", TRUE), Fresh(At(9), "now", FALSE))}

NoTemplates == {}
NoPatches == {}
EveryTemplates == {Fresh(Every(2, NoTime), "now", FALSE)}
EveryPatches == {[enabled |-> e, sched |-> Every(1, 0)] : e \in BOOLEAN}
OneShotPatches == {[enabled |-> e, sched |-> At(1)] : e \in BOOLEAN}
=============================================================================
