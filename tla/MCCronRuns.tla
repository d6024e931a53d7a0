------------------------------ MODULE MCCronRuns ------------------------------
(***************************************************************************)
(* CronDaemon in two settings, told apart by the jobs a behaviour begins    *)
(* with.  Alone: the loop with two jobs and edits, no turn fails and nobody *)
(* runs a job by hand.  Served: the loop behind the HTTP server, with       *)
(* manual runs of its two jobs, which are due in the far future (one of     *)
(* them has no prompt), failing turns and a crash, at one instant.          *)
(***************************************************************************)
EXTENDS MCCronDaemon

InitialEither == InitialLive \cup InitialFuture

\* The second job is a one-shot job from the beginning, or it never is one.
IsServed == jobs[b] # NoJob /\ jobs[b].sched.kind = "at"
InAlone(A)  == ~IsServed /\ A
InServed(A) == IsServed /\ A

\* The loop, with turns that end well, badly, or fail.
LoopOf(d) ==
  \/ TickStart(d) \/ TakeCommand(d) \/ CommandsDone(d) \/ DrainPending(d)
  \/ NextJob(d) \/ ListDone(d) \/ CollectBegin(d) \/ CollectEnd(d)
  \/ \E j \in JobIds : CollectOne(d, j)
  \/ SkipJob(d) \/ AcquireLock(d) \/ StartTurn(d) \/ RecordRun(d) \/ ReleaseLock(d)
  \/ EndTurn(d, "ok") \/ InAlone(EndTurn(d, "error")) \/ InServed(FailTurn(d))

RunsNext ==
  \/ InAlone(Advance)
  \/ InAlone(Edits)
  \/ Server
  \/ \E r \in Requests : InServed(Client(r))
  \/ \E d \in Daemons : LoopOf(d) \/ InServed(Crash(d)) \/ Restart(d)

RunsSpec ==
  /\ Init /\ [][RunsNext]_vars
  /\ WF_vars(InAlone(Advance))
  /\ WF_vars(Server)
  /\ \A d \in Daemons : WF_vars(LoopOf(d))
=============================================================================
