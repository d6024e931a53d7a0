------------------------------ MODULE CronDaemon ------------------------------
(***************************************************************************)
(* The scheduler: the loop of clawdex/src/daemon.rs (run_daemon_loop), the  *)
(* files it shares with every other clawdex process                         *)
(*                                                                          *)
(*   jobs     cron/jobs.json         the jobs and their scheduling state    *)
(*   pending  cron/pending.json      jobs waiting for the next tick         *)
(*   locks    cron/locks/<id>.lock   one file per job being executed        *)
(*   runs     cron/runs/<id>.jsonl   which kinds of entry a log holds       *)
(*                                                                          *)
(* the processes that edit the jobs (cron.add, cron.update, cron.remove),   *)
(* and manual runs: an MCP process asks the HTTP server of clawdexd for a   *)
(* run, the server's only thread hands it to the loop and blocks, and a     *)
(* client that hears nothing falls back to running cron.run by itself.      *)
(*                                                                          *)
(* Each file operation of the loop is one step; the operations of the other *)
(* processes are one step each, their load and their save together.         *)
(* Heartbeats, inbound messages and memory syncs, which touch none of these *)
(* files, are left out of the loop.                                         *)
(***************************************************************************)
EXTENDS CronJobs, Sequences, FiniteSets

CONSTANTS
  JobIds,         \* ids a job may have
  Messages,       \* the ids whose payload yields a prompt (job_prompt)
  Daemons,        \* processes that run the loop
  Served,         \* the daemon that also has the HTTP server (clawdexd)
  Requests,       \* calls of the MCP tool cron.run
  None,           \* "no job", "no request"
  Initial,        \* the possible contents of jobs.json at the start
  Templates,      \* jobs that cron.add may add
  Patches,        \* patches that cron.update may apply
  Outcomes,       \* how a turn may end, a subset of TurnOutcome
  MaxTime,        \* bound on the clock
  MaxEdits,       \* bound on the number of edits of jobs.json
  MaxCrashes,     \* bound on the number of crashes
  MaxTries        \* HTTP posts of one request: 2 with CLAWDEX_DAEMON_IPC, else 1

TurnOutcome == {"ok", "error", "skipped", "failed"}

ASSUME ConstantsAssumption ==
  /\ Messages \subseteq JobIds
  /\ Served \in Daemons
  /\ None \notin JobIds /\ None \notin Requests
  /\ Initial \subseteq [JobIds -> Job \cup {NoJob}]
  /\ Templates \subseteq Job
  /\ Patches \subseteq Patch
  /\ Outcomes \subseteq TurnOutcome
  /\ MaxTime \in Nat /\ MaxEdits \in Nat /\ MaxCrashes \in Nat
  /\ MaxTries \in Nat \ {0}

VARIABLES
  now,      \* the clock
  jobs, pending, locks, runs,
  pc,       \* where each daemon is in its loop
  tick,     \* run_daemon_loop's `now`, read at the top of the tick
  todo,     \* the drained or collected jobs still to execute
  src,      \* where the job being executed comes from
  cur,      \* the job being executed
  snap,     \* collect_due_jobs' copy of jobs.json
  left,     \* the due jobs collect_due_jobs has still to queue
  dirty,    \* whether collect_due_jobs will save its copy
  result,   \* the status the current turn ended with, and when it ended
  http,     \* requests waiting in the HTTP server
  serving,  \* the request whose answer the server thread is blocked on
  chan,     \* the mpsc channel from the server thread to the loop
  taken,    \* the command under execution, whose sender (respond_to) the loop holds
  rq,       \* the state of every manual run request
  edits, crashes,   \* counters, bounded by MaxEdits and MaxCrashes
  did,      \* history: what became of the posts of manual runs
  oks       \* history: turns that ended in status "ok" per job (2: "2 and more")

files      == <<jobs, pending, locks, runs>>
loopVars   == <<tick, todo, src, cur, snap, left, dirty, result>>
manual     == <<http, serving, chan, taken, rq>>
history    == <<did, oks>>
counters   == <<edits, crashes>>
vars == <<now, files, pc, loopVars, manual, counters, history>>

NoJobs == [j \in JobIds |-> NoJob]
Present(js) == {j \in JobIds : js[j] # NoJob}
AtLeast(n) == IF n < 2 THEN n + 1 ELSE n

\* A request as it travels: its body, which call it belongs to, and which of the
\* posts of that call it is.
Call == [req : Requests, try : Nat, job : JobIds, force : BOOLEAN]

ASSUME CallAssumption == None \notin Call

\* st: has the tool call returned, and what is it doing otherwise.
RequestState ==
  [st    : {"idle", "waiting", "lost", "done"},
   job   : JobIds \cup {None},
   force : BOOLEAN,
   try   : Nat,
   ran   : BOOLEAN,                            \* the "ran" of the answer
   by    : {"nobody", "daemon", "client"}]     \* who answered

\* status and ended_at of execute_job.
Result == [status : {"ok", "error", "skipped"}, at : Nat]
NoResult == [status |-> "ok", at |-> 0]

Control == {"top", "commands", "pending", "collect", "queue", "run", "lock",
            "mark", "turn", "record", "release", "dead", "down"}

\* The control points between acquire_job_lock and the lock's Drop.
Critical == {"mark", "turn", "record", "release"}

FilesOK ==
  /\ jobs \in [JobIds -> Job \cup {NoJob}]
  /\ pending \in Seq(JobIds)
  /\ locks \in SUBSET JobIds
  /\ runs \in [JobIds -> SUBSET {"queued", "ok", "error", "skipped"}]

LoopOK ==
  /\ pc \in [Daemons -> Control]
  /\ tick \in [Daemons -> Nat]
  /\ todo \in [Daemons -> Seq(JobIds)]
  /\ src \in [Daemons -> {"command", "pending", "due"}]
  /\ cur \in [Daemons -> JobIds \cup {None}]
  /\ snap \in [Daemons -> [JobIds -> Job \cup {NoJob}]]
  /\ left \in [Daemons -> SUBSET JobIds]
  /\ dirty \in [Daemons -> BOOLEAN]
  /\ result \in [Daemons -> Result]

ManualOK ==
  /\ http \in Seq(Call)
  /\ serving \in Call \cup {None}
  /\ chan \in Seq(Call)
  /\ taken \in Call \cup {None}
  /\ rq \in [Requests -> RequestState]

CountsOK ==
  /\ now \in Nat
  /\ edits \in Nat /\ crashes \in Nat
  /\ did \subseteq (Call \cup {None}) \X {"recorded", "skipped"}
  /\ oks \in [JobIds -> 0..2]

TypeOK == FilesOK /\ LoopOK /\ ManualOK /\ CountsOK

Init ==
  /\ now = 0
  /\ jobs \in Initial
  /\ pending = <<>>
  /\ locks = {}
  /\ runs = [j \in JobIds |-> {}]
  /\ pc = [d \in Daemons |-> "top"]
  /\ tick = [d \in Daemons |-> 0]
  /\ todo = [d \in Daemons |-> <<>>]
  /\ src = [d \in Daemons |-> "pending"]
  /\ cur = [d \in Daemons |-> None]
  /\ snap = [d \in Daemons |-> NoJobs]
  /\ left = [d \in Daemons |-> {}]
  /\ dirty = [d \in Daemons |-> FALSE]
  /\ result = [d \in Daemons |-> NoResult]
  /\ http = <<>> /\ serving = None /\ chan = <<>> /\ taken = None
  /\ rq = [r \in Requests |-> [st |-> "idle", job |-> None, force |-> FALSE,
                               try |-> 0, ran |-> FALSE, by |-> "nobody"]]
  /\ edits = 0 /\ crashes = 0
  /\ did = {}
  /\ oks = [j \in JobIds |-> 0]

\* The clock moves on its own.
Advance ==
  /\ now < MaxTime
  /\ now' = now + 1
  /\ UNCHANGED <<files, pc, loopVars, manual, counters, history>>

Logged(j, kind) == [runs EXCEPT ![j] = @ \cup {kind}]

-----------------------------------------------------------------------------
(***************************************************************************)
(* Edits of jobs.json by another process or by the HTTP server, whose       *)
(* thread cannot take one while it waits for the loop; MCP processes can at *)
(* any time, which is what is modelled.                                     *)
(***************************************************************************)
Edit(newJobs) ==
  /\ edits < MaxEdits
  /\ edits' = edits + 1
  /\ jobs' = newJobs
  /\ UNCHANGED <<now, pending, locks, runs, pc, loopVars, manual, crashes, history>>

\* add_job.  The id is a fresh UUID unless the caller chooses one; callers that
\* reuse the id of a job still in the file are left out.
AddJob(j, job) ==
  /\ jobs[j] = NoJob
  /\ Edit([jobs EXCEPT ![j] = Added(job, now)])

\* update_job fails on an unknown id, before it writes.
UpdateJob(j, patch) ==
  /\ jobs[j] # NoJob
  /\ Edit([jobs EXCEPT ![j] = Patched(@, patch, now)])

\* remove_job
RemoveJob(j) ==
  /\ jobs[j] # NoJob
  /\ Edit([jobs EXCEPT ![j] = NoJob])

-----------------------------------------------------------------------------
(***************************************************************************)
(* Manual runs.  answers says which post of which request is answered.      *)
(***************************************************************************)
\* Faulty: the answer's ok is taken for its ran.
AnsweredOk(call, ran) ==
  IF rq[call.req].st = "waiting" /\ rq[call.req].try = call.try
  THEN [rq EXCEPT ![call.req] = [@ EXCEPT !.st = "done", !.ran = TRUE, !.by = "daemon"]]
  ELSE rq

Answered(call, ran) ==
  IF rq[call.req].st = "waiting" /\ rq[call.req].try = call.try
  THEN [rq EXCEPT ![call.req] = [@ EXCEPT !.st = "done", !.ran = ran, !.by = "daemon"]]
  ELSE rq                                 \* nobody listens any more

\* daemon_client::cron_run posts the request to the daemon's server.
PostRun(r, j, force) ==
  /\ rq[r].st = "idle"
  /\ pc[Served] # "down"
  /\ rq' = [rq EXCEPT ![r] = [@ EXCEPT !.st = "waiting", !.job = j, !.force = force,
                                     !.try = 1]]
  /\ http' = Append(http, [req |-> r, try |-> 1, job |-> j, force |-> force])
  /\ UNCHANGED <<now, files, pc, loopVars, serving, chan, taken, counters, history>>

\* No server listens: the connection is refused.
PostRefused(r, j, force) ==
  /\ rq[r].st = "idle"
  /\ pc[Served] = "down"
  /\ rq' = [rq EXCEPT ![r] = [@ EXCEPT !.st = "lost", !.job = j, !.force = force]]
  /\ UNCHANGED <<now, files, pc, loopVars, http, serving, chan, taken, counters, history>>

\* The client's timeout (30 s through the IPC socket, 500 ms over HTTP) expires
\* or its connection breaks.  The request itself stays where it is.
TimeoutRun(r) ==
  /\ rq[r].st = "waiting"
  /\ IF rq[r].try < MaxTries /\ pc[Served] # "down"
     THEN /\ rq' = [rq EXCEPT ![r] = [@ EXCEPT !.try = rq[r].try + 1]]
          /\ http' = Append(http, [req |-> r, try |-> rq[r].try + 1,
                                   job |-> rq[r].job, force |-> rq[r].force])
     ELSE /\ rq' = [rq EXCEPT ![r] = [@ EXCEPT !.st = "lost"]]
          /\ UNCHANGED http
  /\ UNCHANGED <<now, files, pc, loopVars, serving, chan, taken, counters, history>>

\* cron::run_jobs in the client's own process: what collect_due_jobs finds due
\* is queued for the daemon (next-heartbeat) or only logged; the list of jobs
\* it returns for execution is dropped.
FallbackRun(r) ==
  LET j     == rq[r].job
      due   == jobs[j] # NoJob /\ IsDue(jobs[j], now, rq[r].force)
      takes == due /\ Collectable(jobs[j], now, rq[r].force)
  IN  /\ rq[r].st = "lost"
      /\ rq' = [rq EXCEPT ![r] = [@ EXCEPT !.st = "done", !.ran = due, !.by = "client"]]
      /\ jobs' = IF due THEN [i \in JobIds |->
                                IF jobs[i] # NoJob /\ jobs[i].enabled /\ ~jobs[i].running
                                THEN Filled(jobs[i], now) ELSE jobs[i]]
                        ELSE jobs
      /\ runs' = IF takes THEN Logged(j, "queued") ELSE runs
      /\ pending' = IF takes /\ jobs[j].wake = "next-heartbeat"
                    THEN Append(pending, j) ELSE pending
      /\ UNCHANGED <<now, locks, pc, loopVars, http, serving, chan, taken, counters, history>>

\* The server's only thread takes the next request and blocks on the loop.
\* DaemonControl::run_cron_job: once the loop has ended, send fails at once.
ServeRun ==
  /\ pc[Served] # "down"
  /\ serving = None
  /\ http # <<>>
  /\ http' = Tail(http)
  /\ IF pc[Served] = "dead"
     THEN /\ rq' = Answered(Head(http), FALSE)
          /\ UNCHANGED <<serving, chan>>
     ELSE /\ serving' = Head(http)
          /\ chan' = Append(chan, Head(http))
          /\ UNCHANGED rq
  /\ UNCHANGED <<now, files, pc, loopVars, taken, counters, history>>

\* The loop ended with the request in its channel: dropping the channel drops
\* the sender of the answer, and recv returns an error.
ChannelClosed ==
  /\ pc[Served] = "dead"
  /\ serving # None
  /\ rq' = Answered(serving, FALSE)
  /\ serving' = None
  /\ chan' = <<>>
  /\ UNCHANGED <<now, files, pc, loopVars, http, taken, counters, history>>

-----------------------------------------------------------------------------
(***************************************************************************)
(* The loop.                                                                *)
(***************************************************************************)
Goto(d, label) == pc' = [pc EXCEPT ![d] = label]

TickStart(d) ==
  /\ pc[d] = "top"
  /\ Goto(d, "commands")
  /\ tick' = [tick EXCEPT ![d] = now]
  /\ UNCHANGED <<now, files, todo, src, cur, snap, left, dirty, result, manual,
                 counters, history>>

\* run_cron_job_now: an unknown job or one that is not due is answered at once.
\* It asks neither whether the job is enabled (forced) nor whether it runs.
TakeCommand(d) ==
  LET call == Head(chan)
      j    == call.job
      due  == jobs[j] # NoJob /\ IsDue(jobs[j], now, call.force)
  IN  /\ pc[d] = "commands" /\ d = Served
      /\ chan # <<>>
      /\ chan' = Tail(chan)
      /\ IF due
         THEN /\ cur' = [cur EXCEPT ![d] = j]
              /\ src' = [src EXCEPT ![d] = "command"]
              /\ taken' = call
              /\ Goto(d, "lock")
              /\ UNCHANGED <<rq, serving>>
         ELSE /\ rq' = Answered(call, FALSE)
              /\ serving' = None
              /\ UNCHANGED <<pc, cur, src, taken>>
      /\ UNCHANGED <<now, files, tick, todo, snap, left, dirty, result, http,
                     counters, history>>

\* try_recv finds the channel empty.
CommandsDone(d) ==
  /\ pc[d] = "commands"
  /\ d = Served => chan = <<>>
  /\ Goto(d, "pending")
  /\ UNCHANGED <<now, files, loopVars, manual, counters, history>>

\* Faulty: the drained jobs stay in pending.json.
DrainPendingKept(d) ==
  /\ pc[d] = "pending"
  /\ todo' = [todo EXCEPT ![d] = pending]
  /\ src' = [src EXCEPT ![d] = "pending"]
  /\ Goto(d, "run")
  /\ UNCHANGED <<now, files, tick, cur, snap, left, dirty, result, manual, counters,
                 history>>

\* drain_pending_jobs empties the file before any of its jobs is executed.
DrainPending(d) ==
  /\ pc[d] = "pending"
  /\ todo' = [todo EXCEPT ![d] = pending]
  /\ pending' = <<>>
  /\ src' = [src EXCEPT ![d] = "pending"]
  /\ Goto(d, "run")
  /\ UNCHANGED <<now, jobs, locks, runs, tick, cur, snap, left, dirty, result, manual,
                 counters, history>>

NextJob(d) ==
  /\ pc[d] = "run"
  /\ todo[d] # <<>>
  /\ cur' = [cur EXCEPT ![d] = Head(todo[d])]
  /\ todo' = [todo EXCEPT ![d] = Tail(@)]
  /\ Goto(d, "lock")
  /\ UNCHANGED <<now, files, tick, src, snap, left, dirty, result, manual, counters,
                 history>>

\* The pending jobs are done: on to the due ones.  The due ones are done: the
\* loop sleeps, then starts the next tick.
ListDone(d) ==
  /\ pc[d] = "run"
  /\ todo[d] = <<>>
  /\ Goto(d, IF src[d] = "pending" THEN "collect" ELSE "top")
  /\ UNCHANGED <<now, files, loopVars, manual, counters, history>>

\* collect_due_jobs loads jobs.json and decides by that copy and by the time the
\* tick began.
CollectBegin(d) ==
  LET open == {j \in Present(jobs) : jobs[j].enabled /\ ~jobs[j].running}
      copy == [j \in JobIds |-> IF j \in open THEN Filled(jobs[j], tick[d]) ELSE jobs[j]]
  IN  /\ pc[d] = "collect"
      /\ left' = [left EXCEPT ![d] = {j \in open : Collectable(jobs[j], tick[d], FALSE)}]
      /\ dirty' = [dirty EXCEPT ![d] = copy # jobs]
      /\ snap' = [snap EXCEPT ![d] = copy]
      /\ src' = [src EXCEPT ![d] = "due"]
      /\ Goto(d, "queue")
      /\ UNCHANGED <<now, files, tick, todo, cur, result, manual, counters, history>>

\* Faulty: a job for the next tick is logged as queued and not queued.
CollectOneLogged(d, j) ==
  /\ pc[d] = "queue"
  /\ j \in left[d]
  /\ left' = [left EXCEPT ![d] = @ \ {j}]
  /\ runs' = Logged(j, "queued")
  /\ todo' = IF snap[d][j].wake = "next-heartbeat" THEN todo
             ELSE [todo EXCEPT ![d] = Append(@, j)]
  /\ UNCHANGED <<now, jobs, pending, locks, pc, tick, src, cur, snap, dirty, result,
                 manual, counters, history>>

\* One due job of the copy: queued for the next tick or for this one.
CollectOne(d, j) ==
  /\ pc[d] = "queue"
  /\ j \in left[d]
  /\ left' = [left EXCEPT ![d] = @ \ {j}]
  /\ runs' = Logged(j, "queued")
  /\ IF snap[d][j].wake = "next-heartbeat"
     THEN pending' = Append(pending, j) /\ UNCHANGED todo
     ELSE todo' = [todo EXCEPT ![d] = Append(@, j)] /\ UNCHANGED pending
  /\ UNCHANGED <<now, jobs, locks, pc, tick, src, cur, snap, dirty, result, manual,
                 counters, history>>

\* The copy is saved, over whatever was written since, if it was changed.
CollectEnd(d) ==
  /\ pc[d] = "queue"
  /\ left[d] = {}
  /\ jobs' = IF dirty[d] THEN snap[d] ELSE jobs
  /\ snap' = [snap EXCEPT ![d] = NoJobs]
  /\ dirty' = [dirty EXCEPT ![d] = FALSE]
  /\ Goto(d, "run")
  /\ UNCHANGED <<now, pending, locks, runs, tick, todo, src, cur, left, result, manual,
                 counters, history>>

-----------------------------------------------------------------------------
(***************************************************************************)
(* execute_job.                                                             *)
(***************************************************************************)

\* Faulty: an execution that failed sends no answer.
ReturnQuietly(d, ran) ==
  /\ cur' = [cur EXCEPT ![d] = None]
  /\ IF src[d] = "command"
     THEN /\ Goto(d, "commands")
          /\ rq' = IF taken # None /\ ran THEN Answered(taken, ran) ELSE rq
          /\ serving' = IF ran THEN None ELSE serving
          /\ taken' = None
     ELSE /\ Goto(d, "run")
          /\ UNCHANGED <<rq, serving, taken>>

\* execute_job returns to its caller, which answers the command it executes: ran
\* is what the waiting request is told.
Return(d, ran) ==
  /\ cur' = [cur EXCEPT ![d] = None]
  /\ IF src[d] = "command"
     THEN /\ Goto(d, "commands")
          /\ rq' = IF taken = None THEN rq ELSE Answered(taken, ran)
          /\ serving' = None
          /\ taken' = None
     ELSE /\ Goto(d, "run")
          /\ UNCHANGED <<rq, serving, taken>>

\* History: what became of the command under execution.
Noted(d, what) == IF src[d] = "command" THEN did \cup {<<taken, what>>} ELSE did

\* A job without a message, or whose lock file exists, is logged as skipped and
\* execute_job returns Ok.  The job's scheduling state is left as it is.
SkipJob(d) ==
  /\ pc[d] = "lock"
  /\ cur[d] \notin Messages \/ cur[d] \in locks
  /\ runs' = Logged(cur[d], "skipped")
  /\ did' = Noted(d, "skipped")
  /\ Return(d, TRUE)
  /\ UNCHANGED <<now, jobs, pending, locks, tick, todo, src, snap, left, dirty, result,
                 http, chan, counters, oks>>

\* Faulty: the lock file is opened with create instead of create_new.
AcquireLockShared(d) ==
  /\ pc[d] = "lock"
  /\ cur[d] \in Messages
  /\ locks' = locks \cup {cur[d]}
  /\ Goto(d, "mark")
  /\ UNCHANGED <<now, jobs, pending, runs, loopVars, manual, counters, history>>

\* acquire_job_lock: create_new fails when the file exists.
AcquireLock(d) ==
  /\ pc[d] = "lock"
  /\ cur[d] \in Messages
  /\ cur[d] \notin locks
  /\ locks' = locks \cup {cur[d]}
  /\ Goto(d, "mark")
  /\ UNCHANGED <<now, jobs, pending, runs, loopVars, manual, counters, history>>

\* mark_job_running (a job that was removed meanwhile is executed all the same),
\* then the turn starts.
StartTurn(d) ==
  LET j == cur[d]
  IN  /\ pc[d] = "mark"
      /\ jobs' = IF jobs[j] = NoJob THEN jobs ELSE [jobs EXCEPT ![j] = Started(@)]
      /\ Goto(d, "turn")
      /\ UNCHANGED <<now, pending, locks, runs, loopVars, manual, counters, history>>

\* The turn is answered, which fixes ended_at; its output is delivered, or not, with
\* the status that record_run is given: completed, delivery_failed or skipped (best
\* effort).
EndTurn(d, status) ==
  /\ pc[d] = "turn"
  /\ status \in Outcomes \ {"failed"}
  /\ result' = [result EXCEPT ![d] = [status |-> status, at |-> now]]
  /\ Goto(d, "record")
  /\ UNCHANGED <<now, files, tick, todo, src, cur, snap, left, dirty, manual, counters,
                 history>>

\* record_run: update_job_state_from_run, then the log entry.
RecordRun(d) ==
  LET j  == cur[d]
      st == result[d].status
  IN  /\ pc[d] = "record"
      /\ jobs' = IF jobs[j] = NoJob THEN jobs
                 ELSE [jobs EXCEPT ![j] = AfterRun(@, st, result[d].at)]
      /\ runs' = Logged(j, st)
      /\ oks' = IF st = "ok" THEN [oks EXCEPT ![j] = AtLeast(@)] ELSE oks
      /\ did' = Noted(d, "recorded")
      /\ result' = [result EXCEPT ![d] = NoResult]
      /\ Goto(d, "release")
      /\ UNCHANGED <<now, pending, locks, tick, todo, src, cur, snap, left, dirty, manual,
                     counters>>

\* Drop of the JobLock at the end of execute_job.
ReleaseLock(d) ==
  /\ pc[d] = "release"
  /\ locks' = locks \ {cur[d]}
  /\ Return(d, TRUE)
  /\ UNCHANGED <<now, jobs, pending, runs, tick, todo, src, snap, left, dirty, result,
                 http, chan, counters, history>>

\* The turn fails: record_run is told "failed", which it logs as "queued" without
\* touching the job; the lock is dropped, and the error ends the loop unless
\* the job was a manual run.
FailTurn(d) ==
  /\ pc[d] = "turn"
  /\ "failed" \in Outcomes
  /\ runs' = Logged(cur[d], "queued")
  /\ locks' = locks \ {cur[d]}
  /\ IF src[d] = "command"
     THEN Return(d, FALSE) /\ UNCHANGED todo
     ELSE /\ Goto(d, "dead")
          /\ cur' = [cur EXCEPT ![d] = None]
          /\ todo' = [todo EXCEPT ![d] = <<>>]
          /\ UNCHANGED <<rq, serving, taken>>
  /\ UNCHANGED <<now, jobs, pending, tick, src, snap, left, dirty, result, http, chan,
                 counters, history>>

-----------------------------------------------------------------------------
(***************************************************************************)
(* The process is killed between any two steps.  The files stay as they     *)
(* are, lock files included; what it had in memory is gone.                 *)
(***************************************************************************)
Forget(d) ==
  /\ todo' = [todo EXCEPT ![d] = <<>>]
  /\ cur' = [cur EXCEPT ![d] = None]
  /\ snap' = [snap EXCEPT ![d] = NoJobs]
  /\ left' = [left EXCEPT ![d] = {}]
  /\ dirty' = [dirty EXCEPT ![d] = FALSE]
  /\ IF d = Served THEN http' = <<>> /\ serving' = None /\ chan' = <<>> /\ taken' = None
                   ELSE UNCHANGED <<http, serving, chan, taken>>
  /\ result' = [result EXCEPT ![d] = NoResult]
  /\ UNCHANGED <<tick, src, rq>>

Crash(d) ==
  /\ crashes < MaxCrashes
  /\ pc[d] # "down"
  /\ crashes' = crashes + 1
  /\ Goto(d, "down")
  /\ Forget(d)
  /\ UNCHANGED <<now, files, edits, history>>

Restart(d) ==
  /\ pc[d] = "down"
  /\ Goto(d, "top")
  /\ UNCHANGED <<now, files, loopVars, manual, counters, history>>

-----------------------------------------------------------------------------
Execute(d) ==
  \/ SkipJob(d) \/ AcquireLock(d) \/ StartTurn(d) \/ RecordRun(d) \/ ReleaseLock(d)
  \/ FailTurn(d)
  \/ \E status \in {"ok", "error", "skipped"} : EndTurn(d, status)

Loop(d) ==
  \/ TickStart(d) \/ TakeCommand(d) \/ CommandsDone(d) \/ DrainPending(d)
  \/ NextJob(d) \/ ListDone(d)
  \/ CollectBegin(d) \/ CollectEnd(d)
  \/ \E j \in JobIds : CollectOne(d, j)
  \/ Execute(d)

Edits ==
  \E j \in JobIds :
    \/ RemoveJob(j)
    \/ \E job \in Templates : AddJob(j, job)
    \/ \E patch \in Patches : UpdateJob(j, patch)

Client(r) ==
  \/ \E j \in JobIds, force \in BOOLEAN : PostRun(r, j, force) \/ PostRefused(r, j, force)
  \/ TimeoutRun(r)
  \/ FallbackRun(r)

Server == ServeRun \/ ChannelClosed

Next ==
  \/ Advance
  \/ Edits
  \/ \E r \in Requests : Client(r)
  \/ Server
  \/ \E d \in Daemons : Loop(d) \/ Crash(d) \/ Restart(d)

Spec == Init /\ [][Next]_vars

\* The loop's thread and the server's thread are scheduled, and a turn ends:
\* run_turn returns when app-server reports the end of the turn.  Nothing makes
\* a client give up, a process restart or anyone edit a job.
Fairness ==
  /\ \A d \in Daemons : WF_vars(Loop(d))
  /\ WF_vars(Server)
  /\ WF_vars(Advance)

FairSpec == Spec /\ Fairness

\* The same for an operator, or a service manager, who starts a dead daemon again.
RestartedSpec == FairSpec /\ \A d \in Daemons : WF_vars(Restart(d))
-----------------------------------------------------------------------------
(***************************************************************************)
(* Properties.                                                              *)
(***************************************************************************)

\* Two processes never execute the same job at the same time, whatever crashes
\* and whichever of them collected it: this is what the lock files are for
\* (acquire_job_lock, and the Drop of JobLock after record_run).
MutualExclusion ==
  \A d1, d2 \in Daemons :
    (pc[d1] \in Critical /\ pc[d2] \in Critical /\ cur[d1] = cur[d2]) => d1 = d2

\* With one daemon and no failing turn, a job marked as running in jobs.json has
\* its lock file in place: record_run clears the mark before the lock goes, and
\* no stale copy of jobs.json brings the mark back.  A mark without a lock
\* would keep collect_due_jobs away from an idle job for ever.
RunningIsLocked ==
  \A j \in Present(jobs) : jobs[j].running => j \in locks

\* A one-shot ("at") job ends well at most once, across crashes, restarts and
\* edits: update_job_state_from_run deletes or disables it, and no copy of it
\* is left in a list of the loop or in pending.json.
OneShotOnce ==
  \A j \in JobIds :
    (\E js \in Initial : js[j] # NoJob /\ js[j].sched.kind = "at") => oks[j] <= 1

\* As long as nobody edits a job or runs one by hand, a job is not started before
\* its nextRunAtMs: a second copy of it, queued before its first run moved
\* nextRunAtMs on, would be.
NeverEarly ==
  [][\A d \in Daemons : edits = 0 /\ pc[d] = "mark" /\ pc'[d] = "turn" =>
        jobs[cur[d]] # NoJob /\ jobs[cur[d]].next <= now]_vars

\* A job of jobs.json that the scheduler owes a run now.
Owed(j) ==
  /\ jobs[j] # NoJob
  /\ Collectable(jobs[j], now, FALSE)

InTurn(j) == \E d \in Daemons : pc[d] = "turn" /\ cur[d] = j

\* While no turn fails and nothing crashes, a job that is due gets its turn (or
\* is removed, disabled or rescheduled first), whatever its wakeMode, also
\* while other jobs are due on every tick.
DueJobRuns == \A j \in Messages : Owed(j) ~> (InTurn(j) \/ ~Owed(j))

\* The server's thread, which serves every other request too, does not wait for
\* the loop for ever, even if the loop ends with a request in its channel.
ServerReturns == serving # None ~> serving = None

\* What the daemon answers to a call is about that very post of it: if it says
\* ran = true, the loop executed the job for this post, and the run is on record
\* (one that failed is not), or it was passed over, which execute_job takes for a
\* success: a job without a message, or one whose lock file a crash left behind.
\* Neither the answer to an earlier post that timed out nor that to another call
\* is ever taken for it.
LastPost(r) == [req |-> r, try |-> rq[r].try, job |-> rq[r].job, force |-> rq[r].force]

DaemonRanTruly ==
  \A r \in Requests :
    (rq[r].by = "daemon" /\ rq[r].ran) =>
      \/ <<LastPost(r), "recorded">> \in did
      \/ /\ <<LastPost(r), "skipped">> \in did
         /\ rq[r].job \notin Messages \/ crashes > 0

-----------------------------------------------------------------------------
(***************************************************************************)
(* What documents of the repository say and the code does not do.           *)
(***************************************************************************)

\* BASELINE.md:263, "cron jobs persist and run after restart": when the daemon is
\* started again after every crash, a job whose time has come gets a turn (or is
\* removed, disabled or rescheduled).
RunsAfterRestart ==
  \A j \in Messages :
    LET awaited == jobs[j] # NoJob /\ jobs[j].enabled /\ Reached(jobs[j].next, now)
    IN  awaited ~> (InTurn(j) \/ ~awaited)
=============================================================================
