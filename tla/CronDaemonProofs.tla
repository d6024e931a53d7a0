--------------------------- MODULE CronDaemonProofs ---------------------------
(***************************************************************************)
(* Theorems about CronDaemon, for any number of jobs, daemons and requests, *)
(* any jobs.json to start from, any edits, failures, crashes and restarts.  *)
(*                                                                          *)
(* MutualExclusion is not inductive by itself.  A daemon that is about to   *)
(* mark a job says nothing of its lock file; the invariant adds that the    *)
(* file is there (LockHeld).  That a daemon beyond NextJob or TakeCommand   *)
(* has a job (HasJob), and that a posted request names one (AsksForJob),    *)
(* are what type correctness needs besides TypeOK.                          *)
(*                                                                          *)
(* RunningIsLocked, OneShotOnce, NeverEarly and DaemonRanTruly hold for one *)
(* daemon, as it is meant to be run: their theorems have that hypothesis,   *)
(* and their invariants (MarksInv, ListsInv with OnceInv or EarlyInv, and   *)
(* AnswerInv) say of the stale copies, the lists and the channel of that    *)
(* daemon what keeps the property true when they are used.                  *)
(***************************************************************************)
EXTENDS CronDaemon, CronSchedule, TLAPS

-----------------------------------------------------------------------------
(* The functions of CronJobs, for every schedule and instant.                *)

\* The product of two natural numbers is one, stated once because the SMT
\* solver does not see it inside a larger goal.
LEMMA ProductNat == \A m, n \in Nat : m * n \in Nat
  OBVIOUS

\* An "every" schedule (next_run_after) yields a natural instant.
LEMMA EveryNextType ==
  ASSUME NEW every \in Nat \ {0}, NEW anchor \in Nat, NEW t \in Nat
  PROVE  EveryNext(every, anchor, t) \in Nat
<1> DEFINE rounded == (t - anchor + every - 1) \div every
           k       == IF rounded < 1 THEN 1 ELSE rounded
<1>1. rounded \in Int
  OBVIOUS
<1>2. k \in Nat
  BY <1>1
<1>3. k * every \in Nat
  BY <1>2, ProductNat
<1>4. anchor + k * every \in Nat
  BY <1>3
<1> QED
  BY <1>4 DEF EveryNext

\* Every schedule has a next instant after any instant.
LEMMA NextRunType ==
  ASSUME NEW s \in Schedule, NEW t \in Nat
  PROVE  NextRunAfter(s, t) \in Nat
<1>1. CASE s.kind = "at"
  BY <1>1 DEF NextRunAfter, Schedule, NoTime
<1>2. CASE s.kind = "every"
  <2>1. s.ms \in Nat \ {0} /\ s.anchor \in Nat \cup {NoTime}
    BY <1>2 DEF Schedule
  <2>2. (IF s.anchor = NoTime THEN t ELSE s.anchor) \in Nat
    BY <2>1
  <2> QED
    BY <1>2, <2>1, <2>2, EveryNextType DEF NextRunAfter
<1>3. CASE s.kind = "cron"
  <2>1. s.ms \in Nat \ {0}
    BY <1>3 DEF Schedule
  <2>2. (t \div s.ms) + 1 \in Nat
    BY <2>1
  <2>3. ((t \div s.ms) + 1) * s.ms \in Nat
    BY <2>1, <2>2, ProductNat
  <2> QED
    BY <1>3, <2>3 DEF NextRunAfter
<1> QED
  BY <1>1, <1>2, <1>3 DEF Schedule

LEMMA ComputeNextType ==
  ASSUME NEW job \in Job, NEW t \in Nat
  PROVE  ComputeNextRun(job, t) \in Nat \cup {NoTime}
BY NextRunType DEF ComputeNextRun, Job

LEMMA FilledType ==
  ASSUME NEW job \in Job, NEW t \in Nat
  PROVE  Filled(job, t) \in Job
BY ComputeNextType DEF Filled, Job

LEMMA AddedType ==
  ASSUME NEW job \in Job, NEW t \in Nat
  PROVE  Added(job, t) \in Job
BY ComputeNextType DEF Added, Job

LEMMA StartedType ==
  ASSUME NEW job \in Job
  PROVE  Started(job) \in Job
BY DEF Started, Job

LEMMA PatchedType ==
  ASSUME NEW job \in Job, NEW p \in Patch, NEW t \in Nat
  PROVE  Patched(job, p, t) \in Job
<1> DEFINE new  == [job EXCEPT !.enabled = p.enabled, !.sched = p.sched]
           next == ComputeNextRun(new, t)
<1>1. new \in Job
  BY DEF Job, Patch
<1>2. next \in Nat \cup {NoTime}
  BY <1>1, ComputeNextType
<1> HIDE DEF next
<1>3. [new EXCEPT !.next = NoTime, !.running = FALSE] \in Job
  BY <1>1 DEF Job
<1>4. [new EXCEPT !.next = next] \in Job
  BY <1>1, <1>2 DEF Job
<1> QED
  BY <1>1, <1>3, <1>4 DEF Patched, next

\* Finishing a run yields a job, or deletes it.
LEMMA AfterRunType ==
  ASSUME NEW job \in Job, NEW status \in {"ok", "error", "skipped"}, NEW t \in Nat
  PROVE  AfterRun(job, status, t) \in Job \cup {NoJob}
<1> DEFINE ended == [job EXCEPT !.running = FALSE, !.last = status]
           next  == IF job.enabled THEN NextRunAfter(job.sched, t) ELSE NoTime
           fired == job.sched.kind = "at" /\ status = "ok"
<1>1. ended \in Job
  BY DEF Job
<1>2. next \in Nat \cup {NoTime}
  BY NextRunType DEF Job
<1> HIDE DEF next
<1>3. [ended EXCEPT !.enabled = FALSE, !.next = NoTime] \in Job
  BY <1>1 DEF Job
<1>4. [ended EXCEPT !.next = next] \in Job
  BY <1>1, <1>2 DEF Job
<1> USE DEF next
<1>5. CASE fired /\ job.del
  BY <1>5 DEF AfterRun
<1>6. CASE fired /\ ~job.del
  BY <1>3, <1>6 DEF AfterRun
<1>7. CASE ~fired
  BY <1>4, <1>7 DEF AfterRun
<1> QED
  BY <1>5, <1>6, <1>7

-----------------------------------------------------------------------------
(* next_run_after is right for every schedule and every instant.             *)

\* The remainder of a division by a positive divisor is below the divisor.
LEMMA Division ==
  ASSUME NEW x \in Int, NEW e \in Nat \ {0}
  PROVE  /\ x \div e \in Int
         /\ (x \div e) * e <= x
         /\ x < (x \div e) * e + e
OBVIOUS

\* Multiplying by a positive number keeps the order, and the distance.
LEMMA Multiples ==
  ASSUME NEW m \in Int, NEW n \in Int, NEW e \in Nat \ {0}
  PROVE  /\ m * e \in Int
         /\ m < n => m * e + e <= n * e
         /\ m >= 1 => m * e >= e /\ m * e >= m
<1>1. m * e \in Int /\ n * e \in Int
  OBVIOUS
<1>2. ASSUME m < n PROVE m * e + e <= n * e
  <2>1. (n - m - 1) * e >= 0
    BY <1>2
  <2>2. (n - m - 1) * e = n * e - m * e - e
    OBVIOUS
  <2> QED
    BY <1>1, <2>1, <2>2
<1>3. ASSUME m >= 1 PROVE m * e >= e /\ m * e >= m
  <2>1. (m - 1) * e >= 0 /\ m * (e - 1) >= 0
    BY <1>3
  <2>2. (m - 1) * e = m * e - e /\ m * (e - 1) = m * e - m
    OBVIOUS
  <2> QED
    BY <1>1, <2>1, <2>2
<1> QED
  BY <1>1, <1>2, <1>3

\* Past its anchor, an interval schedule plans the first positive multiple of the
\* interval after the anchor that is not over.
LEMMA EveryNextFirst ==
  ASSUME NEW every \in Nat \ {0}, NEW anchor \in Nat, NEW t \in Nat, t >= anchor
  PROVE  /\ EveryNext(every, anchor, t) >= t
         /\ \E k \in 1..EveryNext(every, anchor, t) :
              EveryNext(every, anchor, t) = anchor + k * every
         /\ \A k \in Nat \ {0} :
              anchor + k * every >= t => EveryNext(every, anchor, t) <= anchor + k * every
<1> DEFINE q == (t - anchor + every - 1) \div every
           k == IF q < 1 THEN 1 ELSE q
<1>1. /\ q \in Int
      /\ q * every <= t - anchor + every - 1
      /\ t - anchor + every - 1 < q * every + every
  BY Division
<1>2. EveryNext(every, anchor, t) = anchor + k * every
  BY DEF EveryNext
<1> HIDE DEF q
<1>3. k \in Nat \ {0}
  BY <1>1
<1> HIDE DEF k
<1>4. k * every \in Int /\ k * every >= every /\ k * every >= k
  BY <1>3, Multiples
<1>5. k * every >= t - anchor
  <2>1. CASE q < 1
    <3>1. q * every + every <= every
      <4>1. CASE q = 0
        BY <4>1
      <4>2. CASE q < 0
        <5>1. \A n \in Int : q < n => q * every + every <= n * every
          BY <1>1, Multiples
        <5>2. q * every + every <= 0 * every
          BY <4>2, <5>1
        <5>3. 0 * every = 0
          OBVIOUS
        <5> QED
          BY <1>1, <5>2, <5>3
      <4> QED
        BY <1>1, <2>1, <4>1, <4>2
    <3>2. q * every \in Int
      BY <1>1
    <3> QED
      BY <1>1, <1>4, <3>1, <3>2
  <2>2. CASE ~(q < 1)
    <3>1. k = q
      BY <2>2 DEF k
    <3> QED
      BY <1>1, <1>4, <3>1
  <2> QED
    BY <2>1, <2>2
<1>6. ASSUME NEW n \in Nat \ {0}, anchor + n * every >= t
      PROVE  k * every <= n * every
  <2>1. n * every \in Int /\ n * every >= every
    BY Multiples
  <2>2. CASE q < 1
    <3>1. k = 1
      BY <2>2 DEF k
    <3> QED
      BY <2>1, <3>1
  <2>3. CASE ~(q < 1)
    <3>1. k = q
      BY <2>3 DEF k
    <3>2. ~(n < q)
      <4> SUFFICES ASSUME n < q PROVE FALSE
        OBVIOUS
      <4>1. n * every + every <= q * every
        BY <1>1, Multiples
      <4> QED
        BY <1>1, <1>6, <2>1, <3>1, <1>4, <4>1
    <3>3. CASE n = q
      BY <3>1, <3>3
    <3>4. CASE q < n
      <4>1. q * every + every <= n * every
        BY <1>1, <3>4, Multiples
      <4> QED
        BY <1>4, <2>1, <3>1, <4>1
    <3> QED
      BY <1>1, <3>2, <3>3, <3>4
  <2> QED
    BY <2>2, <2>3
<1>7. anchor + k * every >= t
  BY <1>4, <1>5
<1>8. k \in 1..(anchor + k * every)
  BY <1>3, <1>4
<1>9. \A n \in Nat \ {0} :
        anchor + n * every >= t => anchor + k * every <= anchor + n * every
  <2> SUFFICES ASSUME NEW n \in Nat \ {0}, anchor + n * every >= t
               PROVE  anchor + k * every <= anchor + n * every
    OBVIOUS
  <2>1. n * every \in Int
    BY Multiples
  <2>2. k * every <= n * every
    BY <1>6
  <2> QED
    BY <1>4, <2>1, <2>2
<1> QED
  BY <1>2, <1>7, <1>8, <1>9

\* A cron expression plans the first of its instants after t.
LEMMA GridNextFirst ==
  ASSUME NEW every \in Nat \ {0}, NEW t \in Nat
  PROVE  LET next == ((t \div every) + 1) * every
         IN  /\ next > t
             /\ \E k \in 1..next : next = k * every
             /\ \A k \in Nat \ {0} : k * every > t => next <= k * every
<1> DEFINE q == t \div every
<1>1. q \in Nat /\ q * every <= t /\ t < q * every + every
  <2>1. q \in Int /\ q * every <= t /\ t < q * every + every
    BY Division
  <2>2. q \in Nat
    OBVIOUS
  <2> QED
    BY <2>1, <2>2
<1> HIDE DEF q
<1>2. (q + 1) * every = q * every + every /\ q * every \in Int
  BY <1>1
<1>3. (q + 1) * every > t
  BY <1>1, <1>2
<1>4. q + 1 \in 1..((q + 1) * every)
  <2>1. q + 1 \in Int /\ q + 1 >= 1
    BY <1>1
  <2>2. (q + 1) * every \in Int /\ (q + 1) * every >= q + 1
    BY <2>1, Multiples
  <2> QED
    BY <2>1, <2>2
<1>5. ASSUME NEW k \in Nat \ {0}, k * every > t
      PROVE  (q + 1) * every <= k * every
  <2>1. k * every \in Int
    BY Multiples
  <2>2. ~(k < q)
    <3> SUFFICES ASSUME k < q PROVE FALSE
      OBVIOUS
    <3>1. k * every + every <= q * every
      BY <1>1, Multiples
    <3> QED
      BY <1>1, <1>2, <1>5, <2>1, <3>1
  <2>3. k # q
    BY <1>1, <1>5
  <2>4. q * every + every <= k * every
    <3>1. q < k
      BY <1>1, <2>2, <2>3
    <3> QED
      BY <1>1, <3>1, Multiples
  <2> QED
    BY <1>2, <2>4
<1> QED
  BY <1>3, <1>4, <1>5 DEF q

-----------------------------------------------------------------------------
LEMMA PointOfNext ==
  ASSUME NEW s \in Schedule, NEW t \in Nat
  PROVE  /\ Point(s, t, NextRunAfter(s, t))
         /\ \A n \in 0..NextRunAfter(s, t) : Point(s, t, n) => n = NextRunAfter(s, t)
<1> DEFINE next == NextRunAfter(s, t)
<1>0. next \in Nat
  BY NextRunType
<1>1. CASE s.kind = "at"
  BY <1>1 DEF Point, NextRunAfter
<1>2. CASE s.kind = "every"
  <2> DEFINE o == Origin(s, t)
  <2>1. s.ms \in Nat \ {0} /\ o \in Nat
    BY <1>2 DEF Schedule, Origin
  <2>2. next = EveryNext(s.ms, o, t)
    BY <1>2 DEF NextRunAfter, Origin
  <2>3. \A n : Point(s, t, n) <=> \/ n = o /\ t < o
                                 \/ /\ n >= t /\ t >= o
                                    /\ \E k \in 1..n : n = o + k * s.ms
    BY <1>2 DEF Point
  <2> HIDE DEF o
  <2>4. CASE t < o
    <3>1. next = o
      BY <2>2, <2>4 DEF EveryNext
    <3> HIDE DEF next
    <3> QED
      BY <1>0, <2>1, <2>3, <2>4, <3>1 DEF next
  <2>5. CASE ~(t < o)
    <3>1. /\ next >= t
          /\ \E k \in 1..next : next = o + k * s.ms
          /\ \A k \in Nat \ {0} : o + k * s.ms >= t => next <= o + k * s.ms
      <4> DEFINE e == s.ms
      <4>1. e \in Nat \ {0} /\ t >= o /\ next = EveryNext(e, o, t)
        BY <2>1, <2>2, <2>5
      <4> HIDE DEF e, next
      <4>2. /\ next >= t
            /\ \E k \in 1..next : next = o + k * e
            /\ \A k \in Nat \ {0} : o + k * e >= t => next <= o + k * e
        BY <2>1, <4>1, EveryNextFirst
      <4> QED
        BY <4>2 DEF e
    <3> HIDE DEF next
    <3>2. Point(s, t, next)
      BY <2>1, <2>3, <2>5, <3>1
    <3>3. ASSUME NEW n \in 0..next, Point(s, t, n)
          PROVE  n = next
      <4>1. n >= t /\ \E k \in 1..n : n = o + k * s.ms
        <5>1. ~(n = o /\ t < o)
          BY <2>5
        <5> QED
          BY <2>3, <3>3, <5>1
      <4>3. PICK k \in 1..n : n = o + k * s.ms
        BY <4>1
      <4>2. next <= n
        BY <1>0, <3>1, <4>1, <4>3
      <4> QED
        BY <1>0, <4>2
    <3> QED
      BY <3>2, <3>3 DEF next
  <2> QED
    BY <2>4, <2>5
<1>3. CASE s.kind = "cron"
  <2>1. s.ms \in Nat \ {0}
    BY <1>3 DEF Schedule
  <2>2. next = ((t \div s.ms) + 1) * s.ms
    BY <1>3 DEF NextRunAfter
  <2>3. \A n : Point(s, t, n) <=> n > t /\ \E k \in 1..n : n = k * s.ms
    BY <1>3 DEF Point
  <2>4. /\ next > t
        /\ \E k \in 1..next : next = k * s.ms
        /\ \A k \in Nat \ {0} : k * s.ms > t => next <= k * s.ms
    BY <2>1, <2>2, GridNextFirst
  <2> HIDE DEF next
  <2>5. ASSUME NEW n \in 0..next, Point(s, t, n)
        PROVE  n = next
    <3>1. PICK k \in 1..n : n = k * s.ms /\ n > t
      BY <2>3, <2>5
    <3>2. next <= n
      BY <1>0, <2>4, <3>1
    <3> QED
      BY <1>0, <3>2
  <2> QED
    BY <2>3, <2>4, <2>5 DEF next
<1> QED
  BY <1>1, <1>2, <1>3 DEF Schedule

\* Whatever the schedules and however the clock moves, the planned instant is the
\* first point of the schedule that is not over.
THEOREM PlansAreFirst == PlanSpec => []NextIsFirst
<1> DEFINE Inv == /\ sched \in Schedule /\ clock \in Nat
                  /\ planned = NextRunAfter(sched, clock)
<1>1. PlanInit => Inv
  BY SchedulesAssumption DEF PlanInit
<1>2. Inv /\ [PlanAgain]_schedVars => Inv'
  BY SchedulesAssumption DEF PlanAgain, schedVars
<1>3. Inv => NextIsFirst
  BY PointOfNext DEF NextIsFirst
<1> QED
  BY <1>1, <1>2, <1>3, PTL DEF PlanSpec

-----------------------------------------------------------------------------
(* Daemons.                                                                 *)

USE ConstantsAssumption

\* The control points at which execute_job works on cur.
Executing == {"lock"} \cup Critical

HasJob == \A d \in Daemons : pc[d] \in Executing => cur[d] \in JobIds

AsksForJob == \A r \in Requests : rq[r].st \in {"waiting", "lost"} => rq[r].job \in JobIds

LockHeld == \A d \in Daemons : pc[d] \in Critical => cur[d] \in locks

TypeInv == TypeOK /\ HasJob /\ AsksForJob
LockInv == LockHeld /\ MutualExclusion

-----------------------------------------------------------------------------
(***************************************************************************)
(* Helpers.                                                                 *)
(***************************************************************************)

\* A case distinction the SMT solver needs for the steps that take the first
\* element of a list (NextJob, TakeCommand, ServeRun).
LEMMA HeadTailType ==
  ASSUME NEW S, NEW s \in Seq(S), s # <<>>
  PROVE  Head(s) \in S /\ Tail(s) \in Seq(S)
OBVIOUS

\* The same for the record of one request, whatever becomes of it.
LEMMA AnsweredRecord ==
  ASSUME NEW q \in RequestState, NEW ran \in BOOLEAN, NEW by \in {"daemon", "client"}
  PROVE  LET new == [q EXCEPT !.st = "done", !.ran = ran, !.by = by]
         IN  new \in RequestState /\ new.st = "done"
BY DEF RequestState

LEMMA PostedRecord ==
  ASSUME NEW q \in RequestState, NEW j \in JobIds, NEW force \in BOOLEAN,
         NEW n \in Nat
  PROVE  LET new == [q EXCEPT !.st = "waiting", !.job = j, !.force = force, !.try = n]
         IN  new \in RequestState /\ new.job \in JobIds
BY DEF RequestState

LEMMA LostRecord ==
  ASSUME NEW q \in RequestState, NEW j \in JobIds, NEW force \in BOOLEAN
  PROVE  LET new == [q EXCEPT !.st = "lost", !.job = j, !.force = force]
         IN  new \in RequestState /\ new.job \in JobIds
BY DEF RequestState

\* Answering a request keeps the table of requests well formed, and an answered
\* request neither waits nor is lost.
LEMMA AnsweredType ==
  ASSUME rq \in [Requests -> RequestState], AsksForJob,
         NEW call \in Call, NEW ran \in BOOLEAN
  PROVE  /\ Answered(call, ran) \in [Requests -> RequestState]
         /\ \A r \in Requests :
              Answered(call, ran)[r].st \in {"waiting", "lost"}
                => Answered(call, ran)[r].job \in JobIds
<1> DEFINE new == [rq[call.req] EXCEPT !.st = "done", !.ran = ran, !.by = "daemon"]
<1>1. call.req \in Requests
  BY DEF Call
<1>2. new \in RequestState /\ new.st = "done"
  <2>1. rq[call.req] \in RequestState
    BY <1>1
  <2> QED
    BY <2>1, AnsweredRecord
<1>3. Answered(call, ran) \in {rq, [rq EXCEPT ![call.req] = new]}
  BY DEF Answered
<1> HIDE DEF new
<1> QED
  BY <1>1, <1>2, <1>3 DEF AsksForJob

\* What the log of a job may get keeps the logs well formed.
LEMMA LoggedType ==
  ASSUME runs \in [JobIds -> SUBSET {"queued", "ok", "error", "skipped"}],
         NEW j \in JobIds, NEW kind \in {"queued", "ok", "error", "skipped"}
  PROVE  Logged(j, kind) \in [JobIds -> SUBSET {"queued", "ok", "error", "skipped"}]
BY DEF Logged

LEMMA CountType ==
  ASSUME NEW f \in [JobIds -> 0..2], NEW j \in JobIds
  PROVE  [f EXCEPT ![j] = AtLeast(@)] \in [JobIds -> 0..2]
BY DEF AtLeast

\* A manual run under execution is noted, or nothing is.
LEMMA NotedType ==
  ASSUME NEW d \in Daemons, NEW what \in {"recorded", "skipped"},
         taken \in Call \cup {None},
         did \subseteq (Call \cup {None}) \X {"recorded", "skipped"}
  PROVE  Noted(d, what) \subseteq (Call \cup {None}) \X {"recorded", "skipped"}
BY DEF Noted

-----------------------------------------------------------------------------
(***************************************************************************)
(* Type correctness.                                                        *)
(***************************************************************************)

LEMMA TypeInit == Init => TypeInv
BY DEF Init, TypeInv, TypeOK, FilesOK, LoopOK, ManualOK, CountsOK, HasJob, AsksForJob,
       Executing, Critical, Control, NoJobs, RequestState, Result, NoResult

LEMMA EditsType ==
  ASSUME TypeInv, Edits
  PROVE  TypeInv'
<1> USE DEF FilesOK, CountsOK
<1>1. PICK new \in [JobIds -> Job \cup {NoJob}] : Edit(new)
  <2>1. PICK j \in JobIds :
          \/ RemoveJob(j)
          \/ \E job \in Templates : AddJob(j, job)
          \/ \E patch \in Patches : UpdateJob(j, patch)
    BY DEF Edits
  <2>2. CASE RemoveJob(j)
    BY <2>2 DEF RemoveJob, TypeInv, TypeOK
  <2>3. ASSUME NEW job \in Templates, AddJob(j, job)
        PROVE  \E new \in [JobIds -> Job \cup {NoJob}] : Edit(new)
    <3>1. Added(job, now) \in Job
      BY AddedType DEF TypeInv, TypeOK
    <3> QED
      BY <2>3, <3>1 DEF AddJob, TypeInv, TypeOK
  <2>4. ASSUME NEW patch \in Patches, UpdateJob(j, patch)
        PROVE  \E new \in [JobIds -> Job \cup {NoJob}] : Edit(new)
    <3>1. jobs[j] \in Job
      BY <2>4 DEF UpdateJob, TypeInv, TypeOK
    <3>2. Patched(jobs[j], patch, now) \in Job
      BY <3>1, PatchedType DEF TypeInv, TypeOK
    <3> QED
      BY <2>4, <3>2 DEF UpdateJob, TypeInv, TypeOK
  <2> QED
    BY <2>1, <2>2, <2>3, <2>4
<1> QED
  BY <1>1 DEF Edit, TypeInv, TypeOK, LoopOK, ManualOK, HasJob, AsksForJob, loopVars,
              manual, history

LEMMA ClientType ==
  ASSUME TypeInv, NEW r \in Requests, Client(r)
  PROVE  TypeInv'
<1> USE DEF TypeInv, TypeOK
<1>1. /\ UNCHANGED <<now, locks, pc, loopVars, serving, chan, taken, counters, history>>
      /\ LoopOK' /\ HasJob' /\ CountsOK'
  <2>1. UNCHANGED <<now, locks, pc, loopVars, serving, chan, taken, counters, history>>
    BY DEF Client, PostRun, PostRefused, TimeoutRun, FallbackRun, files
  <2> QED
    BY <2>1 DEF LoopOK, HasJob, CountsOK, loopVars, counters, history
<1>2. ASSUME NEW j \in JobIds, NEW force \in BOOLEAN, PostRun(r, j, force)
      PROVE  FilesOK' /\ ManualOK' /\ AsksForJob'
  <2>1. rq' \in [Requests -> RequestState] /\ AsksForJob'
    BY <1>2, PostedRecord DEF PostRun, ManualOK, AsksForJob
  <2>2. http' \in Seq(Call)
    BY <1>2 DEF PostRun, ManualOK, Call
  <2> QED
    BY <1>1, <1>2, <2>1, <2>2 DEF PostRun, FilesOK, ManualOK, files
<1>3. ASSUME NEW j \in JobIds, NEW force \in BOOLEAN, PostRefused(r, j, force)
      PROVE  FilesOK' /\ ManualOK' /\ AsksForJob'
  <2>1. rq' \in [Requests -> RequestState] /\ AsksForJob'
    BY <1>3, LostRecord DEF PostRefused, ManualOK, AsksForJob
  <2> QED
    BY <1>1, <1>3, <2>1 DEF PostRefused, FilesOK, ManualOK, files
<1>4. CASE TimeoutRun(r)
  <2>1. rq[r] \in RequestState /\ rq[r].job \in JobIds
    BY <1>4 DEF TimeoutRun, ManualOK, AsksForJob
  <2>2. rq' \in [Requests -> RequestState] /\ AsksForJob'
    <3> DEFINE again == [rq[r] EXCEPT !.try = @ + 1]
               lost  == [rq[r] EXCEPT !.st = "lost"]
    <3>1. again \in RequestState /\ again.job \in JobIds
      BY <2>1 DEF RequestState
    <3>2. lost \in RequestState /\ lost.job \in JobIds
      BY <2>1 DEF RequestState
    <3>3. rq' \in {[rq EXCEPT ![r] = again], [rq EXCEPT ![r] = lost]}
      BY <1>4 DEF TimeoutRun
    <3> HIDE DEF again, lost
    <3> QED
      BY <3>1, <3>2, <3>3 DEF ManualOK, AsksForJob
  <2>3. [req |-> r, try |-> rq[r].try + 1, job |-> rq[r].job, force |-> rq[r].force] \in Call
    BY <2>1 DEF RequestState, Call
  <2>4. http' \in Seq(Call)
    <3> DEFINE call == [req |-> r, try |-> rq[r].try + 1, job |-> rq[r].job,
                        force |-> rq[r].force]
    <3>1. http' \in {http, Append(http, call)}
      BY <1>4 DEF TimeoutRun
    <3> HIDE DEF call
    <3> QED
      BY SMTT(30), <3>1, <2>3 DEF ManualOK, call
  <2> QED
    BY <1>1, <1>4, <2>2, <2>4 DEF TimeoutRun, FilesOK, ManualOK, files
<1>5. CASE FallbackRun(r)
  <2>1. rq[r] \in RequestState /\ rq[r].job \in JobIds
    BY <1>5 DEF FallbackRun, ManualOK, AsksForJob
  <2>2. jobs' \in [JobIds -> Job \cup {NoJob}]
    BY <1>5, FilledType DEF FallbackRun, FilesOK, CountsOK
  <2>3. runs' \in [JobIds -> SUBSET {"queued", "ok", "error", "skipped"}]
    BY <1>5, <2>1, LoggedType DEF FallbackRun, FilesOK
  <2>4. pending' \in Seq(JobIds)
    BY <1>5, <2>1 DEF FallbackRun, FilesOK
  <2>5. rq' \in [Requests -> RequestState] /\ AsksForJob'
    <3> DEFINE due == jobs[rq[r].job] # NoJob /\ IsDue(jobs[rq[r].job], now, rq[r].force)
    <3>1. due \in BOOLEAN
      OBVIOUS
    <3>2. rq' = [rq EXCEPT ![r] = [@ EXCEPT !.st = "done", !.ran = due, !.by = "client"]]
      BY <1>5 DEF FallbackRun
    <3> HIDE DEF due
    <3> QED
      BY <3>1, <3>2, <2>1, AnsweredRecord DEF ManualOK, AsksForJob
  <2>6. UNCHANGED <<locks, http, serving, chan, taken>>
    BY <1>5 DEF FallbackRun
  <2> QED
    BY <1>1, <2>2, <2>3, <2>4, <2>5, <2>6 DEF FilesOK, ManualOK
<1> QED
  BY <1>1, <1>2, <1>3, <1>4, <1>5 DEF Client

LEMMA ServerType ==
  ASSUME TypeInv, Server
  PROVE  TypeInv'
<1> USE DEF TypeInv, TypeOK
<1>1. /\ UNCHANGED <<now, files, pc, loopVars, counters, history>>
      /\ FilesOK' /\ LoopOK' /\ HasJob' /\ CountsOK'
  <2>1. UNCHANGED <<now, files, pc, loopVars, counters, history>>
    BY DEF Server, ServeRun, ChannelClosed
  <2> QED
    BY <2>1 DEF FilesOK, LoopOK, HasJob, CountsOK, files, loopVars, counters, history
<1>2. CASE ServeRun
  <2>1. Head(http) \in Call /\ Tail(http) \in Seq(Call)
    BY <1>2, HeadTailType DEF ServeRun, ManualOK
  <2>2. rq' \in [Requests -> RequestState] /\ AsksForJob'
    <3>1. CASE rq' = rq
      BY <3>1 DEF ManualOK, AsksForJob
    <3>2. CASE rq' = Answered(Head(http), FALSE)
      BY <3>2, <2>1, AnsweredType DEF ManualOK, AsksForJob
    <3> QED
      BY <1>2, <3>1, <3>2 DEF ServeRun
  <2>3. chan' \in Seq(Call) /\ serving' \in Call \cup {None}
    <3>1. Append(chan, Head(http)) \in Seq(Call)
      BY <2>1 DEF ManualOK
    <3>2. \/ chan' = chan /\ serving' = serving
          \/ chan' = Append(chan, Head(http)) /\ serving' = Head(http)
      BY <1>2 DEF ServeRun
    <3> QED
      BY <2>1, <3>1, <3>2 DEF ManualOK
  <2> QED
    BY <1>1, <1>2, <2>1, <2>2, <2>3 DEF ServeRun, ManualOK
<1>3. CASE ChannelClosed
  <2>1. serving \in Call
    BY <1>3 DEF ChannelClosed, ManualOK
  <2>2. rq' \in [Requests -> RequestState] /\ AsksForJob'
    BY <1>3, <2>1, AnsweredType DEF ChannelClosed, ManualOK, AsksForJob
  <2>3. chan' \in Seq(Call) /\ serving' = None /\ http' = http /\ taken' = taken
    BY <1>3 DEF ChannelClosed
  <2> QED
    BY <1>1, <2>2, <2>3 DEF ManualOK
<1> QED
  BY <1>2, <1>3 , <1>1 DEF Server

\* What Return leaves.
LEMMA ReturnType ==
  ASSUME TypeInv, NEW d \in Daemons, NEW ran \in BOOLEAN, Return(d, ran)
  PROVE  /\ rq' \in [Requests -> RequestState]
         /\ AsksForJob'
         /\ serving' \in Call \cup {None}
         /\ taken' \in Call \cup {None}
         /\ cur' \in [Daemons -> JobIds \cup {None}]
         /\ pc' \in [Daemons -> Control]
         /\ HasJob'
<1> USE DEF TypeInv, TypeOK
<1>0. /\ cur' \in [Daemons -> JobIds \cup {None}]
      /\ pc' \in [Daemons -> Control]
      /\ HasJob'
  <2>1. cur' = [cur EXCEPT ![d] = None]
    BY DEF Return
  <2>2. \/ pc' = [pc EXCEPT ![d] = "commands"]
        \/ pc' = [pc EXCEPT ![d] = "run"]
    BY DEF Return, Goto
  <2>3. cur' \in [Daemons -> JobIds \cup {None}] /\ pc' \in [Daemons -> Control]
    BY <2>1, <2>2 DEF LoopOK, Control
  <2>4. HasJob'
    BY <2>1, <2>2 DEF LoopOK, HasJob, Executing, Critical
  <2> QED
    BY <2>3, <2>4
<1>1. CASE rq' = rq /\ serving' \in {serving, None} /\ taken' \in {taken, None}
  BY <1>0, <1>1 DEF ManualOK, AsksForJob
<1>2. CASE taken # None /\ rq' = Answered(taken, ran) /\ serving' = None /\ taken' = None
  <2>1. taken \in Call
    BY <1>2 DEF ManualOK
  <2> QED
    BY <1>0, <1>2, <2>1, AnsweredType DEF ManualOK, AsksForJob
<1> QED
  BY <1>1, <1>2 DEF Return

\* The loop up to the execution of a job.
LEMMA TickType ==
  ASSUME TypeInv, NEW d \in Daemons,
         \/ TickStart(d) \/ CommandsDone(d) \/ DrainPending(d)
         \/ NextJob(d) \/ ListDone(d)
  PROVE  TypeInv'
<1> USE DEF TypeInv, TypeOK, Goto
<1>1. CASE TickStart(d)
  BY <1>1 DEF TickStart, FilesOK, LoopOK, ManualOK, CountsOK, HasJob, AsksForJob,
              Executing, Critical, Control, files, manual, counters, history
<1>2. CASE CommandsDone(d)
  BY <1>2 DEF CommandsDone, FilesOK, LoopOK, ManualOK, CountsOK, HasJob, AsksForJob,
              Executing, Critical, Control, files, loopVars, manual, counters, history
<1>3. CASE DrainPending(d)
  <2>1. FilesOK'
    BY <1>3 DEF DrainPending, FilesOK
  <2>2. LoopOK' /\ HasJob'
    BY <1>3 DEF DrainPending, FilesOK, LoopOK, HasJob, Executing, Critical, Control
  <2> QED
    BY <1>3, <2>1, <2>2 DEF DrainPending, ManualOK, CountsOK, AsksForJob, manual,
                            counters, history
<1>4. CASE NextJob(d)
  <2>1. Head(todo[d]) \in JobIds /\ Tail(todo[d]) \in Seq(JobIds)
    BY <1>4, HeadTailType DEF NextJob, LoopOK
  <2>2. LoopOK' /\ HasJob'
    BY <1>4, <2>1 DEF NextJob, LoopOK, HasJob, Executing, Critical, Control
  <2> QED
    BY <1>4, <2>2 DEF NextJob, FilesOK, ManualOK, CountsOK, AsksForJob, files, manual,
                      counters, history
<1>5. CASE ListDone(d)
  BY <1>5 DEF ListDone, FilesOK, LoopOK, ManualOK, CountsOK, HasJob, AsksForJob,
              Executing, Critical, Control, files, loopVars, manual, counters, history
<1> QED
  BY <1>1, <1>2, <1>3, <1>4, <1>5

LEMMA CommandType ==
  ASSUME TypeInv, NEW d \in Daemons, TakeCommand(d)
  PROVE  TypeInv'
<1> USE DEF TypeInv, TypeOK
<1> DEFINE call == Head(chan)
<1>1. call \in Call /\ Tail(chan) \in Seq(Call) /\ call.job \in JobIds
  <2>1. call \in Call /\ Tail(chan) \in Seq(Call)
    BY HeadTailType DEF TakeCommand, ManualOK
  <2> QED
    BY <2>1 DEF Call
<1>2. \/ /\ cur' = [cur EXCEPT ![d] = call.job]
         /\ src' = [src EXCEPT ![d] = "command"]
         /\ pc' = [pc EXCEPT ![d] = "lock"]
         /\ taken' = call
         /\ UNCHANGED <<rq, serving>>
      \/ /\ rq' = Answered(call, FALSE)
         /\ serving' = None
         /\ UNCHANGED <<pc, cur, src, taken>>
  BY DEF TakeCommand, Goto
<1>3. /\ chan' = Tail(chan)
      /\ UNCHANGED <<now, files, tick, todo, snap, left, dirty, result, http, counters,
                     history>>
  BY DEF TakeCommand
<1> HIDE DEF call
<1>4. LoopOK' /\ HasJob'
  <2>1. LoopOK'
    BY <1>1, <1>2, <1>3 DEF LoopOK, Control
  <2>2. HasJob'
    BY <1>1, <1>2 DEF LoopOK, HasJob
  <2> QED
    BY <2>1, <2>2
<1>5. rq' \in [Requests -> RequestState] /\ AsksForJob'
  BY <1>1, <1>2, AnsweredType DEF ManualOK, AsksForJob
<1>6. ManualOK'
  BY <1>1, <1>2, <1>3, <1>5 DEF ManualOK
<1> QED
  BY <1>3, <1>4, <1>5, <1>6 DEF FilesOK, CountsOK, files, counters, history

LEMMA CollectType ==
  ASSUME TypeInv, NEW d \in Daemons,
         \/ CollectBegin(d) \/ CollectEnd(d)
         \/ \E j \in JobIds : CollectOne(d, j)
  PROVE  TypeInv'
<1> USE DEF TypeInv, TypeOK, Goto
<1>1. CASE CollectBegin(d)
  <2> DEFINE open == {j \in Present(jobs) : jobs[j].enabled /\ ~jobs[j].running}
             due  == {j \in open : Collectable(jobs[j], tick[d], FALSE)}
             copy == [j \in JobIds |-> IF j \in open THEN Filled(jobs[j], tick[d])
                                                    ELSE jobs[j]]
  <2>1. copy \in [JobIds -> Job \cup {NoJob}]
    BY FilledType DEF FilesOK, LoopOK, Present
  <2>2. due \in SUBSET JobIds
    BY DEF Present
  <2>3. (copy # jobs) \in BOOLEAN
    OBVIOUS
  <2> HIDE DEF due, copy
  <2>4. LoopOK' /\ HasJob'
    <3>1. /\ left' = [left EXCEPT ![d] = due]
          /\ dirty' = [dirty EXCEPT ![d] = (copy # jobs)]
          /\ snap' = [snap EXCEPT ![d] = copy]
          /\ src' = [src EXCEPT ![d] = "due"]
          /\ pc' = [pc EXCEPT ![d] = "queue"]
          /\ UNCHANGED <<tick, todo, cur, result>>
      BY <1>1 DEF CollectBegin, due, copy
    <3> QED
      BY <2>1, <2>2, <2>3, <3>1 DEF LoopOK, HasJob, Executing, Critical, Control
  <2> QED
    BY <1>1, <2>4 DEF CollectBegin, FilesOK, ManualOK, CountsOK, AsksForJob, files,
                      manual, counters, history
<1>2. CASE CollectEnd(d)
  <2>1. NoJobs \in [JobIds -> Job \cup {NoJob}]
    BY DEF NoJobs
  <2>2. jobs' \in [JobIds -> Job \cup {NoJob}]
    BY <1>2 DEF CollectEnd, FilesOK, LoopOK
  <2>3. FilesOK'
    BY <1>2, <2>2 DEF CollectEnd, FilesOK
  <2>4. LoopOK' /\ HasJob'
    BY <1>2, <2>1 DEF CollectEnd, LoopOK, HasJob, Executing, Critical, Control
  <2> QED
    BY <1>2, <2>3, <2>4 DEF CollectEnd, ManualOK, CountsOK, AsksForJob, manual, counters,
                            history
<1>3. ASSUME NEW j \in JobIds, CollectOne(d, j)
      PROVE  TypeInv'
  <2>1. pending' \in Seq(JobIds) /\ todo' \in [Daemons -> Seq(JobIds)]
    <3>1. \/ pending' = Append(pending, j) /\ todo' = todo
          \/ pending' = pending /\ todo' = [todo EXCEPT ![d] = Append(@, j)]
      BY <1>3 DEF CollectOne
    <3>2. Append(pending, j) \in Seq(JobIds)
      BY DEF FilesOK
    <3>3. todo[d] \in Seq(JobIds)
      BY DEF LoopOK
    <3>4. Append(todo[d], j) \in Seq(JobIds)
      BY <3>3
    <3>5. CASE pending' = Append(pending, j) /\ todo' = todo
      BY <3>2, <3>5 DEF LoopOK
    <3>6. CASE pending' = pending /\ todo' = [todo EXCEPT ![d] = Append(@, j)]
      BY <3>4, <3>6 DEF FilesOK, LoopOK
    <3> QED
      BY <3>1, <3>5, <3>6
  <2>2. FilesOK'
    BY <1>3, <2>1, LoggedType DEF CollectOne, FilesOK
  <2>3. LoopOK' /\ HasJob'
    BY <1>3, <2>1 DEF CollectOne, LoopOK, HasJob
  <2> QED
    BY <1>3, <2>2, <2>3 DEF CollectOne, ManualOK, CountsOK, AsksForJob, manual, counters,
                            history
<1> QED
  BY <1>1, <1>2, <1>3

\* What execute_job's steps leave of the requests and the loop's position.
LEMMA ExecuteType ==
  ASSUME TypeInv, NEW d \in Daemons, Execute(d)
  PROVE  TypeInv'
<1> USE DEF TypeInv, TypeOK, Goto
<1>1. pc[d] \in Executing
  BY DEF Execute, SkipJob, AcquireLock, StartTurn, RecordRun, ReleaseLock, FailTurn,
         EndTurn, Executing, Critical
<1>2. cur[d] \in JobIds /\ (jobs[cur[d]] # NoJob => jobs[cur[d]] \in Job)
  BY <1>1 DEF HasJob, FilesOK
<1>3. CASE SkipJob(d)
  <2>1. Return(d, TRUE)
    BY <1>3 DEF SkipJob
  <2>2. runs' \in [JobIds -> SUBSET {"queued", "ok", "error", "skipped"}]
    BY <1>3, <1>2, LoggedType DEF SkipJob, FilesOK
  <2>3. LoopOK' /\ HasJob'
    BY <1>3, <2>1, ReturnType DEF SkipJob, LoopOK
  <2>4. ManualOK' /\ AsksForJob'
    BY <1>3, <2>1, ReturnType DEF SkipJob, ManualOK
  <2>5. did' \subseteq (Call \cup {None}) \X {"recorded", "skipped"}
    BY <1>3, NotedType DEF SkipJob, CountsOK, ManualOK
  <2> QED
    BY <1>3, <2>2, <2>3, <2>4, <2>5 DEF SkipJob, FilesOK, CountsOK, counters
<1>4. CASE AcquireLock(d)
  BY <1>4, <1>2 DEF AcquireLock, FilesOK, LoopOK, ManualOK, CountsOK, HasJob, AsksForJob,
                    Executing, Critical, Control, loopVars, manual, counters, history
<1>5. CASE StartTurn(d)
  <2>1. jobs' \in [JobIds -> Job \cup {NoJob}]
    BY <1>5, <1>2, StartedType DEF StartTurn, FilesOK
  <2>3. LoopOK' /\ HasJob'
    BY <1>5, <1>2 DEF StartTurn, LoopOK, HasJob, Control, loopVars
  <2> QED
    BY <1>5, <2>1, <2>3 DEF StartTurn, FilesOK, ManualOK, CountsOK, AsksForJob,
                            manual, counters, history
<1>6. CASE RecordRun(d)
  <2>1. result[d].status \in {"ok", "error", "skipped"} /\ result[d].at \in Nat
    BY DEF LoopOK, Result
  <2>2. jobs' \in [JobIds -> Job \cup {NoJob}]
    BY <1>6, <1>2, <2>1, AfterRunType DEF RecordRun, FilesOK
  <2>3. runs' \in [JobIds -> SUBSET {"queued", "ok", "error", "skipped"}]
    BY <1>6, <1>2, <2>1, LoggedType DEF RecordRun, FilesOK
  <2>4. oks' \in [JobIds -> 0..2]
    BY <1>6, <1>2, CountType DEF RecordRun, CountsOK
  <2>5. LoopOK' /\ HasJob'
    BY <1>6, <1>2 DEF RecordRun, LoopOK, HasJob, Control, Result, NoResult
  <2>6. did' \subseteq (Call \cup {None}) \X {"recorded", "skipped"}
    BY <1>6, NotedType DEF RecordRun, CountsOK, ManualOK
  <2> QED
    BY <1>6, <2>2, <2>3, <2>4, <2>5, <2>6 DEF RecordRun, FilesOK, ManualOK, CountsOK,
                                        AsksForJob, manual, counters
<1>7. CASE ReleaseLock(d)
  <2>1. Return(d, TRUE)
    BY <1>7 DEF ReleaseLock
  <2>2. LoopOK' /\ HasJob'
    BY <1>7, <2>1, ReturnType DEF ReleaseLock, LoopOK
  <2>3. ManualOK' /\ AsksForJob'
    BY <1>7, <2>1, ReturnType DEF ReleaseLock, ManualOK
  <2> QED
    BY <1>7, <2>2, <2>3 DEF ReleaseLock, FilesOK, CountsOK, counters, history
<1>8. CASE FailTurn(d)
  <2>1. runs' \in [JobIds -> SUBSET {"queued", "ok", "error", "skipped"}]
    BY <1>8, <1>2, LoggedType DEF FailTurn, FilesOK
  <2>2. FilesOK' /\ CountsOK'
    BY <1>8, <2>1 DEF FailTurn, FilesOK, CountsOK, counters, history
  <2>3. CASE Return(d, FALSE) /\ UNCHANGED todo
    <3>1. LoopOK' /\ HasJob'
      BY <1>8, <2>3, ReturnType DEF FailTurn, LoopOK
    <3>2. ManualOK' /\ AsksForJob'
      BY <1>8, <2>3, ReturnType DEF FailTurn, ManualOK
    <3> QED
      BY <2>2, <3>1, <3>2
  <2>4. CASE /\ pc' = [pc EXCEPT ![d] = "dead"]
             /\ cur' = [cur EXCEPT ![d] = None]
             /\ todo' = [todo EXCEPT ![d] = <<>>]
             /\ UNCHANGED <<rq, serving, taken>>
    <3>1. LoopOK' /\ HasJob'
      BY <1>8, <2>4 DEF FailTurn, LoopOK, HasJob, Executing, Critical, Control
    <3> QED
      BY <1>8, <2>2, <2>4, <3>1 DEF FailTurn, ManualOK, AsksForJob
  <2> QED
    BY <1>8, <2>3, <2>4 DEF FailTurn
<1>9. ASSUME NEW status \in {"ok", "error", "skipped"}, EndTurn(d, status)
      PROVE  TypeInv'
  <2>1. [status |-> status, at |-> now] \in Result
    BY DEF CountsOK, Result
  <2> QED
    BY <1>9, <1>2, <2>1 DEF EndTurn, FilesOK, LoopOK, ManualOK, CountsOK, HasJob,
                            AsksForJob, Control, files, manual, counters, history
<1> QED
  BY <1>3, <1>4, <1>5, <1>6, <1>7, <1>8, <1>9 DEF Execute

LEMMA CrashType ==
  ASSUME TypeInv, NEW d \in Daemons, Crash(d) \/ Restart(d)
  PROVE  TypeInv'
<1> USE DEF TypeInv, TypeOK, Goto
<1>1. CASE Crash(d)
  <2>1. NoJobs \in [JobIds -> Job \cup {NoJob}]
    BY DEF NoJobs
  <2>2. LoopOK' /\ HasJob'
    BY <1>1, <2>1 DEF Crash, Forget, LoopOK, HasJob, Executing, Critical, Control,
                      Result, NoResult
  <2>3. ManualOK' /\ AsksForJob'
    <3>1. rq' = rq
      BY <1>1 DEF Crash, Forget
    <3>2. CASE http' = <<>> /\ serving' = None /\ chan' = <<>> /\ taken' = None
      BY <3>1, <3>2 DEF ManualOK, AsksForJob
    <3>3. CASE UNCHANGED <<http, serving, chan, taken>>
      BY <3>1, <3>3 DEF ManualOK, AsksForJob
    <3> QED
      BY <1>1, <3>2, <3>3 DEF Crash, Forget
  <2> QED
    BY <1>1, <2>2, <2>3 DEF Crash, FilesOK, CountsOK, files, history
<1>2. CASE Restart(d)
  BY <1>2 DEF Restart, FilesOK, LoopOK, ManualOK, CountsOK, HasJob, AsksForJob,
              Executing, Critical, Control, files, loopVars, manual, counters, history
<1> QED
  BY <1>1, <1>2

LEMMA TypeStep == TypeInv /\ [Next]_vars => TypeInv'
<1> SUFFICES ASSUME TypeInv, [Next]_vars PROVE TypeInv'
  OBVIOUS
<1>1. CASE Advance
  BY <1>1 DEF Advance, TypeInv, TypeOK, FilesOK, LoopOK, ManualOK, CountsOK, HasJob,
              AsksForJob, files, loopVars, manual, counters, history
<1>2. CASE Edits
  BY <1>2, EditsType
<1>3. ASSUME NEW r \in Requests, Client(r) PROVE TypeInv'
  BY <1>3, ClientType
<1>4. CASE Server
  BY <1>4, ServerType
<1>5. ASSUME NEW d \in Daemons, Loop(d) PROVE TypeInv'
  BY <1>5, TickType, CommandType, CollectType, ExecuteType DEF Loop
<1>6. ASSUME NEW d \in Daemons, Crash(d) \/ Restart(d) PROVE TypeInv'
  BY <1>6, CrashType
<1>7. CASE UNCHANGED vars
  BY <1>7 DEF vars, TypeInv, TypeOK, FilesOK, LoopOK, ManualOK, CountsOK, HasJob,
              AsksForJob, files, loopVars, manual, counters, history
<1> QED
  BY <1>1, <1>2, <1>3, <1>4, <1>5, <1>6, <1>7 DEF Next

\* Every reachable state is well typed: no list of the loop, no file and no
\* request ever names something that is not a job, and what the edits, the
\* collection and the end of a run write to jobs.json is a job.
THEOREM TypeCorrect == Spec => []TypeOK
<1>1. TypeInv => TypeOK
  BY DEF TypeInv
<1> QED
  BY <1>1, TypeInit, TypeStep, PTL DEF Spec

-----------------------------------------------------------------------------
(***************************************************************************)
(* Mutual exclusion.                                                        *)
(***************************************************************************)

LEMMA LockInit == Init => LockInv
BY DEF Init, LockInv, LockHeld, MutualExclusion, Critical

\* A daemon that is, after the step, at no control point that needs the lock
\* disturbs nobody, as long as no lock file but its own goes.
LEMMA LeaveCritical ==
  ASSUME TypeInv, LockInv, NEW d \in Daemons,
         pc'[d] \notin Critical,
         \A e \in Daemons \ {d} : pc'[e] = pc[e] /\ cur'[e] = cur[e],
         \/ locks \subseteq locks'
         \/ pc[d] \in Critical /\ locks' = locks \ {cur[d]}
  PROVE  LockInv'
<1>1. LockHeld'
  BY DEF LockInv, LockHeld, MutualExclusion
<1>2. MutualExclusion'
  BY DEF LockInv, MutualExclusion
<1> QED
  BY <1>1, <1>2 DEF LockInv

\* One that stays inside with the same job and keeps all lock files disturbs
\* nobody either.
LEMMA StayCritical ==
  ASSUME TypeInv, LockInv, NEW d \in Daemons,
         pc[d] \in Critical,
         cur' = cur, locks' = locks,
         \A e \in Daemons \ {d} : pc'[e] = pc[e]
  PROVE  LockInv'
BY DEF LockInv, LockHeld, MutualExclusion

\* create_new: the daemon that creates the lock file finds nobody inside.
LEMMA EnterCritical ==
  ASSUME TypeInv, LockInv, NEW d \in Daemons, AcquireLock(d)
  PROVE  LockInv'
<1>1. /\ cur[d] \notin locks
      /\ locks' = locks \cup {cur[d]}
      /\ cur' = cur
      /\ pc' = [pc EXCEPT ![d] = "mark"]
  BY DEF AcquireLock, Goto, loopVars
<1>2. \A e \in Daemons : pc[e] \in Critical => cur[e] # cur[d]
  BY <1>1 DEF LockInv, LockHeld
<1>3. LockHeld'
  BY <1>1 DEF LockInv, LockHeld, TypeInv, TypeOK, LoopOK
<1>4. MutualExclusion'
  BY <1>1, <1>2 DEF LockInv, MutualExclusion, TypeInv, TypeOK, LoopOK
<1> QED
  BY <1>3, <1>4 DEF LockInv

LEMMA ReturnLeaves ==
  ASSUME TypeInv, NEW d \in Daemons, NEW ran \in BOOLEAN, Return(d, ran)
  PROVE  /\ pc'[d] \notin Critical
         /\ \A e \in Daemons \ {d} : pc'[e] = pc[e] /\ cur'[e] = cur[e]
<1>1. cur' = [cur EXCEPT ![d] = None]
  BY DEF Return
<1>2. \/ pc' = [pc EXCEPT ![d] = "commands"]
      \/ pc' = [pc EXCEPT ![d] = "run"]
  BY DEF Return, Goto
<1> QED
  BY <1>1, <1>2 DEF TypeInv, TypeOK, LoopOK, Critical

LEMMA LockStep == TypeInv /\ LockInv /\ [Next]_vars => LockInv'
<1> SUFFICES ASSUME TypeInv, LockInv, [Next]_vars PROVE LockInv'
  OBVIOUS
<1> USE DEF Goto
<1>1. CASE UNCHANGED <<pc, cur, locks>>
  BY <1>1 DEF LockInv, LockHeld, MutualExclusion
<1>2. CASE Advance \/ Edits \/ Server \/ UNCHANGED vars
  <2>1. UNCHANGED <<pc, cur, locks>>
    BY <1>2 DEF Advance, Edits, RemoveJob, AddJob, UpdateJob, Edit, Server, ServeRun,
                ChannelClosed, vars, files, loopVars
  <2> QED
    BY <1>1, <2>1
<1>3. ASSUME NEW r \in Requests, Client(r) PROVE LockInv'
  <2>1. UNCHANGED <<pc, cur, locks>>
    BY <1>3 DEF Client, PostRun, PostRefused, TimeoutRun, FallbackRun, files, loopVars
  <2> QED
    BY <1>1, <2>1
<1>4. ASSUME NEW d \in Daemons, Crash(d) \/ Restart(d) PROVE LockInv'
  <2>1. /\ pc'[d] \notin Critical
        /\ \A e \in Daemons \ {d} : pc'[e] = pc[e] /\ cur'[e] = cur[e]
        /\ locks' = locks
    BY <1>4 DEF Crash, Forget, Restart, files, loopVars, TypeInv, TypeOK, LoopOK, Critical
  <2> QED
    BY <2>1, LeaveCritical
<1>5. ASSUME NEW d \in Daemons, Loop(d) PROVE LockInv'
  <2>1. CASE \/ TickStart(d) \/ CommandsDone(d) \/ DrainPending(d)
             \/ NextJob(d) \/ ListDone(d)
    <3>1. /\ pc'[d] \notin Critical
          /\ \A e \in Daemons \ {d} : pc'[e] = pc[e] /\ cur'[e] = cur[e]
          /\ locks' = locks
      BY <2>1 DEF TickStart, CommandsDone, DrainPending, NextJob, ListDone, files,
                  loopVars, TypeInv, TypeOK, LoopOK, Critical
    <3> QED
      BY <3>1, LeaveCritical
  <2>2. CASE TakeCommand(d)
    <3>1. /\ pc'[d] \notin Critical
          /\ \A e \in Daemons \ {d} : pc'[e] = pc[e] /\ cur'[e] = cur[e]
          /\ locks' = locks
      BY ZenonT(30), <2>2 DEF TakeCommand, files, TypeInv, TypeOK, LoopOK, Critical
    <3> QED
      BY <3>1, LeaveCritical
  <2>3. CASE \/ CollectBegin(d) \/ CollectEnd(d) \/ \E j \in JobIds : CollectOne(d, j)
    <3>1. /\ pc'[d] \notin Critical
          /\ \A e \in Daemons \ {d} : pc'[e] = pc[e] /\ cur'[e] = cur[e]
          /\ locks' = locks
      BY <2>3 DEF CollectBegin, CollectEnd, CollectOne, files, TypeInv, TypeOK, LoopOK,
                  Critical
    <3> QED
      BY <3>1, LeaveCritical
  <2>4. CASE SkipJob(d)
    BY <2>4, ReturnLeaves, LeaveCritical DEF SkipJob
  <2>5. CASE AcquireLock(d)
    BY <2>5, EnterCritical
  <2>6. CASE StartTurn(d) \/ RecordRun(d) \/ \E s \in {"ok", "error", "skipped"} : EndTurn(d, s)
    <3>1. /\ pc[d] \in Critical
          /\ cur' = cur /\ locks' = locks
          /\ \A e \in Daemons \ {d} : pc'[e] = pc[e]
      BY <2>6 DEF StartTurn, RecordRun, EndTurn, files, loopVars, TypeInv, TypeOK, LoopOK,
                  Critical
    <3> QED
      BY <3>1, StayCritical
  <2>7. CASE ReleaseLock(d)
    <3>1. pc[d] \in Critical /\ locks' = locks \ {cur[d]} /\ Return(d, TRUE)
      BY <2>7 DEF ReleaseLock, Critical
    <3> QED
      BY <3>1, ReturnLeaves, LeaveCritical
  <2>8. CASE FailTurn(d)
    <3>1. pc[d] \in Critical /\ locks' = locks \ {cur[d]}
      BY <2>8 DEF FailTurn, Critical
    <3>2. /\ pc'[d] \notin Critical
          /\ \A e \in Daemons \ {d} : pc'[e] = pc[e] /\ cur'[e] = cur[e]
      <4>1. CASE Return(d, FALSE)
        BY <4>1, ReturnLeaves
      <4>2. CASE pc' = [pc EXCEPT ![d] = "dead"] /\ cur' = [cur EXCEPT ![d] = None]
        BY <4>2 DEF TypeInv, TypeOK, LoopOK, Critical
      <4> QED
        BY <2>8, <4>1, <4>2 DEF FailTurn
    <3> QED
      BY <3>1, <3>2, LeaveCritical
  <2> QED
    BY <1>5, <2>1, <2>2, <2>3, <2>4, <2>5, <2>6, <2>7, <2>8 DEF Loop, Execute
<1> QED
  BY <1>2, <1>3, <1>4, <1>5 DEF Next

\* Two daemons never execute the same job at the same time: the lock files that
\* acquire_job_lock creates with create_new, and that only the holder removes,
\* are enough, whatever else happens to the jobs, the lists or the processes.
THEOREM Exclusion == Spec => []MutualExclusion
<1>1. Init => TypeInv /\ LockInv
  BY TypeInit, LockInit
<1>2. TypeInv /\ LockInv /\ [Next]_vars => (TypeInv /\ LockInv)'
  BY TypeStep, LockStep
<1>3. TypeInv /\ LockInv => MutualExclusion
  BY DEF LockInv
<1> QED
  BY <1>1, <1>2, <1>3, PTL DEF Spec

-----------------------------------------------------------------------------
(***************************************************************************)
(* One daemon: what its process makes of a job.  The hypotheses are those   *)
(* of the run CronStarts, and of nothing else.                              *)
(***************************************************************************)
OneDaemon == \A d, e \in Daemons : d = e

\* What the functions of cron.rs do to the mark of a running job.
LEMMA FilledMark ==
  ASSUME NEW job \in Job, NEW t \in Nat
  PROVE  Filled(job, t).running = job.running
BY ComputeNextType DEF Filled, Job

LEMMA PatchedMark ==
  ASSUME NEW job \in Job, NEW p \in Patch, NEW t \in Nat, Patched(job, p, t).running
  PROVE  job.running
<1> DEFINE new  == [job EXCEPT !.enabled = p.enabled, !.sched = p.sched]
           next == ComputeNextRun(new, t)
<1>1. new \in Job /\ new.running = job.running
  BY DEF Job, Patch
<1> HIDE DEF new
<1>2. [new EXCEPT !.next = NoTime, !.running = FALSE].running = FALSE
  BY <1>1 DEF Job
<1>3. [new EXCEPT !.next = next].running = new.running
  BY <1>1 DEF Job
<1> QED
  BY <1>1, <1>2, <1>3 DEF Patched, new

LEMMA AddedMark ==
  ASSUME NEW job \in Job, NEW t \in Nat
  PROVE  Added(job, t).running = job.running
BY DEF Added, Job

LEMMA AfterRunMark ==
  ASSUME NEW job \in Job, NEW status \in {"ok", "error", "skipped"}, NEW t \in Nat,
         AfterRun(job, status, t) # NoJob
  PROVE  AfterRun(job, status, t).running = FALSE
<1> DEFINE ended == [job EXCEPT !.running = FALSE, !.last = status]
           next  == IF job.enabled THEN NextRunAfter(job.sched, t) ELSE NoTime
<1>1. ended \in Job /\ ended.running = FALSE
  BY DEF Job
<1> HIDE DEF ended, next
<1>2. /\ [ended EXCEPT !.enabled = FALSE, !.next = NoTime].running = FALSE
      /\ [ended EXCEPT !.next = next].running = FALSE
  BY <1>1 DEF Job
<1> QED
  BY <1>2 DEF AfterRun, ended, next

-----------------------------------------------------------------------------
(***************************************************************************)
(* The mark of a running job and its lock file.                             *)
(***************************************************************************)
Marked(job) == job # NoJob /\ job.running

\* Besides the jobs on disk, those in the copy that collect_due_jobs is going to
\* write back; and a lock file goes only after the mark.
MarksInv ==
  /\ RunningIsLocked
  /\ \A d \in Daemons, j \in JobIds : pc[d] = "queue" /\ Marked(snap[d][j]) => j \in locks
  /\ \A d \in Daemons : pc[d] = "release" => ~Marked(jobs[cur[d]])

NobodyMarks ==
  /\ \A js \in Initial : \A j \in JobIds : ~Marked(js[j])
  /\ \A job \in Templates : ~job.running

LEMMA MarksInit == NobodyMarks /\ Init => MarksInv
BY DEF NobodyMarks, Init, MarksInv, RunningIsLocked, Marked, Present

\* A step that leaves the loop where it is, and marks no job.
LEMMA MarksStay ==
  ASSUME TypeInv, MarksInv, UNCHANGED <<pc, cur, snap, locks>>,
         \A j \in JobIds : Marked(jobs'[j]) => Marked(jobs[j])
  PROVE  MarksInv'
<1>1. \A d \in Daemons : pc[d] = "release" => cur[d] \in JobIds
  BY DEF TypeInv, HasJob, Executing, Critical
<1> QED
  BY <1>1 DEF MarksInv, RunningIsLocked, Marked, Present

\* A step to where there is neither a copy to write back nor a lock to remove.
LEMMA MarksAway ==
  ASSUME MarksInv, \A e \in Daemons : pc'[e] \notin {"queue", "release"},
         \A j \in JobIds : Marked(jobs'[j]) => j \in locks'
  PROVE  MarksInv'
BY DEF MarksInv, RunningIsLocked, Marked, Present

LEMMA EditsMark ==
  ASSUME TypeInv, NobodyMarks, Edits
  PROVE  /\ UNCHANGED <<pc, cur, snap, locks>>
         /\ \A j \in JobIds : Marked(jobs'[j]) => Marked(jobs[j])
<1> USE DEF TypeInv, TypeOK, FilesOK, CountsOK
<1>1. PICK i \in JobIds :
        \/ RemoveJob(i)
        \/ \E job \in Templates : AddJob(i, job)
        \/ \E patch \in Patches : UpdateJob(i, patch)
  BY DEF Edits
<1>2. UNCHANGED <<pc, cur, snap, locks>>
  BY <1>1 DEF RemoveJob, AddJob, UpdateJob, Edit, loopVars
<1>3. CASE RemoveJob(i)
  BY <1>2, <1>3 DEF RemoveJob, Edit, Marked
<1>4. ASSUME NEW job \in Templates, AddJob(i, job)
      PROVE  \A j \in JobIds : Marked(jobs'[j]) => Marked(jobs[j])
  <2>1. ~Added(job, now).running
    BY AddedMark DEF NobodyMarks
  <2>2. jobs' = [jobs EXCEPT ![i] = Added(job, now)]
    BY <1>4 DEF AddJob, Edit
  <2> QED
    BY <2>1, <2>2 DEF Marked
<1>5. ASSUME NEW patch \in Patches, UpdateJob(i, patch)
      PROVE  \A j \in JobIds : Marked(jobs'[j]) => Marked(jobs[j])
  <2>1. jobs[i] \in Job /\ jobs[i] # NoJob
    BY <1>5 DEF UpdateJob
  <2>2. Patched(jobs[i], patch, now).running => jobs[i].running
    BY <2>1, PatchedMark
  <2>3. jobs' = [jobs EXCEPT ![i] = Patched(jobs[i], patch, now)]
    BY <1>5 DEF UpdateJob, Edit
  <2> QED
    BY <2>1, <2>2, <2>3 DEF Marked
<1> QED
  BY <1>1, <1>2, <1>3, <1>4, <1>5

LEMMA FallbackMark ==
  ASSUME TypeInv, NEW r \in Requests, FallbackRun(r)
  PROVE  \A j \in JobIds : Marked(jobs'[j]) => Marked(jobs[j])
<1> USE DEF TypeInv, TypeOK, FilesOK, CountsOK
<1>1. ASSUME NEW j \in JobIds
      PROVE  jobs'[j] \in {jobs[j], Filled(jobs[j], now)} /\ (jobs[j] = NoJob => jobs'[j] = jobs[j])
  BY DEF FallbackRun
<1>2. ASSUME NEW j \in JobIds, jobs[j] # NoJob
      PROVE  jobs[j] \in Job /\ Filled(jobs[j], now).running = jobs[j].running
  BY <1>2, FilledMark
<1> QED
  BY <1>1, <1>2 DEF Marked

LEMMA MarksStep ==
  ASSUME OneDaemon, "failed" \notin Outcomes, NobodyMarks,
         TypeInv, LockInv, MarksInv, [Next]_vars
  PROVE  MarksInv'
<1> USE DEF Goto
<1>1. \A j \in JobIds : Marked(jobs[j]) => j \in locks
  BY DEF MarksInv, RunningIsLocked, Marked, Present
<1>2. CASE Advance \/ Server \/ UNCHANGED vars
  <2>1. UNCHANGED <<pc, cur, snap, locks, jobs>>
    BY <1>2 DEF Advance, Server, ServeRun, ChannelClosed, vars, files, loopVars
  <2> QED
    BY <2>1, MarksStay
<1>3. CASE Edits
  BY <1>3, EditsMark, MarksStay
<1>4. ASSUME NEW r \in Requests, Client(r) PROVE MarksInv'
  <2>1. UNCHANGED <<pc, cur, snap, locks>>
    BY <1>4 DEF Client, PostRun, PostRefused, TimeoutRun, FallbackRun, files, loopVars
  <2>2. CASE FallbackRun(r)
    BY <2>1, <2>2, FallbackMark, MarksStay
  <2>3. CASE ~FallbackRun(r)
    <3>1. jobs' = jobs
      BY <1>4, <2>3 DEF Client, PostRun, PostRefused, TimeoutRun, files
    <3> QED
      BY <2>1, <3>1, MarksStay
  <2> QED
    BY <2>2, <2>3
<1>5. ASSUME NEW d \in Daemons, Loop(d) \/ Crash(d) \/ Restart(d) PROVE MarksInv'
  <2>0. /\ pc \in [Daemons -> Control] /\ snap \in [Daemons -> [JobIds -> Job \cup {NoJob}]]
        /\ jobs \in [JobIds -> Job \cup {NoJob}] /\ tick \in [Daemons -> Nat]
        /\ \A e \in Daemons : e = d
    BY DEF OneDaemon, TypeInv, TypeOK, LoopOK, FilesOK
  <2>1. CASE \/ TickStart(d) \/ CommandsDone(d) \/ DrainPending(d) \/ NextJob(d)
             \/ ListDone(d) \/ Restart(d) \/ Crash(d)
    <3>1. jobs' = jobs /\ locks' = locks /\ pc'[d] \notin {"queue", "release"}
      BY <2>0, <2>1 DEF TickStart, CommandsDone, DrainPending, NextJob, ListDone, Restart,
                        Crash, files
    <3> QED
      BY <1>1, <2>0, <3>1, MarksAway
  <2>2. CASE TakeCommand(d)
    <3>1. jobs' = jobs /\ locks' = locks /\ pc'[d] \notin {"queue", "release"}
      BY <2>0, <2>2 DEF TakeCommand, files
    <3> QED
      BY <1>1, <2>0, <3>1, MarksAway
  <2>3. CASE SkipJob(d)
    <3>1. jobs' = jobs /\ locks' = locks /\ pc'[d] \notin {"queue", "release"}
      BY <2>0, <2>3 DEF SkipJob, Return
    <3> QED
      BY <1>1, <2>0, <3>1, MarksAway
  <2>4. CASE AcquireLock(d) \/ \E s \in {"ok", "error", "skipped"} : EndTurn(d, s)
    <3>1. jobs' = jobs /\ locks \subseteq locks' /\ pc'[d] \notin {"queue", "release"}
      BY <2>0, <2>4 DEF AcquireLock, EndTurn, files
    <3> QED
      BY <1>1, <2>0, <3>1, MarksAway
  <2>5. CASE CollectBegin(d)
    <3>1. jobs' = jobs /\ locks' = locks /\ pc'[d] = "queue"
      BY <2>0, <2>5 DEF CollectBegin, files
    <3>2. ASSUME NEW j \in JobIds
          PROVE  \/ snap'[d][j] = jobs[j]
                 \/ jobs[j] # NoJob /\ snap'[d][j] = Filled(jobs[j], tick[d])
      BY <2>0, <2>5 DEF CollectBegin, Present
    <3>3. ASSUME NEW j \in JobIds, jobs[j] # NoJob
          PROVE  Filled(jobs[j], tick[d]).running = jobs[j].running
      BY <2>0, <3>3, FilledMark
    <3>4. \A j \in JobIds : Marked(snap'[d][j]) => Marked(jobs[j])
      BY <3>2, <3>3 DEF Marked
    <3> QED
      BY <1>1, <2>0, <3>1, <3>4 DEF MarksInv, RunningIsLocked, Marked, Present
  <2>6. CASE \E j \in JobIds : CollectOne(d, j)
    <3>1. UNCHANGED <<pc, cur, snap, locks, jobs>>
      BY <2>6 DEF CollectOne
    <3> QED
      BY <3>1, MarksStay
  <2>7. CASE CollectEnd(d)
    <3>1. /\ pc[d] = "queue" /\ jobs' \in {snap[d], jobs} /\ locks' = locks
          /\ pc'[d] \notin {"queue", "release"}
      BY <2>0, <2>7 DEF CollectEnd
    <3>2. \A j \in JobIds : Marked(snap[d][j]) => j \in locks
      BY <3>1 DEF MarksInv
    <3> QED
      BY <1>1, <2>0, <3>1, <3>2, MarksAway
  <2>8. CASE StartTurn(d)
    <3>1. /\ cur[d] \in locks /\ cur[d] \in JobIds /\ locks' = locks
          /\ pc'[d] \notin {"queue", "release"}
          /\ \A j \in JobIds : j # cur[d] => jobs'[j] = jobs[j]
      BY <2>0, <2>8 DEF StartTurn, LockInv, LockHeld, Critical, TypeInv, HasJob, Executing
    <3> QED
      BY <1>1, <2>0, <3>1, MarksAway
  <2>9. CASE RecordRun(d)
    <3>1. /\ pc[d] = "record" /\ pc'[d] = "release" /\ locks' = locks /\ cur' = cur
          /\ result[d].status \in {"ok", "error", "skipped"} /\ result[d].at \in Nat
          /\ cur[d] \in JobIds
      BY <2>0, <2>9 DEF RecordRun, TypeInv, TypeOK, LoopOK, Result, HasJob, Executing, Critical
    <3>2. CASE jobs[cur[d]] = NoJob
      <4>1. jobs' = jobs
        BY <2>9, <3>2 DEF RecordRun
      <4> QED
        BY <1>1, <2>0, <3>1, <3>2, <4>1 DEF MarksInv, RunningIsLocked, Marked, Present
    <3>3. CASE jobs[cur[d]] # NoJob
      <4>1. jobs' = [jobs EXCEPT ![cur[d]] = AfterRun(jobs[cur[d]], result[d].status, result[d].at)]
        BY <2>9, <3>3 DEF RecordRun
      <4>2. ~Marked(jobs'[cur[d]])
        BY <2>0, <3>1, <3>3, <4>1, AfterRunMark DEF Marked
      <4>3. \A j \in JobIds : Marked(jobs'[j]) => Marked(jobs[j])
        BY <2>0, <3>1, <4>1, <4>2
      <4> QED
        BY <1>1, <2>0, <3>1, <4>2, <4>3 DEF MarksInv, RunningIsLocked, Marked, Present
    <3> QED
      BY <3>2, <3>3
  <2>10. CASE ReleaseLock(d)
    <3>1. /\ jobs' = jobs /\ locks' = locks \ {cur[d]} /\ pc[d] = "release"
          /\ pc'[d] \notin {"queue", "release"}
      BY <2>0, <2>10 DEF ReleaseLock, Return
    <3>2. ~Marked(jobs[cur[d]])
      BY <3>1 DEF MarksInv
    <3> QED
      BY <1>1, <2>0, <3>1, <3>2, MarksAway
  <2>11. ~FailTurn(d)
    BY DEF FailTurn
  <2> QED
    BY <1>5, <2>1, <2>2, <2>3, <2>4, <2>5, <2>6, <2>7, <2>8, <2>9, <2>10, <2>11
       DEF Loop, Execute
<1> QED
  BY <1>2, <1>3, <1>4, <1>5 DEF Next

\* With one daemon and no failing turn, a job that is marked as running has its lock
\* file, through crashes, restarts, edits and manual runs: mark_job_running comes after
\* acquire_job_lock and update_job_state_from_run before the lock's Drop, and the copy
\* that collect_due_jobs writes back is no older than the last lock.
THEOREM RunningIsLockedCorrect ==
  ASSUME OneDaemon, "failed" \notin Outcomes, NobodyMarks
  PROVE  Spec => []RunningIsLocked
<1>1. Init => TypeInv /\ LockInv /\ MarksInv
  BY TypeInit, LockInit, MarksInit
<1>2. TypeInv /\ LockInv /\ MarksInv /\ [Next]_vars => (TypeInv /\ LockInv /\ MarksInv)'
  BY TypeStep, LockStep, MarksStep
<1>3. MarksInv => RunningIsLocked
  BY DEF MarksInv
<1> QED
  BY <1>1, <1>2, <1>3, PTL DEF Spec

-----------------------------------------------------------------------------
(***************************************************************************)
(* The lists of one daemon: no job is in them twice.                        *)
(***************************************************************************)
Has(s, j) == \E n \in 1..Len(s) : s[n] = j
Once(s)   == \A m, n \in 1..Len(s) : s[m] = s[n] => m = n
AtHand(d, j) == pc[d] \in Executing /\ cur[d] = j

\* pending.json is drained before the jobs are collected again, and what is collected
\* is in one of the lists.
ListsInv ==
  /\ Once(pending)
  /\ \A d \in Daemons :
       /\ Once(todo[d]) /\ src[d] # "command"
       /\ pc[d] \in {"run", "queue"} \cup Executing \/ todo[d] = <<>>
       /\ pc[d] = "queue" \/ left[d] = {}
       /\ pc[d] = "queue" => src[d] = "due"
       /\ pc[d] = "collect" \/ (src[d] = "pending" /\ pc[d] \in {"run"} \cup Executing) =>
            pending = <<>>
       /\ \A j \in JobIds :
            /\ ~(Has(pending, j) /\ Has(todo[d], j))
            /\ j \in left[d] \/ AtHand(d, j) => ~Has(pending, j) /\ ~Has(todo[d], j)

LEMMA EmptyHas == Once(<<>>) /\ \A j : ~Has(<<>>, j)
BY DEF Once, Has

LEMMA TailHas ==
  ASSUME NEW S, NEW s \in Seq(S), s # <<>>, Once(s)
  PROVE  /\ Once(Tail(s)) /\ Has(s, Head(s)) /\ ~Has(Tail(s), Head(s))
         /\ \A j : Has(Tail(s), j) => Has(s, j)
<1>1. /\ Len(s) \in Nat \ {0} /\ Len(Tail(s)) = Len(s) - 1 /\ Head(s) = s[1]
      /\ \A n \in 1..Len(Tail(s)) : Tail(s)[n] = s[n + 1]
  OBVIOUS
<1>2. PICK k \in Nat : k = Len(Tail(s))
  <2>1. Tail(s) \in Seq(S)
    OBVIOUS
  <2> QED
    BY <2>1
<1>3. Len(s) = k + 1 /\ \A n \in 1..k : n + 1 \in 1..(k + 1) /\ Tail(s)[n] = s[n + 1]
  BY <1>1, <1>2
<1>4. \A m, n \in 1..(k + 1) : s[m] = s[n] => m = n
  BY <1>3 DEF Once
<1>5. \A m, n \in 1..k : Tail(s)[m] = Tail(s)[n] => m = n
  <2>1. TAKE m, n \in 1..k
  <2>2. HAVE Tail(s)[m] = Tail(s)[n]
  <2>3. s[m + 1] = s[n + 1]
    BY <2>2, <1>3
  <2>4. m + 1 = n + 1
    BY <2>3, <1>3, <1>4
  <2> QED
    BY <2>4
<1>6. \A n \in 1..k : Tail(s)[n] # s[1]
  <2>1. TAKE n \in 1..k
  <2>2. n + 1 \in 1..(k + 1) /\ 1 \in 1..(k + 1) /\ n + 1 # 1
    OBVIOUS
  <2> QED
    BY <2>2, <1>3, <1>4
<1>7. Has(s, Head(s))
  BY <1>1 DEF Has
<1>8. ASSUME NEW j, Has(Tail(s), j) PROVE Has(s, j)
  BY <1>2, <1>3, <1>8 DEF Has
<1> QED
  BY <1>1, <1>2, <1>5, <1>6, <1>7, <1>8 DEF Once, Has

LEMMA AppendHas ==
  ASSUME NEW S, NEW s \in Seq(S), NEW i \in S, Once(s), ~Has(s, i)
  PROVE  /\ Once(Append(s, i))
         /\ \A j : Has(Append(s, i), j) <=> Has(s, j) \/ j = i
<1>1. PICK k \in Nat : k = Len(s)
  OBVIOUS
<1>2. /\ Len(Append(s, i)) = k + 1 /\ Append(s, i)[k + 1] = i
      /\ \A n \in 1..k : Append(s, i)[n] = s[n]
  <2>1. Append(s, i)[Len(s) + 1] = i /\ Len(Append(s, i)) = Len(s) + 1
    OBVIOUS
  <2>2. \A n \in 1..Len(s) : Append(s, i)[n] = s[n]
    OBVIOUS
  <2> QED
    BY <2>1, <2>2, <1>1
<1>3. 1..(k + 1) = 1..k \cup {k + 1}
  OBVIOUS
<1> HIDE <1>1
<1>4. (\A m, n \in 1..k : s[m] = s[n] => m = n) /\ (\A n \in 1..k : s[n] # i)
  BY <1>1 DEF Once, Has
<1>5. Once(Append(s, i))
  BY <1>2, <1>3, <1>4 DEF Once
<1>6. \A j : Has(Append(s, i), j) <=> Has(s, j) \/ j = i
  BY <1>1, <1>2, <1>3 DEF Has
<1> QED
  BY <1>5, <1>6

LEMMA ListsInit == Init => ListsInv
BY EmptyHas DEF Init, ListsInv, AtHand, Executing, Critical

\* Nothing comes from a client if there are none.
LEMMA NoCommand ==
  ASSUME Requests = {}, TypeInv, NEW d \in Daemons
  PROVE  ~TakeCommand(d)
<1>1. SUFFICES ASSUME TakeCommand(d) PROVE FALSE
  OBVIOUS
<1>2. Head(chan) \in Call
  BY <1>1, HeadTailType DEF TakeCommand, TypeInv, TypeOK, ManualOK
<1> QED
  BY <1>2 DEF Call

\* The loop returns to its list with the job at hand done.
LEMMA ReturnToList ==
  ASSUME TypeInv, ListsInv, NEW d \in Daemons, NEW ran \in BOOLEAN, Return(d, ran)
  PROVE  pc' = [pc EXCEPT ![d] = "run"]
BY DEF Return, Goto, ListsInv

LEMMA ListsStep ==
  ASSUME OneDaemon, Requests = {}, TypeInv, ListsInv, [Next]_vars
  PROVE  ListsInv'
<1> USE DEF Goto
<1>1. CASE UNCHANGED <<pending, pc, todo, src, left, cur>>
  BY <1>1 DEF ListsInv, AtHand
<1>2. CASE Advance \/ Edits \/ Server \/ UNCHANGED vars
  <2>1. UNCHANGED <<pending, pc, todo, src, left, cur>>
    BY <1>2 DEF Advance, Edits, RemoveJob, AddJob, UpdateJob, Edit, Server, ServeRun,
                ChannelClosed, vars, files, loopVars
  <2> QED
    BY <1>1, <2>1
<1>3. ASSUME NEW d \in Daemons, Loop(d) \/ Crash(d) \/ Restart(d) PROVE ListsInv'
  <2>0. /\ pc \in [Daemons -> Control] /\ todo \in [Daemons -> Seq(JobIds)]
        /\ src \in [Daemons -> {"command", "pending", "due"}]
        /\ cur \in [Daemons -> JobIds \cup {None}] /\ left \in [Daemons -> SUBSET JobIds]
        /\ pending \in Seq(JobIds)
        /\ \A e \in Daemons : e = d
    BY DEF OneDaemon, TypeInv, TypeOK, LoopOK, FilesOK
  <2>00. /\ Once(pending) /\ Once(todo[d]) /\ src[d] # "command"
         /\ pc[d] \in {"run", "queue"} \cup Executing \/ todo[d] = <<>>
         /\ pc[d] = "queue" \/ left[d] = {}
         /\ pc[d] = "queue" => src[d] = "due"
         /\ pc[d] = "collect" \/ (src[d] = "pending" /\ pc[d] \in {"run"} \cup Executing) =>
              pending = <<>>
         /\ \A j \in JobIds :
              /\ ~(Has(pending, j) /\ Has(todo[d], j))
              /\ j \in left[d] \/ AtHand(d, j) => ~Has(pending, j) /\ ~Has(todo[d], j)
    BY DEF ListsInv
  <2>1. CASE TickStart(d) \/ CommandsDone(d) \/ Restart(d)
    <3>1. /\ UNCHANGED <<pending, todo, src, left, cur>>
          /\ pc[d] \in {"top", "commands", "down"} /\ pc'[d] \in {"commands", "pending", "top"}
      BY <2>0, <2>1 DEF TickStart, CommandsDone, Restart, files, loopVars
    <3> QED
      BY <2>0, <2>00, <3>1 DEF ListsInv, AtHand, Executing, Critical
  <2>2. CASE DrainPending(d)
    <3>1. /\ pending' = <<>> /\ todo'[d] = pending /\ src'[d] = "pending" /\ left' = left
          /\ pc[d] = "pending" /\ pc'[d] = "run"
      BY <2>0, <2>2 DEF DrainPending
    <3> QED
      BY <2>0, <2>00, <3>1, EmptyHas DEF ListsInv, AtHand, Executing, Critical
  <2>3. CASE NextJob(d)
    <3>1. /\ todo[d] # <<>> /\ todo'[d] = Tail(todo[d]) /\ cur'[d] = Head(todo[d])
          /\ UNCHANGED <<pending, src, left>> /\ pc[d] = "run" /\ pc'[d] = "lock"
      BY <2>0, <2>3 DEF NextJob, files
    <3>2. todo[d] \in Seq(JobIds) /\ Once(todo[d])
      BY <2>0, <2>00
    <3>3. /\ Once(todo'[d]) /\ Has(todo[d], cur'[d]) /\ ~Has(todo'[d], cur'[d])
          /\ \A j : Has(todo'[d], j) => Has(todo[d], j)
      BY <3>1, <3>2, TailHas
    <3>4. /\ cur'[d] \in JobIds /\ ~Has(pending, cur'[d]) /\ ~Has(todo'[d], cur'[d])
          /\ \A j \in JobIds : ~(Has(pending, j) /\ Has(todo'[d], j))
      <4>1. Head(todo[d]) \in JobIds
        BY <3>1, <3>2, HeadTailType
      <4> QED
        BY <2>00, <3>1, <3>3, <4>1
    <3>5. pending' = pending /\ src' = src /\ left'[d] = {} /\ pc'[d] = "lock"
          /\ (src[d] = "pending" => pending = <<>>)
      BY <2>00, <3>1
    <3> HIDE <3>1
    <3> QED
      BY <2>0, <2>00, <3>3, <3>4, <3>5 DEF ListsInv, AtHand, Executing, Critical
  <2>4. CASE ListDone(d)
    <3>1. /\ todo[d] = <<>> /\ UNCHANGED <<pending, todo, src, left, cur>> /\ pc[d] = "run"
          /\ pc'[d] = IF src[d] = "pending" THEN "collect" ELSE "top"
      BY <2>0, <2>4 DEF ListDone, files, loopVars
    <3> QED
      BY <2>0, <2>00, <3>1 DEF ListsInv, AtHand, Executing, Critical
  <2>5. CASE CollectBegin(d)
    <3>1. /\ UNCHANGED <<pending, todo>> /\ src'[d] = "due" /\ pc[d] = "collect"
          /\ pc'[d] = "queue"
      BY <2>0, <2>5 DEF CollectBegin, files
    <3>2. todo[d] = <<>> /\ pending = <<>>
      BY <2>00, <3>1 DEF Executing, Critical
    <3> QED
      BY <2>0, <2>00, <3>1, <3>2, EmptyHas DEF ListsInv, AtHand, Executing, Critical
  <2>6. ASSUME NEW i \in JobIds, CollectOne(d, i) PROVE ListsInv'
    <3>1. /\ pc[d] = "queue" /\ i \in left[d] /\ left'[d] = left[d] \ {i}
          /\ UNCHANGED <<pc, src, cur>>
      BY <2>0, <2>6 DEF CollectOne
    <3>2. ~Has(pending, i) /\ ~Has(todo[d], i)
      BY <2>00, <3>1
    <3>3. CASE pending' = Append(pending, i) /\ todo' = todo
      <4>1. Once(pending') /\ \A j : Has(pending', j) <=> Has(pending, j) \/ j = i
        BY <2>0, <2>00, <3>2, <3>3, AppendHas
      <4> QED
        BY <2>0, <2>00, <3>1, <3>2, <3>3, <4>1 DEF ListsInv, AtHand, Executing, Critical
    <3>4. CASE pending' = pending /\ todo' = [todo EXCEPT ![d] = Append(@, i)]
      <4>1. todo'[d] = Append(todo[d], i) /\ todo[d] \in Seq(JobIds)
        BY <2>0, <3>4
      <4>2. Once(todo'[d]) /\ \A j : Has(todo'[d], j) <=> Has(todo[d], j) \/ j = i
        BY <2>00, <3>2, <4>1, AppendHas
      <4> QED
        BY <2>0, <2>00, <3>1, <3>2, <3>4, <4>2 DEF ListsInv, AtHand, Executing, Critical
    <3> QED
      BY <2>6, <3>3, <3>4 DEF CollectOne
  <2>7. CASE CollectEnd(d)
    <3>1. /\ left[d] = {} /\ UNCHANGED <<pending, todo, src, left, cur>> /\ pc[d] = "queue"
          /\ pc'[d] = "run"
      BY <2>0, <2>7 DEF CollectEnd
    <3> QED
      BY <2>0, <2>00, <3>1 DEF ListsInv, AtHand, Executing, Critical
  <2>8. CASE \/ AcquireLock(d) \/ StartTurn(d) \/ RecordRun(d)
             \/ \E s \in {"ok", "error", "skipped"} : EndTurn(d, s)
    <3>1. /\ UNCHANGED <<pending, todo, src, left, cur>>
          /\ pc[d] \in Executing /\ pc'[d] \in Executing
      BY <2>0, <2>8 DEF AcquireLock, StartTurn, RecordRun, EndTurn, files, loopVars, Executing,
                        Critical
    <3> QED
      BY <2>0, <2>00, <3>1 DEF ListsInv, AtHand, Executing, Critical
  <2>9. CASE SkipJob(d) \/ ReleaseLock(d)
    <3>1. Return(d, TRUE) /\ UNCHANGED <<pending, todo, src, left>> /\ pc[d] \in Executing
      BY <2>9 DEF SkipJob, ReleaseLock, Executing, Critical
    <3>2. pc' = [pc EXCEPT ![d] = "run"]
      BY <3>1, ReturnToList
    <3>3. pc'[d] = "run"
      BY <2>0, <3>2
    <3> QED
      BY <2>0, <2>00, <3>1, <3>3 DEF ListsInv, AtHand, Executing, Critical
  <2>10. CASE FailTurn(d)
    <3>1. /\ UNCHANGED <<pending, src, left>> /\ pc[d] \in Executing
          /\ todo'[d] = <<>> /\ pc'[d] = "dead"
      BY <2>0, <2>00, <2>10 DEF FailTurn, Executing, Critical
    <3> QED
      BY <2>0, <2>00, <3>1, EmptyHas DEF ListsInv, AtHand, Executing, Critical
  <2>11. CASE Crash(d)
    <3>1. /\ UNCHANGED <<pending, src>> /\ todo'[d] = <<>> /\ left'[d] = {} /\ pc'[d] = "down"
      BY <2>0, <2>11 DEF Crash, Forget, files
    <3> QED
      BY <2>0, <2>00, <3>1, EmptyHas DEF ListsInv, AtHand, Executing, Critical
  <2> QED
    BY <1>3, <2>1, <2>2, <2>3, <2>4, <2>5, <2>6, <2>7, <2>8, <2>9, <2>10, <2>11, NoCommand
       DEF Loop, Execute
<1> QED
  BY <1>2, <1>3 DEF Next

-----------------------------------------------------------------------------
(***************************************************************************)
(* One-shot jobs.                                                           *)
(***************************************************************************)
OneShot(j) == \E js \in Initial : js[j] # NoJob /\ js[j].sched.kind = "at"
IsAt(job)  == job = NoJob \/ job.sched.kind = "at"
Fired(job) == job = NoJob \/ (job.sched.kind = "at" /\ job.last = "ok" /\ job.next = NoTime)

\* A one-shot job that has ended well is gone or has no next run, on disk and in the
\* copy that is going to be written back; and it is in no list any more.
OnceInv ==
  \A j \in JobIds : OneShot(j) =>
    /\ IsAt(jobs[j]) /\ oks[j] <= 1
    /\ oks[j] = 1 => Fired(jobs[j]) /\ ~Has(pending, j)
    /\ \A d \in Daemons :
         /\ pc[d] = "queue" => IsAt(snap[d][j])
         /\ oks[j] = 1 =>
              /\ ~Has(todo[d], j) /\ j \notin left[d]
              /\ pc[d] = "queue" => Fired(snap[d][j])
              /\ pc[d] \in Executing \ {"release"} => cur[d] # j

\* An id has one schedule to begin with, no id is used again, and no edit makes
\* another job of a one-shot job.
OneShotsStay ==
  /\ \A j \in JobIds : OneShot(j) => \A js \in Initial : IsAt(js[j])
  /\ Templates = {}
  /\ \A patch \in Patches : patch.sched.kind = "at"

\* What the functions of cron.rs make of one-shot jobs.
LEMMA FilledShot ==
  ASSUME NEW job \in Job, NEW t \in Nat, IsAt(job)
  PROVE  /\ IsAt(Filled(job, t))
         /\ Fired(job) => Fired(Filled(job, t)) /\ ~Collectable(job, t, FALSE)
<1>1. ComputeNextRun(job, t) \in Nat \cup {NoTime}
  BY ComputeNextType
<1>2. Filled(job, t).sched = job.sched /\ Filled(job, t).last = job.last
  BY DEF Filled, Job
<1>3. IsAt(Filled(job, t))
  BY <1>2, NoJobAssumption DEF IsAt
<1>4. ASSUME Fired(job) PROVE Fired(Filled(job, t)) /\ ~Collectable(job, t, FALSE)
  <2>1. job.sched.kind = "at" /\ job.last = "ok" /\ job.next = NoTime
    BY <1>4, NoJobAssumption DEF Fired
  <2>2. Filled(job, t).next = NoTime
    BY <2>1 DEF Filled, ComputeNextRun, Job
  <2> QED
    BY <1>2, <2>1, <2>2 DEF Fired, Collectable, Reached
<1> QED
  BY <1>3, <1>4

LEMMA PatchedShot ==
  ASSUME NEW job \in Job, NEW p \in Patch, NEW t \in Nat, p.sched.kind = "at"
  PROVE  IsAt(Patched(job, p, t)) /\ (Fired(job) => Fired(Patched(job, p, t)))
<1> DEFINE new  == [job EXCEPT !.enabled = p.enabled, !.sched = p.sched]
           next == ComputeNextRun(new, t)
<1>1. new \in Job /\ new.sched = p.sched /\ new.last = job.last /\ new.next = job.next
  BY DEF Job, Patch
<1> HIDE DEF new
<1>2. /\ [new EXCEPT !.next = NoTime, !.running = FALSE].sched = new.sched
      /\ [new EXCEPT !.next = NoTime, !.running = FALSE].last = new.last
      /\ [new EXCEPT !.next = NoTime, !.running = FALSE].next = NoTime
  BY <1>1 DEF Job
<1>3. /\ [new EXCEPT !.next = next].sched = new.sched
      /\ [new EXCEPT !.next = next].last = new.last
      /\ [new EXCEPT !.next = next].next = next
  BY <1>1 DEF Job
<1>4. new.sched.kind = "at" /\ new.last = "ok" => next = NoTime
  BY DEF ComputeNextRun
<1>5. Patched(job, p, t) \in {new, [new EXCEPT !.next = NoTime, !.running = FALSE],
                              [new EXCEPT !.next = next]}
  BY DEF Patched, new
<1>6. job # NoJob
  BY NoJobAssumption
<1> QED
  BY <1>1, <1>2, <1>3, <1>4, <1>5, <1>6 DEF IsAt, Fired

LEMMA AfterRunShot ==
  ASSUME NEW job \in Job, NEW status \in {"ok", "error", "skipped"}, NEW t \in Nat,
         job.sched.kind = "at"
  PROVE  /\ IsAt(AfterRun(job, status, t))
         /\ status = "ok" => Fired(AfterRun(job, status, t))
<1> DEFINE ended == [job EXCEPT !.running = FALSE, !.last = status]
           next  == IF job.enabled THEN NextRunAfter(job.sched, t) ELSE NoTime
<1>1. ended \in Job /\ ended.sched = job.sched /\ ended.last = status
  BY DEF Job
<1> HIDE DEF ended, next
<1>2. /\ [ended EXCEPT !.enabled = FALSE, !.next = NoTime].sched = ended.sched
      /\ [ended EXCEPT !.enabled = FALSE, !.next = NoTime].last = ended.last
      /\ [ended EXCEPT !.enabled = FALSE, !.next = NoTime].next = NoTime
      /\ [ended EXCEPT !.next = next].sched = ended.sched
  BY <1>1 DEF Job
<1> QED
  BY <1>1, <1>2 DEF AfterRun, ended, next, IsAt, Fired

LEMMA StartedShot ==
  ASSUME NEW job \in Job
  PROVE  /\ Started(job).sched = job.sched /\ Started(job).next = job.next
         /\ Started(job) \in Job
BY StartedType DEF Started, Job

LEMMA OnceInit == OneShotsStay /\ Init => OnceInv
BY EmptyHas DEF OneShotsStay, Init, OnceInv, Executing, Critical

LEMMA OnceEdits ==
  ASSUME OneShotsStay, TypeInv, OnceInv, Edits
  PROVE  OnceInv'
<1> USE DEF TypeInv, TypeOK, FilesOK, CountsOK
<1>1. PICK i \in JobIds : RemoveJob(i) \/ \E patch \in Patches : UpdateJob(i, patch)
  BY DEF Edits, OneShotsStay
<1>2. UNCHANGED <<pending, pc, todo, left, cur, snap, oks>>
  BY <1>1 DEF RemoveJob, UpdateJob, Edit, loopVars, history
<1>3. \A j \in JobIds : (IsAt(jobs[j]) => IsAt(jobs'[j])) /\ (Fired(jobs[j]) => Fired(jobs'[j]))
  <2>1. CASE RemoveJob(i)
    BY <2>1 DEF RemoveJob, Edit, IsAt, Fired
  <2>2. ASSUME NEW patch \in Patches, UpdateJob(i, patch)
        PROVE  /\ jobs' = [jobs EXCEPT ![i] = Patched(jobs[i], patch, now)]
               /\ IsAt(Patched(jobs[i], patch, now))
               /\ Fired(jobs[i]) => Fired(Patched(jobs[i], patch, now))
    <3>1. jobs[i] \in Job /\ patch.sched.kind = "at"
      BY <2>2 DEF UpdateJob, OneShotsStay
    <3> QED
      BY <2>2, <3>1, PatchedShot DEF UpdateJob, Edit
  <2> QED
    BY <1>1, <2>1, <2>2
<1> QED
  BY <1>2, <1>3 DEF OnceInv

\* A step that changes no job and counts no run, and after which nothing is at hand or
\* in a list that was not before.
LEMMA OnceKept ==
  ASSUME OnceInv, UNCHANGED <<jobs, oks>>, NEW d \in Daemons, \A e \in Daemons : e = d,
         pc'[d] = "queue" => pc[d] = "queue" /\ snap' = snap,
         \A j \in JobIds : oks[j] = 1 =>
           /\ Has(pending', j) => Has(pending, j) \/ Has(todo[d], j) \/ j \in left[d]
           /\ Has(todo'[d], j) => Has(pending, j) \/ Has(todo[d], j) \/ j \in left[d]
           /\ j \in left'[d] => j \in left[d]
           /\ pc'[d] \in Executing \ {"release"} /\ cur'[d] = j =>
                (pc[d] \in Executing \ {"release"} /\ cur[d] = j) \/ Has(todo[d], j)
  PROVE  OnceInv'
BY DEF OnceInv

LEMMA OnceStep ==
  ASSUME OneDaemon, Requests = {}, OneShotsStay, TypeInv, ListsInv, OnceInv, [Next]_vars
  PROVE  OnceInv'
<1> USE DEF Goto
<1>1. CASE UNCHANGED <<pending, pc, todo, left, cur, jobs, snap, oks>>
  BY <1>1 DEF OnceInv
<1>2. CASE Advance \/ Server \/ UNCHANGED vars
  <2>1. UNCHANGED <<pending, pc, todo, left, cur, jobs, snap, oks>>
    BY <1>2 DEF Advance, Server, ServeRun, ChannelClosed, vars, files, loopVars, history
  <2> QED
    BY <1>1, <2>1
<1>3. CASE Edits
  BY <1>3, OnceEdits
<1>4. ASSUME NEW d \in Daemons, Loop(d) \/ Crash(d) \/ Restart(d) PROVE OnceInv'
  <2>0. /\ pc \in [Daemons -> Control] /\ todo \in [Daemons -> Seq(JobIds)]
        /\ cur \in [Daemons -> JobIds \cup {None}] /\ left \in [Daemons -> SUBSET JobIds]
        /\ pending \in Seq(JobIds) /\ tick \in [Daemons -> Nat]
        /\ jobs \in [JobIds -> Job \cup {NoJob}] /\ oks \in [JobIds -> 0..2]
        /\ snap \in [Daemons -> [JobIds -> Job \cup {NoJob}]]
        /\ \A e \in Daemons : e = d
    BY DEF OneDaemon, TypeInv, TypeOK, LoopOK, FilesOK, CountsOK
  <2>00. ASSUME NEW j \in JobIds, OneShot(j)
         PROVE  /\ IsAt(jobs[j]) /\ oks[j] \in {0, 1}
                /\ oks[j] = 1 => /\ Fired(jobs[j]) /\ ~Has(pending, j) /\ ~Has(todo[d], j)
                                 /\ j \notin left[d]
                                 /\ pc[d] = "queue" => Fired(snap[d][j])
                                 /\ pc[d] \in Executing \ {"release"} => cur[d] # j
                /\ pc[d] = "queue" => IsAt(snap[d][j])
    <3>1. oks[j] <= 1 /\ oks[j] \in 0..2
      BY <2>0, <2>00 DEF OnceInv
    <3> QED
      BY <2>00, <3>1 DEF OnceInv
  <2>1. CASE TickStart(d) \/ CommandsDone(d) \/ Restart(d) \/ ListDone(d)
    <3>1. /\ UNCHANGED <<pending, todo, left, cur, jobs, snap, oks>>
          /\ pc'[d] \in {"commands", "pending", "top", "collect"}
      BY <2>0, <2>1 DEF TickStart, CommandsDone, Restart, ListDone, files, loopVars, history
    <3> QED
      BY <2>0, <3>1, OnceKept DEF Executing, Critical
  <2>2. CASE DrainPending(d)
    <3>1. /\ pending' = <<>> /\ todo'[d] = pending /\ UNCHANGED <<left, cur, jobs, snap, oks>>
          /\ pc'[d] = "run"
      BY <2>0, <2>2 DEF DrainPending, history
    <3> QED
      BY <2>0, <3>1, OnceKept, EmptyHas DEF Executing, Critical
  <2>3. CASE NextJob(d)
    <3>1. /\ todo[d] # <<>> /\ todo'[d] = Tail(todo[d]) /\ cur'[d] = Head(todo[d])
          /\ UNCHANGED <<pending, left, jobs, snap, oks>> /\ pc'[d] = "lock"
      BY <2>0, <2>3 DEF NextJob, files, history
    <3>2. todo[d] \in Seq(JobIds) /\ Once(todo[d])
      BY <2>0 DEF ListsInv
    <3>3. /\ Has(todo[d], cur'[d]) /\ \A j : Has(todo'[d], j) => Has(todo[d], j)
      BY <3>1, <3>2, TailHas
    <3>4. pc'[d] \in Executing \ {"release"} /\ pc'[d] # "queue" /\ left' = left
      BY <3>1 DEF Executing, Critical
    <3>5. \A j \in JobIds : /\ Has(pending', j) => Has(pending, j)
                            /\ Has(todo'[d], j) => Has(todo[d], j)
                            /\ cur'[d] = j => Has(todo[d], j)
      BY <3>1, <3>3
    <3> QED
      BY <2>0, <3>1, <3>4, <3>5, OnceKept
  <2>4. CASE CollectBegin(d)
    <3>1. /\ UNCHANGED <<pending, todo, jobs, oks>> /\ pc'[d] = "queue"
      BY <2>0, <2>4 DEF CollectBegin, files, history
    <3>2. ASSUME NEW j \in JobIds
          PROVE  /\ \/ snap'[d][j] = jobs[j]
                    \/ jobs[j] # NoJob /\ snap'[d][j] = Filled(jobs[j], tick[d])
                 /\ j \in left'[d] => jobs[j] # NoJob /\ Collectable(jobs[j], tick[d], FALSE)
      BY <2>0, <2>4 DEF CollectBegin, Present
    <3>3. ASSUME NEW j \in JobIds, OneShot(j)
          PROVE  /\ IsAt(snap'[d][j])
                 /\ oks[j] = 1 => Fired(snap'[d][j]) /\ j \notin left'[d]
      <4>1. IsAt(jobs[j]) /\ (oks[j] = 1 => Fired(jobs[j]))
        BY <2>00, <3>3
      <4>2. CASE jobs[j] = NoJob
        BY <3>2, <4>2 DEF IsAt, Fired
      <4>3. CASE jobs[j] # NoJob
        <5>1. jobs[j] \in Job /\ tick[d] \in Nat
          BY <2>0, <4>3
        <5>2. /\ IsAt(Filled(jobs[j], tick[d]))
              /\ Fired(jobs[j]) => /\ Fired(Filled(jobs[j], tick[d]))
                                   /\ ~Collectable(jobs[j], tick[d], FALSE)
          BY <4>1, <5>1, FilledShot
        <5> QED
          BY <3>2, <4>1, <5>2
      <4> QED
        BY <4>2, <4>3
    <3> QED
      BY <2>0, <2>00, <3>1, <3>3 DEF OnceInv, Executing, Critical
  <2>5. ASSUME NEW i \in JobIds, CollectOne(d, i) PROVE OnceInv'
    <3>1. /\ pc[d] = "queue" /\ i \in left[d] /\ left'[d] = left[d] \ {i}
          /\ UNCHANGED <<pc, cur, jobs, snap, oks>>
      BY <2>0, <2>5 DEF CollectOne, history
    <3>2. Once(pending) /\ Once(todo[d]) /\ ~Has(pending, i) /\ ~Has(todo[d], i)
      BY <3>1 DEF ListsInv
    <3>3. CASE pending' = Append(pending, i) /\ todo' = todo
      <4>1. \A j : Has(pending', j) <=> Has(pending, j) \/ j = i
        BY <2>0, <3>2, <3>3, AppendHas
      <4>2. \A j \in JobIds : /\ Has(pending', j) => Has(pending, j) \/ j \in left[d]
                              /\ Has(todo'[d], j) => Has(todo[d], j)
                              /\ j \in left'[d] => j \in left[d]
        BY <3>1, <3>3, <4>1
      <4> QED
        BY <2>0, <3>1, <4>2, OnceKept
    <3>4. CASE pending' = pending /\ todo' = [todo EXCEPT ![d] = Append(@, i)]
      <4>1. todo'[d] = Append(todo[d], i) /\ todo[d] \in Seq(JobIds)
        BY <2>0, <3>4
      <4>2. \A j : Has(todo'[d], j) <=> Has(todo[d], j) \/ j = i
        BY <3>2, <4>1, AppendHas
      <4>3. \A j \in JobIds : /\ Has(pending', j) => Has(pending, j) \/ j \in left[d]
                              /\ Has(todo'[d], j) => Has(todo[d], j) \/ j \in left[d]
                              /\ j \in left'[d] => j \in left[d]
        BY <3>1, <3>4, <4>2
      <4> QED
        BY <2>0, <3>1, <4>3, OnceKept
    <3> QED
      BY <2>5, <3>3, <3>4 DEF CollectOne
  <2>6. CASE CollectEnd(d)
    <3>1. /\ UNCHANGED <<pending, todo, left, oks>> /\ pc[d] = "queue" /\ pc'[d] = "run"
          /\ jobs' \in {snap[d], jobs}
      BY <2>0, <2>6 DEF CollectEnd, history
    <3>2. ASSUME NEW j \in JobIds, OneShot(j)
          PROVE  IsAt(jobs'[j]) /\ (oks[j] = 1 => Fired(jobs'[j]))
      BY <2>00, <3>1, <3>2
    <3> QED
      BY <2>0, <2>00, <3>1, <3>2 DEF OnceInv, Executing, Critical
  <2>7. CASE AcquireLock(d) \/ \E s \in {"ok", "error", "skipped"} : EndTurn(d, s)
    <3>1. /\ UNCHANGED <<pending, todo, left, cur, jobs, snap, oks>>
          /\ pc[d] \in Executing \ {"release"} /\ pc'[d] \in Executing \ {"release"}
      BY <2>0, <2>7 DEF AcquireLock, EndTurn, files, loopVars, history, Executing, Critical
    <3> QED
      BY <2>0, <3>1, OnceKept DEF Executing, Critical
  <2>8. CASE StartTurn(d)
    <3>1. /\ UNCHANGED <<pending, todo, left, cur, snap, oks>> /\ cur[d] \in JobIds
          /\ pc[d] = "mark" /\ pc'[d] = "turn"
          /\ \A j \in JobIds : jobs'[j] = jobs[j] \/ (j = cur[d] /\ jobs[j] # NoJob /\ jobs'[j] = Started(jobs[j]))
      BY <2>0, <2>8 DEF StartTurn, loopVars, history, TypeInv, HasJob, Executing, Critical
    <3>2. ASSUME NEW j \in JobIds, OneShot(j)
          PROVE  IsAt(jobs'[j]) /\ (oks[j] = 1 => Fired(jobs'[j]))
      <4>1. CASE jobs'[j] = jobs[j]
        BY <2>00, <3>2, <4>1
      <4>2. CASE j = cur[d] /\ jobs[j] # NoJob /\ jobs'[j] = Started(jobs[j])
        <5>1. oks[j] # 1
          BY <2>00, <3>1, <3>2, <4>2 DEF Executing, Critical
        <5>2. jobs[j] \in Job
          BY <2>0, <4>2
        <5> QED
          BY <2>00, <3>2, <4>2, <5>1, <5>2, StartedShot DEF IsAt
      <4> QED
        BY <3>1, <4>1, <4>2
    <3> QED
      BY <2>0, <2>00, <3>1, <3>2 DEF OnceInv, Executing, Critical
  <2>9. CASE RecordRun(d)
    <3>1. /\ UNCHANGED <<pending, todo, left, cur, snap>> /\ cur[d] \in JobIds
          /\ pc[d] = "record" /\ pc'[d] = "release"
          /\ result[d].status \in {"ok", "error", "skipped"} /\ result[d].at \in Nat
      BY <2>0, <2>9 DEF RecordRun, TypeInv, TypeOK, LoopOK, Result, HasJob, Executing, Critical
    <3>2. \A j \in JobIds : j # cur[d] => jobs'[j] = jobs[j] /\ oks'[j] = oks[j]
      BY <2>0, <2>9 DEF RecordRun
    <3>3. /\ ~Has(pending, cur[d]) /\ ~Has(todo[d], cur[d]) /\ left[d] = {}
      BY <3>1 DEF ListsInv, AtHand, Executing, Critical
    <3>4. ASSUME OneShot(cur[d])
          PROVE  /\ IsAt(jobs'[cur[d]]) /\ oks'[cur[d]] <= 1
                 /\ oks'[cur[d]] = 1 => Fired(jobs'[cur[d]])
      <4>1. IsAt(jobs[cur[d]]) /\ oks[cur[d]] = 0
        BY <2>00, <3>1, <3>4 DEF Executing, Critical
      <4>2. oks'[cur[d]] = IF result[d].status = "ok" THEN 1 ELSE 0
        BY <2>0, <2>9, <3>1, <4>1 DEF RecordRun, AtLeast
      <4>3. CASE jobs[cur[d]] = NoJob
        <5>1. jobs' = jobs
          BY <2>9, <4>3 DEF RecordRun
        <5> QED
          BY <4>2, <4>3, <5>1 DEF IsAt, Fired
      <4>4. CASE jobs[cur[d]] # NoJob
        <5>1. jobs[cur[d]] \in Job /\ jobs[cur[d]].sched.kind = "at"
          BY <2>0, <3>1, <4>1, <4>4 DEF IsAt
        <5>2. jobs'[cur[d]] = AfterRun(jobs[cur[d]], result[d].status, result[d].at)
          BY <2>0, <2>9, <3>1, <4>4 DEF RecordRun
        <5> QED
          BY <3>1, <4>2, <5>1, <5>2, AfterRunShot
      <4> QED
        BY <4>3, <4>4
    <3>5. ASSUME NEW j \in JobIds, OneShot(j), j # cur[d]
          PROVE  /\ IsAt(jobs'[j]) /\ oks'[j] <= 1
                 /\ oks'[j] = 1 => Fired(jobs'[j]) /\ ~Has(pending, j) /\ ~Has(todo[d], j)
      <4>1. jobs'[j] = jobs[j] /\ oks'[j] = oks[j]
        BY <3>2, <3>5
      <4> QED
        BY <2>00, <3>5, <4>1
    <3> QED
      BY <2>0, <3>1, <3>3, <3>4, <3>5 DEF OnceInv, Executing, Critical
  <2>10. CASE SkipJob(d) \/ ReleaseLock(d)
    <3>1. Return(d, TRUE) /\ UNCHANGED <<pending, todo, left, jobs, snap, oks>>
      BY <2>10 DEF SkipJob, ReleaseLock, history
    <3>2. pc' = [pc EXCEPT ![d] = "run"]
      BY <3>1, ReturnToList
    <3>3. pc'[d] = "run"
      BY <2>0, <3>2
    <3> QED
      BY <2>0, <3>1, <3>3, OnceKept DEF Executing, Critical
  <2>11. CASE FailTurn(d)
    <3>1. /\ UNCHANGED <<pending, left, jobs, snap, oks>> /\ todo'[d] = <<>> /\ pc'[d] = "dead"
      BY <2>0, <2>11 DEF FailTurn, ListsInv, history
    <3>2. pc'[d] \notin Executing /\ pc'[d] # "queue" /\ left'[d] = left[d]
      BY <3>1 DEF Executing, Critical
    <3>3. \A j \in JobIds : (Has(pending', j) => Has(pending, j)) /\ ~Has(todo'[d], j)
      BY <3>1, EmptyHas
    <3> QED
      BY <2>0, <3>1, <3>2, <3>3, OnceKept
  <2>12. CASE Crash(d)
    <3>1. /\ UNCHANGED <<pending, jobs, oks>> /\ todo'[d] = <<>> /\ left'[d] = {} /\ pc'[d] = "down"
      BY <2>0, <2>12 DEF Crash, Forget, files, history
    <3>2. pc'[d] \notin Executing /\ pc'[d] # "queue"
      BY <3>1 DEF Executing, Critical
    <3>3. \A j \in JobIds : /\ Has(pending', j) => Has(pending, j)
                            /\ ~Has(todo'[d], j) /\ j \notin left'[d]
      BY <3>1, EmptyHas
    <3> QED
      BY <2>0, <3>1, <3>2, <3>3, OnceKept
  <2> QED
    BY <1>4, <2>1, <2>2, <2>3, <2>4, <2>5, <2>6, <2>7, <2>8, <2>9, <2>10, <2>11, <2>12, NoCommand
       DEF Loop, Execute
<1> QED
  BY <1>2, <1>3, <1>4 DEF Next

\* With one daemon and no manual runs, a one-shot job ends well at most once, whatever
\* fails, crashes or is edited: the run takes it out of jobs.json or leaves it without a
\* next run, which no edit changes, and no other copy of it was in a list.
THEOREM OneShotOnceCorrect ==
  ASSUME OneDaemon, Requests = {}, OneShotsStay
  PROVE  Spec => []OneShotOnce
<1>1. Init => TypeInv /\ ListsInv /\ OnceInv
  BY TypeInit, ListsInit, OnceInit
<1>2. TypeInv /\ ListsInv /\ OnceInv /\ [Next]_vars => (TypeInv /\ ListsInv /\ OnceInv)'
  BY TypeStep, ListsStep, OnceStep
<1>3. OnceInv => OneShotOnce
  BY DEF OnceInv, OneShotOnce, OneShot
<1> QED
  BY <1>1, <1>2, <1>3, PTL DEF Spec

-----------------------------------------------------------------------------
(***************************************************************************)
(* Never too early.                                                         *)
(***************************************************************************)
Ready(job) == job # NoJob /\ job.next <= now
Waits(d, j) ==
  \/ Has(pending, j) \/ Has(todo[d], j) \/ j \in left[d]
  \/ pc[d] \in {"lock", "mark"} /\ cur[d] = j

\* Until the first edit, what is collected and not started yet is due, on disk and in
\* the copy that is going to be written back.
EarlyInv ==
  \A d \in Daemons :
    /\ tick[d] <= now
    /\ edits = 0 => \A j \in JobIds : Waits(d, j) =>
         Ready(jobs[j]) /\ (pc[d] = "queue" => Ready(snap[d][j]))

LEMMA FilledReady ==
  ASSUME NEW job \in Job, NEW t \in Nat, t <= now, now \in Nat, Collectable(job, t, FALSE)
  PROVE  Ready(job) /\ Ready(Filled(job, t))
<1>1. Filled(job, t).next # NoTime /\ t >= Filled(job, t).next
  BY DEF Collectable, Reached
<1>2. Filled(job, t) \in Job /\ Filled(job, t) # NoJob /\ job # NoJob
  BY FilledType, NoJobAssumption
<1>3. Filled(job, t).next \in Nat /\ job.next \in Nat \cup {NoTime}
  BY <1>1, <1>2 DEF Job
<1>4. Filled(job, t).next <= now
  BY <1>1, <1>3
<1>5. job.next = NoTime \/ Filled(job, t) = job
  BY DEF Filled
<1>6. job.next <= now
  BY <1>3, <1>4, <1>5 DEF NoTime
<1> QED
  BY <1>2, <1>4, <1>6 DEF Ready

LEMMA EarlyInit == Init => EarlyInv
BY EmptyHas DEF Init, EarlyInv, Waits

\* A step that leaves the jobs and brings nothing to the lists.
LEMMA EarlyKept ==
  ASSUME EarlyInv, NEW d \in Daemons, \A e \in Daemons : e = d,
         UNCHANGED <<now, jobs>>, tick'[d] <= now, edits' = 0 => edits = 0,
         pc'[d] = "queue" => pc[d] = "queue" /\ snap' = snap,
         \A j \in JobIds : Waits(d, j)' => Waits(d, j)
  PROVE  EarlyInv'
BY DEF EarlyInv, Ready

LEMMA EarlyStep ==
  ASSUME OneDaemon, Requests = {}, TypeInv, ListsInv, EarlyInv, [Next]_vars
  PROVE  EarlyInv'
<1> USE DEF Goto
<1>0. now \in Nat /\ edits \in Nat /\ jobs \in [JobIds -> Job \cup {NoJob}]
      /\ tick \in [Daemons -> Nat]
  BY DEF TypeInv, TypeOK, LoopOK, CountsOK, FilesOK
<1>1. CASE Server \/ UNCHANGED vars
  <2>1. UNCHANGED <<now, edits, jobs, tick, pending, pc, todo, left, cur, snap>>
    BY <1>1 DEF Server, ServeRun, ChannelClosed, vars, files, loopVars, counters
  <2> QED
    BY <2>1 DEF EarlyInv, Waits, Ready
<1>2. CASE Edits
  <2>1. UNCHANGED <<now, tick>> /\ edits' = edits + 1
    BY <1>2 DEF Edits, RemoveJob, AddJob, UpdateJob, Edit, loopVars
  <2> QED
    BY <1>0, <2>1 DEF EarlyInv
<1>3. CASE Advance
  <2>1. /\ now' = now + 1
        /\ UNCHANGED <<edits, jobs, tick, pending, pc, todo, left, cur, snap>>
    BY <1>3 DEF Advance, files, loopVars, counters
  <2>2. \A job \in Job : job.next \in Int
    BY DEF Job, NoTime
  <2>3. \A job \in Job \cup {NoJob} : Ready(job) => Ready(job)'
    <3>1. ASSUME NEW job \in Job, job.next <= now PROVE job.next <= now'
      BY <1>0, <2>1, <2>2, <3>1
    <3> QED
      BY <3>1 DEF Ready
  <2>4. snap \in [Daemons -> [JobIds -> Job \cup {NoJob}]]
    BY DEF TypeInv, TypeOK, LoopOK
  <2>5. \A d \in Daemons : tick'[d] <= now'
    BY <1>0, <2>1 DEF EarlyInv
  <2>6. ASSUME NEW d \in Daemons, NEW j \in JobIds, edits = 0, Waits(d, j)
        PROVE  Ready(jobs[j])' /\ (pc[d] = "queue" => Ready(snap[d][j])')
    <3>1. Ready(jobs[j]) /\ (pc[d] = "queue" => Ready(snap[d][j]))
      BY <2>6 DEF EarlyInv
    <3>2. jobs[j] \in Job \cup {NoJob} /\ snap[d][j] \in Job \cup {NoJob}
      BY <1>0, <2>4
    <3>3. jobs' = jobs /\ snap' = snap
      BY <2>1
    <3> QED
      BY <2>3, <3>1, <3>2, <3>3 DEF Ready
  <2> QED
    BY <2>1, <2>5, <2>6 DEF EarlyInv, Waits
<1>4. ASSUME NEW d \in Daemons, Loop(d) \/ Crash(d) \/ Restart(d) PROVE EarlyInv'
  <2>0. /\ pc \in [Daemons -> Control] /\ todo \in [Daemons -> Seq(JobIds)]
        /\ cur \in [Daemons -> JobIds \cup {None}] /\ left \in [Daemons -> SUBSET JobIds]
        /\ pending \in Seq(JobIds) /\ snap \in [Daemons -> [JobIds -> Job \cup {NoJob}]]
        /\ tick[d] \in Nat /\ tick[d] <= now
        /\ \A e \in Daemons : e = d
    BY <1>0 DEF OneDaemon, TypeInv, TypeOK, LoopOK, FilesOK, EarlyInv
  <2>00. ASSUME NEW j \in JobIds, Waits(d, j), edits = 0
         PROVE  Ready(jobs[j]) /\ (pc[d] = "queue" => Ready(snap[d][j]))
    BY <2>00 DEF EarlyInv
  <2>1. CASE TickStart(d) \/ CommandsDone(d) \/ Restart(d) \/ ListDone(d)
    <3>1. /\ UNCHANGED <<now, edits, jobs, pending, todo, left, cur, snap>>
          /\ tick'[d] \in {tick[d], now}
          /\ pc'[d] \in {"commands", "pending", "top", "collect"}
      BY <1>0, <2>0, <2>1 DEF TickStart, CommandsDone, Restart, ListDone, files, loopVars,
                              counters
    <3>2. \A j \in JobIds : Waits(d, j)' => Waits(d, j)
      BY <3>1 DEF Waits
    <3>3. tick'[d] <= now
      BY <1>0, <2>0, <3>1
    <3> QED
      BY <2>0, <3>1, <3>2, <3>3, EarlyKept
  <2>2. CASE DrainPending(d)
    <3>1. /\ pending' = <<>> /\ todo'[d] = pending /\ pc'[d] = "run"
          /\ UNCHANGED <<now, edits, jobs, left, cur, snap, tick>>
      BY <2>0, <2>2 DEF DrainPending, counters
    <3>2. \A j \in JobIds : Waits(d, j)' => Waits(d, j)
      BY <3>1, EmptyHas DEF Waits
    <3> QED
      BY <2>0, <3>1, <3>2, EarlyKept
  <2>3. CASE NextJob(d)
    <3>1. /\ todo[d] # <<>> /\ todo'[d] = Tail(todo[d]) /\ cur'[d] = Head(todo[d])
          /\ UNCHANGED <<now, edits, jobs, pending, left, snap, tick>> /\ pc'[d] = "lock"
      BY <2>0, <2>3 DEF NextJob, files, counters
    <3>2. todo[d] \in Seq(JobIds) /\ Once(todo[d])
      BY <2>0 DEF ListsInv
    <3>3. /\ Has(todo[d], cur'[d]) /\ \A j : Has(todo'[d], j) => Has(todo[d], j)
      BY <3>1, <3>2, TailHas
    <3>4. \A j \in JobIds : Waits(d, j)' => Waits(d, j)
      BY <3>1, <3>3 DEF Waits
    <3> QED
      BY <2>0, <3>1, <3>4, EarlyKept
  <2>4. CASE CollectBegin(d)
    <3>1. /\ UNCHANGED <<now, edits, jobs, pending, todo, tick>> /\ pc[d] = "collect"
          /\ pc'[d] = "queue"
      BY <2>0, <2>4 DEF CollectBegin, files, counters
    <3>2. pending = <<>> /\ todo[d] = <<>>
      BY <3>1 DEF ListsInv, Executing, Critical
    <3>3. ASSUME NEW j \in JobIds, Waits(d, j)'
          PROVE  Ready(jobs[j]) /\ Ready(snap'[d][j])
      <4>1. j \in left'[d]
        BY <3>1, <3>2, <3>3, EmptyHas DEF Waits
      <4>2. /\ jobs[j] # NoJob /\ Collectable(jobs[j], tick[d], FALSE)
            /\ snap'[d][j] = Filled(jobs[j], tick[d])
        BY <2>0, <2>4, <4>1 DEF CollectBegin, Present
      <4>3. jobs[j] \in Job
        BY <1>0, <4>2
      <4> QED
        BY <1>0, <2>0, <4>2, <4>3, FilledReady
    <3>4. \A job : Ready(job)' <=> Ready(job)
      BY <3>1 DEF Ready
    <3> QED
      BY <2>0, <3>1, <3>3 DEF EarlyInv, Ready
  <2>5. ASSUME NEW i \in JobIds, CollectOne(d, i) PROVE EarlyInv'
    <3>1. /\ pc[d] = "queue" /\ i \in left[d] /\ left'[d] = left[d] \ {i}
          /\ UNCHANGED <<pc, cur, jobs, snap, now, edits, tick>>
      BY <2>0, <2>5 DEF CollectOne, counters
    <3>2. Once(pending) /\ Once(todo[d]) /\ ~Has(pending, i) /\ ~Has(todo[d], i)
      BY <3>1 DEF ListsInv
    <3>3. \A j : /\ Has(pending', j) => Has(pending, j) \/ j = i
                 /\ Has(todo'[d], j) => Has(todo[d], j) \/ j = i
      <4>1. CASE pending' = Append(pending, i) /\ todo' = todo
        <5>1. \A j : Has(pending', j) <=> Has(pending, j) \/ j = i
          BY <2>0, <3>2, <4>1, AppendHas
        <5> QED
          BY <4>1, <5>1
      <4>2. CASE pending' = pending /\ todo' = [todo EXCEPT ![d] = Append(@, i)]
        <5>1. todo'[d] = Append(todo[d], i) /\ todo[d] \in Seq(JobIds)
          BY <2>0, <4>2
        <5>2. \A j : Has(todo'[d], j) <=> Has(todo[d], j) \/ j = i
          BY <3>2, <5>1, AppendHas
        <5> QED
          BY <4>2, <5>2
      <4> QED
        BY <2>5, <4>1, <4>2 DEF CollectOne
    <3>4. \A j \in JobIds : Waits(d, j)' => Waits(d, j)
      BY <3>1, <3>3 DEF Waits
    <3> QED
      BY <2>0, <3>1, <3>4, EarlyKept
  <2>6. CASE CollectEnd(d)
    <3>1. /\ UNCHANGED <<pending, todo, left, cur, now, edits, tick>> /\ pc[d] = "queue"
          /\ pc'[d] = "run" /\ jobs' \in {snap[d], jobs}
      BY <2>0, <2>6 DEF CollectEnd, counters
    <3>2. ASSUME NEW j \in JobIds, Waits(d, j)', edits = 0 PROVE Ready(jobs'[j])
      <4>1. Waits(d, j)
        BY <3>1, <3>2 DEF Waits
      <4> QED
        BY <2>00, <3>1, <3>2, <4>1
    <3> QED
      BY <2>0, <3>1, <3>2 DEF EarlyInv, Ready
  <2>7. CASE AcquireLock(d) \/ \E s \in {"ok", "error", "skipped"} : EndTurn(d, s)
    <3>1. /\ UNCHANGED <<now, edits, pending, todo, left, cur, jobs, snap, tick>>
          /\ pc'[d] # "queue" /\ (pc'[d] = "mark" => pc[d] = "lock") /\ pc'[d] # "lock"
      BY <2>0, <2>7 DEF AcquireLock, EndTurn, files, loopVars, counters
    <3>2. \A j \in JobIds : Waits(d, j)' => Waits(d, j)
      BY <3>1 DEF Waits
    <3> QED
      BY <2>0, <3>1, <3>2, EarlyKept
  <2>8. CASE StartTurn(d)
    <3>1. /\ UNCHANGED <<now, edits, pending, todo, left, tick>> /\ pc[d] = "mark"
          /\ pc'[d] = "turn"
          /\ \A j \in JobIds : jobs'[j] = jobs[j] \/ (jobs[j] # NoJob /\ jobs'[j] = Started(jobs[j]))
      BY <1>0, <2>0, <2>8 DEF StartTurn, loopVars, counters
    <3>2. ASSUME NEW j \in JobIds, Waits(d, j)', edits = 0 PROVE Ready(jobs'[j])
      <4>1. Waits(d, j)
        BY <3>1, <3>2 DEF Waits
      <4>2. Ready(jobs[j])
        BY <2>00, <3>2, <4>1
      <4>3. CASE jobs[j] # NoJob /\ jobs'[j] = Started(jobs[j])
        <5>1. jobs[j] \in Job
          BY <1>0, <4>3
        <5> QED
          BY <4>2, <4>3, <5>1, StartedShot, NoJobAssumption DEF Ready
      <4> QED
        BY <3>1, <4>2, <4>3
    <3> QED
      BY <2>0, <3>1, <3>2 DEF EarlyInv, Ready
  <2>9. CASE RecordRun(d)
    <3>1. /\ UNCHANGED <<now, edits, pending, todo, left, tick>> /\ pc[d] = "record"
          /\ pc'[d] = "release" /\ cur[d] \in JobIds
          /\ \A j \in JobIds : j # cur[d] => jobs'[j] = jobs[j]
      BY <1>0, <2>0, <2>9 DEF RecordRun, counters, TypeInv, HasJob, Executing, Critical
    <3>2. ~Has(pending, cur[d]) /\ ~Has(todo[d], cur[d]) /\ left[d] = {}
      BY <3>1 DEF ListsInv, AtHand, Executing, Critical
    <3>3. ASSUME NEW j \in JobIds, Waits(d, j)', edits = 0 PROVE Ready(jobs'[j])
      <4>1. Waits(d, j) /\ j # cur[d]
        BY <3>1, <3>2, <3>3 DEF Waits
      <4> QED
        BY <2>00, <3>1, <3>3, <4>1
    <3> QED
      BY <2>0, <3>1, <3>3 DEF EarlyInv, Ready
  <2>10. CASE SkipJob(d) \/ ReleaseLock(d)
    <3>1. Return(d, TRUE) /\ UNCHANGED <<now, edits, pending, todo, left, jobs, snap, tick>>
      BY <2>10 DEF SkipJob, ReleaseLock, counters
    <3>2. pc' = [pc EXCEPT ![d] = "run"]
      BY <3>1, ReturnToList
    <3>3. pc'[d] = "run"
      BY <2>0, <3>2
    <3>4. \A j \in JobIds : Waits(d, j)' => Waits(d, j)
      BY <3>1, <3>3 DEF Waits
    <3> QED
      BY <2>0, <3>1, <3>3, <3>4, EarlyKept
  <2>11. CASE FailTurn(d)
    <3>1. /\ UNCHANGED <<now, edits, pending, left, jobs, snap, tick>> /\ todo'[d] = <<>>
          /\ pc'[d] = "dead"
      BY <2>0, <2>11 DEF FailTurn, ListsInv, counters
    <3>2. \A j \in JobIds : Waits(d, j)' => Waits(d, j)
      BY <3>1, EmptyHas DEF Waits
    <3> QED
      BY <2>0, <3>1, <3>2, EarlyKept
  <2>12. CASE Crash(d)
    <3>1. /\ UNCHANGED <<now, edits, pending, jobs, tick>> /\ todo'[d] = <<>> /\ left'[d] = {}
          /\ pc'[d] = "down"
      BY <2>0, <2>12 DEF Crash, Forget, files
    <3>2. \A j \in JobIds : Waits(d, j)' => Waits(d, j)
      BY <3>1, EmptyHas DEF Waits
    <3> QED
      BY <2>0, <3>1, <3>2, EarlyKept
  <2> QED
    BY <1>4, <2>1, <2>2, <2>3, <2>4, <2>5, <2>6, <2>7, <2>8, <2>9, <2>10, <2>11, <2>12, NoCommand
       DEF Loop, Execute
<1> QED
  BY <1>1, <1>2, <1>3, <1>4 DEF Next

\* With one daemon and no manual runs, until somebody edits a job none is started before
\* its nextRunAtMs: a job is collected when it is due, and is in no list any more when
\* the end of its run moves nextRunAtMs on.
THEOREM NeverEarlyCorrect ==
  ASSUME OneDaemon, Requests = {}
  PROVE  Spec => NeverEarly
<1> DEFINE Timely == \A d \in Daemons : edits = 0 /\ pc[d] = "mark" /\ pc'[d] = "turn" =>
                       jobs[cur[d]] # NoJob /\ jobs[cur[d]].next <= now
<1>1. Init => TypeInv /\ ListsInv /\ EarlyInv
  BY TypeInit, ListsInit, EarlyInit
<1>2. TypeInv /\ ListsInv /\ EarlyInv /\ [Next]_vars => (TypeInv /\ ListsInv /\ EarlyInv)'
  BY TypeStep, ListsStep, EarlyStep
<1>3. TypeInv /\ EarlyInv => Timely
  BY DEF TypeInv, HasJob, Executing, Critical, EarlyInv, Waits, Ready
<1>4. Spec => [][Timely]_vars
  BY <1>1, <1>2, <1>3, PTL DEF Spec
<1> QED
  BY <1>4 DEF NeverEarly

-----------------------------------------------------------------------------
(***************************************************************************)
(* What a manual run is answered.                                           *)
(***************************************************************************)
\* A request that is somewhere was posted by its client, for this job and mode.
Posted(q, call) ==
  q[call.req].st # "idle" /\ q[call.req].job = call.job /\ q[call.req].force = call.force

\* What ran = true says of a post, by what became of the posts so far.
Executed(noted, call) ==
  \/ <<call, "recorded">> \in noted
  \/ /\ <<call, "skipped">> \in noted
     /\ call.job \notin Messages \/ crashes > 0

AnsweredOnce == \A r \in Requests : rq[r].by = "daemon" => rq[r].st = "done"

\* The server waits for one command at a time: it is in the channel, or the loop
\* executes its job.  Without a crash only the daemon at work holds a lock file.
AnswerInv ==
  /\ \A n \in 1..Len(http) : Posted(rq, http[n])
  /\ serving # None => Posted(rq, serving)
  /\ chan = <<>> \/ (serving # None /\ chan = <<serving>>)
  /\ \A d \in Daemons :
       /\ pc[d] \in Executing /\ src[d] = "command" =>
            chan = <<>> /\ serving # None /\ taken = serving /\ serving.job = cur[d]
       /\ pc[d] = "release" /\ src[d] = "command" => <<taken, "recorded">> \in did
       /\ pc[d] \in {"queue", "run"} => src[d] # "command"
  /\ AnsweredOnce
  /\ crashes = 0 => \A j \in locks : \E d \in Daemons : pc[d] \in Critical /\ cur[d] = j
  /\ DaemonRanTruly

LEMMA AnswerInit == Init => AnswerInv
BY DEF Init, AnswerInv, AnsweredOnce, DaemonRanTruly, Executing, Critical

LEMMA HeadTailIn ==
  ASSUME NEW S, NEW s \in Seq(S), s # <<>>
  PROVE  /\ \E n \in 1..Len(s) : s[n] = Head(s)
         /\ \A m \in 1..Len(Tail(s)) : \E n \in 1..Len(s) : Tail(s)[m] = s[n]
<1>1. PICK k \in Nat : Len(s) = k + 1
  OBVIOUS
<1>2. Len(Tail(s)) = k /\ \A n \in 1..k : Tail(s)[n] = s[n + 1]
  BY <1>1
<1>3. Head(s) = s[1] /\ 1 \in 1..Len(s) /\ \A n \in 1..k : n + 1 \in 1..Len(s)
  BY <1>1
<1> QED
  BY <1>2, <1>3

LEMMA AppendIn ==
  ASSUME NEW S, NEW s \in Seq(S), NEW i \in S
  PROVE  \A n \in 1..Len(Append(s, i)) :
           Append(s, i)[n] = i \/ \E m \in 1..Len(s) : Append(s, i)[n] = s[m]
<1>1. Append(s, i)[Len(s) + 1] = i /\ Len(Append(s, i)) = Len(s) + 1
  OBVIOUS
<1>2. \A n \in 1..Len(s) : Append(s, i)[n] = s[n]
  OBVIOUS
<1> QED
  BY <1>1, <1>2

\* An answer says what became of the post it answers, or that nothing ran.
LEMMA AnsweredTruly ==
  ASSUME TypeInv, DaemonRanTruly, AnsweredOnce, NEW call \in Call, NEW ran \in BOOLEAN, Posted(rq, call),
         rq' = Answered(call, ran), crashes' = crashes, did \subseteq did',
         ran => Executed(did', call)
  PROVE  /\ DaemonRanTruly'
         /\ AnsweredOnce'
         /\ \A c \in Call : Posted(rq, c) => Posted(rq', c)
<1>1. /\ call.req \in Requests /\ rq[call.req] \in RequestState
      /\ call = [req |-> call.req, try |-> call.try, job |-> call.job, force |-> call.force]
  BY DEF Call, TypeInv, TypeOK, ManualOK
<1>2. PICK q : q = [rq[call.req] EXCEPT !.st = "done", !.ran = ran, !.by = "daemon"]
  OBVIOUS
<1>3. /\ q.st = "done" /\ q.ran = ran /\ q.job = rq[call.req].job
      /\ q.force = rq[call.req].force /\ q.try = rq[call.req].try
  BY <1>1, <1>2 DEF RequestState
<1>4. \/ rq' = rq
      \/ rq' = [rq EXCEPT ![call.req] = q] /\ rq[call.req].try = call.try
  BY <1>2 DEF Answered
<1>5. rq \in [Requests -> RequestState]
  BY DEF TypeInv, TypeOK, ManualOK
<1>6. \A r \in Requests :
        rq'[r] = rq[r] \/ (r = call.req /\ rq'[r] = q /\ q.try = call.try)
  BY <1>3, <1>4, <1>5
<1>7. AnsweredOnce'
  BY <1>3, <1>6 DEF AnsweredOnce
<1>8. DaemonRanTruly'
  <2>1. SUFFICES ASSUME NEW r \in Requests, rq'[r].by = "daemon", rq'[r].ran
                 PROVE  \/ <<LastPost(r)', "recorded">> \in did'
                        \/ /\ <<LastPost(r)', "skipped">> \in did'
                           /\ rq'[r].job \notin Messages \/ crashes > 0
    BY DEF DaemonRanTruly
  <2>2. CASE rq'[r] = rq[r]
    <3>1. LastPost(r)' = LastPost(r)
      BY <2>2 DEF LastPost
    <3> QED
      BY <2>1, <2>2, <3>1 DEF DaemonRanTruly
  <2>3. CASE r = call.req /\ rq'[r] = q /\ q.try = call.try
    <3>1. q.job = call.job /\ q.force = call.force
      BY <1>3 DEF Posted
    <3>2. LastPost(r)' = call
      BY <1>1, <2>3, <3>1 DEF LastPost
    <3> QED
      BY <1>3, <2>1, <2>3, <3>1, <3>2 DEF Executed
  <2> QED
    BY <1>6, <2>2, <2>3
<1>9. ASSUME NEW c \in Call, Posted(rq, c) PROVE Posted(rq', c)
  <2>1. c.req \in Requests
    BY DEF Call
  <2> QED
    BY <1>3, <1>6, <1>9, <2>1 DEF Posted
<1> QED
  BY <1>7, <1>8, <1>9

\* What a client does to its own request.
LEMMA ClientAnswer ==
  ASSUME TypeInv, AnswerInv, NEW r \in Requests, Client(r)
  PROVE  AnswerInv'
<1>1. /\ rq \in [Requests -> RequestState] /\ http \in Seq(Call) /\ chan \in Seq(Call)
      /\ serving \in Call \cup {None} /\ rq[r] \in RequestState
      /\ \A c \in Call : c.req \in Requests
  BY DEF TypeInv, TypeOK, ManualOK, Call
<1>2. UNCHANGED <<pc, cur, src, locks, serving, chan, taken, crashes, did>>
  BY DEF Client, PostRun, PostRefused, TimeoutRun, FallbackRun, files, loopVars, counters,
         history
<1> DEFINE Mine ==
      /\ \A o \in Requests : o # r => rq'[o] = rq[o]
      /\ rq'[r].st # "idle" /\ rq'[r].by # "daemon"
      /\ rq[r].st # "idle" => rq'[r].job = rq[r].job /\ rq'[r].force = rq[r].force
      /\ \/ http' = http
         \/ \E c \in Call : /\ http' = Append(http, c) /\ c.req = r
                            /\ c.job = rq'[r].job /\ c.force = rq'[r].force
<1>3. Mine
  <2>0. rq[r].st # "done" => rq[r].by # "daemon"
    BY DEF AnswerInv, AnsweredOnce
  <2>1. ASSUME NEW j \in JobIds, NEW force \in BOOLEAN, PostRun(r, j, force)
        PROVE  /\ rq[r].st = "idle"
               /\ rq' = [rq EXCEPT ![r] = [rq[r] EXCEPT !.st = "waiting", !.job = j,
                                                        !.force = force, !.try = 1]]
               /\ http' = Append(http, [req |-> r, try |-> 1, job |-> j, force |-> force])
    BY <2>1 DEF PostRun
  <2>2. ASSUME NEW j \in JobIds, NEW force \in BOOLEAN, PostRun(r, j, force) PROVE Mine
    <3>1. [req |-> r, try |-> 1, job |-> j, force |-> force] \in Call
      BY DEF Call
    <3>2. PICK q : q = [rq[r] EXCEPT !.st = "waiting", !.job = j, !.force = force, !.try = 1]
      OBVIOUS
    <3>3. q.st = "waiting" /\ q.job = j /\ q.force = force /\ q.by = rq[r].by
      BY <1>1, <3>2 DEF RequestState
    <3>4. rq' = [rq EXCEPT ![r] = q] /\ rq[r].st = "idle"
      BY <2>1, <2>2, <3>2
    <3>5. rq'[r] = q /\ \A o \in Requests : o # r => rq'[o] = rq[o]
      BY <1>1, <3>4
    <3> QED
      BY <2>0, <2>1, <2>2, <3>1, <3>3, <3>4, <3>5
  <2>3. ASSUME NEW j \in JobIds, NEW force \in BOOLEAN, PostRefused(r, j, force) PROVE Mine
    <3>1. PICK q : q = [rq[r] EXCEPT !.st = "lost", !.job = j, !.force = force]
      OBVIOUS
    <3>2. q.st = "lost" /\ q.job = j /\ q.by = rq[r].by
      BY <1>1, <3>1 DEF RequestState
    <3>3. rq' = [rq EXCEPT ![r] = q] /\ rq[r].st = "idle" /\ http' = http
      BY <2>3, <3>1 DEF PostRefused
    <3>4. rq'[r] = q /\ \A o \in Requests : o # r => rq'[o] = rq[o]
      BY <1>1, <3>3
    <3> QED
      BY <2>0, <3>2, <3>3, <3>4
  <2>4. CASE TimeoutRun(r)
    <3>1. rq[r].st = "waiting" /\ rq[r].job \in JobIds
      BY <2>4 DEF TimeoutRun, TypeInv, AsksForJob
    <3>2. PICK q : q = [rq[r] EXCEPT !.try = rq[r].try + 1]
      OBVIOUS
    <3>3. PICK p : p = [rq[r] EXCEPT !.st = "lost"]
      OBVIOUS
    <3>4. /\ q.st = "waiting" /\ q.job = rq[r].job /\ q.by = rq[r].by
          /\ p.st = "lost" /\ p.job = rq[r].job /\ p.by = rq[r].by
          /\ q.force = rq[r].force /\ p.force = rq[r].force
      BY <1>1, <3>1, <3>2, <3>3 DEF RequestState
    <3>5. PICK c : c = [req |-> r, try |-> rq[r].try + 1, job |-> rq[r].job, force |-> rq[r].force]
      OBVIOUS
    <3>6. c \in Call /\ c.req = r /\ c.job = rq[r].job /\ c.force = rq[r].force
      BY <1>1, <3>1, <3>5 DEF RequestState, Call
    <3>7. \/ rq' = [rq EXCEPT ![r] = q] /\ http' = Append(http, c)
          \/ rq' = [rq EXCEPT ![r] = p] /\ http' = http
      BY <2>4, <3>2, <3>3, <3>5 DEF TimeoutRun
    <3>8. CASE rq' = [rq EXCEPT ![r] = q] /\ http' = Append(http, c)
      <4>1. rq'[r] = q /\ \A o \in Requests : o # r => rq'[o] = rq[o]
        BY <1>1, <3>8
      <4> QED
        BY <2>0, <3>1, <3>4, <3>6, <3>8, <4>1
    <3>9. CASE rq' = [rq EXCEPT ![r] = p] /\ http' = http
      <4>1. rq'[r] = p /\ \A o \in Requests : o # r => rq'[o] = rq[o]
        BY <1>1, <3>9
      <4> QED
        BY <2>0, <3>1, <3>4, <3>9, <4>1
    <3> QED
      BY <3>7, <3>8, <3>9
  <2>5. CASE FallbackRun(r)
    <3>1. PICK due : rq' = [rq EXCEPT ![r] = [rq[r] EXCEPT !.st = "done", !.ran = due, !.by = "client"]]
      BY <2>5 DEF FallbackRun
    <3>2. PICK q : q = [rq[r] EXCEPT !.st = "done", !.ran = due, !.by = "client"]
      OBVIOUS
    <3>3. q.st = "done" /\ q.job = rq[r].job /\ q.force = rq[r].force /\ q.by = "client"
      BY <1>1, <3>2 DEF RequestState
    <3>4. rq'[r] = q /\ (\A o \in Requests : o # r => rq'[o] = rq[o]) /\ http' = http
      BY <1>1, <2>5, <3>1, <3>2 DEF FallbackRun
    <3> QED
      BY <3>3, <3>4
  <2> QED
    BY <2>2, <2>3, <2>4, <2>5 DEF Client
<1>4. \A c \in Call : Posted(rq, c) => Posted(rq', c)
  BY <1>1, <1>3 DEF Posted
<1>5. \A n \in 1..Len(http') : Posted(rq', http'[n])
  <2>1. CASE http' = http
    BY <1>1, <1>4, <2>1 DEF AnswerInv
  <2>2. ASSUME NEW c \in Call, http' = Append(http, c), c.req = r, c.job = rq'[r].job,
               c.force = rq'[r].force
        PROVE  \A n \in 1..Len(http') : Posted(rq', http'[n])
    <3>1. Posted(rq', c)
      BY <1>3, <2>2 DEF Posted
    <3>2. \A n \in 1..Len(http') : http'[n] = c \/ \E m \in 1..Len(http) : http'[n] = http[m]
      BY <1>1, <2>2, AppendIn
    <3>3. \A m \in 1..Len(http) : Posted(rq', http[m])
      BY <1>1, <1>4 DEF AnswerInv
    <3> QED
      BY <3>1, <3>2, <3>3
  <2> QED
    BY <1>3, <2>1, <2>2
<1>6. DaemonRanTruly'
  <2>1. \A o \in Requests : o # r => LastPost(o)' = LastPost(o)
    BY <1>3 DEF LastPost
  <2> QED
    BY <1>2, <1>3, <2>1 DEF AnswerInv, DaemonRanTruly
<1>7. serving # None => Posted(rq', serving')
  BY <1>1, <1>2, <1>4 DEF AnswerInv
<1>8. AnsweredOnce'
  BY <1>3 DEF AnswerInv, AnsweredOnce
<1> QED
  BY <1>2, <1>5, <1>6, <1>7, <1>8 DEF AnswerInv

LEMMA ServerAnswer ==
  ASSUME OneDaemon, TypeInv, AnswerInv, Server
  PROVE  AnswerInv'
<1>1. /\ rq \in [Requests -> RequestState] /\ http \in Seq(Call) /\ chan \in Seq(Call)
      /\ serving \in Call \cup {None}
  BY DEF TypeInv, TypeOK, ManualOK
<1>2. UNCHANGED <<pc, cur, src, locks, taken, crashes, did>>
  BY DEF Server, ServeRun, ChannelClosed, files, loopVars, counters, history
<1>3. DaemonRanTruly /\ AnsweredOnce /\ \A n \in 1..Len(http) : http[n] \in Call /\ Posted(rq, http[n])
  BY <1>1 DEF AnswerInv
<1>4. CASE ServeRun
  <2>1. http # <<>> /\ serving = None /\ chan = <<>> /\ http' = Tail(http)
    BY <1>4 DEF ServeRun, AnswerInv
  <2>2. /\ Head(http) \in Call /\ \E n \in 1..Len(http) : http[n] = Head(http)
        /\ \A m \in 1..Len(http') : \E n \in 1..Len(http) : http'[m] = http[n]
    BY <1>1, <2>1, HeadTailType, HeadTailIn
  <2>3. Posted(rq, Head(http)) /\ \A m \in 1..Len(http') : http'[m] \in Call /\ Posted(rq, http'[m])
    BY <1>3, <2>2
  <2>4. CASE pc[Served] = "dead"
    <3>1. rq' = Answered(Head(http), FALSE) /\ serving' = serving /\ chan' = chan
      BY <1>4, <2>4 DEF ServeRun
    <3>2. /\ DaemonRanTruly' /\ AnsweredOnce'
          /\ \A c \in Call : Posted(rq, c) => Posted(rq', c)
      BY <1>2, <1>3, <2>2, <2>3, <3>1, AnsweredTruly
    <3>3. \A m \in 1..Len(http') : Posted(rq', http'[m])
      BY <2>3, <3>2
    <3> QED
      BY <1>2, <2>1, <3>1, <3>2, <3>3 DEF AnswerInv
  <2>5. CASE pc[Served] # "dead"
    <3>1. rq' = rq /\ serving' = Head(http) /\ chan' = Append(chan, Head(http))
      BY <1>4, <2>5 DEF ServeRun
    <3>2. chan' = <<Head(http)>>
      BY <2>1, <3>1
    <3>3. \A c : Posted(rq', c) <=> Posted(rq, c)
      BY <3>1 DEF Posted
    <3>4. serving' # None
      BY <2>2, <3>1, CallAssumption
    <3>5. \A d \in Daemons : ~(pc[d] \in Executing /\ src[d] = "command")
      BY <2>1 DEF AnswerInv
    <3>6. /\ \A m \in 1..Len(http') : Posted(rq', http'[m])
          /\ Posted(rq', serving')
      BY <2>3, <3>1, <3>3 DEF Posted
    <3> QED
      BY <1>2, <1>3, <3>1, <3>2, <3>4, <3>5, <3>6 DEF AnswerInv, DaemonRanTruly, AnsweredOnce, LastPost
  <2> QED
    BY <2>4, <2>5
<1>5. CASE ChannelClosed
  <2>1. /\ serving \in Call /\ serving' = None /\ chan' = <<>> /\ http' = http
        /\ rq' = Answered(serving, FALSE) /\ pc[Served] = "dead" /\ Posted(rq, serving)
    BY <1>1, <1>5 DEF ChannelClosed, AnswerInv
  <2>2. /\ DaemonRanTruly' /\ AnsweredOnce'
        /\ \A c \in Call : Posted(rq, c) => Posted(rq', c)
    BY <1>2, <1>3, <2>1, AnsweredTruly
  <2>3. \A n \in 1..Len(http') : Posted(rq', http'[n])
    BY <1>3, <2>1, <2>2
  <2>4. \A d \in Daemons : ~(pc[d] \in Executing /\ src[d] = "command")
    BY <2>1 DEF OneDaemon, AnswerInv, Executing, Critical
  <2> QED
    BY <1>2, <2>1, <2>2, <2>3, <2>4 DEF AnswerInv
<1> QED
  BY <1>4, <1>5 DEF Server

\* A step of the loop that answers nobody.
LEMMA LoopAnswer ==
  ASSUME OneDaemon, TypeInv, AnswerInv, NEW d \in Daemons,
         UNCHANGED <<http, serving, rq, crashes>>, chan' \in {chan, <<>>},
         did \subseteq did',
         pc'[d] \in Executing /\ src'[d] = "command" =>
           chan' = <<>> /\ serving # None /\ taken' = serving /\ serving.job = cur'[d],
         pc'[d] = "release" /\ src'[d] = "command" => <<taken', "recorded">> \in did',
         pc'[d] \in {"queue", "run"} => src'[d] # "command",
         crashes = 0 => \A j \in locks' : pc'[d] \in Critical /\ cur'[d] = j
  PROVE  AnswerInv'
<1>1. \A e \in Daemons : e = d
  BY DEF OneDaemon
<1>2. DaemonRanTruly' /\ AnsweredOnce'
  <2>1. \A r \in Requests : LastPost(r)' = LastPost(r)
    BY DEF LastPost
  <2> QED
    BY <2>1 DEF AnswerInv, DaemonRanTruly, AnsweredOnce
<1> QED
  BY <1>1, <1>2 DEF AnswerInv, Posted

\* A step of the loop that answers the request the server waits for.
LEMMA LoopReplies ==
  ASSUME OneDaemon, TypeInv, AnswerInv, NEW d \in Daemons, NEW ran \in BOOLEAN,
         UNCHANGED <<http, crashes>>, did \subseteq did', chan' = <<>>,
         pc'[d] \notin Executing \cup {"queue", "run"},
         serving # None, rq' = Answered(serving, ran), serving' = None,
         ran => Executed(did', serving),
         crashes = 0 => locks' = {}
  PROVE  AnswerInv'
<1>1. /\ \A e \in Daemons : e = d
      /\ serving \in Call /\ Posted(rq, serving) /\ DaemonRanTruly /\ AnsweredOnce
      /\ \A n \in 1..Len(http) : http[n] \in Call /\ Posted(rq, http[n])
  BY DEF OneDaemon, TypeInv, TypeOK, ManualOK, AnswerInv
<1>2. /\ DaemonRanTruly' /\ AnsweredOnce'
      /\ \A c \in Call : Posted(rq, c) => Posted(rq', c)
  BY <1>1, AnsweredTruly
<1>3. \A n \in 1..Len(http') : Posted(rq', http'[n])
  BY <1>1, <1>2
<1> QED
  BY <1>1, <1>2, <1>3 DEF AnswerInv, Executing, Critical

\* execute_job returns: with ran only if the run is on record, or was passed over.
LEMMA ReturnAnswer ==
  ASSUME OneDaemon, TypeInv, AnswerInv, NEW d \in Daemons, NEW ran \in BOOLEAN, Return(d, ran),
         UNCHANGED <<http, chan, src, crashes>>, did \subseteq did', pc[d] \in Executing,
         ran /\ src[d] = "command" => Executed(did', taken),
         crashes = 0 => locks' = {}
  PROVE  AnswerInv'
<1>1. pc \in [Daemons -> Control]
  BY DEF TypeInv, TypeOK, LoopOK
<1>2. CASE src[d] = "command"
  <2>1. chan = <<>> /\ serving # None /\ taken = serving
    BY <1>2 DEF AnswerInv
  <2>2. pc'[d] = "commands" /\ rq' = Answered(serving, ran) /\ serving' = None
    BY <1>1, <1>2, <2>1 DEF Return, Goto
  <2>3. ran => Executed(did', serving)
    BY <1>2, <2>1 DEF Executed
  <2>4. pc'[d] \notin Executing \cup {"queue", "run"}
    BY <2>2 DEF Executing, Critical
  <2> QED
    BY <2>1, <2>2, <2>3, <2>4, LoopReplies
<1>3. CASE src[d] # "command"
  <2>1. pc'[d] = "run" /\ UNCHANGED <<rq, serving>>
    BY <1>1, <1>3 DEF Return, Goto
  <2>2. pc'[d] \notin Executing /\ pc'[d] # "release"
    BY <2>1 DEF Executing, Critical
  <2> QED
    BY <1>3, <2>1, <2>2, LoopAnswer
<1> QED
  BY <1>2, <1>3

LEMMA AnswerStep ==
  ASSUME OneDaemon, TypeInv, LockInv, AnswerInv, [Next]_vars
  PROVE  AnswerInv'
<1> USE DEF Goto
<1>1. CASE Server
  BY <1>1, ServerAnswer
<1>2. ASSUME NEW r \in Requests, Client(r) PROVE AnswerInv'
  BY <1>2, ClientAnswer
<1>3. CASE Advance \/ Edits \/ UNCHANGED vars
  <2>1. UNCHANGED <<http, serving, rq, chan, taken, pc, cur, src, locks, crashes, did>>
    BY <1>3 DEF Advance, Edits, RemoveJob, AddJob, UpdateJob, Edit, vars, files, loopVars,
                manual, counters, history
  <2>2. \A r \in Requests : LastPost(r)' = LastPost(r)
    BY <2>1 DEF LastPost
  <2> QED
    BY <2>1, <2>2 DEF AnswerInv, Posted, DaemonRanTruly, AnsweredOnce
<1>4. ASSUME NEW d \in Daemons, Loop(d) \/ Crash(d) \/ Restart(d) PROVE AnswerInv'
  <2>0. /\ pc \in [Daemons -> Control] /\ src \in [Daemons -> {"command", "pending", "due"}]
        /\ cur \in [Daemons -> JobIds \cup {None}]
        /\ crashes \in Nat /\ locks \subseteq JobIds /\ chan \in Seq(Call)
        /\ serving \in Call \cup {None}
        /\ \A e \in Daemons : e = d
    BY DEF OneDaemon, TypeInv, TypeOK, LoopOK, FilesOK, CountsOK, ManualOK
  <2>1. crashes = 0 => \A j \in locks : pc[d] \in Critical /\ cur[d] = j
    BY <2>0 DEF AnswerInv
  <2>2. pc[d] \in Executing => cur[d] \in JobIds
    BY DEF TypeInv, HasJob
  <2>3. /\ pc[d] = "release" /\ src[d] = "command" => <<taken, "recorded">> \in did
        /\ pc[d] \in Executing /\ src[d] = "command" =>
             chan = <<>> /\ serving # None /\ taken = serving /\ serving.job = cur[d]
    BY DEF AnswerInv
  <2>4. CASE \/ TickStart(d) \/ CommandsDone(d) \/ DrainPending(d) \/ ListDone(d)
             \/ CollectBegin(d) \/ CollectEnd(d) \/ Restart(d)
             \/ \E j \in JobIds : CollectOne(d, j)
    <3>1. /\ UNCHANGED <<http, serving, chan, rq, crashes, did, locks>>
          /\ pc[d] \notin Executing /\ pc'[d] \notin Executing
      BY <2>0, <2>4 DEF TickStart, CommandsDone, DrainPending, ListDone, CollectBegin,
         CollectEnd, Restart, CollectOne, files, manual, counters, history, Executing, Critical
    <3>2. crashes = 0 => locks' = {}
      BY <2>1, <3>1 DEF Executing
    <3>3. pc'[d] # "release"
      BY <3>1 DEF Executing, Critical
    <3>4. /\ pc[d] \in {"queue", "run"} => src[d] # "command"
          /\ pc'[d] \in {"queue", "run"} =>
               (pc[d] \in {"queue", "run"} /\ src' = src) \/ src'[d] \in {"pending", "due"}
      <4>1. CASE TickStart(d) \/ CommandsDone(d) \/ ListDone(d) \/ Restart(d)
        BY ZenonT(30), <2>0, <4>1 DEF TickStart, CommandsDone, ListDone, Restart, loopVars, AnswerInv
      <4>2. CASE DrainPending(d) \/ CollectBegin(d)
        BY ZenonT(30), <2>0, <4>2 DEF DrainPending, CollectBegin, AnswerInv
      <4>3. CASE CollectEnd(d) \/ \E j \in JobIds : CollectOne(d, j)
        BY ZenonT(30), <2>0, <4>3 DEF CollectEnd, CollectOne, AnswerInv
      <4> QED
        BY <2>4, <4>1, <4>2, <4>3
    <3> QED
      BY <3>1, <3>2, <3>3, <3>4, LoopAnswer
  <2>5. CASE NextJob(d)
    <3>1. /\ UNCHANGED <<http, serving, chan, rq, crashes, did, locks, src>>
          /\ pc[d] = "run" /\ pc'[d] = "lock"
      BY <2>0, <2>5 DEF NextJob, files, manual, counters, history
    <3>2. src[d] # "command"
      BY <3>1 DEF AnswerInv
    <3>3. crashes = 0 => locks' = {}
      BY <2>1, <3>1 DEF Critical
    <3> QED
      BY <3>1, <3>2, <3>3, LoopAnswer
  <2>6. CASE TakeCommand(d)
    <3>1. /\ UNCHANGED <<http, crashes, did, locks>> /\ pc[d] = "commands" /\ chan # <<>>
          /\ chan' = Tail(chan)
      BY <2>0, <2>6 DEF TakeCommand, files, counters, history
    <3>2. /\ chan = <<serving>> /\ serving # None /\ serving \in Call /\ Head(chan) = serving
          /\ chan' = <<>>
      BY <2>0, <3>1 DEF AnswerInv
    <3>3. crashes = 0 => locks' = {}
      BY <2>1, <3>1 DEF Critical
    <3>4. \/ /\ cur'[d] = serving.job /\ taken' = serving /\ pc'[d] = "lock" /\ UNCHANGED <<rq, serving>>
          \/ /\ rq' = Answered(serving, FALSE) /\ serving' = None /\ pc'[d] = "commands"
      <4> DEFINE call == Head(chan)
                 due  == jobs[call.job] # NoJob /\ IsDue(jobs[call.job], now, call.force)
      <4>1. IF due THEN /\ cur' = [cur EXCEPT ![d] = call.job]
                        /\ taken' = call /\ pc' = [pc EXCEPT ![d] = "lock"] /\ UNCHANGED <<rq, serving>>
                   ELSE /\ rq' = Answered(call, FALSE) /\ serving' = None /\ pc' = pc
        BY <2>6 DEF TakeCommand
      <4> QED
        BY ZenonT(30), <2>0, <3>1, <3>2, <4>1
    <3>5. CASE cur'[d] = serving.job /\ taken' = serving /\ pc'[d] = "lock" /\ UNCHANGED <<rq, serving>>
      BY <3>1, <3>2, <3>3, <3>5, LoopAnswer
    <3>6. CASE rq' = Answered(serving, FALSE) /\ serving' = None /\ pc'[d] = "commands"
      <4>1. pc'[d] \notin Executing \cup {"queue", "run"}
        BY <3>6 DEF Executing, Critical
      <4> QED
        BY <3>1, <3>2, <3>3, <3>6, <4>1, LoopReplies
    <3> QED
      BY <3>4, <3>5, <3>6
  <2>7. CASE SkipJob(d)
    <3>1. /\ Return(d, TRUE) /\ UNCHANGED <<http, chan, src, crashes, locks>>
          /\ pc[d] = "lock" /\ (cur[d] \notin Messages \/ cur[d] \in locks)
          /\ did' = Noted(d, "skipped")
      BY <2>7 DEF SkipJob, counters
    <3>2. cur[d] \notin Messages \/ crashes > 0
      BY <2>0, <2>1, <3>1 DEF Critical
    <3>3. did \subseteq did' /\ (src[d] = "command" => Executed(did', taken))
      BY <2>3, <3>1, <3>2 DEF Noted, Executed, Executing
    <3>4. crashes = 0 => locks' = {}
      BY <2>1, <3>1 DEF Critical
    <3> QED
      BY <3>1, <3>3, <3>4, ReturnAnswer DEF Executing
  <2>8. CASE AcquireLock(d)
    <3>1. /\ UNCHANGED <<http, serving, chan, taken, rq, crashes, did, cur, src>>
          /\ pc[d] = "lock" /\ pc'[d] = "mark" /\ locks' = locks \cup {cur[d]}
      BY <2>0, <2>8 DEF AcquireLock, loopVars, manual, counters, history
    <3>2. crashes = 0 => \A j \in locks' : j = cur[d]
      BY <2>1, <3>1 DEF Critical
    <3> QED
      BY <2>3, <3>1, <3>2, LoopAnswer DEF Executing, Critical
  <2>9. CASE StartTurn(d) \/ \E s \in {"ok", "error", "skipped"} : EndTurn(d, s)
    <3>1. /\ UNCHANGED <<http, serving, chan, taken, rq, crashes, cur, src, locks, did>>
          /\ pc[d] \in {"mark", "turn"} /\ pc'[d] \in {"turn", "record"}
      BY <2>0, <2>9 DEF StartTurn, EndTurn, files, loopVars, manual, counters, history
    <3>2. pc[d] \in Executing /\ pc[d] \in Critical /\ pc'[d] \in Critical /\ pc'[d] # "release"
      BY <3>1 DEF Executing, Critical
    <3> QED
      BY <2>1, <2>3, <3>1, <3>2, LoopAnswer
  <2>10. CASE RecordRun(d)
    <3>1. /\ UNCHANGED <<http, serving, chan, taken, rq, crashes, cur, src, locks>>
          /\ pc[d] = "record" /\ pc'[d] = "release" /\ did' = Noted(d, "recorded")
      BY <2>0, <2>10 DEF RecordRun, manual, counters
    <3>2. did \subseteq did' /\ (src[d] = "command" => <<taken, "recorded">> \in did')
      BY <3>1 DEF Noted
    <3> QED
      BY <2>1, <2>3, <3>1, <3>2, LoopAnswer DEF Executing, Critical
  <2>11. CASE ReleaseLock(d)
    <3>1. /\ Return(d, TRUE) /\ UNCHANGED <<http, chan, src, crashes, did>>
          /\ pc[d] = "release" /\ locks' = locks \ {cur[d]}
      BY <2>11 DEF ReleaseLock, counters, history
    <3>2. pc[d] \in Executing /\ (src[d] = "command" => Executed(did', taken))
      BY <2>3, <3>1 DEF Executing, Critical, Executed
    <3>3. crashes = 0 => locks' = {}
      BY <2>1, <3>1
    <3> QED
      BY <3>1, <3>2, <3>3, ReturnAnswer
  <2>12. CASE FailTurn(d)
    <3>1. /\ UNCHANGED <<http, chan, src, crashes, did>>
          /\ pc[d] = "turn" /\ locks' = locks \ {cur[d]}
      BY <2>12 DEF FailTurn, counters, history
    <3>2. crashes = 0 => locks' = {}
      BY <2>1, <3>1
    <3>3. CASE src[d] = "command"
      BY <2>12, <3>1, <3>2, <3>3, ReturnAnswer DEF FailTurn, Executing, Critical
    <3>4. CASE src[d] # "command"
      <4>1. pc'[d] = "dead" /\ UNCHANGED <<rq, serving>>
        BY <2>0, <2>12, <3>4 DEF FailTurn
      <4> QED
        BY <3>1, <3>2, <4>1, LoopAnswer DEF Executing, Critical
    <3> QED
      BY <3>3, <3>4
  <2>13. CASE Crash(d)
    <3>1. /\ UNCHANGED <<rq, did>> /\ crashes' = crashes + 1 /\ pc'[d] = "down"
          /\ http' = <<>> /\ serving' = None /\ chan' = <<>>
      BY <2>0, <2>13 DEF Crash, Forget, history
    <3>2. crashes' # 0 /\ AnsweredOnce'
      BY <2>0, <3>1 DEF AnswerInv, AnsweredOnce
    <3>3. DaemonRanTruly'
      <4>1. \A r \in Requests : LastPost(r)' = LastPost(r)
        BY <3>1 DEF LastPost
      <4> QED
        BY <2>0, <3>1, <4>1 DEF AnswerInv, DaemonRanTruly
    <3> QED
      BY <2>0, <3>1, <3>2, <3>3 DEF AnswerInv, Executing, Critical
  <2> QED
    BY <1>4, <2>4, <2>5, <2>6, <2>7, <2>8, <2>9, <2>10, <2>11, <2>12, <2>13 DEF Loop, Execute
<1> QED
  BY <1>1, <1>2, <1>3, <1>4 DEF Next

\* With one daemon, what it answers to a manual run is about that very post: ran = true
\* says that its run is on record, or that the job was passed over for want of a message
\* or, after a crash, for a lock file.  Timed-out and repeated posts, other calls, edits,
\* failing turns and other runs in between change nothing: the server waits for the one
\* command that is in the channel or under execution, and the loop answers that one.
THEOREM DaemonRanTrulyCorrect ==
  ASSUME OneDaemon
  PROVE  Spec => []DaemonRanTruly
<1>1. Init => TypeInv /\ LockInv /\ AnswerInv
  BY TypeInit, LockInit, AnswerInit
<1>2. TypeInv /\ LockInv /\ AnswerInv /\ [Next]_vars => (TypeInv /\ LockInv /\ AnswerInv)'
  BY TypeStep, LockStep, AnswerStep
<1>3. AnswerInv => DaemonRanTruly
  BY DEF AnswerInv
<1> QED
  BY <1>1, <1>2, <1>3, PTL DEF Spec
=============================================================================
