------------------------------ MODULE TaskFollow ------------------------------
(***************************************************************************)
(* tasks follow (clawdex/src/tasks.rs, task_db.rs): a process that prints   *)
(* the events of a task run while others record them.                       *)
(*                                                                         *)
(* It prints the newest events, then asks again and again for those from    *)
(* its last timestamp on, at most Limit at a time, until a poll brings      *)
(* nothing new and the run has ended.  A writer reads the clock before it   *)
(* inserts its event; the thread of the run saves its final status before   *)
(* the last events.                                                         *)
(***************************************************************************)
EXTENDS Naturals, Sequences, FiniteSets

CONSTANTS
  Recorders,            \* processes that record events of the run
  Runner,               \* the one that ends the run
  Limit,                \* events that one query returns at most (200)
  MaxTime,              \* bound: milliseconds
  MaxEvents             \* bound: events

ASSUME RunnerAssumption == Runner \in Recorders
ASSUME LimitAssumption  == Limit \in Nat \ {0}
ASSUME TimesAssumption  == MaxTime \in Nat /\ MaxEvents \in Nat

VARIABLES
  now,                  \* now_ms
  ended,                \* the row of task_runs has a terminal status
  events,               \* the times of the rows, in the order of insertion
  stamp,                \* [Recorders -> 0, or the time of an event to insert]
  follower,             \* its place and its variables
  late                  \* history: rows inserted behind the cursor

followVars == <<now, ended, events, stamp, follower, late>>

-----------------------------------------------------------------------------
(* Events are known by their place in events, which stands for the id.      *)
(* over: run.status at the start; printed: seen_ids; tail, listed: history, *)
(* the rows it began with and how many rows the last query met.             *)
NotFollowing == [at |-> "idle", over |-> FALSE, cursor |-> 0, printed |-> {},
                 emitted |-> 0, tail |-> {}, listed |-> 0]

FollowInit ==
  /\ now = 1 /\ ended = FALSE /\ events = <<>> /\ late = {}
  /\ stamp = [r \in Recorders |-> 0]
  /\ follower = NotFollowing

Tick ==
  /\ now < MaxTime /\ now' = now + 1
  /\ UNCHANGED <<ended, events, stamp, follower, late>>

-----------------------------------------------------------------------------
(* record_event.                                                            *)

TakeTime(r) ==
  /\ stamp[r] = 0 /\ Len(events) < MaxEvents
  /\ stamp' = [stamp EXCEPT ![r] = now]
  /\ UNCHANGED <<now, ended, events, follower, late>>

InsertEvent(r) ==
  /\ stamp[r] # 0 /\ Len(events) < MaxEvents
  /\ events' = Append(events, stamp[r])
  /\ stamp' = [stamp EXCEPT ![r] = 0]
  /\ late' = late \cup {n \in {Len(events')} : stamp[r] < follower.cursor}
  /\ UNCHANGED <<now, ended, follower>>

(* update_run_status with a terminal status.                                *)
EndRun ==
  /\ stamp[Runner] = 0 /\ ~ended
  /\ ended' = TRUE
  /\ UNCHANGED <<now, events, stamp, follower, late>>

-----------------------------------------------------------------------------
(* The queries go along the index of events by run and time; rows of one    *)
(* time come in the order of insertion.  A query returns a set of rows; its *)
(* order matters only for the latest time among them.                       *)

Earlier(i, j) == events[i] < events[j] \/ (events[i] = events[j] /\ i < j)
Least(a, b)   == IF a <= b THEN a ELSE b
Limited(rows) == {page \in SUBSET rows : Cardinality(page) = Least(Limit, Cardinality(rows))}
Oldest(rows)  == {page \in Limited(rows) : \A i \in page, j \in rows \ page : Earlier(i, j)}
Newest(rows)  == {page \in Limited(rows) : \A i \in page, j \in rows \ page : Earlier(j, i)}

\* The cursor after rows were printed.
Latest(rows, t) == {u \in {t} \cup {events[i] : i \in rows} :
                      t <= u /\ \A i \in rows : events[i] <= u}
Follows(f)      == follower' = f /\ UNCHANGED <<now, ended, events, stamp, late>>

FollowStart ==
  /\ follower.at = "idle"
  /\ Follows([follower EXCEPT !.at = "tail", !.over = ended])

(* list_events.                                                             *)
FollowTail ==
  /\ follower.at = "tail"
  /\ \E tail \in Newest(DOMAIN events) : \E last \in Latest(tail, 0) :
       Follows([follower EXCEPT !.at = IF follower.over THEN "done" ELSE "poll",
                  !.printed = tail, !.cursor = last, !.tail = tail,
                  !.listed = Len(events)])

Since(t) == {i \in DOMAIN events : events[i] >= t}
Polled(fresh) ==
  \E last \in Latest(fresh, follower.cursor) :
    Follows([follower EXCEPT !.at = "status", !.printed = @ \cup fresh, !.cursor = last,
               !.emitted = Cardinality(fresh), !.listed = Len(events)])

\* Faulty: only later events are asked for.
PollLater ==
  follower.at = "poll" /\ \E page \in Oldest(Since(follower.cursor + 1)) : Polled(page)

(* list_events_after, with the cursor less one.                             *)
FollowPoll ==
  /\ follower.at = "poll"
  /\ \E page \in Oldest(Since(follower.cursor)) : Polled(page \ follower.printed)

\* Faulty: the run must have ended in a poll that brought something.
StatusLate ==
  /\ follower.at = "status"
  /\ Follows([follower EXCEPT !.at =
                IF follower.emitted # 0 /\ ended THEN "done" ELSE "poll"])

FollowStatus ==
  /\ follower.at = "status"
  /\ Follows([follower EXCEPT !.at =
                IF follower.emitted = 0 /\ ended THEN "done" ELSE "poll"])

-----------------------------------------------------------------------------
Follow == FollowStart \/ FollowTail \/ FollowPoll \/ FollowStatus
FollowNext == Tick \/ EndRun \/ Follow \/ \E r \in Recorders : TakeTime(r) \/ InsertEvent(r)

FollowSpec == FollowInit /\ [][FollowNext]_followVars

-----------------------------------------------------------------------------
(* Properties.                                                              *)

(* When the follower stops, of the events that were there when it last      *)
(* asked it has left out only those before the tail it began with, those    *)
(* inserted late with an earlier time, and those at or after a millisecond  *)
(* with as many events as a query returns.                                  *)
Crowded(t)    == Cardinality({i \in DOMAIN events : events[i] = t}) >= Limit
BeforeTail(i) == follower.tail # {} /\ \A j \in follower.tail : Earlier(i, j)
NothingSkipped ==
  follower.at = "done" =>
    \A i \in 1..follower.listed :
      \/ i \in follower.printed
      \/ BeforeTail(i)
      \/ i \in late
      \/ \E t \in 1..events[i] : Crowded(t)

(* The follower stops once the run has ended.                               *)
FollowerEnds == ended ~> follower.at \in {"idle", "done"}

=============================================================================
