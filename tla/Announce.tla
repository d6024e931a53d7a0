------------------------------- MODULE Announce -------------------------------
(***************************************************************************)
(* Where answers go: a cron job's settings in jobs.json, the last routes of *)
(* the conversations, and what the daemon sends when the job has run, when  *)
(* the heartbeat has something to say and when a message is answered        *)
(* (clawdex/src/daemon.rs, cron.rs, gateway.rs).                            *)
(*                                                                         *)
(* A session is [name, named]: "agent:main:X" is X named.  Messages come in *)
(* without a session or an agent of their own.  Each request is one step    *)
(* here; its steps among those of other processes are in Gateway.           *)
(***************************************************************************)
EXTENDS CronDelivery, Sequences

CONSTANTS
  Canonical,            \* [Texts -> Texts]: the channel an alias means
  ChannelOrder,         \* the configured order of channels
  Ttl,                  \* routeTtlMs, or None
  Contacts,             \* [channel, from] of those who write
  Main,                 \* the name of the main session
  Jobs, Patches,        \* what a user adds, and changes
  Heartbeats,           \* the delivery configured for it: [channel, to]
  MaxTime, MaxEdits, MaxIncoming        \* bounds

VARIABLES
  job,                  \* the job in jobs.json, or None
  told,                 \* history: the plan of the job last answered to a user
  routes,               \* [session -> [channel, to, at]]
  now,
  unread,               \* messages drained and not answered yet
  moved,                \* history: sessions whose route another send changed
  run,                  \* the last run in the log
  reply,                \* the last reply: [target, moved]
  edits, incoming

(* What is added and who writes have texts where texts belong, and no value *)
(* of the program is None.                                                  *)
JobFields == {"target", "kind", "payload", "top", "delivery", "session"}
SettingFields == {"mode", "channel", "to", "best", "deliver", "provider"}
FieldValues(k) == CASE k = "mode"                -> STRING
                    [] k \in {"best", "deliver"} -> BOOLEAN
                    [] OTHER                     -> Texts
IsSettings(m) == /\ m = [k \in DOMAIN m |-> m[k]] /\ DOMAIN m \subseteq SettingFields
                 /\ \A k \in DOMAIN m : m[k] \in FieldValues(k)
SessionNames ==
  (Texts \X Texts) \cup {Main} \cup {j.session.name : j \in {i \in Jobs : i.session # None}}
Sessions == [name : SessionNames, named : BOOLEAN]
IsJob(j) ==
  /\ DOMAIN j = JobFields /\ IsSettings(j.payload) /\ IsSettings(j.top)
  /\ j.delivery # None => IsSettings(j.delivery)
  /\ j.session \in Sessions \cup {None}
ASSUME InputsAssumption ==
  /\ Canonical \in [Texts -> Texts] /\ \A t \in Texts : Canonical[Canonical[t]] = Canonical[t]
  /\ Contacts \subseteq [channel : Texts, from : Texts]
  /\ Heartbeats \subseteq [channel : Texts \cup {None}, to : Texts \cup {None}]
  /\ \A j \in Jobs : IsJob(j)
  /\ \A p \in Patches : /\ IsSettings(p.top)
                        /\ p.payload # None => IsSettings(p.payload)
                        /\ p.delivery \notin {None, Null} => IsSettings(p.delivery)
ASSUME NoneAssumption ==
  /\ None \notin Sessions /\ None \notin [channel : Texts, to : Texts, session : Sessions]
  /\ Texts \cup {"announce", "deliver", "webhook", "none", "main", "isolated"} \subseteq STRING
  /\ None \notin STRING
  /\ \A fields \in SUBSET SettingFields : None \notin [fields -> STRING \cup BOOLEAN]

announceVars == <<job, told, routes, now, unread, moved, run, reply, edits, incoming>>

NoRoutes == [s \in {} |-> None]
NoRun    == [status |-> "none", plan |-> None, target |-> None]

AnnounceInit ==
  /\ job = None /\ told = None /\ routes = NoRoutes /\ now = 0
  /\ unread = {} /\ moved = {} /\ run = NoRun /\ reply = None
  /\ edits = 0 /\ incoming = 0

-----------------------------------------------------------------------------
(* Routes.                                                                  *)

Session(channel, to) == [name |-> <<channel, to>>, named |-> FALSE]
MainSession == [name |-> Main, named |-> TRUE]
Route(target) == [channel |-> target.channel, to |-> target.to, at |-> now]

Fresh(r) == Ttl = None \/ r.at + Ttl >= now
Matches(r, channel, to) == channel \in {None, r.channel} /\ to \in {None, r.to}

Rank(channel) ==
  LET at == {i \in DOMAIN ChannelOrder : ChannelOrder[i] = channel} IN
  IF at = {} THEN Len(ChannelOrder) + 1 ELSE CHOOSE i \in at : \A j \in at : i <= j

(* find_route_by_session_key: the session as it is asked for, or under its  *)
(* other name.                                                              *)
Known(session) ==
  LET other == [session EXCEPT !.named = ~@] IN
  IF session \in DOMAIN routes THEN session
  ELSE IF other \in DOMAIN routes THEN other ELSE None

(* resolve_target: the targets it may answer, each with its session; routes *)
(* that tie are in no order.                                                *)
Channel(c) == IF c = None THEN None
              ELSE IF Canonical[c] \in {Blank, LastRoute} THEN None ELSE Canonical[c]
To(channel, to, session) == [channel |-> channel, to |-> to, session |-> session]
Routed(s) == To(routes[s].channel, routes[s].to, s)
Targets(c, to, session) ==
  LET channel == Channel(c)
      known == IF session = None THEN None ELSE Known(session)
      fits == {s \in DOMAIN routes : Fresh(routes[s]) /\ Matches(routes[s], channel, to)}
      Before(r, q) == \/ channel = None /\ Rank(r.channel) < Rank(q.channel)
                      \/ /\ channel # None \/ Rank(r.channel) = Rank(q.channel)
                         /\ r.at > q.at
  IN IF channel # None /\ to # None THEN {To(channel, to, Session(channel, to))}
     ELSE IF known \in fits THEN {Routed(known)}
     ELSE {Routed(s) : s \in {t \in fits : \A u \in fits : ~Before(routes[u], routes[t])}}

\* Faulty: without a route of the session, the last routes are taken.
SendTargetsAny(session, c, to) ==
  IF Channel(c) # None /\ to # None
    THEN {To(Channel(c), to, Or(session, Session(Channel(c), to)))}
  ELSE Targets(Channel(c), to, session)

(* send_message: by the target given, by the session's route under exactly  *)
(* this name, or by the last routes; {} if there is no route.               *)
SendTargets(session, c, to) ==
  LET channel == Channel(c) IN
  IF channel # None /\ to # None
    THEN {To(channel, to, Or(session, Session(channel, to)))}
  ELSE IF session = None THEN Targets(channel, to, None)
  ELSE IF /\ session \in DOMAIN routes /\ Fresh(routes[session])
          /\ Matches(routes[session], channel, to)
    THEN {Routed(session)} ELSE {}

(* What was sent becomes the last route of its session.                     *)
Sent(t) ==
  /\ routes' = With(routes, t.session, Route(t))
  /\ moved' = IF t.session \in DOMAIN routes /\ ~Matches(routes[t.session], t.channel, t.to)
                THEN moved \cup {t.session} ELSE moved

-----------------------------------------------------------------------------
(* The job's settings.  Each request loads the jobs, which may rewrite them. *)

(* Older fields in a turn's payload or at the top of its job that the answer *)
(* has not merged, or not as a whole, are preferred by the next load to what *)
(* it shows (a patch of the payload is merged without the channel that the   *)
(* payload had before): then nothing is told.                                *)
Telling(j, merged) ==
  IF j.target = None \/ (Turn(j) /\ FromLegacy(j.payload, j.top) \notin {None, merged})
    THEN None ELSE Plan(j)

PatchedLegacy(patch) ==
  IF patch.delivery # None \/ patch.payload = None THEN None
  ELSE FromLegacy(NormalPayload(patch.payload), Empty)

AddJob(raw) ==
  /\ job = None /\ edits < MaxEdits /\ edits' = edits + 1
  /\ Valid(AddedJob(raw))
  /\ job' = AddedJob(raw) /\ told' = Telling(AddedJob(raw), None)
  /\ UNCHANGED <<routes, now, unread, moved, run, reply, incoming>>

UpdateJob(patch) ==
  /\ job # None /\ edits < MaxEdits /\ edits' = edits + 1
  /\ LET updated == Updated(Loaded(job), patch) IN
     IF Valid(updated)
     THEN /\ job' = updated
          /\ told' = Telling(updated, PatchedLegacy(patch))
     ELSE job' = Loaded(job) /\ UNCHANGED told
  /\ UNCHANGED <<routes, now, unread, moved, run, reply, incoming>>

ListJobs ==
  /\ job # None /\ job' = Loaded(job)
  /\ UNCHANGED <<told, routes, now, unread, moved, run, reply, edits, incoming>>

-----------------------------------------------------------------------------
(* A run.                                                                   *)

(* An announcement goes to the plan's target or, if that is not all said,   *)
(* to the one the routes give; a target is chosen among those that tie.     *)
Chosen(plan, session) ==
  LET known == IF plan.channel = LastRoute \/ plan.to = None
                 THEN Targets(plan.channel, plan.to, session) ELSE {}
  IN IF known # {} THEN {[t EXCEPT !.session = Or(session, @)] : t \in known}
     ELSE {To(plan.channel, plan.to, session)}

Ran(status, plan, target) == run' = [status |-> status, plan |-> plan, target |-> target]
Unsent == UNCHANGED <<routes, moved>>

\* Faulty: a message that could not be sent counts as delivered.
AnnouncesAnyway(plan, empty, up) ==
  \E t \in Chosen(plan, job'.session) :
    IF t.to = None \/ empty
      THEN Unsent /\ Ran(IF plan.best THEN "skipped" ELSE "delivery_failed", plan, None)
    ELSE LET to == SendTargets(t.session, t.channel, t.to) IN
      IF to = {} \/ ~up
        THEN Unsent /\ Ran("completed", plan, None)
      ELSE \E target \in to : Sent(target) /\ Ran("completed", plan, target)

(* message.send fails without text, without a route or without the gateway; *)
(* the last two are no error for a best-effort message.                     *)
Announces(plan, empty, up) ==
  \E t \in Chosen(plan, job'.session) :
    IF t.to = None \/ empty
      THEN Unsent /\ Ran(IF plan.best THEN "skipped" ELSE "delivery_failed", plan, None)
    ELSE LET to == SendTargets(t.session, t.channel, t.to) IN
      IF to = {} \/ ~up
        THEN Unsent /\ Ran(IF plan.best THEN "completed" ELSE "delivery_failed", plan, None)
      ELSE \E target \in to : Sent(target) /\ Ran("completed", plan, target)

Posts(plan, empty, up) ==
  /\ Unsent
  /\ IF empty \/ (plan.to # None /\ up)
       THEN Ran("completed", plan, IF empty THEN None ELSE [channel |-> None, to |-> plan.to])
       ELSE Ran(IF plan.best THEN "skipped" ELSE "delivery_failed", plan, None)

RunJob(empty, up) ==
  /\ job # None /\ job' = Loaded(job)
  /\ LET plan == Plan(job') IN
     CASE plan.mode = "none"     -> Unsent /\ Ran("completed", plan, None)
       [] plan.mode = "announce" -> Announces(plan, empty, up)
       [] plan.mode = "webhook"  -> Posts(plan, empty, up)
  /\ UNCHANGED <<told, now, unread, reply, edits, incoming>>

-----------------------------------------------------------------------------
(* Conversations, and the heartbeat.                                        *)

Incoming(c) ==
  /\ incoming < MaxIncoming /\ incoming' = incoming + 1
  /\ LET s == Session(Canonical[c.channel], c.from) IN
     /\ routes' = With(routes, s, Route([channel |-> Canonical[c.channel], to |-> c.from]))
     /\ moved' = moved \ {s} /\ unread' = unread \cup {s}
  /\ UNCHANGED <<job, told, now, run, reply, edits>>

(* handle_incoming_message: the reply, if there is one and a route for it   *)
(* and the gateway takes it.                                                *)
Reply(s) ==
  /\ s \in unread /\ unread' = unread \ {s}
  /\ \/ Unsent /\ UNCHANGED reply
     \/ \E target \in SendTargets(s, None, None) :
          Sent(target) /\ reply' = [target |-> target, moved |-> s \in moved]
  /\ UNCHANGED <<job, told, now, run, edits, incoming>>

(* deliver_heartbeat_response: what is not configured is taken from the     *)
(* last route, whatever its channel.                                        *)
Heartbeat(h) ==
  /\ \E last \in IF h.channel # None /\ h.to # None THEN {h} ELSE Targets(None, None, None) :
       LET to == SendTargets(MainSession, Or(h.channel, last.channel), Or(h.to, last.to)) IN
       \E target \in to : Sent(target)
  /\ UNCHANGED <<job, told, now, unread, run, reply, edits, incoming>>

Tick == now < MaxTime /\ now' = now + 1
        /\ UNCHANGED <<job, told, routes, unread, moved, run, reply, edits, incoming>>

AnnounceNext ==
  \/ \E raw \in Jobs : AddJob(raw)
  \/ \E patch \in Patches : UpdateJob(patch)
  \/ ListJobs
  \/ \E empty, up \in BOOLEAN : RunJob(empty, up)
  \/ \E c \in Contacts : Incoming(c)
  \/ \E s \in unread : Reply(s)
  \/ \E h \in Heartbeats : Heartbeat(h)
  \/ Tick

AnnounceSpec == AnnounceInit /\ [][AnnounceNext]_announceVars

-----------------------------------------------------------------------------
(* What the user was told of a job holds when it runs: loading it again, as *)
(* every request does, changes nothing about where its answer goes.         *)
PlanHolds == told # None => Plan(Loaded(job)) = told

(* An answer that was to be announced, and not just with best effort, is    *)
(* not on record as delivered unless it was sent; and it was sent to the    *)
(* channel and the address that the job names.                              *)
AnnouncedOnRecord ==
  run.plan # None /\ run.plan.mode = "announce" /\ run.status = "completed" =>
    /\ run.target = None => run.plan.best
    /\ run.target # None => Matches(run.target, Channel(run.plan.channel), run.plan.to)

(* A reply goes back to the one who wrote, unless since then an answer of a *)
(* job has been sent elsewhere in the name of the same conversation.        *)
RepliesGoBack ==
  reply # None /\ ~reply.moved =>
    reply.target.session.name = <<reply.target.channel, reply.target.to>>

=============================================================================
