--------------------------- MODULE GatewayPresence ---------------------------
(***************************************************************************)
(* Which clients the gateway shows as present (clawdex/src/gateway.rs).     *)
(*                                                                         *)
(* Every WebSocket connection has a thread; the table of clients is shared, *)
(* under a mutex.  A client is known by its device or instance, so that two *)
(* connections may stand for one, or by its connection when it names none.  *)
(* Entries that were quiet for too long are dropped when a snapshot is made,*)
(* which happens in the answer to a connect.  Whether a connect is accepted *)
(* is decided in GatewayAccess.                                             *)
(***************************************************************************)
EXTENDS Naturals

CONSTANTS
  Clients,              \* connections
  Keys,                 \* device and instance ids
  Self,                 \* the gateway's own key, its host name
  Nobody,               \* no presence key
  Life,                 \* TTL_MS
  MaxClock              \* bound: time

ASSUME PresenceAssumption ==
  /\ Self \notin Clients /\ Nobody \notin Keys \cup Clients \cup {Self}
  /\ Keys \cap Clients = {}
  /\ Life \in Nat /\ MaxClock \in Nat

VARIABLES
  entries,              \* [key -> [ts, reason]]
  socket,               \* [Clients -> [open, key, asked, quiet]]
  clock,
  moved                 \* history: keys a connection has given up for another

presenceVars == <<entries, socket, clock, moved>>

(* asked and quiet are history: when it last showed a sign of life, and     *)
(* whether it was ever silent for longer than Life.                         *)
Closed == [open |-> FALSE, key |-> Nobody, asked |-> 0, quiet |-> FALSE]

PresenceInit ==
  /\ entries = [k \in {Self} |-> [ts |-> 0, reason |-> "self"]]
  /\ socket = [c \in Clients |-> Closed]
  /\ clock = 0 /\ moved = {}

-----------------------------------------------------------------------------
(* PresenceState.                                                           *)

Upserted(e, k) ==
  [x \in DOMAIN e \cup {k} |-> IF x = k THEN [ts |-> clock, reason |-> "connect"] ELSE e[x]]

\* Faulty: the time of the entry stays that of its connect.
TouchedNot(e, k) == e

Touched(e, k) == [x \in DOMAIN e |-> IF x = k THEN [e[x] EXCEPT !.ts = clock] ELSE e[x]]

Disconnected(e, k) ==
  [x \in DOMAIN e |-> IF x = k THEN [ts |-> clock, reason |-> "disconnect"] ELSE e[x]]

(* snapshot: the gateway itself is alive, and what is older than Life goes. *)
Snapshot(e) ==
  LET kept == {k \in DOMAIN e : k = Self \/ clock - e[k].ts <= Life} IN
  [k \in kept |-> IF k = Self THEN [e[k] EXCEPT !.ts = clock] ELSE e[k]]

-----------------------------------------------------------------------------
(* Connections.                                                             *)

Accept(c) ==
  /\ ~socket[c].open
  /\ socket' = [socket EXCEPT ![c] = [Closed EXCEPT !.open = TRUE, !.asked = clock]]
  /\ UNCHANGED <<entries, clock, moved>>

(* connect or hello: from then on the connection stands for the key, if its *)
(* frame describes a client; if not, it does not even count as a sign of    *)
(* life.  The answer holds a snapshot.                                      *)
Hello(c) ==
  /\ socket[c].open
  /\ \E key \in Keys \cup {Self, c, Nobody} :
       IF key = Nobody
         THEN entries' = Snapshot(entries) /\ UNCHANGED <<socket, moved>>
         ELSE /\ socket' = [socket EXCEPT ![c] =
                              [Closed EXCEPT !.open = TRUE, !.key = key, !.asked = clock]]
              /\ entries' = Snapshot(Upserted(entries, key))
              /\ moved' = moved \cup ({socket[c].key} \ {Nobody, key})
  /\ UNCHANGED clock

(* Any other request, authorised or not; one whose frame is refused without *)
(* a key leaves no trace.                                                   *)
Request(c) ==
  /\ socket[c].open /\ socket[c].key # Nobody
  /\ entries' = Touched(entries, socket[c].key)
  /\ socket' = [socket EXCEPT ![c].asked = clock]
  /\ UNCHANGED <<clock, moved>>

(* The client closes the connection or it breaks.                           *)
Close(c) ==
  /\ socket[c].open
  /\ socket' = [socket EXCEPT ![c] = Closed]
  /\ entries' = IF socket[c].key = Nobody THEN entries
                ELSE Disconnected(entries, socket[c].key)
  /\ UNCHANGED <<clock, moved>>

Pass ==
  /\ clock < MaxClock /\ clock' = clock + 1
  /\ socket' = [c \in Clients |->
       [socket[c] EXCEPT !.quiet = socket[c].open
          /\ (@ \/ (clock' - socket[c].asked > Life))]]
  /\ UNCHANGED <<entries, moved>>

PresenceNext ==
  \/ \E c \in Clients : Accept(c) \/ Hello(c) \/ Request(c) \/ Close(c)
  \/ Pass

PresenceSpec == PresenceInit /\ [][PresenceNext]_presenceVars

-----------------------------------------------------------------------------
(* A client is not forgotten while it is active: an open connection that    *)
(* was never silent for longer than Life stands in the table (prune and     *)
(* touch), however the snapshots fall between its requests.                 *)
ActiveIsListed ==
  \A c \in Clients :
    socket[c].open /\ socket[c].key # Nobody /\ ~socket[c].quiet =>
      socket[c].key \in DOMAIN entries

=============================================================================
