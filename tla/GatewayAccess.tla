---------------------------- MODULE GatewayAccess ----------------------------
(***************************************************************************)
(* The tokens of the gateway's clients and the codes of its devices         *)
(* (clawdex/src/gateway.rs), with a secret configured, so that every route  *)
(* but three asks for a token or the secret.                                *)
(*                                                                         *)
(* One thread answers HTTP requests, one after the other; each WebSocket    *)
(* connection has a thread of its own.  To accept a stored token is a       *)
(* change too: the time of its use is saved, and with it the whole map as   *)
(* it was loaded.  A save truncates the file and then writes it: in between *)
(* the file does not parse, and of two saves that overlap the longer text   *)
(* may stick out from under the shorter.                                    *)
(***************************************************************************)
EXTENDS Naturals, Sequences

CONSTANTS
  Conns,                \* WebSocket connections
  Http,                 \* the thread of the HTTP requests
  Secret,               \* the configured token or password
  Empty, Torn,          \* contents of a file that do not parse
  None,
  CodeLife,             \* DEVICE_CODE_TTL_MS
  MaxTokens, MaxCodes, MaxTime, MaxKills    \* bounds

ASSUME ThreadsAssumption == Http \notin Conns
ASSUME AccessBounds ==
  /\ CodeLife \in Nat /\ MaxTokens \in Nat /\ MaxCodes \in Nat
  /\ MaxTime \in Nat /\ MaxKills \in Nat

(* What a token file holds: for each token whether it was revoked.          *)
Maps == UNION {[S -> {"valid", "revoked"}] : S \in SUBSET (1..MaxTokens)}

ASSUME ContentsAssumption ==
  /\ Secret \notin Nat /\ None \notin Nat
  /\ {Empty, Torn} \cap Maps = {}

VARIABLES
  tokens,               \* auth_tokens.json: [token -> "valid" or "revoked"]
  devices,              \* device_auth.json: [code -> [expires, token]]
  thread,               \* [Threads -> what it does and the copies it loaded]
  now, made, codes, kills,
  acked, gone,          \* history: tokens handed out, tokens reported revoked
  asked, heir,          \*   tokens to revoke, successors of rotated tokens
  disturbed             \*   a save met another save or a kill

files      == <<tokens, devices>>
counters   == <<now, made, codes, kills>>
history    == <<acked, gone, asked, heir>>
accessVars == <<files, thread, counters, history, disturbed>>

Threads == Conns \cup {Http}
Broken  == {Empty, Torn}
Idle    == [todo |-> <<>>, op |-> None, arg |-> None, new |-> 0,
            copy |-> <<>>, book |-> <<>>, fresh |-> TRUE]

AccessInit ==
  /\ tokens = <<>> /\ devices = <<>>
  /\ thread = [t \in Threads |-> Idle]
  /\ now = 0 /\ made = 0 /\ codes = 0 /\ kills = 0
  /\ acked = {} /\ gone = {} /\ asked = {} /\ heir = <<>>
  /\ disturbed = FALSE

-----------------------------------------------------------------------------
IsValid(map, k)   == k \in DOMAIN map /\ map[k] = "valid"
With(map, k, v)   == [x \in DOMAIN map \cup {k} |-> IF x = k THEN v ELSE map[x]]
Without(map, k)   == [x \in DOMAIN map \ {k} |-> map[x]]

At(t, step) == thread[t].todo # <<>> /\ Head(thread[t].todo) = step
Done(r)     == IF Len(r.todo) = 1 THEN Idle ELSE [r EXCEPT !.todo = Tail(@)]

(* What is left to do after the first steps of each operation.              *)
Save        == <<"cut", "put">>
SaveDevices == <<"cutDevices", "putDevices">>
Admission   == <<"cut", "put", "handle">>
Storage     == <<"cut", "put", "reply">>

(* What t does to the token file makes the copies of the others old.        *)
Saves(t) ==
  /\ thread' = [o \in Threads |->
                  IF o = t THEN Done(thread[o])
                  ELSE [thread[o] EXCEPT !.fresh = thread[o].todo = <<>>]]
  /\ disturbed' = (disturbed \/ ~thread[t].fresh)

-----------------------------------------------------------------------------
(* Authorisation: the secret by itself; a stored token is marked as used.   *)

Free == {"start", "poll"}       \* the routes that ask for neither

Ask(op, by, arg) ==
  /\ thread[Http].todo = <<>>
  /\ LET r == [Idle EXCEPT !.op = op, !.arg = arg] IN
     \/ /\ by = Secret \/ op \in Free
        /\ thread' = [thread EXCEPT ![Http] = [r EXCEPT !.todo = <<"handle">>]]
     \/ /\ by # Secret /\ op \notin Free
        /\ tokens \notin Broken /\ IsValid(tokens, by)
        /\ thread' = [thread EXCEPT ![Http] =
                        [r EXCEPT !.todo = Admission, !.copy = tokens]]
  /\ UNCHANGED <<files, counters, history, disturbed>>

(* connect and hello; the rest of a connection is in GatewayPresence.       *)
Connect(c, by) ==
  /\ thread[c].todo = <<>> /\ tokens \notin Broken /\ IsValid(tokens, by)
  /\ thread' = [thread EXCEPT ![c] = [Idle EXCEPT !.op = "connect", !.todo = Save,
                                                  !.copy = tokens]]
  /\ UNCHANGED <<files, counters, history, disturbed>>

-----------------------------------------------------------------------------
(* The two halves of a save.                                                *)

Cut(t) ==
  /\ At(t, "cut")
  /\ tokens' = Empty
  /\ Saves(t)
  /\ UNCHANGED <<devices, counters, history>>

Put(t) ==
  /\ At(t, "put")
  /\ LET copy == thread[t].copy IN
     tokens' \in IF tokens \in {Empty, copy} THEN {copy} ELSE {copy, Torn}
  /\ Saves(t)
  /\ UNCHANGED <<devices, counters, history>>

CutDevices ==
  /\ At(Http, "cutDevices")
  /\ devices' = Empty
  /\ thread' = [thread EXCEPT ![Http] = Done(@)]
  /\ UNCHANGED <<tokens, counters, history, disturbed>>

PutDevices ==
  /\ At(Http, "putDevices")
  /\ devices' = thread[Http].book
  /\ thread' = [thread EXCEPT ![Http] = Done(@)]
  /\ UNCHANGED <<tokens, counters, history, disturbed>>

-----------------------------------------------------------------------------
(* The handlers.  Each loads what it needs again, and fails if that does    *)
(* not parse; a code that has expired is removed.                           *)

Handles(r) ==
  thread' = [thread EXCEPT ![Http] = IF r.todo = <<>> THEN Idle ELSE r]

Created(r) ==
  [r EXCEPT !.copy = With(tokens, made + 1, "valid"), !.new = made + 1, !.fresh = TRUE]

Create ==
  /\ At(Http, "handle") /\ thread[Http].op = "create"
  /\ tokens \notin Broken /\ made < MaxTokens
  /\ Handles([Created(thread[Http]) EXCEPT !.todo = Storage])
  /\ made' = made + 1
  /\ UNCHANGED <<files, now, codes, kills, history, disturbed>>

\* Faulty: the map is saved before the token in it is revoked.
RevokeUnsaved ==
  /\ At(Http, "handle") /\ thread[Http].op = "revoke" /\ tokens \notin Broken
  /\ LET r == thread[Http] IN
     /\ Handles([r EXCEPT
          !.copy = tokens, !.fresh = TRUE,
          !.todo = IF r.arg \in DOMAIN tokens THEN Storage ELSE <<>>])
     /\ asked' = asked \cup {r.arg}
  /\ UNCHANGED <<files, counters, acked, gone, heir, disturbed>>

Revoke ==
  /\ At(Http, "handle") /\ thread[Http].op = "revoke" /\ tokens \notin Broken
  /\ LET r == thread[Http] IN
     /\ Handles(IF r.arg \notin DOMAIN tokens THEN Idle
                ELSE [r EXCEPT !.copy = With(tokens, r.arg, "revoked"),
                               !.fresh = TRUE, !.todo = Storage])
     /\ asked' = asked \cup {r.arg}
  /\ UNCHANGED <<files, counters, acked, gone, heir, disturbed>>

(* The new token is saved, and then the same map with the old one revoked;  *)
(* the caller's token, if it is not the secret, is the old one.             *)
Rotation == <<"cut", "put", "retire", "cut", "put", "reply">>

\* Faulty: the old token is revoked before the new one is there.
RotateBackward ==
  /\ At(Http, "handle") /\ thread[Http].op = "rotate"
  /\ tokens \notin Broken /\ made < MaxTokens
  /\ LET r == thread[Http] IN
     /\ Handles([Created(r) EXCEPT !.copy = IF r.arg \in DOMAIN tokens
                                             THEN With(tokens, r.arg, "revoked") ELSE tokens,
                                   !.todo = Rotation])
     /\ heir' = With(heir, r.arg, made + 1)
  /\ made' = made + 1
  /\ UNCHANGED <<files, now, codes, kills, acked, gone, asked, disturbed>>

Rotate ==
  /\ At(Http, "handle") /\ thread[Http].op = "rotate"
  /\ tokens \notin Broken /\ made < MaxTokens
  /\ LET r == thread[Http] IN
     /\ Handles([Created(r) EXCEPT !.todo = IF r.arg \in DOMAIN tokens THEN Rotation
                                            ELSE Storage])
     /\ heir' = With(heir, r.arg, made + 1)
  /\ made' = made + 1
  /\ UNCHANGED <<files, now, codes, kills, acked, gone, asked, disturbed>>

Retire ==
  /\ At(Http, "retire")
  /\ LET r == thread[Http] IN
     thread' = [thread EXCEPT ![Http] =
                  Done([r EXCEPT !.copy = With(@, r.arg, "revoked")])]
  /\ UNCHANGED <<files, counters, history, disturbed>>

StartDevice ==
  /\ At(Http, "handle") /\ thread[Http].op = "start"
  /\ devices \notin Broken /\ codes < MaxCodes
  /\ Handles([thread[Http] EXCEPT
       !.book = With(devices, codes + 1, [expires |-> now + CodeLife, token |-> None]),
       !.todo = SaveDevices])
  /\ codes' = codes + 1
  /\ UNCHANGED <<files, now, made, kills, history, disturbed>>

Expired(code) == now > devices[code].expires
Drops(r)      == [r EXCEPT !.book = Without(devices, r.arg), !.todo = SaveDevices]

(* The token of an approved code is in the answer to every poll.            *)
PollDevice ==
  /\ At(Http, "handle") /\ thread[Http].op = "poll" /\ devices \notin Broken
  /\ LET r == thread[Http] IN
     /\ Handles(IF r.arg \in DOMAIN devices /\ Expired(r.arg) THEN Drops(r) ELSE Idle)
     /\ acked' = IF r.arg \in DOMAIN devices /\ ~Expired(r.arg)
                 THEN acked \cup ({devices[r.arg].token} \ {None}) ELSE acked
  /\ UNCHANGED <<files, counters, gone, asked, heir, disturbed>>

Granted(r) == [r EXCEPT !.book = With(devices, r.arg, [devices[r.arg] EXCEPT !.token = r.new])]

(* The token is saved before the code that leads to it.                     *)
Approval == <<"cut", "put", "cutDevices", "putDevices", "reply">>

\* Faulty: the code is saved before the token.
ApproveBackward ==
  /\ At(Http, "handle") /\ thread[Http].op = "approve"
  /\ tokens \notin Broken /\ devices \notin Broken /\ made < MaxTokens
  /\ LET r == thread[Http] IN
     /\ r.arg \in DOMAIN devices
     /\ IF Expired(r.arg) THEN Handles(Drops(r)) /\ UNCHANGED made
        ELSE /\ Handles([Granted(Created(r)) EXCEPT !.todo = SaveDevices \o Storage])
             /\ made' = made + 1
  /\ UNCHANGED <<files, now, codes, kills, history, disturbed>>

ApproveDevice ==
  /\ At(Http, "handle") /\ thread[Http].op = "approve"
  /\ tokens \notin Broken /\ devices \notin Broken /\ made < MaxTokens
  /\ LET r == thread[Http] IN
     /\ r.arg \in DOMAIN devices
     /\ IF Expired(r.arg) THEN Handles(Drops(r)) /\ UNCHANGED made
        ELSE Handles([Granted(Created(r)) EXCEPT !.todo = Approval]) /\ made' = made + 1
  /\ UNCHANGED <<files, now, codes, kills, history, disturbed>>

(* A file does not parse, the code is unknown, or (bound) no name is left.  *)
Fail ==
  /\ At(Http, "handle")
  /\ LET op == thread[Http].op IN
     \/ op \notin Free /\ tokens \in Broken
     \/ op \in Free \cup {"approve"} /\ devices \in Broken
     \/ op = "approve" /\ devices \notin Broken /\ thread[Http].arg \notin DOMAIN devices
     \/ op \in {"create", "rotate", "approve"} /\ made = MaxTokens
     \/ op = "start" /\ codes = MaxCodes
  /\ thread' = [thread EXCEPT ![Http] = Idle]
  /\ UNCHANGED <<files, counters, history, disturbed>>

Reply ==
  /\ At(Http, "reply")
  /\ LET r == thread[Http] IN
     /\ acked' = IF r.new = 0 THEN acked ELSE acked \cup {r.new}
     /\ gone' = IF r.op = "revoke" THEN gone \cup {r.arg} ELSE gone
  /\ thread' = [thread EXCEPT ![Http] = Idle]
  /\ UNCHANGED <<files, counters, asked, heir, disturbed>>

-----------------------------------------------------------------------------
Tick ==
  /\ now < MaxTime /\ now' = now + 1
  /\ UNCHANGED <<files, thread, made, codes, kills, history, disturbed>>

(* The process is killed; a file between the two halves of a save stays cut.*)
Kill ==
  /\ kills < MaxKills /\ kills' = kills + 1
  /\ thread' = [t \in Threads |-> Idle]
  /\ disturbed' = (disturbed \/ \E t \in Threads : At(t, "put") \/ At(t, "putDevices"))
  /\ UNCHANGED <<files, now, made, codes, history>>

Known == 1..made
Operations ==
  \/ \E by \in {Secret} \cup Known :
       \/ Ask("create", by, None) \/ Ask("rotate", by, by)
       \/ \E k \in Known : Ask("revoke", by, k)
       \/ \E code \in 1..codes : Ask("approve", by, code)
  \/ Ask("start", None, None)
  \/ \E code \in 1..codes : Ask("poll", None, code)

AccessNext ==
  \/ Operations
  \/ \E c \in Conns, by \in Known : Connect(c, by)
  \/ \E t \in Threads : Cut(t) \/ Put(t)
  \/ CutDevices \/ PutDevices
  \/ Create \/ Revoke \/ Rotate \/ Retire
  \/ StartDevice \/ PollDevice \/ ApproveDevice \/ Fail \/ Reply
  \/ Tick \/ Kill

AccessSpec == AccessInit /\ [][AccessNext]_accessVars

-----------------------------------------------------------------------------
Readable(f) == f \notin Broken

(* A device code that leads to a token leads to one the gateway knows,      *)
(* wherever the process was killed between the two saves of an approval;    *)
(* and what was answered stays true: a token handed out is stored, one      *)
(* reported as revoked is not accepted.  As long, that is, as no save of    *)
(* the token file met another save of it, or a kill.                        *)
AnswersStayTrue ==
  ~disturbed /\ Readable(tokens) =>
    /\ acked \subseteq DOMAIN tokens
    /\ \A k \in gone : ~IsValid(tokens, k)
    /\ Readable(devices) => \A code \in DOMAIN devices :
         devices[code].token \in DOMAIN tokens \cup {None}

(* A rotation never leaves its client without a token: one that was revoked *)
(* without a request to revoke it has a successor in the file, wherever the *)
(* process was killed between the two saves.                                *)
RotationLeavesOne ==
  ~disturbed /\ Readable(tokens) =>
    \A k \in DOMAIN tokens :
      tokens[k] = "revoked" /\ k \notin asked =>
        k \in DOMAIN heir /\ heir[k] \in DOMAIN tokens
=============================================================================
