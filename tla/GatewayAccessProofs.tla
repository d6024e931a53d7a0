-------------------------- MODULE GatewayAccessProofs --------------------------
(***************************************************************************)
(* Theorems about the clients of the gateway: who is listed as present, and *)
(* what the answers about tokens are worth, for any number of them.         *)
(***************************************************************************)
EXTENDS GatewayAccess, GatewayPresence, Integers, TLAPS

-----------------------------------------------------------------------------
(* Presence.                                                                *)

PresenceKeys == Keys \cup Clients \cup {Self}
PresenceTypeOK ==
  /\ clock \in Nat
  /\ DOMAIN entries \subseteq PresenceKeys
  /\ entries \in [DOMAIN entries -> [ts : Nat, reason : {"self", "connect", "disconnect"}]]
  /\ socket \in [Clients -> [open : BOOLEAN, key : PresenceKeys \cup {Nobody},
                             asked : Nat, quiet : BOOLEAN]]
  /\ \A c \in Clients : socket[c].asked <= clock

\* An active connection's key is listed with a time that is not before its last
\* sign of life, which is no longer ago than Life: no prune drops it.
ActiveIsRecent ==
  \A c \in Clients :
    socket[c].open /\ socket[c].key # Nobody /\ ~socket[c].quiet =>
      /\ socket[c].key \in DOMAIN entries
      /\ socket[c].asked <= entries[socket[c].key].ts
      /\ clock - socket[c].asked <= Life
PresenceInv == PresenceTypeOK /\ ActiveIsRecent

\* What Snapshot keeps of a table of entries: the recent ones.
LEMMA SnapshotKeeps ==
  ASSUME clock \in Nat,
         NEW e, e \in [DOMAIN e -> [ts : Nat, reason : {"self", "connect", "disconnect"}]]
  PROVE  /\ DOMAIN Snapshot(e) \subseteq DOMAIN e
         /\ Snapshot(e) \in [DOMAIN Snapshot(e) ->
                               [ts : Nat, reason : {"self", "connect", "disconnect"}]]
         /\ \A k \in DOMAIN e : clock - e[k].ts <= Life => k \in DOMAIN Snapshot(e)
         /\ \A k \in DOMAIN Snapshot(e) : Snapshot(e)[k].ts \in {e[k].ts, clock}
<1> DEFINE kept == {k \in DOMAIN e : k = Self \/ clock - e[k].ts <= Life}
<1>1. Snapshot(e) = [k \in kept |-> IF k = Self THEN [e[k] EXCEPT !.ts = clock] ELSE e[k]]
  BY DEF Snapshot
<1>2. \A k \in kept : [e[k] EXCEPT !.ts = clock] \in
        [ts : Nat, reason : {"self", "connect", "disconnect"}]
  OBVIOUS
<1> QED
  BY <1>1, <1>2

\* An entry at the present time, in place of another or beside the others.
LEMMA EntryNow ==
  ASSUME clock \in Nat,
         NEW e, e \in [DOMAIN e -> [ts : Nat, reason : {"self", "connect", "disconnect"}]],
         NEW k, NEW f \in {Upserted(e, k), Touched(e, k), Disconnected(e, k)}
  PROVE  /\ f \in [DOMAIN f -> [ts : Nat, reason : {"self", "connect", "disconnect"}]]
         /\ DOMAIN f \subseteq DOMAIN e \cup {k}
         /\ \A x \in DOMAIN e : x \in DOMAIN f /\ f[x].ts \in {e[x].ts, clock}
         /\ f = Upserted(e, k) => k \in DOMAIN f
         /\ k \in DOMAIN f => f[k].ts = clock
<1>1. \A x \in DOMAIN e : /\ [e[x] EXCEPT !.ts = clock] \in
                             [ts : Nat, reason : {"self", "connect", "disconnect"}]
                         /\ [e[x] EXCEPT !.ts = clock].ts = clock
  OBVIOUS
<1>2. CASE f = Upserted(e, k)
  BY <1>2 DEF Upserted
<1>3. CASE f = Touched(e, k)
  <2>1. k \in DOMAIN e \/ Touched(e, k) # Upserted(e, k)
    BY DEF Touched, Upserted
  <2> QED
    BY <1>1, <1>3, <2>1 DEF Touched
<1>4. CASE f = Disconnected(e, k)
  <2>1. k \in DOMAIN e \/ Disconnected(e, k) # Upserted(e, k)
    BY DEF Disconnected, Upserted
  <2> QED
    BY <1>4, <2>1 DEF Disconnected
<1> QED
  BY <1>2, <1>3, <1>4

\* A table in which what is recent stays, with its time or the present one.
Keeps(e, f) ==
  /\ DOMAIN f \subseteq PresenceKeys
  /\ f \in [DOMAIN f -> [ts : Nat, reason : {"self", "connect", "disconnect"}]]
  /\ \A k \in DOMAIN e :
       clock - e[k].ts <= Life => k \in DOMAIN f /\ f[k].ts \in {e[k].ts, clock}

LEMMA TablesKeep ==
  ASSUME PresenceTypeOK, NEW k \in PresenceKeys
  PROVE  /\ Keeps(entries, Snapshot(entries))
         /\ Keeps(entries, Snapshot(Upserted(entries, k)))
         /\ k \in DOMAIN Snapshot(Upserted(entries, k))
         /\ Snapshot(Upserted(entries, k))[k].ts = clock
         /\ Keeps(entries, Disconnected(entries, k))
         /\ Keeps(entries, Touched(entries, k))
         /\ k \in DOMAIN entries => Touched(entries, k)[k].ts = clock
<1> DEFINE up == Upserted(entries, k)
<1> USE DEF PresenceTypeOK
<1>1. up \in [DOMAIN up -> [ts : Nat, reason : {"self", "connect", "disconnect"}]]
  BY EntryNow
<1>2. /\ k \in DOMAIN up /\ up[k].ts = clock
      /\ \A x \in DOMAIN entries : x \in DOMAIN up /\ up[x].ts \in {entries[x].ts, clock}
  BY EntryNow
<1>3. clock - clock <= Life
  BY PresenceAssumption
<1>4. Keeps(entries, Snapshot(entries))
  BY SnapshotKeeps DEF Keeps
<1>5. Keeps(up, Snapshot(up))
  <2>1. DOMAIN up \subseteq PresenceKeys
    BY EntryNow
  <2> QED
    BY <1>1, <2>1, SnapshotKeeps DEF Keeps
<1>6. Keeps(entries, Snapshot(up))
  BY <1>2, <1>3, <1>5 DEF Keeps
<1>7. k \in DOMAIN Snapshot(up) /\ Snapshot(up)[k].ts = clock
  BY <1>2, <1>3, <1>5 DEF Keeps
<1>8. /\ Keeps(entries, Disconnected(entries, k)) /\ Keeps(entries, Touched(entries, k))
      /\ k \in DOMAIN entries => Touched(entries, k)[k].ts = clock
  <2>1. \A f \in {Touched(entries, k), Disconnected(entries, k)} :
          /\ f \in [DOMAIN f -> [ts : Nat, reason : {"self", "connect", "disconnect"}]]
          /\ DOMAIN f \subseteq DOMAIN entries \cup {k}
          /\ \A x \in DOMAIN entries : x \in DOMAIN f /\ f[x].ts \in {entries[x].ts, clock}
          /\ k \in DOMAIN f => f[k].ts = clock
    BY EntryNow
  <2> QED
    BY <2>1 DEF Keeps
<1> QED
  BY <1>4, <1>6, <1>7, <1>8

\* A connection that a step at one time leaves alone stays listed.
LEMMA StillRecent ==
  ASSUME PresenceTypeOK, ActiveIsRecent, clock' = clock, Keeps(entries, entries'),
         NEW d \in Clients, socket'[d] = socket[d]
  PROVE  socket'[d].open /\ socket'[d].key # Nobody /\ ~socket'[d].quiet =>
           /\ socket'[d].key \in DOMAIN entries'
           /\ socket'[d].asked <= entries'[socket'[d].key].ts
           /\ clock' - socket'[d].asked <= Life
<1> SUFFICES ASSUME socket[d].open, socket[d].key # Nobody, ~socket[d].quiet
             PROVE  /\ socket[d].key \in DOMAIN entries'
                    /\ socket[d].asked <= entries'[socket[d].key].ts
                    /\ clock - socket[d].asked <= Life
  OBVIOUS
<1> DEFINE k == socket[d].key
<1>1. /\ k \in DOMAIN entries /\ socket[d].asked <= entries[k].ts
      /\ clock - socket[d].asked <= Life
  BY DEF ActiveIsRecent
<1>2. /\ entries[k].ts \in Nat /\ socket[d].asked \in Nat /\ clock \in Nat
      /\ socket[d].asked <= clock /\ Life \in Nat
  BY <1>1, PresenceAssumption DEF PresenceTypeOK
<1>3. clock - entries[k].ts <= Life
  BY <1>1, <1>2
<1> QED
  BY <1>1, <1>2, <1>3 DEF Keeps

LEMMA PresenceInvInit == PresenceInit => PresenceInv
<1> SUFFICES ASSUME PresenceInit PROVE PresenceInv
  OBVIOUS
<1>1. Closed \in [open : BOOLEAN, key : PresenceKeys \cup {Nobody}, asked : Nat, quiet : BOOLEAN]
  BY DEF Closed
<1> QED
  BY <1>1 DEF PresenceInit, PresenceInv, PresenceTypeOK, ActiveIsRecent, PresenceKeys, Closed

LEMMA PresenceInvNext == PresenceInv /\ [PresenceNext]_presenceVars => PresenceInv'
<1> SUFFICES ASSUME PresenceInv, [PresenceNext]_presenceVars PROVE PresenceInv'
  OBVIOUS
<1> USE DEF PresenceInv
<1> DEFINE Sockets == [open : BOOLEAN, key : PresenceKeys \cup {Nobody}, asked : Nat,
                       quiet : BOOLEAN]
<1>0. /\ clock \in Nat /\ socket \in [Clients -> Sockets] /\ Keeps(entries, entries)
      /\ \A c \in Clients : socket[c].asked <= clock
  BY DEF PresenceTypeOK, Keeps
<1>1. ASSUME NEW c \in Clients, Accept(c) PROVE PresenceInv'
  <2>1. /\ clock' = clock /\ entries' = entries
        /\ socket' = [socket EXCEPT ![c] = [Closed EXCEPT !.open = TRUE, !.asked = clock]]
    BY <1>1 DEF Accept
  <2>2. [Closed EXCEPT !.open = TRUE, !.asked = clock] \in Sockets
    BY <1>0 DEF Closed
  <2>3. PresenceTypeOK'
    BY <1>0, <2>1, <2>2 DEF PresenceTypeOK, Closed
  <2>4. \A d \in Clients : d # c => socket'[d] = socket[d]
    BY <1>0, <2>1
  <2>5. socket'[c].key = Nobody
    BY <1>0, <2>1 DEF Closed
  <2> QED
    BY <1>0, <2>1, <2>3, <2>4, <2>5, StillRecent DEF ActiveIsRecent
<1>2. ASSUME NEW c \in Clients, Hello(c) PROVE PresenceInv'
  <2>0. clock' = clock
    BY <1>2 DEF Hello
  <2>1. PICK key \in Keys \cup {Self, c, Nobody} :
          IF key = Nobody THEN entries' = Snapshot(entries) /\ UNCHANGED socket
          ELSE /\ socket' = [socket EXCEPT ![c] =
                              [Closed EXCEPT !.open = TRUE, !.key = key, !.asked = clock]]
               /\ entries' = Snapshot(Upserted(entries, key))
    BY <1>2 DEF Hello
  <2>2. CASE key = Nobody
    <3>1. Keeps(entries, entries')
      BY <2>1, <2>2, TablesKeep DEF PresenceKeys
    <3>2. PresenceTypeOK'
      BY <1>0, <2>0, <2>1, <2>2, <3>1 DEF PresenceTypeOK, Keeps
    <3> QED
      BY <2>0, <2>1, <2>2, <3>1, <3>2, StillRecent DEF ActiveIsRecent
  <2>3. CASE key # Nobody
    <3>0. key \in PresenceKeys
      BY <2>3 DEF PresenceKeys
    <3>1. /\ Keeps(entries, entries')
          /\ key \in DOMAIN entries' /\ entries'[key].ts = clock
      BY <2>1, <2>3, <3>0, TablesKeep
    <3>2. [Closed EXCEPT !.open = TRUE, !.key = key, !.asked = clock] \in Sockets
      BY <1>0, <3>0 DEF Closed
    <3>3. /\ \A d \in Clients : d # c => socket'[d] = socket[d]
          /\ socket'[c].key = key /\ socket'[c].asked = clock /\ socket' \in [Clients -> Sockets]
      BY <1>0, <2>1, <2>3, <3>2 DEF Closed
    <3>4. PresenceTypeOK'
      BY <1>0, <2>0, <3>1, <3>3 DEF PresenceTypeOK, Keeps
    <3>5. clock - clock <= Life
      BY <1>0, PresenceAssumption
    <3> QED
      BY <1>0, <2>0, <3>1, <3>3, <3>4, <3>5, StillRecent DEF ActiveIsRecent
  <2> QED
    BY <2>2, <2>3
<1>3. ASSUME NEW c \in Clients, Request(c) PROVE PresenceInv'
  <2> DEFINE k == socket[c].key
  <2>1. /\ clock' = clock /\ k # Nobody /\ entries' = Touched(entries, k)
        /\ socket' = [socket EXCEPT ![c].asked = clock] /\ socket[c].open
    BY <1>3 DEF Request
  <2>2. k \in PresenceKeys
    BY <1>0, <2>1
  <2>3. /\ Keeps(entries, entries')
        /\ k \in DOMAIN entries => entries'[k].ts = clock
    BY <2>1, <2>2, TablesKeep
  <2>4. [socket[c] EXCEPT !.asked = clock] \in Sockets
    BY <1>0
  <2>5. /\ \A d \in Clients : d # c => socket'[d] = socket[d]
        /\ socket'[c] = [socket[c] EXCEPT !.asked = clock]
    BY <1>0, <2>1
  <2>6. PresenceTypeOK'
    <3>1. socket' = [socket EXCEPT ![c] = [socket[c] EXCEPT !.asked = clock]]
      BY <2>1
    <3>2. socket' \in [Clients -> Sockets]
      BY <1>0, <2>4, <3>1
    <3>3. socket'[c].asked = clock /\ clock <= clock
      BY <1>0, <2>5
    <3>4. \A d \in Clients : socket'[d].asked <= clock'
      BY <1>0, <2>1, <2>5, <3>3
    <3> QED
      BY <1>0, <2>1, <2>3, <3>2, <3>4 DEF PresenceTypeOK, Keeps
  <2>7. clock - clock <= Life
    BY <1>0, PresenceAssumption
  <2>8. ~socket[c].quiet => k \in DOMAIN entries
    BY <2>1 DEF ActiveIsRecent
  <2>9. ~socket[c].quiet => k \in DOMAIN entries'
    <3> SUFFICES ASSUME ~socket[c].quiet PROVE k \in DOMAIN entries'
      OBVIOUS
    <3> QED
      BY <2>1, <2>8, EntryNow DEF PresenceTypeOK
  <2>10. \A d \in Clients \ {c} :
           socket'[d].open /\ socket'[d].key # Nobody /\ ~socket'[d].quiet =>
             /\ socket'[d].key \in DOMAIN entries'
             /\ socket'[d].asked <= entries'[socket'[d].key].ts
             /\ clock' - socket'[d].asked <= Life
    BY <2>1, <2>3, <2>5, StillRecent
  <2>11. /\ socket'[c].key = k /\ socket'[c].asked = clock
         /\ socket'[c].quiet = socket[c].quiet
    BY <1>0, <2>5
  <2>12. ~socket[c].quiet => entries'[k].ts = clock /\ clock <= clock
    BY <1>0, <2>3, <2>8
  <2>13. ~socket'[c].quiet =>
           /\ socket'[c].key \in DOMAIN entries'
           /\ socket'[c].asked <= entries'[socket'[c].key].ts
           /\ clock' - socket'[c].asked <= Life
    BY <2>1, <2>7, <2>9, <2>11, <2>12
  <2> QED
    BY <2>6, <2>10, <2>13 DEF ActiveIsRecent
<1>4. ASSUME NEW c \in Clients, Close(c) PROVE PresenceInv'
  <2>1. /\ clock' = clock /\ socket' = [socket EXCEPT ![c] = Closed]
        /\ entries' = IF socket[c].key = Nobody THEN entries
                      ELSE Disconnected(entries, socket[c].key)
    BY <1>4 DEF Close
  <2>2. Keeps(entries, entries')
    BY <1>0, <2>1, TablesKeep
  <2>3. Closed \in Sockets
    BY DEF Closed
  <2>4. PresenceTypeOK'
    BY <1>0, <2>1, <2>2, <2>3 DEF PresenceTypeOK, Keeps, Closed
  <2>5. /\ \A d \in Clients : d # c => socket'[d] = socket[d]
        /\ ~socket'[c].open
    BY <1>0, <2>1 DEF Closed
  <2> QED
    BY <2>1, <2>2, <2>4, <2>5, StillRecent DEF ActiveIsRecent
<1>5. CASE Pass
  <2>1. /\ clock' = clock + 1 /\ entries' = entries
        /\ socket' = [c \in Clients |->
             [socket[c] EXCEPT !.quiet = socket[c].open
                /\ (@ \/ (clock' - socket[c].asked > Life))]]
    BY <1>5 DEF Pass
  <2>2. \A c \in Clients :
          /\ socket'[c].open = socket[c].open /\ socket'[c].key = socket[c].key
          /\ socket'[c].asked = socket[c].asked
          /\ socket'[c].quiet
               = (socket[c].open /\ (socket[c].quiet \/ (clock' - socket[c].asked > Life)))
          /\ socket'[c] \in Sockets
    BY <1>0, <2>1
  <2>3. PresenceTypeOK'
    <3>1. socket' \in [Clients -> Sockets]
      BY <2>1, <2>2
    <3>2. \A c \in Clients : socket'[c].asked <= clock'
      <4> SUFFICES ASSUME NEW c \in Clients PROVE socket'[c].asked <= clock'
        OBVIOUS
      <4>1. socket[c].asked \in Nat /\ socket[c].asked <= clock /\ clock \in Nat
        BY <1>0
      <4> QED
        BY <2>1, <2>2, <4>1
    <3> QED
      BY <1>0, <2>1, <3>1, <3>2 DEF PresenceTypeOK
  <2>4. ASSUME NEW c \in Clients,
               socket'[c].open, socket'[c].key # Nobody, ~socket'[c].quiet
        PROVE  /\ socket'[c].key \in DOMAIN entries'
               /\ socket'[c].asked <= entries'[socket'[c].key].ts
               /\ clock' - socket'[c].asked <= Life
    <3>1. /\ socket[c].open /\ socket[c].key # Nobody /\ ~socket[c].quiet
          /\ ~(clock' - socket[c].asked > Life)
      BY <1>0, <2>2, <2>4
    <3>2. socket[c].asked \in Nat /\ clock' \in Nat /\ Life \in Nat
      BY <1>0, <2>1, PresenceAssumption
    <3>3. clock' - socket[c].asked <= Life
      BY <3>1, <3>2
    <3> QED
      BY <2>1, <2>2, <3>1, <3>3 DEF ActiveIsRecent
  <2> QED
    BY <2>3, <2>4 DEF ActiveIsRecent
<1>6. CASE UNCHANGED presenceVars
  BY <1>6 DEF presenceVars, PresenceTypeOK, ActiveIsRecent
<1> QED
  BY <1>1, <1>2, <1>3, <1>4, <1>5, <1>6 DEF PresenceNext

\* Whatever the connections do and whenever snapshots prune the table, a client
\* that was never silent for longer than the TTL is listed, for any number of
\* connections, shared keys and any TTL.
THEOREM ActiveIsListedCorrect == PresenceSpec => []ActiveIsListed
<1>1. PresenceInv => ActiveIsListed
  BY DEF PresenceInv, ActiveIsRecent, ActiveIsListed
<1> QED
  BY <1>1, PresenceInvInit, PresenceInvNext, PTL DEF PresenceSpec


-----------------------------------------------------------------------------
(* Tokens.  What a thread may have left to do.                              *)

Before    == {Admission, Tail(Admission), <<"handle">>}
Rotating  == {Rotation, Tail(Rotation), Tail(Tail(Rotation))}
Approving == {Approval, Tail(Approval)}
Granting  == {<<"cutDevices", "putDevices", "reply">>, <<"putDevices", "reply">>}
Booking   == Granting \cup {SaveDevices, Tail(SaveDevices)}
Storing   == {Storage, Tail(Storage)}
HttpPlans == {<<>>, <<"reply">>} \cup Before \cup Rotating \cup Approving \cup Booking
               \cup Storing
ConnPlans == {<<>>, Save, Tail(Save)}

Web == thread[Http]
IsThread(r) ==
  /\ r = [todo |-> r.todo, op |-> r.op, arg |-> r.arg, new |-> r.new, copy |-> r.copy,
          book |-> r.book, fresh |-> r.fresh]
  /\ r.new \in 0..made /\ r.fresh \in BOOLEAN
IsBook(b) == b \in [DOMAIN b -> [expires : Nat, token : Nat \cup {None}]]
AccessTypeOK ==
  /\ now \in Nat /\ made \in 0..MaxTokens /\ codes \in Nat /\ gone \subseteq 1..made
  /\ DOMAIN thread = Threads /\ thread = [t \in Threads |-> thread[t]]
  /\ \A t \in Threads : IsThread(thread[t])
  /\ Web.todo \in HttpPlans /\ \A c \in Conns : thread[c].todo \in ConnPlans
  /\ Readable(devices) => IsBook(devices)
  /\ Web.todo \in Approving \cup Booking => IsBook(Web.book)
  /\ Web.todo \in Approving \cup Granting => Web.op = "approve"
  /\ Web.todo # <<>> /\ Web.op = "revoke" => Web.arg \in 1..made
  /\ Web.todo \in Before => Web.new = 0

\* What a map, if it is the content of the token file, owes to the answers that
\* were given and to the one that is on its way.
InMap(m, book) == \A code \in DOMAIN book : book[code].token \in DOMAIN m \cup {None}
Good(m) ==
  /\ m \in [DOMAIN m -> {"valid", "revoked"}] /\ DOMAIN m \subseteq 1..made
  /\ acked \subseteq DOMAIN m
  /\ \A k \in gone : ~IsValid(m, k)
  /\ Readable(devices) => InMap(m, devices)
  /\ \A k \in DOMAIN m : m[k] = "revoked" /\ k \notin asked =>
                           k \in DOMAIN heir /\ heir[k] \in DOMAIN m
  /\ Web.todo \in Granting \cup {<<"reply">>} /\ Web.new # 0 => Web.new \in DOMAIN m
  /\ Web.todo = <<"reply">> /\ Web.op = "revoke" => ~IsValid(m, Web.arg)
  /\ Web.todo \in Booking => InMap(m, Web.book)
  /\ Web.todo \in Before /\ Web.op = "rotate" /\ Web.arg \in DOMAIN m =>
       m[Web.arg] = "valid"

\* A thread is fresh while nobody has written the file since it was loaded.  The
\* file is good; so is every fresh copy on its way to it, and while the file is
\* cut a fresh copy is about to be put in its place.
Putting(t) == thread[t].fresh /\ At(t, "put")
Saving(t)  == thread[t].fresh /\ (At(t, "cut") \/ At(t, "put") \/ At(t, "retire"))
Promised(r) ==
  /\ r.new # 0 => r.new \in DOMAIN r.copy
  /\ r.op = "revoke" => ~IsValid(r.copy, r.arg)
  /\ r.todo \in Approving => InMap(r.copy, r.book)
  /\ r.todo \in Rotating => /\ r.arg \in DOMAIN r.copy /\ r.arg \in DOMAIN heir
                            /\ heir[r.arg] = r.new /\ r.new # 0
Safe ==
  /\ Readable(tokens) => Good(tokens)
  /\ ~Readable(tokens) => \E t \in Threads : Putting(t)
  /\ \A t \in Threads : Saving(t) => Good(thread[t].copy)
  /\ \A t \in Threads : Putting(t) => tokens = Empty
  /\ \A c \in Conns : thread[c].fresh /\ At(c, "cut") => thread[c].copy = tokens
  /\ Saving(Http) /\ Web.todo \notin Before => Promised(Web)
AccessInv == ~disturbed => AccessTypeOK /\ Safe

LEMMA Tails ==
  /\ Tail(Admission) = <<"put", "handle">>
  /\ Tail(Rotation) = <<"put", "retire", "cut", "put", "reply">>
  /\ Tail(Tail(Rotation)) = <<"retire", "cut", "put", "reply">>
  /\ Tail(Approval) = <<"put", "cutDevices", "putDevices", "reply">>
  /\ Tail(SaveDevices) = <<"putDevices">>
  /\ Tail(Storage) = <<"put", "reply">>
  /\ Tail(Save) = <<"put">>
  BY DEF Admission, Rotation, Approval, SaveDevices, Storage, Save

\* What the first step says about the plan, and what is left after it.
LEMMA PlanCut ==
  ASSUME NEW p \in HttpPlans, p # <<>>, Head(p) = "cut"
  PROVE  /\ Len(p) # 1 /\ Tail(p) # <<>> /\ Head(Tail(p)) = "put" /\ Tail(p) \in HttpPlans
         /\ p \notin Booking /\ p # <<"reply">>
         /\ Tail(p) \notin Booking /\ Tail(p) # <<"reply">>
         /\ Tail(p) \in Before <=> p \in Before
         /\ Tail(p) \in Rotating <=> p \in Rotating
         /\ Tail(p) \in Approving <=> p \in Approving
<1>1. p \in {Admission, Rotation, Approval, Storage}
  BY Tails DEF Admission, Rotation, Approval, SaveDevices, Storage, HttpPlans, Before,
               Rotating, Approving, Booking, Granting, Storing
<1>2. CASE p = Admission
  BY <1>2, Tails DEF Admission, Rotation, Approval, SaveDevices, Storage, HttpPlans, Before,
               Rotating, Approving, Booking, Granting, Storing
<1>3. CASE p = Rotation
  BY <1>3, Tails DEF Admission, Rotation, Approval, SaveDevices, Storage, HttpPlans, Before,
               Rotating, Approving, Booking, Granting, Storing
<1>4. CASE p = Approval
  BY <1>4, Tails DEF Admission, Rotation, Approval, SaveDevices, Storage, HttpPlans, Before,
               Rotating, Approving, Booking, Granting, Storing
<1>5. CASE p = Storage
  BY <1>5, Tails DEF Admission, Rotation, Approval, SaveDevices, Storage, HttpPlans, Before,
               Rotating, Approving, Booking, Granting, Storing
<1> QED
  BY <1>1, <1>2, <1>3, <1>4, <1>5
LEMMA PlanPut ==
  ASSUME NEW p \in HttpPlans, p # <<>>, Head(p) = "put"
  PROVE  /\ Len(p) # 1 /\ Tail(p) # <<>> /\ Head(Tail(p)) \notin {"cut", "put"}
         /\ Tail(p) \in HttpPlans
         /\ p \notin Booking /\ p # <<"reply">>
         /\ Tail(p) \in Before <=> p \in Before
         /\ Tail(p) \in Rotating <=> p \in Rotating
         /\ Head(Tail(p)) = "retire" => p \in Rotating
         /\ Tail(p) \in Booking <=> p \in Approving
         /\ Tail(p) \in Granting <=> p \in Approving
         /\ Tail(p) \notin Approving
<1>1. p \in {Tail(Admission), Tail(Rotation), Tail(Approval), Tail(Storage)}
  BY Tails DEF Admission, Rotation, Approval, SaveDevices, Storage, HttpPlans, Before,
               Rotating, Approving, Booking, Granting, Storing
<1>2. CASE p = Tail(Admission)
  BY <1>2, Tails DEF Admission, Rotation, Approval, SaveDevices, Storage, HttpPlans, Before,
               Rotating, Approving, Booking, Granting, Storing
<1>3. CASE p = Tail(Rotation)
  BY <1>3, Tails DEF Admission, Rotation, Approval, SaveDevices, Storage, HttpPlans, Before,
               Rotating, Approving, Booking, Granting, Storing
<1>4. CASE p = Tail(Approval)
  BY <1>4, Tails DEF Admission, Rotation, Approval, SaveDevices, Storage, HttpPlans, Before,
               Rotating, Approving, Booking, Granting, Storing
<1>5. CASE p = Tail(Storage)
  BY <1>5, Tails DEF Admission, Rotation, Approval, SaveDevices, Storage, HttpPlans, Before,
               Rotating, Approving, Booking, Granting, Storing
<1> QED
  BY <1>1, <1>2, <1>3, <1>4, <1>5
LEMMA PlanElse ==
  ASSUME NEW p \in HttpPlans, p # <<>>
  PROVE  /\ Head(p) = "handle" => p = <<"handle">> /\ p \in Before
         /\ Head(p) = "retire" => /\ p \in Rotating /\ Len(p) # 1 /\ Tail(p) = Storage
                                  /\ p \notin Before \cup Booking \cup Approving
         /\ Head(p) = "reply" => p = <<"reply">>
         /\ Head(p) = "cutDevices" => /\ p \in Booking /\ Len(p) # 1
                                      /\ Tail(p) \in Booking /\ Head(Tail(p)) = "putDevices"
                                      /\ Tail(p) # <<>> /\ Tail(p) # <<"reply">>
                                      /\ Tail(p) \in Granting <=> p \in Granting
                                      /\ Tail(p) \notin Before \cup Approving
         /\ Head(p) = "putDevices" => /\ p \in Booking
                                      /\ Len(p) = 1 <=> p \notin Granting
                                      /\ p \in Granting => Tail(p) = <<"reply">>
<1> DEFINE others == {Admission, Tail(Admission), Rotation, Tail(Rotation), Approval,
                      Tail(Approval), Storage, Tail(Storage)}
<1>1. p \in others \cup {<<"handle">>, <<"reply">>, Tail(Tail(Rotation)),
                       SaveDevices, Tail(SaveDevices),
                       <<"cutDevices", "putDevices", "reply">>, <<"putDevices", "reply">>}
  BY DEF Admission, Rotation, Approval, SaveDevices, Storage, HttpPlans, Before,
               Rotating, Approving, Booking, Granting, Storing
<1>2. CASE p \in others
  BY <1>2, Tails DEF Admission, Rotation, Approval, SaveDevices, Storage, HttpPlans, Before,
               Rotating, Approving, Booking, Granting, Storing
<1>3. CASE p = <<"handle">>
  BY <1>3, Tails DEF Admission, Rotation, Approval, SaveDevices, Storage, HttpPlans, Before,
               Rotating, Approving, Booking, Granting, Storing
<1>4. CASE p = <<"reply">>
  BY <1>4, Tails DEF Admission, Rotation, Approval, SaveDevices, Storage, HttpPlans, Before,
               Rotating, Approving, Booking, Granting, Storing
<1>5. CASE p = Tail(Tail(Rotation))
  BY <1>5, Tails DEF Admission, Rotation, Approval, SaveDevices, Storage, HttpPlans, Before,
               Rotating, Approving, Booking, Granting, Storing
<1>6. CASE p = SaveDevices
  BY <1>6, Tails DEF Admission, Rotation, Approval, SaveDevices, Storage, HttpPlans, Before,
               Rotating, Approving, Booking, Granting, Storing
<1>7. CASE p = Tail(SaveDevices)
  BY <1>7, Tails DEF Admission, Rotation, Approval, SaveDevices, Storage, HttpPlans, Before,
               Rotating, Approving, Booking, Granting, Storing
<1>8. CASE p = <<"cutDevices", "putDevices", "reply">>
  BY <1>8, Tails DEF Admission, Rotation, Approval, SaveDevices, Storage, HttpPlans, Before,
               Rotating, Approving, Booking, Granting, Storing
<1>9. CASE p = <<"putDevices", "reply">>
  BY <1>9, Tails DEF Admission, Rotation, Approval, SaveDevices, Storage, HttpPlans, Before,
               Rotating, Approving, Booking, Granting, Storing
<1> QED
  BY <1>1, <1>2, <1>3, <1>4, <1>5, <1>6, <1>7, <1>8, <1>9
\* The plans that handlers begin.
LEMMA PlansBegun ==
  /\ \A p \in {Admission, Rotation, Approval, Storage} :
       p \in HttpPlans /\ p # <<>> /\ Head(p) = "cut"
  /\ SaveDevices \in Booking /\ Booking \subseteq HttpPlans /\ SaveDevices \notin Granting
  /\ SaveDevices # <<>> /\ Head(SaveDevices) = "cutDevices"
  /\ Admission \in Before /\ <<"handle">> \in Before /\ <<"handle">> # <<>>
  /\ Head(<<"handle">>) = "handle" /\ <<"handle">> # <<"reply">>
  /\ Rotation \in Rotating /\ Approval \in Approving
  /\ Admission \notin Rotating \cup Approving
  /\ Rotation \notin Before \cup Approving \cup Booking
  /\ Approval \notin Before \cup Rotating \cup Booking
  /\ Storage \notin Before \cup Rotating \cup Approving \cup Booking
  /\ Before \cap (Booking \cup Rotating \cup Approving \cup {<<"reply">>, <<>>}) = {}
  /\ Booking \cap {<<"reply">>, <<>>} = {} /\ Approving \cap (Booking \cup {<<>>, <<"reply">>}) = {}
  /\ <<"reply">> # <<>> /\ Head(<<"reply">>) = "reply" /\ <<"reply">> \in HttpPlans
  BY Tails DEF Admission, Rotation, Approval, SaveDevices, Storage, HttpPlans, Before,
               Rotating, Approving, Booking, Granting, Storing
LEMMA PlanOfConn ==
  ASSUME NEW p \in ConnPlans, p # <<>>
  PROVE  /\ Head(p) \in {"cut", "put"}
         /\ Head(p) = "cut" => /\ Len(p) # 1 /\ Tail(p) \in ConnPlans
                               /\ Tail(p) # <<>> /\ Head(Tail(p)) = "put"
         /\ Head(p) = "put" => Len(p) = 1
<1>1. CASE p = Save
  BY <1>1, Tails DEF ConnPlans, Save
<1>2. CASE p = Tail(Save)
  BY <1>2, Tails DEF ConnPlans, Save
<1> QED
  BY <1>1, <1>2 DEF ConnPlans

-----------------------------------------------------------------------------
(* A step of the HTTP thread that leaves the token file alone.               *)

IsRecord(r) == r = [todo |-> r.todo, op |-> r.op, arg |-> r.arg, new |-> r.new,
                    copy |-> r.copy, book |-> r.book, fresh |-> r.fresh]
LEMMA IdleIs ==
  /\ IsRecord(Idle) /\ Idle.todo = <<>> /\ Idle.op = None /\ Idle.new = 0 /\ Idle.fresh = TRUE
  BY DEF Idle, IsRecord
LEMMA DoneIs ==
  ASSUME NEW r, IsRecord(r)
  PROVE  /\ Len(r.todo) = 1 => Done(r) = Idle
         /\ Len(r.todo) # 1 =>
              /\ IsRecord(Done(r)) /\ Done(r).todo = Tail(r.todo) /\ Done(r).op = r.op
              /\ Done(r).arg = r.arg /\ Done(r).new = r.new /\ Done(r).copy = r.copy
              /\ Done(r).book = r.book /\ Done(r).fresh = r.fresh
  BY DEF Done, IsRecord

LEMMA ReadableIs ==
  /\ ~(Empty \in Maps) /\ ~(Torn \in Maps)
  /\ \A f : Readable(f) <=> f # Empty /\ f # Torn
  BY ContentsAssumption DEF Readable, Broken

\* Plans of HttpPlans that are in none of the named groups owe nothing.
LEMMA NoPlan ==
  /\ \A p \in Before : p # <<>> /\ p # <<"reply">> /\ p \notin Booking /\ p \notin Approving
                       /\ p \notin Granting
  /\ <<>> \notin Before \cup Approving \cup Booking \cup Granting \cup Rotating
  /\ <<"reply">> \notin Before \cup Approving \cup Booking \cup Granting \cup Rotating
  /\ <<"reply">> # <<>>
  /\ Granting \subseteq Booking
  BY PlansBegun, Tails DEF Booking, Granting, Rotating, Rotation, Approving, Approval, Before,
                           Admission, SaveDevices

LEMMA HttpType ==
  ASSUME AccessTypeOK, NEW r, IsRecord(r), thread' = [thread EXCEPT ![Http] = r],
         now' \in Nat, made' \in 0..MaxTokens, made' >= made, codes' \in Nat,
         gone' \subseteq 1..made', Readable(devices') => IsBook(devices'),
         r.new \in 0..made', r.fresh \in BOOLEAN, r.todo \in HttpPlans,
         r.todo \in Approving \cup Booking => IsBook(r.book),
         r.todo \in Approving \cup Granting => r.op = "approve",
         r.todo # <<>> /\ r.op = "revoke" => r.arg \in 1..made',
         r.todo \in Before => r.new = 0
  PROVE  AccessTypeOK'
<1>1. Http \in Threads /\ \A c \in Conns : c \in Threads /\ c # Http
  BY ThreadsAssumption DEF Threads
<1>2. /\ thread'[Http] = r /\ \A t \in Threads : t # Http => thread'[t] = thread[t]
      /\ DOMAIN thread' = Threads /\ thread' = [t \in Threads |-> thread'[t]]
  BY <1>1 DEF AccessTypeOK
<1>3. ASSUME NEW t \in Threads PROVE IsThread(thread[t])'
  <2>1. CASE t = Http
    BY <2>1, <1>2 DEF IsThread, IsRecord
  <2>2. CASE t # Http
    <3>1. IsThread(thread[t]) /\ thread'[t] = thread[t]
      BY <2>2, <1>2 DEF AccessTypeOK
    <3>2. made \in Nat /\ made' \in Nat
      BY AccessBounds DEF AccessTypeOK
    <3> QED
      BY <3>1, <3>2 DEF IsThread
  <2> QED
    BY <2>1, <2>2
<1>4. \A c \in Conns : thread'[c].todo \in ConnPlans
  BY <1>1, <1>2 DEF AccessTypeOK
<1> QED
  BY <1>2, <1>3, <1>4 DEF AccessTypeOK, Web

Live == (IF Readable(tokens) THEN {tokens} ELSE {})
          \cup {thread[c].copy : c \in {d \in Conns : Saving(d)}}

LEMMA LiveIsGood == AccessTypeOK /\ Safe => \A m \in Live : Good(m)
  BY DEF Live, Safe, Threads

LEMMA HttpSafe ==
  ASSUME AccessTypeOK, Safe, NEW r, thread' = [thread EXCEPT ![Http] = r],
         tokens' = tokens, \A m \in Live : Good(m)', ~Putting(Http),
         r.todo # <<>> => Head(r.todo) # "put",
         r.todo # <<>> /\ Head(r.todo) \in {"cut", "retire"} /\ r.fresh =>
           Good(r.copy)' /\ (r.todo \notin Before => Promised(r)')
  PROVE  Safe'
<1>1. Http \in Threads /\ \A c \in Conns : c \in Threads /\ c # Http
  BY ThreadsAssumption DEF Threads
<1>2. /\ thread'[Http] = r /\ \A t \in Threads : t # Http => thread'[t] = thread[t]
  BY <1>1 DEF AccessTypeOK
<1>3. \A c \in Conns : /\ (Saving(c)' <=> Saving(c)) /\ (Putting(c)' <=> Putting(c))
                       /\ (At(c, "cut")' <=> At(c, "cut"))
  BY <1>1, <1>2 DEF Saving, Putting, At
<1>4. Readable(tokens') => Good(tokens)'
  <2>1. SUFFICES ASSUME Readable(tokens) PROVE Good(tokens)'
    OBVIOUS
  <2>2. tokens \in Live
    BY <2>1 DEF Live
  <2> QED
    BY <2>2
<1>5. ~Readable(tokens') => \E t \in Threads : Putting(t)'
  BY <1>1, <1>3 DEF Safe, Threads
<1>6. \A c \in Conns : Saving(c)' => Good(thread[c].copy)'
  <2>1. SUFFICES ASSUME NEW c \in Conns, Saving(c) PROVE Good(thread[c].copy)'
    BY <1>3
  <2>2. thread[c].copy \in Live /\ thread'[c] = thread[c]
    BY <2>1, <1>1, <1>2 DEF Live
  <2> QED
    BY <2>2
<1>7. ~Putting(Http)' /\ (Saving(Http)' => /\ r.todo # <<>> /\ r.fresh
                                           /\ Head(r.todo) \in {"cut", "retire"})
  BY <1>2 DEF Putting, Saving, At
<1>8. Saving(Http)' => Good(thread[Http].copy)' /\ (Web'.todo \notin Before => Promised(Web)')
  <2>1. SUFFICES ASSUME Saving(Http)' PROVE Good(r.copy)' /\ (r.todo \notin Before => Promised(r)')
    BY <1>2 DEF Web
  <2> QED
    BY <2>1, <1>7
<1>9. \A c \in Conns : thread'[c].fresh /\ At(c, "cut")' => thread'[c].copy = tokens'
  BY <1>1, <1>2, <1>3 DEF Safe
<1>10. \A t \in Threads : Putting(t)' => tokens' = Empty
  BY <1>3, <1>7 DEF Safe, Threads
<1>11. \A t \in Threads : Saving(t)' => Good(thread[t].copy)'
  BY <1>6, <1>8 DEF Threads
<1> QED
  BY <1>4, <1>5, <1>8, <1>9, <1>10, <1>11 DEF Safe

-----------------------------------------------------------------------------
(* The handlers.                                                            *)

LEMMA WebIs ==
  ASSUME AccessTypeOK
  PROVE  /\ Http \in Threads /\ IsRecord(Web) /\ Web.todo \in HttpPlans /\ Web.new \in 0..made
         /\ Web.fresh \in BOOLEAN /\ made \in Nat /\ made \in 0..MaxTokens /\ MaxTokens \in Nat
         /\ \A r : thread' = [thread EXCEPT ![Http] = r] => Web' = r
         /\ At(Http, "handle") => Web.todo = <<"handle">> /\ Web.new = 0 /\ ~Putting(Http)
<1>a. made \in Nat /\ made \in 0..MaxTokens /\ MaxTokens \in Nat
  BY AccessBounds DEF AccessTypeOK
<1>b. Http \in Threads /\ IsThread(Web) /\ Web.todo \in HttpPlans
  BY DEF AccessTypeOK, Web, Threads
<1>1. /\ Http \in Threads /\ IsThread(Web) /\ made \in Nat /\ made \in 0..MaxTokens
      /\ MaxTokens \in Nat /\ Web.todo \in HttpPlans
  BY <1>a, <1>b
<1>2. \A r : thread' = [thread EXCEPT ![Http] = r] => Web' = r
  BY <1>1 DEF AccessTypeOK, Web
<1>3. At(Http, "handle") => /\ Web.todo = <<"handle">> /\ Web.todo \in Before
                            /\ Head(Web.todo) # "put"
  BY <1>1, PlanElse DEF At, Web
<1>4. At(Http, "handle") => Web.new = 0 /\ ~Putting(Http)
  BY <1>3 DEF AccessTypeOK, Putting, At, Web
<1> QED
  BY <1>1, <1>2, <1>3, <1>4 DEF IsThread, IsRecord

\* Where a plan owes nothing, the same map stays good.
LEMMA GoodKept ==
  ASSUME NEW m, Good(m), made \in Nat, made' \in Nat, made' >= made, acked' = acked,
         gone' = gone, asked \subseteq asked', heir' = heir, devices' = devices,
         Web'.todo \notin Before \cup Booking \cup {<<"reply">>}
  PROVE  Good(m)'
  BY NoPlan DEF Good, InMap

LEMMA WithIs ==
  ASSUME NEW m, NEW k, NEW v
  PROVE  /\ DOMAIN With(m, k, v) = DOMAIN m \cup {k} /\ With(m, k, v)[k] = v
         /\ \A x \in DOMAIN m : x # k => With(m, k, v)[x] = m[x]
  BY DEF With

\* A new token in a good map.
LEMMA GoodGrown ==
  ASSUME AccessTypeOK, NEW m, Good(m), made' = made + 1
  PROVE  LET g == With(m, made + 1, "valid") IN
         /\ g \in [DOMAIN g -> {"valid", "revoked"}] /\ DOMAIN g \subseteq 1..made'
         /\ acked \subseteq DOMAIN g /\ \A k \in gone : ~IsValid(g, k)
         /\ \A book : InMap(m, book) => InMap(g, book)
         /\ \A k \in DOMAIN g : g[k] = "revoked" =>
              k \in DOMAIN m /\ m[k] = "revoked"
         /\ DOMAIN m \subseteq DOMAIN g /\ made + 1 \in DOMAIN g
<1> DEFINE g == With(m, made + 1, "valid")
<1>1. /\ DOMAIN g = DOMAIN m \cup {made + 1} /\ g[made + 1] = "valid"
      /\ \A x \in DOMAIN m : x # made + 1 => g[x] = m[x]
  BY DEF With
<1>2. made \in Nat /\ made + 1 \notin DOMAIN m /\ DOMAIN m \subseteq 1..made
      /\ made + 1 \notin gone
  BY WebIs DEF Good, AccessTypeOK
<1>3. \A x \in DOMAIN g : g[x] \in {"valid", "revoked"}
  BY <1>1, <1>2 DEF Good
<1>4. g = [x \in DOMAIN g |-> g[x]]
  BY DEF With
<1>5. \A k \in gone : ~IsValid(g, k)
  BY <1>1, <1>2 DEF Good, IsValid
<1> HIDE DEF g
<1> QED
  BY <1>1, <1>2, <1>3, <1>4, <1>5 DEF Good, InMap, g

\* The successor of a token that is retired, or a token somebody asked to revoke.
LEMMA GoodRevoked ==
  ASSUME NEW m, Good(m), NEW k \in DOMAIN m
  PROVE  LET g == With(m, k, "revoked") IN
         /\ g \in [DOMAIN g -> {"valid", "revoked"}] /\ DOMAIN g = DOMAIN m
         /\ \A x \in gone : ~IsValid(g, x)
         /\ \A x \in DOMAIN m : x # k => g[x] = m[x]
         /\ g[k] = "revoked"
<1> DEFINE g == With(m, k, "revoked")
<1>1. DOMAIN g = DOMAIN m /\ g[k] = "revoked" /\ \A x \in DOMAIN m : x # k => g[x] = m[x]
  BY WithIs
<1>2. g = [x \in DOMAIN g |-> g[x]]
  BY DEF With
<1> HIDE DEF g
<1>3. \A x \in DOMAIN g : g[x] \in {"valid", "revoked"}
  BY <1>1 DEF Good
<1>4. \A x \in gone : ~IsValid(g, x)
  BY <1>1 DEF Good, IsValid
<1> QED
  BY <1>1, <1>2, <1>3, <1>4 DEF g

LEMMA CreateKeeps == AccessTypeOK /\ Safe /\ Create => AccessTypeOK' /\ Safe'
<1> SUFFICES ASSUME AccessTypeOK, Safe, Create PROVE AccessTypeOK' /\ Safe'
  OBVIOUS
<1> PICK g : g = With(tokens, made + 1, "valid")
  OBVIOUS
<1> PICK r : r = [Created(Web) EXCEPT !.todo = Storage]
  OBVIOUS
<1>1. /\ IsRecord(r) /\ r.todo = Storage /\ r.op = Web.op /\ r.arg = Web.arg
      /\ r.new = made + 1 /\ r.copy = g /\ r.fresh = TRUE /\ r.book = Web.book
  <2>1. IsRecord(Web)
    BY WebIs
  <2> QED
    BY <2>1 DEF Created, IsRecord
<1>2. thread' = [thread EXCEPT ![Http] = r]
  BY <1>1, PlansBegun DEF Create, Handles, Web
<1>3. /\ Web' = r /\ made' = made + 1 /\ made < MaxTokens /\ ~Putting(Http)
      /\ tokens' = tokens /\ devices' = devices /\ now' = now /\ codes' = codes
      /\ acked' = acked /\ gone' = gone /\ asked' = asked /\ heir' = heir
      /\ Web.op = "create"
  BY <1>2, WebIs DEF Create, files, history, Web
<1>4. /\ r.todo \in HttpPlans /\ r.todo # <<>> /\ Head(r.todo) = "cut"
      /\ r.todo \notin Before \cup Rotating \cup Approving \cup Booking \cup {<<"reply">>}
      /\ r.todo \notin Granting
  BY <1>1, PlansBegun, NoPlan
<1>5. AccessTypeOK'
  <2>1. made \in Nat /\ made' \in 0..MaxTokens /\ made' >= made /\ r.new \in 0..made'
    BY <1>1, <1>3, WebIs
  <2>2. gone' \subseteq 1..made' /\ now' \in Nat /\ codes' \in Nat
    BY <1>3, <2>1 DEF AccessTypeOK
  <2>3. Readable(devices') => IsBook(devices')
    BY <1>3 DEF AccessTypeOK
  <2> QED
    BY <1>1, <1>2, <1>3, <1>4, <2>1, <2>2, <2>3, HttpType
<1>6. \A m \in Live : Good(m)'
  BY <1>3, <1>4, WebIs, GoodKept, LiveIsGood
<1>7. Good(tokens)
  BY DEF Create, Safe, Readable
<1>8. Good(g)' /\ made + 1 \in DOMAIN g
  <2>1. /\ g \in [DOMAIN g -> {"valid", "revoked"}] /\ DOMAIN g \subseteq 1..made'
        /\ acked' \subseteq DOMAIN g /\ \A k \in gone' : ~IsValid(g, k)
        /\ Readable(devices') => InMap(g, devices')
        /\ \A k \in DOMAIN g : g[k] = "revoked" => k \in DOMAIN tokens /\ tokens[k] = "revoked"
        /\ DOMAIN tokens \subseteq DOMAIN g /\ made + 1 \in DOMAIN g
    BY <1>3, <1>7, GoodGrown DEF Good
  <2>2. \A k \in DOMAIN g : g[k] = "revoked" /\ k \notin asked' =>
                              k \in DOMAIN heir' /\ heir'[k] \in DOMAIN g
    BY <2>1, <1>3, <1>7 DEF Good
  <2> QED
    BY <2>1, <2>2, <1>3, <1>4 DEF Good, InMap
<1>9. Promised(r)'
  BY <1>1, <1>3, <1>4, <1>8 DEF Promised
<1>10. Good(r.copy)'
  BY <1>1, <1>8
<1> QED
  BY <1>2, <1>3, <1>4, <1>5, <1>6, <1>9, <1>10, HttpSafe

LEMMA RevokeKeeps == AccessTypeOK /\ Safe /\ Revoke => AccessTypeOK' /\ Safe'
<1> SUFFICES ASSUME AccessTypeOK, Safe, Revoke PROVE AccessTypeOK' /\ Safe'
  OBVIOUS
<1> PICK w : w = Web
  OBVIOUS
<1> PICK g : g = With(tokens, w.arg, "revoked")
  OBVIOUS
<1> PICK r : r = IF w.arg \notin DOMAIN tokens THEN Idle
                 ELSE [w EXCEPT !.copy = g, !.fresh = TRUE, !.todo = Storage]
  OBVIOUS
<1>1. /\ IsRecord(r) /\ r.fresh = TRUE /\ r.new = 0 /\ r.todo \in {<<>>, Storage}
      /\ r.todo # <<>> => /\ w.arg \in DOMAIN tokens /\ r.copy = g /\ r.arg = w.arg
                          /\ r.op = w.op /\ r.todo = Storage
      /\ r.todo = <<>> => r = Idle
  <2>1. IsRecord(w) /\ w.new = 0
    BY WebIs DEF Revoke
  <2> QED
    BY <2>1, IdleIs, PlansBegun DEF IsRecord
<1>2. thread' = [thread EXCEPT ![Http] = r]
  BY <1>1, PlansBegun, IdleIs DEF Revoke, Handles, Web
<1>3. /\ Web' = r /\ made' = made /\ ~Putting(Http)
      /\ tokens' = tokens /\ devices' = devices /\ now' = now /\ codes' = codes
      /\ acked' = acked /\ gone' = gone /\ asked' = asked \cup {w.arg} /\ heir' = heir
      /\ w.op = "revoke"
  BY <1>2, WebIs DEF Revoke, files, counters, Web
<1>4. /\ r.todo \in HttpPlans /\ (r.todo # <<>> => Head(r.todo) = "cut")
      /\ r.todo \notin Before \cup Rotating \cup Approving \cup Booking \cup {<<"reply">>}
      /\ r.todo \notin Granting
  BY <1>1, PlansBegun, NoPlan DEF HttpPlans
<1>5. AccessTypeOK'
  <2>1. made \in Nat /\ made' \in 0..MaxTokens /\ made' >= made /\ r.new \in 0..made'
    BY <1>1, <1>3, WebIs
  <2>2. gone' \subseteq 1..made' /\ now' \in Nat /\ codes' \in Nat
    BY <1>3, <2>1 DEF AccessTypeOK
  <2>3. Readable(devices') => IsBook(devices')
    BY <1>3 DEF AccessTypeOK
  <2>4. r.todo # <<>> /\ r.op = "revoke" => r.arg \in 1..made'
    BY <1>1, <1>3, NoPlan, PlansBegun, WebIs DEF AccessTypeOK, Revoke
  <2> QED
    BY <1>1, <1>2, <1>3, <1>4, <2>1, <2>2, <2>3, <2>4, HttpType
<1>6. \A m \in Live : Good(m)'
  BY <1>3, <1>4, WebIs, GoodKept, LiveIsGood
<1>7. Good(tokens)
  BY DEF Revoke, Safe, Readable
<1>8. w.arg \in DOMAIN tokens => Good(g)' /\ ~IsValid(g, w.arg)
  <2> SUFFICES ASSUME w.arg \in DOMAIN tokens PROVE Good(g)' /\ ~IsValid(g, w.arg)
    OBVIOUS
  <2>1. /\ g \in [DOMAIN g -> {"valid", "revoked"}] /\ DOMAIN g = DOMAIN tokens
        /\ \A x \in gone : ~IsValid(g, x)
        /\ \A x \in DOMAIN tokens : x # w.arg => g[x] = tokens[x]
        /\ g[w.arg] = "revoked"
    BY <1>7, GoodRevoked
  <2>2. \A k \in DOMAIN g : g[k] = "revoked" /\ k \notin asked' =>
                              k \in DOMAIN heir' /\ heir'[k] \in DOMAIN g
    BY <2>1, <1>3, <1>7 DEF Good
  <2>3. Good(g)'
    BY <2>1, <2>2, <1>3, <1>4, <1>7 DEF Good, InMap
  <2> QED
    BY <2>1, <2>3 DEF IsValid
<1>9. r.todo # <<>> => Promised(r)'
  BY <1>1, <1>3, <1>4, <1>8 DEF Promised
<1>10. r.todo # <<>> => Good(r.copy)'
  BY <1>1, <1>8
<1> QED
  BY <1>2, <1>3, <1>4, <1>5, <1>6, <1>9, <1>10, HttpSafe

LEMMA RotateKeeps == AccessTypeOK /\ Safe /\ Rotate => AccessTypeOK' /\ Safe'
<1> SUFFICES ASSUME AccessTypeOK, Safe, Rotate PROVE AccessTypeOK' /\ Safe'
  OBVIOUS
<1> PICK w : w = Web
  OBVIOUS
<1> PICK g : g = With(tokens, made + 1, "valid")
  OBVIOUS
<1> PICK p : p = IF w.arg \in DOMAIN tokens THEN Rotation ELSE Storage
  OBVIOUS
<1> PICK r : r = [Created(w) EXCEPT !.todo = p]
  OBVIOUS
<1>1. /\ IsRecord(r) /\ r.todo = p /\ r.op = w.op /\ r.arg = w.arg
      /\ r.new = made + 1 /\ r.copy = g /\ r.fresh = TRUE /\ r.book = w.book
  <2>1. IsRecord(w)
    BY WebIs
  <2> QED
    BY <2>1 DEF Created, IsRecord
<1>2. thread' = [thread EXCEPT ![Http] = r]
  BY <1>1, PlansBegun DEF Rotate, Handles, Web
<1>3. /\ Web' = r /\ made' = made + 1 /\ made < MaxTokens /\ ~Putting(Http)
      /\ tokens' = tokens /\ devices' = devices /\ now' = now /\ codes' = codes
      /\ acked' = acked /\ gone' = gone /\ asked' = asked
      /\ heir' = With(heir, w.arg, made + 1) /\ w.op = "rotate" /\ w.todo = <<"handle">>
  BY <1>2, WebIs DEF Rotate, files, history, Web
<1>4. /\ r.todo \in HttpPlans /\ r.todo # <<>> /\ Head(r.todo) = "cut"
      /\ r.todo \notin Before \cup Approving \cup Booking \cup {<<"reply">>}
      /\ r.todo \in Rotating => w.arg \in DOMAIN tokens
      /\ r.todo \notin Granting
  BY <1>1, PlansBegun, NoPlan
<1>5. AccessTypeOK'
  <2>1. made \in Nat /\ made' \in 0..MaxTokens /\ made' >= made /\ r.new \in 0..made'
    BY <1>1, <1>3, WebIs
  <2>2. gone' \subseteq 1..made' /\ now' \in Nat /\ codes' \in Nat
    BY <1>3, <2>1 DEF AccessTypeOK
  <2>3. Readable(devices') => IsBook(devices')
    BY <1>3 DEF AccessTypeOK
  <2> QED
    BY <1>1, <1>2, <1>3, <1>4, <2>1, <2>2, <2>3, HttpType
<1>6. /\ DOMAIN heir' = DOMAIN heir \cup {w.arg} /\ heir'[w.arg] = made + 1
      /\ \A k \in DOMAIN heir : k # w.arg => heir'[k] = heir[k]
  BY <1>3 DEF With
<1>7. ASSUME NEW m, Good(m)
      PROVE  \A k \in DOMAIN m : m[k] = "revoked" /\ k \notin asked' =>
               k # w.arg /\ k \in DOMAIN heir' /\ heir'[k] \in DOMAIN m
  <2>1. w.arg \in DOMAIN m => m[w.arg] = "valid"
    BY <1>3, <1>7, NoPlan, PlansBegun DEF Good
  <2> QED
    BY <2>1, <1>6, <1>7, <1>3 DEF Good
<1>8. \A m \in Live : Good(m)'
  <2>1. SUFFICES ASSUME NEW m, Good(m) PROVE Good(m)'
    BY LiveIsGood
  <2>2. DOMAIN m \subseteq 1..made'
    BY <2>1, <1>3, WebIs DEF Good
  <2> QED
    BY <2>1, <2>2, <1>3, <1>4, <1>7 DEF Good, InMap
<1>9. Good(tokens)
  BY DEF Rotate, Safe, Readable
<1>10. Good(g)' /\ made + 1 \in DOMAIN g /\ DOMAIN tokens \subseteq DOMAIN g
  <2>1. /\ g \in [DOMAIN g -> {"valid", "revoked"}] /\ DOMAIN g \subseteq 1..made'
        /\ acked' \subseteq DOMAIN g /\ \A k \in gone' : ~IsValid(g, k)
        /\ Readable(devices') => InMap(g, devices')
        /\ \A k \in DOMAIN g : g[k] = "revoked" => k \in DOMAIN tokens /\ tokens[k] = "revoked"
        /\ DOMAIN tokens \subseteq DOMAIN g /\ made + 1 \in DOMAIN g
    BY <1>3, <1>9, GoodGrown DEF Good
  <2>2. \A k \in DOMAIN g : g[k] = "revoked" /\ k \notin asked' =>
                              k \in DOMAIN heir' /\ heir'[k] \in DOMAIN g
    BY <2>1, <1>7, <1>9
  <2> QED
    BY <2>1, <2>2, <1>3, <1>4 DEF Good, InMap
<1>11. Promised(r)'
  <2>1. made \in Nat
    BY WebIs
  <2> QED
    BY <2>1, <1>1, <1>3, <1>4, <1>6, <1>10 DEF Promised
<1>12. Good(r.copy)'
  BY <1>1, <1>10
<1> QED
  BY <1>2, <1>3, <1>4, <1>5, <1>8, <1>11, <1>12, HttpSafe

LEMMA RetireKeeps == AccessTypeOK /\ Safe /\ Retire => AccessTypeOK' /\ Safe'
<1> SUFFICES ASSUME AccessTypeOK, Safe, Retire PROVE AccessTypeOK' /\ Safe'
  OBVIOUS
<1> PICK w : w = Web
  OBVIOUS
<1> PICK g : g = With(w.copy, w.arg, "revoked")
  OBVIOUS
<1> PICK v : v = [w EXCEPT !.copy = With(@, w.arg, "revoked")]
  OBVIOUS
<1> PICK r : r = Done(v)
  OBVIOUS
<1>1. /\ w.todo # <<>> /\ Head(w.todo) = "retire" /\ w.todo \in Rotating /\ Len(w.todo) # 1
      /\ Tail(w.todo) = Storage /\ w.todo \notin Before \cup Booking \cup Approving
  BY WebIs, PlanElse DEF Retire, At, Web
<1>2. /\ IsRecord(r) /\ r.fresh = w.fresh /\ r.new = w.new /\ r.todo = Storage
      /\ r.op = w.op /\ r.arg = w.arg /\ r.copy = g /\ r.book = w.book
  <2>1. IsRecord(w)
    BY WebIs
  <2>2. /\ IsRecord(v) /\ v.fresh = w.fresh /\ v.new = w.new /\ v.todo = w.todo
        /\ v.op = w.op /\ v.arg = w.arg /\ v.copy = g /\ v.book = w.book
    BY <2>1 DEF IsRecord
  <2>3. Len(v.todo) # 1 /\ Tail(v.todo) = Storage
    BY <2>2, <1>1
  <2> QED
    BY <2>2, <2>3 DEF Done, IsRecord
<1>3. thread' = [thread EXCEPT ![Http] = r]
  BY DEF Retire, Web
<1>4. /\ Web' = r /\ made' = made /\ ~Putting(Http)
      /\ tokens' = tokens /\ devices' = devices /\ now' = now /\ codes' = codes
      /\ acked' = acked /\ gone' = gone /\ asked' = asked /\ heir' = heir
  BY <1>1, <1>3, WebIs DEF Retire, files, counters, history, Web, Putting, At
<1>5. /\ r.todo \in HttpPlans /\ r.todo # <<>> /\ Head(r.todo) = "cut"
      /\ r.todo \notin Before \cup Rotating \cup Approving \cup Booking \cup {<<"reply">>}
      /\ r.todo \notin Granting
  BY <1>2, PlansBegun, NoPlan
<1>6. AccessTypeOK'
  <2>1. made \in Nat /\ made' \in 0..MaxTokens /\ made' >= made /\ r.new \in 0..made'
        /\ r.fresh \in BOOLEAN
    BY <1>2, <1>4, WebIs
  <2>2. gone' \subseteq 1..made' /\ now' \in Nat /\ codes' \in Nat
        /\ (r.op = "revoke" => r.arg \in 1..made')
    BY <1>1, <1>2, <1>4, <2>1 DEF AccessTypeOK
  <2>3. Readable(devices') => IsBook(devices')
    BY <1>4 DEF AccessTypeOK
  <2> QED
    BY <1>2, <1>3, <1>4, <1>5, <2>1, <2>2, <2>3, HttpType
<1>7. \A m \in Live : Good(m)'
  BY <1>4, <1>5, WebIs, GoodKept, LiveIsGood
<1>8. w.fresh => Good(g)' /\ Promised(r)'
  <2> SUFFICES ASSUME w.fresh PROVE Good(g)' /\ Promised(r)'
    OBVIOUS
  <2>1. Good(w.copy) /\ Promised(w)
    BY <1>1, WebIs DEF Safe, Saving, Retire, Web
  <2>2. w.arg \in DOMAIN w.copy /\ w.arg \in DOMAIN heir /\ heir[w.arg] = w.new
        /\ w.new \in DOMAIN w.copy /\ w.new # 0
    BY <1>1, <2>1 DEF Promised
  <2>3. /\ g \in [DOMAIN g -> {"valid", "revoked"}] /\ DOMAIN g = DOMAIN w.copy
        /\ \A x \in gone : ~IsValid(g, x)
        /\ \A x \in DOMAIN w.copy : x # w.arg => g[x] = w.copy[x]
        /\ g[w.arg] = "revoked"
    BY <2>1, <2>2, GoodRevoked
  <2>4. \A k \in DOMAIN g : g[k] = "revoked" /\ k \notin asked' =>
                              k \in DOMAIN heir' /\ heir'[k] \in DOMAIN g
    BY <2>1, <2>2, <2>3, <1>4 DEF Good
  <2>5. Good(g)'
    BY <2>1, <2>3, <2>4, <1>4, <1>5 DEF Good, InMap
  <2>6. Promised(r)'
    BY <2>2, <2>3, <1>2, <1>5 DEF Promised, IsValid
  <2> QED
    BY <2>5, <2>6
<1>9. r.fresh => Good(r.copy)' /\ Promised(r)'
  BY <1>2, <1>8
<1> QED
  BY <1>3, <1>4, <1>5, <1>6, <1>7, <1>9, HttpSafe

LEMMA StartDeviceKeeps == AccessTypeOK /\ Safe /\ StartDevice => AccessTypeOK' /\ Safe'
<1> SUFFICES ASSUME AccessTypeOK, Safe, StartDevice PROVE AccessTypeOK' /\ Safe'
  OBVIOUS
<1> PICK w : w = Web
  OBVIOUS
<1> PICK e : e = [expires |-> now + CodeLife, token |-> None]
  OBVIOUS
<1> PICK b : b = With(devices, codes + 1, e)
  OBVIOUS
<1> PICK r : r = [w EXCEPT !.book = b, !.todo = SaveDevices]
  OBVIOUS
<1>1. /\ IsRecord(r) /\ r.fresh = w.fresh /\ r.new = w.new /\ r.todo = SaveDevices
      /\ r.op = w.op /\ r.arg = w.arg /\ r.copy = w.copy /\ r.book = b
  <2>1. IsRecord(w)
    BY WebIs
  <2> QED
    BY <2>1 DEF IsRecord
<1>2. thread' = [thread EXCEPT ![Http] = r]
  BY <1>1, PlansBegun DEF StartDevice, Handles, Web
<1>3. /\ Web' = r /\ made' = made /\ ~Putting(Http)
      /\ tokens' = tokens /\ devices' = devices /\ now' = now /\ codes' = codes + 1
      /\ acked' = acked /\ gone' = gone /\ asked' = asked /\ heir' = heir
      /\ w.op = "start" /\ Readable(devices)
  BY <1>2, WebIs DEF StartDevice, files, history, Web, Readable
<1>4. /\ r.todo \in HttpPlans /\ r.todo # <<>> /\ Head(r.todo) = "cutDevices"
      /\ r.todo \in Booking /\ r.todo \notin Before \cup Approving \cup Granting
      /\ r.todo # <<"reply">>
  BY <1>1, PlansBegun, NoPlan
<1>5. /\ IsBook(b) /\ \A m : InMap(m, devices) => InMap(m, b)
  <2>1. IsBook(devices) /\ now \in Nat
    BY <1>3 DEF AccessTypeOK
  <2>2. e \in [expires : Nat, token : Nat \cup {None}] /\ e.token = None
    BY <2>1, AccessBounds
  <2>3. /\ DOMAIN b = DOMAIN devices \cup {codes + 1} /\ b[codes + 1] = e
        /\ \A x \in DOMAIN devices : x # codes + 1 => b[x] = devices[x]
        /\ b = [x \in DOMAIN b |-> b[x]]
    BY DEF With
  <2>4. \A x \in DOMAIN b : b[x] = e \/ (x \in DOMAIN devices /\ b[x] = devices[x])
    BY <2>3
  <2>5. \A x \in DOMAIN b : b[x] \in [expires : Nat, token : Nat \cup {None}]
    BY <2>1, <2>2, <2>4 DEF IsBook
  <2> QED
    BY <2>2, <2>3, <2>4, <2>5 DEF IsBook, InMap
<1>6. AccessTypeOK'
  <2>1. made \in Nat /\ made' \in 0..MaxTokens /\ made' >= made /\ r.new \in 0..made'
        /\ r.fresh \in BOOLEAN
    BY <1>1, <1>3, WebIs
  <2>2. gone' \subseteq 1..made' /\ now' \in Nat /\ codes' \in Nat
    BY <1>3, <2>1 DEF AccessTypeOK
  <2>3. Readable(devices') => IsBook(devices')
    BY <1>3 DEF AccessTypeOK
  <2>4. ~(r.op = "revoke")
    BY <1>1, <1>3
  <2> QED
    BY <1>1, <1>2, <1>3, <1>4, <1>5, <2>1, <2>2, <2>3, <2>4, HttpType
<1>7. \A m \in Live : Good(m)'
  <2>1. SUFFICES ASSUME NEW m, Good(m) PROVE Good(m)'
    BY LiveIsGood
  <2>2. InMap(m, b) /\ InMap(m, devices)
    BY <2>1, <1>3, <1>5 DEF Good
  <2> QED
    BY <2>1, <2>2, <1>1, <1>3, <1>4, WebIs DEF Good, InMap
<1> QED
  BY <1>2, <1>3, <1>4, <1>6, <1>7, HttpSafe

\* What an expired code leaves behind.
LEMMA DropsIs ==
  ASSUME AccessTypeOK, Safe, Readable(devices), At(Http, "handle"),
         Handles(Drops(Web)), UNCHANGED <<files, counters, history>>
  PROVE  AccessTypeOK' /\ Safe'
<1> PICK w : w = Web
  OBVIOUS
<1> PICK b : b = Without(devices, w.arg)
  OBVIOUS
<1> PICK r : r = [w EXCEPT !.book = b, !.todo = SaveDevices]
  OBVIOUS
<1>1. /\ IsRecord(r) /\ r.fresh = w.fresh /\ r.new = w.new /\ r.todo = SaveDevices
      /\ r.op = w.op /\ r.arg = w.arg /\ r.copy = w.copy /\ r.book = b
  <2>1. IsRecord(w)
    BY WebIs
  <2> QED
    BY <2>1 DEF IsRecord
<1>2. thread' = [thread EXCEPT ![Http] = r]
  BY <1>1, PlansBegun DEF Drops, Handles, Web
<1>3. /\ Web' = r /\ made' = made /\ ~Putting(Http)
      /\ tokens' = tokens /\ devices' = devices /\ now' = now /\ codes' = codes
      /\ acked' = acked /\ gone' = gone /\ asked' = asked /\ heir' = heir
      /\ w.todo # <<>>
  BY <1>2, WebIs DEF files, counters, history, At, Web
<1>4. /\ r.todo \in HttpPlans /\ r.todo # <<>> /\ Head(r.todo) = "cutDevices"
      /\ r.todo \in Booking /\ r.todo \notin Before \cup Approving \cup Granting
      /\ r.todo # <<"reply">>
  BY <1>1, PlansBegun, NoPlan
<1>5. /\ IsBook(b) /\ \A m : InMap(m, devices) => InMap(m, b)
  <2>1. IsBook(devices)
    BY DEF AccessTypeOK
  <2>2. /\ DOMAIN b \subseteq DOMAIN devices /\ \A x \in DOMAIN b : b[x] = devices[x]
        /\ b = [x \in DOMAIN b |-> b[x]]
    BY DEF Without
  <2> QED
    BY <2>1, <2>2 DEF IsBook, InMap
<1>6. AccessTypeOK'
  <2>1. made \in Nat /\ made' \in 0..MaxTokens /\ made' >= made /\ r.new \in 0..made'
        /\ r.fresh \in BOOLEAN
    BY <1>1, <1>3, WebIs
  <2>2. gone' \subseteq 1..made' /\ now' \in Nat /\ codes' \in Nat
        /\ (r.op = "revoke" => r.arg \in 1..made')
    BY <1>1, <1>3, <2>1 DEF AccessTypeOK
  <2>3. Readable(devices') => IsBook(devices')
    BY <1>3 DEF AccessTypeOK
  <2> QED
    BY <1>1, <1>2, <1>3, <1>4, <1>5, <2>1, <2>2, <2>3, HttpType
<1>7. \A m \in Live : Good(m)'
  <2>1. SUFFICES ASSUME NEW m, Good(m) PROVE Good(m)'
    BY LiveIsGood
  <2>2. InMap(m, b) /\ InMap(m, devices)
    BY <2>1, <1>5 DEF Good
  <2> QED
    BY <2>1, <2>2, <1>1, <1>3, <1>4, WebIs DEF Good, InMap
<1> QED
  BY <1>2, <1>3, <1>4, <1>6, <1>7, HttpSafe

\* The end of a request: what is answered is in every good map.
LEMMA EndIs ==
  ASSUME AccessTypeOK, Safe, thread' = [thread EXCEPT ![Http] = Idle], ~Putting(Http),
         UNCHANGED <<files, counters, asked, heir>>, gone' \subseteq 1..made,
         \A m : Good(m) => acked' \subseteq DOMAIN m /\ \A k \in gone' : ~IsValid(m, k)
  PROVE  AccessTypeOK' /\ Safe'
<1> PICK r : r = Idle
  OBVIOUS
<1>1. /\ IsRecord(r) /\ r.todo = <<>> /\ r.new = 0 /\ r.fresh = TRUE
  BY IdleIs
<1>2. /\ Web' = r /\ made' = made /\ tokens' = tokens /\ devices' = devices /\ now' = now
      /\ codes' = codes /\ asked' = asked /\ heir' = heir
  BY WebIs DEF files, counters
<1>3. AccessTypeOK'
  <2>0. made \in Nat /\ made \in 0..MaxTokens
    BY WebIs
  <2>a. r.fresh \in BOOLEAN
    BY <1>1
  <2>1. made \in Nat /\ made' \in 0..MaxTokens /\ made' >= made /\ r.new \in 0..made'
    BY <1>1, <1>2, <2>0
  <2>2. gone' \subseteq 1..made' /\ now' \in Nat /\ codes' \in Nat
    BY <1>2 DEF AccessTypeOK
  <2>3. Readable(devices') => IsBook(devices')
    BY <1>2 DEF AccessTypeOK
  <2>4. r.todo \in HttpPlans /\ r.todo \notin Before \cup Approving \cup Booking \cup Granting
    BY <1>1, NoPlan DEF HttpPlans
  <2> QED
    BY <1>1, <1>2, <2>a, <2>1, <2>2, <2>3, <2>4, HttpType
<1>4. \A m \in Live : Good(m)'
  <2>1. SUFFICES ASSUME NEW m, Good(m) PROVE Good(m)'
    BY LiveIsGood
  <2> QED
    BY <2>1, <1>1, <1>2, NoPlan DEF Good, InMap
<1> QED
  BY <1>1, <1>2, <1>3, <1>4, HttpSafe

LEMMA PollDeviceKeeps == AccessTypeOK /\ Safe /\ PollDevice => AccessTypeOK' /\ Safe'
<1> SUFFICES ASSUME AccessTypeOK, Safe, PollDevice PROVE AccessTypeOK' /\ Safe'
  OBVIOUS
<1>1. Readable(devices) /\ At(Http, "handle")
  BY DEF PollDevice, Readable
<1>2. CASE Web.arg \in DOMAIN devices /\ Expired(Web.arg)
  BY <1>1, <1>2, DropsIs DEF PollDevice, Web, history, files, counters
<1>3. CASE ~(Web.arg \in DOMAIN devices /\ Expired(Web.arg))
  <2>1. thread' = [thread EXCEPT ![Http] = Idle] /\ ~Putting(Http)
    BY <1>1, <1>3, IdleIs, WebIs DEF PollDevice, Handles, Web
  <2>2. UNCHANGED <<files, counters, asked, heir>> /\ gone' = gone /\ gone \subseteq 1..made
    BY DEF PollDevice, AccessTypeOK
  <2>3. acked' \subseteq acked \cup (IF Web.arg \in DOMAIN devices
                                      THEN {devices[Web.arg].token} \ {None} ELSE {})
    BY DEF PollDevice, Web
  <2>4. ASSUME NEW m, Good(m)
        PROVE  acked' \subseteq DOMAIN m /\ \A k \in gone' : ~IsValid(m, k)
    BY <2>2, <2>3, <2>4, <1>1 DEF Good, InMap
  <2> QED
    BY <2>1, <2>2, <2>4, EndIs
<1> QED
  BY <1>2, <1>3

LEMMA FailKeeps == AccessTypeOK /\ Safe /\ Fail => AccessTypeOK' /\ Safe'
<1> SUFFICES ASSUME AccessTypeOK, Safe, Fail PROVE AccessTypeOK' /\ Safe'
  OBVIOUS
<1>1. thread' = [thread EXCEPT ![Http] = Idle] /\ ~Putting(Http)
  BY WebIs DEF Fail
<1>2. UNCHANGED <<files, counters, asked, heir>> /\ gone' = gone /\ gone \subseteq 1..made
      /\ acked' = acked
  BY DEF Fail, AccessTypeOK, history
<1>3. ASSUME NEW m, Good(m)
      PROVE  acked' \subseteq DOMAIN m /\ \A k \in gone' : ~IsValid(m, k)
  BY <1>2, <1>3 DEF Good
<1> QED
  BY <1>1, <1>2, <1>3, EndIs

LEMMA ReplyKeeps == AccessTypeOK /\ Safe /\ Reply => AccessTypeOK' /\ Safe'
<1> SUFFICES ASSUME AccessTypeOK, Safe, Reply PROVE AccessTypeOK' /\ Safe'
  OBVIOUS
<1>1. Web.todo = <<"reply">> /\ Web.todo # <<>> /\ ~Putting(Http)
  BY WebIs, PlanElse DEF Reply, At, Putting, Web
<1>2. thread' = [thread EXCEPT ![Http] = Idle] /\ UNCHANGED <<files, counters, asked, heir>>
  BY DEF Reply
<1>3. /\ acked' = IF Web.new = 0 THEN acked ELSE acked \cup {Web.new}
      /\ gone' = IF Web.op = "revoke" THEN gone \cup {Web.arg} ELSE gone
  BY DEF Reply, Web
<1>4. gone' \subseteq 1..made
  BY <1>1, <1>3 DEF AccessTypeOK
<1>5. ASSUME NEW m, Good(m)
      PROVE  acked' \subseteq DOMAIN m /\ \A k \in gone' : ~IsValid(m, k)
  BY <1>1, <1>3, <1>5 DEF Good
<1> QED
  BY <1>1, <1>2, <1>4, <1>5, EndIs

LEMMA ApproveDeviceKeeps == AccessTypeOK /\ Safe /\ ApproveDevice => AccessTypeOK' /\ Safe'
<1> SUFFICES ASSUME AccessTypeOK, Safe, ApproveDevice PROVE AccessTypeOK' /\ Safe'
  OBVIOUS
<1> PICK w : w = Web
  OBVIOUS
<1>1. /\ Readable(devices) /\ At(Http, "handle") /\ w.arg \in DOMAIN devices
      /\ Readable(tokens) /\ made < MaxTokens /\ w.op = "approve"
  BY DEF ApproveDevice, Readable, Web
<1>2. CASE Expired(w.arg)
  BY <1>1, <1>2, DropsIs DEF ApproveDevice, Web, history, files, counters
<1>3. CASE ~Expired(w.arg)
  <2> PICK e : e = [devices[w.arg] EXCEPT !.token = made + 1]
    OBVIOUS
  <2> PICK b : b = With(devices, w.arg, e)
    OBVIOUS
  <2> PICK g : g = With(tokens, made + 1, "valid")
    OBVIOUS
  <2> PICK r : r = [Granted(Created(w)) EXCEPT !.todo = Approval]
    OBVIOUS
  <2>1. /\ IsRecord(r) /\ r.todo = Approval /\ r.op = w.op /\ r.arg = w.arg
        /\ r.new = made + 1 /\ r.copy = g /\ r.fresh = TRUE /\ r.book = b
    <3> PICK v : v = Created(w)
      OBVIOUS
    <3>1. IsRecord(w)
      BY WebIs
    <3>2. /\ IsRecord(v) /\ v.op = w.op /\ v.arg = w.arg /\ v.new = made + 1 /\ v.copy = g
          /\ v.fresh = TRUE /\ v.book = w.book
      BY <3>1 DEF Created, IsRecord
    <3>3. r = [[v EXCEPT !.book = b] EXCEPT !.todo = Approval]
      BY <3>2 DEF Granted
    <3> QED
      BY <3>2, <3>3 DEF IsRecord
  <2>2. thread' = [thread EXCEPT ![Http] = r]
    BY <2>1, <1>3, PlansBegun DEF ApproveDevice, Handles, Web
  <2>3. /\ Web' = r /\ made' = made + 1 /\ ~Putting(Http)
        /\ tokens' = tokens /\ devices' = devices /\ now' = now /\ codes' = codes
        /\ acked' = acked /\ gone' = gone /\ asked' = asked /\ heir' = heir
    BY <2>2, <1>3, WebIs DEF ApproveDevice, files, history, Web
  <2>4. /\ r.todo \in HttpPlans /\ r.todo # <<>> /\ Head(r.todo) = "cut"
        /\ r.todo \notin Before \cup Rotating \cup Booking \cup {<<"reply">>}
        /\ r.todo \notin Granting
    BY <2>1, PlansBegun, NoPlan
  <2>5. made \in Nat /\ made' \in 0..MaxTokens /\ made' >= made /\ r.new \in 0..made'
    <3>1. made \in Nat /\ MaxTokens \in Nat
      BY WebIs
    <3> QED
      BY <3>1, <1>1, <2>1, <2>3
  <2>6. /\ IsBook(b)
        /\ \A x \in DOMAIN b : \/ b[x].token = made + 1
                               \/ x \in DOMAIN devices /\ b[x] = devices[x]
    <3>1. IsBook(devices)
      BY <1>1 DEF AccessTypeOK
    <3>2. e \in [expires : Nat, token : Nat \cup {None}] /\ e.token = made + 1
      BY <3>1, <2>5, <1>1 DEF IsBook
    <3>3. /\ DOMAIN b = DOMAIN devices /\ b[w.arg] = e
          /\ \A x \in DOMAIN devices : x # w.arg => b[x] = devices[x]
          /\ b = [x \in DOMAIN b |-> b[x]]
      BY <1>1 DEF With
    <3>4. \A x \in DOMAIN b : b[x] \in [expires : Nat, token : Nat \cup {None}]
      BY <3>1, <3>2, <3>3 DEF IsBook
    <3>5. IsBook(b)
      BY <3>3, <3>4 DEF IsBook
    <3>6. ASSUME NEW x \in DOMAIN b
          PROVE  b[x].token = made + 1 \/ (x \in DOMAIN devices /\ b[x] = devices[x])
      <4>1. CASE x = w.arg
        BY <4>1, <3>2, <3>3
      <4>2. CASE x # w.arg
        BY <4>2, <3>3
      <4> QED
        BY <4>1, <4>2
    <3> QED
      BY <3>5, <3>6
  <2>7. AccessTypeOK'
    <3>1. gone' \subseteq 1..made' /\ now' \in Nat /\ codes' \in Nat
      BY <2>3, <2>5 DEF AccessTypeOK
    <3>2. Readable(devices') => IsBook(devices')
      BY <2>3 DEF AccessTypeOK
    <3> QED
      BY <1>1, <2>1, <2>2, <2>3, <2>4, <2>5, <2>6, <3>1, <3>2, HttpType
  <2>8. \A m \in Live : Good(m)'
    BY <2>3, <2>4, <2>5, GoodKept, LiveIsGood
  <2>9. Good(tokens)
    BY <1>1 DEF Safe
  <2>10. Good(g)' /\ made + 1 \in DOMAIN g /\ InMap(g, b)
    <3>1. /\ g \in [DOMAIN g -> {"valid", "revoked"}] /\ DOMAIN g \subseteq 1..made'
          /\ acked' \subseteq DOMAIN g /\ \A k \in gone' : ~IsValid(g, k)
          /\ InMap(g, devices)
          /\ \A k \in DOMAIN g : g[k] = "revoked" => k \in DOMAIN tokens /\ tokens[k] = "revoked"
          /\ DOMAIN tokens \subseteq DOMAIN g /\ made + 1 \in DOMAIN g
      BY <2>3, <2>9, <1>1, GoodGrown DEF Good
    <3>2. \A k \in DOMAIN g : g[k] = "revoked" /\ k \notin asked' =>
                                k \in DOMAIN heir' /\ heir'[k] \in DOMAIN g
      BY <3>1, <2>3, <2>9 DEF Good
    <3>3. Good(g)'
      BY <3>1, <3>2, <2>3, <2>4 DEF Good, InMap
    <3>4. InMap(g, b)
      BY <3>1, <2>6 DEF InMap
    <3> QED
      BY <3>1, <3>3, <3>4
  <2>11. Promised(r)'
    BY <1>1, <2>1, <2>3, <2>4, <2>10 DEF Promised, InMap
  <2>12. Good(r.copy)'
    BY <2>1, <2>10
  <2> QED
    BY <2>2, <2>3, <2>4, <2>7, <2>8, <2>11, <2>12, HttpSafe
<1> QED
  BY <1>2, <1>3

\* The two halves of a save of the codes.
LEMMA CutDevicesKeeps == AccessTypeOK /\ Safe /\ CutDevices => AccessTypeOK' /\ Safe'
<1> SUFFICES ASSUME AccessTypeOK, Safe, CutDevices PROVE AccessTypeOK' /\ Safe'
  OBVIOUS
<1> PICK w : w = Web
  OBVIOUS
<1> PICK r : r = Done(w)
  OBVIOUS
<1>1. /\ w.todo # <<>> /\ w.todo \in Booking /\ Len(w.todo) # 1 /\ Tail(w.todo) \in Booking
      /\ Head(Tail(w.todo)) = "putDevices" /\ Tail(w.todo) # <<>> /\ Tail(w.todo) # <<"reply">>
      /\ Tail(w.todo) \in Granting <=> w.todo \in Granting
      /\ Tail(w.todo) \notin Before \cup Approving
      /\ Head(w.todo) = "cutDevices"
  BY WebIs, PlanElse DEF CutDevices, At, Web
<1>2. /\ IsRecord(r) /\ r.fresh = w.fresh /\ r.new = w.new /\ r.todo = Tail(w.todo)
      /\ r.op = w.op /\ r.arg = w.arg /\ r.book = w.book
  <2>1. IsRecord(w)
    BY WebIs
  <2> QED
    BY <2>1, <1>1 DEF Done, IsRecord
<1>3. thread' = [thread EXCEPT ![Http] = r]
  BY DEF CutDevices, Web
<1>4. /\ Web' = r /\ made' = made /\ ~Putting(Http)
      /\ tokens' = tokens /\ ~Readable(devices') /\ now' = now /\ codes' = codes
      /\ acked' = acked /\ gone' = gone /\ asked' = asked /\ heir' = heir
  BY <1>1, <1>3, WebIs, ReadableIs DEF CutDevices, counters, history, Web, Putting, At
<1>5. AccessTypeOK'
  <2>0. made \in Nat /\ made \in 0..MaxTokens /\ w.new \in 0..made /\ w.fresh \in BOOLEAN
    BY WebIs
  <2>1. made \in Nat /\ made' \in 0..MaxTokens /\ made' >= made /\ r.new \in 0..made'
        /\ r.fresh \in BOOLEAN
    BY <1>2, <1>4, <2>0
  <2>2. gone' \subseteq 1..made' /\ now' \in Nat /\ codes' \in Nat
        /\ (r.op = "revoke" => r.arg \in 1..made')
    BY <1>1, <1>2, <1>4, <2>1 DEF AccessTypeOK
  <2>3. r.todo \in HttpPlans /\ (r.todo \in Granting => r.op = "approve") /\ IsBook(r.book)
    BY <1>1, <1>2, PlansBegun DEF AccessTypeOK
  <2> QED
    BY <1>1, <1>2, <1>3, <1>4, <2>1, <2>2, <2>3, HttpType
<1>6. \A m \in Live : Good(m)'
  <2>1. SUFFICES ASSUME NEW m, Good(m) PROVE Good(m)'
    BY LiveIsGood
  <2> QED
    BY <2>1, <1>1, <1>2, <1>4 DEF Good, InMap
<1> QED
  BY <1>1, <1>2, <1>3, <1>4, <1>5, <1>6, HttpSafe

LEMMA PutDevicesKeeps == AccessTypeOK /\ Safe /\ PutDevices => AccessTypeOK' /\ Safe'
<1> SUFFICES ASSUME AccessTypeOK, Safe, PutDevices PROVE AccessTypeOK' /\ Safe'
  OBVIOUS
<1> PICK w : w = Web
  OBVIOUS
<1> PICK r : r = Done(w)
  OBVIOUS
<1>1. /\ w.todo # <<>> /\ w.todo \in Booking /\ Head(w.todo) = "putDevices"
      /\ Len(w.todo) = 1 <=> w.todo \notin Granting
      /\ w.todo \in Granting => Tail(w.todo) = <<"reply">>
  BY WebIs, PlanElse DEF PutDevices, At, Web
<1>2. /\ IsRecord(r) /\ r.new \in {0, w.new} /\ r.fresh \in BOOLEAN
      /\ \/ r.todo = <<>>
         \/ /\ r.todo = <<"reply">> /\ w.todo \in Granting /\ r.op = "approve"
            /\ r.new = w.new
  <2>1. IsRecord(w) /\ w.fresh \in BOOLEAN /\ (w.todo \in Granting => w.op = "approve")
    BY WebIs DEF AccessTypeOK
  <2>2. CASE Len(w.todo) = 1
    <3>1. r = Idle
      BY <2>2 DEF Done
    <3> QED
      BY <3>1, IdleIs
  <2>3. CASE Len(w.todo) # 1
    BY <2>1, <2>3, <1>1 DEF Done, IsRecord
  <2> QED
    BY <2>2, <2>3
<1>3. thread' = [thread EXCEPT ![Http] = r]
  BY DEF PutDevices, Web
<1>4. /\ Web' = r /\ made' = made /\ ~Putting(Http)
      /\ tokens' = tokens /\ devices' = w.book /\ now' = now /\ codes' = codes
      /\ acked' = acked /\ gone' = gone /\ asked' = asked /\ heir' = heir
  BY <1>1, <1>3, WebIs DEF PutDevices, counters, history, Web, Putting, At
<1>5. AccessTypeOK'
  <2>0. made \in Nat /\ made \in 0..MaxTokens /\ w.new \in 0..made
    BY WebIs
  <2>1. made \in Nat /\ made' \in 0..MaxTokens /\ made' >= made /\ r.new \in 0..made'
    BY <1>2, <1>4, <2>0
  <2>2. gone' \subseteq 1..made' /\ now' \in Nat /\ codes' \in Nat
    BY <1>4, <2>1 DEF AccessTypeOK
  <2>3. r.todo \in HttpPlans /\ r.todo \notin Before \cup Approving \cup Booking \cup Granting
        /\ (r.todo # <<>> => r.op = "approve")
    BY <1>2, NoPlan DEF HttpPlans
  <2>4. IsBook(devices')
    BY <1>1, <1>4 DEF AccessTypeOK
  <2> QED
    BY <1>2, <1>3, <1>4, <2>1, <2>2, <2>3, <2>4, HttpType
<1>6. \A m \in Live : Good(m)'
  <2>1. SUFFICES ASSUME NEW m, Good(m) PROVE Good(m)'
    BY LiveIsGood
  <2>2. InMap(m, devices)' /\ (r.todo = <<"reply">> /\ r.new # 0 => r.new \in DOMAIN m)
    BY <2>1, <1>1, <1>2, <1>4, NoPlan DEF Good, InMap
  <2>3. r.todo \notin Before \cup Approving \cup Booking \cup Granting
        /\ (r.todo # <<>> => r.op # "revoke")
    BY <1>2, NoPlan
  <2> QED
    BY <2>1, <2>2, <2>3, <1>2, <1>4, NoPlan DEF Good
<1>7. r.todo # <<>> => Head(r.todo) = "reply"
  BY <1>2, PlansBegun
<1> QED
  BY <1>3, <1>4, <1>5, <1>6, <1>7, HttpSafe

-----------------------------------------------------------------------------
(* A request that is let in, and the ends of the process.                   *)

\* A token that is accepted is in the file as it is: every copy that may still be
\* saved is the file's content, and not one in which that token is revoked.
LEMMA AskKeeps ==
  ASSUME AccessTypeOK, Safe, NEW op, NEW by, NEW arg, Ask(op, by, arg),
         op = "rotate" => arg = by /\ by \in {Secret} \cup Known,
         op = "revoke" => arg \in Known
  PROVE  AccessTypeOK' /\ Safe'
<1>1. Web.todo = <<>> /\ ~Putting(Http)
  BY DEF Ask, Web, Putting, At
<1>2. /\ made' = made /\ tokens' = tokens /\ devices' = devices /\ now' = now /\ codes' = codes
      /\ acked' = acked /\ gone' = gone /\ asked' = asked /\ heir' = heir
  BY DEF Ask, files, counters, history
<1>3. PICK r : /\ thread' = [thread EXCEPT ![Http] = r]
               /\ IsRecord(r) /\ r.op = op /\ r.arg = arg /\ r.new = 0 /\ r.fresh = TRUE
               /\ \/ r.todo = <<"handle">> /\ (by = Secret \/ op \in Free)
                  \/ /\ r.todo = Admission /\ r.copy = tokens
                     /\ Readable(tokens) /\ IsValid(tokens, by)
  <2> PICK x : x = [Idle EXCEPT !.op = op, !.arg = arg]
    OBVIOUS
  <2>1. IsRecord(x) /\ x.op = op /\ x.arg = arg /\ x.new = 0 /\ x.fresh = TRUE
    BY IdleIs DEF IsRecord
  <2>2. CASE /\ by = Secret \/ op \in Free
             /\ thread' = [thread EXCEPT ![Http] = [x EXCEPT !.todo = <<"handle">>]]
    <3> PICK y : y = [x EXCEPT !.todo = <<"handle">>]
      OBVIOUS
    <3>1. /\ IsRecord(y) /\ y.op = op /\ y.arg = arg /\ y.new = 0 /\ y.fresh = TRUE
          /\ y.todo = <<"handle">>
      BY <2>1 DEF IsRecord
    <3> QED
      BY <3>1, <2>2
  <2>3. CASE /\ Readable(tokens) /\ IsValid(tokens, by)
             /\ thread' = [thread EXCEPT ![Http] =
                             [x EXCEPT !.todo = Admission, !.copy = tokens]]
    <3> PICK y : y = [x EXCEPT !.todo = Admission, !.copy = tokens]
      OBVIOUS
    <3>1. /\ IsRecord(y) /\ y.op = op /\ y.arg = arg /\ y.new = 0 /\ y.fresh = TRUE
          /\ y.todo = Admission /\ y.copy = tokens
      BY <2>1 DEF IsRecord
    <3> QED
      BY <3>1, <2>3
  <2> QED
    BY <2>2, <2>3 DEF Ask, Readable
<1>4. /\ r.todo \in HttpPlans /\ r.todo # <<>> /\ Head(r.todo) \in {"cut", "handle"}
      /\ r.todo \in Before /\ r.todo \notin Approving \cup Booking \cup Granting \cup {<<"reply">>}
      /\ Head(r.todo) = "cut" => r.copy = tokens /\ Readable(tokens)
  BY <1>3, PlansBegun, NoPlan DEF HttpPlans
<1>5. Web' = r
  BY <1>3, WebIs
<1>6. AccessTypeOK'
  <2>0. made \in Nat /\ made \in 0..MaxTokens
    BY WebIs
  <2>1. made \in Nat /\ made' \in 0..MaxTokens /\ made' >= made /\ r.new \in 0..made'
    BY <1>2, <1>3, <2>0
  <2>2. gone' \subseteq 1..made' /\ now' \in Nat /\ codes' \in Nat
    BY <1>2, <2>1 DEF AccessTypeOK
  <2>3. Readable(devices') => IsBook(devices')
    BY <1>2 DEF AccessTypeOK
  <2>4. r.op = "revoke" => r.arg \in 1..made'
    BY <1>2, <1>3 DEF Known
  <2>5. r.fresh \in BOOLEAN
    BY <1>3
  <2> QED
    BY <1>2, <1>3, <1>4, <2>1, <2>2, <2>3, <2>4, <2>5, HttpType
<1>7. ASSUME NEW m, Good(m), op = "rotate" /\ arg \in DOMAIN m => m[arg] = "valid"
      PROVE  Good(m)'
  BY <1>2, <1>3, <1>4, <1>5, <1>7 DEF Good, InMap
<1>8. \A m \in Live : Good(m)'
  <2>1. CASE by = Secret \/ op \in Free
    <3>1. ASSUME NEW m, Good(m) PROVE op = "rotate" => arg \notin DOMAIN m
      <4>1. DOMAIN m \subseteq Nat
        BY <3>1, WebIs DEF Good
      <4> QED
        BY <2>1, <4>1, ContentsAssumption DEF Free
    <3> QED
      BY <3>1, <1>7, LiveIsGood
  <2>2. CASE Readable(tokens) /\ IsValid(tokens, by)
    <3>1. \A c \in Conns : Saving(c) => thread[c].copy = tokens
      <4>1. tokens # Empty
        BY <2>2, ReadableIs
      <4>2. ASSUME NEW c \in Conns, Saving(c) PROVE thread[c].copy = tokens
        <5>1. c \in Threads /\ thread[c].todo \in ConnPlans
          BY DEF Threads, AccessTypeOK
        <5>2. ~Putting(c)
          BY <4>1, <5>1 DEF Safe
        <5>3. thread[c].fresh /\ At(c, "cut")
          BY <4>2, <5>1, <5>2, PlanOfConn DEF Saving, Putting, At
        <5> QED
          BY <5>3 DEF Safe
      <4> QED
        BY <4>2
    <3>2. \A m \in Live : m = tokens
      BY <3>1, <2>2 DEF Live
    <3>3. Good(tokens)
      BY <2>2 DEF Safe
    <3>4. op = "rotate" /\ arg \in DOMAIN tokens => tokens[arg] = "valid"
      BY <2>2 DEF IsValid
    <3>5. \A m : m = tokens => Good(m)'
      BY <3>3, <3>4, <1>7
    <3> QED
      BY <3>2, <3>5
  <2> QED
    BY <1>3, <2>1, <2>2
<1>9. Head(r.todo) = "cut" => Good(r.copy)'
  <2>1. SUFFICES ASSUME Head(r.todo) = "cut" PROVE Good(r.copy)'
    OBVIOUS
  <2>2. r.copy \in Live
    BY <2>1, <1>4 DEF Live
  <2> QED
    BY <2>2, <1>8
<1> QED
  BY <1>1, <1>2, <1>3, <1>4, <1>6, <1>8, <1>9, HttpSafe

\* What a step of one thread leaves of the others' types.
LEMMA ThreadsType ==
  ASSUME AccessTypeOK, DOMAIN thread' = Threads, thread' = [t \in Threads |-> thread'[t]],
         UNCHANGED <<devices, now, made, codes, gone>>,
         \A t \in Threads : IsRecord(thread'[t]) /\ thread'[t].fresh \in BOOLEAN
                            /\ thread'[t].new \in 0..made,
         \A c \in Conns : thread'[c].todo \in ConnPlans,
         NEW r, r = thread'[Http], r.todo \in HttpPlans,
         r.todo \in Approving \cup Booking => IsBook(r.book),
         r.todo \in Approving \cup Granting => r.op = "approve",
         r.todo # <<>> /\ r.op = "revoke" => r.arg \in 1..made,
         r.todo \in Before => r.new = 0
  PROVE  AccessTypeOK'
<1>1. \A t \in Threads : IsThread(thread[t])'
  BY DEF IsThread, IsRecord
<1> QED
  BY <1>1 DEF AccessTypeOK, Web

LEMMA ConnectKeeps ==
  ASSUME AccessTypeOK, Safe, NEW c \in Conns, NEW by, Connect(c, by)
  PROVE  AccessTypeOK' /\ Safe'
<1> PICK r : r = [Idle EXCEPT !.op = "connect", !.todo = Save, !.copy = tokens]
  OBVIOUS
<1>1. IsRecord(r) /\ r.todo = Save /\ r.copy = tokens /\ r.fresh = TRUE /\ r.new = 0
  BY IdleIs DEF IsRecord
<1>2. /\ c \in Threads /\ c # Http /\ Http \in Threads /\ thread[c].todo = <<>>
      /\ Readable(tokens)
  BY ThreadsAssumption DEF Threads, Connect, Readable
<1>3. /\ thread'[c] = r /\ \A t \in Threads : t # c => thread'[t] = thread[t]
      /\ DOMAIN thread' = Threads /\ thread' = [t \in Threads |-> thread'[t]]
  BY <1>2 DEF Connect, AccessTypeOK
<1>4. /\ made' = made /\ tokens' = tokens /\ devices' = devices /\ now' = now /\ codes' = codes
      /\ acked' = acked /\ gone' = gone /\ asked' = asked /\ heir' = heir /\ Web' = Web
  BY <1>2, <1>3 DEF Connect, files, counters, history, Web
<1>5. AccessTypeOK'
  <2>1. ASSUME NEW t \in Threads
        PROVE  IsRecord(thread'[t]) /\ thread'[t].fresh \in BOOLEAN /\ thread'[t].new \in 0..made
    <3>1. CASE t = c
      <4>1. 0 \in 0..made
        BY WebIs
      <4> QED
        BY <3>1, <4>1, <1>1, <1>3
    <3>2. CASE t # c
      BY <3>2, <1>3 DEF AccessTypeOK, IsThread, IsRecord
    <3> QED
      BY <3>1, <3>2
  <2>2. \A d \in Conns : thread'[d].todo \in ConnPlans
    BY <1>1, <1>3, Tails DEF AccessTypeOK, ConnPlans, Threads
  <2>3. thread'[Http] = thread[Http] /\ UNCHANGED <<devices, now, made, codes, gone>>
    BY <1>2, <1>3, <1>4
  <2> QED
    BY <2>1, <2>2, <2>3, <1>3, ThreadsType DEF AccessTypeOK, Web
<1>6. \A m : Good(m)' <=> Good(m)
  BY <1>4 DEF Good, InMap, IsValid
<1>7. ASSUME NEW t \in Threads, t # c
      PROVE  (Saving(t)' <=> Saving(t)) /\ (Putting(t)' <=> Putting(t))
             /\ (At(t, "cut")' <=> At(t, "cut"))
  BY <1>3, <1>7 DEF Saving, Putting, At
<1>8. Save # <<>> /\ Head(Save) = "cut"
  BY DEF Save
<1>9. ~Putting(c)'
  BY <1>1, <1>3, <1>8 DEF Putting, At
<1>10. Good(tokens) /\ \A m : m = tokens => Good(m)'
  BY <1>2, <1>6 DEF Safe
<1>11. \A t \in Threads : Saving(t)' => Good(thread[t].copy)'
  <2>1. SUFFICES ASSUME NEW t \in Threads, Saving(t)' PROVE Good(thread[t].copy)'
    OBVIOUS
  <2> PICK m : m = thread'[t].copy
    OBVIOUS
  <2>2. Good(m)'
    <3>1. CASE t = c
      BY <3>1, <1>1, <1>3, <1>10
    <3>2. CASE t # c
      BY <3>2, <2>1, <1>3, <1>6, <1>7 DEF Safe
    <3> QED
      BY <3>1, <3>2
  <2> QED
    BY <2>2
<1>12. Readable(tokens') /\ (Readable(tokens') => Good(tokens)')
  <2> PICK m : m = tokens'
    OBVIOUS
  <2>1. Good(m)'
    BY <1>4, <1>10
  <2> QED
    BY <2>1, <1>2, <1>4
<1>13. \A t \in Threads : Putting(t)' => tokens' = Empty
  BY <1>4, <1>7, <1>9 DEF Safe
<1>14. \A d \in Conns : thread'[d].fresh /\ At(d, "cut")' => thread'[d].copy = tokens'
  BY <1>1, <1>3, <1>4, <1>7 DEF Safe, Threads
<1>15. Saving(Http)' /\ Web'.todo \notin Before => Promised(Web)'
  BY <1>2, <1>4, <1>7 DEF Safe, Promised
<1> QED
  BY <1>5, <1>11, <1>12, <1>13, <1>14, <1>15 DEF Safe

\* A save that meets no other: those who are in the middle of one are now late.
LEMMA SavesIs ==
  ASSUME AccessTypeOK, NEW t \in Threads, Saves(t), ~disturbed'
  PROVE  /\ thread[t].fresh = TRUE /\ thread'[t] = Done(thread[t])
         /\ DOMAIN thread' = Threads /\ thread' = [o \in Threads |-> thread'[o]]
         /\ \A o \in Threads : o # t =>
              /\ IsRecord(thread'[o]) /\ thread'[o].fresh \in BOOLEAN
              /\ thread'[o].todo = thread[o].todo /\ thread'[o].op = thread[o].op
              /\ thread'[o].arg = thread[o].arg /\ thread'[o].new = thread[o].new
              /\ thread'[o].book = thread[o].book
              /\ ~Saving(o)' /\ ~Putting(o)' /\ ~(thread'[o].fresh /\ At(o, "cut")')
<1>1. thread[t].fresh = TRUE /\ thread'[t] = Done(thread[t])
      /\ DOMAIN thread' = Threads /\ thread' = [o \in Threads |-> thread'[o]]
  BY DEF Saves, AccessTypeOK, IsThread
<1>2. ASSUME NEW o \in Threads, o # t
      PROVE  /\ IsRecord(thread'[o]) /\ thread'[o].fresh = (thread[o].todo = <<>>)
             /\ thread'[o].todo = thread[o].todo /\ thread'[o].op = thread[o].op
             /\ thread'[o].arg = thread[o].arg /\ thread'[o].new = thread[o].new
             /\ thread'[o].book = thread[o].book
  <2> PICK x : x = thread[o]
    OBVIOUS
  <2>1. IsRecord(x) /\ thread'[o] = [x EXCEPT !.fresh = (x.todo = <<>>)]
    BY <1>2 DEF Saves, AccessTypeOK, IsThread, IsRecord
  <2> QED
    BY <2>1 DEF IsRecord
<1>3. ASSUME NEW o \in Threads, o # t
      PROVE  ~Saving(o)' /\ ~Putting(o)' /\ ~(thread'[o].fresh /\ At(o, "cut")')
             /\ thread'[o].fresh \in BOOLEAN
  BY <1>2, <1>3 DEF Saving, Putting, At
<1> QED
  BY <1>1, <1>2, <1>3

LEMMA CutKeeps ==
  ASSUME AccessTypeOK, Safe, NEW t \in Threads, Cut(t), ~disturbed'
  PROVE  AccessTypeOK' /\ Safe'
<1> PICK w : w = thread[t]
  OBVIOUS
<1> PICK r : r = thread'[t]
  OBVIOUS
<1> PICK h : h = Web'
  OBVIOUS
<1>0. At(t, "cut") /\ Saves(t) /\ tokens' = Empty /\ w.todo # <<>> /\ Head(w.todo) = "cut"
  BY DEF Cut, At
<1>1. /\ made' = made /\ devices' = devices /\ now' = now /\ codes' = codes
      /\ acked' = acked /\ gone' = gone /\ asked' = asked /\ heir' = heir
  BY DEF Cut, counters, history
<1>2. /\ w.fresh = TRUE /\ r = Done(w)
      /\ \A o \in Threads : o # t =>
              /\ IsRecord(thread'[o]) /\ thread'[o].fresh \in BOOLEAN
              /\ thread'[o].todo = thread[o].todo /\ thread'[o].op = thread[o].op
              /\ thread'[o].arg = thread[o].arg /\ thread'[o].new = thread[o].new
              /\ thread'[o].book = thread[o].book
              /\ ~Saving(o)' /\ ~Putting(o)' /\ ~(thread'[o].fresh /\ At(o, "cut")')
  BY <1>0, SavesIs
<1>3. /\ IsRecord(w) /\ w.new \in 0..made /\ Http \in Threads
      /\ t = Http => w = Web /\ w.todo \in HttpPlans
      /\ t # Http => t \in Conns /\ w.todo \in ConnPlans
      /\ \A c \in Conns : c \in Threads /\ c # Http
  BY ThreadsAssumption DEF AccessTypeOK, Threads, IsThread, IsRecord, Web
<1>4. /\ Len(w.todo) # 1 /\ Tail(w.todo) # <<>> /\ Head(Tail(w.todo)) = "put"
  BY <1>0, <1>3, PlanCut, PlanOfConn
<1>5. /\ IsRecord(r) /\ r.todo = Tail(w.todo) /\ r.fresh = TRUE /\ r.op = w.op /\ r.arg = w.arg
      /\ r.new = w.new /\ r.copy = w.copy /\ r.book = w.book
  <2>1. IsRecord(w) /\ r = [w EXCEPT !.todo = Tail(w.todo)]
    BY <1>2, <1>3, <1>4 DEF Done
  <2>2. /\ r.todo = Tail(w.todo) /\ r.fresh = w.fresh /\ r.op = w.op /\ r.arg = w.arg
        /\ r.new = w.new /\ r.copy = w.copy /\ r.book = w.book
    BY <2>1 DEF IsRecord
  <2>3. IsRecord(r)
    BY <2>1 DEF IsRecord
  <2> QED
    BY <2>2, <2>3, <1>2
<1>6. /\ h.op = Web.op /\ h.arg = Web.arg /\ h.new = Web.new /\ h.book = Web.book
      /\ h.todo \in HttpPlans /\ (h.todo \in Before <=> Web.todo \in Before)
      /\ (h.todo \in Approving <=> Web.todo \in Approving)
      /\ (h.todo \in Rotating <=> Web.todo \in Rotating)
      /\ (h.todo \in Booking => Web.todo \in Booking)
      /\ (h.todo \in Granting => Web.todo \in Granting)
      /\ (h.todo = <<"reply">> => Web.todo = <<"reply">>)
      /\ (h.todo # <<>> => Web.todo # <<>>)
  <2>1. CASE t = Http
    <3>1. h = r /\ w = Web
      BY <2>1, <1>3 DEF Web
    <3> QED
      <4>1. /\ Tail(w.todo) \in HttpPlans /\ Tail(w.todo) \notin Booking /\ w.todo # <<>>
            /\ Tail(w.todo) # <<"reply">>
            /\ Tail(w.todo) \in Before <=> w.todo \in Before
            /\ Tail(w.todo) \in Rotating <=> w.todo \in Rotating
            /\ Tail(w.todo) \in Approving <=> w.todo \in Approving
        BY <2>1, <1>0, <1>3, PlanCut
      <4>2. Tail(w.todo) \notin Granting
        BY <4>1, NoPlan
      <4> QED
        BY <3>1, <4>1, <4>2, <1>5
  <2>2. CASE t # Http
    BY <2>2, <1>2, <1>3 DEF Web, AccessTypeOK
  <2> QED
    BY <2>1, <2>2
<1>7. AccessTypeOK'
  <2>1. ASSUME NEW o \in Threads
        PROVE  IsRecord(thread'[o]) /\ thread'[o].fresh \in BOOLEAN /\ thread'[o].new \in 0..made
    <3>1. CASE o = t
      BY <3>1, <1>3, <1>5
    <3>2. CASE o # t
      BY <3>2, <1>2 DEF AccessTypeOK, IsThread
    <3> QED
      BY <3>1, <3>2
  <2>2. ASSUME NEW c \in Conns PROVE thread'[c].todo \in ConnPlans
    <3>1. CASE c = t
      BY <3>1, <1>0, <1>3, <1>5, PlanOfConn
    <3>2. CASE c # t
      BY <3>2, <1>2, <1>3 DEF AccessTypeOK
    <3> QED
      BY <3>1, <3>2
  <2>3. DOMAIN thread' = Threads /\ thread' = [o \in Threads |-> thread'[o]]
    BY <1>0, SavesIs
  <2>4. /\ h = thread'[Http] /\ (h.todo \in Approving \cup Booking => IsBook(h.book))
        /\ (h.todo \in Approving \cup Granting => h.op = "approve")
        /\ (h.todo # <<>> /\ h.op = "revoke" => h.arg \in 1..made)
        /\ (h.todo \in Before => h.new = 0)
    BY <1>6 DEF AccessTypeOK, Web
  <2> QED
    BY <2>1, <2>2, <2>3, <2>4, <1>1, <1>6, ThreadsType
<1>8. ASSUME NEW m, Good(m) PROVE Good(m)'
  BY <1>1, <1>6, <1>8 DEF Good, InMap, IsValid
<1>9. Good(r.copy)'
  <2>1. Good(w.copy)
    BY <1>0, <1>2 DEF Safe, Saving
  <2> QED
    BY <2>1, <1>5, <1>8
<1>10. ~Readable(tokens') /\ Putting(t)' /\ ~At(t, "cut")'
  BY <1>0, <1>4, <1>5, ReadableIs DEF Putting, At
<1>11. ASSUME NEW o \in Threads, Saving(o)' PROVE Good(thread[o].copy)'
  <2>1. o = t
    BY <1>2, <1>11
  <2>2. thread'[o].copy = r.copy
    BY <2>1
  <2> QED
    BY <2>2, <1>9
<1>12. Saving(Http)' /\ h.todo \notin Before => Promised(h)'
  <2> SUFFICES ASSUME Saving(Http)', h.todo \notin Before PROVE Promised(h)'
    OBVIOUS
  <2>1. t = Http /\ h = r /\ w = Web
    BY <1>2, <1>3 DEF Web
  <2>2. Promised(w)
    BY <2>1, <1>0, <1>2, <1>6 DEF Safe, Saving
  <2> QED
    BY <2>1, <2>2, <1>1, <1>5, <1>6 DEF Promised
<1>13. \A c \in Conns : thread'[c].fresh /\ At(c, "cut")' => thread'[c].copy = tokens'
  BY <1>2, <1>3, <1>10
<1>14. Saving(Http)' /\ Web'.todo \notin Before => Promised(Web)'
  BY <1>12
<1> QED
  BY <1>0, <1>7, <1>10, <1>11, <1>13, <1>14 DEF Safe

\* What is put in the place of a file that was cut is a copy of the only thread
\* that is still in time.
LEMMA PutKeeps ==
  ASSUME AccessTypeOK, Safe, NEW t \in Threads, Put(t), ~disturbed'
  PROVE  AccessTypeOK' /\ Safe'
<1> PICK w : w = thread[t]
  OBVIOUS
<1> PICK r : r = thread'[t]
  OBVIOUS
<1> PICK h : h = Web'
  OBVIOUS
<1> PICK m : m = w.copy
  OBVIOUS
<1>0. At(t, "put") /\ Saves(t) /\ w.todo # <<>> /\ Head(w.todo) = "put"
  BY DEF Put, At
<1>1. /\ made' = made /\ devices' = devices /\ now' = now /\ codes' = codes
      /\ acked' = acked /\ gone' = gone /\ asked' = asked /\ heir' = heir
  BY DEF Put, counters, history
<1>2. /\ w.fresh = TRUE /\ r = Done(w)
      /\ \A o \in Threads : o # t =>
              /\ IsRecord(thread'[o]) /\ thread'[o].fresh \in BOOLEAN
              /\ thread'[o].todo = thread[o].todo /\ thread'[o].op = thread[o].op
              /\ thread'[o].arg = thread[o].arg /\ thread'[o].new = thread[o].new
              /\ thread'[o].book = thread[o].book
              /\ ~Saving(o)' /\ ~Putting(o)' /\ ~(thread'[o].fresh /\ At(o, "cut")')
  BY <1>0, SavesIs
<1>3. /\ IsRecord(w) /\ w.new \in 0..made /\ Http \in Threads
      /\ t = Http => w = Web /\ w.todo \in HttpPlans
      /\ t # Http => t \in Conns /\ w.todo \in ConnPlans
      /\ \A c \in Conns : c \in Threads /\ c # Http
  BY ThreadsAssumption DEF AccessTypeOK, Threads, IsThread, IsRecord, Web
<1>4. tokens = Empty /\ Good(m) /\ tokens' = m
  <2>1. Putting(t) /\ Saving(t)
    BY <1>0, <1>2 DEF Putting, Saving
  <2>2. tokens = Empty /\ Good(m)
    BY <2>1 DEF Safe
  <2> QED
    BY <2>2 DEF Put
<1>5. t = Http =>
        /\ IsRecord(r) /\ r.todo = Tail(w.todo) /\ r.fresh = TRUE /\ r.op = w.op
        /\ r.arg = w.arg /\ r.new = w.new /\ r.copy = m /\ r.book = w.book /\ h = r
        /\ r.todo # <<>> /\ Head(r.todo) \notin {"cut", "put"} /\ r.todo \in HttpPlans
        /\ w.todo \notin Booking /\ w.todo # <<"reply">>
        /\ r.todo \in Before <=> w.todo \in Before
        /\ r.todo \in Rotating <=> w.todo \in Rotating
        /\ Head(r.todo) = "retire" => r.todo \in Rotating
        /\ r.todo \in Booking <=> w.todo \in Approving
        /\ r.todo \in Granting <=> w.todo \in Approving
        /\ r.todo \notin Approving
  <2> SUFFICES ASSUME t = Http
               PROVE  /\ IsRecord(r) /\ r.todo = Tail(w.todo) /\ r.fresh = TRUE /\ r.op = w.op
                      /\ r.arg = w.arg /\ r.new = w.new /\ r.copy = m /\ r.book = w.book
                      /\ h = r
                      /\ r.todo # <<>> /\ Head(r.todo) \notin {"cut", "put"}
                      /\ r.todo \in HttpPlans
                      /\ w.todo \notin Booking /\ w.todo # <<"reply">>
                      /\ r.todo \in Before <=> w.todo \in Before
                      /\ r.todo \in Rotating <=> w.todo \in Rotating
                      /\ Head(r.todo) = "retire" => r.todo \in Rotating
                      /\ r.todo \in Booking <=> w.todo \in Approving
                      /\ r.todo \in Granting <=> w.todo \in Approving
                      /\ r.todo \notin Approving
    OBVIOUS
  <2> PICK p : p = Tail(w.todo)
    OBVIOUS
  <2>1. /\ Len(w.todo) # 1 /\ p # <<>> /\ Head(p) \notin {"cut", "put"} /\ p \in HttpPlans
        /\ w.todo \notin Booking /\ w.todo # <<"reply">>
        /\ p \in Before <=> w.todo \in Before
        /\ p \in Rotating <=> w.todo \in Rotating
        /\ Head(p) = "retire" => w.todo \in Rotating
        /\ p \in Booking <=> w.todo \in Approving
        /\ p \in Granting <=> w.todo \in Approving
        /\ p \notin Approving
    BY <1>0, <1>3, PlanPut
  <2>2. IsRecord(w) /\ r = [w EXCEPT !.todo = p]
    BY <1>2, <1>3, <2>1 DEF Done
  <2>3. /\ r.todo = p /\ r.fresh = w.fresh /\ r.op = w.op /\ r.arg = w.arg
        /\ r.new = w.new /\ r.copy = w.copy /\ r.book = w.book
    BY <2>2 DEF IsRecord
  <2>4. IsRecord(r)
    BY <2>2 DEF IsRecord
  <2>5. h = r
    BY DEF Web
  <2> QED
    BY <2>1, <2>3, <2>4, <2>5, <1>2
<1>6. t # Http => /\ r = Idle /\ h.todo = Web.todo /\ h.op = Web.op /\ h.arg = Web.arg
                  /\ h.new = Web.new /\ h.book = Web.book
  BY <1>0, <1>2, <1>3, PlanOfConn DEF Done, Web
<1>7. AccessTypeOK'
  <2>1. ASSUME NEW o \in Threads
        PROVE  IsRecord(thread'[o]) /\ thread'[o].fresh \in BOOLEAN /\ thread'[o].new \in 0..made
    <3>1. CASE o = t /\ t = Http
      BY <3>1, <1>3, <1>5
    <3>2. CASE o = t /\ t # Http
      <4>1. 0 \in 0..made
        BY WebIs
      <4> QED
        BY <3>2, <4>1, <1>6, IdleIs
    <3>3. CASE o # t
      BY <3>3, <1>2 DEF AccessTypeOK, IsThread
    <3> QED
      BY <3>1, <3>2, <3>3
  <2>2. ASSUME NEW c \in Conns PROVE thread'[c].todo \in ConnPlans
    <3>1. CASE c = t
      BY <3>1, <1>3, <1>6, IdleIs DEF ConnPlans
    <3>2. CASE c # t
      BY <3>2, <1>2, <1>3 DEF AccessTypeOK
    <3> QED
      BY <3>1, <3>2
  <2>3. DOMAIN thread' = Threads /\ thread' = [o \in Threads |-> thread'[o]]
    BY <1>0, SavesIs
  <2>4. /\ h = thread'[Http] /\ h.todo \in HttpPlans
        /\ (h.todo \in Approving \cup Booking => IsBook(h.book))
        /\ (h.todo \in Approving \cup Granting => h.op = "approve")
        /\ (h.todo # <<>> /\ h.op = "revoke" => h.arg \in 1..made)
        /\ (h.todo \in Before => h.new = 0)
    <3>1. CASE t = Http
      BY <3>1, <1>0, <1>3, <1>5, NoPlan DEF AccessTypeOK, Web
    <3>2. CASE t # Http
      BY <3>2, <1>6 DEF AccessTypeOK, Web
    <3> QED
      BY <3>1, <3>2
  <2> QED
    BY <2>1, <2>2, <2>3, <2>4, <1>1, ThreadsType
<1>8. t = Http /\ w.todo \notin Before => Promised(w)
  BY <1>0, <1>2, <1>3 DEF Safe, Saving
<1>9. Good(m)'
  <2>1. CASE t = Http
    <3>1. /\ h.todo \in Granting \cup {<<"reply">>} => w.todo \notin Before
          /\ h.todo \in Granting => w.todo \in Approving
          /\ h.todo \in Booking => w.todo \in Approving /\ w.todo \notin Before
      BY <2>1, <1>5, NoPlan
    <3>2. /\ h.todo \in Granting \cup {<<"reply">>} /\ h.new # 0 => h.new \in DOMAIN m
          /\ h.todo = <<"reply">> /\ h.op = "revoke" => ~IsValid(m, h.arg)
          /\ h.todo \in Booking => InMap(m, h.book)
      BY ZenonT(30), <2>1, <3>1, <1>5, <1>8 DEF Promised
    <3>3. h.todo \in Before /\ h.op = "rotate" /\ h.arg \in DOMAIN m => m[h.arg] = "valid"
      BY <2>1, <1>3, <1>4, <1>5 DEF Good
    <3> QED
      BY <3>2, <3>3, <1>1, <1>4 DEF Good, InMap, IsValid
  <2>2. CASE t # Http
    BY <2>2, <1>1, <1>4, <1>6 DEF Good, InMap, IsValid
  <2> QED
    BY <2>1, <2>2
<1>10. Readable(tokens') /\ Good(tokens)'
  <2>1. m \in [DOMAIN m -> {"valid", "revoked"}] /\ DOMAIN m \subseteq 1..MaxTokens
    <3>1. made \in Nat /\ made \in 0..MaxTokens /\ MaxTokens \in Nat
      BY WebIs
    <3>2. 1..made \subseteq 1..MaxTokens
      BY <3>1
    <3> QED
      BY <3>2, <1>4 DEF Good
  <2>2. m \in Maps
    BY <2>1 DEF Maps
  <2>3. Readable(m)
    BY <2>2, ReadableIs
  <2> QED
    BY <2>3, <1>4, <1>9
<1>11. ~Putting(t)' /\ (t # Http => ~Saving(t)' /\ ~At(t, "cut")')
  BY <1>5, <1>6, IdleIs DEF Putting, Saving, At
<1>12. ASSUME NEW o \in Threads, Saving(o)' PROVE Good(thread[o].copy)'
  <2>1. o = t /\ t = Http
    BY <1>2, <1>11, <1>12
  <2>2. thread'[o].copy = m
    BY <2>1, <1>5
  <2> QED
    BY <2>2, <1>9
<1>13. Saving(Http)' /\ h.todo \notin Before => Promised(h)'
  <2> SUFFICES ASSUME Saving(Http)', h.todo \notin Before PROVE Promised(h)'
    OBVIOUS
  <2>1. t = Http /\ h = r /\ w = Web
    BY <1>2, <1>3, <1>5 DEF Web
  <2>2. Promised(w)
    BY <2>1, <1>5, <1>8
  <2> QED
    BY <2>1, <2>2, <1>1, <1>5 DEF Promised
<1>14. Saving(Http)' /\ Web'.todo \notin Before => Promised(Web)'
  BY <1>13
<1>15. \A c \in Conns : thread'[c].fresh /\ At(c, "cut")' => thread'[c].copy = tokens'
  BY <1>2, <1>3, <1>11
<1> QED
  BY <1>2, <1>7, <1>10, <1>11, <1>12, <1>14, <1>15 DEF Safe

\* A kill that meets no save finds the file readable.
LEMMA KillKeeps ==
  ASSUME AccessTypeOK, Safe, Kill, ~disturbed'
  PROVE  AccessTypeOK' /\ Safe'
<1>1. /\ made' = made /\ tokens' = tokens /\ devices' = devices /\ now' = now /\ codes' = codes
      /\ acked' = acked /\ gone' = gone /\ asked' = asked /\ heir' = heir
      /\ thread' = [t \in Threads |-> Idle]
  BY DEF Kill, files, history
<1>2. Readable(tokens)
  BY DEF Kill, Safe, Putting
<1>3. made \in Nat /\ Http \in Threads /\ 0 \in 0..made
  BY WebIs
<1>4. Web' = Idle /\ \A t \in Threads : thread'[t] = Idle
  BY <1>1, <1>3 DEF Web
<1>5. AccessTypeOK'
  <2>1. \A c \in Conns : thread'[c].todo \in ConnPlans
    BY <1>4, IdleIs DEF ConnPlans, Threads
  <2>2. \A t \in Threads : IsRecord(thread'[t]) /\ thread'[t].fresh \in BOOLEAN
                           /\ thread'[t].new \in 0..made
    BY <1>3, <1>4, IdleIs
  <2>3. DOMAIN thread' = Threads /\ thread' = [t \in Threads |-> thread'[t]]
    BY <1>1
  <2>4. Idle = thread'[Http] /\ Idle.todo \in HttpPlans
        /\ Idle.todo \notin Approving \cup Booking \cup Granting \cup Before
        /\ Idle.todo = <<>>
    BY <1>3, <1>4, IdleIs, NoPlan DEF HttpPlans
  <2> QED
    BY <2>1, <2>2, <2>3, <2>4, <1>1, ThreadsType
<1>6. Good(tokens)'
  <2> PICK m : m = tokens
    OBVIOUS
  <2>1. Good(m)
    BY <1>2 DEF Safe
  <2>2. Web'.todo \notin Before \cup Booking \cup {<<"reply">>}
    BY <1>4, IdleIs, NoPlan
  <2>3. Good(m)'
    BY <2>1, <2>2, <1>1, <1>3, GoodKept
  <2> QED
    BY <2>3, <1>1
<1>7. \A t \in Threads : ~Saving(t)' /\ ~Putting(t)' /\ ~At(t, "cut")'
  BY <1>4, IdleIs DEF Saving, Putting, At
<1> QED
  BY <1>1, <1>2, <1>3, <1>5, <1>6, <1>7 DEF Safe, Threads

LEMMA AccessInvInit == AccessInit => AccessInv
<1> SUFFICES ASSUME AccessInit PROVE AccessTypeOK /\ Safe
  BY DEF AccessInv
<1> USE DEF AccessInit
<1>1. Http \in Threads /\ \A c \in Conns : c \in Threads
  BY DEF Threads
<1>2. Web = Idle /\ \A t \in Threads : thread[t] = Idle
  BY <1>1 DEF Web
<1>3. made \in Nat /\ MaxTokens \in Nat /\ made \in 0..MaxTokens /\ 0 \in 0..made
  BY AccessBounds
<1>4. AccessTypeOK
  <2>1. \A c \in Conns : thread[c].todo \in ConnPlans
    BY <1>1, <1>2, IdleIs DEF ConnPlans
  <2>2. \A t \in Threads : IsThread(thread[t])
    BY <1>2, <1>3, IdleIs DEF IsThread, IsRecord
  <2>3. IsBook(devices)
    BY DEF IsBook
  <2>4. Idle.todo \in HttpPlans /\ Idle.todo \notin Approving \cup Booking \cup Granting \cup Before
        /\ Idle.todo = <<>>
    BY IdleIs, NoPlan DEF HttpPlans
  <2> QED
    BY <2>1, <2>2, <2>3, <2>4, <1>2, <1>3 DEF AccessTypeOK
<1>5. \A t \in Threads : ~Saving(t) /\ ~Putting(t) /\ ~At(t, "cut")
  BY <1>2, IdleIs DEF Saving, Putting, At
<1>6. tokens \in Maps
  BY <1>3 DEF Maps
<1>7. Readable(tokens)
  BY <1>6, ReadableIs
<1>8. Web.todo \notin Before \cup Booking \cup Granting \cup {<<"reply">>}
  BY <1>2, IdleIs, NoPlan
<1>9. Good(tokens)
  <2>1. DOMAIN tokens = {} /\ DOMAIN devices = {}
    OBVIOUS
  <2>2. tokens \in [DOMAIN tokens -> {"valid", "revoked"}]
    OBVIOUS
  <2> QED
    BY <2>1, <2>2, <1>8 DEF Good, InMap
<1> QED
  BY <1>1, <1>4, <1>5, <1>7, <1>9 DEF Safe

LEMMA AccessInvNext == AccessInv /\ [AccessNext]_accessVars => AccessInv'
<1> SUFFICES ASSUME AccessInv, [AccessNext]_accessVars, ~disturbed'
             PROVE  AccessTypeOK' /\ Safe'
  BY DEF AccessInv
<1>1. CASE Operations
  <2>1. ~disturbed
    BY <1>1 DEF Operations, Ask
  <2>2. AccessTypeOK /\ Safe
    BY <2>1 DEF AccessInv
  <2>3. PICK op, by, arg : /\ Ask(op, by, arg)
                           /\ op = "rotate" => arg = by /\ by \in {Secret} \cup Known
                           /\ op = "revoke" => arg \in Known
    BY <1>1 DEF Operations
  <2> QED
    BY <2>2, <2>3, AskKeeps
<1>2. ASSUME NEW c \in Conns, NEW by \in Known, Connect(c, by) PROVE AccessTypeOK' /\ Safe'
  BY <1>2, ConnectKeeps DEF Connect, AccessInv
<1>3. ASSUME NEW t \in Threads, Cut(t) PROVE AccessTypeOK' /\ Safe'
  BY <1>3, CutKeeps DEF Cut, Saves, AccessInv
<1>4. ASSUME NEW t \in Threads, Put(t) PROVE AccessTypeOK' /\ Safe'
  BY <1>4, PutKeeps DEF Put, Saves, AccessInv
<1>5. CASE CutDevices
  BY <1>5, CutDevicesKeeps DEF CutDevices, AccessInv
<1>6. CASE PutDevices
  BY <1>6, PutDevicesKeeps DEF PutDevices, AccessInv
<1>7. CASE Create
  BY <1>7, CreateKeeps DEF Create, AccessInv
<1>8. CASE Revoke
  BY <1>8, RevokeKeeps DEF Revoke, AccessInv
<1>9. CASE Rotate
  BY <1>9, RotateKeeps DEF Rotate, AccessInv
<1>10. CASE Retire
  BY <1>10, RetireKeeps DEF Retire, AccessInv
<1>11. CASE StartDevice
  BY <1>11, StartDeviceKeeps DEF StartDevice, AccessInv
<1>12. CASE PollDevice
  BY <1>12, PollDeviceKeeps DEF PollDevice, AccessInv
<1>13. CASE ApproveDevice
  BY <1>13, ApproveDeviceKeeps DEF ApproveDevice, AccessInv
<1>14. CASE Fail
  BY <1>14, FailKeeps DEF Fail, AccessInv
<1>15. CASE Reply
  BY <1>15, ReplyKeeps DEF Reply, AccessInv
<1>16. CASE Tick
  <2>1. AccessTypeOK /\ Safe /\ now' \in Nat
    BY <1>16 DEF Tick, AccessInv, AccessTypeOK
  <2>2. UNCHANGED <<files, thread, made, codes, history>>
    BY <1>16 DEF Tick
  <2>3. \A m : Good(m)' <=> Good(m)
    BY <2>2 DEF Good, InMap, IsValid, files, history, Web
  <2>4. \A t \in Threads : (Saving(t)' <=> Saving(t)) /\ (Putting(t)' <=> Putting(t))
                           /\ (At(t, "cut")' <=> At(t, "cut"))
    BY <2>2 DEF Saving, Putting, At
  <2>5. AccessTypeOK'
    BY <2>1, <2>2 DEF AccessTypeOK, IsThread, Web, files, history
  <2>6. Safe'
    BY <2>1, <2>2, <2>3, <2>4, WebIs DEF Safe, Promised, Web, files, history, Threads
  <2> QED
    BY <2>5, <2>6
<1>17. CASE Kill
  BY <1>17, KillKeeps DEF Kill, AccessInv
<1>18. CASE UNCHANGED accessVars
  <2>1. AccessTypeOK /\ Safe
    BY <1>18 DEF AccessInv, accessVars
  <2>2. UNCHANGED <<files, thread, counters, history>>
    BY <1>18 DEF accessVars
  <2>3. \A m : Good(m)' <=> Good(m)
    BY <2>2 DEF Good, InMap, IsValid, files, counters, history, Web
  <2>4. \A t \in Threads : (Saving(t)' <=> Saving(t)) /\ (Putting(t)' <=> Putting(t))
                           /\ (At(t, "cut")' <=> At(t, "cut"))
    BY <2>2 DEF Saving, Putting, At
  <2>5. AccessTypeOK'
    BY <2>1, <2>2 DEF AccessTypeOK, IsThread, Web, files, counters, history
  <2>6. Safe'
    BY <2>1, <2>2, <2>3, <2>4, WebIs DEF Safe, Promised, Web, files, history, Threads
  <2> QED
    BY <2>5, <2>6
<1> QED
  BY <1>1, <1>2, <1>3, <1>4, <1>5, <1>6, <1>7, <1>8, <1>9, <1>10, <1>11, <1>12, <1>13, <1>14,
     <1>15, <1>16, <1>17, <1>18 DEF AccessNext

LEMMA AccessInvariant == AccessSpec => []AccessInv
<1>1. AccessInit => AccessInv
  BY AccessInvInit
<1>2. AccessInv /\ [AccessNext]_accessVars => AccessInv'
  BY AccessInvNext
<1> QED
  BY <1>1, <1>2, PTL DEF AccessSpec

\* TokenStore, DeviceAuthStore: as long as no save of the tokens met another or a
\* kill, a token that was handed out is stored, one that was reported as revoked is
\* not accepted, and a code leads to a token that is there, for any number of
\* connections, tokens, codes and kills between any two writes.
THEOREM AnswersStayTrueCorrect == AccessSpec => []AnswersStayTrue
<1>1. AccessInv => AnswersStayTrue
  BY DEF AccessInv, Safe, Good, InMap, AnswersStayTrue
<1> QED
  BY <1>1, AccessInvariant, PTL

\* rotate_token: wherever the process is killed between the save of the new token
\* and the save that revokes the old, the client has one that is in the file.
THEOREM RotationLeavesOneCorrect == AccessSpec => []RotationLeavesOne
<1>1. AccessInv => RotationLeavesOne
  BY DEF AccessInv, Safe, Good, RotationLeavesOne
<1> QED
  BY <1>1, AccessInvariant, PTL
=============================================================================
