---------------------------- MODULE GatewayProofs ----------------------------
(***************************************************************************)
(* Theorems about Gateway, for any senders, daemons, keys and routes, any   *)
(* number of calls, timeouts, crashes and restarts.                         *)
(***************************************************************************)
EXTENDS Gateway, SequenceTheorems, TLAPS

USE ConstantsAssumption

-----------------------------------------------------------------------------
(***************************************************************************)
(* What type correctness needs besides TypeOK: who is at work has a message *)
(* or a request of the right kind, who runs a turn has one to run, and what *)
(* was drained is in the inbox.                                             *)
(***************************************************************************)
HasMessage ==
  \A p \in Senders :
    snd[p].pc \in {"keys", "post", "wait", "route", "key", "receipt", "failed"}
      => snd[p].msg \in Message

HasRequest ==
  /\ srv.pc # "idle" => srv.req \in Request
  /\ srv.pc \in {"keys", "append", "route", "key", "receipt"} => srv.req.kind = "send"

Drained ==
  \A d \in Daemons :
    /\ \A n \in DOMAIN batch[d] : batch[d][n] \in DOMAIN inbox
    /\ snd[d].pc = "turn" => batch[d] # <<>>

\* A request that is to be answered belongs to a sender that waits with the
\* message in it, and no two belong to the same sender.
Asks(r) ==
  r.from # None => /\ snd[r.from].pc = "wait"
                   /\ snd[r.from].msg \in Message
                   /\ snd[r.from].msg.key = r.key

Awaited ==
  /\ \A i \in DOMAIN net : Asks(net[i])
  /\ srv.req # None => Asks(srv.req)
  /\ \A i, j \in DOMAIN net : net[i].from = net[j].from /\ i # j => net[i].from = None
  /\ \A i \in DOMAIN net :
       srv.req # None /\ net[i].from = srv.req.from => net[i].from = None

TypeInv == TypeOK /\ HasMessage /\ HasRequest /\ Drained /\ Awaited

LEMMA TypeInit == Init => TypeInv
BY DEF Init, TypeInv, TypeOK, FilesOK, ProcessesOK, LoopOK, CountsOK, HasMessage, HasRequest,
       Drained, Awaited, Asks, Serving, Sending, At, NotServing, NoRoutes, Routes

-----------------------------------------------------------------------------
Busy == {"keys", "post", "wait", "route", "key", "receipt", "failed"}

LEMMA Relabelled ==
  ASSUME NEW x \in Sending,
         NEW label \in Busy \cup {"idle", "drain", "turn", "dead"}
  PROVE  /\ [x EXCEPT !.pc = label] \in Sending
         /\ [x EXCEPT !.pc = label].pc = label
         /\ [x EXCEPT !.pc = label].msg = x.msg
         /\ [x EXCEPT !.pc = label].keys = x.keys
BY DEF Sending, Busy

LEMMA AtType ==
  ASSUME NEW label \in {"idle", "dead"}
  PROVE  At(label) \in Sending /\ At(label).pc = label /\ At(label).keys = {}
BY DEF At, Sending, Routes, NoRoutes

\* A step of one sender outside its wait for the gateway disturbs no request.
LEMMA SenderMoves ==
  ASSUME TypeInv, NEW p \in Senders, NEW x \in Sending, Move(p, x),
         snd[p].pc # "wait", x.pc \in Busy => x.msg \in Message,
         UNCHANGED <<up, net, srv>>
  PROVE  ProcessesOK' /\ HasMessage' /\ HasRequest' /\ Awaited'
<1>1. snd' \in [Senders -> Sending] /\ snd'[p] = x
      /\ \A q \in Senders \ {p} : snd'[q] = snd[q]
  BY DEF Move, TypeInv, TypeOK, ProcessesOK
<1>2. \A r \in Request : Asks(r) => Asks(r)'
  BY <1>1 DEF Asks, Request, TypeInv, TypeOK, ProcessesOK
<1>3. Awaited'
  BY <1>2 DEF Awaited, TypeInv, TypeOK, ProcessesOK, Serving
<1> QED
  BY <1>1, <1>3 DEF TypeInv, TypeOK, ProcessesOK, HasMessage, HasRequest, Busy

LEMMA DrainedStays ==
  ASSUME TypeInv, NEW p \in Senders, NEW x \in Sending, Move(p, x), x.pc # "turn",
         UNCHANGED <<batch, inbox>>
  PROVE  Drained'
BY DEF TypeInv, TypeOK, ProcessesOK, LoopOK, Drained, Move

LEMMA SendType ==
  ASSUME TypeInv, NEW p \in Senders, NEW key \in Keys, NEW sess \in Sessions,
         NEW to \in Targets \cup {None}, Send(p, key, sess, to)
  PROVE  TypeInv'
<1> DEFINE x == [pc |-> "keys", keys |-> {}, routes |-> routes,
                 msg |-> [key |-> key, sess |-> sess, to |-> Resolved(sess, to)]]
<1>1. x \in Sending /\ x.msg \in Message /\ x.pc = "keys" /\ Move(p, x)
  BY DEF Send, Begin, Resolved, Message, Sending, TypeInv, TypeOK, FilesOK, Routes, AllKeys
<1> HIDE DEF x
<1>2. ProcessesOK' /\ HasMessage' /\ HasRequest' /\ Awaited' /\ Drained'
  BY <1>1, SenderMoves, DrainedStays DEF Send, files, loop
<1> QED
  BY <1>2 DEF Send, TypeInv, TypeOK, FilesOK, LoopOK, CountsOK, files, loop

LEMMA CheckKeyType ==
  ASSUME TypeInv, NEW p \in Senders, CheckKey(p)
  PROVE  TypeInv'
<1> DEFINE y == [snd[p] EXCEPT !.pc = "post", !.keys = keys]
<1>1. snd[p] \in Sending /\ snd[p].msg \in Message
  BY DEF CheckKey, TypeInv, TypeOK, ProcessesOK, HasMessage
<1>2. y \in Sending /\ y.msg = snd[p].msg /\ y.pc = "post"
  BY <1>1 DEF Sending, TypeInv, TypeOK, FilesOK
<1> HIDE DEF y
<1>3. PICK x \in {At("idle"), y} : Move(p, x)
  BY DEF CheckKey, y
<1>4. x \in Sending /\ (x.pc \in Busy => x.msg \in Message) /\ x.pc # "turn"
  BY <1>1, <1>2, AtType DEF Busy
<1>5. ProcessesOK' /\ HasMessage' /\ HasRequest' /\ Awaited' /\ Drained'
  BY <1>3, <1>4, SenderMoves, DrainedStays DEF CheckKey, files, loop
<1> QED
  BY <1>5 DEF CheckKey, TypeInv, TypeOK, FilesOK, LoopOK, CountsOK, files, loop, count

\* A sender that goes on to another step with the message it has.
LEMMA SenderGoes ==
  ASSUME TypeInv, NEW p \in Senders, NEW label \in Busy, Goto(p, label),
         snd[p].pc \in Busy \ {"wait"}, UNCHANGED <<up, net, srv, batch, inbox>>
  PROVE  ProcessesOK' /\ HasMessage' /\ HasRequest' /\ Awaited' /\ Drained'
<1> DEFINE x == [snd[p] EXCEPT !.pc = label]
<1>1. snd[p] \in Sending /\ snd[p].msg \in Message
  BY DEF TypeInv, TypeOK, ProcessesOK, HasMessage, Busy
<1>2. x \in Sending /\ x.msg \in Message /\ x.pc = label
  BY <1>1, Relabelled
<1>3. Move(p, x)
  BY DEF Goto
<1> HIDE DEF x
<1> QED
  BY <1>2, <1>3, SenderMoves, DrainedStays DEF Busy

LEMMA SenderRests ==
  ASSUME TypeInv, NEW p \in Senders, Move(p, At("idle")), snd[p].pc # "wait",
         UNCHANGED <<up, net, srv, batch, inbox>>
  PROVE  ProcessesOK' /\ HasMessage' /\ HasRequest' /\ Awaited' /\ Drained'
<1>1. At("idle") \in Sending /\ At("idle").pc = "idle"
  BY AtType
<1> QED
  BY <1>1, SenderMoves, DrainedStays DEF Busy

LEMMA FinishType ==
  ASSUME TypeInv, NEW p \in Senders,
         SendFailed(p) \/ SaveRoute(p) \/ SaveKey(p) \/ SendDone(p)
  PROVE  TypeInv'
<1>1. snd[p].msg \in Message /\ snd[p] \in Sending
  BY DEF SendFailed, SaveRoute, SaveKey, SendDone, TypeInv, TypeOK, ProcessesOK, HasMessage
<1>2. CASE SendFailed(p)
  <2>1. ProcessesOK' /\ HasMessage' /\ HasRequest' /\ Awaited' /\ Drained'
    BY <1>2, SenderRests DEF SendFailed, loop
  <2> QED
    BY <1>1, <1>2, <2>1 DEF SendFailed, TypeInv, TypeOK, FilesOK, LoopOK, CountsOK, Message,
       loop, count
<1>3. CASE SaveRoute(p)
  <2>1. ProcessesOK' /\ HasMessage' /\ HasRequest' /\ Awaited' /\ Drained'
    BY <1>3, SenderGoes DEF SaveRoute, Busy, loop
  <2>2. routes' \in Routes
    BY <1>1, <1>3 DEF SaveRoute, Sending, Routes, Message
  <2> QED
    BY <1>3, <2>1, <2>2 DEF SaveRoute, TypeInv, TypeOK, FilesOK, LoopOK, CountsOK, loop, count
<1>4. CASE SaveKey(p)
  <2>1. ProcessesOK' /\ HasMessage' /\ HasRequest' /\ Awaited' /\ Drained'
    BY <1>4, SenderGoes DEF SaveKey, Busy, loop
  <2>2. keys' \subseteq AllKeys /\ lost' \subseteq AllKeys
    BY <1>1, <1>4 DEF SaveKey, SaveKeys, Sending, Message, TypeInv, TypeOK, FilesOK, CountsOK
  <2> QED
    BY <1>4, <2>1, <2>2 DEF SaveKey, TypeInv, TypeOK, FilesOK, LoopOK, CountsOK, loop, count
<1>5. CASE SendDone(p)
  <2>1. ProcessesOK' /\ HasMessage' /\ HasRequest' /\ Awaited' /\ Drained'
    BY <1>5, SenderRests DEF SendDone, loop
  <2> QED
    BY <1>1, <1>5, <2>1 DEF SendDone, TypeInv, TypeOK, FilesOK, LoopOK, CountsOK, Message,
       loop, count
<1> QED
  BY <1>2, <1>3, <1>4, <1>5

-----------------------------------------------------------------------------
\* What the gateway's queue becomes when a request is added or taken.
LEMMA QueueGrows ==
  ASSUME net \in Seq(Request), NEW r \in Request
  PROVE  /\ Append(net, r) \in Seq(Request)
         /\ DOMAIN Append(net, r) = (DOMAIN net) \cup {Len(net) + 1}
         /\ \A i \in DOMAIN net : Append(net, r)[i] = net[i]
         /\ Append(net, r)[Len(net) + 1] = r
         /\ Len(net) + 1 \notin DOMAIN net
OBVIOUS

LEMMA QueueShrinks ==
  ASSUME net \in Seq(Request), net # <<>>
  PROVE  /\ Head(net) \in Request /\ Head(net) = net[1] /\ 1 \in DOMAIN net
         /\ Tail(net) \in Seq(Request)
         /\ \A i \in DOMAIN Tail(net) : i + 1 \in DOMAIN net /\ i + 1 # 1
                                        /\ Tail(net)[i] = net[i + 1]
         /\ \A i, j \in DOMAIN Tail(net) : i # j => i + 1 # j + 1
OBVIOUS

LEMMA PostType ==
  ASSUME TypeInv, NEW p \in Senders, Post(p)
  PROVE  TypeInv'
<1> DEFINE m == snd[p].msg
           new == [kind |-> "send", from |-> p, key |-> m.key, sess |-> m.sess, to |-> m.to]
           x == [snd[p] EXCEPT !.pc = "wait"]
<1>1. snd[p] \in Sending /\ m \in Message /\ snd[p].pc = "post"
  BY DEF Post, TypeInv, TypeOK, ProcessesOK, HasMessage
<1>2. new \in Request /\ new.from = p /\ new.key = m.key
  BY <1>1 DEF Request, Message
<1>3. x \in Sending /\ x.msg = m /\ x.pc = "wait"
  BY <1>1, Relabelled DEF Busy
<1>4. CASE up
  <2>0. PICK r \in Request :
          net' = Append(net, r) /\ r.from = p /\ r.key = m.key
    BY <1>2, <1>4 DEF Post
  <2>1. Move(p, x)
    BY <1>4 DEF Post, Goto
  <2> HIDE DEF x, new, m
  <2>2. snd' \in [Senders -> Sending] /\ snd'[p] = x
        /\ \A q \in Senders \ {p} : snd'[q] = snd[q]
    BY <1>3, <2>1 DEF Move, TypeInv, TypeOK, ProcessesOK
  <2>3. \A q \in Request : Asks(q) => q.from # p /\ Asks(q)'
    <3> SUFFICES ASSUME NEW q \in Request, Asks(q) PROVE q.from # p /\ Asks(q)'
      OBVIOUS
    <3>1. q.from = None \/ q.from \in Senders
      BY DEF Request
    <3> QED
      BY <1>1, <2>2, <3>1 DEF Asks
  <2>4. Asks(r)'
    BY <1>1, <1>3, <2>0, <2>2 DEF Asks
  <2>5. \A i \in DOMAIN net : net[i] \in Request /\ Asks(net[i])
    BY DEF TypeInv, TypeOK, ProcessesOK, Awaited
  <2>6. srv' = srv /\ (srv.req # None => srv.req \in Request /\ Asks(srv.req))
    BY DEF Post, TypeInv, TypeOK, ProcessesOK, Awaited, Serving
  <2>7. Awaited'
    <3>1. /\ DOMAIN net' = (DOMAIN net) \cup {Len(net) + 1}
          /\ \A i \in DOMAIN net : net'[i] = net[i]
          /\ net'[Len(net) + 1] = r /\ Len(net) + 1 \notin DOMAIN net
      BY <2>0, QueueGrows DEF TypeInv, TypeOK, ProcessesOK
    <3>2. \A i \in DOMAIN net' : Asks(net[i])'
      BY <2>3, <2>4, <2>5, <3>1
    <3>3. (srv.req # None)' => Asks(srv.req)'
      BY <2>3, <2>6
    <3>4. /\ \A i \in DOMAIN net : net'[i].from # p
          /\ srv.req # None => srv.req.from # p
      BY <2>3, <2>5, <2>6, <3>1
    <3> QED
      BY <2>0, <2>6, <3>1, <3>2, <3>3, <3>4 DEF TypeInv, Awaited
  <2>8. net' \in Seq(Request)
    BY <2>0, QueueGrows DEF TypeInv, TypeOK, ProcessesOK
  <2> QED
    BY <1>1, <1>3, <2>2, <2>7, <2>8
       DEF Post, TypeInv, TypeOK, FilesOK, ProcessesOK, LoopOK, CountsOK, HasMessage, HasRequest,
           Drained, files, loop, count, m
<1>5. CASE ~up
  <2>1. Goto(p, "failed") /\ UNCHANGED net
    BY <1>5 DEF Post
  <2>2. ProcessesOK' /\ HasMessage' /\ HasRequest' /\ Awaited' /\ Drained'
    BY <1>1, <2>1, SenderGoes DEF Post, Busy, files, loop
  <2> QED
    BY <2>2 DEF Post, TypeInv, TypeOK, FilesOK, LoopOK, CountsOK, files, loop, count
<1> QED
  BY <1>4, <1>5

\* A sender that stops waiting leaves a request without a sender behind.
LEMMA HangupType ==
  ASSUME TypeInv, NEW p \in Senders, NEW x \in Sending, Move(p, x), Hangup(p),
         x.pc \in Busy => x.msg \in Message, up' = up
  PROVE  ProcessesOK' /\ HasMessage' /\ HasRequest' /\ Awaited'
<1> DEFINE Cut(r) == [r EXCEPT !.from = None]
<1>1. snd' \in [Senders -> Sending] /\ snd'[p] = x
      /\ \A q \in Senders \ {p} : snd'[q] = snd[q]
  BY DEF Move, TypeInv, TypeOK, ProcessesOK
<1>2. \A r \in Request : Cut(r) \in Request /\ Cut(r).from = None
                          /\ Cut(r).kind = r.kind
  BY DEF Request
<1>3. /\ net' = [i \in DOMAIN net |-> IF net[i].from = p THEN Cut(net[i]) ELSE net[i]]
      /\ srv' = IF srv.req # None /\ srv.req.from = p
                THEN [srv EXCEPT !.req = Cut(srv.req)] ELSE srv
  BY DEF Hangup
<1> HIDE DEF Cut
<1>4. net \in Seq(Request) /\ srv \in Serving
  BY DEF TypeInv, TypeOK, ProcessesOK
<1>5. net' \in Seq(Request) /\ DOMAIN net' = DOMAIN net
      /\ \A i \in DOMAIN net : net'[i] = IF net[i].from = p THEN Cut(net[i]) ELSE net[i]
  BY <1>2, <1>3, <1>4
<1>6. /\ srv' \in Serving /\ srv'.pc = srv.pc
      /\ srv.req = None => srv'.req = None
      /\ srv.req # None => srv'.req = IF srv.req.from = p THEN Cut(srv.req) ELSE srv.req
  BY <1>2, <1>3, <1>4 DEF Serving
<1>7. \A r \in Request : Asks(r) /\ r.from # p => Asks(r)'
  BY <1>1 DEF Asks, Request
<1>8. \A r \in Request : r.from = None => Asks(r)'
  BY DEF Asks
<1>9. \A i \in DOMAIN net :
        /\ Asks(net[i])'
        /\ net'[i].from # None => net'[i] = net[i]
  BY <1>2, <1>4, <1>5, <1>7, <1>8 DEF TypeInv, Awaited
<1>10. srv'.req # None =>
         /\ srv.req # None
         /\ Asks(srv.req)'
         /\ srv'.req.from # None => srv'.req = srv.req
  BY <1>2, <1>4, <1>6, <1>7, <1>8 DEF TypeInv, Awaited, Serving
<1>11. Awaited'
  BY <1>5, <1>9, <1>10 DEF TypeInv, Awaited
<1>12. HasRequest'
  BY <1>2, <1>4, <1>6 DEF TypeInv, HasRequest, Serving
<1> QED
  BY <1>1, <1>5, <1>6, <1>11, <1>12 DEF TypeInv, TypeOK, ProcessesOK, HasMessage, Busy

LEMMA TimeoutType ==
  ASSUME TypeInv, NEW p \in Senders, Timeout(p)
  PROVE  TypeInv'
<1> DEFINE x == [snd[p] EXCEPT !.pc = "failed"]
<1>1. snd[p] \in Sending /\ snd[p].msg \in Message
  BY DEF Timeout, TypeInv, TypeOK, ProcessesOK, HasMessage
<1>2. x \in Sending /\ x.msg \in Message /\ x.pc = "failed" /\ Move(p, x)
  BY <1>1, Relabelled DEF Timeout, Goto, Busy
<1> HIDE DEF x
<1>3. ProcessesOK' /\ HasMessage' /\ HasRequest' /\ Awaited' /\ Drained'
  BY <1>2, HangupType, DrainedStays DEF Timeout, files, loop
<1> QED
  BY <1>3 DEF Timeout, TypeInv, TypeOK, FilesOK, LoopOK, CountsOK, files, loop, count

-----------------------------------------------------------------------------
LEMMA ReceiveType ==
  ASSUME TypeInv, NEW sess \in Sessions, NEW to \in Targets, Receive(sess, to)
  PROVE  TypeInv'
<1>1. PICK r \in Request : net' = Append(net, r) /\ r.from = None
  BY DEF Receive, Request
<1>2. /\ net' \in Seq(Request)
      /\ DOMAIN net' = (DOMAIN net) \cup {Len(net) + 1}
      /\ \A i \in DOMAIN net : net'[i] = net[i]
      /\ net'[Len(net) + 1] = r
  BY <1>1, QueueGrows DEF TypeInv, TypeOK, ProcessesOK
<1>3. \A i \in DOMAIN net' : Asks(net[i])'
  BY <1>1, <1>2 DEF Receive, TypeInv, Awaited, Asks
<1>4. (srv.req # None)' => Asks(srv.req)'
  BY DEF Receive, TypeInv, Awaited, Asks
<1>5. Awaited'
  BY <1>1, <1>2, <1>3, <1>4 DEF Receive, TypeInv, Awaited
<1> QED
  BY <1>2, <1>5 DEF Receive, TypeInv, TypeOK, FilesOK, ProcessesOK, LoopOK, CountsOK, HasMessage,
     HasRequest, Drained, files, loop

\* The sender of r gets its answer: nobody else is disturbed.
LEMMA AnswerType ==
  ASSUME TypeInv, NEW r \in Request, NEW ok \in BOOLEAN, Asks(r), Answer(r, ok),
         UNCHANGED <<batch, inbox>>
  PROVE  /\ snd' \in [Senders -> Sending] /\ HasMessage' /\ Drained'
         /\ \A q \in Request : Asks(q) /\ q.from # r.from => Asks(q)'
         /\ \A q \in Request : q.from = None => Asks(q)'
<1>1. CASE r.from = None
  BY <1>1 DEF Answer, TypeInv, TypeOK, ProcessesOK, HasMessage, Drained, Asks
<1>2. CASE r.from # None
  <2> DEFINE p == r.from
             label == IF ok THEN "route" ELSE "failed"
             x == [snd[p] EXCEPT !.pc = label]
  <2>1. p \in Senders /\ snd[p] \in Sending /\ snd[p].msg \in Message /\ snd[p].pc = "wait"
    BY <1>2 DEF Request, Asks, TypeInv, TypeOK, ProcessesOK
  <2>2. x \in Sending /\ x.msg \in Message /\ x.pc \in Busy
    <3>1. label \in Busy
      BY DEF Busy
    <3> HIDE DEF label
    <3> QED
      BY <2>1, <3>1, Relabelled
  <2>3. snd' = [snd EXCEPT ![p] = x]
    BY <1>2 DEF Answer
  <2> HIDE DEF x
  <2>4. snd' \in [Senders -> Sending] /\ snd'[p] = x
        /\ \A q \in Senders \ {p} : snd'[q] = snd[q]
    BY <2>1, <2>2, <2>3 DEF TypeInv, TypeOK, ProcessesOK
  <2>5. \A q \in Request : Asks(q) /\ q.from # r.from => Asks(q)'
    <3>1. \A q \in Request : q.from = None \/ q.from \in Senders
      BY DEF Request
    <3> QED
      BY <2>4, <3>1 DEF Asks
  <2>6. \A q \in Request : q.from = None => Asks(q)'
    BY DEF Asks
  <2>7. HasMessage'
    BY <2>2, <2>4 DEF TypeInv, HasMessage
  <2>8. Drained'
    BY <2>1, <2>2, <2>4 DEF TypeInv, Drained, Busy
  <2> QED
    BY <2>4, <2>5, <2>6, <2>7, <2>8
<1> QED
  BY <1>1, <1>2

\* The thread takes the first request.
LEMMA TakeType ==
  ASSUME TypeInv, net # <<>>
  PROVE  /\ Head(net) \in Request /\ Asks(Head(net)) /\ Tail(net) \in Seq(Request)
         /\ \A i \in DOMAIN Tail(net) :
              /\ Tail(net)[i] \in Request
              /\ Asks(Tail(net)[i])
              /\ Tail(net)[i].from = Head(net).from => Tail(net)[i].from = None
         /\ \A i, j \in DOMAIN Tail(net) :
              Tail(net)[i].from = Tail(net)[j].from /\ i # j => Tail(net)[i].from = None
<1>1. net \in Seq(Request) /\ Awaited
  BY DEF TypeInv, TypeOK, ProcessesOK
<1> DEFINE t == Tail(net)
<1>2. /\ Head(net) \in Request /\ Head(net) = net[1] /\ 1 \in DOMAIN net
      /\ t \in Seq(Request)
      /\ \A i \in DOMAIN t : i + 1 \in DOMAIN net /\ i + 1 # 1 /\ t[i] = net[i + 1]
      /\ \A i, j \in DOMAIN t : i # j => i + 1 # j + 1
  BY <1>1, QueueShrinks
<1> HIDE DEF t
<1>3. \A i \in DOMAIN t : t[i] \in Request /\ Asks(t[i])
                           /\ (t[i].from = Head(net).from => t[i].from = None)
  BY <1>1, <1>2 DEF Awaited
<1>4. \A i, j \in DOMAIN t : t[i].from = t[j].from /\ i # j => t[i].from = None
  BY <1>1, <1>2 DEF Awaited
<1>5. Asks(Head(net))
  BY <1>1, <1>2 DEF Awaited
<1> QED
  BY <1>2, <1>3, <1>4, <1>5 DEF t

LEMMA AcceptType ==
  ASSUME TypeInv, Accept
  PROVE  TypeInv'
<1> DEFINE r == Head(net)
           s == IF r.kind = "send"
                THEN [pc |-> "keys", req |-> r, keys |-> {}, routes |-> routes]
                ELSE [pc |-> "inbox", req |-> r, keys |-> {}, routes |-> NoRoutes]
<1>1. /\ r \in Request /\ Asks(r) /\ net' = Tail(net) /\ srv' = s
      /\ net' \in Seq(Request)
  BY TakeType DEF Accept
<1>2. /\ s \in Serving /\ s.req = r /\ (s.pc = "keys" => r.kind = "send")
      /\ s.pc \in {"keys", "inbox"}
  BY <1>1 DEF Serving, TypeInv, TypeOK, FilesOK, Routes, NoRoutes
<1>3. /\ \A i \in DOMAIN net' : Asks(net[i])'
      /\ \A i, j \in DOMAIN net' : net'[i].from = net'[j].from /\ i # j => net'[i].from = None
      /\ \A i \in DOMAIN net' : net'[i].from = r.from => net'[i].from = None
  BY <1>1, TakeType DEF Accept, Asks
<1> HIDE DEF s, r
<1>4. Asks(srv.req)'
  BY <1>1, <1>2 DEF Accept, Asks
<1>5. Awaited'
  BY <1>1, <1>2, <1>3, <1>4 DEF Awaited
<1> QED
  BY <1>1, <1>2, <1>5 DEF Accept, TypeInv, TypeOK, FilesOK, ProcessesOK, LoopOK, CountsOK,
     HasMessage, HasRequest, Drained, files, loop, count

LEMMA RefuseType ==
  ASSUME TypeInv, Refuse
  PROVE  TypeInv'
<1>1. PICK r \in Request : r = Head(net) /\ Asks(r)
  BY TakeType DEF Refuse
<1>2. /\ snd' \in [Senders -> Sending] /\ HasMessage' /\ Drained'
      /\ \A q \in Request : Asks(q) /\ q.from # r.from => Asks(q)'
      /\ \A q \in Request : q.from = None => Asks(q)'
  <2>1. Answer(r, FALSE) /\ UNCHANGED <<batch, inbox>>
    BY <1>1 DEF Refuse, files, loop
  <2> QED
    BY <1>1, <2>1, AnswerType
<1>3. net' = Tail(net) /\ net' \in Seq(Request)
  BY TakeType DEF Refuse
<1>4. /\ \A i \in DOMAIN net' : net'[i] \in Request /\ Asks(net[i])'
      /\ \A i, j \in DOMAIN net' : net'[i].from = net'[j].from /\ i # j => net'[i].from = None
  BY <1>1, <1>2, <1>3, TakeType DEF Refuse
<1>5. srv' = srv /\ srv \in Serving /\ (srv.req # None => srv.req \in Request)
  BY DEF Refuse, TypeInv, TypeOK, ProcessesOK, Serving
<1>6. net # <<>> /\ net \in Seq(Request) /\ Head(net) = net[1] /\ 1 \in DOMAIN net
  BY QueueShrinks DEF Refuse, TypeInv, TypeOK, ProcessesOK
<1>7. (srv.req # None)' => Asks(srv.req)'
  BY <1>1, <1>2, <1>5, <1>6 DEF TypeInv, Awaited
<1>8. \A i \in DOMAIN net' :
        srv'.req # None /\ net'[i].from = srv'.req.from => net'[i].from = None
  BY <1>3, <1>5, <1>6, QueueShrinks DEF TypeInv, Awaited
<1>9. Awaited'
  BY <1>4, <1>7, <1>8 DEF Awaited
<1> QED
  BY <1>2, <1>3, <1>5, <1>9 DEF Refuse, TypeInv, TypeOK, FilesOK, ProcessesOK, LoopOK, CountsOK,
     HasRequest, files, loop, count

\* A step of the thread on the request it has.
LEMMA ThreadMoves ==
  ASSUME TypeInv, NEW s \in Serving, srv' = s, s.req = srv.req \/ s.req = None,
         s.pc # "idle" => s.req \in Request,
         s.pc \in {"keys", "append", "route", "key", "receipt"} => s.req.kind = "send",
         UNCHANGED <<up, net, snd>>
  PROVE  ProcessesOK' /\ HasMessage' /\ HasRequest' /\ Awaited'
<1>1. \A r \in Request : Asks(r) => Asks(r)'
  BY DEF Asks
<1>2. net \in Seq(Request) /\ Awaited /\ srv \in Serving
  BY DEF TypeInv, TypeOK, ProcessesOK
<1>3. (srv.req # None)' => Asks(srv.req)'
  BY <1>2 DEF Awaited, Asks
<1>4. \A i \in DOMAIN net' : Asks(net[i])'
  BY <1>2 DEF Awaited, Asks
<1>5. Awaited'
  BY <1>2, <1>3, <1>4 DEF Awaited
<1> QED
  BY <1>5 DEF TypeInv, TypeOK, ProcessesOK, HasMessage, HasRequest

\* The same, when the step ends the request with an answer.
LEMMA ThreadAnswers ==
  ASSUME TypeInv, srv.pc # "idle", NEW ok \in BOOLEAN, Answer(srv.req, ok), srv' = NotServing,
         UNCHANGED <<up, net, batch, inbox>>
  PROVE  ProcessesOK' /\ HasMessage' /\ HasRequest' /\ Awaited' /\ Drained'
<1>1. PICK r \in Request : r = srv.req /\ r # None /\ Asks(r)
  <2>1. srv.req \in Request /\ (srv.req # None => Asks(srv.req))
    BY DEF TypeInv, HasRequest, Awaited
  <2> QED
    BY <2>1, NoneAssumption
<1>2. /\ snd' \in [Senders -> Sending] /\ HasMessage' /\ Drained'
      /\ \A q \in Request : Asks(q) /\ q.from # r.from => Asks(q)'
      /\ \A q \in Request : q.from = None => Asks(q)'
  BY <1>1, AnswerType
<1>3. net' = net /\ net \in Seq(Request) /\ Awaited
  BY DEF TypeInv, TypeOK, ProcessesOK
<1>5. \A i \in DOMAIN net' : Asks(net[i])'
  BY <1>1, <1>2, <1>3 DEF Awaited
<1>6. srv'.req = None /\ srv' \in Serving /\ srv'.pc = "idle"
  BY DEF NotServing, Serving, Routes, NoRoutes
<1>7. Awaited'
  BY <1>3, <1>5, <1>6 DEF Awaited
<1> QED
  BY <1>2, <1>3, <1>6, <1>7 DEF TypeInv, TypeOK, ProcessesOK, HasRequest

\* The request of the thread, and what a relabelling leaves of its record.
LEMMA ThreadRecord ==
  ASSUME TypeInv, srv.pc # "idle"
  PROVE  /\ srv \in Serving /\ srv.req \in Request /\ srv.req # None
         /\ srv.req.sess \in Sessions /\ srv.req.to \in Targets
         /\ srv.req.kind = "send" => srv.req.key \in AllKeys
         /\ srv.pc \in {"keys", "append", "route", "key", "receipt"} => srv.req.kind = "send"
         /\ \A label \in {"append", "route", "key", "receipt", "inbox", "load", "save"} :
              LET s == [srv EXCEPT !.pc = label]
              IN  s \in Serving /\ s.pc = label /\ s.req = srv.req /\ s.keys = srv.keys
<1>1. srv \in Serving /\ srv.req \in Request
  BY DEF TypeInv, TypeOK, ProcessesOK, HasRequest
<1>2. \A label \in {"append", "route", "key", "receipt", "inbox", "load", "save"} :
        LET s == [srv EXCEPT !.pc = label]
        IN  s \in Serving /\ s.pc = label /\ s.req = srv.req /\ s.keys = srv.keys
  BY <1>1 DEF Serving
<1>3. srv.req.sess \in Sessions /\ srv.req.to \in Targets
      /\ (srv.req.kind = "send" => srv.req.key \in AllKeys)
  BY <1>1 DEF Request
<1>4. srv.pc \in {"keys", "append", "route", "key", "receipt"} => srv.req.kind = "send"
  BY DEF TypeInv, HasRequest
<1> QED
  BY <1>1, <1>2, <1>3, <1>4, NoneAssumption

LEMMA NotServingType == NotServing \in Serving /\ NotServing.pc = "idle" /\ NotServing.req = None
BY DEF NotServing, Serving, Routes, NoRoutes

LEMMA LookupType ==
  ASSUME TypeInv, Lookup
  PROVE  TypeInv'
<1>1. srv.pc = "keys" /\ UNCHANGED <<files, up, net, loop, count, lost>>
  BY DEF Lookup
<1>2. CASE srv.req.key \in keys
  <2>1. Answer(srv.req, TRUE) /\ srv' = NotServing
    BY <1>2 DEF Lookup
  <2>2. ProcessesOK' /\ HasMessage' /\ HasRequest' /\ Awaited' /\ Drained'
    BY <1>1, <2>1, ThreadAnswers DEF files, loop
  <2> QED
    BY <1>1, <2>2 DEF TypeInv, TypeOK, FilesOK, LoopOK, CountsOK, files, loop, count
<1>3. CASE srv.req.key \notin keys
  <2> DEFINE s == [srv EXCEPT !.pc = "append", !.keys = keys]
  <2>1. srv' = s /\ UNCHANGED snd
    BY <1>3 DEF Lookup
  <2>2. s \in Serving /\ s.pc = "append" /\ s.req = srv.req
    BY <1>1, ThreadRecord DEF Serving, TypeInv, TypeOK, FilesOK
  <2> HIDE DEF s
  <2>3. ProcessesOK' /\ HasMessage' /\ HasRequest' /\ Awaited'
    BY <1>1, <2>1, <2>2, ThreadRecord, ThreadMoves
  <2> QED
    BY <1>1, <2>1, <2>3
       DEF TypeInv, TypeOK, FilesOK, LoopOK, CountsOK, Drained, files, loop, count
<1> QED
  BY <1>2, <1>3

\* The thread goes on with its request.
LEMMA ThreadGoes ==
  ASSUME TypeInv, srv.pc # "idle",
         NEW label \in {"append", "route", "key", "receipt", "load", "save"},
         srv' = [srv EXCEPT !.pc = label],
         label \in {"append", "route", "key", "receipt"} => srv.req.kind = "send",
         UNCHANGED <<up, net, snd>>
  PROVE  ProcessesOK' /\ HasMessage' /\ HasRequest' /\ Awaited'
<1> DEFINE s == [srv EXCEPT !.pc = label]
<1>1. /\ s \in Serving /\ s.pc = label /\ s.req = srv.req /\ srv' = s
      /\ srv.req \in Request
  BY ThreadRecord
<1> HIDE DEF s
<1> QED
  BY <1>1, ThreadMoves

LEMMA QueueType ==
  ASSUME TypeInv, AppendMessage \/ QueueRoute \/ QueueKey \/ Queued
  PROVE  TypeInv'
<1>1. /\ srv.pc # "idle" /\ srv \in Serving /\ srv.req.kind = "send"
      /\ srv.req.sess \in Sessions /\ srv.req.to \in Targets /\ srv.req.key \in AllKeys
  BY ThreadRecord DEF AppendMessage, QueueRoute, QueueKey, Queued
<1>2. CASE AppendMessage
  <2>1. ProcessesOK' /\ HasMessage' /\ HasRequest' /\ Awaited'
    BY <1>1, <1>2, ThreadGoes DEF AppendMessage
  <2>2. outbox' \in Seq(Message)
    BY <1>1, <1>2 DEF AppendMessage, Message, TypeInv, TypeOK, FilesOK
  <2> QED
    BY <1>2, <2>1, <2>2
       DEF AppendMessage, TypeInv, TypeOK, FilesOK, LoopOK, CountsOK, Drained, loop, count
<1>3. CASE QueueRoute
  <2>1. ProcessesOK' /\ HasMessage' /\ HasRequest' /\ Awaited'
    BY <1>1, <1>3, ThreadGoes DEF QueueRoute
  <2>2. routes' \in Routes
    BY <1>1, <1>3 DEF QueueRoute, Serving, Routes
  <2> QED
    BY <1>3, <2>1, <2>2
       DEF QueueRoute, TypeInv, TypeOK, FilesOK, LoopOK, CountsOK, Drained, loop, count
<1>4. CASE QueueKey
  <2>1. ProcessesOK' /\ HasMessage' /\ HasRequest' /\ Awaited'
    BY <1>1, <1>4, ThreadGoes DEF QueueKey
  <2>2. keys' \subseteq AllKeys /\ lost' \subseteq AllKeys
    BY <1>1, <1>4 DEF QueueKey, SaveKeys, Serving, TypeInv, TypeOK, FilesOK, CountsOK
  <2> QED
    BY <1>4, <2>1, <2>2
       DEF QueueKey, TypeInv, TypeOK, FilesOK, LoopOK, CountsOK, Drained, loop, count
<1>5. CASE Queued
  <2>1. ProcessesOK' /\ HasMessage' /\ HasRequest' /\ Awaited' /\ Drained'
    BY <1>1, <1>5, ThreadAnswers DEF Queued, loop
  <2>2. receipts' \subseteq {"queued", "sent", "failed"} \X AllKeys
    BY <1>1, <1>5 DEF Queued, TypeInv, TypeOK, FilesOK
  <2> QED
    BY <1>5, <2>1, <2>2 DEF Queued, TypeInv, TypeOK, FilesOK, LoopOK, CountsOK, loop, count
<1> QED
  BY <1>2, <1>3, <1>4, <1>5

LEMMA RecordType ==
  ASSUME TypeInv, RecordMessage \/ LoadRoutes \/ RecordRoute
  PROVE  TypeInv'
<1>1. /\ srv.pc # "idle" /\ srv \in Serving /\ srv.req \in Request
      /\ srv.req.sess \in Sessions /\ srv.req.to \in Targets
  BY ThreadRecord DEF RecordMessage, LoadRoutes, RecordRoute
<1>2. CASE RecordMessage
  <2>1. ProcessesOK' /\ HasMessage' /\ HasRequest' /\ Awaited'
    BY <1>1, <1>2, ThreadGoes DEF RecordMessage
  <2>2. inbox' \in Seq(Sessions) /\ DOMAIN inbox \subseteq DOMAIN inbox'
    BY <1>1, <1>2 DEF RecordMessage, TypeInv, TypeOK, FilesOK
  <2>3. Drained'
    BY <1>2, <2>2 DEF RecordMessage, TypeInv, Drained, loop
  <2> QED
    BY <1>2, <2>1, <2>2, <2>3
       DEF RecordMessage, TypeInv, TypeOK, FilesOK, LoopOK, CountsOK, loop, count
<1>3. CASE LoadRoutes
  <2> DEFINE s == [srv EXCEPT !.pc = "save", !.routes = routes]
  <2>1. s \in Serving /\ s.pc = "save" /\ s.req = srv.req /\ srv' = s
    BY <1>1, <1>3 DEF LoadRoutes, Serving, TypeInv, TypeOK, FilesOK
  <2> HIDE DEF s
  <2>2. ProcessesOK' /\ HasMessage' /\ HasRequest' /\ Awaited'
    BY <1>1, <1>3, <2>1, ThreadMoves DEF LoadRoutes
  <2> QED
    BY <1>3, <2>2
       DEF LoadRoutes, TypeInv, TypeOK, FilesOK, LoopOK, CountsOK, Drained, files, loop, count
<1>4. CASE RecordRoute
  <2>1. ProcessesOK' /\ HasMessage' /\ HasRequest' /\ Awaited'
    BY <1>4, NotServingType, ThreadMoves DEF RecordRoute
  <2>2. routes' \in Routes
    BY <1>1, <1>4 DEF RecordRoute, Serving, Routes
  <2> QED
    BY <1>4, <2>1, <2>2
       DEF RecordRoute, TypeInv, TypeOK, FilesOK, LoopOK, CountsOK, Drained, loop, count
<1> QED
  BY <1>2, <1>3, <1>4

-----------------------------------------------------------------------------
LEMMA DrainType ==
  ASSUME TypeInv, NEW d \in Daemons, ReadInbox(d) \/ SaveOffset(d)
  PROVE  TypeInv'
<1>1. d \in Senders /\ snd[d] \in Sending /\ batch[d] \in Seq(Nat)
  BY DEF TypeInv, TypeOK, ProcessesOK, LoopOK
<1>2. CASE ReadInbox(d)
  <2> DEFINE x == [snd[d] EXCEPT !.pc = "drain"]
             b == IF offset < Len(inbox) THEN [i \in 1..(Len(inbox) - offset) |-> offset + i]
                                         ELSE <<>>
  <2>1. x \in Sending /\ x.pc = "drain" /\ Move(d, x) /\ snd[d].pc = "idle"
    BY <1>1, <1>2, Relabelled DEF ReadInbox, Goto
  <2> HIDE DEF x
  <2>2. ProcessesOK' /\ HasMessage' /\ HasRequest' /\ Awaited'
    BY <1>1, <1>2, <2>1, SenderMoves DEF ReadInbox, Busy
  <2>3. offset \in Nat /\ Len(inbox) \in Nat /\ DOMAIN inbox = 1..Len(inbox)
    BY DEF TypeInv, TypeOK, FilesOK
  <2>4. b \in Seq(Nat) /\ \A n \in DOMAIN b : b[n] \in DOMAIN inbox
    <3>1. CASE offset < Len(inbox)
      <4>1. Len(inbox) - offset \in Nat
        BY <2>3, <3>1
      <4>2. b = [i \in 1..(Len(inbox) - offset) |-> offset + i]
        BY <3>1
      <4>3. \A i \in 1..(Len(inbox) - offset) : offset + i \in Nat /\ offset + i \in 1..Len(inbox)
        BY <2>3
      <4> QED
        BY <2>3, <4>1, <4>2, <4>3
    <3>2. CASE ~(offset < Len(inbox))
      BY <3>2
    <3> QED
      BY <3>1, <3>2
  <2>5. batch' = [batch EXCEPT ![d] = b]
    BY <1>2 DEF ReadInbox
  <2> HIDE DEF b
  <2>6. Drained'
    BY <1>1, <1>2, <2>1, <2>4, <2>5
       DEF ReadInbox, Move, TypeInv, TypeOK, ProcessesOK, LoopOK, Drained, files
  <2>7. LoopOK'
    BY <1>2, <2>3, <2>4, <2>5 DEF ReadInbox, TypeInv, TypeOK, LoopOK
  <2> QED
    BY <1>2, <2>2, <2>6, <2>7 DEF ReadInbox, TypeInv, TypeOK, FilesOK, CountsOK, files, count
<1>3. CASE SaveOffset(d)
  <2> DEFINE x == [snd[d] EXCEPT !.pc = "idle"]
  <2>1. x \in Sending /\ x.pc = "idle" /\ Move(d, x) /\ snd[d].pc = "drain"
    BY <1>1, <1>3, Relabelled DEF SaveOffset, Goto
  <2> HIDE DEF x
  <2>2. ProcessesOK' /\ HasMessage' /\ HasRequest' /\ Awaited' /\ Drained'
    BY <1>1, <1>3, <2>1, SenderMoves, DrainedStays DEF SaveOffset, Busy
  <2> QED
    BY <1>3, <2>2 DEF SaveOffset, TypeInv, TypeOK, FilesOK, LoopOK, CountsOK, count
<1> QED
  BY <1>2, <1>3

LEMMA StartTurnType ==
  ASSUME TypeInv, NEW d \in Daemons, StartTurn(d)
  PROVE  TypeInv'
<1> DEFINE x == [snd[d] EXCEPT !.pc = "turn"]
<1>1. d \in Senders /\ snd[d] \in Sending /\ batch[d] \in Seq(Nat) /\ batch[d] # <<>>
  BY DEF StartTurn, TypeInv, TypeOK, ProcessesOK, LoopOK
<1>2. x \in Sending /\ x.pc = "turn" /\ Move(d, x) /\ snd[d].pc = "idle"
  BY <1>1, Relabelled DEF StartTurn, Goto
<1> HIDE DEF x
<1>3. ProcessesOK' /\ HasMessage' /\ HasRequest' /\ Awaited'
  BY <1>1, <1>2, SenderMoves DEF StartTurn, Busy
<1>4. Drained'
  BY <1>1, <1>2 DEF StartTurn, Move, TypeInv, TypeOK, ProcessesOK, Drained, files
<1>5. handled' \in Seq(Nat)
  BY <1>1 DEF StartTurn, TypeInv, TypeOK, LoopOK
<1> QED
  BY <1>3, <1>4, <1>5 DEF StartTurn, TypeInv, TypeOK, FilesOK, LoopOK, CountsOK, files, count

\* The batch of d shrinks to b while d moves to x.
LEMMA BatchShrinks ==
  ASSUME TypeInv, NEW d \in Daemons, snd[d].pc = "turn", NEW x \in Sending, Move(d, x),
         x.pc # "turn", x.pc \in Busy => x.msg \in Message,
         NEW b \in {Tail(batch[d]), <<>>}, batch' = [batch EXCEPT ![d] = b],
         UNCHANGED <<up, net, srv, inbox>>
  PROVE  /\ ProcessesOK' /\ HasMessage' /\ HasRequest' /\ Awaited' /\ Drained'
         /\ batch' \in [Daemons -> Seq(Nat)]
<1>1. d \in Senders /\ batch \in [Daemons -> Seq(Nat)] /\ batch[d] \in Seq(Nat) /\ batch[d] # <<>>
  BY DEF TypeInv, TypeOK, LoopOK, Drained
<1>2. ProcessesOK' /\ HasMessage' /\ HasRequest' /\ Awaited'
  BY <1>1, SenderMoves
<1>3. b \in Seq(Nat) /\ \A n \in DOMAIN b : n + 1 \in DOMAIN batch[d] /\ b[n] = batch[d][n + 1]
  <2>1. CASE b = <<>>
    BY <2>1
  <2>2. CASE b = Tail(batch[d])
    <3>1. /\ b \in Seq(Nat) /\ Len(b) = Len(batch[d]) - 1
          /\ \A n \in 1..Len(b) : b[n] = batch[d][n + 1]
      BY <1>1, <2>2
    <3> QED
      BY SMTT(30), <1>1, <3>1
  <2> QED
    BY <2>1, <2>2
<1>4. Drained'
  BY <1>1, <1>3 DEF Move, TypeInv, TypeOK, ProcessesOK, Drained
<1>5. batch' \in [Daemons -> Seq(Nat)]
  BY <1>1, <1>3
<1> QED
  BY <1>2, <1>4, <1>5

LEMMA EndTurnType ==
  ASSUME TypeInv, NEW d \in Daemons, Reply(d) \/ NoReply(d) \/ FailTurn(d)
  PROVE  TypeInv'
<1>1. /\ d \in Senders /\ snd[d] \in Sending /\ batch[d] \in Seq(Nat) /\ batch[d] # <<>>
      /\ snd[d].pc = "turn"
  BY DEF Reply, NoReply, FailTurn, TypeInv, TypeOK, ProcessesOK, LoopOK, Drained
<1>2. CASE Reply(d)
  <2> DEFINE i == Head(batch[d])
             y == [pc |-> "keys", keys |-> {}, routes |-> routes,
                   msg |-> [key |-> ReplyKey(d, i), sess |-> inbox[i],
                            to |-> Resolved(inbox[i], None)]]
  <2>1. i \in Nat /\ i \in DOMAIN inbox /\ inbox[i] \in Sessions
    <3>1. i = batch[d][1] /\ 1 \in DOMAIN batch[d]
      BY <1>1
    <3> QED
      BY <1>1, <3>1 DEF TypeInv, TypeOK, FilesOK, Drained
  <2>2. Resolved(inbox[i], None) # None =>
          y \in Sending /\ y.pc = "keys" /\ y.msg \in Message
    <3>1. ReplyKey(d, i) \in AllKeys
      BY <2>1 DEF ReplyKey, AllKeys
    <3>2. Resolved(inbox[i], None) \in Targets \cup {None} /\ routes \in Routes
      BY <2>1 DEF Resolved, Routes, TypeInv, TypeOK, FilesOK
    <3> HIDE DEF i
    <3> QED
      BY <2>1, <3>1, <3>2 DEF Sending, Message
  <2>3. PICK x \in {y, At("idle")} :
          Move(d, x) /\ (x = y => Resolved(inbox[i], None) # None \/ y = At("idle"))
    BY <1>2 DEF Reply, Begin
  <2>4. x \in Sending /\ x.pc # "turn" /\ (x.pc \in Busy => x.msg \in Message)
    <3> HIDE DEF y
    <3> QED
      BY <2>2, <2>3, AtType DEF Busy
  <2>5. batch' = [batch EXCEPT ![d] = Tail(batch[d])]
    BY <1>2 DEF Reply
  <2>6. /\ ProcessesOK' /\ HasMessage' /\ HasRequest' /\ Awaited' /\ Drained'
        /\ batch' \in [Daemons -> Seq(Nat)]
    BY <1>1, <1>2, <2>3, <2>4, <2>5, BatchShrinks DEF Reply, files
  <2> QED
    BY <1>2, <2>6 DEF Reply, TypeInv, TypeOK, FilesOK, LoopOK, CountsOK, files, count
<1>3. CASE NoReply(d)
  <2> DEFINE x == [snd[d] EXCEPT !.pc = "idle"]
  <2>1. x \in Sending /\ x.pc = "idle" /\ Move(d, x)
    BY <1>1, <1>3, Relabelled DEF NoReply, Goto
  <2> HIDE DEF x
  <2>2. /\ ProcessesOK' /\ HasMessage' /\ HasRequest' /\ Awaited' /\ Drained'
        /\ batch' \in [Daemons -> Seq(Nat)]
    BY <1>1, <1>3, <2>1, BatchShrinks DEF NoReply, Busy, files
  <2> QED
    BY <1>3, <2>2 DEF NoReply, TypeInv, TypeOK, FilesOK, LoopOK, CountsOK, files, count
<1>4. CASE FailTurn(d)
  <2> DEFINE x == [snd[d] EXCEPT !.pc = "dead"]
  <2>1. x \in Sending /\ x.pc = "dead" /\ Move(d, x)
    BY <1>1, <1>4, Relabelled DEF FailTurn, Goto
  <2> HIDE DEF x
  <2>2. /\ ProcessesOK' /\ HasMessage' /\ HasRequest' /\ Awaited' /\ Drained'
        /\ batch' \in [Daemons -> Seq(Nat)]
    BY <1>1, <1>4, <2>1, BatchShrinks DEF FailTurn, Busy, files
  <2> QED
    BY <1>4, <2>2 DEF FailTurn, TypeInv, TypeOK, FilesOK, LoopOK, CountsOK, files
<1> QED
  BY <1>2, <1>3, <1>4

LEMMA CrashSenderType ==
  ASSUME TypeInv, NEW p \in Senders, CrashSender(p) \/ RestartSender(p)
  PROVE  TypeInv'
<1>1. CASE CrashSender(p)
  <2>1. ProcessesOK' /\ HasMessage' /\ HasRequest' /\ Awaited'
    BY <1>1, AtType, HangupType DEF CrashSender, Busy
  <2>2. LoopOK'
    BY <1>1 DEF CrashSender, TypeInv, TypeOK, LoopOK
  <2>3. Drained'
    BY <1>1, AtType DEF CrashSender, Move, TypeInv, TypeOK, ProcessesOK, LoopOK, Drained, files
  <2> QED
    BY <1>1, <2>1, <2>2, <2>3 DEF CrashSender, TypeInv, TypeOK, FilesOK, CountsOK, files
<1>2. CASE RestartSender(p)
  <2>1. ProcessesOK' /\ HasMessage' /\ HasRequest' /\ Awaited' /\ Drained'
    BY <1>2, SenderRests DEF RestartSender, files, loop
  <2> QED
    BY <1>2, <2>1 DEF RestartSender, TypeInv, TypeOK, FilesOK, LoopOK, CountsOK, files, loop, count
<1> QED
  BY <1>1, <1>2

LEMMA CrashGatewayType ==
  ASSUME TypeInv, CrashGateway \/ RestartGateway
  PROVE  TypeInv'
<1>1. CASE CrashGateway
  <2>1. net' = <<>> /\ srv' = NotServing /\ snd' = snd
    BY <1>1 DEF CrashGateway
  <2>2. ProcessesOK'
    <3>1. net' \in Seq(Request)
      BY <2>1
    <3>2. srv' \in Serving /\ snd' \in [Senders -> Sending] /\ up' \in BOOLEAN
      BY <1>1, <2>1, NotServingType DEF CrashGateway, TypeInv, TypeOK, ProcessesOK
    <3> QED
      BY <3>1, <3>2 DEF ProcessesOK
  <2>4. HasMessage' /\ HasRequest'
    BY <2>1, NotServingType DEF TypeInv, HasMessage, HasRequest
  <2>5. net' = <<>> /\ srv'.req = None
    BY <2>1 DEF NotServing
  <2>6. Awaited'
    BY <2>5 DEF Awaited
  <2>3. lost' \subseteq AllKeys
    BY <1>1, ThreadRecord DEF CrashGateway, TypeInv, TypeOK, CountsOK
  <2> QED
    BY <1>1, <2>2, <2>3, <2>4, <2>6
       DEF CrashGateway, TypeInv, TypeOK, FilesOK, LoopOK, CountsOK, Drained, files, loop
<1>2. CASE RestartGateway
  BY <1>2 DEF RestartGateway, TypeInv, TypeOK, FilesOK, ProcessesOK, LoopOK, CountsOK, HasMessage,
     HasRequest, Drained, Awaited, Asks, files, loop, count
<1> QED
  BY <1>1, <1>2

LEMMA StutterType ==
  ASSUME TypeInv, UNCHANGED vars
  PROVE  TypeInv'
BY DEF vars, files, loop, count, TypeInv, TypeOK, FilesOK, ProcessesOK, LoopOK, CountsOK,
   HasMessage, HasRequest, Drained, Awaited, Asks

LEMMA TypeNext ==
  ASSUME TypeInv, [Next]_vars
  PROVE  TypeInv'
<1>1. CASE UNCHANGED vars
  BY <1>1, StutterType
<1>2. ASSUME NEW p \in Senders, SendStep(p)
      PROVE  TypeInv'
  BY <1>2, CheckKeyType, PostType, TimeoutType, FinishType DEF SendStep
<1>3. ASSUME NEW d \in Daemons, Drain(d)
      PROVE  TypeInv'
  BY <1>3, DrainType, StartTurnType, EndTurnType DEF Drain
<1>4. CASE Serve
  BY <1>4, AcceptType, RefuseType, LookupType, QueueType, RecordType DEF Serve
<1>5. ASSUME NEW c \in Contacts, Receive(c[1], c[2])
      PROVE  TypeInv'
  BY <1>5, ReceiveType
<1> QED
  BY <1>1, <1>2, <1>3, <1>4, <1>5, SendType, CrashSenderType, CrashGatewayType DEF Next

\* Every file, queue, copy and process of the gateway keeps its shape.
THEOREM TypeCorrect == Spec => []TypeOK
<1>1. Spec => []TypeInv
  BY TypeInit, TypeNext, PTL DEF Spec
<1> QED
  BY <1>1, PTL DEF TypeInv

-----------------------------------------------------------------------------
(***************************************************************************)
(* Delivery.  KeysAreQueued and ReceiptsAreTrue speak of files; what makes  *)
(* them inductive is what the processes are about to write: the keys they   *)
(* have loaded, which they write back later, and the key of the message     *)
(* they were told, or have seen, is in the outbox.  That an answer tells it *)
(* of the message its sender waits with is Awaited.                         *)
(***************************************************************************)
Informed == {"route", "key", "receipt"}

Told ==
  \A p \in Senders :
    /\ snd[p].pc \in Informed => snd[p].msg.key \in Outgoing
    /\ snd[p].keys \subseteq Outgoing

Served ==
  /\ srv.pc \in Informed => srv.req.key \in Outgoing
  /\ srv.keys \subseteq Outgoing

DeliveryInv == Told /\ Served /\ KeysAreQueued /\ ReceiptsAreTrue

LEMMA DeliveryInit == Init => DeliveryInv
BY DEF Init, DeliveryInv, Told, Served, KeysAreQueued, ReceiptsAreTrue, At, NotServing, Informed

\* A sender moves to x; the request in the gateway may lose its sender.
LEMMA SenderTells ==
  ASSUME TypeInv, DeliveryInv, NEW p \in Senders, NEW x \in Sending, Move(p, x),
         x.pc \in Informed => x.msg.key \in Outgoing, x.keys \subseteq Outgoing,
         outbox' = outbox, srv'.pc = srv.pc, srv'.keys = srv.keys,
         srv.pc \in Informed => srv'.req.key = srv.req.key
  PROVE  Told' /\ Served' /\ Outgoing' = Outgoing
<1>1. Outgoing' = Outgoing
  BY DEF Outgoing
<1>2. snd' = [snd EXCEPT ![p] = x] /\ snd \in [Senders -> Sending]
  BY DEF Move, TypeInv, TypeOK, ProcessesOK
<1>3. Told'
  BY <1>1, <1>2 DEF DeliveryInv, Told
<1>4. Served'
  BY <1>1 DEF DeliveryInv, Served
<1> QED
  BY <1>1, <1>3, <1>4

\* What the files say stays true while the outbox and the two files stay.
LEMMA FilesStay ==
  ASSUME DeliveryInv, Outgoing' = Outgoing, UNCHANGED <<keys, receipts>>
  PROVE  KeysAreQueued' /\ ReceiptsAreTrue'
BY DEF DeliveryInv, KeysAreQueued, ReceiptsAreTrue

LEMMA HangupKeeps ==
  ASSUME TypeInv, NEW p \in Senders, Hangup(p)
  PROVE  /\ srv'.pc = srv.pc /\ srv'.keys = srv.keys
         /\ srv.pc # "idle" => srv'.req.key = srv.req.key
<1>1. srv \in Serving /\ (srv.req # None => srv.req \in Request)
  BY DEF TypeInv, TypeOK, ProcessesOK, Serving
<1> QED
  BY <1>1 DEF Hangup, Serving, Request

LEMMA SendingDelivers ==
  ASSUME TypeInv, DeliveryInv, NEW p \in Senders, SendStep(p)
  PROVE  DeliveryInv'
<1>0. snd[p] \in Sending /\ (snd[p].keys \subseteq Outgoing)
  BY DEF TypeInv, TypeOK, ProcessesOK, DeliveryInv, Told
<1>1. CASE CheckKey(p)
  <2>1. PICK x \in {At("idle"), [snd[p] EXCEPT !.pc = "post", !.keys = keys]} : Move(p, x)
    BY <1>1 DEF CheckKey
  <2>2. x \in Sending /\ x.pc \notin Informed /\ x.keys \subseteq Outgoing
    BY <1>0, <2>1, AtType DEF Sending, Informed, DeliveryInv, KeysAreQueued, TypeInv, TypeOK, FilesOK
  <2> QED
    BY <1>1, <2>1, <2>2, SenderTells, FilesStay DEF CheckKey, files, DeliveryInv
<1>2. CASE Post(p)
  <2>1. PICK label \in {"wait", "failed"} : Goto(p, label)
    BY <1>2 DEF Post
  <2>2. [snd[p] EXCEPT !.pc = label] \in Sending
        /\ [snd[p] EXCEPT !.pc = label].pc \notin Informed
        /\ [snd[p] EXCEPT !.pc = label].keys \subseteq Outgoing
    BY <1>0, <2>1, Relabelled DEF Busy, Informed
  <2> QED
    BY <1>2, <2>1, <2>2, SenderTells, FilesStay DEF Post, Goto, files, DeliveryInv
<1>3. CASE Timeout(p)
  <2>1. [snd[p] EXCEPT !.pc = "failed"] \in Sending
        /\ [snd[p] EXCEPT !.pc = "failed"].pc \notin Informed
        /\ [snd[p] EXCEPT !.pc = "failed"].keys \subseteq Outgoing
    BY ZenonT(30), <1>0, Relabelled DEF Busy, Informed
  <2> QED
    BY <1>3, <2>1, SenderTells, FilesStay, HangupKeeps
       DEF Timeout, Goto, files, DeliveryInv, Informed
<1>4. CASE SendFailed(p)
  <2>1. Told' /\ Served' /\ Outgoing' = Outgoing
    BY <1>4, AtType, SenderTells DEF SendFailed, Informed
  <2>2. KeysAreQueued' /\ ReceiptsAreTrue'
    BY <1>4, <2>1 DEF SendFailed, DeliveryInv, KeysAreQueued, ReceiptsAreTrue
  <2> QED
    BY <2>1, <2>2 DEF DeliveryInv
<1>5. CASE SaveRoute(p)
  <2>1. [snd[p] EXCEPT !.pc = "key"] \in Sending
        /\ [snd[p] EXCEPT !.pc = "key"].msg = snd[p].msg
        /\ [snd[p] EXCEPT !.pc = "key"].keys \subseteq Outgoing
    BY <1>0, Relabelled DEF Busy
  <2>2. snd[p].msg.key \in Outgoing
    BY <1>5 DEF SaveRoute, DeliveryInv, Told, Informed
  <2> QED
    BY <1>5, <2>1, <2>2, SenderTells, FilesStay DEF SaveRoute, Goto, DeliveryInv
<1>6. CASE SaveKey(p)
  <2>1. [snd[p] EXCEPT !.pc = "receipt"] \in Sending
        /\ [snd[p] EXCEPT !.pc = "receipt"].msg = snd[p].msg
        /\ [snd[p] EXCEPT !.pc = "receipt"].keys \subseteq Outgoing
    BY <1>0, Relabelled DEF Busy
  <2>2. snd[p].msg.key \in Outgoing
    BY <1>6 DEF SaveKey, DeliveryInv, Told, Informed
  <2>3. Told' /\ Served' /\ Outgoing' = Outgoing
    BY <1>6, <2>1, <2>2, SenderTells DEF SaveKey, Goto
  <2>4. KeysAreQueued' /\ ReceiptsAreTrue'
    BY <1>0, <1>6, <2>2, <2>3
       DEF SaveKey, SaveKeys, DeliveryInv, KeysAreQueued, ReceiptsAreTrue
  <2> QED
    BY <2>3, <2>4 DEF DeliveryInv
<1>7. CASE SendDone(p)
  <2>1. snd[p].msg.key \in Outgoing
    BY <1>7 DEF SendDone, DeliveryInv, Told, Informed
  <2>2. Told' /\ Served' /\ Outgoing' = Outgoing
    BY <1>7, AtType, SenderTells DEF SendDone, Informed
  <2>3. KeysAreQueued' /\ ReceiptsAreTrue'
    BY <1>7, <2>1, <2>2 DEF SendDone, DeliveryInv, KeysAreQueued, ReceiptsAreTrue
  <2> QED
    BY <2>2, <2>3 DEF DeliveryInv
<1> QED
  BY <1>1, <1>2, <1>3, <1>4, <1>5, <1>6, <1>7 DEF SendStep

\* A call of message.send, the daemon's steps, crash and restart: the sender
\* forgets what it knew, or keeps it and leaves the files alone.
LEMMA OthersDeliver ==
  ASSUME TypeInv, DeliveryInv, NEW p \in Senders,
         \/ \E key \in Keys, sess \in Sessions, to \in Targets \cup {None} : Send(p, key, sess, to)
         \/ p \in Daemons /\ Drain(p)
         \/ CrashSender(p) \/ RestartSender(p)
  PROVE  DeliveryInv'
<1>1. snd[p] \in Sending /\ snd[p].keys \subseteq Outgoing /\ snd' \in [Senders -> Sending]
  BY TypeNext DEF TypeInv, TypeOK, ProcessesOK, DeliveryInv, Told, Next
<1>2. PICK x : Move(p, x) /\ x.pc \notin Informed /\ x.keys \subseteq snd[p].keys
  <2>1. ASSUME NEW key \in Keys, NEW sess \in Sessions, NEW to \in Targets \cup {None},
               Send(p, key, sess, to)
        PROVE  \E x : Move(p, x) /\ x.pc \notin Informed /\ x.keys \subseteq snd[p].keys
    BY <2>1 DEF Send, Begin, Informed
  <2>2. CASE p \in Daemons /\ Drain(p)
    <3>1. ASSUME NEW label \in {"idle", "drain", "turn", "dead"}, Goto(p, label)
          PROVE  \E x : Move(p, x) /\ x.pc \notin Informed /\ x.keys \subseteq snd[p].keys
      <4>1. [snd[p] EXCEPT !.pc = label].pc = label
            /\ [snd[p] EXCEPT !.pc = label].keys = snd[p].keys
        BY <1>1, Relabelled
      <4> QED
        BY <3>1, <4>1 DEF Goto, Informed
    <3>2. CASE Reply(p)
      BY <3>2, AtType DEF Reply, Begin, Informed
    <3> QED
      BY <2>2, <3>1, <3>2
         DEF Drain, ReadInbox, SaveOffset, StartTurn, NoReply, FailTurn
  <2>3. CASE CrashSender(p) \/ RestartSender(p)
    BY <2>3, AtType DEF CrashSender, RestartSender, Informed
  <2> QED
    BY <2>1, <2>2, <2>3
<1>3. x \in Sending
  BY <1>1, <1>2 DEF Move, TypeInv, TypeOK, ProcessesOK
<1>4. /\ UNCHANGED <<outbox, keys, receipts>>
      /\ srv'.pc = srv.pc /\ srv'.keys = srv.keys
      /\ srv.pc \in Informed => srv'.req.key = srv.req.key
  BY HangupKeeps
     DEF Send, Drain, ReadInbox, SaveOffset, StartTurn, Reply, NoReply, FailTurn, CrashSender,
         RestartSender, files, Informed
<1>5. Told' /\ Served' /\ Outgoing' = Outgoing
  BY <1>1, <1>2, <1>3, <1>4, SenderTells
<1> QED
  BY <1>4, <1>5, FilesStay DEF DeliveryInv

\* The answer to a request reaches the sender that waits with the same key.
LEMMA AnswerTells ==
  ASSUME TypeInv, DeliveryInv, NEW r \in Request, Asks(r), NEW ok \in BOOLEAN, Answer(r, ok),
         ok => r.key \in Outgoing, outbox' = outbox
  PROVE  Told' /\ Outgoing' = Outgoing
<1>1. Outgoing' = Outgoing
  BY DEF Outgoing
<1>2. CASE r.from = None
  BY <1>1, <1>2 DEF Answer, DeliveryInv, Told
<1>3. CASE r.from # None
  <2> DEFINE label == IF ok THEN "route" ELSE "failed"
             x == [snd[r.from] EXCEPT !.pc = label]
  <2>1. r.from \in Senders /\ snd \in [Senders -> Sending] /\ snd[r.from] \in Sending
    BY <1>3 DEF Request, TypeInv, TypeOK, ProcessesOK
  <2>2. x.pc = label /\ x.msg = snd[r.from].msg /\ x.keys = snd[r.from].keys
    BY <2>1 DEF Sending
  <2>3. x.pc \in Informed => x.msg.key \in Outgoing
    BY <1>3, <2>2 DEF Asks, Informed
  <2>4. snd' = [snd EXCEPT ![r.from] = x]
    BY <1>3 DEF Answer
  <2> HIDE DEF x
  <2> QED
    BY <1>1, <2>1, <2>2, <2>3, <2>4 DEF DeliveryInv, Told
<1> QED
  BY <1>2, <1>3

\* A step of the thread that answers nobody and leaves the files alone.
LEMMA ThreadTells ==
  ASSUME DeliveryInv, UNCHANGED <<outbox, keys, receipts, snd>>,
         srv'.pc \in Informed => srv'.req.key \in Outgoing, srv'.keys \subseteq Outgoing
  PROVE  DeliveryInv'
<1>1. Outgoing' = Outgoing
  BY DEF Outgoing
<1>2. Told' /\ Served'
  BY <1>1 DEF DeliveryInv, Told, Served
<1> QED
  BY <1>1, <1>2, FilesStay DEF DeliveryInv

LEMMA OutboxGrows ==
  ASSUME TypeInv, AppendMessage
  PROVE  /\ Outgoing' = Outgoing \cup {srv.req.key}
         /\ outbox' \in Seq(Message) /\ Len(outbox') = Len(outbox) + 1
         /\ \A i \in DOMAIN outbox : outbox'[i] = outbox[i]
         /\ outbox'[Len(outbox) + 1].key = srv.req.key
<1> DEFINE m == [key |-> srv.req.key, sess |-> srv.req.sess, to |-> srv.req.to]
<1>1. outbox \in Seq(Message) /\ m \in Message /\ m.key = srv.req.key
  BY DEF AppendMessage, TypeInv, TypeOK, FilesOK, HasRequest, Request, Message
<1>2. outbox' = Append(outbox, m)
  BY DEF AppendMessage
<1> HIDE DEF m
<1>3. /\ outbox' \in Seq(Message) /\ Len(outbox') = Len(outbox) + 1
      /\ \A i \in DOMAIN outbox : outbox'[i] = outbox[i]
      /\ outbox'[Len(outbox) + 1] = m
  BY <1>1, <1>2
<1>4. DOMAIN outbox' = DOMAIN outbox \cup {Len(outbox) + 1}
  BY <1>1, <1>3
<1>5. Outgoing' = Outgoing \cup {srv.req.key}
  BY <1>1, <1>3, <1>4 DEF Outgoing
<1> QED
  BY <1>1, <1>3, <1>5

LEMMA ServingDelivers ==
  ASSUME TypeInv, DeliveryInv, Serve
  PROVE  DeliveryInv'
<1>0. srv \in Serving /\ srv.keys \subseteq Outgoing /\ net \in Seq(Request)
      /\ (srv.pc # "idle" => srv.req \in Request /\ Asks(srv.req))
  BY NoneAssumption DEF TypeInv, TypeOK, ProcessesOK, HasRequest, Awaited, DeliveryInv, Served
<1>1. CASE Accept \/ LoadRoutes
  <2>1. srv'.pc \notin Informed /\ srv'.keys \subseteq Outgoing
    <3>1. CASE Accept
      BY <3>1 DEF Accept, Informed
    <3>2. CASE LoadRoutes
      BY <1>0, <3>2 DEF LoadRoutes, Serving, Informed
    <3> QED
      BY <1>1, <3>1, <3>2
  <2>2. UNCHANGED <<outbox, keys, receipts, snd>>
    BY <1>1 DEF Accept, LoadRoutes, files
  <2> QED
    BY <2>1, <2>2, <1>0, ThreadTells DEF Informed
<1>2. CASE RecordMessage \/ RecordRoute
  BY <1>0, <1>2, ThreadTells DEF RecordMessage, RecordRoute, NotServing, Serving, Informed
<1>3. CASE QueueRoute
  BY <1>0, <1>3, ThreadTells DEF QueueRoute, Serving, Informed, DeliveryInv, Served
<1>4. CASE Refuse
  <2>1. Head(net) \in Request /\ Asks(Head(net))
    BY <1>0, <1>4 DEF Refuse, TypeInv, Awaited
  <2>2. Told' /\ Outgoing' = Outgoing
    BY <1>4, <2>1, AnswerTells DEF Refuse, files
  <2> QED
    BY <1>4, <2>2, FilesStay DEF Refuse, files, DeliveryInv, Served
<1>5. CASE Lookup
  <2>1. CASE srv.req.key \in keys
    <3>1. Answer(srv.req, TRUE) /\ srv' = NotServing /\ UNCHANGED files
      BY <1>5, <2>1 DEF Lookup
    <3>2. srv.req.key \in Outgoing /\ srv.pc # "idle"
      BY <1>5, <2>1 DEF Lookup, DeliveryInv, KeysAreQueued
    <3>3. Told' /\ Outgoing' = Outgoing
      BY <1>0, <3>1, <3>2, AnswerTells DEF files
    <3>4. Served'
      BY <3>1 DEF Served, NotServing, Informed
    <3> QED
      BY <3>1, <3>3, <3>4, FilesStay DEF files, DeliveryInv
  <2>2. CASE srv.req.key \notin keys
    BY <1>0, <1>5, <2>2, ThreadTells
       DEF Lookup, files, Serving, Informed, DeliveryInv, KeysAreQueued
  <2> QED
    BY <2>1, <2>2
<1>6. CASE AppendMessage
  <2>1. Outgoing' = Outgoing \cup {srv.req.key}
    BY <1>6, OutboxGrows
  <2>2. srv'.req = srv.req /\ srv'.keys = srv.keys /\ UNCHANGED <<snd, keys, receipts>>
    BY <1>0, <1>6 DEF AppendMessage, Serving
  <2> QED
    BY <1>0, <2>1, <2>2 DEF DeliveryInv, Told, Served, KeysAreQueued, ReceiptsAreTrue
<1>7. CASE QueueKey
  <2>1. srv'.req = srv.req /\ srv'.keys = srv.keys /\ UNCHANGED <<snd, outbox, receipts>>
    BY <1>0, <1>7 DEF QueueKey, Serving
  <2>2. Outgoing' = Outgoing /\ srv.req.key \in Outgoing
    BY <1>7, <2>1 DEF QueueKey, Outgoing, DeliveryInv, Served, Informed
  <2>3. keys' \subseteq Outgoing
    BY <1>0, <1>7, <2>2 DEF QueueKey, SaveKeys
  <2> QED
    BY <1>0, <2>1, <2>2, <2>3 DEF DeliveryInv, Told, Served, KeysAreQueued, ReceiptsAreTrue
<1>8. CASE Queued
  <2>1. srv.req.key \in Outgoing /\ srv.pc # "idle"
    BY <1>8 DEF Queued, DeliveryInv, Served, Informed
  <2>2. Told' /\ Outgoing' = Outgoing
    BY <1>0, <1>8, <2>1, AnswerTells DEF Queued
  <2>3. Served'
    BY <1>8 DEF Queued, Served, NotServing, Informed
  <2>4. KeysAreQueued' /\ ReceiptsAreTrue'
    BY <1>8, <2>1, <2>2 DEF Queued, DeliveryInv, KeysAreQueued, ReceiptsAreTrue
  <2> QED
    BY <2>2, <2>3, <2>4 DEF DeliveryInv
<1> QED
  BY <1>1, <1>2, <1>3, <1>4, <1>5, <1>6, <1>7, <1>8 DEF Serve

LEMMA DeliveryNext ==
  ASSUME TypeInv, DeliveryInv, [Next]_vars
  PROVE  DeliveryInv'
<1>1. CASE UNCHANGED vars
  BY <1>1 DEF vars, files, DeliveryInv, Told, Served, KeysAreQueued, ReceiptsAreTrue, Outgoing
<1>2. CASE CrashGateway
  BY <1>2, ThreadTells DEF CrashGateway, files, NotServing, Informed
<1>3. CASE RestartGateway \/ \E c \in Contacts : Receive(c[1], c[2])
  BY <1>3, ThreadTells DEF RestartGateway, Receive, files, DeliveryInv, Served
<1> QED
  BY <1>1, <1>2, <1>3, SendingDelivers, OthersDeliver, ServingDelivers DEF Next

\* idempotency.json never has the key of a message that is not in the outbox,
\* however stale the copy of it is that a process saves.
THEOREM KeysCorrect == Spec => []KeysAreQueued
<1>1. Spec => [](TypeInv /\ DeliveryInv)
  BY TypeInit, TypeNext, DeliveryInit, DeliveryNext, PTL DEF Spec
<1> QED
  BY <1>1, PTL DEF DeliveryInv

\* No receipt says that a message was sent or queued that is not in the outbox,
\* whichever process wrote it and whoever was killed in between.
THEOREM ReceiptsCorrect == Spec => []ReceiptsAreTrue
<1>1. Spec => [](TypeInv /\ DeliveryInv)
  BY TypeInit, TypeNext, DeliveryInit, DeliveryNext, PTL DEF Spec
<1> QED
  BY <1>1, PTL DEF DeliveryInv

-----------------------------------------------------------------------------
(***************************************************************************)
(* Once.  A key of the outbox is in idempotency.json, or was lost from it,  *)
(* or is the one whose message the thread has just appended; hence a key    *)
(* that the thread did not find there is, while it is about to append its   *)
(* message, a new one or a lost one.                                        *)
(***************************************************************************)
Appended == IF srv.pc \in {"route", "key"} THEN {srv.req.key} ELSE {}

Known == Outgoing \subseteq keys \cup lost \cup Appended

NewOrLost == srv.pc = "append" /\ srv.req.key \in Outgoing => srv.req.key \in lost

OnceInv == Known /\ NewOrLost /\ TwiceOnlyIfLost

LEMMA OnceInit == Init => OnceInv
BY DEF Init, OnceInv, Known, NewOrLost, TwiceOnlyIfLost, Outgoing, NotServing

\* A step that leaves the outbox alone, and the thread where it is.
LEMMA OnceStays ==
  ASSUME OnceInv, outbox' = outbox, keys \cup lost \subseteq keys' \cup lost', lost \subseteq lost',
         srv'.pc = srv.pc, srv.pc # "idle" => srv'.req.key = srv.req.key
  PROVE  OnceInv'
<1>1. Outgoing' = Outgoing /\ Appended' = Appended
  BY DEF Outgoing, Appended
<1>2. Known' /\ NewOrLost'
  BY <1>1 DEF OnceInv, Known, NewOrLost
<1>3. TwiceOnlyIfLost'
  BY DEF OnceInv, TwiceOnlyIfLost
<1> QED
  BY <1>2, <1>3 DEF OnceInv

\* A step of the thread outside AppendMessage.
LEMMA OnceServes ==
  ASSUME OnceInv, outbox' = outbox, lost \subseteq lost', srv'.pc # "append",
         keys \cup lost \cup Appended \subseteq keys' \cup lost' \cup Appended'
  PROVE  OnceInv'
<1>1. Outgoing' = Outgoing
  BY DEF Outgoing
<1>2. Known' /\ NewOrLost'
  BY <1>1 DEF OnceInv, Known, NewOrLost
<1>3. TwiceOnlyIfLost'
  BY DEF OnceInv, TwiceOnlyIfLost
<1> QED
  BY <1>2, <1>3 DEF OnceInv

LEMMA SenderOnce ==
  ASSUME TypeInv, OnceInv, NEW p \in Senders,
         \/ \E key \in Keys, sess \in Sessions, to \in Targets \cup {None} : Send(p, key, sess, to)
         \/ SendStep(p) \/ CrashSender(p) \/ RestartSender(p)
         \/ p \in Daemons /\ Drain(p)
  PROVE  OnceInv'
<1>1. outbox' = outbox /\ keys \cup lost \subseteq keys' \cup lost' /\ lost \subseteq lost'
  BY DEF Send, SendStep, CheckKey, Post, Timeout, SendFailed, SaveRoute, SaveKey, SaveKeys, SendDone,
     CrashSender, RestartSender, Drain, ReadInbox, SaveOffset, StartTurn, Reply, NoReply, FailTurn,
     files
<1>2. srv'.pc = srv.pc /\ (srv.pc # "idle" => srv'.req.key = srv.req.key)
  BY HangupKeeps
     DEF Send, SendStep, CheckKey, Post, Timeout, SendFailed, SaveRoute, SaveKey, SendDone,
         CrashSender, RestartSender, Drain, ReadInbox, SaveOffset, StartTurn, Reply, NoReply, FailTurn
<1> QED
  BY <1>1, <1>2, OnceStays

LEMMA ServingOnce ==
  ASSUME TypeInv, OnceInv, Serve
  PROVE  OnceInv'
<1>0. srv \in Serving
  BY DEF TypeInv, TypeOK, ProcessesOK
<1>1. CASE Accept \/ Refuse \/ LoadRoutes \/ RecordMessage \/ RecordRoute
  <2>1. srv'.pc \notin {"append", "route", "key"} /\ srv.pc \notin {"route", "key"}
    <3>1. CASE Accept
      BY <3>1 DEF Accept
    <3>2. CASE Refuse
      BY <3>2 DEF Refuse
    <3>3. CASE LoadRoutes \/ RecordMessage
      BY <1>0, <3>3 DEF LoadRoutes, RecordMessage, Serving
    <3>4. CASE RecordRoute
      BY <3>4 DEF RecordRoute, NotServing
    <3> QED
      BY <1>1, <3>1, <3>2, <3>3, <3>4
  <2>2. UNCHANGED <<outbox, keys, lost>>
    BY <1>1 DEF Accept, Refuse, LoadRoutes, RecordMessage, RecordRoute, files
  <2> QED
    BY <2>1, <2>2, OnceServes DEF Appended
<1>2. CASE Lookup
  <2>1. srv.pc = "keys" /\ UNCHANGED <<outbox, keys, lost>>
    BY <1>2 DEF Lookup, files
  <2>2. CASE srv.req.key \in keys
    BY <1>2, <2>1, <2>2, OnceServes DEF Lookup, NotServing, Appended
  <2>3. CASE srv.req.key \notin keys
    <3>1. srv'.pc = "append" /\ srv'.req = srv.req
      BY <1>0, <1>2, <2>3 DEF Lookup, Serving
    <3>2. Outgoing' = Outgoing /\ Outgoing \subseteq keys \cup lost
      BY <2>1 DEF Outgoing, OnceInv, Known, Appended
    <3>3. TwiceOnlyIfLost'
      BY <2>1 DEF OnceInv, TwiceOnlyIfLost
    <3> QED
      BY <2>1, <2>3, <3>1, <3>2, <3>3 DEF OnceInv, Known, NewOrLost
  <2> QED
    BY <2>2, <2>3
<1>3. CASE AppendMessage
  <2>1. /\ srv.pc = "append" /\ srv'.pc = "route" /\ srv'.req = srv.req
        /\ UNCHANGED <<keys, lost>>
    BY <1>0, <1>3 DEF AppendMessage, Serving
  <2>2. Known' /\ NewOrLost'
    BY <1>3, <2>1, OutboxGrows DEF OnceInv, Known, NewOrLost, Appended
  <2>3. TwiceOnlyIfLost'
    <3>1. SUFFICES ASSUME NEW i \in DOMAIN outbox', NEW j \in DOMAIN outbox', i # j,
                          outbox'[i].key = outbox'[j].key
                   PROVE  outbox'[i].key \in lost
      BY <2>1 DEF TwiceOnlyIfLost
    <3>2. /\ outbox \in Seq(Message) /\ outbox' \in Seq(Message)
          /\ Len(outbox') = Len(outbox) + 1
      BY <1>3, OutboxGrows DEF TypeInv, TypeOK, FilesOK
    <3>3. CASE i \in DOMAIN outbox /\ j \in DOMAIN outbox
      BY <1>3, <3>1, <3>3, OutboxGrows DEF OnceInv, TwiceOnlyIfLost
    <3>4. CASE i \notin DOMAIN outbox \/ j \notin DOMAIN outbox
      <4>1. PICK n \in DOMAIN outbox : outbox[n].key = outbox'[i].key /\ outbox'[i].key = srv.req.key
        BY <1>3, <3>1, <3>2, <3>4, OutboxGrows
      <4> QED
        BY <2>1, <4>1 DEF OnceInv, NewOrLost, Outgoing
    <3> QED
      BY <3>3, <3>4
  <2> QED
    BY <2>2, <2>3 DEF OnceInv
<1>4. CASE QueueRoute
  BY <1>0, <1>4, OnceServes DEF QueueRoute, Serving, Appended
<1>5. CASE QueueKey
  <2>1. srv.pc = "key" /\ srv'.pc = "receipt" /\ outbox' = outbox
    BY <1>0, <1>5 DEF QueueKey, Serving
  <2>2. srv.req.key \in keys' /\ keys \cup lost \subseteq keys' \cup lost' /\ lost \subseteq lost'
    BY <1>5 DEF QueueKey, SaveKeys
  <2> QED
    BY <2>1, <2>2, OnceServes DEF Appended
<1>6. CASE Queued
  BY <1>6, OnceServes DEF Queued, NotServing, Appended
<1> QED
  BY <1>1, <1>2, <1>3, <1>4, <1>5, <1>6 DEF Serve

LEMMA OnceNext ==
  ASSUME TypeInv, OnceInv, [Next]_vars
  PROVE  OnceInv'
<1>1. CASE UNCHANGED vars
  BY <1>1, OnceStays DEF vars, files
<1>2. CASE RestartGateway \/ \E c \in Contacts : Receive(c[1], c[2])
  BY <1>2, OnceStays DEF RestartGateway, Receive, files
<1>3. CASE CrashGateway
  BY <1>3, OnceServes DEF CrashGateway, files, NotServing, Appended
<1> QED
  BY <1>1, <1>2, <1>3, SenderOnce, ServingOnce DEF Next

\* Whatever is repeated, timed out or killed, only a message whose key was lost
\* from idempotency.json is ever twice in the outbox.
THEOREM OnceCorrect == Spec => []TwiceOnlyIfLost
<1>1. Spec => [](TypeInv /\ OnceInv)
  BY TypeInit, TypeNext, OnceInit, OnceNext, PTL DEF Spec
<1> QED
  BY <1>1, PTL DEF OnceInv

-----------------------------------------------------------------------------
(***************************************************************************)
(* With one daemon, turns run in the order of the inbox.                    *)
(***************************************************************************)
OneDaemon == \A d, e \in Daemons : d = e

\* What was drained and is not handled yet is in order and after all that was handled,
\* but for the message whose turn runs.  It is before the saved offset, or before the one
\* that is about to be saved.
InOrder(d) ==
  /\ \A m, n \in DOMAIN batch[d] : m < n => batch[d][m] < batch[d][n]
  /\ \A n \in DOMAIN handled, m \in DOMAIN batch[d] :
       handled[n] < batch[d][m] \/ (snd[d].pc = "turn" /\ m = 1 /\ handled[n] = batch[d][m])
  /\ snd[d].pc # "drain" => \A m \in DOMAIN batch[d] : batch[d][m] <= offset
  /\ snd[d].pc = "drain" =>
       /\ offset <= total[d] /\ total[d] <= Len(inbox)
       /\ \A m \in DOMAIN batch[d] : batch[d][m] <= total[d]

OrderInv ==
  /\ HandledInOrder
  /\ offset <= Len(inbox)
  /\ \A n \in DOMAIN handled : handled[n] <= offset
  /\ \A d \in Daemons : InOrder(d)

LEMMA OrderInit == Init => OrderInv
BY DEF Init, OrderInv, InOrder, HandledInOrder, At

\* A step that neither drains nor handles anything.
LEMMA OrderStays ==
  ASSUME TypeInv, OrderInv, UNCHANGED <<offset, loop>>, Len(inbox') >= Len(inbox),
         inbox' \in Seq(Sessions),
         \A d \in Daemons : /\ snd'[d].pc = "drain" <=> snd[d].pc = "drain"
                            /\ snd[d].pc = "turn" => snd'[d].pc = "turn"
  PROVE  OrderInv'
<1>1. offset \in Nat /\ Len(inbox) \in Nat /\ Len(inbox') \in Nat /\ total \in [Daemons -> Nat]
  BY DEF TypeInv, TypeOK, FilesOK, LoopOK
<1>2. offset' = offset /\ offset <= Len(inbox')
  BY <1>1 DEF OrderInv
<1>3. UNCHANGED <<batch, total, handled>>
  BY DEF loop
<1>4. ASSUME NEW d \in Daemons PROVE InOrder(d)'
  <2>1. InOrder(d) /\ total[d] \in Nat
    BY <1>1 DEF OrderInv
  <2>2. batch'[d] = batch[d] /\ total'[d] = total[d] /\ handled' = handled
    BY <1>3
  <2>3. total[d] <= Len(inbox) => total[d] <= Len(inbox')
    BY <1>1, <2>1
  <2>4. \A m, n \in DOMAIN batch'[d] : m < n => batch'[d][m] < batch'[d][n]
    BY <2>1, <2>2 DEF InOrder
  <2>5. \A n \in DOMAIN handled', m \in DOMAIN batch'[d] :
          handled'[n] < batch'[d][m] \/ (snd'[d].pc = "turn" /\ m = 1 /\ handled'[n] = batch'[d][m])
    BY <2>1, <2>2 DEF InOrder
  <2>6. snd'[d].pc # "drain" => \A m \in DOMAIN batch'[d] : batch'[d][m] <= offset'
    BY <1>2, <2>1, <2>2 DEF InOrder
  <2>7. snd'[d].pc = "drain" =>
          /\ offset' <= total'[d] /\ total'[d] <= Len(inbox')
          /\ \A m \in DOMAIN batch'[d] : batch'[d][m] <= total'[d]
    BY <1>2, <2>1, <2>2, <2>3 DEF InOrder
  <2> QED
    BY <2>4, <2>5, <2>6, <2>7 DEF InOrder
<1> QED
  BY <1>2, <1>3, <1>4 DEF OrderInv, HandledInOrder

\* The lists get shorter from the front, or are lost.
LEMMA OrderShrinks ==
  ASSUME OneDaemon, TypeInv, OrderInv, NEW d \in Daemons, UNCHANGED <<offset, inbox, handled>>,
         snd[d].pc # "drain" \/ batch'[d] = <<>>,
         batch'[d] \in {Tail(batch[d]), <<>>} \/ (snd[d].pc # "turn" /\ batch'[d] = batch[d]),
         batch[d] # <<>> \/ batch'[d] = <<>>,
         snd'[d].pc \notin {"turn", "drain"}
  PROVE  OrderInv'
<1>1. batch[d] \in Seq(Nat) /\ handled \in Seq(Nat) /\ InOrder(d) /\ \A e \in Daemons : e = d
  BY DEF TypeInv, TypeOK, LoopOK, OrderInv, OneDaemon
<1>2. batch[d] \in Seq(Nat) /\ batch'[d] = Tail(batch[d]) /\ batch[d] # <<>> =>
        \A n \in DOMAIN batch'[d] : n \in Nat /\ n + 1 \in DOMAIN batch[d]
                                    /\ batch'[d][n] = batch[d][n + 1]
  <2> HAVE batch[d] \in Seq(Nat) /\ batch'[d] = Tail(batch[d]) /\ batch[d] # <<>>
  <2>1. /\ batch'[d] \in Seq(Nat) /\ Len(batch'[d]) = Len(batch[d]) - 1
        /\ \A n \in 1..Len(batch'[d]) : batch'[d][n] = batch[d][n + 1]
    OBVIOUS
  <2> QED
    BY <2>1
<1>3. CASE batch'[d] = <<>>
  BY <1>1, <1>3 DEF OrderInv, InOrder, HandledInOrder
<1>4. CASE batch'[d] = Tail(batch[d]) /\ batch[d] # <<>> /\ snd[d].pc # "drain"
  <2>1. \A n \in DOMAIN batch'[d] : n >= 1 /\ n \in Nat /\ n + 1 \in DOMAIN batch[d]
                                    /\ batch'[d][n] = batch[d][n + 1]
    <3>1. DOMAIN batch'[d] \subseteq Nat \ {0}
      BY <1>1, <1>4
    <3> QED
      BY <1>1, <1>2, <1>4, <3>1
  <2>2. 1 \in DOMAIN batch[d] /\ \A n \in DOMAIN batch[d] : batch[d][n] \in Nat
    BY <1>1, <1>4
  <2>3. \A n \in DOMAIN handled : handled[n] \in Nat
    BY <1>1
  <2>4. ASSUME NEW m \in DOMAIN batch'[d], NEW n \in DOMAIN batch'[d], m < n
        PROVE  batch'[d][m] < batch'[d][n]
    <3>1. m + 1 \in DOMAIN batch[d] /\ n + 1 \in DOMAIN batch[d] /\ m + 1 < n + 1
      BY <2>1, <2>4
    <3>2. batch[d][m + 1] < batch[d][n + 1]
      BY <1>1, <3>1 DEF InOrder
    <3> QED
      BY <2>1, <3>2
  <2>5. \A n \in DOMAIN handled, m \in DOMAIN batch'[d] : handled[n] < batch'[d][m]
    BY <1>1, <2>1, <2>2, <2>3 DEF InOrder
  <2>6. \A m \in DOMAIN batch'[d] : batch'[d][m] <= offset
    BY <1>1, <1>4, <2>1 DEF InOrder
  <2>7. InOrder(d)'
    BY <2>4, <2>5, <2>6 DEF InOrder
  <2> QED
    BY <1>1, <2>7 DEF OrderInv, HandledInOrder
<1>5. CASE snd[d].pc \notin {"turn", "drain"} /\ batch'[d] = batch[d]
  <2>1. InOrder(d)'
    BY <1>1, <1>5 DEF InOrder
  <2> QED
    BY <1>1, <2>1 DEF OrderInv, HandledInOrder
<1> QED
  BY <1>3, <1>4, <1>5

LEMMA ReadOrder ==
  ASSUME OneDaemon, TypeInv, OrderInv, NEW d \in Daemons, ReadInbox(d)
  PROVE  OrderInv'
<1>1. /\ offset \in Nat /\ Len(inbox) \in Nat /\ handled \in Seq(Nat) /\ snd'[d].pc = "drain"
      /\ \A e \in Daemons : e = d
  <2>1. snd[d] \in Sending /\ snd \in [Senders -> Sending] /\ d \in Senders
    BY DEF TypeInv, TypeOK, ProcessesOK
  <2>2. snd' = [snd EXCEPT ![d] = [snd[d] EXCEPT !.pc = "drain"]]
    BY DEF ReadInbox, Goto, Move
  <2> QED
    BY <2>1, <2>2, Relabelled DEF TypeInv, TypeOK, FilesOK, LoopOK, OneDaemon
<1>2. /\ total'[d] = Len(inbox) /\ UNCHANGED <<inbox, offset, handled>>
      /\ batch'[d] = IF offset < Len(inbox) THEN [i \in 1..(Len(inbox) - offset) |-> offset + i]
                     ELSE <<>>
  BY DEF ReadInbox, files, TypeInv, TypeOK, LoopOK
<1>3. \A n \in DOMAIN handled : handled[n] \in Nat /\ handled[n] <= offset
  BY <1>1 DEF OrderInv
<1>4. \A m \in DOMAIN batch'[d] : m \in 1..(Len(inbox) - offset) /\ batch'[d][m] = offset + m
  <2>1. CASE offset < Len(inbox)
    BY <1>2, <2>1
  <2>2. CASE ~(offset < Len(inbox))
    BY <1>2, <2>2
  <2> QED
    BY <2>1, <2>2
<1>5. InOrder(d)'
  <2>1. offset <= Len(inbox)
    BY DEF OrderInv
  <2>2. \A m, n \in DOMAIN batch'[d] : m < n => batch'[d][m] < batch'[d][n]
    BY <1>1, <1>4
  <2>3. \A n \in DOMAIN handled, m \in DOMAIN batch'[d] : handled[n] < batch'[d][m]
    BY <1>1, <1>3, <1>4
  <2>4. \A m \in DOMAIN batch'[d] : batch'[d][m] <= Len(inbox)
    BY <1>1, <1>4
  <2>5. \A n \in DOMAIN handled', m \in DOMAIN batch'[d] : handled'[n] < batch'[d][m]
    BY <1>2, <2>3
  <2>6. offset' <= total'[d] /\ total'[d] <= Len(inbox')
    BY <1>1, <1>2, <2>1
  <2>7. \A m \in DOMAIN batch'[d] : batch'[d][m] <= total'[d]
    BY <1>2, <2>4
  <2> QED
    BY <1>1, <2>2, <2>5, <2>6, <2>7 DEF InOrder
<1> QED
  BY <1>1, <1>2, <1>5 DEF OrderInv, HandledInOrder

LEMMA SaveOrder ==
  ASSUME OneDaemon, TypeInv, OrderInv, NEW d \in Daemons, SaveOffset(d)
  PROVE  OrderInv'
<1>1. /\ snd[d].pc = "drain" /\ snd'[d].pc = "idle" /\ offset' = total[d]
      /\ UNCHANGED <<batch, handled, inbox>> /\ \A e \in Daemons : e = d
  <2>1. snd[d] \in Sending /\ snd \in [Senders -> Sending] /\ d \in Senders
    BY DEF TypeInv, TypeOK, ProcessesOK
  <2>2. snd' = [snd EXCEPT ![d] = [snd[d] EXCEPT !.pc = "idle"]]
    BY DEF SaveOffset, Goto, Move
  <2> QED
    BY <2>1, <2>2, Relabelled DEF SaveOffset, OneDaemon
<1>2. InOrder(d) /\ total[d] \in Nat /\ offset \in Nat /\ offset <= total[d]
  BY <1>1 DEF OrderInv, InOrder, TypeInv, TypeOK, FilesOK, LoopOK
<1>3. InOrder(d)'
  BY <1>1, <1>2 DEF InOrder
<1>4. \A n \in DOMAIN handled : handled[n] \in Nat /\ handled[n] <= offset
  BY DEF OrderInv, TypeInv, TypeOK, LoopOK
<1>5. total[d] <= Len(inbox) /\ \A n \in DOMAIN handled : handled[n] <= total[d]
  BY <1>1, <1>2, <1>4 DEF InOrder
<1> QED
  BY <1>1, <1>3, <1>5 DEF OrderInv, HandledInOrder

LEMMA TurnOrder ==
  ASSUME OneDaemon, TypeInv, OrderInv, NEW d \in Daemons, StartTurn(d)
  PROVE  OrderInv'
<1>1. /\ snd[d].pc = "idle" /\ snd'[d].pc = "turn"
      /\ UNCHANGED <<batch, offset, inbox, total>> /\ \A e \in Daemons : e = d
  <2>1. snd[d] \in Sending /\ snd \in [Senders -> Sending] /\ d \in Senders
    BY DEF TypeInv, TypeOK, ProcessesOK
  <2>2. snd' = [snd EXCEPT ![d] = [snd[d] EXCEPT !.pc = "turn"]]
    BY DEF StartTurn, Goto, Move
  <2> QED
    BY <2>1, <2>2, Relabelled DEF StartTurn, OneDaemon, files
<1>2. /\ batch[d] \in Seq(Nat) /\ batch[d] # <<>> /\ handled \in Seq(Nat) /\ InOrder(d)
      /\ handled' = Append(handled, batch[d][1])
  BY DEF StartTurn, TypeInv, TypeOK, LoopOK, OrderInv
<1>3. 1 \in DOMAIN batch[d] /\ \A m \in DOMAIN batch[d] : m >= 1 /\ m \in Nat /\ batch[d][m] \in Nat
  BY <1>2
<1>4. /\ \A n \in DOMAIN handled : handled[n] < batch[d][1] /\ handled[n] \in Nat
      /\ batch[d][1] <= offset
  BY <1>1, <1>2, <1>3 DEF InOrder
<1>5. \A n \in DOMAIN handled' :
        \/ n \in DOMAIN handled /\ handled'[n] = handled[n]
        \/ n = Len(handled) + 1 /\ handled'[n] = batch[d][1]
  BY <1>2, <1>3
<1>6. \A n \in DOMAIN handled : n \in Nat /\ n < Len(handled) + 1
  BY <1>2
<1>7. HandledInOrder'
  BY SMTT(30), <1>2, <1>4, <1>5, <1>6 DEF OrderInv, HandledInOrder
<1>8. \A n \in DOMAIN handled' : handled'[n] <= offset
  BY <1>4, <1>5 DEF OrderInv
<1>9. \A n \in DOMAIN handled', m \in DOMAIN batch[d] :
        handled'[n] < batch[d][m] \/ (m = 1 /\ handled'[n] = batch[d][m])
  <2>1. \A m \in DOMAIN batch[d] : m # 1 => batch[d][1] < batch[d][m]
    BY <1>2, <1>3 DEF InOrder
  <2>2. \A n \in DOMAIN handled, m \in DOMAIN batch[d] : handled[n] < batch[d][m]
    BY <1>1, <1>2 DEF InOrder
  <2> QED
    BY <1>5, <2>1, <2>2
<1>10. InOrder(d)'
  BY <1>1, <1>2, <1>9 DEF InOrder
<1> QED
  BY <1>1, <1>7, <1>8, <1>10 DEF OrderInv

\* What is not the daemon's draining leaves where each daemon is in it.
LEMMA AnswerOrder ==
  ASSUME TypeInv, NEW r \in Request, Asks(r), NEW ok \in BOOLEAN, Answer(r, ok)
  PROVE  \A p \in Senders : /\ snd'[p].pc = "drain" <=> snd[p].pc = "drain"
                            /\ snd[p].pc = "turn" => snd'[p].pc = "turn"
<1>1. CASE r.from = None
  BY <1>1 DEF Answer
<1>2. CASE r.from # None
  <2> DEFINE label == IF ok THEN "route" ELSE "failed"
             x == [snd[r.from] EXCEPT !.pc = label]
  <2>1. r.from \in Senders /\ snd \in [Senders -> Sending] /\ snd[r.from] \in Sending
        /\ snd[r.from].pc = "wait"
    BY <1>2 DEF Request, Asks, TypeInv, TypeOK, ProcessesOK
  <2>2. x.pc = label /\ label \in {"route", "failed"}
    BY <2>1 DEF Sending
  <2>3. snd' = [snd EXCEPT ![r.from] = x]
    BY <1>2 DEF Answer
  <2> HIDE DEF x, label
  <2> QED
    BY <2>1, <2>2, <2>3
<1> QED
  BY <1>1, <1>2

LEMMA ServingOrder ==
  ASSUME TypeInv, OrderInv, Serve PROVE OrderInv'
<1>1. /\ inbox \in Seq(Sessions) /\ srv \in Serving /\ net \in Seq(Request)
      /\ (srv.pc # "idle" => srv.req \in Request /\ Asks(srv.req))
  BY NoneAssumption DEF TypeInv, TypeOK, FilesOK, ProcessesOK, HasRequest, Awaited
<1>2. CASE \/ Accept \/ AppendMessage \/ QueueRoute \/ QueueKey \/ LoadRoutes \/ RecordRoute
           \/ RecordMessage
  <2>1. UNCHANGED <<offset, loop, snd>>
    BY <1>2 DEF Accept, AppendMessage, QueueRoute, QueueKey, LoadRoutes, RecordRoute,
                RecordMessage, files
  <2>2. inbox' = inbox \/ (RecordMessage /\ inbox' = Append(inbox, srv.req.sess))
    BY <1>2 DEF Accept, AppendMessage, QueueRoute, QueueKey, LoadRoutes, RecordRoute,
                RecordMessage, files
  <2>3. RecordMessage => srv.req.sess \in Sessions
    BY <1>1 DEF RecordMessage, Request
  <2>4. inbox' \in Seq(Sessions) /\ Len(inbox') >= Len(inbox)
    BY <1>1, <2>2, <2>3
  <2> QED
    BY <2>1, <2>4, OrderStays
<1>3. CASE Lookup \/ Queued
  <2>1. UNCHANGED <<offset, loop, inbox>> /\ srv.pc # "idle"
        /\ (snd' = snd \/ Answer(srv.req, TRUE))
    BY <1>3 DEF Lookup, Queued, files
  <2>2. \A p \in Senders : /\ snd'[p].pc = "drain" <=> snd[p].pc = "drain"
                           /\ snd[p].pc = "turn" => snd'[p].pc = "turn"
    BY <1>1, <2>1, AnswerOrder
  <2> QED
    BY <1>1, <2>1, <2>2, OrderStays
<1>4. CASE Refuse
  <2>1. UNCHANGED <<offset, loop, inbox>> /\ net # <<>> /\ Answer(Head(net), FALSE)
    BY <1>4 DEF Refuse, files
  <2>2. Head(net) \in Request /\ Asks(Head(net))
    <3>1. 1 \in DOMAIN net /\ Head(net) = net[1]
      BY <1>1, <2>1
    <3> QED
      BY <1>1, <3>1 DEF TypeInv, Awaited
  <2>3. \A p \in Senders : /\ snd'[p].pc = "drain" <=> snd[p].pc = "drain"
                           /\ snd[p].pc = "turn" => snd'[p].pc = "turn"
    BY <2>1, <2>2, AnswerOrder
  <2> QED
    BY <1>1, <2>1, <2>3, OrderStays
<1> QED
  BY <1>2, <1>3, <1>4 DEF Serve

LEMMA SenderOrder ==
  ASSUME TypeInv, OrderInv, NEW p \in Senders,
         \/ \E key \in Keys, sess \in Sessions, to \in Targets \cup {None} : Send(p, key, sess, to)
         \/ SendStep(p) \/ RestartSender(p)
  PROVE  OrderInv'
<1>1. /\ inbox \in Seq(Sessions) /\ snd \in [Senders -> Sending] /\ snd[p] \in Sending
  BY DEF TypeInv, TypeOK, FilesOK, ProcessesOK
<1>2. /\ UNCHANGED <<offset, loop, inbox>>
      /\ snd[p].pc \in Busy \cup {"idle", "dead"}
      /\ \/ snd' = [snd EXCEPT ![p] = At("idle")]
         \/ \E label \in Busy : snd' = [snd EXCEPT ![p] = [snd[p] EXCEPT !.pc = label]]
         \/ snd' = [snd EXCEPT ![p] = [snd[p] EXCEPT !.pc = "post", !.keys = keys]]
         \/ \E m : snd' = [snd EXCEPT ![p] = [pc |-> "keys", keys |-> {}, routes |-> routes,
                                              msg |-> m]]
  <2>1. CASE SendStep(p)
    BY <2>1 DEF SendStep, CheckKey, Post, Timeout, SendFailed, SaveRoute, SaveKey, SendDone,
                Busy, Move, Goto, files
  <2>2. CASE RestartSender(p)
    BY <2>2 DEF RestartSender, Move, files
  <2>3. CASE \E key \in Keys, sess \in Sessions, to \in Targets \cup {None} : Send(p, key, sess, to)
    BY <2>3 DEF Send, Begin, Move, files
  <2> QED
    BY <2>1, <2>2, <2>3
<1>3. PICK x : snd' = [snd EXCEPT ![p] = x] /\ x.pc \in Busy \cup {"idle"}
  <2>1. CASE snd' = [snd EXCEPT ![p] = At("idle")]
    <3>1. At("idle").pc = "idle"
      BY DEF At
    <3> QED
      BY <2>1, <3>1
  <2>2. ASSUME NEW label \in Busy, snd' = [snd EXCEPT ![p] = [snd[p] EXCEPT !.pc = label]]
        PROVE  \E x : snd' = [snd EXCEPT ![p] = x] /\ x.pc \in Busy \cup {"idle"}
    <3>1. [snd[p] EXCEPT !.pc = label].pc = label
      BY <1>1, Relabelled
    <3> QED
      BY <2>2, <3>1
  <2>3. CASE snd' = [snd EXCEPT ![p] = [snd[p] EXCEPT !.pc = "post", !.keys = keys]]
    <3>1. [snd[p] EXCEPT !.pc = "post", !.keys = keys].pc = "post"
      BY <1>1 DEF Sending
    <3> QED
      BY <2>3, <3>1 DEF Busy
  <2>4. ASSUME NEW m, snd' = [snd EXCEPT ![p] = [pc |-> "keys", keys |-> {}, routes |-> routes,
                                                 msg |-> m]]
        PROVE  \E x : snd' = [snd EXCEPT ![p] = x] /\ x.pc \in Busy \cup {"idle"}
    <3> DEFINE y == [pc |-> "keys", keys |-> {}, routes |-> routes, msg |-> m]
    <3>1. y.pc \in Busy
      BY DEF Busy
    <3>2. snd' = [snd EXCEPT ![p] = y]
      BY <2>4
    <3> HIDE DEF y
    <3> QED
      BY <3>1, <3>2
  <2> QED
    BY <1>2, <2>1, <2>2, <2>3, <2>4
<1>4. \A q \in Senders : /\ snd'[q].pc = "drain" <=> snd[q].pc = "drain"
                         /\ snd[q].pc = "turn" => snd'[q].pc = "turn"
  BY <1>1, <1>2, <1>3 DEF Busy
<1> QED
  BY <1>1, <1>2, <1>4, OrderStays

LEMMA CrashOrder ==
  ASSUME OneDaemon, TypeInv, OrderInv, NEW p \in Senders, CrashSender(p)
  PROVE  OrderInv'
<1>1. /\ inbox \in Seq(Sessions) /\ UNCHANGED <<offset, inbox, handled>>
      /\ snd' = [snd EXCEPT ![p] = At("dead")] /\ snd \in [Senders -> Sending]
      /\ batch' = [d \in Daemons |-> IF d = p THEN <<>> ELSE batch[d]]
      /\ total' = [d \in Daemons |-> IF d = p THEN 0 ELSE total[d]]
      /\ batch \in [Daemons -> Seq(Nat)] /\ total \in [Daemons -> Nat]
  BY DEF CrashSender, Move, files, TypeInv, TypeOK, FilesOK, ProcessesOK, LoopOK
<1>2. CASE p \in Daemons
  <2>1. batch'[p] = <<>> /\ snd'[p].pc = "dead"
    BY <1>1, <1>2 DEF At
  <2> QED
    BY <1>1, <1>2, <2>1, OrderShrinks
<1>3. CASE p \notin Daemons
  <2>1. \A d \in Daemons : snd'[d] = snd[d]
    BY <1>1, <1>3
  <2>2. batch' = batch /\ total' = total
    BY <1>1, <1>3
  <2> QED
    BY <1>1, <2>1, <2>2, OrderStays DEF loop
<1> QED
  BY <1>2, <1>3

LEMMA EndTurnOrder ==
  ASSUME OneDaemon, TypeInv, OrderInv, NEW d \in Daemons, Reply(d) \/ NoReply(d) \/ FailTurn(d)
  PROVE  OrderInv'
<1>1. /\ snd \in [Senders -> Sending] /\ d \in Senders /\ snd[d] \in Sending
      /\ batch \in [Daemons -> Seq(Nat)]
  BY DEF TypeInv, TypeOK, ProcessesOK, LoopOK
<1>2. /\ snd[d].pc = "turn" /\ UNCHANGED <<offset, inbox, handled>>
      /\ batch[d] # <<>>
      /\ \/ batch' = [batch EXCEPT ![d] = Tail(batch[d])]
         \/ batch' = [batch EXCEPT ![d] = <<>>]
      /\ \/ snd' = [snd EXCEPT ![d] = At("idle")]
         \/ \E label \in {"idle", "dead"} : snd' = [snd EXCEPT ![d] = [snd[d] EXCEPT !.pc = label]]
         \/ \E m : snd' = [snd EXCEPT ![d] = [pc |-> "keys", keys |-> {}, routes |-> routes,
                                              msg |-> m]]
  BY DEF Reply, Begin, NoReply, FailTurn, Move, Goto, files, TypeInv, Drained
<1>3. PICK x : snd' = [snd EXCEPT ![d] = x] /\ x.pc \in {"idle", "dead", "keys"}
  <2>1. CASE snd' = [snd EXCEPT ![d] = At("idle")]
    <3>1. At("idle").pc = "idle"
      BY DEF At
    <3> QED
      BY <2>1, <3>1
  <2>2. ASSUME NEW label \in {"idle", "dead"},
               snd' = [snd EXCEPT ![d] = [snd[d] EXCEPT !.pc = label]]
        PROVE  \E x : snd' = [snd EXCEPT ![d] = x] /\ x.pc \in {"idle", "dead", "keys"}
    <3>1. [snd[d] EXCEPT !.pc = label].pc = label
      BY <1>1, Relabelled
    <3> QED
      BY <2>2, <3>1
  <2>3. ASSUME NEW m, snd' = [snd EXCEPT ![d] = [pc |-> "keys", keys |-> {}, routes |-> routes,
                                                 msg |-> m]]
        PROVE  \E x : snd' = [snd EXCEPT ![d] = x] /\ x.pc \in {"idle", "dead", "keys"}
    <3> DEFINE y == [pc |-> "keys", keys |-> {}, routes |-> routes, msg |-> m]
    <3>1. y.pc = "keys"
      OBVIOUS
    <3>2. snd' = [snd EXCEPT ![d] = y]
      BY <2>3
    <3> HIDE DEF y
    <3> QED
      BY <3>1, <3>2
  <2> QED
    BY <1>2, <2>1, <2>2, <2>3
<1>4. batch'[d] \in {Tail(batch[d]), <<>>} /\ snd'[d].pc \notin {"turn", "drain"}
  BY <1>1, <1>2, <1>3
<1> QED
  BY <1>2, <1>4, OrderShrinks

LEMMA OrderNext ==
  ASSUME OneDaemon, TypeInv, OrderInv, [Next]_vars
  PROVE  OrderInv'
<1>1. CASE UNCHANGED vars \/ CrashGateway \/ RestartGateway \/ \E c \in Contacts : Receive(c[1], c[2])
  <2>1. UNCHANGED <<offset, loop, inbox, snd>>
    BY <1>1 DEF vars, files, CrashGateway, RestartGateway, Receive
  <2>2. inbox \in Seq(Sessions)
    BY DEF TypeInv, TypeOK, FilesOK
  <2> QED
    BY <2>1, <2>2, OrderStays
<1> QED
  BY <1>1, ServingOrder, SenderOrder, CrashOrder, ReadOrder, SaveOrder, TurnOrder, EndTurnOrder
     DEF Next, Drain

\* With one daemon, the messages of the inbox get their turns in order, none twice,
\* whatever fails, times out or is killed: the offset moves past what was read before any
\* of it is handled, and what a crash leaves unhandled is not read again.
THEOREM OrderCorrect ==
  ASSUME OneDaemon
  PROVE  Spec => []HandledInOrder
<1>1. Init => TypeInv /\ OrderInv
  BY TypeInit, OrderInit
<1>2. TypeInv /\ OrderInv /\ [Next]_vars => (TypeInv /\ OrderInv)'
  BY TypeNext, OrderNext
<1>3. OrderInv => HandledInOrder
  BY DEF OrderInv
<1> QED
  BY <1>1, <1>2, <1>3, PTL DEF Spec
=============================================================================
