------------------------------- MODULE Gateway -------------------------------
(***************************************************************************)
(* Messages in and out: clawdex/src/gateway.rs, and the part of the loop of *)
(* daemon.rs that answers incoming messages.  Three kinds of process share  *)
(* the files of the directory gateway/                                      *)
(*                                                                          *)
(*   outbox    outbox.jsonl       messages handed to the channels           *)
(*   keys      idempotency.json   idempotency keys of sent messages         *)
(*   routes    routes.json        last route of every session               *)
(*   receipts  receipts.jsonl     what was reported of which key            *)
(*   inbox     inbox.jsonl        messages received from the channels       *)
(*   offset    inbox_offset.json  how many of them were drained             *)
(*                                                                          *)
(* - the gateway: an HTTP server with one thread, which queues messages     *)
(*   (POST /v1/send) and records incoming ones (POST /v1/incoming);         *)
(* - senders, which run message.send themselves (MCP servers, daemons): they *)
(*   load routes and keys, post the message to the gateway, then save what  *)
(*   they had loaded with their own route and key added;                    *)
(* - daemons, senders that also drain the inbox, run a turn for each message *)
(*   and send the reply to the session's last route.                        *)
(*                                                                          *)
(* JSON files are loaded and saved whole, each load and each save a step.   *)
(* Left out: requests without a session, accounts, the age limit of routes  *)
(* (off unless configured), attachments, WebSocket clients.                 *)
(***************************************************************************)
EXTENDS Naturals, Sequences

CONSTANTS
  Senders,        \* processes that send in direct mode
  Daemons,        \* the senders that also drain the inbox
  Keys,           \* idempotency keys that callers choose
  Sessions, Targets,    \* session keys; pairs of a channel and an address on it
  Contacts,       \* session and target of a message that may come in
  None,           \* "no target", "no sender"
  MaxSends, MaxIncoming, MaxCrashes     \* bounds

ASSUME ConstantsAssumption ==
  /\ Daemons \subseteq Senders
  /\ None \notin Senders /\ None \notin Targets
  /\ Contacts \subseteq Sessions \X Targets
  /\ MaxSends \in Nat /\ MaxIncoming \in Nat /\ MaxCrashes \in Nat

VARIABLES
  outbox, keys, routes, receipts, inbox, offset,    \* the files
  up,             \* whether the gateway runs
  net,            \* requests waiting for its thread
  srv,            \* the request its thread is at
  snd,            \* what each sender is at
  batch,          \* drained messages each daemon has still to handle
  total,          \* lines of the inbox in a daemon's copy of it
  sends, incoming, crashes,     \* counters, bounded by constants
  handled,        \* history: the messages turns were run for, in order
  lost            \* history: keys missing in idempotency.json by a stale save or
                  \* by a crash of the gateway between append and insert

files == <<outbox, keys, routes, receipts, inbox, offset>>
loop  == <<batch, total, handled>>
count == <<sends, incoming, crashes>>
vars  == <<files, up, net, srv, snd, loop, count, lost>>

-----------------------------------------------------------------------------
\* The daemon derives a reply's key from the clock and the session; here from the
\* daemon and the message, which identifies the turn as well.
ReplyKey(d, i) == <<d, i>>
AllKeys == Keys \cup (Daemons \X Nat)

NoRoutes == [s \in Sessions |-> None]
Routes == [Sessions -> Targets \cup {None}]

Message == [key : AllKeys, sess : Sessions, to : Targets]

\* A request in the gateway.  from is the sender that waits for its answer; an
\* incoming message has no key.
Request ==
  [kind : {"send"}, from : Senders \cup {None}, key : AllKeys, sess : Sessions, to : Targets]
    \cup [kind : {"incoming"}, from : {None}, key : {None}, sess : Sessions, to : Targets]

ASSUME NoneAssumption == None \notin Request

\* keys and routes are the copies of idempotency.json and routes.json that were
\* loaded for the request, or for the message.
Serving ==
  [pc : {"idle", "keys", "append", "route", "key", "receipt", "inbox", "load", "save"},
   req : Request \cup {None}, keys : SUBSET AllKeys, routes : Routes]

Sending ==
  [pc : {"idle", "keys", "post", "wait", "route", "key", "receipt", "failed",
         "drain", "turn", "dead"},
   msg : Message \cup {None}, keys : SUBSET AllKeys, routes : Routes]

NotServing == [pc |-> "idle", req |-> None, keys |-> {}, routes |-> NoRoutes]
At(label)  == [pc |-> label, msg |-> None, keys |-> {}, routes |-> NoRoutes]

FilesOK ==
  /\ outbox \in Seq(Message)
  /\ keys \subseteq AllKeys
  /\ routes \in Routes
  /\ receipts \subseteq {"queued", "sent", "failed"} \X AllKeys
  /\ inbox \in Seq(Sessions)
  /\ offset \in Nat

ProcessesOK ==
  /\ up \in BOOLEAN
  /\ net \in Seq(Request)
  /\ srv \in Serving
  /\ snd \in [Senders -> Sending]

LoopOK ==
  /\ batch \in [Daemons -> Seq(Nat)]
  /\ total \in [Daemons -> Nat]
  /\ handled \in Seq(Nat)

CountsOK ==
  /\ sends \in Nat /\ incoming \in Nat /\ crashes \in Nat
  /\ lost \subseteq AllKeys

TypeOK == FilesOK /\ ProcessesOK /\ LoopOK /\ CountsOK

Init ==
  /\ outbox = <<>> /\ keys = {} /\ routes = NoRoutes /\ receipts = {}
  /\ inbox = <<>> /\ offset = 0
  /\ up = TRUE /\ net = <<>> /\ srv = NotServing
  /\ snd = [p \in Senders |-> At("idle")]
  /\ batch = [d \in Daemons |-> <<>>]
  /\ total = [d \in Daemons |-> 0]
  /\ handled = <<>> /\ lost = {}
  /\ sends = 0 /\ incoming = 0 /\ crashes = 0

-----------------------------------------------------------------------------
(***************************************************************************)
(* A sender (send_message in direct mode).                                  *)
(***************************************************************************)
Move(p, state) == snd' = [snd EXCEPT ![p] = state]
Goto(p, label) == Move(p, [snd[p] EXCEPT !.pc = label])

\* The routes are loaded and the target is found: the one of the call or, without
\* one, the session's last route.  Without a route the call fails and nothing
\* is written.
Resolved(sess, to) == IF to = None THEN routes[sess] ELSE to
Begin(p, key, sess, to) ==
  /\ Resolved(sess, to) # None
  /\ Move(p, [pc |-> "keys", keys |-> {}, routes |-> routes,
              msg |-> [key |-> key, sess |-> sess, to |-> Resolved(sess, to)]])

\* A call of message.send, with a key of its own or with that of an earlier call,
\* which it repeats.  A daemon sends for its jobs and heartbeats when it has no
\* message to handle.
Send(p, key, sess, to) ==
  /\ snd[p].pc = "idle"
  /\ p \in Daemons => batch[p] = <<>>
  /\ sends < MaxSends
  /\ sends' = sends + 1
  /\ Begin(p, key, sess, to)
  /\ UNCHANGED <<files, up, net, srv, loop, incoming, crashes, lost>>

\* IdempotencyStore::load and seen.
CheckKey(p) ==
  /\ snd[p].pc = "keys"
  /\ IF snd[p].msg.key \in keys
     THEN Move(p, At("idle"))
     ELSE Move(p, [snd[p] EXCEPT !.pc = "post", !.keys = keys])
  /\ UNCHANGED <<files, up, net, srv, loop, count, lost>>

\* Faulty: a refused connection is not told from an answer.
PostBlind(p) ==
  LET m == snd[p].msg
  IN  /\ snd[p].pc = "post"
      /\ IF up
         THEN /\ net' = Append(net, [kind |-> "send", from |-> p, key |-> m.key,
                                     sess |-> m.sess, to |-> m.to])
              /\ Goto(p, "wait")
         ELSE Goto(p, "route") /\ UNCHANGED net
      /\ UNCHANGED <<files, up, srv, loop, count, lost>>

\* send_via_http; without a gateway the connection is refused.
Post(p) ==
  LET m == snd[p].msg
  IN  /\ snd[p].pc = "post"
      /\ IF up
         THEN /\ net' = Append(net, [kind |-> "send", from |-> p, key |-> m.key,
                                     sess |-> m.sess, to |-> m.to])
              /\ Goto(p, "wait")
         ELSE Goto(p, "failed") /\ UNCHANGED net
      /\ UNCHANGED <<files, up, srv, loop, count, lost>>

\* The sender p hears no answer any more; its request stays where it is.
Hangup(p) ==
  /\ net' = [i \in DOMAIN net |->
              IF net[i].from = p THEN [net[i] EXCEPT !.from = None] ELSE net[i]]
  /\ srv' = IF srv.req # None /\ srv.req.from = p
            THEN [srv EXCEPT !.req = [srv.req EXCEPT !.from = None]] ELSE srv

\* The 5 s of the HTTP client are over, or the connection breaks.
Timeout(p) ==
  /\ snd[p].pc = "wait"
  /\ Goto(p, "failed")
  /\ Hangup(p)
  /\ UNCHANGED <<files, up, loop, count, lost>>

\* The error path: a receipt and nothing else.
SendFailed(p) ==
  /\ snd[p].pc = "failed"
  /\ receipts' = receipts \cup {<<"failed", snd[p].msg.key>>}
  /\ Move(p, At("idle"))
  /\ UNCHANGED <<outbox, keys, routes, inbox, offset, up, net, srv, loop, count, lost>>

\* update_route saves the routes loaded before the post, with the new one.
SaveRoute(p) ==
  LET m == snd[p].msg
  IN  /\ snd[p].pc = "route"
      /\ routes' = [snd[p].routes EXCEPT ![m.sess] = m.to]
      /\ Goto(p, "key")
      /\ UNCHANGED <<outbox, keys, receipts, inbox, offset, up, net, srv, loop, count, lost>>

\* A stale copy of idempotency.json, with one more key, replaces the file.
SaveKeys(new) ==
  /\ keys' = new
  /\ lost' = lost \cup (keys \ new)

\* IdempotencyStore::insert into the keys loaded before the post.
SaveKey(p) ==
  /\ snd[p].pc = "key"
  /\ SaveKeys(snd[p].keys \cup {snd[p].msg.key})
  /\ Goto(p, "receipt")
  /\ UNCHANGED <<outbox, routes, receipts, inbox, offset, up, net, srv, loop, count>>

SendDone(p) ==
  /\ snd[p].pc = "receipt"
  /\ receipts' = receipts \cup {<<"sent", snd[p].msg.key>>}
  /\ Move(p, At("idle"))
  /\ UNCHANGED <<outbox, keys, routes, inbox, offset, up, net, srv, loop, count, lost>>

-----------------------------------------------------------------------------
(***************************************************************************)
(* The gateway (handle_request, one request at a time).                     *)
(***************************************************************************)

\* A channel adapter posts a message that came in.
Receive(sess, to) ==
  /\ up
  /\ incoming < MaxIncoming
  /\ incoming' = incoming + 1
  /\ net' = Append(net, [kind |-> "incoming", from |-> None, key |-> None,
                         sess |-> sess, to |-> to])
  /\ UNCHANGED <<files, up, srv, snd, loop, sends, crashes, lost>>

\* The sender that still waits for the request gets its answer.
Answer(r, ok) ==
  snd' = IF r.from = None THEN snd
         ELSE [snd EXCEPT ![r.from] =
                 [snd[r.from] EXCEPT !.pc = IF ok THEN "route" ELSE "failed"]]

\* send_message in queue mode loads the routes first; the target is in the request.
Accept ==
  LET r == Head(net)
  IN  /\ up /\ srv.pc = "idle" /\ net # <<>>
      /\ net' = Tail(net)
      /\ srv' = IF r.kind = "send"
                THEN [pc |-> "keys", req |-> r, keys |-> {}, routes |-> routes]
                ELSE [pc |-> "inbox", req |-> r, keys |-> {}, routes |-> NoRoutes]
      /\ UNCHANGED <<files, up, snd, loop, count, lost>>

\* authorize refuses the request (send_via_http adds no token to it), or its body is
\* not a message: the answer is an error and nothing is written.
Refuse ==
  /\ up /\ srv.pc = "idle" /\ net # <<>>
  /\ net' = Tail(net)
  /\ Answer(Head(net), FALSE)
  /\ UNCHANGED <<files, up, srv, loop, count, lost>>

\* Faulty: the key is not looked up.
LookupBlind ==
  /\ srv.pc = "keys"
  /\ srv' = [srv EXCEPT !.pc = "append", !.keys = keys]
  /\ UNCHANGED <<files, up, net, snd, loop, count, lost>>

\* Faulty: the key is saved when it is looked up.
LookupReserve ==
  /\ srv.pc = "keys"
  /\ IF srv.req.key \in keys
     THEN Answer(srv.req, TRUE) /\ srv' = NotServing /\ UNCHANGED keys
     ELSE /\ keys' = keys \cup {srv.req.key}
          /\ srv' = [srv EXCEPT !.pc = "append", !.keys = keys]
          /\ UNCHANGED snd
  /\ UNCHANGED <<outbox, routes, receipts, inbox, offset, up, net, loop, count, lost>>

\* A known key is answered ok, as deduped.
Lookup ==
  /\ srv.pc = "keys"
  /\ IF srv.req.key \in keys
     THEN Answer(srv.req, TRUE) /\ srv' = NotServing
     ELSE srv' = [srv EXCEPT !.pc = "append", !.keys = keys] /\ UNCHANGED snd
  /\ UNCHANGED <<files, up, net, loop, count, lost>>

AppendMessage ==
  LET r == srv.req
  IN  /\ srv.pc = "append"
      /\ outbox' = Append(outbox, [key |-> r.key, sess |-> r.sess, to |-> r.to])
      /\ srv' = [srv EXCEPT !.pc = "route"]
      /\ UNCHANGED <<keys, routes, receipts, inbox, offset, up, net, snd, loop, count, lost>>

QueueRoute ==
  /\ srv.pc = "route"
  /\ routes' = [srv.routes EXCEPT ![srv.req.sess] = srv.req.to]
  /\ srv' = [srv EXCEPT !.pc = "key"]
  /\ UNCHANGED <<outbox, keys, receipts, inbox, offset, up, net, snd, loop, count, lost>>

QueueKey ==
  /\ srv.pc = "key"
  /\ SaveKeys(srv.keys \cup {srv.req.key})
  /\ srv' = [srv EXCEPT !.pc = "receipt"]
  /\ UNCHANGED <<outbox, routes, receipts, inbox, offset, up, net, snd, loop, count>>

Queued ==
  /\ srv.pc = "receipt"
  /\ receipts' = receipts \cup {<<"queued", srv.req.key>>}
  /\ Answer(srv.req, TRUE)
  /\ srv' = NotServing
  /\ UNCHANGED <<outbox, keys, routes, inbox, offset, up, net, loop, count, lost>>

\* record_incoming: the inbox first, then the session's route.
RecordMessage ==
  /\ srv.pc = "inbox"
  /\ inbox' = Append(inbox, srv.req.sess)
  /\ srv' = [srv EXCEPT !.pc = "load"]
  /\ UNCHANGED <<outbox, keys, routes, receipts, offset, up, net, snd, loop, count, lost>>

LoadRoutes ==
  /\ srv.pc = "load"
  /\ srv' = [srv EXCEPT !.pc = "save", !.routes = routes]
  /\ UNCHANGED <<files, up, net, snd, loop, count, lost>>

RecordRoute ==
  /\ srv.pc = "save"
  /\ routes' = [srv.routes EXCEPT ![srv.req.sess] = srv.req.to]
  /\ srv' = NotServing
  /\ UNCHANGED <<outbox, keys, receipts, inbox, offset, up, net, snd, loop, count, lost>>

-----------------------------------------------------------------------------
(***************************************************************************)
(* A daemon answers incoming messages (drain_inbox, handle_incoming_message).*)
(***************************************************************************)

\* The lines of the inbox and the offset are read.
ReadInbox(d) ==
  /\ snd[d].pc = "idle"
  /\ batch[d] = <<>>
  /\ inbox # <<>>
  /\ total' = [total EXCEPT ![d] = Len(inbox)]
  /\ batch' = [batch EXCEPT ![d] = IF offset < Len(inbox)
                                   THEN [i \in 1..(Len(inbox) - offset) |-> offset + i]
                                   ELSE <<>>]
  /\ Goto(d, "drain")
  /\ UNCHANGED <<files, up, net, srv, handled, count, lost>>

\* Faulty: the offset of the last line is saved, not the one behind it.
SaveOffsetLast(d) ==
  /\ snd[d].pc = "drain"
  /\ offset' = total[d] - 1
  /\ total' = [total EXCEPT ![d] = 0]
  /\ Goto(d, "idle")
  /\ UNCHANGED <<outbox, keys, routes, receipts, inbox, up, net, srv, batch, handled,
                 count, lost>>

\* Faulty: the lines are counted again when the offset is saved.
SaveOffsetRecount(d) ==
  /\ snd[d].pc = "drain"
  /\ offset' = Len(inbox)
  /\ total' = [total EXCEPT ![d] = 0]
  /\ Goto(d, "idle")
  /\ UNCHANGED <<outbox, keys, routes, receipts, inbox, up, net, srv, batch, handled,
                 count, lost>>

\* The offset moves past everything that was read before any of it is handled.
SaveOffset(d) ==
  /\ snd[d].pc = "drain"
  /\ offset' = total[d]
  /\ total' = [total EXCEPT ![d] = 0]
  /\ Goto(d, "idle")
  /\ UNCHANGED <<outbox, keys, routes, receipts, inbox, up, net, srv, batch, handled,
                 count, lost>>

StartTurn(d) ==
  /\ snd[d].pc = "idle"
  /\ batch[d] # <<>>
  /\ handled' = Append(handled, Head(batch[d]))
  /\ Goto(d, "turn")
  /\ UNCHANGED <<files, up, net, srv, batch, total, count, lost>>

\* The turn has an answer, which is sent to the session's last route.  Whether it
\* can be sent is not looked at.
Reply(d) ==
  LET i == Head(batch[d])
  IN  /\ snd[d].pc = "turn"
      /\ batch' = [batch EXCEPT ![d] = Tail(batch[d])]
      /\ \/ Begin(d, ReplyKey(d, i), inbox[i], None)
         \/ Resolved(inbox[i], None) = None /\ Move(d, At("idle"))
      /\ UNCHANGED <<files, up, net, srv, total, handled, count, lost>>

\* The turn has no text for an answer.
NoReply(d) ==
  /\ snd[d].pc = "turn"
  /\ batch' = [batch EXCEPT ![d] = Tail(batch[d])]
  /\ Goto(d, "idle")
  /\ UNCHANGED <<files, up, net, srv, total, handled, count, lost>>

\* The turn fails: its error ends the daemon's loop, and the rest of the batch
\* with it.
FailTurn(d) ==
  /\ snd[d].pc = "turn"
  /\ crashes < MaxCrashes
  /\ crashes' = crashes + 1
  /\ batch' = [batch EXCEPT ![d] = <<>>]
  /\ Goto(d, "dead")
  /\ UNCHANGED <<files, up, net, srv, total, handled, sends, incoming, lost>>

-----------------------------------------------------------------------------
(***************************************************************************)
(* Processes are killed, and started again.                                 *)
(***************************************************************************)
CrashSender(p) ==
  /\ snd[p].pc # "dead"
  /\ crashes < MaxCrashes
  /\ crashes' = crashes + 1
  /\ Move(p, At("dead"))
  /\ Hangup(p)
  /\ batch' = [d \in Daemons |-> IF d = p THEN <<>> ELSE batch[d]]
  /\ total' = [d \in Daemons |-> IF d = p THEN 0 ELSE total[d]]
  /\ UNCHANGED <<files, up, handled, sends, incoming, lost>>

RestartSender(p) ==
  /\ snd[p].pc = "dead"
  /\ Move(p, At("idle"))
  /\ UNCHANGED <<files, up, net, srv, loop, count, lost>>

\* The senders that wait notice it as a broken connection (Timeout).  A message
\* that was appended and whose key was not saved is one without a key.
CrashGateway ==
  /\ up
  /\ crashes < MaxCrashes
  /\ crashes' = crashes + 1
  /\ up' = FALSE
  /\ net' = <<>>
  /\ srv' = NotServing
  /\ lost' = IF srv.pc \in {"route", "key"} THEN lost \cup {srv.req.key} ELSE lost
  /\ UNCHANGED <<files, snd, loop, sends, incoming>>

RestartGateway ==
  /\ ~up
  /\ up' = TRUE
  /\ UNCHANGED <<files, net, srv, snd, loop, count, lost>>

-----------------------------------------------------------------------------
SendStep(p) ==
  \/ CheckKey(p) \/ Post(p) \/ Timeout(p) \/ SendFailed(p)
  \/ SaveRoute(p) \/ SaveKey(p) \/ SendDone(p)

Serve ==
  \/ Accept \/ Refuse \/ Lookup \/ AppendMessage \/ QueueRoute \/ QueueKey \/ Queued
  \/ RecordMessage \/ LoadRoutes \/ RecordRoute

Drain(d) ==
  \/ ReadInbox(d) \/ SaveOffset(d) \/ StartTurn(d) \/ Reply(d) \/ NoReply(d) \/ FailTurn(d)

Next ==
  \/ \E p \in Senders :
        \/ \E key \in Keys, sess \in Sessions, to \in Targets \cup {None} : Send(p, key, sess, to)
        \/ SendStep(p) \/ CrashSender(p) \/ RestartSender(p)
  \/ \E d \in Daemons : Drain(d)
  \/ \E c \in Contacts : Receive(c[1], c[2])
  \/ Serve \/ CrashGateway \/ RestartGateway

Spec == Init /\ [][Next]_vars

\* The threads are scheduled; turns end, and the HTTP client's timeout bounds every
\* wait.
FairSpec ==
  /\ Spec
  /\ \A p \in Senders : WF_vars(SendStep(p))
  /\ \A d \in Daemons : WF_vars(Drain(d))
  /\ WF_vars(Serve)
-----------------------------------------------------------------------------
(***************************************************************************)
(* Properties.                                                              *)
(***************************************************************************)
Outgoing == {outbox[i].key : i \in DOMAIN outbox}

\* A key in idempotency.json belongs to a message that is in the outbox, after any
\* crash and whatever copies were saved: a later call with the key, which is
\* answered "deduped", is right that the message was handed over.
KeysAreQueued == keys \subseteq Outgoing

\* A receipt "sent" or "queued" tells the truth: the message is in the outbox,
\* although the gateway that answered and the file it wrote are another process's.
ReceiptsAreTrue ==
  \A r \in receipts : r[1] \in {"sent", "queued"} => r[2] \in Outgoing

\* However many senders repeat a call, time out or are killed, a message is twice
\* in the outbox only if its key was lost from idempotency.json: by the save of
\* a copy loaded before it, or by a crash between append_json_line and insert.
TwiceOnlyIfLost ==
  \A i, j \in DOMAIN outbox :
    (outbox[i].key = outbox[j].key /\ i # j) => outbox[i].key \in lost

\* With one daemon, messages that came in get their turns in order, none of them
\* twice, whatever crashes: the offset is saved before the first of them is
\* handled.
HandledInOrder ==
  \A i, j \in DOMAIN handled : i < j => handled[i] < handled[j]

\* While nothing fails, every message in the inbox gets its turn, also one that
\* arrives while the inbox is being drained.
InboxIsHandled ==
  \A i \in 1..MaxIncoming :
    (Len(inbox) >= i) ~> (crashes > 0 \/ \E n \in DOMAIN handled : handled[n] = i)

-----------------------------------------------------------------------------
\* TEMPLATE_PACK.md:366, "Idempotency key prevents duplicates".
KeyPreventsDuplicates ==
  \A i, j \in DOMAIN outbox : outbox[i].key = outbox[j].key => i = j
=============================================================================
