------------------------------ MODULE AgentTurns ------------------------------
(***************************************************************************)
(* The daemon's own Codex app-server, which every session shares            *)
(* (clawdex/src/runner.rs, app_server.rs and the turns of daemon.rs).       *)
(*                                                                         *)
(* The daemon runs one turn at a time: it starts the session's thread if    *)
(* there is none, starts a turn, and reads the child's output until the     *)
(* turn has ended.  The child is external; it works on every turn it was    *)
(* given, so what it writes of a turn that the daemon gave up on comes in   *)
(* between.  A session whose agent has a backend of its own asks that one.  *)
(***************************************************************************)
EXTENDS Naturals, Sequences

CONSTANTS
  Sessions,             \* session keys
  Main,                 \* "agent:main:main"
  Foreign,              \* sessions whose agent has a backend with a url
  MaxTurns, MaxTexts    \* bounds: turns, pieces of text of a turn

ASSUME SessionsAssumption == Main \in Sessions /\ Foreign \subseteq Sessions
ASSUME BoundsAssumption   == MaxTurns \in Nat /\ MaxTexts \in Nat

VARIABLES
  threads,              \* [Sessions -> thread, 0: none]: main_thread, isolated_threads
  client,               \* what the daemon waits for; the deltas it has read, and
                        \* the last message it has read that was completed
  pending,              \* pending_notifications
  pipe,                 \* the child's output that is not read yet
  asked,                \* requests the child has not taken
  codex,                \* the turns the child was given
  made,                 \* threads made, requests sent, turns begun
  answer,               \* [turns -> what run_turn returned: pieces, joined]
  alive                 \* the child runs
turnVars == <<threads, client, pending, pipe, asked, codex, made, answer, alive>>

\* What Codex writes of a turn: deltas, and messages that are completed.  No
\* delta is empty; the pieces of each kind have numbers.
Pieces == {"delta", "message"}
NoMessage == <<"message", 0, 0>>
Idle == [at |-> "idle", session |-> Main, request |-> 0, turn |-> 0, text |-> <<>>, last |-> NoMessage]
NoText == [returned |-> FALSE, text |-> <<>>]

TurnInit ==
  /\ threads = [s \in Sessions |-> IF s = Main THEN 1 ELSE 0]
  /\ client = Idle /\ pending = <<>> /\ pipe = <<>> /\ asked = <<>>
  /\ codex = <<>> /\ answer = <<>> /\ alive = TRUE
  /\ made = [threads |-> 1, requests |-> 0, turns |-> 0]

Message(kind, id, turn, n) == [kind |-> kind, id |-> id, turn |-> turn, n |-> n]
Piece(m) == <<m.kind, m.turn, m.n>>

(* run_incoming_turn, run_main and run_isolated: thread/start for a session *)
(* without a thread, then turn/start on it.                                 *)
Request(s, kind) ==
  /\ made' = [made EXCEPT !.requests = @ + 1, !.turns = @ + 1]
  /\ asked' = Append(asked, [id |-> made.requests + 1, kind |-> kind, thread |-> threads[s]])
  /\ client' = [Idle EXCEPT !.at = kind, !.session = s, !.request = made.requests + 1]
Begin(s) ==
  /\ client.at = "idle" /\ s \notin Foreign /\ alive /\ made.turns < MaxTurns
  /\ Request(s, IF threads[s] = 0 THEN "thread" ELSE "turn")
  /\ UNCHANGED <<threads, pending, pipe, codex, answer>>

-----------------------------------------------------------------------------
(* The child: it takes requests and answers them, writes deltas and         *)
(* completed messages, asks for approvals or for something the client does  *)
(* not know, and ends turns: "failed" is a failure with an error, "completed" *)
(* every other end.  What it writes of a turn may come before the answer to *)
(* the request for it.                                                      *)
TakeRequest ==
  /\ asked # <<>> /\ asked' = Tail(asked)
  /\ \/ /\ Head(asked).kind = "thread"
        /\ made' = [made EXCEPT !.threads = @ + 1]
        /\ pipe' = Append(pipe, Message("response", Head(asked).id, 0, made.threads + 1))
        /\ UNCHANGED <<codex, answer>>
     \/ /\ Head(asked).kind = "turn"
        /\ codex' = Append(codex, [thread |-> Head(asked).thread, state |-> "running",
                                   request |-> Head(asked).id, sent |-> [k \in Pieces |-> 0]])
        /\ answer' = Append(answer, NoText)
        /\ UNCHANGED <<made, pipe>>
     \/ /\ pipe' = Append(pipe, Message("error", Head(asked).id, 0, 0))
        /\ UNCHANGED <<made, codex, answer>>
  /\ UNCHANGED <<threads, client, pending>>

Writes(t, message, turn) ==
  /\ pipe' = Append(pipe, message)
  /\ codex' = [codex EXCEPT ![t] = turn]
  /\ UNCHANGED <<threads, client, pending, asked, made, answer>>
Answered(t) ==
  /\ codex[t].request # 0
  /\ Writes(t, Message("response", codex[t].request, t, 0), [codex[t] EXCEPT !.request = 0])
Write(t) ==
  /\ codex[t].state = "running" /\ codex[t].sent["delta"] + codex[t].sent["message"] < MaxTexts
  /\ \E kind \in Pieces :
       Writes(t, Message(kind, 0, t, codex[t].sent[kind] + 1), [codex[t] EXCEPT !.sent[kind] = @ + 1])
(* The answer to a request of its own lets the child go on: handled is the  *)
(* client's reply, which comes at once from the mode in the environment.    *)
AskClient(t) ==
  /\ codex[t].state = "running"
  /\ \E kind \in {"approval", "unsupported", "unreadable"} :
       Writes(t, Message(kind, 0, t, 0), [codex[t] EXCEPT !.state = "waiting"])
EndTurn(t) ==
  /\ codex[t].state = "running" /\ codex[t].request = 0
  /\ \E kind \in {"completed", "failed"} :
       Writes(t, Message(kind, 0, t, 0), [codex[t] EXCEPT !.state = "ended"])
(* It ends on its own or is killed; the daemon starts no other one.         *)
Die ==
  /\ alive' = FALSE
  /\ asked' = <<>>
  /\ codex' = [t \in DOMAIN codex |-> [codex[t] EXCEPT !.state = "ended", !.request = 0]]
  /\ UNCHANGED <<threads, client, pending, pipe, made, answer>>
Child ==
  /\ alive
  /\ \/ Die
     \/ /\ TakeRequest \/ \E t \in DOMAIN codex : Answered(t) \/ Write(t) \/ AskClient(t) \/ EndTurn(t)
        /\ UNCHANGED alive

-----------------------------------------------------------------------------
(* read_jsonrpc_message and the loops over it.                              *)
Waiting == client.at \in {"thread", "turn"}
Notes == Pieces \cup {"completed", "failed"}

GiveUp == client' = Idle

(* wait_for_response: notifications are kept for later.                     *)
Keep(m) ==
  /\ Waiting /\ m.kind \in Notes
  /\ pending' = Append(pending, m)
  /\ UNCHANGED <<threads, client, codex, answer, asked, made>>

(* handle_server_request: approvals are answered, other known requests get  *)
(* a warning and no answer, and one that cannot be read ends the call with  *)
(* an error while the child goes on with, or waits in, the turn.            *)
Serve(m) ==
  /\ client.at # "idle"
  /\ \/ m.kind = "approval" /\ codex' = [codex EXCEPT ![m.turn].state = "running"]
        /\ UNCHANGED client
     \/ m.kind = "unsupported" /\ UNCHANGED <<client, codex>>
     \/ m.kind = "unreadable" /\ GiveUp /\ UNCHANGED codex
  /\ UNCHANGED <<threads, pending, answer, asked, made>>

(* A response with the id waited for; any other response is skipped.        *)
Receive(m) ==
  /\ m.kind \in {"response", "error"} /\ client.at # "idle"
  /\ \/ /\ m.kind = "error" /\ Waiting /\ m.id = client.request
        /\ GiveUp
        /\ UNCHANGED <<threads, asked, made>>
     \/ /\ client.at = "thread" /\ m.kind = "response" /\ m.id = client.request
        /\ threads' = [threads EXCEPT ![client.session] = m.n]
        /\ asked' = Append(asked, [id |-> made.requests + 1, kind |-> "turn", thread |-> m.n])
        /\ made' = [made EXCEPT !.requests = @ + 1]
        /\ client' = [client EXCEPT !.at = "turn", !.request = made.requests + 1]
     \/ /\ client.at = "turn" /\ m.kind = "response" /\ m.id = client.request
        /\ client' = [client EXCEPT !.at = "stream", !.turn = m.turn]
        /\ UNCHANGED <<threads, asked, made>>
     \/ /\ client.at = "stream" \/ m.id # client.request
        /\ UNCHANGED <<threads, client, asked, made>>
  /\ UNCHANGED <<pending, codex, answer>>

\* A piece is added to the text or is the message that was completed last; the
\* end of the turn returns all deltas or, if none came, that message, or nothing.
Add(m) == client' = IF m.kind = "delta" THEN [client EXCEPT !.text = Append(@, Piece(m))]
                                        ELSE [client EXCEPT !.last = Piece(m)]
Text ==
  IF client.text # <<>> THEN client.text
  ELSE IF client.last # NoMessage THEN <<client.last>> ELSE <<>>
Finish(m) ==
  /\ GiveUp
  /\ answer' = IF m.kind = "failed" THEN answer
               ELSE [answer EXCEPT ![client.turn] = [returned |-> TRUE, text |-> Text]]

\* Faulty: the turn of a completed message is not looked at.
StreamAny(m) ==
  /\ client.at = "stream" /\ m.kind \in Notes
  /\ IF m.turn # client.turn /\ m.kind # "message" THEN UNCHANGED <<client, answer>>
     ELSE IF m.kind \in Pieces THEN Add(m) /\ UNCHANGED answer ELSE Finish(m)
  /\ UNCHANGED <<threads, codex, asked, made>>
(* stream_turn: notifications of other turns are skipped.                   *)
Stream(m) ==
  /\ client.at = "stream" /\ m.kind \in Notes
  /\ IF m.turn # client.turn THEN UNCHANGED <<client, answer>>
     ELSE IF m.kind \in Pieces THEN Add(m) /\ UNCHANGED answer ELSE Finish(m)
  /\ UNCHANGED <<threads, codex, asked, made>>

(* next_notification takes what was kept before it reads on.                *)
TakePending ==
  /\ client.at = "stream" /\ pending # <<>>
  /\ Stream(Head(pending)) /\ pending' = Tail(pending)
  /\ UNCHANGED pipe
ReadPipe ==
  /\ pipe # <<>> /\ pipe' = Tail(pipe)
  /\ client.at = "stream" => pending = <<>>
  /\ LET m == Head(pipe) IN
       Keep(m) \/ Serve(m) \/ Receive(m) \/ (Stream(m) /\ UNCHANGED pending)

(* The end of the output is an error of the call that waits for more.       *)
Closed ==
  /\ ~alive /\ pipe = <<>> /\ client.at # "idle"
  /\ client.at = "stream" => pending = <<>>
  /\ GiveUp
  /\ UNCHANGED <<threads, pending, pipe, asked, codex, made, answer>>

TurnNext ==
  \/ Child
  \/ /\ (\E s \in Sessions : Begin(s)) \/ TakePending \/ ReadPipe \/ Closed
     /\ UNCHANGED alive
TurnSpec == TurnInit /\ [][TurnNext]_turnVars

-----------------------------------------------------------------------------
(* The text that a turn returns is of this turn and leaves nothing of it    *)
(* out: all deltas that Codex wrote of it, in order; if it wrote none, the  *)
(* message that it completed last; and nothing if it completed none.        *)
(* Nothing comes from a turn that was given up on before it, and nothing is *)
(* lost that was written before the response to the request for it.         *)
TextIsOwn ==
  \A t \in DOMAIN answer : answer[t].returned =>
    LET sent == codex[t].sent IN
    answer[t].text =
      IF sent["delta"] > 0 THEN [n \in 1..sent["delta"] |-> <<"delta", t, n>>]
      ELSE IF sent["message"] > 0 THEN << <<"message", t, sent["message"]>> >> ELSE <<>>

(* Sessions that were given a thread never share one: no session reads what *)
(* another said.                                                            *)
ThreadsAreApart ==
  \A s, t \in Sessions : s # t /\ threads[s] # 0 => threads[s] # threads[t]
=============================================================================
