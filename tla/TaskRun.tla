------------------------------- MODULE TaskRun -------------------------------
(***************************************************************************)
(* A task run of the daemon (tasks.rs, app_server.rs), the approvals it     *)
(* waits for (approvals.rs) and its rows in the task database (task_db.rs). *)
(*                                                                         *)
(*   POST /v1/runs     inserts the rows of a run and spawns its thread      *)
(*   the run's thread  starts a Codex app-server, streams one turn and      *)
(*                     records how it ended; an approval blocks it in the   *)
(*                     broker until a client answers or 30 minutes pass     *)
(*   the daemon's one server thread gives clients' answers to the broker    *)
(*   cancellers        other processes (tasks cancel, the task server) set  *)
(*                     the run's cancel flag in the database                *)
(*   Codex             a child process per run, external: a pipe from it    *)
(*                     carries replies, notifications and requests          *)
(*                                                                         *)
(* Texts, time stamps, audit entries, the events that only copy a           *)
(* notification, threads resumed or forked from another run and approvals   *)
(* asked for at a terminal are left out.                                    *)
(***************************************************************************)
EXTENDS Naturals, Sequences

CONSTANTS
  Runs,                 \* ids of rows of task_runs
  Cancellers,           \* processes that cancel runs
  None,                 \* Option::None
  Kinds,                \* kinds of requests Codex makes
  MaxAsks,              \* bound: requests of one turn
  MaxNotes,             \* bound: notifications of one turn but its last
  MaxCancels,           \* bound: calls of tasks cancel
  MaxCrashes            \* bound: times the daemon is killed

ASSUME KindsAssumption == Kinds \subseteq {"command", "delete", "input"}
ASSUME BoundAssumption == {MaxAsks, MaxNotes, MaxCancels, MaxCrashes} \subseteq Nat
ASSUME NoneAssumption  == None \notin Runs

VARIABLES
  db,                   \* [Runs -> Rows]: task_runs and run_controls
  log,                  \* [Runs -> set of EventKinds]: the events table
  run,                  \* [Runs -> Threads]: the threads of the daemon
  codex,                \* [Runs -> Codexes]: the app-servers
  pipe,                 \* [Runs -> sequences of Messages]: their stdout
  open,                 \* subset of Asks: ApprovalBroker.approvals and inputs
  sending,              \* the answer the server took out of open and sends next
  cancelling,           \* [Cancellers -> Runs or None]: run found not terminal
  told,                 \* subset of Answers: clients were told ok (history)
  answered,             \* set of [ask, decision]: the approvals table
  cancels, crashes      \* counters for the bounds

vars == <<db, log, run, codex, pipe, open, sending, cancelling, told, answered,
          cancels, crashes>>

broker == <<open, sending, told>>
counts == <<cancels, crashes>>

-----------------------------------------------------------------------------
(* The shapes of the state.  An ask of kind "delete" is a file change that  *)
(* approval_risk finds to delete or rename, one of kind "command" any other *)
(* approval, one of kind "input" a question to the user.                    *)

Asks == [run : Runs, n : 1..MaxAsks, kind : Kinds]

Decisions(kind) ==
  IF kind = "input" THEN {"submit", "skip", "cancel"}
                    ELSE {"accept", "decline", "cancel"}

\* What stands for an answer that did not come in time.
Default(kind) == IF kind = "input" THEN "cancel" ELSE "decline"

AllDecisions == {"submit", "skip", "accept", "decline", "cancel"}
Answers == [ask : Asks, decision : AllDecisions, confirmed : BOOLEAN]

Terminal == {"completed", "failed", "cancelled"}

Rows == [status : {"none", "running"} \cup Terminal,
         thread : BOOLEAN,                          \* codex_thread_id is set
         cancel : {"absent", "clear", "requested"}, \* run_controls
         sent   : BOOLEAN]                          \* cancel_sent_at_ms is set

EventKinds == {"thread_started", "cancel_requested", "turn_interrupt_requested",
               "tool_user_input", "turn_completed", "turn_failed"}

Outcomes == {"completed", "interrupted", "failed", "failed without error"}

Replies       == {[type |-> "ok"], [type |-> "error"]}
Notifications == {[type |-> "note"]} \cup [type : {"done"}, outcome : Outcomes]
Messages      == Replies \cup Notifications \cup [type : {"ask"}, ask : Asks]

\* Where a thread is; "waiting" is wait_for_response, "reading"
\* next_notification, "asking" recv_timeout, "ending" after update_run_status.
Places == {"none", "creating", "prepared", "waiting", "checking", "reading",
           "asking", "answering", "finishing", "ending", "done", "lost"}

Threads == [pc          : Places,
            method      : {"turn/start", "turn/interrupt"}, \* request sent last
            back        : {"waiting", "reading"},  \* where a request interrupted
            interrupted : BOOLEAN,                 \* interrupt_sent
            pending     : Seq(Notifications),      \* pending_notifications
            ask         : Asks \cup {None},        \* the request it handles
            chan        : AllDecisions \cup {None},\* the receiver's queue
            got         : AllDecisions \cup {None},\* resolution
            result      : Terminal,                \* the status to be saved
            late        : Nat]                     \* history, see CancelIsPrompt

Codexes == [alive : BOOLEAN,
            turn  : {"none", "active", "over"},
            owes  : {"nothing", "start", "interrupt"}, \* request to reply to
            ask   : Asks \cup {None},              \* request it waits for
            told  : BOOLEAN,                       \* an approval was cancelled
            asks  : 0..MaxAsks,
            notes : 0..MaxNotes]

Idle == [pc |-> "none", method |-> "turn/start", back |-> "waiting",
         interrupted |-> FALSE, pending |-> <<>>, ask |-> None, chan |-> None,
         got |-> None, result |-> "failed", late |-> 0]

NoCodex == [alive |-> FALSE, turn |-> "none", owes |-> "nothing", ask |-> None,
            told |-> FALSE, asks |-> 0, notes |-> 0]

Init ==
  /\ db = [r \in Runs |-> [status |-> "none", thread |-> FALSE,
                           cancel |-> "absent", sent |-> FALSE]]
  /\ log = [r \in Runs |-> {}]
  /\ run = [r \in Runs |-> Idle]
  /\ codex = [r \in Runs |-> NoCodex]
  /\ pipe = [r \in Runs |-> <<>>]
  /\ open = {} /\ sending = None /\ told = {} /\ answered = {}
  /\ cancelling = [x \in Cancellers |-> None]
  /\ cancels = 0 /\ crashes = 0

At(r, place)   == run[r].pc = place
Record(r, k)   == log' = [log EXCEPT ![r] = @ \cup {k}]
GoTo(r, place) == run' = [run EXCEPT ![r].pc = place]

\* The server thread handles one request at a time.
ServerIsFree == sending = None /\ \A r \in Runs : ~At(r, "creating")

\* The thread leaves the turn: `?` in stream_turn, or its TurnCompleted.
Leave(r, s) == run' = [run EXCEPT ![r].pc = "finishing", ![r].result = s]

-----------------------------------------------------------------------------
(* Creating a run: create_run is three statements without a transaction.    *)

InsertRun(r) ==
  /\ ServerIsFree
  /\ At(r, "none")
  /\ db' = [db EXCEPT ![r].status = "running"]
  /\ GoTo(r, "creating")
  /\ UNCHANGED <<log, codex, pipe, broker, cancelling, answered, counts>>

InsertControls(r) ==
  /\ At(r, "creating")
  /\ db' = [db EXCEPT ![r].cancel = "clear"]
  /\ GoTo(r, "prepared")
  /\ UNCHANGED <<log, codex, pipe, broker, cancelling, answered, counts>>

\* The app-server is spawned, initialised and has started a thread; the run
\* records that and sends turn/start.
Start(r) ==
  /\ At(r, "prepared")
  /\ codex' = [codex EXCEPT ![r].alive = TRUE, ![r].owes = "start"]
  /\ db' = [db EXCEPT ![r].thread = TRUE]
  /\ Record(r, "thread_started")
  /\ GoTo(r, "waiting")
  /\ UNCHANGED <<pipe, broker, cancelling, answered, counts>>

\* No prompt, no codex binary, an error before the thread has started or, of
\* the sandbox policy, after it: the status is left as it is.
StartFails(r) ==
  /\ At(r, "prepared")
  /\ GoTo(r, "lost")
  /\ \/ UNCHANGED <<db, log>>
     \/ db' = [db EXCEPT ![r].thread = TRUE] /\ Record(r, "thread_started")
  /\ UNCHANGED <<codex, pipe, broker, cancelling, answered, counts>>

-----------------------------------------------------------------------------
(* The turn, in the run's thread.                                           *)

\* should_interrupt at the head of the loop of stream_turn.  Writing to an
\* app-server that has exited is an error.
Check(r) ==
  /\ At(r, "checking")
  /\ IF db[r].cancel = "requested" /\ ~run[r].interrupted
     THEN /\ db' = [db EXCEPT ![r].sent = TRUE]
          /\ Record(r, "turn_interrupt_requested")
          /\ IF codex[r].alive
             THEN /\ codex' = [codex EXCEPT ![r].owes = "interrupt"]
                  /\ run' = [run EXCEPT ![r].pc = "waiting",
                                        ![r].method = "turn/interrupt"]
             ELSE Leave(r, "failed") /\ UNCHANGED codex
     ELSE GoTo(r, "reading") /\ UNCHANGED <<db, log, codex>>
  /\ UNCHANGED <<pipe, broker, cancelling, answered, counts>>

\* wait_for_response: the reply to turn/start or turn/interrupt.
TakeReply(r) ==
  /\ At(r, "waiting")
  /\ pipe[r] # <<>>
  /\ Head(pipe[r]) \in Replies
  /\ pipe' = [pipe EXCEPT ![r] = Tail(@)]
  /\ IF Head(pipe[r]).type = "error" THEN Leave(r, "failed")
     ELSE IF run[r].method = "turn/interrupt"
     THEN run' = [run EXCEPT ![r].pc = "reading", ![r].interrupted = TRUE]
     ELSE GoTo(r, "checking")
  /\ UNCHANGED <<db, log, codex, broker, cancelling, answered, counts>>

\* wait_for_response keeps notifications for later.
KeepNotification(r) ==
  /\ At(r, "waiting")
  /\ pipe[r] # <<>>
  /\ Head(pipe[r]) \in Notifications
  /\ run' = [run EXCEPT ![r].pending = Append(@, Head(pipe[r]))]
  /\ pipe' = [pipe EXCEPT ![r] = Tail(@)]
  /\ UNCHANGED <<db, log, codex, broker, cancelling, answered, counts>>

\* Faulty: every failure without an error counts as an interrupt.
StatusOfAbort(outcome) ==
  CASE outcome = "failed"    -> "failed"
    [] outcome = "completed" -> "completed"
    [] OTHER                 -> "cancelled"

\* The status that the outcome of a turn is recorded as: a failure counts as
\* one only if it has an error.
StatusOf(outcome) ==
  CASE outcome = "failed"      -> "failed"
    [] outcome = "interrupted" -> "cancelled"
    [] OTHER                   -> "completed"

\* Faulty: should_interrupt is asked once, before the loop.
HandleUnchecked(r, msg, t) ==
  /\ IF msg.type = "done" THEN Record(r, "turn_completed") ELSE UNCHANGED log
  /\ run' = [run EXCEPT ![r] =
       [t EXCEPT
          !.pc     = IF msg.type = "note" THEN "reading" ELSE "finishing",
          !.result = IF msg.type = "note" THEN @ ELSE StatusOf(msg.outcome),
          !.late   = IF db[r].cancel = "requested" /\ ~t.interrupted
                     THEN @ + 1 ELSE @]]

\* What stream_turn does with a notification; t is the thread without it.
Handle(r, msg, t) ==
  /\ IF msg.type = "done" THEN Record(r, "turn_completed") ELSE UNCHANGED log
  /\ run' = [run EXCEPT ![r] =
       [t EXCEPT
          !.pc     = IF msg.type = "note" THEN "checking" ELSE "finishing",
          !.result = IF msg.type = "note" THEN @ ELSE StatusOf(msg.outcome),
          !.late   = IF db[r].cancel = "requested" /\ ~t.interrupted
                     THEN @ + 1 ELSE @]]

TakePending(r) ==
  /\ At(r, "reading")
  /\ run[r].pending # <<>>
  /\ Handle(r, Head(run[r].pending), [run[r] EXCEPT !.pending = Tail(@)])
  /\ UNCHANGED <<db, codex, pipe, broker, cancelling, answered, counts>>

TakeNotification(r) ==
  /\ At(r, "reading")
  /\ run[r].pending = <<>>
  /\ pipe[r] # <<>>
  /\ Head(pipe[r]) \in Notifications
  /\ Handle(r, Head(pipe[r]), run[r])
  /\ pipe' = [pipe EXCEPT ![r] = Tail(@)]
  /\ UNCHANGED <<db, codex, broker, cancelling, answered, counts>>

\* Faulty: a closed stdout ends the turn only where notifications are read.
TakeEndReading(r) ==
  /\ At(r, "reading")
  /\ pipe[r] = <<>>
  /\ ~codex[r].alive
  /\ run[r].pending = <<>>
  /\ Leave(r, "failed")
  /\ UNCHANGED <<db, log, codex, pipe, broker, cancelling, answered, counts>>

\* The app-server closed its stdout.
TakeEnd(r) ==
  /\ run[r].pc \in {"waiting", "reading"}
  /\ pipe[r] = <<>>
  /\ ~codex[r].alive
  /\ At(r, "reading") => run[r].pending = <<>>
  /\ Leave(r, "failed")
  /\ UNCHANGED <<db, log, codex, pipe, broker, cancelling, answered, counts>>

\* The end of execute_run: the status is saved before the last events.
SaveStatus(r) ==
  /\ At(r, "finishing")
  /\ db' = [db EXCEPT ![r].status = run[r].result]
  /\ GoTo(r, "ending")
  /\ UNCHANGED <<log, codex, pipe, broker, cancelling, answered, counts>>

RecordEnd(r) ==
  /\ At(r, "ending")
  /\ Record(r, IF run[r].result = "failed" THEN "turn_failed" ELSE "turn_completed")
  /\ run' = [run EXCEPT ![r] = [Idle EXCEPT !.pc = "done", !.late = run[r].late]]
  /\ codex' = [codex EXCEPT ![r] = NoCodex]
  /\ pipe' = [pipe EXCEPT ![r] = <<>>]
  /\ UNCHANGED <<db, broker, cancelling, answered, counts>>

-----------------------------------------------------------------------------
(* The broker, in the run's thread.                                         *)

\* handle_server_request, from wait_for_response or next_notification: the
\* request is entered in the broker's map.
TakeAsk(r) ==
  /\ run[r].pc \in {"waiting", "reading"}
  /\ At(r, "reading") => run[r].pending = <<>>
  /\ pipe[r] # <<>>
  /\ Head(pipe[r]).type = "ask"
  /\ LET a == Head(pipe[r]).ask IN
       /\ run' = [run EXCEPT ![r].pc = "asking", ![r].back = run[r].pc,
                             ![r].ask = a, ![r].chan = None, ![r].got = None]
       /\ open' = open \cup {a}
  /\ pipe' = [pipe EXCEPT ![r] = Tail(@)]
  /\ UNCHANGED <<db, log, codex, sending, told, cancelling, answered, counts>>

Receive(r) ==
  /\ At(r, "asking")
  /\ run[r].chan # None
  /\ run' = [run EXCEPT ![r].pc = "answering", ![r].got = run[r].chan]
  /\ UNCHANGED <<db, log, codex, pipe, broker, cancelling, answered, counts>>

ApprovalTimeout(r) ==
  /\ At(r, "asking")
  /\ run[r].chan = None
  /\ run' = [run EXCEPT ![r].pc = "answering", ![r].got = Default(run[r].ask.kind)]
  /\ UNCHANGED <<db, log, codex, pipe, broker, cancelling, answered, counts>>

\* The decision is written to Codex, which interrupts the turn if it cancels.
Respond(r, a, d) ==
  IF codex[r].alive
  THEN /\ run' = [run EXCEPT ![r].pc = run[r].back, ![r].ask = None,
                             ![r].chan = None, ![r].got = None]
       /\ codex' = [codex EXCEPT ![r].ask = None,
                      ![r].told = @ \/ (d = "cancel" /\ a.kind # "input"
                                        /\ codex[r].ask = a)]
  ELSE Leave(r, "failed") /\ UNCHANGED codex

\* Faulty: an entry that timed out stays in the map.
AnswerKeeping(r) ==
  LET a == run[r].ask
      d == run[r].got
  IN /\ At(r, "answering")
     /\ answered' = answered \cup {[ask |-> a, decision |-> d]}
     /\ log' = [log EXCEPT ![r] = IF a.kind = "input" THEN @ \cup {"tool_user_input"}
                                                      ELSE @]
     /\ Respond(r, a, d)
     /\ UNCHANGED <<db, pipe, broker, cancelling, counts>>

\* The entry is removed, the decision recorded and given to Codex.
Answer(r) ==
  LET a == run[r].ask
      d == run[r].got
  IN /\ At(r, "answering")
     /\ open' = open \ {a}
     /\ answered' = answered \cup {[ask |-> a, decision |-> d]}
     /\ log' = [log EXCEPT ![r] = IF a.kind = "input" THEN @ \cup {"tool_user_input"}
                                                      ELSE @]
     /\ Respond(r, a, d)
     /\ UNCHANGED <<db, pipe, sending, told, cancelling, counts>>

-----------------------------------------------------------------------------
(* The daemon's server thread: POST /v1/approvals/{id}, /v1/user-input/{id}.*)

\* The entry is removed from the map under its lock.  An unknown id, and an
\* accept of a risky change without its phrase, change nothing.
Resolve(a, d, confirmed) ==
  /\ ServerIsFree
  /\ a \in open
  /\ d \in Decisions(a.kind)
  /\ a.kind = "delete" /\ d = "accept" => confirmed
  /\ open' = open \ {a}
  /\ sending' = [ask |-> a, decision |-> d, confirmed |-> confirmed]
  /\ UNCHANGED <<db, log, run, codex, pipe, told, cancelling, answered, counts>>

\* Faulty: answers are sent by run id, to whatever its thread waits for.
SendToRun ==
  /\ sending # None
  /\ run' = [r \in Runs |->
       IF run[r].pc = "asking" /\ r = sending.ask.run
       THEN [run[r] EXCEPT !.chan = sending.decision] ELSE run[r]]
  /\ told' = told \cup {sending}
  /\ sending' = None
  /\ UNCHANGED <<db, log, codex, pipe, open, cancelling, answered, counts>>

\* The answer is sent after the lock was released, and the client told ok; it
\* is lost if the thread no longer waits for it.
SendAnswer ==
  /\ sending # None
  /\ run' = [r \in Runs |->
       IF run[r].pc = "asking" /\ run[r].ask = sending.ask
       THEN [run[r] EXCEPT !.chan = sending.decision] ELSE run[r]]
  /\ told' = told \cup {sending}
  /\ sending' = None
  /\ UNCHANGED <<db, log, codex, pipe, open, cancelling, answered, counts>>

-----------------------------------------------------------------------------
(* Cancelling: the status is read before the flag is set.                   *)

FindRunning(x, r) ==
  /\ cancelling[x] = None
  /\ cancels < MaxCancels
  /\ db[r].status = "running"
  /\ cancelling' = [cancelling EXCEPT ![x] = r]
  /\ cancels' = cancels + 1
  /\ UNCHANGED <<db, log, run, codex, pipe, broker, answered, crashes>>

RequestCancel(x) ==
  LET r == cancelling[x]
      found == db[r].cancel # "absent"
  IN /\ r # None
     /\ db' = IF found THEN [db EXCEPT ![r].cancel = "requested"] ELSE db
     /\ log' = IF found THEN [log EXCEPT ![r] = @ \cup {"cancel_requested"}] ELSE log
     /\ cancelling' = [cancelling EXCEPT ![x] = None]
     /\ UNCHANGED <<run, codex, pipe, broker, answered, counts>>

-----------------------------------------------------------------------------
(* Codex: its replies, the notifications and requests of its turn, and how  *)
(* the turn ends.                                                           *)

Say(r, msgs) == pipe' = [pipe EXCEPT ![r] = @ \o msgs]
Done(o)      == [type |-> "done", outcome |-> o]

CodexBegin(r) ==
  /\ codex[r].alive
  /\ codex[r].owes = "start" /\ codex[r].turn = "none"
  /\ codex' = [codex EXCEPT ![r].turn = "active"]
  /\ UNCHANGED <<db, log, run, pipe, broker, cancelling, answered, counts>>

CodexRefuse(r) ==
  /\ codex[r].alive
  /\ codex[r].owes = "start" /\ codex[r].turn = "none"
  /\ codex' = [codex EXCEPT ![r].turn = "over", ![r].owes = "nothing"]
  /\ Say(r, <<[type |-> "error"]>>)
  /\ UNCHANGED <<db, log, run, broker, cancelling, answered, counts>>

CodexReply(r) ==
  /\ codex[r].alive
  /\ codex[r].owes = "start" /\ codex[r].turn # "none"
  /\ codex' = [codex EXCEPT ![r].owes = "nothing"]
  /\ Say(r, <<[type |-> "ok"]>>)
  /\ UNCHANGED <<db, log, run, broker, cancelling, answered, counts>>

Working(r) == codex[r].alive /\ codex[r].turn = "active" /\ codex[r].ask = None

CodexNote(r) ==
  /\ Working(r)
  /\ codex[r].notes < MaxNotes
  /\ codex' = [codex EXCEPT ![r].notes = @ + 1]
  /\ Say(r, <<[type |-> "note"]>>)
  /\ UNCHANGED <<db, log, run, broker, cancelling, answered, counts>>

CodexAsk(r, kind) ==
  LET a == [run |-> r, n |-> codex[r].asks + 1, kind |-> kind]
  IN /\ Working(r)
     /\ codex[r].asks < MaxAsks
     /\ codex' = [codex EXCEPT ![r].asks = @ + 1, ![r].ask = a]
     /\ Say(r, <<[type |-> "ask", ask |-> a]>>)
     /\ UNCHANGED <<db, log, run, broker, cancelling, answered, counts>>

CodexFinish(r, o) ==
  /\ Working(r)
  /\ ~codex[r].told
  /\ codex' = [codex EXCEPT ![r].turn = "over"]
  /\ Say(r, <<Done(o)>>)
  /\ UNCHANGED <<db, log, run, broker, cancelling, answered, counts>>

\* The turn is interrupted, by turn/interrupt or by a cancelled approval.
CodexInterrupt(r) ==
  /\ codex[r].alive
  /\ codex[r].turn = "active"
  /\ codex[r].owes = "interrupt" \/ codex[r].told
  /\ codex' = [codex EXCEPT ![r].turn = "over", ![r].ask = None,
                            ![r].owes = IF @ = "interrupt" THEN "nothing" ELSE @]
  /\ \E msgs \in IF codex[r].owes = "interrupt"
                 THEN {<<[type |-> "ok"], Done("interrupted")>>,
                       <<Done("interrupted"), [type |-> "ok"]>>}
                 ELSE {<<Done("interrupted")>>} : Say(r, msgs)
  /\ UNCHANGED <<db, log, run, broker, cancelling, answered, counts>>

\* turn/interrupt came after the turn was over.
CodexTooLate(r) ==
  /\ codex[r].alive
  /\ codex[r].turn = "over" /\ codex[r].owes = "interrupt"
  /\ codex' = [codex EXCEPT ![r].owes = "nothing"]
  /\ \E reply \in Replies : Say(r, <<reply>>)
  /\ UNCHANGED <<db, log, run, broker, cancelling, answered, counts>>

CodexExit(r) ==
  /\ codex[r].alive
  /\ codex' = [codex EXCEPT ![r].alive = FALSE]
  /\ UNCHANGED <<db, log, run, pipe, broker, cancelling, answered, counts>>

\* The daemon is killed, its app-servers with it.  No start looks at the runs
\* that were running.
Crash ==
  /\ crashes < MaxCrashes
  /\ crashes' = crashes + 1
  /\ run' = [r \in Runs |-> IF run[r].pc \in {"none", "done"} THEN run[r]
                            ELSE [Idle EXCEPT !.pc = "lost", !.late = run[r].late]]
  /\ codex' = [r \in Runs |-> NoCodex]
  /\ pipe' = [r \in Runs |-> <<>>]
  /\ open' = {} /\ sending' = None
  /\ UNCHANGED <<db, log, told, cancelling, answered, cancels>>

-----------------------------------------------------------------------------
(* The specification.                                                       *)

ThreadStep(r) ==
  \/ Start(r) \/ StartFails(r)
  \/ Check(r) \/ TakeReply(r) \/ KeepNotification(r)
  \/ TakePending(r) \/ TakeNotification(r) \/ TakeEnd(r)
  \/ TakeAsk(r) \/ Receive(r) \/ ApprovalTimeout(r) \/ Answer(r)
  \/ SaveStatus(r) \/ RecordEnd(r)

ServerStep ==
  \/ \E r \in Runs : InsertRun(r) \/ InsertControls(r)
  \/ \E a \in open : \E d \in Decisions(a.kind) :
       \E confirmed \in {FALSE, a.kind = "delete" /\ d = "accept"} :
         Resolve(a, d, confirmed)
  \/ SendAnswer

CancellerStep(x) == RequestCancel(x) \/ \E r \in Runs : FindRunning(x, r)

CodexAnswers(r) == CodexBegin(r) \/ CodexRefuse(r) \/ CodexReply(r) \/ CodexTooLate(r)
CodexEnds(r)    == CodexInterrupt(r) \/ \E o \in Outcomes \ {"interrupted"} : CodexFinish(r, o)

CodexStep(r) ==
  \/ CodexAnswers(r) \/ CodexEnds(r) \/ CodexExit(r)
  \/ CodexNote(r) \/ \E kind \in Kinds : CodexAsk(r, kind)

Next ==
  \/ \E r \in Runs : ThreadStep(r) \/ CodexStep(r)
  \/ ServerStep
  \/ \E x \in Cancellers : CancellerStep(x)
  \/ Crash

Spec == Init /\ [][Next]_vars

\* The threads of the daemon are scheduled, recv_timeout elapses, and Codex
\* replies to requests and ends a turn that waits for nothing.
FairSpec ==
  /\ Spec
  /\ \A r \in Runs : /\ WF_vars(ThreadStep(r))
                     /\ WF_vars(CodexAnswers(r))
                     /\ WF_vars(CodexEnds(r))
  /\ WF_vars(SendAnswer)

-----------------------------------------------------------------------------
(* Properties.                                                              *)

\* Every variable has its type.
TypeOK ==
  /\ db \in [Runs -> Rows]
  /\ log \in [Runs -> SUBSET EventKinds]
  /\ run \in [Runs -> Threads]
  /\ codex \in [Runs -> Codexes]
  /\ pipe \in [Runs -> Seq(Messages)]
  /\ open \subseteq Asks
  /\ sending \in Answers \cup {None}
  /\ cancelling \in [Cancellers -> Runs \cup {None}]
  /\ told \subseteq Answers
  /\ answered \subseteq [ask : Asks, decision : AllDecisions]
  /\ cancels \in Nat /\ crashes \in Nat

\* What Codex was told of a request, other than what stands for a late
\* answer, a client decided, who was told it counts and who gave the phrase if
\* the change deletes or renames; and no request has two decisions or two
\* clients that were told theirs counts (resolve_approval and recv_timeout).
AnswersAreDecisions ==
  /\ \A x \in answered :
       \/ x.decision = Default(x.ask.kind)
       \/ \E t \in told :
            /\ t.ask = x.ask /\ t.decision = x.decision
            /\ x.ask.kind = "delete" /\ x.decision = "accept" => t.confirmed
  /\ \A x, y \in answered : x.ask = y.ask => x = y
  /\ \A t, u \in told : t.ask = u.ask => t = u

\* A request that clients see as pending has a thread that waits for it, and
\* was not answered (request_approval removes what timed out).
OpenIsAwaited ==
  \A a \in open :
    /\ run[a.run].pc \in {"asking", "answering"} /\ run[a.run].ask = a
    /\ \A x \in answered : x.ask # a

\* After a cancel was requested, at most one more notification is handled
\* before turn/interrupt is sent (should_interrupt in stream_turn).
CancelIsPrompt == \A r \in Runs : run[r].late <= 1

\* Somebody stopped run r: it was cancelled, or an approval was.
Stopped(r) ==
  \/ db[r].cancel = "requested"
  \/ \E x \in answered : /\ x.ask.run = r
                         /\ x.decision = "cancel" /\ x.ask.kind # "input"

Promise == INSTANCE RunPromise WITH status  <- [r \in Runs |-> db[r].status],
                                    stopped <- [r \in Runs |-> Stopped(r)]

\* What the database says of a run is what RunPromise promises, whatever
\* cancels, approvals, late replies and crashes come in between.
KeepsPromise == Promise!Spec

\* A run whose turn was sent to Codex ends, or is lost with the daemon: no
\* approval that nobody answers and no app-server that exits blocks it.
RunsEnd == \A r \in Runs : At(r, "waiting") ~> run[r].pc \in {"done", "lost"}

=============================================================================
