---------------------------- MODULE TaskRunProofs ----------------------------
(***************************************************************************)
(* Theorems about TaskRun, for any runs, cancellers and kinds of requests   *)
(* and any number of requests, notifications, cancellations and crashes.    *)
(***************************************************************************)
EXTENDS TaskRun, SequenceTheorems, TLAPS

USE BoundAssumption

-----------------------------------------------------------------------------
(* Type correctness needs, besides TypeOK, that a thread in the broker has  *)
(* a request, and one that goes to answer it a decision.                    *)

HasAsk ==
  \A r \in Runs :
    /\ run[r].pc \in {"asking", "answering"} => run[r].ask \in Asks
    /\ run[r].pc = "answering" => run[r].got \in AllDecisions

TypeInv == TypeOK /\ HasAsk

LEMMA TypeInit == Init => TypeInv
BY DEF Init, TypeInv, TypeOK, HasAsk, Rows, Idle, NoCodex, Threads, Codexes, Places,
       AllDecisions, Terminal, EventKinds

\* The types of what a step of run r reads.
LEMMA Types ==
  ASSUME TypeInv, NEW r \in Runs
  PROVE  /\ run \in [Runs -> Threads] /\ run[r] \in Threads
         /\ codex \in [Runs -> Codexes] /\ codex[r] \in Codexes
         /\ db \in [Runs -> Rows] /\ db[r] \in Rows
         /\ log \in [Runs -> SUBSET EventKinds]
         /\ pipe \in [Runs -> Seq(Messages)] /\ pipe[r] \in Seq(Messages)
         /\ run[r].pending \in Seq(Notifications)
BY DEF TypeInv, TypeOK, Threads

\* Moves of a thread from place to place, outside the broker.
LEMMA Moved ==
  ASSUME TypeInv, NEW r \in Runs, NEW t \in Threads,
         run' = [run EXCEPT ![r] = t],
         t.pc \in {"asking", "answering"} => t.ask \in Asks,
         t.pc = "answering" => t.got \in AllDecisions
  PROVE  run' \in [Runs -> Threads] /\ HasAsk'
BY DEF TypeInv, TypeOK, HasAsk

LEMMA Recorded ==
  ASSUME TypeInv, NEW r \in Runs, NEW k \in EventKinds, Record(r, k)
  PROVE  log' \in [Runs -> SUBSET EventKinds]
BY DEF TypeInv, TypeOK, Record

LEMMA InsertRunType ==
  ASSUME TypeInv, NEW r \in Runs, InsertRun(r)
  PROVE  TypeInv'
<1> DEFINE t == [run[r] EXCEPT !.pc = "creating"]
<1>1. t \in Threads /\ t.pc = "creating" /\ run' = [run EXCEPT ![r] = t]
  BY Types, ZenonT(60) DEF InsertRun, GoTo, Threads, Places
<1>2. db' \in [Runs -> Rows]
  BY Types DEF InsertRun, Rows
<1> HIDE DEF t
<1> QED  BY <1>1, <1>2, Moved DEF InsertRun, TypeInv, TypeOK, broker, counts

LEMMA CheckType ==
  ASSUME TypeInv, NEW r \in Runs, Check(r)
  PROVE  TypeInv'
<1>1. PICK t \in Threads : /\ run' = [run EXCEPT ![r] = t]
                           /\ t.pc \in {"waiting", "finishing", "reading"}
  <2> DEFINE w == [run[r] EXCEPT !.pc = "waiting", !.method = "turn/interrupt"]
             f == [run[r] EXCEPT !.pc = "finishing", !.result = "failed"]
             g == [run[r] EXCEPT !.pc = "reading"]
  <2>1. w \in Threads /\ f \in Threads /\ g \in Threads
        /\ w.pc = "waiting" /\ f.pc = "finishing" /\ g.pc = "reading"
    BY Types, ZenonT(60) DEF Threads, Places, Terminal
  <2>2. \/ run' = [run EXCEPT ![r] = w] \/ run' = [run EXCEPT ![r] = f]
        \/ run' = [run EXCEPT ![r] = g]
    BY Types DEF Check, GoTo, Leave, Threads
  <2> QED  BY <2>1, <2>2
<1>2. db' \in [Runs -> Rows]
  <2> DEFINE y == [db[r] EXCEPT !.sent = TRUE]
  <2>1. y \in Rows
    BY Types DEF Rows
  <2>2. db' = [db EXCEPT ![r] = y] \/ db' = db
    BY Types DEF Check
  <2> HIDE DEF y
  <2> QED  BY <2>1, <2>2, Types
<1>4. codex' \in [Runs -> Codexes]
  <2> DEFINE c == [codex[r] EXCEPT !.owes = "interrupt"]
  <2>1. c \in Codexes
    BY Types DEF Codexes
  <2>2. codex' = [codex EXCEPT ![r] = c] \/ codex' = codex
    BY Types DEF Check
  <2> HIDE DEF c
  <2> QED  BY <2>1, <2>2, Types
<1>3. log' \in [Runs -> SUBSET EventKinds]
  BY Types, ZenonT(60) DEF Check, Record, EventKinds
<1> QED  BY <1>1, <1>2, <1>3, <1>4, Moved DEF Check, TypeInv, TypeOK, broker, counts

LEMMA InsertControlsType ==
  ASSUME TypeInv, NEW r \in Runs, InsertControls(r)
  PROVE  TypeInv'
<1> DEFINE t == [run[r] EXCEPT !.pc = "prepared"]
           y == [db[r] EXCEPT !.cancel = "clear"]
<1>1. t \in Threads /\ t.pc = "prepared" /\ run' = [run EXCEPT ![r] = t]
  BY Types, ZenonT(60) DEF InsertControls, GoTo, Threads, Places
<1>2. y \in Rows /\ db' = [db EXCEPT ![r] = y]
  BY Types DEF InsertControls, Rows
<1> HIDE DEF t, y
<1> QED  BY <1>1, <1>2, Moved, Types DEF InsertControls, TypeInv, TypeOK, broker, counts

LEMMA StartType ==
  ASSUME TypeInv, NEW r \in Runs, Start(r)
  PROVE  TypeInv'
<1> DEFINE t == [run[r] EXCEPT !.pc = "waiting"]
           y == [db[r] EXCEPT !.thread = TRUE]
           c == [codex[r] EXCEPT !.alive = TRUE, !.owes = "start"]
<1>1. t \in Threads /\ t.pc = "waiting" /\ run' = [run EXCEPT ![r] = t]
  BY Types, ZenonT(60) DEF Start, GoTo, Threads, Places
<1>2. y \in Rows /\ db' = [db EXCEPT ![r] = y]
  BY Types DEF Start, Rows
<1>3. c \in Codexes /\ codex' = [codex EXCEPT ![r] = c]
  BY Types DEF Start, Codexes
<1>4. log' \in [Runs -> SUBSET EventKinds]
  BY Recorded DEF Start, EventKinds
<1> HIDE DEF t, y, c
<1>5. run' \in [Runs -> Threads] /\ HasAsk'
  BY <1>1, Moved
<1>6. db' \in [Runs -> Rows] /\ codex' \in [Runs -> Codexes]
  BY <1>2, <1>3, Types
<1> QED  BY <1>4, <1>5, <1>6 DEF Start, TypeInv, TypeOK, broker, counts

LEMMA StartFailsType ==
  ASSUME TypeInv, NEW r \in Runs, StartFails(r)
  PROVE  TypeInv'
<1> DEFINE t == [run[r] EXCEPT !.pc = "lost"]
           y == [db[r] EXCEPT !.thread = TRUE]
<1>1. t \in Threads /\ t.pc = "lost"
  BY Types, ZenonT(60) DEF Threads, Places
<1>4. run' = [run EXCEPT ![r] = t]
  BY DEF StartFails, GoTo
<1>2. y \in Rows /\ (db' = db \/ db' = [db EXCEPT ![r] = y])
  BY Types DEF StartFails, Rows
<1>3. log' \in [Runs -> SUBSET EventKinds]
  BY Types, Recorded DEF StartFails, EventKinds
<1> HIDE DEF t, y
<1> QED  BY <1>1, <1>2, <1>3, <1>4, Moved, Types DEF StartFails, TypeInv, TypeOK, broker, counts

\* What is left of a pipe after its first message.
LEMMA Popped ==
  ASSUME TypeInv, NEW r \in Runs, pipe[r] # <<>>
  PROVE  /\ Head(pipe[r]) \in Messages
         /\ Tail(pipe[r]) \in Seq(Messages)
         /\ pipe' = [pipe EXCEPT ![r] = Tail(@)] => pipe' \in [Runs -> Seq(Messages)]
<1>1. pipe[r] \in Seq(Messages)
  BY Types
<1>2. Head(pipe[r]) \in Messages /\ Tail(pipe[r]) \in Seq(Messages)
  BY <1>1, HeadTailProperties
<1> QED  BY <1>2, Types

LEMMA TakeReplyType ==
  ASSUME TypeInv, NEW r \in Runs, TakeReply(r)
  PROVE  TypeInv'
<1>1. PICK t \in Threads : /\ run' = [run EXCEPT ![r] = t]
                           /\ t.pc \in {"checking", "finishing", "reading"}
  <2> DEFINE w == [run[r] EXCEPT !.pc = "reading", !.interrupted = TRUE]
             f == [run[r] EXCEPT !.pc = "finishing", !.result = "failed"]
             g == [run[r] EXCEPT !.pc = "checking"]
  <2>1. w \in Threads /\ f \in Threads /\ g \in Threads
        /\ w.pc = "reading" /\ f.pc = "finishing" /\ g.pc = "checking"
    BY Types, ZenonT(60) DEF Threads, Places, Terminal
  <2>2. \/ run' = [run EXCEPT ![r] = w] \/ run' = [run EXCEPT ![r] = f]
        \/ run' = [run EXCEPT ![r] = g]
    BY Types DEF TakeReply, GoTo, Leave, Threads
  <2> QED  BY <2>1, <2>2
<1> QED  BY <1>1, Moved, Popped DEF TakeReply, TypeInv, TypeOK, broker, counts

LEMMA KeepNotificationType ==
  ASSUME TypeInv, NEW r \in Runs, KeepNotification(r)
  PROVE  TypeInv'
<1> DEFINE t == [run[r] EXCEPT !.pending = Append(@, Head(pipe[r]))]
<1>1. Append(run[r].pending, Head(pipe[r])) \in Seq(Notifications)
  BY Types, AppendProperties DEF KeepNotification
<1>2. t \in Threads /\ t.pc = "waiting" /\ run' = [run EXCEPT ![r] = t]
  BY <1>1, Types DEF KeepNotification, At, Threads
<1> HIDE DEF t
<1> QED  BY <1>2, Moved, Popped DEF KeepNotification, TypeInv, TypeOK, broker, counts

\* A notification leaves the thread in the loop or at the end of the turn.
LEMMA HandleType ==
  ASSUME TypeInv, NEW r \in Runs, NEW msg \in Notifications, NEW t \in Threads,
         Handle(r, msg, t)
  PROVE  /\ run' \in [Runs -> Threads] /\ HasAsk'
         /\ log' \in [Runs -> SUBSET EventKinds]
<1> DEFINE late == IF db[r].cancel = "requested" /\ ~t.interrupted
                   THEN t.late + 1 ELSE t.late
           n == [t EXCEPT !.pc = "checking", !.result = @, !.late = late]
           e == [t EXCEPT !.pc = "finishing", !.result = StatusOf(msg.outcome), !.late = late]
<1>1. late \in Nat
  BY DEF Threads
<1> HIDE DEF late
<1>2. n \in Threads /\ n.pc = "checking"
  BY <1>1 DEF Threads, Places
<1>3. StatusOf(msg.outcome) \in Terminal
  BY DEF StatusOf, Terminal
<1>4. e \in Threads /\ e.pc = "finishing"
  BY <1>1, <1>3 DEF Threads, Places
<1>5. run' = [run EXCEPT ![r] = n] \/ run' = [run EXCEPT ![r] = e]
  BY DEF Handle, late
<1>6. log' \in [Runs -> SUBSET EventKinds]
  BY Types, Recorded DEF Handle, EventKinds
<1> HIDE DEF n, e
<1> QED  BY <1>2, <1>4, <1>5, <1>6, Moved

LEMMA TakePendingType ==
  ASSUME TypeInv, NEW r \in Runs, TakePending(r)
  PROVE  TypeInv'
<1> DEFINE t == [run[r] EXCEPT !.pending = Tail(@)]
<1>1. Head(run[r].pending) \in Notifications /\ Tail(run[r].pending) \in Seq(Notifications)
  BY Types, HeadTailProperties DEF TakePending
<1>2. t \in Threads
  BY <1>1, Types DEF Threads
<1>3. Handle(r, Head(run[r].pending), t)
  BY DEF TakePending
<1> HIDE DEF t
<1> QED  BY <1>1, <1>2, <1>3, HandleType DEF TakePending, TypeInv, TypeOK, broker, counts

LEMMA TakeNotificationType ==
  ASSUME TypeInv, NEW r \in Runs, TakeNotification(r)
  PROVE  TypeInv'
BY HandleType, Types, Popped DEF TakeNotification, TypeInv, TypeOK, broker, counts

LEMMA TakeEndType ==
  ASSUME TypeInv, NEW r \in Runs, TakeEnd(r)
  PROVE  TypeInv'
<1> DEFINE f == [run[r] EXCEPT !.pc = "finishing", !.result = "failed"]
<1>1. f \in Threads /\ f.pc = "finishing" /\ run' = [run EXCEPT ![r] = f]
  BY Types, ZenonT(60) DEF TakeEnd, Leave, Threads, Places, Terminal
<1> HIDE DEF f
<1> QED  BY <1>1, Moved DEF TakeEnd, TypeInv, TypeOK, broker, counts

LEMMA SaveStatusType ==
  ASSUME TypeInv, NEW r \in Runs, SaveStatus(r)
  PROVE  TypeInv'
<1> DEFINE t == [run[r] EXCEPT !.pc = "ending"]
           y == [db[r] EXCEPT !.status = run[r].result]
<1>1. t \in Threads /\ t.pc = "ending" /\ run' = [run EXCEPT ![r] = t]
  BY Types, ZenonT(60) DEF SaveStatus, GoTo, Threads, Places
<1>2. y \in Rows /\ db' = [db EXCEPT ![r] = y]
  BY Types DEF SaveStatus, Rows, Threads
<1> HIDE DEF t, y
<1> QED  BY <1>1, <1>2, Moved, Types DEF SaveStatus, TypeInv, TypeOK, broker, counts

LEMMA RecordEndType ==
  ASSUME TypeInv, NEW r \in Runs, RecordEnd(r)
  PROVE  TypeInv'
<1> DEFINE t == [Idle EXCEPT !.pc = "done", !.late = run[r].late]
<1>5. Idle \in Threads /\ run[r].late \in Nat
  BY Types DEF Idle, Threads, Places, Terminal
<1>1. t \in Threads /\ t.pc = "done" /\ run' = [run EXCEPT ![r] = t]
  BY <1>5 DEF RecordEnd, Threads, Places
<1>2. NoCodex \in Codexes
  BY DEF NoCodex, Codexes
<1>3. codex' \in [Runs -> Codexes] /\ pipe' \in [Runs -> Seq(Messages)]
  BY <1>2, Types DEF RecordEnd
<1>4. log' \in [Runs -> SUBSET EventKinds]
  BY Types, Recorded DEF RecordEnd, EventKinds
<1> HIDE DEF t
<1> QED  BY <1>1, <1>3, <1>4, Moved DEF RecordEnd, TypeInv, TypeOK, broker, counts

\* The messages that carry a request.
LEMMA AskMessage ==
  ASSUME NEW m \in Messages, m.type = "ask"
  PROVE  m.ask \in Asks
<1>1. m \notin Replies
  BY DEF Replies
<1>2. m \notin Notifications
  BY DEF Notifications
<1> QED  BY <1>1, <1>2 DEF Messages

LEMMA TakeAskType ==
  ASSUME TypeInv, NEW r \in Runs, TakeAsk(r)
  PROVE  TypeInv'
<1> DEFINE a == Head(pipe[r]).ask
           t == [run[r] EXCEPT !.pc = "asking", !.back = run[r].pc,
                               !.ask = a, !.chan = None, !.got = None]
<1>1. a \in Asks
  BY AskMessage, Popped DEF TakeAsk
<1>2. t \in Threads /\ t.pc = "asking" /\ t.ask = a /\ run' = [run EXCEPT ![r] = t]
  BY <1>1, Types, ZenonT(60) DEF TakeAsk, Threads, Places
<1>3. open' \subseteq Asks
  BY <1>1 DEF TakeAsk, TypeInv, TypeOK
<1> HIDE DEF a, t
<1>4. run' \in [Runs -> Threads] /\ HasAsk'
  BY <1>1, <1>2, Moved
<1>5. pipe' \in [Runs -> Seq(Messages)]
  BY Popped DEF TakeAsk
<1> QED  BY <1>3, <1>4, <1>5 DEF TakeAsk, TypeInv, TypeOK, counts

LEMMA ReceiveType ==
  ASSUME TypeInv, NEW r \in Runs, Receive(r)
  PROVE  TypeInv'
<1> DEFINE t == [run[r] EXCEPT !.pc = "answering", !.got = run[r].chan]
<1>1. run[r].chan \in AllDecisions /\ run[r].ask \in Asks
  BY Types DEF Receive, Threads, TypeInv, HasAsk, At
<1>2. t \in Threads /\ t.got \in AllDecisions /\ t.ask \in Asks
      /\ run' = [run EXCEPT ![r] = t]
  BY <1>1, Types, ZenonT(60) DEF Receive, Threads, Places
<1> HIDE DEF t
<1> QED  BY <1>2, Moved DEF Receive, TypeInv, TypeOK, broker, counts

LEMMA ApprovalTimeoutType ==
  ASSUME TypeInv, NEW r \in Runs, ApprovalTimeout(r)
  PROVE  TypeInv'
<1> DEFINE d == Default(run[r].ask.kind)
           t == [run[r] EXCEPT !.pc = "answering", !.got = d]
<1>1. d \in AllDecisions /\ run[r].ask \in Asks
  BY DEF ApprovalTimeout, TypeInv, HasAsk, At, Default, AllDecisions
<1>2. run' = [run EXCEPT ![r] = t]
  BY DEF ApprovalTimeout
<1> HIDE DEF d
<1>3. t \in Threads /\ t.got \in AllDecisions /\ t.ask \in Asks
  BY <1>1, Types, ZenonT(60) DEF Threads, Places
<1> HIDE DEF t
<1> QED  BY <1>2, <1>3, Moved DEF ApprovalTimeout, TypeInv, TypeOK, broker, counts

LEMMA AnswerType ==
  ASSUME TypeInv, NEW r \in Runs, Answer(r)
  PROVE  TypeInv'
<1> DEFINE a == run[r].ask
           d == run[r].got
           b == d = "cancel" /\ a.kind # "input" /\ codex[r].ask = a
           t == [run[r] EXCEPT !.pc = run[r].back, !.ask = None,
                               !.chan = None, !.got = None]
           f == [run[r] EXCEPT !.pc = "finishing", !.result = "failed"]
           c == [codex[r] EXCEPT !.ask = None, !.told = @ \/ b]
<1>1. a \in Asks /\ d \in AllDecisions
  BY DEF Answer, TypeInv, HasAsk, At
<1>2. t \in Threads /\ f \in Threads
      /\ t.pc \in {"waiting", "reading"} /\ f.pc = "finishing"
  BY Types, ZenonT(60) DEF Threads, Places, Terminal
<1>3. run' = [run EXCEPT ![r] = t] \/ run' = [run EXCEPT ![r] = f]
  BY DEF Answer, Respond, Leave
<1>4. c \in Codexes
  <2>1. codex[r].told \/ b \in BOOLEAN
    OBVIOUS
  <2> HIDE DEF b
  <2> QED  BY <2>1, Types DEF Codexes
<1>5. codex' = [codex EXCEPT ![r] = c] \/ codex' = codex
  BY Types DEF Answer, Respond
<1>6. open' \subseteq Asks /\ answered' \subseteq [ask : Asks, decision : AllDecisions]
  BY <1>1 DEF Answer, TypeInv, TypeOK
<1>7. log' \in [Runs -> SUBSET EventKinds]
  BY Types DEF Answer, EventKinds
<1> HIDE DEF t, f, c
<1>8. run' \in [Runs -> Threads] /\ HasAsk'
  BY <1>2, <1>3, Moved
<1>9. codex' \in [Runs -> Codexes]
  BY <1>4, <1>5, Types
<1> QED  BY <1>6, <1>7, <1>8, <1>9 DEF Answer, TypeInv, TypeOK, counts

LEMMA ResolveType ==
  ASSUME TypeInv, NEW a \in open, NEW d \in Decisions(a.kind), NEW confirmed \in BOOLEAN,
         Resolve(a, d, confirmed)
  PROVE  TypeInv'
<1>1. a \in Asks /\ d \in AllDecisions
  BY DEF TypeInv, TypeOK, Decisions, AllDecisions
<1>2. sending' \in Answers
  BY <1>1 DEF Resolve, Answers
<1> QED  BY <1>2 DEF Resolve, TypeInv, TypeOK, HasAsk, counts

LEMMA SendAnswerType ==
  ASSUME TypeInv, SendAnswer
  PROVE  TypeInv'
<1>1. sending \in Answers /\ sending.decision \in AllDecisions
  BY DEF SendAnswer, TypeInv, TypeOK, Answers
<1>2. \A r \in Runs : [run[r] EXCEPT !.chan = sending.decision] \in Threads
  BY <1>1, Types, ZenonT(60) DEF Threads
<1>3. run' \in [Runs -> Threads]
  BY <1>2, Types DEF SendAnswer
<1>4. \A r \in Runs : /\ run'[r].pc = run[r].pc /\ run'[r].ask = run[r].ask
                       /\ run'[r].got = run[r].got
  BY <1>2, Types DEF SendAnswer, Threads
<1>5. HasAsk'
  BY <1>4 DEF TypeInv, HasAsk
<1> QED  BY <1>1, <1>3, <1>5 DEF SendAnswer, TypeInv, TypeOK, counts

LEMMA CancellerType ==
  ASSUME TypeInv, NEW x \in Cancellers, CancellerStep(x)
  PROVE  TypeInv'
<1>1. CASE \E r \in Runs : FindRunning(x, r)
  BY <1>1 DEF FindRunning, TypeInv, TypeOK, HasAsk, broker
<1>2. CASE RequestCancel(x)
  <2> DEFINE r == cancelling[x]
             y == [db[r] EXCEPT !.cancel = "requested"]
  <2>1. r \in Runs
    BY <1>2 DEF RequestCancel, TypeInv, TypeOK
  <2>2. y \in Rows /\ (db' = db \/ db' = [db EXCEPT ![r] = y])
    BY <1>2, <2>1, Types DEF RequestCancel, Rows
  <2> HIDE DEF y
  <2>3. db' \in [Runs -> Rows]
    BY <2>1, <2>2, Types
  <2>4. log' \in [Runs -> SUBSET EventKinds]
    BY <1>2, <2>1, Types DEF RequestCancel, EventKinds
  <2>5. cancelling' \in [Cancellers -> Runs \cup {None}]
    BY <1>2 DEF RequestCancel, TypeInv, TypeOK
  <2> QED  BY <1>2, <2>3, <2>4, <2>5 DEF RequestCancel, TypeInv, TypeOK, HasAsk, broker, counts
<1> QED  BY <1>1, <1>2 DEF CancellerStep

\* A step of an app-server changes its own state and appends to its pipe.
LEMMA SaidType ==
  ASSUME TypeInv, NEW r \in Runs, NEW c \in Codexes, NEW msgs \in Seq(Messages),
         codex' = [codex EXCEPT ![r] = c], Say(r, msgs),
         UNCHANGED <<db, log, run, broker, cancelling, answered, counts>>
  PROVE  TypeInv'
<1>1. pipe[r] \o msgs \in Seq(Messages)
  BY Types, ConcatProperties
<1> QED  BY <1>1, Types DEF Say, TypeInv, TypeOK, HasAsk, broker, counts

LEMMA SilentType ==
  ASSUME TypeInv, NEW r \in Runs, NEW c \in Codexes,
         codex' = [codex EXCEPT ![r] = c],
         UNCHANGED <<db, log, run, pipe, broker, cancelling, answered, counts>>
  PROVE  TypeInv'
BY Types DEF TypeInv, TypeOK, HasAsk, broker, counts

LEMMA MessageTypes ==
  /\ \A m \in Messages : <<m>> \in Seq(Messages)
  /\ \A m, n \in Messages : <<m, n>> \in Seq(Messages)
  /\ [type |-> "ok"] \in Messages /\ [type |-> "error"] \in Messages
  /\ [type |-> "note"] \in Messages
  /\ \A o \in Outcomes : Done(o) \in Messages
  /\ \A a \in Asks : [type |-> "ask", ask |-> a] \in Messages
BY DEF Messages, Replies, Notifications, Done

LEMMA CodexAnswersType ==
  ASSUME TypeInv, NEW r \in Runs, CodexAnswers(r)
  PROVE  TypeInv'
<1>1. CASE CodexBegin(r)
  <2> DEFINE c == [codex[r] EXCEPT !.turn = "active"]
  <2>1. c \in Codexes /\ codex' = [codex EXCEPT ![r] = c]
    BY <1>1, Types DEF CodexBegin, Codexes
  <2> HIDE DEF c
  <2> QED  BY <1>1, <2>1, SilentType DEF CodexBegin
<1>2. CASE CodexRefuse(r)
  <2> DEFINE c == [codex[r] EXCEPT !.turn = "over", !.owes = "nothing"]
  <2>1. c \in Codexes /\ codex' = [codex EXCEPT ![r] = c]
    BY <1>2, Types DEF CodexRefuse, Codexes
  <2> HIDE DEF c
  <2> QED  BY <1>2, <2>1, SaidType, MessageTypes DEF CodexRefuse
<1>3. CASE CodexReply(r)
  <2> DEFINE c == [codex[r] EXCEPT !.owes = "nothing"]
  <2>1. c \in Codexes /\ codex' = [codex EXCEPT ![r] = c]
    BY <1>3, Types DEF CodexReply, Codexes
  <2> HIDE DEF c
  <2> QED  BY <1>3, <2>1, SaidType, MessageTypes DEF CodexReply
<1>4. CASE CodexTooLate(r)
  <2> DEFINE c == [codex[r] EXCEPT !.owes = "nothing"]
  <2>1. c \in Codexes /\ codex' = [codex EXCEPT ![r] = c]
    BY <1>4, Types DEF CodexTooLate, Codexes
  <2>2. PICK m \in Replies : Say(r, <<m>>)
    BY <1>4 DEF CodexTooLate
  <2>3. <<m>> \in Seq(Messages)
    BY MessageTypes DEF Messages
  <2> HIDE DEF c
  <2> QED  BY <1>4, <2>1, <2>2, <2>3, SaidType DEF CodexTooLate
<1> QED  BY <1>1, <1>2, <1>3, <1>4 DEF CodexAnswers

LEMMA CodexEndsType ==
  ASSUME TypeInv, NEW r \in Runs, CodexEnds(r)
  PROVE  TypeInv'
<1>1. CASE CodexInterrupt(r)
  <2> DEFINE c == [codex[r] EXCEPT !.turn = "over", !.ask = None,
                     !.owes = IF @ = "interrupt" THEN "nothing" ELSE @]
  <2>1. c \in Codexes /\ codex' = [codex EXCEPT ![r] = c]
    BY <1>1, Types, ZenonT(60) DEF CodexInterrupt, Codexes
  <2>2. PICK msgs \in {<<[type |-> "ok"], Done("interrupted")>>,
                       <<Done("interrupted"), [type |-> "ok"]>>,
                       <<Done("interrupted")>>} : Say(r, msgs)
    BY <1>1 DEF CodexInterrupt
  <2>3. msgs \in Seq(Messages)
    BY MessageTypes DEF Outcomes
  <2> HIDE DEF c
  <2> QED  BY <1>1, <2>1, <2>2, <2>3, SaidType DEF CodexInterrupt
<1>2. CASE \E o \in Outcomes \ {"interrupted"} : CodexFinish(r, o)
  <2>1. PICK o \in Outcomes : CodexFinish(r, o)
    BY <1>2
  <2> DEFINE c == [codex[r] EXCEPT !.turn = "over"]
  <2>2. c \in Codexes /\ codex' = [codex EXCEPT ![r] = c]
    BY <2>1, Types DEF CodexFinish, Codexes
  <2> HIDE DEF c
  <2> QED  BY <2>1, <2>2, SaidType, MessageTypes DEF CodexFinish
<1> QED  BY <1>1, <1>2 DEF CodexEnds

LEMMA CodexType ==
  ASSUME TypeInv, NEW r \in Runs, CodexStep(r)
  PROVE  TypeInv'
<1>1. CASE CodexExit(r)
  <2> DEFINE c == [codex[r] EXCEPT !.alive = FALSE]
  <2>1. c \in Codexes /\ codex' = [codex EXCEPT ![r] = c]
    BY <1>1, Types DEF CodexExit, Codexes
  <2> HIDE DEF c
  <2> QED  BY <1>1, <2>1, SilentType DEF CodexExit
<1>2. CASE CodexNote(r)
  <2> DEFINE c == [codex[r] EXCEPT !.notes = @ + 1]
  <2>1. codex[r].notes + 1 \in 0..MaxNotes
    BY <1>2, Types DEF CodexNote, Codexes
  <2>2. c \in Codexes /\ codex' = [codex EXCEPT ![r] = c]
    BY <1>2, <2>1, Types DEF CodexNote, Codexes
  <2> HIDE DEF c
  <2> QED  BY <1>2, <2>2, SaidType, MessageTypes DEF CodexNote
<1>3. ASSUME NEW kind \in Kinds, CodexAsk(r, kind)
      PROVE  TypeInv'
  <2> DEFINE a == [run |-> r, n |-> codex[r].asks + 1, kind |-> kind]
             c == [codex[r] EXCEPT !.asks = @ + 1, !.ask = a]
  <2>1. codex[r].asks + 1 \in 1..MaxAsks /\ codex[r].asks + 1 \in 0..MaxAsks
    BY <1>3, Types DEF CodexAsk, Codexes
  <2>2. a \in Asks
    BY <2>1 DEF Asks
  <2>3. codex' = [codex EXCEPT ![r] = c] /\ Say(r, <<[type |-> "ask", ask |-> a]>>)
    BY <1>3 DEF CodexAsk
  <2>5. UNCHANGED <<db, log, run, broker, cancelling, answered, counts>>
    BY <1>3 DEF CodexAsk
  <2> HIDE DEF a
  <2>4. c \in Codexes
    BY <2>1, <2>2, Types DEF Codexes
  <2> HIDE DEF c
  <2> QED  BY <2>2, <2>3, <2>4, <2>5, SaidType, MessageTypes
<1> QED  BY <1>1, <1>2, <1>3, CodexAnswersType, CodexEndsType DEF CodexStep

LEMMA CrashType ==
  ASSUME TypeInv, Crash
  PROVE  TypeInv'
<1> DEFINE t(r) == [Idle EXCEPT !.pc = "lost", !.late = run[r].late]
<1>1. Idle \in Threads /\ NoCodex \in Codexes
  BY DEF Idle, NoCodex, Threads, Codexes, Places, Terminal
<1>2. \A r \in Runs : run[r].late \in Nat
  BY Types DEF Threads
<1>3. \A r \in Runs : t(r) \in Threads /\ t(r).pc = "lost"
  BY <1>1, <1>2 DEF Threads, Places
<1>4. run' = [r \in Runs |-> IF run[r].pc \in {"none", "done"} THEN run[r] ELSE t(r)]
  BY DEF Crash
<1> HIDE DEF t
<1>5. run' \in [Runs -> Threads] /\ HasAsk'
  BY <1>3, <1>4, Types DEF HasAsk
<1>6. codex' \in [Runs -> Codexes]
  BY <1>1 DEF Crash
<1>7. pipe' \in [Runs -> Seq(Messages)]
  <2>1. pipe' = [r \in Runs |-> <<>>]
    BY DEF Crash
  <2> QED  BY <2>1
<1>8. UNCHANGED <<db, log, told, cancelling, answered, cancels>>
      /\ open' = {} /\ sending' = None /\ crashes' = crashes + 1
  BY DEF Crash
<1> QED  BY <1>5, <1>6, <1>7, <1>8 DEF TypeInv, TypeOK

LEMMA TypeStep == TypeInv /\ [Next]_vars => TypeInv'
<1> SUFFICES ASSUME TypeInv, [Next]_vars PROVE TypeInv'
  OBVIOUS
<1>1. ASSUME NEW r \in Runs, ThreadStep(r) PROVE TypeInv'
  BY <1>1, StartType, StartFailsType, CheckType, TakeReplyType, KeepNotificationType,
     TakePendingType, TakeNotificationType, TakeEndType, TakeAskType, ReceiveType,
     ApprovalTimeoutType, AnswerType, SaveStatusType, RecordEndType DEF ThreadStep
<1>2. CASE ServerStep
  BY <1>2, InsertRunType, InsertControlsType, ResolveType, SendAnswerType DEF ServerStep
<1>3. CASE UNCHANGED vars
  BY <1>3 DEF vars, TypeInv, TypeOK, HasAsk, broker, counts
<1> QED
  BY <1>1, <1>2, <1>3, CodexType, CancellerType, CrashType DEF Next

\* Every variable keeps its type, whatever the runs, clients, cancellers and
\* app-servers do (tasks.rs, approvals.rs).
THEOREM TypeCorrect == Spec => []TypeOK
<1>1. Spec => []TypeInv
  BY TypeInit, TypeStep, PTL DEF Spec
<1> QED  BY <1>1, PTL DEF TypeInv

-----------------------------------------------------------------------------
(* Answers.  A request has a past once somebody decided about it.  Requests *)
(* in a pipe have none, and the app-server numbers them so that a new one   *)
(* never has; the request that a thread waits for is in no pipe, and what   *)
(* its channel holds is what a client was told.                             *)

Waits(r) == run[r].pc \in {"asking", "answering"}
Early == {"none", "creating", "prepared"}

Past(a) ==
  \/ \E x \in answered : x.ask = a
  \/ \E t \in told : t.ask = a
  \/ sending # None /\ sending.ask = a

Confirmed(t) == t.ask.kind = "delete" /\ t.decision = "accept" => t.confirmed

FreshAt(r) ==
  /\ codex[r].alive => run[r].pc \notin Early \cup {"done", "lost"}
  /\ \A a \in Asks : a.run = r /\ Past(a) =>
       /\ run[r].pc \notin Early
       /\ codex[r].alive => a.n <= codex[r].asks

IsNew(r, a) ==
  /\ a.run = r /\ a.n <= codex[r].asks
  /\ a \notin open /\ ~Past(a)
  /\ Waits(r) => run[r].ask # a

PipedAt(r) ==
  \A i \in DOMAIN pipe[r] : pipe[r][i].type = "ask" =>
    /\ IsNew(r, pipe[r][i].ask)
    /\ \A j \in DOMAIN pipe[r] :
         pipe[r][j].type = "ask" /\ pipe[r][j].ask = pipe[r][i].ask => i = j

IsTold(a, d) == \E t \in told : t.ask = a /\ t.decision = d

CurrentAt(r) ==
  Waits(r) =>
    /\ run[r].ask.run = r /\ run[r].ask.n <= codex[r].asks
    /\ \A x \in answered : x.ask # run[r].ask
    /\ run[r].chan # None => IsTold(run[r].ask, run[r].chan)
    /\ run[r].pc = "answering" =>
         run[r].got = Default(run[r].ask.kind) \/ IsTold(run[r].ask, run[r].got)

Undecided ==
  /\ \A t \in told : Confirmed(t) /\ t.ask \notin open
  /\ sending # None =>
       Confirmed(sending) /\ sending.ask \notin open /\ \A t \in told : t.ask # sending.ask

AnswerInv ==
  /\ AnswersAreDecisions /\ OpenIsAwaited /\ Undecided
  /\ \A r \in Runs : FreshAt(r) /\ PipedAt(r) /\ CurrentAt(r)

LEMMA AnswerInit == Init => AnswerInv
BY DEF Init, AnswerInv, AnswersAreDecisions, OpenIsAwaited, Undecided, FreshAt, PipedAt,
       CurrentAt, Waits, Past, Idle, NoCodex

\* Nothing that AnswerInv says of run r changes.
LEMMA SameRun ==
  ASSUME NEW r \in Runs, UNCHANGED <<broker, answered>>,
         run'[r] = run[r], codex'[r] = codex[r], pipe'[r] = pipe[r],
         FreshAt(r), PipedAt(r), CurrentAt(r)
  PROVE  FreshAt(r)' /\ PipedAt(r)' /\ CurrentAt(r)'
BY DEF broker, FreshAt, PipedAt, IsNew, CurrentAt, Waits, Past, IsTold

\* What is left of a pipe after its first message keeps its requests.
LEMMA PipedTail ==
  ASSUME TypeInv, NEW r \in Runs, PipedAt(r), pipe[r] # <<>>,
         pipe'[r] = Tail(pipe[r]),
         \A a : (\E i \in DOMAIN pipe[r] :
                  i # 1 /\ pipe[r][i].type = "ask" /\ pipe[r][i].ask = a) => IsNew(r, a)'
  PROVE  PipedAt(r)'
<1>1. pipe[r] \in Seq(Messages)
  BY Types
<1>2. \A i \in DOMAIN pipe'[r] :
        /\ i \in Nat \ {0} /\ i + 1 \in DOMAIN pipe[r]
        /\ pipe'[r][i] = pipe[r][i + 1]
  BY <1>1, HeadTailProperties
<1>3. ASSUME NEW i \in DOMAIN pipe'[r], pipe'[r][i].type = "ask",
             NEW a, a = pipe'[r][i].ask
      PROVE  IsNew(r, a)'
  <2>1. i + 1 # 1 /\ pipe[r][i + 1].type = "ask" /\ pipe[r][i + 1].ask = a
    BY <1>2, <1>3
  <2> QED  BY <1>2, <2>1
<1>5. \A i \in DOMAIN pipe'[r] : pipe'[r][i].type = "ask" => IsNew(r, pipe[r][i].ask)'
  BY <1>3 DEF IsNew, Past, Waits
<1>4. ASSUME NEW i \in DOMAIN pipe'[r], NEW j \in DOMAIN pipe'[r],
             pipe'[r][i].type = "ask", pipe'[r][j].type = "ask",
             pipe'[r][i].ask = pipe'[r][j].ask
      PROVE  i = j
  <2>1. i + 1 = j + 1
    BY <1>2, <1>4 DEF PipedAt
  <2> QED  BY <1>2, <2>1
<1> QED  BY <1>4, <1>5 DEF PipedAt

\* A run's thread moves without the broker, and may take a message.
LEMMA QuietStep ==
  ASSUME TypeInv, AnswerInv, NEW r \in Runs,
         UNCHANGED <<broker, answered>>,
         \A q \in Runs \ {r} :
           run'[q] = run[q] /\ codex'[q] = codex[q] /\ pipe'[q] = pipe[q],
         run[r].pc \notin {"asking", "answering"},
         run'[r].pc \notin {"asking", "answering"},
         run'[r].pc \in Early => run[r].pc \in Early,
         codex'[r].alive =>
           /\ run'[r].pc \notin Early \cup {"done", "lost"}
           /\ codex'[r].asks = codex[r].asks
           /\ codex[r].alive \/ run[r].pc \in Early,
         \/ pipe'[r] = <<>>
         \/ /\ codex'[r].asks = codex[r].asks
            /\ pipe'[r] = pipe[r] \/ (pipe[r] # <<>> /\ pipe'[r] = Tail(pipe[r]))
  PROVE  AnswerInv'
<1>1. \A q \in Runs \ {r} : FreshAt(q)' /\ PipedAt(q)' /\ CurrentAt(q)'
  BY SameRun DEF AnswerInv
<1>2. \A a \in Asks : Past(a)' <=> Past(a)
  BY DEF Past, broker
<1>3. FreshAt(r)'
  BY <1>2 DEF AnswerInv, FreshAt
<1>4. CurrentAt(r)'
  BY DEF CurrentAt, Waits
<1>5. PipedAt(r)'
  <2>1. CASE pipe'[r] = <<>>
    BY <2>1 DEF PipedAt
  <2>2. CASE codex'[r].asks = codex[r].asks
    <3>1. \A a : IsNew(r, a) => IsNew(r, a)'
      BY <2>2 DEF IsNew, Past, Waits, broker
    <3>2. CASE pipe'[r] = pipe[r]
      BY <3>1, <3>2 DEF AnswerInv, PipedAt
    <3>3. CASE pipe[r] # <<>> /\ pipe'[r] = Tail(pipe[r])
      <4>1. \A a : (\E i \in DOMAIN pipe[r] :
                      i # 1 /\ pipe[r][i].type = "ask" /\ pipe[r][i].ask = a) => IsNew(r, a)'
        BY <3>1 DEF AnswerInv, PipedAt
      <4> QED  BY <3>3, <4>1, PipedTail DEF AnswerInv
    <3>4. CASE pipe'[r] = <<>>
      BY <3>4 DEF PipedAt
    <3> QED  BY <3>2, <3>3, <3>4
  <2> QED  BY <2>1, <2>2
<1>6. AnswersAreDecisions' /\ Undecided'
  BY DEF AnswerInv, AnswersAreDecisions, Undecided, Confirmed, broker
<1>7. OpenIsAwaited'
  <2> SUFFICES ASSUME NEW a \in open
               PROVE  /\ run'[a.run].pc \in {"asking", "answering"} /\ run'[a.run].ask = a
                      /\ \A x \in answered : x.ask # a
    BY DEF OpenIsAwaited, broker
  <2>1. a.run \in Runs
    BY DEF TypeInv, TypeOK, Asks
  <2> QED  BY <2>1 DEF AnswerInv, OpenIsAwaited
<1> QED  BY <1>1, <1>3, <1>4, <1>5, <1>6, <1>7 DEF AnswerInv

LEMMA BeginAnswers ==
  ASSUME TypeInv, AnswerInv, NEW r \in Runs,
         InsertRun(r) \/ InsertControls(r) \/ Start(r) \/ StartFails(r)
  PROVE  AnswerInv'
<1>1. ~codex[r].alive \/ run[r].pc \notin Early
  BY DEF AnswerInv, FreshAt
<1>2. CASE InsertRun(r) \/ InsertControls(r) \/ StartFails(r)
  <2>1. /\ run[r].pc \in Early /\ run'[r].pc \in {"creating", "prepared", "lost"}
        /\ \A q \in Runs \ {r} : run'[q] = run[q]
        /\ UNCHANGED <<broker, answered, codex, pipe>>
    BY <1>2, Types DEF InsertRun, InsertControls, StartFails, GoTo, At, Early, Threads
  <2> QED  BY <1>1, <2>1, QuietStep DEF Early
<1>3. CASE Start(r)
  <2>1. /\ run[r].pc = "prepared" /\ run'[r].pc = "waiting"
        /\ \A q \in Runs \ {r} : run'[q] = run[q] /\ codex'[q] = codex[q]
        /\ codex'[r].asks = codex[r].asks
        /\ UNCHANGED <<broker, answered, pipe>>
    BY <1>3, Types DEF Start, GoTo, At, Threads, Codexes
  <2> QED  BY <2>1, QuietStep DEF Early
<1> QED  BY <1>2, <1>3

LEMMA CheckAnswers ==
  ASSUME TypeInv, AnswerInv, NEW r \in Runs, Check(r)
  PROVE  AnswerInv'
<1>1. /\ run[r].pc = "checking" /\ run'[r].pc \in {"waiting", "finishing", "reading"}
      /\ \A q \in Runs \ {r} : run'[q] = run[q]
  BY Types DEF Check, GoTo, Leave, At, Threads
<1>2. /\ codex'[r].asks = codex[r].asks /\ (codex'[r].alive => codex[r].alive)
      /\ \A q \in Runs \ {r} : codex'[q] = codex[q]
  <2> DEFINE c == [codex[r] EXCEPT !.owes = "interrupt"]
  <2>1. c.asks = codex[r].asks /\ c.alive = codex[r].alive
    BY Types DEF Codexes
  <2>2. codex' = [codex EXCEPT ![r] = c] \/ codex' = codex
    BY Types DEF Check
  <2> HIDE DEF c
  <2> QED  BY <2>1, <2>2, Types
<1>3. UNCHANGED <<broker, answered, pipe>>
  BY DEF Check
<1> QED  BY <1>1, <1>2, <1>3, QuietStep DEF Early

\* The steps that take what the app-server said, except for a request.
LEMMA TakeAnswers ==
  ASSUME TypeInv, AnswerInv, NEW r \in Runs,
         \/ TakeReply(r) \/ KeepNotification(r)
         \/ TakePending(r) \/ TakeNotification(r) \/ TakeEnd(r)
  PROVE  AnswerInv'
<1>1. /\ run[r].pc \in {"waiting", "reading"}
      /\ run'[r].pc \in {"waiting", "reading", "checking", "finishing"}
      /\ \A q \in Runs \ {r} : run'[q] = run[q]
  <2>1. CASE TakeReply(r)
    BY <2>1, Types DEF TakeReply, GoTo, Leave, At, Threads
  <2>2. CASE KeepNotification(r)
    BY <2>2, Types DEF KeepNotification, At, Threads
  <2>3. CASE TakeEnd(r)
    BY <2>3, Types DEF TakeEnd, Leave, Threads
  <2>4. CASE TakePending(r) \/ TakeNotification(r)
    <3>1. PICK t \in Threads, msg \in Notifications : Handle(r, msg, t)
      <4> DEFINE t == [run[r] EXCEPT !.pending = Tail(@)]
      <4>1. CASE TakePending(r)
        <5>1. /\ Head(run[r].pending) \in Notifications
              /\ Tail(run[r].pending) \in Seq(Notifications)
          BY <4>1, Types, HeadTailProperties DEF TakePending
        <5>2. t \in Threads
          BY ZenonT(30), <5>1, Types DEF Threads
        <5> QED  BY <4>1, <5>1, <5>2 DEF TakePending
      <4>2. CASE TakeNotification(r)
        BY <4>2, Types DEF TakeNotification
      <4> QED  BY <2>4, <4>1, <4>2
    <3>2. run'[r].pc \in {"checking", "finishing"}
          /\ \A q \in Runs \ {r} : run'[q] = run[q]
      BY <3>1, Types DEF Handle, Threads
    <3> QED  BY <2>4, <3>2 DEF TakePending, TakeNotification, At
  <2> QED  BY <2>1, <2>2, <2>3, <2>4
<1>2. /\ UNCHANGED <<broker, answered, codex>>
      /\ \/ UNCHANGED pipe
         \/ pipe[r] # <<>> /\ pipe' = [pipe EXCEPT ![r] = Tail(@)]
  BY DEF TakeReply, KeepNotification, TakePending, TakeNotification, TakeEnd
<1>3. pipe'[r] = pipe[r] \/ (pipe[r] # <<>> /\ pipe'[r] = Tail(pipe[r]))
  BY <1>2, Types
<1>4. \A q \in Runs \ {r} : pipe'[q] = pipe[q]
  BY <1>2, Types
<1> QED  BY <1>1, <1>2, <1>3, <1>4, QuietStep DEF AnswerInv, FreshAt, Early

LEMMA EndAnswers ==
  ASSUME TypeInv, AnswerInv, NEW r \in Runs, SaveStatus(r) \/ RecordEnd(r)
  PROVE  AnswerInv'
<1>1. CASE SaveStatus(r)
  <2>1. /\ run[r].pc = "finishing" /\ run'[r].pc = "ending"
        /\ \A q \in Runs \ {r} : run'[q] = run[q]
        /\ UNCHANGED <<broker, answered, codex, pipe>>
    BY <1>1, Types DEF SaveStatus, GoTo, At, Threads
  <2> QED  BY <2>1, QuietStep DEF Early
<1>2. CASE RecordEnd(r)
  <2>1. run[r].pc = "ending" /\ UNCHANGED <<broker, answered>>
    BY <1>2 DEF RecordEnd, At
  <2>2. run'[r].pc = "done" /\ \A q \in Runs \ {r} : run'[q] = run[q]
    BY <1>2, Types DEF RecordEnd, Idle
  <2>3. /\ pipe'[r] = <<>> /\ ~codex'[r].alive
        /\ \A q \in Runs \ {r} : pipe'[q] = pipe[q] /\ codex'[q] = codex[q]
    BY <1>2, Types DEF RecordEnd, NoCodex
  <2> QED  BY <2>1, <2>2, <2>3, QuietStep DEF Early
<1> QED  BY <1>1, <1>2

LEMMA TakeAskAnswers ==
  ASSUME TypeInv, AnswerInv, NEW r \in Runs, TakeAsk(r)
  PROVE  AnswerInv'
<1> DEFINE a == Head(pipe[r]).ask
<1>1. /\ pipe[r] # <<>> /\ pipe[r] \in Seq(Messages) /\ 1 \in DOMAIN pipe[r]
      /\ pipe[r][1].type = "ask" /\ pipe[r][1].ask = a
  <2>1. pipe[r] \in Seq(Messages) /\ pipe[r] # <<>>
    BY Types DEF TakeAsk
  <2>2. 1 \in DOMAIN pipe[r] /\ Head(pipe[r]) = pipe[r][1]
    BY <2>1
  <2> QED  BY <2>1, <2>2 DEF TakeAsk
<1>2. a \in Asks
  BY <1>1, Popped, AskMessage DEF TakeAsk
<1>3. IsNew(r, a)
  BY <1>1 DEF AnswerInv, PipedAt
<1>4. ~Waits(r)
  BY DEF TakeAsk, Waits
<1>5. /\ open' = open \cup {a} /\ UNCHANGED <<sending, told, answered, codex>>
      /\ pipe'[r] = Tail(pipe[r]) /\ \A q \in Runs \ {r} : pipe'[q] = pipe[q]
  BY Types DEF TakeAsk
<1>6. /\ run'[r].pc = "asking" /\ run'[r].ask = a /\ run'[r].chan = None
      /\ \A q \in Runs \ {r} : run'[q] = run[q]
  BY Types DEF TakeAsk, Threads
<1>7. \A b \in Asks : Past(b)' <=> Past(b)
  BY <1>5 DEF Past
<1> HIDE DEF a
<1>8. \A q \in Runs : FreshAt(q)'
  <2>1. run[r].pc \notin Early /\ run'[r].pc \notin Early \cup {"done", "lost"}
    BY <1>6 DEF TakeAsk, Early
  <2> QED  BY <1>5, <1>6, <1>7, <2>1 DEF AnswerInv, FreshAt
<1>9. CurrentAt(r)' /\ \A q \in Runs \ {r} : CurrentAt(q)'
  BY <1>3, <1>5, <1>6 DEF AnswerInv, CurrentAt, Waits, IsTold, IsNew, Past
<1>10. PipedAt(r)'
  <2>1. ASSUME NEW b, NEW i \in DOMAIN pipe[r], i # 1,
               pipe[r][i].type = "ask", pipe[r][i].ask = b
        PROVE  IsNew(r, b)'
    <3>1. IsNew(r, b) /\ b # a
      BY <1>1, <2>1 DEF AnswerInv, PipedAt
    <3> QED  BY <1>5, <1>6, <3>1 DEF IsNew, Past, Waits
  <2> QED  BY <1>1, <1>5, <2>1, PipedTail DEF AnswerInv
<1>11. ASSUME NEW q \in Runs \ {r} PROVE PipedAt(q)'
  <2>1. \A b : IsNew(q, b) => IsNew(q, b)'
    BY <1>3, <1>5, <1>6 DEF IsNew, Past, Waits
  <2> QED  BY <1>5, <2>1 DEF AnswerInv, PipedAt
<1>12. AnswersAreDecisions' /\ Undecided'
  BY <1>3, <1>5 DEF AnswerInv, AnswersAreDecisions, Undecided, Confirmed, IsNew, Past
<1>13. OpenIsAwaited'
  <2>1. \A b \in open : b.run \in Runs \ {r}
    BY <1>4 DEF AnswerInv, OpenIsAwaited, Waits, TypeInv, TypeOK, Asks
  <2>2. a.run = r /\ \A x \in answered : x.ask # a
    BY <1>3 DEF IsNew, Past
  <2> QED  BY <1>5, <1>6, <2>1, <2>2 DEF AnswerInv, OpenIsAwaited
<1> QED  BY <1>8, <1>9, <1>10, <1>11, <1>12, <1>13 DEF AnswerInv

\* A thread goes from asking to answering with what it was sent or, late, with
\* the default.
LEMMA GotAnswers ==
  ASSUME TypeInv, AnswerInv, NEW r \in Runs, Receive(r) \/ ApprovalTimeout(r)
  PROVE  AnswerInv'
<1>1. UNCHANGED <<broker, answered, codex, pipe>>
  BY DEF Receive, ApprovalTimeout
<1>2. /\ run[r].pc = "asking" /\ run'[r].pc = "answering"
      /\ run'[r].ask = run[r].ask /\ run'[r].chan = run[r].chan
      /\ \A q \in Runs \ {r} : run'[q] = run[q]
  <2>1. CASE Receive(r)
    BY <2>1, Types DEF Receive, At, Threads
  <2>2. CASE ApprovalTimeout(r)
    <3>1. PICK d : run' = [run EXCEPT ![r].pc = "answering", ![r].got = d]
      BY <2>2 DEF ApprovalTimeout
    <3> QED  BY <2>2, <3>1, Types DEF ApprovalTimeout, At, Threads
  <2> QED  BY <2>1, <2>2
<1>3. \/ run[r].chan # None /\ run'[r].got = run[r].chan
      \/ run'[r].got = Default(run[r].ask.kind)
  BY Types DEF Receive, ApprovalTimeout, Threads
<1>4. \A q \in Runs \ {r} : FreshAt(q)' /\ PipedAt(q)' /\ CurrentAt(q)'
  BY <1>1, <1>2, SameRun DEF AnswerInv
<1>5. FreshAt(r)'
  BY <1>1, <1>2 DEF AnswerInv, FreshAt, Past, Early, broker
<1>6. PipedAt(r)'
  BY <1>1, <1>2 DEF AnswerInv, PipedAt, IsNew, Past, Waits, broker
<1>7. CurrentAt(r)'
  BY <1>1, <1>2, <1>3 DEF AnswerInv, CurrentAt, Waits, IsTold, broker
<1>8. AnswersAreDecisions' /\ Undecided'
  BY <1>1 DEF AnswerInv, AnswersAreDecisions, Undecided, Confirmed, broker
<1>9. OpenIsAwaited'
  BY <1>1, <1>2 DEF AnswerInv, OpenIsAwaited, broker, TypeInv, TypeOK, Asks
<1> QED  BY <1>4, <1>5, <1>6, <1>7, <1>8, <1>9 DEF AnswerInv

LEMMA AnswerAnswers ==
  ASSUME TypeInv, AnswerInv, NEW r \in Runs, Answer(r)
  PROVE  AnswerInv'
<1> DEFINE a == run[r].ask
           d == run[r].got
<1>1. /\ open' = open \ {a} /\ UNCHANGED <<pipe, sending, told>>
      /\ answered' = answered \cup {[ask |-> a, decision |-> d]}
  BY DEF Answer
<1>2. run[r].pc = "answering" /\ a \in Asks /\ d \in AllDecisions
  BY DEF Answer, At, TypeInv, HasAsk
<1>3. /\ run'[r].pc \in {"waiting", "reading", "finishing"}
      /\ \A q \in Runs \ {r} : run'[q] = run[q]
  BY Types DEF Answer, Respond, Leave, Threads
<1>4. /\ \A q \in Runs \ {r} : codex'[q] = codex[q]
      /\ codex'[r].asks = codex[r].asks /\ (codex'[r].alive => codex[r].alive)
  <2> DEFINE b == d = "cancel" /\ a.kind # "input" /\ codex[r].ask = a
             c == [codex[r] EXCEPT !.ask = None, !.told = @ \/ b]
  <2>1. codex' = [codex EXCEPT ![r] = c] \/ codex' = codex
    BY Types DEF Answer, Respond
  <2> HIDE DEF b
  <2>2. c.asks = codex[r].asks /\ c.alive = codex[r].alive
    BY Types DEF Codexes
  <2> HIDE DEF c
  <2> QED  BY <2>1, <2>2, Types
<1>5. /\ a.run = r /\ a.n <= codex[r].asks /\ \A x \in answered : x.ask # a
      /\ d = Default(a.kind) \/ IsTold(a, d)
  BY <1>2 DEF AnswerInv, CurrentAt, Waits
<1> HIDE DEF a, d
<1>6. \A b \in Asks : Past(b)' <=> Past(b) \/ b = a
  <2> DEFINE y == [ask |-> a, decision |-> d]
  <2>1. y.ask = a /\ answered' = answered \cup {y}
    BY <1>1
  <2> HIDE DEF y
  <2> QED  BY <1>1, <2>1 DEF Past
<1>7. ASSUME NEW q \in Runs PROVE FreshAt(q)'
  <2>1. run'[r].pc \notin Early \cup {"done", "lost"} /\ run[r].pc \notin Early
    BY <1>2, <1>3 DEF Early
  <2> QED  BY <1>3, <1>4, <1>5, <1>6, <2>1 DEF AnswerInv, FreshAt
<1>8. ASSUME NEW q \in Runs PROVE PipedAt(q)'
  <2>1. ASSUME NEW b, IsNew(q, b), b # a PROVE IsNew(q, b)'
    BY <1>1, <1>3, <1>4, <2>1 DEF IsNew, Past, Waits
  <2>2. ASSUME NEW b, IsNew(q, b) PROVE b # a
    BY <1>2, <1>5, <2>2 DEF IsNew, Waits, a
  <2> QED  BY <1>1, <2>1, <2>2 DEF AnswerInv, PipedAt
<1>9. ASSUME NEW q \in Runs PROVE CurrentAt(q)'
  BY <1>1, <1>3, <1>4, <1>5 DEF AnswerInv, CurrentAt, Waits, IsTold
<1>10. AnswersAreDecisions'
  <2> DEFINE y == [ask |-> a, decision |-> d]
  <2>1. d = Default(a.kind) \/ \E t \in told :
          t.ask = a /\ t.decision = d /\ (a.kind = "delete" /\ d = "accept" => t.confirmed)
    BY <1>5 DEF IsTold, AnswerInv, Undecided, Confirmed
  <2>2. \A x \in answered' : x = y \/ (x \in answered /\ x.ask # a)
    BY <1>1, <1>5
  <2>3. y.ask = a /\ y.decision = d
    OBVIOUS
  <2> HIDE DEF y
  <2> QED  BY <1>1, <2>1, <2>2, <2>3 DEF AnswerInv, AnswersAreDecisions
<1>11. Undecided'
  BY <1>1 DEF AnswerInv, Undecided, Confirmed
<1>12. OpenIsAwaited'
  <2>1. \A b \in open' : b.run \in Runs \ {r}
    BY <1>1 DEF AnswerInv, OpenIsAwaited, TypeInv, TypeOK, Asks, a
  <2> QED  BY <1>1, <1>3, <2>1 DEF AnswerInv, OpenIsAwaited
<1> QED  BY <1>7, <1>8, <1>9, <1>10, <1>11, <1>12 DEF AnswerInv

LEMMA ResolveAnswers ==
  ASSUME TypeInv, AnswerInv, NEW a \in open, NEW d, NEW confirmed,
         Resolve(a, d, confirmed)
  PROVE  AnswerInv'
<1> DEFINE t == [ask |-> a, decision |-> d, confirmed |-> confirmed]
<1>1. /\ sending = None /\ open' = open \ {a} /\ sending' = t
      /\ UNCHANGED <<run, codex, pipe, told, answered>>
  BY DEF Resolve, ServerIsFree
<1>2. t.ask = a /\ Confirmed(t)
  BY DEF Resolve, Confirmed
<1> HIDE DEF t
<1>3. /\ a \in Asks /\ a.run \in Runs
      /\ run[a.run].ask = a /\ Waits(a.run) /\ \A x \in told : x.ask # a
  BY DEF AnswerInv, OpenIsAwaited, Undecided, Waits, TypeInv, TypeOK, Asks
<1>4. \A b \in Asks : Past(b)' => Past(b) \/ b = a
  BY <1>1, <1>2 DEF Past
<1>5. ASSUME NEW q \in Runs PROVE FreshAt(q)'
  <2>1. a.n <= codex[a.run].asks /\ run[a.run].pc \notin Early
    BY <1>3 DEF AnswerInv, CurrentAt, Waits, Early
  <2> QED  BY <1>1, <1>4, <2>1 DEF AnswerInv, FreshAt
<1>6. ASSUME NEW q \in Runs PROVE PipedAt(q)'
  <2>1. ASSUME NEW b, IsNew(q, b) PROVE IsNew(q, b)'
    BY <1>1, <1>2, <2>1 DEF IsNew, Past, Waits
  <2> QED  BY <1>1, <2>1 DEF AnswerInv, PipedAt
<1>7. ASSUME NEW q \in Runs PROVE CurrentAt(q)'
  BY <1>1 DEF AnswerInv, CurrentAt, Waits, IsTold
<1>8. AnswersAreDecisions' /\ OpenIsAwaited'
  BY <1>1 DEF AnswerInv, AnswersAreDecisions, OpenIsAwaited
<1>9. Undecided'
  BY <1>1, <1>2, <1>3 DEF AnswerInv, Undecided, Confirmed
<1> QED  BY <1>5, <1>6, <1>7, <1>8, <1>9 DEF AnswerInv

LEMMA SendAnswers ==
  ASSUME TypeInv, AnswerInv, SendAnswer
  PROVE  AnswerInv'
<1>1. /\ sending # None /\ sending \in Answers /\ sending' = None
      /\ told' = told \cup {sending} /\ UNCHANGED <<codex, pipe, open, answered>>
  BY DEF SendAnswer, TypeInv, TypeOK
<1>2. ASSUME NEW q \in Runs
      PROVE  /\ run'[q].pc = run[q].pc /\ run'[q].ask = run[q].ask
             /\ run'[q].got = run[q].got
             /\ \/ run'[q].chan = run[q].chan
                \/ run[q].ask = sending.ask /\ run'[q].chan = sending.decision
  <2> DEFINE t == [run[q] EXCEPT !.chan = sending.decision]
  <2>1. /\ t.pc = run[q].pc /\ t.ask = run[q].ask /\ t.got = run[q].got
        /\ t.chan = sending.decision
    BY Types DEF Threads
  <2>2. run'[q] = run[q] \/ (run[q].ask = sending.ask /\ run'[q] = t)
    BY DEF SendAnswer
  <2> HIDE DEF t
  <2> QED  BY <2>1, <2>2
<1>3. \A b : Past(b)' <=> Past(b)
  BY <1>1 DEF Past
<1>4. ASSUME NEW q \in Runs PROVE FreshAt(q)'
  BY <1>1, <1>2, <1>3 DEF AnswerInv, FreshAt
<1>5. ASSUME NEW q \in Runs PROVE PipedAt(q)'
  <2>1. ASSUME NEW b, IsNew(q, b) PROVE IsNew(q, b)'
    BY <1>1, <1>2, <1>3, <2>1 DEF IsNew, Waits
  <2> QED  BY <1>1, <2>1 DEF AnswerInv, PipedAt
<1>6. ASSUME NEW q \in Runs PROVE CurrentAt(q)'
  <2>1. \A b, d : IsTold(b, d) => IsTold(b, d)'
    BY <1>1 DEF IsTold
  <2>2. \A b, d : b = sending.ask /\ d = sending.decision => IsTold(b, d)'
    BY <1>1 DEF IsTold
  <2> QED  BY <1>1, <1>2, <2>1, <2>2 DEF AnswerInv, CurrentAt, Waits
<1>7. AnswersAreDecisions'
  BY <1>1 DEF AnswerInv, AnswersAreDecisions, Undecided
<1>8. OpenIsAwaited'
  BY ZenonT(30), <1>1, <1>2 DEF AnswerInv, OpenIsAwaited, TypeInv, TypeOK, Asks
<1>9. Undecided'
  BY <1>1 DEF AnswerInv, Undecided, Confirmed
<1> QED  BY <1>4, <1>5, <1>6, <1>7, <1>8, <1>9 DEF AnswerInv

\* The elements of a pipe to which messages were appended.
LEMMA PipedConcat ==
  ASSUME TypeInv, NEW r \in Runs, NEW msgs \in Seq(Messages), Say(r, msgs)
  PROVE  /\ pipe'[r] = pipe[r] \o msgs
         /\ \A q \in Runs \ {r} : pipe'[q] = pipe[q]
         /\ \A i \in DOMAIN pipe'[r] :
              \/ i \in DOMAIN pipe[r] /\ pipe'[r][i] = pipe[r][i]
              \/ /\ i \notin DOMAIN pipe[r]
                 /\ i - Len(pipe[r]) \in DOMAIN msgs
                 /\ pipe'[r][i] = msgs[i - Len(pipe[r])]
<1>1. pipe[r] \in Seq(Messages) /\ pipe'[r] = pipe[r] \o msgs
      /\ \A q \in Runs \ {r} : pipe'[q] = pipe[q]
  BY Types DEF Say
<1>2. \A i \in DOMAIN (pipe[r] \o msgs) :
        \/ i \in DOMAIN pipe[r] /\ (pipe[r] \o msgs)[i] = pipe[r][i]
        \/ /\ i \notin DOMAIN pipe[r]
           /\ i - Len(pipe[r]) \in DOMAIN msgs
           /\ (pipe[r] \o msgs)[i] = msgs[i - Len(pipe[r])]
  BY <1>1, ConcatProperties
<1> QED  BY <1>1, <1>2

\* An app-server says something that is not a request, or nothing.
LEMMA SaidAnswers ==
  ASSUME TypeInv, AnswerInv, NEW r \in Runs, NEW c \in Codexes, NEW msgs \in Seq(Messages),
         codex' = [codex EXCEPT ![r] = c], Say(r, msgs),
         c.asks = codex[r].asks, c.alive => codex[r].alive,
         \A i \in DOMAIN msgs : msgs[i].type # "ask",
         UNCHANGED <<run, broker, answered>>
  PROVE  AnswerInv'
<1>1. codex'[r] = c /\ \A q \in Runs \ {r} : codex'[q] = codex[q]
  BY Types
<1>2. \A q \in Runs \ {r} : FreshAt(q)' /\ PipedAt(q)' /\ CurrentAt(q)'
  BY <1>1, PipedConcat, SameRun DEF AnswerInv
<1>3. FreshAt(r)' /\ CurrentAt(r)'
  BY <1>1 DEF AnswerInv, FreshAt, CurrentAt, Past, Waits, IsTold, broker
<1>4. PipedAt(r)'
  <2>1. \A b : IsNew(r, b) => IsNew(r, b)'
    BY <1>1 DEF IsNew, Past, Waits, broker
  <2>2. \A i \in DOMAIN pipe'[r] : pipe'[r][i].type = "ask" =>
          i \in DOMAIN pipe[r] /\ pipe'[r][i] = pipe[r][i]
    BY PipedConcat
  <2> QED  BY <2>1, <2>2 DEF AnswerInv, PipedAt
<1>5. AnswersAreDecisions' /\ OpenIsAwaited' /\ Undecided'
  BY DEF AnswerInv, AnswersAreDecisions, OpenIsAwaited, Undecided, Confirmed, broker
<1> QED  BY <1>2, <1>3, <1>4, <1>5 DEF AnswerInv

LEMMA AskAnswers ==
  ASSUME TypeInv, AnswerInv, NEW r \in Runs, NEW kind \in Kinds, CodexAsk(r, kind)
  PROVE  AnswerInv'
<1>0. PICK a, c, m, msgs : /\ a = [run |-> r, n |-> codex[r].asks + 1, kind |-> kind]
                           /\ c = [codex[r] EXCEPT !.asks = @ + 1, !.ask = a]
                           /\ m = [type |-> "ask", ask |-> a] /\ msgs = <<m>>
  OBVIOUS
<1>a. codex[r].alive /\ codex[r].asks \in Nat /\ codex[r].asks < MaxAsks
  BY Types DEF CodexAsk, Working, Codexes
<1>1. /\ codex' = [codex EXCEPT ![r] = c] /\ Say(r, msgs)
      /\ UNCHANGED <<run, broker, answered>>
  BY <1>0 DEF CodexAsk
<1>2. a \in Asks /\ a.run = r /\ a.n = codex[r].asks + 1
  BY <1>0, <1>a DEF Asks
<1>3. m \in Messages /\ m.type = "ask" /\ m.ask = a
  BY <1>0, <1>2 DEF Messages
<1>4. c.asks = codex[r].asks + 1 /\ c.alive = codex[r].alive
  BY <1>0, Types DEF Codexes
<1>5. codex'[r] = c /\ \A q \in Runs \ {r} : codex'[q] = codex[q]
  BY <1>1, Types
<1>6. msgs \in Seq(Messages) /\ DOMAIN msgs = {1} /\ msgs[1] = m
  BY <1>0, <1>3
<1>p. /\ pipe'[r] = pipe[r] \o msgs
      /\ \A q \in Runs \ {r} : pipe'[q] = pipe[q]
      /\ \A i \in DOMAIN pipe'[r] :
           \/ i \in DOMAIN pipe[r] /\ pipe'[r][i] = pipe[r][i]
           \/ /\ i \notin DOMAIN pipe[r]
              /\ i - Len(pipe[r]) \in DOMAIN msgs
              /\ pipe'[r][i] = msgs[i - Len(pipe[r])]
  BY SMTT(30), <1>1, <1>6, PipedConcat
<1>7. \A q \in Runs \ {r} : FreshAt(q)' /\ PipedAt(q)' /\ CurrentAt(q)'
  BY <1>1, <1>5, <1>p, SameRun DEF AnswerInv
<1>8. \A b \in Asks : b.n \in Nat
  BY DEF Asks
<1>9. FreshAt(r)'
  BY <1>a, <1>1, <1>4, <1>5, <1>8 DEF AnswerInv, FreshAt, Past, broker
<1>10. CurrentAt(r)'
  <2>1. Waits(r) => run[r].ask.n \in Nat
    BY <1>8 DEF Waits, TypeInv, HasAsk
  <2> QED  BY <1>a, <1>1, <1>4, <1>5, <2>1 DEF AnswerInv, CurrentAt, Waits, IsTold, broker
<1>11. IsNew(r, a)'
  <2>1. ~Past(a)
    BY <1>a, <1>1, <1>2 DEF AnswerInv, FreshAt
  <2>2. Waits(r) => run[r].ask # a
    BY <1>a, <1>1, <1>2 DEF AnswerInv, CurrentAt
  <2>3. a \notin open
    BY <1>2, <2>2 DEF AnswerInv, OpenIsAwaited, Waits
  <2> QED  BY <1>a, <1>1, <1>2, <1>4, <1>5, <2>1, <2>2, <2>3 DEF IsNew, Past, Waits, broker
<1>12. PipedAt(r)'
  <2>1. ASSUME NEW b \in Asks, IsNew(r, b) PROVE IsNew(r, b)' /\ b # a
    BY <1>a, <1>1, <1>2, <1>4, <1>5, <1>8, <2>1 DEF IsNew, Past, Waits, broker
  <2>2. \A i \in DOMAIN pipe[r] : pipe[r][i].type = "ask" => pipe[r][i].ask \in Asks
    <3>1. \A i \in DOMAIN pipe[r] : pipe[r][i] \in Messages
      BY Types
    <3> QED  BY <3>1, AskMessage
  <2>3. \A i \in DOMAIN pipe'[r] :
          \/ i \in DOMAIN pipe[r] /\ pipe'[r][i] = pipe[r][i]
          \/ i = Len(pipe[r]) + 1 /\ pipe'[r][i] = m
    <3>1. Len(pipe[r]) \in Nat
      BY Types, LenProperties
    <3>2. pipe'[r] \in Seq(Messages)
      BY <1>6, <1>p, Types, ConcatProperties
    <3>3. ASSUME NEW i \in DOMAIN pipe'[r]
          PROVE  \/ i \in DOMAIN pipe[r] /\ pipe'[r][i] = pipe[r][i]
                 \/ i - Len(pipe[r]) = 1 /\ pipe'[r][i] = m
      BY <1>6, <1>p
    <3>4. \A i \in DOMAIN pipe'[r] : i \in Nat
      BY <3>2
    <3> QED  BY <3>1, <3>3, <3>4
  <2>4. ASSUME NEW i \in DOMAIN pipe[r], pipe[r][i].type = "ask"
        PROVE  IsNew(r, pipe[r][i].ask) /\ pipe[r][i].ask # a
    BY <2>1, <2>2, <2>4 DEF AnswerInv, PipedAt
  <2>5. ASSUME NEW i \in DOMAIN pipe'[r], pipe'[r][i].type = "ask",
               NEW b, b = pipe'[r][i].ask
        PROVE  IsNew(r, b)'
    <3>1. CASE i \in DOMAIN pipe[r] /\ pipe'[r][i] = pipe[r][i]
      BY <2>1, <2>2, <2>4, <2>5, <3>1
    <3>2. CASE pipe'[r][i] = m
      BY <1>3, <1>11, <2>5, <3>2
    <3> QED  BY <2>3, <3>1, <3>2
  <2>6. \A i \in DOMAIN pipe'[r] : pipe'[r][i].type = "ask" => IsNew(r, pipe[r][i].ask)'
    BY <2>5 DEF IsNew, Past, Waits
  <2>7. ASSUME NEW i \in DOMAIN pipe'[r], NEW j \in DOMAIN pipe'[r],
               pipe'[r][i].type = "ask", pipe'[r][j].type = "ask",
               pipe'[r][j].ask = pipe'[r][i].ask
        PROVE  i = j
    <3>1. CASE i \in DOMAIN pipe[r] /\ j \in DOMAIN pipe[r]
      BY <1>p, <2>7, <3>1 DEF AnswerInv, PipedAt
    <3>2. CASE i \notin DOMAIN pipe[r]
      BY <1>3, <2>3, <2>4, <2>7, <3>2
    <3>3. CASE j \notin DOMAIN pipe[r]
      BY <1>3, <2>3, <2>4, <2>7, <3>3
    <3> QED  BY <3>1, <3>2, <3>3
  <2> QED  BY <2>6, <2>7 DEF PipedAt
<1>13. AnswersAreDecisions' /\ OpenIsAwaited' /\ Undecided'
  BY <1>1 DEF AnswerInv, AnswersAreDecisions, OpenIsAwaited, Undecided, Confirmed, broker
<1> QED  BY <1>7, <1>9, <1>10, <1>12, <1>13 DEF AnswerInv

LEMMA SilentAnswers ==
  ASSUME TypeInv, AnswerInv, NEW r \in Runs, NEW c \in Codexes,
         codex' = [codex EXCEPT ![r] = c],
         c.asks = codex[r].asks, c.alive => codex[r].alive,
         UNCHANGED <<run, pipe, broker, answered>>
  PROVE  AnswerInv'
<1>1. codex'[r] = c /\ \A q \in Runs \ {r} : codex'[q] = codex[q]
  BY Types
<1>2. \A q \in Runs : codex'[q].asks = codex[q].asks /\ (codex'[q].alive => codex[q].alive)
  BY <1>1
<1>3. \A q \in Runs : FreshAt(q)' /\ PipedAt(q)' /\ CurrentAt(q)'
  BY <1>2 DEF AnswerInv, FreshAt, PipedAt, IsNew, CurrentAt, Past, Waits, IsTold, broker
<1>4. AnswersAreDecisions' /\ OpenIsAwaited' /\ Undecided'
  BY DEF AnswerInv, AnswersAreDecisions, OpenIsAwaited, Undecided, Confirmed, broker
<1> QED  BY <1>3, <1>4 DEF AnswerInv

\* The other messages of an app-server.
LEMMA PlainMessages ==
  ASSUME NEW o \in Outcomes
  PROVE  LET ok == [type |-> "ok"]
             plain == {<<ok>>, <<[type |-> "error"]>>, <<[type |-> "note"]>>,
                       <<Done(o)>>, <<ok, Done(o)>>, <<Done(o), ok>>}
         IN  \A msgs \in plain : /\ msgs \in Seq(Messages)
                                 /\ \A i \in DOMAIN msgs : msgs[i].type # "ask"
<1> DEFINE ok == [type |-> "ok"]
<1>1. \A m \in Messages : m.type # "ask" =>
        <<m>> \in Seq(Messages) /\ \A i \in DOMAIN <<m>> : <<m>>[i].type # "ask"
  OBVIOUS
<1>2. \A m, n \in Messages : m.type # "ask" /\ n.type # "ask" =>
        <<m, n>> \in Seq(Messages) /\ \A i \in DOMAIN <<m, n>> : <<m, n>>[i].type # "ask"
  OBVIOUS
<1>3. Done(o).type # "ask" /\ ok.type # "ask"
      /\ [type |-> "error"].type # "ask" /\ [type |-> "note"].type # "ask"
  BY DEF Done
<1>4. Done(o) \in Messages /\ ok \in Messages
      /\ [type |-> "error"] \in Messages /\ [type |-> "note"] \in Messages
  BY MessageTypes
<1> QED  BY <1>1, <1>2, <1>3, <1>4

LEMMA CodexAnswersInv ==
  ASSUME TypeInv, AnswerInv, NEW r \in Runs, CodexStep(r)
  PROVE  AnswerInv'
<1>1. CASE CodexBegin(r)
  <2> DEFINE c == [codex[r] EXCEPT !.turn = "active"]
  <2>1. /\ c \in Codexes /\ codex' = [codex EXCEPT ![r] = c]
        /\ c.asks = codex[r].asks /\ c.alive = codex[r].alive
    BY <1>1, Types DEF CodexBegin, Codexes
  <2> HIDE DEF c
  <2> QED  BY <1>1, <2>1, SilentAnswers DEF CodexBegin
<1>2. CASE CodexExit(r)
  <2> DEFINE c == [codex[r] EXCEPT !.alive = FALSE]
  <2>1. /\ c \in Codexes /\ codex' = [codex EXCEPT ![r] = c]
        /\ c.asks = codex[r].asks /\ c.alive = FALSE
    BY <1>2, Types DEF CodexExit, Codexes
  <2> HIDE DEF c
  <2> QED  BY <1>2, <2>1, SilentAnswers DEF CodexExit
<1>3. ASSUME NEW kind \in Kinds, CodexAsk(r, kind)
      PROVE  AnswerInv'
  BY <1>3, AskAnswers
<1>4. CASE \/ CodexRefuse(r) \/ CodexReply(r) \/ CodexTooLate(r) \/ CodexNote(r)
           \/ CodexInterrupt(r) \/ \E o \in Outcomes \ {"interrupted"} : CodexFinish(r, o)
  <2>1. PICK msgs \in Seq(Messages) :
          Say(r, msgs) /\ \A i \in DOMAIN msgs : msgs[i].type # "ask"
    <3>1. PICK o \in Outcomes :
            LET ok == [type |-> "ok"] IN
            \E msgs \in {<<ok>>, <<[type |-> "error"]>>, <<[type |-> "note"]>>,
                         <<Done(o)>>, <<ok, Done(o)>>, <<Done(o), ok>>} : Say(r, msgs)
      <4>1. "interrupted" \in Outcomes
        BY DEF Outcomes
      <4>2. CASE CodexRefuse(r) \/ CodexReply(r) \/ CodexNote(r)
        BY <4>1, <4>2 DEF CodexRefuse, CodexReply, CodexNote
      <4>3. CASE CodexTooLate(r)
        BY <4>1, <4>3 DEF CodexTooLate, Replies
      <4>4. CASE CodexInterrupt(r)
        BY <4>1, <4>4 DEF CodexInterrupt
      <4>5. CASE \E o \in Outcomes \ {"interrupted"} : CodexFinish(r, o)
        BY <4>5 DEF CodexFinish
      <4> QED  BY <1>4, <4>2, <4>3, <4>4, <4>5
    <3> QED  BY <3>1, PlainMessages
  <2>2. PICK c \in Codexes : /\ codex' = [codex EXCEPT ![r] = c]
                             /\ c.asks = codex[r].asks /\ c.alive = codex[r].alive
    <3> DEFINE over == [codex[r] EXCEPT !.turn = "over"]
               refused == [codex[r] EXCEPT !.turn = "over", !.owes = "nothing"]
               replied == [codex[r] EXCEPT !.owes = "nothing"]
               noted == [codex[r] EXCEPT !.notes = @ + 1]
               stopped == [codex[r] EXCEPT !.turn = "over", !.ask = None,
                             !.owes = IF @ = "interrupt" THEN "nothing" ELSE @]
    <3>1. CASE CodexNote(r)
      <4>1. codex[r].notes + 1 \in 0..MaxNotes
        BY <3>1, Types DEF CodexNote, Codexes
      <4>2. codex' = [codex EXCEPT ![r] = noted]
        BY <3>1 DEF CodexNote
      <4>3. noted \in Codexes /\ noted.asks = codex[r].asks /\ noted.alive = codex[r].alive
        BY <4>1, Types DEF Codexes
      <4> QED  BY <4>2, <4>3
    <3>2. CASE ~CodexNote(r)
      <4>1. \A c \in {over, refused, replied, stopped} :
              c \in Codexes /\ c.asks = codex[r].asks /\ c.alive = codex[r].alive
        <5>1. over \in Codexes /\ over.asks = codex[r].asks /\ over.alive = codex[r].alive
          BY Types DEF Codexes
        <5>2. refused \in Codexes /\ refused.asks = codex[r].asks /\ refused.alive = codex[r].alive
          BY Types DEF Codexes
        <5>3. replied \in Codexes /\ replied.asks = codex[r].asks /\ replied.alive = codex[r].alive
          BY Types DEF Codexes
        <5>4. stopped \in Codexes /\ stopped.asks = codex[r].asks /\ stopped.alive = codex[r].alive
          BY Types, ZenonT(60) DEF Codexes
        <5> HIDE DEF over, refused, replied, stopped
        <5> QED  BY <5>1, <5>2, <5>3, <5>4
      <4>2. \E c \in {over, refused, replied, stopped} : codex' = [codex EXCEPT ![r] = c]
        BY <1>4, <3>2 DEF CodexRefuse, CodexReply, CodexTooLate, CodexInterrupt, CodexFinish
      <4> HIDE DEF over, refused, replied, stopped
      <4> QED  BY <4>1, <4>2
    <3> QED  BY <3>1, <3>2
  <2>3. UNCHANGED <<run, broker, answered>>
    BY <1>4 DEF CodexRefuse, CodexReply, CodexTooLate, CodexNote, CodexInterrupt, CodexFinish
  <2> QED  BY <2>1, <2>2, <2>3, SaidAnswers
<1> QED  BY <1>1, <1>2, <1>3, <1>4 DEF CodexStep, CodexAnswers, CodexEnds

LEMMA CrashAnswers ==
  ASSUME TypeInv, AnswerInv, Crash
  PROVE  AnswerInv'
<1>1. /\ UNCHANGED <<told, answered>> /\ open' = {} /\ sending' = None
      /\ codex' = [r \in Runs |-> NoCodex] /\ pipe' = [r \in Runs |-> <<>>]
  BY DEF Crash
<1>2. \A r \in Runs :
        \/ run[r].pc \in {"none", "done"} /\ run'[r] = run[r]
        \/ run'[r].pc = "lost"
  BY Types DEF Crash, Threads, Idle
<1>3. \A r \in Runs : ~codex'[r].alive /\ pipe'[r] = <<>>
  BY <1>1 DEF NoCodex
<1>4. \A a : Past(a)' => Past(a)
  BY <1>1 DEF Past
<1>5. ASSUME NEW r \in Runs PROVE FreshAt(r)' /\ PipedAt(r)' /\ CurrentAt(r)'
  BY <1>2, <1>3, <1>4 DEF AnswerInv, FreshAt, PipedAt, CurrentAt, Waits, Early
<1>6. AnswersAreDecisions' /\ OpenIsAwaited' /\ Undecided'
  BY <1>1 DEF AnswerInv, AnswersAreDecisions, OpenIsAwaited, Undecided, Confirmed
<1> QED  BY <1>5, <1>6 DEF AnswerInv

LEMMA AnswerStep == TypeInv /\ AnswerInv /\ [Next]_vars => AnswerInv'
<1> SUFFICES ASSUME TypeInv, AnswerInv, [Next]_vars PROVE AnswerInv'
  OBVIOUS
<1>1. ASSUME NEW r \in Runs, ThreadStep(r) PROVE AnswerInv'
  BY <1>1, BeginAnswers, CheckAnswers, TakeAnswers, TakeAskAnswers, GotAnswers,
     AnswerAnswers, EndAnswers DEF ThreadStep
<1>2. CASE ServerStep
  BY <1>2, BeginAnswers, ResolveAnswers, SendAnswers DEF ServerStep
<1>3. ASSUME UNCHANGED <<run, codex, pipe, broker, answered>> PROVE AnswerInv'
  BY SMTT(30), <1>3 DEF AnswerInv, AnswersAreDecisions, OpenIsAwaited, Undecided, Confirmed, FreshAt,
              PipedAt, IsNew, CurrentAt, Past, Waits, IsTold, broker
<1>4. ASSUME NEW x \in Cancellers, CancellerStep(x) PROVE AnswerInv'
  BY <1>3, <1>4 DEF CancellerStep, FindRunning, RequestCancel
<1>5. CASE UNCHANGED vars
  BY <1>3, <1>5 DEF vars, broker
<1> QED  BY <1>1, <1>2, <1>4, <1>5, CodexAnswersInv, CrashAnswers DEF Next

\* What the app-server was told of a request, other than the default, some
\* client decided and was told so, and nothing is decided twice
\* (approvals.rs: resolve_approval, request_approval).
THEOREM AnswersCorrect == Spec => []AnswersAreDecisions
<1>1. Spec => [](TypeInv /\ AnswerInv)
  BY TypeInit, TypeStep, AnswerInit, AnswerStep, PTL DEF Spec
<1> QED  BY <1>1, PTL DEF AnswerInv

\* A request that clients see is waited for and not answered (approvals.rs:
\* request_approval removes what timed out).
THEOREM OpenCorrect == Spec => []OpenIsAwaited
<1>1. Spec => [](TypeInv /\ AnswerInv)
  BY TypeInit, TypeStep, AnswerInit, AnswerStep, PTL DEF Spec
<1> QED  BY <1>1, PTL DEF AnswerInv

-----------------------------------------------------------------------------
(* What the database says.  A cancelled run was stopped: the app-server     *)
(* interrupts a turn only if it was asked to or an approval was cancelled,  *)
(* and what it says of that is told in the pipe, then in the thread.        *)

EndsAt(r) ==
  /\ run[r].pc \in {"none", "creating"} => db[r].cancel = "absent"
  /\ run[r].pc = "none" <=> db[r].status = "none"
  /\ run[r].pc \notin {"none", "ending", "done", "lost"} => db[r].status = "running"

Said(msgs) == \E i \in DOMAIN msgs : msgs[i] = Done("interrupted")

InterruptedAt(r) ==
  /\ codex[r].owes = "interrupt" => db[r].cancel = "requested"
  /\ codex[r].told => Stopped(r)
  /\ run[r].result = "cancelled" => Stopped(r)
  /\ Said(pipe[r]) \/ Said(run[r].pending) => Stopped(r)

\* After a cancellation one notification at most was handled, and the thread
\* then is at or behind the check.
PromptAt(r) ==
  /\ run[r].late <= 1
  /\ run[r].late = 1 =>
       /\ db[r].cancel = "requested"
       /\ \/ run[r].interrupted
          \/ run[r].pc \in {"checking", "finishing", "ending", "done", "lost"}
          \/ /\ run[r].method = "turn/interrupt"
             /\ run[r].pc = "waiting" \/ (Waits(r) /\ run[r].back = "waiting")

RunInv ==
  /\ \A r \in Runs : EndsAt(r) /\ InterruptedAt(r) /\ PromptAt(r)
  /\ \A x \in Cancellers : cancelling[x] # None => db[cancelling[x]].status # "none"

LEMMA RunInit == Init => RunInv
BY DEF Init, RunInv, EndsAt, InterruptedAt, PromptAt, Said, Idle, NoCodex

LEMMA StoppedStays ==
  ASSUME NEW r \in Runs, db[r].cancel = "requested" => db'[r].cancel = "requested",
         answered \subseteq answered'
  PROVE  Stopped(r) => Stopped(r)'
BY DEF Stopped

\* A step of run r keeps RunInv if it keeps it of r.
LEMMA OthersKept ==
  ASSUME TypeInv, RunInv, NEW r \in Runs,
         \A q \in Runs \ {r} : /\ run'[q] = run[q] /\ codex'[q] = codex[q]
                                /\ pipe'[q] = pipe[q] /\ db'[q] = db[q],
         answered \subseteq answered', cancelling' = cancelling,
         db[r].status # "none" => db'[r].status # "none",
         EndsAt(r)', InterruptedAt(r)', PromptAt(r)'
  PROVE  RunInv'
<1>1. ASSUME NEW q \in Runs \ {r} PROVE EndsAt(q)' /\ InterruptedAt(q)' /\ PromptAt(q)'
  <2>1. Stopped(q) => Stopped(q)'
    BY StoppedStays
  <2> QED  BY <2>1 DEF RunInv, EndsAt, InterruptedAt, PromptAt, Waits
<1>2. \A x \in Cancellers : cancelling'[x] # None => db'[cancelling'[x]].status # "none"
  BY DEF RunInv, TypeInv, TypeOK
<1> QED  BY <1>1, <1>2 DEF RunInv

\* What is said in a part of a sequence of messages is said in all of it.
LEMMA SaidTail ==
  ASSUME NEW S, NEW msgs \in Seq(S), msgs # <<>>
  PROVE  /\ Said(Tail(msgs)) => Said(msgs)
         /\ Head(msgs) = Done("interrupted") => Said(msgs)
<1>1. \A i \in DOMAIN Tail(msgs) : i + 1 \in DOMAIN msgs /\ Tail(msgs)[i] = msgs[i + 1]
  BY HeadTailProperties
<1>2. 1 \in DOMAIN msgs /\ Head(msgs) = msgs[1]
  OBVIOUS
<1> QED  BY <1>1, <1>2 DEF Said

LEMMA SaidAppend ==
  ASSUME NEW S, NEW msgs \in Seq(S), NEW m \in S
  PROVE  Said(Append(msgs, m)) => Said(msgs) \/ m = Done("interrupted")
<1>1. \A i \in DOMAIN Append(msgs, m) :
        \/ i \in DOMAIN msgs /\ Append(msgs, m)[i] = msgs[i]
        \/ Append(msgs, m)[i] = m
  BY AppendProperties
<1> QED  BY <1>1 DEF Said

\* What a step of the thread of r has to show for RunInv of r.
LEMMA InterruptedKept ==
  ASSUME RunInv, NEW r \in Runs, Stopped(r) => Stopped(r)',
         codex'[r].owes = "interrupt" => db'[r].cancel = "requested",
         codex'[r].told => codex[r].told \/ Stopped(r)',
         run'[r].result = "cancelled" => run[r].result = "cancelled" \/ Stopped(r)',
         Said(pipe'[r]) => Said(pipe[r]) \/ Stopped(r)',
         Said(run'[r].pending) => Said(run[r].pending) \/ Said(pipe[r])
  PROVE  InterruptedAt(r)'
BY DEF RunInv, InterruptedAt, Said

LEMMA BeginRun ==
  ASSUME TypeInv, RunInv, NEW r \in Runs,
         InsertRun(r) \/ InsertControls(r) \/ Start(r) \/ StartFails(r)
  PROVE  RunInv'
<1>1. /\ UNCHANGED <<pipe, answered, cancelling>>
      /\ \A q \in Runs \ {r} : run'[q] = run[q]
      /\ run'[r].late = run[r].late /\ run'[r].result = run[r].result
      /\ run'[r].pending = run[r].pending /\ run'[r].interrupted = run[r].interrupted
      /\ run'[r].method = run[r].method /\ run'[r].back = run[r].back
  <2>1. PICK place : run' = [run EXCEPT ![r].pc = place]
    BY DEF InsertRun, InsertControls, Start, StartFails, GoTo
  <2>2. UNCHANGED <<pipe, answered, cancelling>>
    BY DEF InsertRun, InsertControls, Start, StartFails
  <2> QED  BY <2>1, <2>2, Types DEF Threads
<1>2. CASE InsertRun(r)
  <2>1. /\ run[r].pc = "none" /\ run'[r].pc = "creating" /\ UNCHANGED codex
        /\ db'[r].status = "running" /\ db'[r].cancel = db[r].cancel
        /\ \A q \in Runs \ {r} : db'[q] = db[q]
    BY <1>2, Types DEF InsertRun, GoTo, At, Threads, Rows
  <2>2. Stopped(r) => Stopped(r)'
    BY <1>1, <2>1, StoppedStays
  <2>3. EndsAt(r)' /\ PromptAt(r)'
    BY <1>1, <2>1 DEF RunInv, EndsAt, PromptAt, Waits
  <2>4. InterruptedAt(r)'
    BY <1>1, <2>1, <2>2, InterruptedKept DEF RunInv, InterruptedAt
  <2> QED  BY <1>1, <2>1, <2>3, <2>4, OthersKept
<1>3. CASE InsertControls(r)
  <2>1. /\ run[r].pc = "creating" /\ run'[r].pc = "prepared" /\ UNCHANGED codex
        /\ db'[r].status = db[r].status
        /\ \A q \in Runs \ {r} : db'[q] = db[q]
    BY <1>3, Types DEF InsertControls, GoTo, At, Threads, Rows
  <2>2. db[r].cancel = "absent"
    BY <2>1 DEF RunInv, EndsAt
  <2>3. Stopped(r) => Stopped(r)'
    BY <1>1, <2>2, StoppedStays
  <2>4. EndsAt(r)' /\ PromptAt(r)'
    BY <1>1, <2>1, <2>2 DEF RunInv, EndsAt, PromptAt
  <2>5. InterruptedAt(r)'
    BY <1>1, <2>1, <2>2, <2>3, InterruptedKept DEF RunInv, InterruptedAt
  <2> QED  BY <1>1, <2>1, <2>4, <2>5, OthersKept
<1>4. CASE Start(r) \/ StartFails(r)
  <2>1. /\ run[r].pc = "prepared" /\ run'[r].pc \in {"waiting", "lost"}
        /\ run'[r].pc = "lost" \/ run'[r].pc = "waiting"
    BY <1>4, Types DEF Start, StartFails, GoTo, At, Threads
  <2>2. /\ db'[r].status = db[r].status /\ db'[r].cancel = db[r].cancel
        /\ \A q \in Runs \ {r} : db'[q] = db[q]
    <3> DEFINE y == [db[r] EXCEPT !.thread = TRUE]
    <3>1. y.status = db[r].status /\ y.cancel = db[r].cancel
      BY Types DEF Rows
    <3>2. db' = db \/ db' = [db EXCEPT ![r] = y]
      BY <1>4, Types DEF Start, StartFails
    <3> HIDE DEF y
    <3> QED  BY <3>1, <3>2, Types
  <2>3. /\ codex'[r].owes \in {codex[r].owes, "start"} /\ (codex'[r].told => codex[r].told)
        /\ \A q \in Runs \ {r} : codex'[q] = codex[q]
    <3> DEFINE c == [codex[r] EXCEPT !.alive = TRUE, !.owes = "start"]
    <3>1. c.owes = "start" /\ c.told = codex[r].told
      BY Types DEF Codexes
    <3>2. codex' = codex \/ codex' = [codex EXCEPT ![r] = c]
      BY <1>4, Types DEF Start, StartFails
    <3> HIDE DEF c
    <3> QED  BY <3>1, <3>2, Types
  <2>4. Stopped(r) => Stopped(r)'
    BY <1>1, <2>2, StoppedStays
  <2>5. EndsAt(r)' /\ PromptAt(r)'
    BY <1>1, <2>1, <2>2 DEF RunInv, EndsAt, PromptAt, Waits
  <2>6. InterruptedAt(r)'
    BY <1>1, <2>2, <2>3, <2>4, InterruptedKept DEF RunInv, InterruptedAt
  <2> QED  BY <1>1, <2>2, <2>3, <2>5, <2>6, OthersKept
<1> QED  BY <1>2, <1>3, <1>4

LEMMA CheckRun ==
  ASSUME TypeInv, RunInv, NEW r \in Runs, Check(r)
  PROVE  RunInv'
<1>1. UNCHANGED <<pipe, answered, cancelling>>
  BY DEF Check
<1>2. /\ run[r].pc = "checking"
      /\ \A q \in Runs \ {r} : run'[q] = run[q]
      /\ run'[r].late = run[r].late /\ run'[r].pending = run[r].pending
      /\ run'[r].result \in {run[r].result, "failed"}
      /\ run'[r].interrupted = run[r].interrupted
      /\ \/ run'[r].pc = "waiting" /\ run'[r].method = "turn/interrupt"
         \/ run'[r].pc = "finishing"
         \/ run'[r].pc = "reading" /\ (db[r].cancel = "requested" => run[r].interrupted)
  <2> DEFINE w == [run[r] EXCEPT !.pc = "waiting", !.method = "turn/interrupt"]
             f == [run[r] EXCEPT !.pc = "finishing", !.result = "failed"]
             g == [run[r] EXCEPT !.pc = "reading"]
  <2>1. /\ w.pc = "waiting" /\ w.method = "turn/interrupt" /\ w.late = run[r].late
        /\ w.pending = run[r].pending /\ w.result = run[r].result
        /\ w.interrupted = run[r].interrupted
    BY Types DEF Threads
  <2>2. /\ f.pc = "finishing" /\ f.late = run[r].late /\ f.pending = run[r].pending
        /\ f.result = "failed" /\ f.interrupted = run[r].interrupted
    BY Types DEF Threads
  <2>3. /\ g.pc = "reading" /\ g.late = run[r].late /\ g.pending = run[r].pending
        /\ g.result = run[r].result /\ g.interrupted = run[r].interrupted
    BY Types DEF Threads
  <2>4. \/ run' = [run EXCEPT ![r] = w]
        \/ run' = [run EXCEPT ![r] = f]
        \/ run' = [run EXCEPT ![r] = g] /\ ~(db[r].cancel = "requested" /\ ~run[r].interrupted)
    BY Types DEF Check, GoTo, Leave, Threads
  <2>5. run[r].pc = "checking"
    BY DEF Check, At
  <2> HIDE DEF w, f, g
  <2> QED  BY <2>1, <2>2, <2>3, <2>4, <2>5, Types
<1>3. /\ db'[r].status = db[r].status /\ db'[r].cancel = db[r].cancel
      /\ \A q \in Runs \ {r} : db'[q] = db[q]
  <2> DEFINE y == [db[r] EXCEPT !.sent = TRUE]
  <2>1. y.status = db[r].status /\ y.cancel = db[r].cancel
    BY Types DEF Rows
  <2>2. db' = db \/ db' = [db EXCEPT ![r] = y]
    BY Types DEF Check
  <2> HIDE DEF y
  <2> QED  BY <2>1, <2>2, Types
<1>4. /\ codex'[r].owes = codex[r].owes \/ db[r].cancel = "requested"
      /\ codex'[r].told = codex[r].told
      /\ \A q \in Runs \ {r} : codex'[q] = codex[q]
  <2> DEFINE c == [codex[r] EXCEPT !.owes = "interrupt"]
  <2>1. c.told = codex[r].told
    BY Types DEF Codexes
  <2>2. codex' = codex \/ (codex' = [codex EXCEPT ![r] = c] /\ db[r].cancel = "requested")
    BY Types DEF Check
  <2> HIDE DEF c
  <2> QED  BY <2>1, <2>2, Types
<1>5. Stopped(r) => Stopped(r)'
  BY <1>1, <1>3, StoppedStays
<1>6. EndsAt(r)' /\ PromptAt(r)'
  BY <1>2, <1>3 DEF RunInv, EndsAt, PromptAt, Waits
<1>7. InterruptedAt(r)'
  BY <1>1, <1>2, <1>3, <1>4, <1>5, InterruptedKept DEF RunInv, InterruptedAt
<1> QED  BY <1>1, <1>2, <1>3, <1>4, <1>6, <1>7, OthersKept

\* A notification is handled: counted as late at most once, and a turn that
\* was interrupted had been stopped.
LEMMA HandleRun ==
  ASSUME TypeInv, RunInv, NEW r \in Runs, run[r].pc = "reading",
         NEW msg \in Notifications, NEW t \in Threads, Handle(r, msg, t),
         msg = Done("interrupted") => Said(pipe[r]) \/ Said(run[r].pending),
         t.result = run[r].result, t.late = run[r].late, t.interrupted = run[r].interrupted,
         Said(t.pending) => Said(run[r].pending), Said(pipe'[r]) => Said(pipe[r]),
         \A q \in Runs \ {r} : pipe'[q] = pipe[q],
         UNCHANGED <<db, codex, answered, cancelling>>
  PROVE  RunInv'
<1> DEFINE late == IF db[r].cancel = "requested" /\ ~t.interrupted
                   THEN t.late + 1 ELSE t.late
           n == [t EXCEPT !.pc = "checking", !.result = @, !.late = late]
           e == [t EXCEPT !.pc = "finishing", !.result = StatusOf(msg.outcome), !.late = late]
<1>1. /\ late <= 1
      /\ late = 1 => db[r].cancel = "requested"
  <2>1. run[r].late = 1 => db[r].cancel = "requested" /\ run[r].interrupted
    BY DEF RunInv, PromptAt, Waits
  <2>2. run[r].late = 1 => t.interrupted
    BY <2>1
  <2>3. t.late \in Nat /\ t.late <= 1
    BY DEF RunInv, PromptAt, Threads
  <2> QED  BY <2>1, <2>2, <2>3
<1>2. msg.type # "note" /\ StatusOf(msg.outcome) = "cancelled" => msg = Done("interrupted")
  <2>1. CASE msg = [type |-> "note"]
    BY <2>1
  <2>2. CASE msg \in [type : {"done"}, outcome : Outcomes]
    <3>1. StatusOf(msg.outcome) = "cancelled" => msg.outcome = "interrupted"
      BY <2>2 DEF StatusOf, Outcomes
    <3>2. msg = [type |-> "done", outcome |-> msg.outcome]
      BY <2>2
    <3> QED  BY <3>1, <3>2 DEF Done
  <2> QED  BY <2>1, <2>2 DEF Notifications
<1>3. \/ run' = [run EXCEPT ![r] = n]
      \/ run' = [run EXCEPT ![r] = e] /\ msg.type # "note"
  BY DEF Handle
<1> HIDE DEF late
<1>4. n.pc = "checking" /\ n.result = t.result /\ n.late = late /\ n.pending = t.pending
  BY DEF Threads
<1>5. /\ e.pc = "finishing" /\ e.result = StatusOf(msg.outcome) /\ e.late = late
      /\ e.pending = t.pending
  BY DEF Threads
<1> HIDE DEF n, e
<1>6. /\ run'[r].pc \in {"checking", "finishing"} /\ run'[r].late = late
      /\ run'[r].pending = t.pending
      /\ run'[r].result = run[r].result \/
         (run'[r].result = "cancelled" => msg = Done("interrupted"))
      /\ \A q \in Runs \ {r} : run'[q] = run[q]
  BY <1>2, <1>3, <1>4, <1>5, Types
<1>7. Stopped(r) => Stopped(r)'
  BY StoppedStays
<1>8. EndsAt(r)' /\ PromptAt(r)'
  BY <1>1, <1>6 DEF RunInv, EndsAt, PromptAt
<1>9. InterruptedAt(r)'
  <2>1. run'[r].result = "cancelled" => run[r].result = "cancelled" \/ Stopped(r)'
    BY <1>6, <1>7 DEF RunInv, InterruptedAt
  <2>2. codex'[r].owes = "interrupt" => db'[r].cancel = "requested"
    BY DEF RunInv, InterruptedAt
  <2>3. Said(run'[r].pending) => Said(run[r].pending)
    BY <1>6
  <2> QED  BY <1>7, <2>1, <2>2, <2>3, InterruptedKept
<1> QED  BY <1>6, <1>8, <1>9, OthersKept

LEMMA TakeRun ==
  ASSUME TypeInv, RunInv, NEW r \in Runs, TakePending(r) \/ TakeNotification(r)
  PROVE  RunInv'
<1>1. CASE TakePending(r)
  <2> DEFINE t == [run[r] EXCEPT !.pending = Tail(@)]
  <2>1. run[r].pending \in Seq(Notifications) /\ run[r].pending # <<>>
    BY <1>1, Types DEF TakePending
  <2>2. Head(run[r].pending) \in Notifications /\ Tail(run[r].pending) \in Seq(Notifications)
    BY <2>1, HeadTailProperties
  <2>3. /\ t \in Threads /\ t.result = run[r].result /\ t.late = run[r].late
        /\ t.interrupted = run[r].interrupted /\ t.pending = Tail(run[r].pending)
    BY <2>2, Types DEF Threads
  <2>4. /\ Handle(r, Head(run[r].pending), t) /\ run[r].pc = "reading"
        /\ UNCHANGED <<db, codex, pipe, answered, cancelling>>
    BY <1>1 DEF TakePending, At
  <2> HIDE DEF t
  <2> QED  BY <2>1, <2>2, <2>3, <2>4, SaidTail, HandleRun
<1>2. CASE TakeNotification(r)
  <2>1. pipe[r] \in Seq(Messages) /\ pipe[r] # <<>>
    BY <1>2, Types DEF TakeNotification
  <2>2. /\ Head(pipe[r]) \in Notifications /\ Handle(r, Head(pipe[r]), run[r])
        /\ run[r].pc = "reading" /\ UNCHANGED <<db, codex, answered, cancelling>>
    BY <1>2 DEF TakeNotification, At
  <2>3. pipe'[r] = Tail(pipe[r]) /\ \A q \in Runs \ {r} : pipe'[q] = pipe[q]
    BY <1>2, Types DEF TakeNotification
  <2>4. run[r] \in Threads
    BY Types
  <2>5. /\ Head(pipe[r]) = Done("interrupted") => Said(pipe[r])
        /\ Said(pipe'[r]) => Said(pipe[r])
    BY <2>1, <2>3, SaidTail
  <2> QED  BY <2>2, <2>3, <2>4, <2>5, HandleRun
<1> QED  BY <1>1, <1>2

\* The thread takes a message and stays in the turn, or leaves it as failed.
LEMMA TookRun ==
  ASSUME TypeInv, RunInv, NEW r \in Runs, NEW t, run' = [run EXCEPT ![r] = t],
         run[r].pc \in {"waiting", "reading"},
         t.late = run[r].late, t.result \in {run[r].result, "failed"},
         t.pc \in {"waiting", "reading", "checking", "asking", "finishing"},
         run[r].interrupted => t.interrupted,
         Said(t.pending) => Said(run[r].pending) \/ Said(pipe[r]),
         Said(pipe'[r]) => Said(pipe[r]),
         \A q \in Runs \ {r} : pipe'[q] = pipe[q],
         \/ t.pc \in {"checking", "finishing"} \/ t.interrupted
         \/ t.pc = "waiting" /\ run[r].pc = "waiting" /\ t.method = run[r].method
         \/ t.pc = "asking" /\ t.back = run[r].pc /\ t.method = run[r].method,
         UNCHANGED <<db, codex, answered, cancelling>>
  PROVE  RunInv'
<1>1. run'[r] = t /\ \A q \in Runs \ {r} : run'[q] = run[q]
  BY Types
<1>2. Stopped(r) => Stopped(r)'
  BY StoppedStays
<1>3. EndsAt(r)'
  BY <1>1 DEF RunInv, EndsAt
<1>4. PromptAt(r)'
  BY <1>1 DEF RunInv, PromptAt, Waits
<1>5. InterruptedAt(r)'
  BY <1>1, <1>2, InterruptedKept DEF RunInv, InterruptedAt
<1> QED  BY <1>1, <1>3, <1>4, <1>5, OthersKept

LEMMA ReplyRun ==
  ASSUME TypeInv, RunInv, NEW r \in Runs,
         TakeReply(r) \/ KeepNotification(r) \/ TakeEnd(r) \/ TakeAsk(r)
  PROVE  RunInv'
<1>1. UNCHANGED <<db, codex, answered, cancelling>> /\ run[r].pc \in {"waiting", "reading"}
  BY DEF TakeReply, KeepNotification, TakeEnd, TakeAsk, At
<1>2. /\ Said(pipe'[r]) => Said(pipe[r])
      /\ \A q \in Runs \ {r} : pipe'[q] = pipe[q]
  <2>1. CASE UNCHANGED pipe
    BY <2>1
  <2>2. CASE pipe[r] # <<>> /\ pipe' = [pipe EXCEPT ![r] = Tail(@)]
    <3>1. pipe'[r] = Tail(pipe[r]) /\ \A q \in Runs \ {r} : pipe'[q] = pipe[q]
      BY <2>2, Types
    <3> QED  BY <2>2, <3>1, Types, SaidTail
  <2> QED  BY <2>1, <2>2 DEF TakeReply, KeepNotification, TakeEnd, TakeAsk
<1> DEFINE f == [run[r] EXCEPT !.pc = "finishing", !.result = "failed"]
<1>f. /\ f.pc = "finishing" /\ f.result = "failed" /\ f.late = run[r].late
      /\ f.pending = run[r].pending /\ f.interrupted = run[r].interrupted
  BY Types DEF Threads
<1>3. CASE TakeReply(r)
  <2> DEFINE w == [run[r] EXCEPT !.pc = "reading", !.interrupted = TRUE]
             g == [run[r] EXCEPT !.pc = "checking"]
  <2>1. /\ w.pc = "reading" /\ w.interrupted = TRUE /\ w.late = run[r].late
        /\ w.pending = run[r].pending /\ w.result = run[r].result
    BY Types DEF Threads
  <2>2. /\ g.pc = "checking" /\ g.late = run[r].late /\ g.pending = run[r].pending
        /\ g.result = run[r].result /\ g.interrupted = run[r].interrupted
    BY Types DEF Threads
  <2>3. \/ run' = [run EXCEPT ![r] = w] \/ run' = [run EXCEPT ![r] = f]
        \/ run' = [run EXCEPT ![r] = g]
    BY <1>3, Types DEF TakeReply, GoTo, Leave, Threads
  <2> HIDE DEF f, w, g
  <2>4. CASE run' = [run EXCEPT ![r] = w]
    BY <1>1, <1>2, <2>1, <2>4, TookRun
  <2>5. CASE run' = [run EXCEPT ![r] = f]
    BY <1>1, <1>2, <1>f, <2>5, TookRun
  <2>6. CASE run' = [run EXCEPT ![r] = g]
    BY <1>1, <1>2, <2>2, <2>6, TookRun
  <2> QED  BY <2>3, <2>4, <2>5, <2>6
<1>4. CASE TakeEnd(r)
  <2>1. run' = [run EXCEPT ![r] = f]
    BY <1>4 DEF TakeEnd, Leave
  <2> HIDE DEF f
  <2> QED  BY <1>1, <1>2, <1>f, <2>1, TookRun
<1>5. CASE KeepNotification(r)
  <2> DEFINE t == [run[r] EXCEPT !.pending = Append(@, Head(pipe[r]))]
  <2>1. pipe[r] \in Seq(Messages) /\ pipe[r] # <<>> /\ Head(pipe[r]) \in Notifications
    BY <1>5, Types DEF KeepNotification
  <2>2. /\ t.pc = run[r].pc /\ t.late = run[r].late /\ t.result = run[r].result
        /\ t.interrupted = run[r].interrupted /\ t.method = run[r].method
        /\ t.pending = Append(run[r].pending, Head(pipe[r]))
    BY Types DEF Threads
  <2>3. Said(t.pending) => Said(run[r].pending) \/ Said(pipe[r])
    BY <2>1, <2>2, Types, SaidAppend, SaidTail
  <2>4. run' = [run EXCEPT ![r] = t] /\ run[r].pc = "waiting"
    BY <1>5 DEF KeepNotification, At
  <2> HIDE DEF t
  <2> QED  BY <1>1, <1>2, <2>2, <2>3, <2>4, TookRun
<1>6. CASE TakeAsk(r)
  <2> DEFINE t == [run[r] EXCEPT !.pc = "asking", !.back = run[r].pc,
                     !.ask = Head(pipe[r]).ask, !.chan = None, !.got = None]
  <2>1. /\ t.pc = "asking" /\ t.back = run[r].pc /\ t.late = run[r].late
        /\ t.result = run[r].result /\ t.interrupted = run[r].interrupted
        /\ t.method = run[r].method /\ t.pending = run[r].pending
    BY Types DEF Threads
  <2>2. run' = [run EXCEPT ![r] = t]
    BY <1>6 DEF TakeAsk
  <2> HIDE DEF t
  <2> QED  BY <1>1, <1>2, <2>1, <2>2, TookRun
<1> QED  BY <1>3, <1>4, <1>5, <1>6

\* In the broker: what the thread comes back to is where it was.
LEMMA BrokerRun ==
  ASSUME TypeInv, AnswerInv, RunInv, NEW r \in Runs,
         Receive(r) \/ ApprovalTimeout(r) \/ Answer(r)
  PROVE  RunInv'
<1>1. /\ UNCHANGED <<db, pipe, cancelling>> /\ answered \subseteq answered'
      /\ Waits(r)
  BY DEF Receive, ApprovalTimeout, Answer, Waits, At
<1>2. PICK t : /\ run' = [run EXCEPT ![r] = t]
               /\ t.late = run[r].late /\ t.result \in {run[r].result, "failed"}
               /\ t.pending = run[r].pending /\ t.interrupted = run[r].interrupted
               /\ t.method = run[r].method /\ t.back = run[r].back
               /\ t.pc \in {"answering", "finishing", run[r].back}
  <2> DEFINE g(d) == [run[r] EXCEPT !.pc = "answering", !.got = d]
             b == [run[r] EXCEPT !.pc = run[r].back, !.ask = None, !.chan = None, !.got = None]
             f == [run[r] EXCEPT !.pc = "finishing", !.result = "failed"]
  <2>1. ASSUME NEW d
        PROVE  /\ g(d).late = run[r].late /\ g(d).result = run[r].result
               /\ g(d).pending = run[r].pending /\ g(d).interrupted = run[r].interrupted
               /\ g(d).method = run[r].method /\ g(d).back = run[r].back
               /\ g(d).pc = "answering"
    BY Types DEF Threads
  <2>2. /\ b.late = run[r].late /\ b.result = run[r].result
        /\ b.pending = run[r].pending /\ b.interrupted = run[r].interrupted
        /\ b.method = run[r].method /\ b.back = run[r].back /\ b.pc = run[r].back
    BY Types DEF Threads
  <2>3. /\ f.late = run[r].late /\ f.result = "failed"
        /\ f.pending = run[r].pending /\ f.interrupted = run[r].interrupted
        /\ f.method = run[r].method /\ f.back = run[r].back /\ f.pc = "finishing"
    BY Types DEF Threads
  <2>4. \/ \E d : run' = [run EXCEPT ![r] = g(d)]
        \/ run' = [run EXCEPT ![r] = b] \/ run' = [run EXCEPT ![r] = f]
    BY ZenonT(30) DEF Receive, ApprovalTimeout, Answer, Respond, Leave
  <2> HIDE DEF g, b, f
  <2> QED  BY <2>1, <2>2, <2>3, <2>4
<1>3. run'[r] = t /\ \A q \in Runs \ {r} : run'[q] = run[q]
  BY <1>2, Types
<1>4. Stopped(r) => Stopped(r)'
  BY <1>1, StoppedStays
<1>5. /\ codex'[r].owes = codex[r].owes /\ (codex'[r].told => codex[r].told \/ Stopped(r)')
      /\ \A q \in Runs \ {r} : codex'[q] = codex[q]
  <2>1. CASE UNCHANGED codex
    BY <2>1
  <2>2. CASE Answer(r)
    <3>1. PICK a, d, b, c : /\ a = run[r].ask /\ d = run[r].got
                            /\ b = (d = "cancel" /\ a.kind # "input" /\ codex[r].ask = a)
                            /\ c = [codex[r] EXCEPT !.ask = None, !.told = @ \/ b]
      OBVIOUS
    <3>2. codex' = codex \/ codex' = [codex EXCEPT ![r] = c]
      BY <2>2, <3>1, Types DEF Answer, Respond
    <3>3. c.owes = codex[r].owes /\ c.told = (codex[r].told \/ b)
      BY <3>1, Types DEF Codexes
    <3>5. [ask |-> a, decision |-> d] \in answered'
      BY <2>2, <3>1 DEF Answer
    <3>6. b /\ a.run = r => Stopped(r)'
      BY <3>1, <3>5 DEF Stopped
    <3>7. a.run = r
      BY <1>1, <3>1 DEF AnswerInv, CurrentAt
    <3> QED  BY <3>2, <3>3, <3>6, <3>7, Types
  <2> QED  BY <2>1, <2>2 DEF Receive, ApprovalTimeout
<1>6. EndsAt(r)'
  BY <1>1, <1>2, <1>3, Types DEF RunInv, EndsAt, Waits, Threads
<1>7. PromptAt(r)'
  BY <1>1, <1>2, <1>3, Types DEF RunInv, PromptAt, Waits, Threads
<1>8. InterruptedAt(r)'
  BY <1>1, <1>2, <1>3, <1>4, <1>5, InterruptedKept DEF RunInv, InterruptedAt
<1> QED  BY <1>1, <1>3, <1>5, <1>6, <1>7, <1>8, OthersKept

LEMMA EndRun ==
  ASSUME TypeInv, RunInv, NEW r \in Runs, SaveStatus(r) \/ RecordEnd(r)
  PROVE  RunInv'
<1>1. CASE SaveStatus(r)
  <2>1. /\ UNCHANGED <<codex, pipe, answered, cancelling>>
        /\ run[r].pc = "finishing" /\ run'[r] = [run[r] EXCEPT !.pc = "ending"]
        /\ \A q \in Runs \ {r} : run'[q] = run[q] /\ db'[q] = db[q]
        /\ db'[r].status = run[r].result /\ db'[r].cancel = db[r].cancel
    BY <1>1, Types DEF SaveStatus, GoTo, At, Rows
  <2>2. /\ run'[r].pc = "ending" /\ run'[r].late = run[r].late
        /\ run'[r].result = run[r].result /\ run'[r].pending = run[r].pending
    BY <2>1, Types DEF Threads
  <2>3. Stopped(r) => Stopped(r)'
    BY <2>1, StoppedStays
  <2>4. run[r].result # "none"
    BY Types DEF Threads, Terminal
  <2>5. EndsAt(r)' /\ PromptAt(r)'
    BY <2>1, <2>2, <2>4 DEF RunInv, EndsAt, PromptAt
  <2>6. InterruptedAt(r)'
    BY <2>1, <2>2, <2>3, InterruptedKept DEF RunInv, InterruptedAt
  <2> QED  BY <2>1, <2>4, <2>5, <2>6, OthersKept
<1>2. CASE RecordEnd(r)
  <2> DEFINE t == [Idle EXCEPT !.pc = "done", !.late = run[r].late]
  <2>1. UNCHANGED <<db, answered, cancelling>> /\ run[r].pc = "ending"
    BY <1>2 DEF RecordEnd, At
  <2>2. /\ t.pc = "done" /\ t.late = run[r].late /\ t.result = "failed" /\ t.pending = <<>>
    BY DEF Idle
  <2>3. run' = [run EXCEPT ![r] = t]
    BY <1>2 DEF RecordEnd
  <2>4. /\ pipe'[r] = <<>> /\ ~codex'[r].told /\ codex'[r].owes = "nothing"
        /\ \A q \in Runs \ {r} : pipe'[q] = pipe[q] /\ codex'[q] = codex[q]
    BY <1>2, Types DEF RecordEnd, NoCodex
  <2> HIDE DEF t
  <2>5. run'[r] = t /\ \A q \in Runs \ {r} : run'[q] = run[q]
    BY <2>3, Types
  <2>6. ~Said(<<>>)
    BY DEF Said
  <2>7. EndsAt(r)' /\ PromptAt(r)'
    BY <2>1, <2>2, <2>5 DEF RunInv, EndsAt, PromptAt
  <2>8. InterruptedAt(r)'
    BY <2>2, <2>4, <2>5, <2>6 DEF InterruptedAt, Said
  <2> QED  BY <2>1, <2>4, <2>5, <2>7, <2>8, OthersKept
<1> QED  BY <1>1, <1>2

\* Threads keep everything but their channel.
LEMMA ServerRun ==
  ASSUME TypeInv, RunInv, UNCHANGED <<db, codex, pipe, answered, cancelling>>,
         UNCHANGED run \/ SendAnswer
  PROVE  RunInv'
<1>1. ASSUME NEW q \in Runs
      PROVE  /\ run'[q].pc = run[q].pc /\ run'[q].late = run[q].late
             /\ run'[q].result = run[q].result /\ run'[q].pending = run[q].pending
             /\ run'[q].interrupted = run[q].interrupted
             /\ run'[q].method = run[q].method /\ run'[q].back = run[q].back
  <2> DEFINE t == [run[q] EXCEPT !.chan = sending.decision]
  <2>1. /\ t.pc = run[q].pc /\ t.late = run[q].late
        /\ t.result = run[q].result /\ t.pending = run[q].pending
        /\ t.interrupted = run[q].interrupted
        /\ t.method = run[q].method /\ t.back = run[q].back
    BY Types DEF Threads
  <2>2. run'[q] = run[q] \/ run'[q] = t
    BY DEF SendAnswer
  <2> HIDE DEF t
  <2> QED  BY <2>1, <2>2
<1>2. \A q \in Runs : Stopped(q) => Stopped(q)'
  BY StoppedStays
<1> QED  BY <1>1, <1>2 DEF RunInv, EndsAt, InterruptedAt, PromptAt, Waits

LEMMA CancellerRun ==
  ASSUME TypeInv, RunInv, NEW x \in Cancellers, CancellerStep(x)
  PROVE  RunInv'
<1>1. UNCHANGED <<run, codex, pipe, answered>>
  BY DEF CancellerStep, FindRunning, RequestCancel, broker
<1>2. CASE RequestCancel(x)
  <2>1. ASSUME NEW q \in Runs
        PROVE  /\ db'[q].status = db[q].status
               /\ \/ db'[q].cancel = db[q].cancel
                  \/ db'[q].cancel = "requested" /\ db[q].cancel # "absent"
    BY <1>2, Types DEF RequestCancel, Rows, TypeInv, TypeOK
  <2>2. \A q \in Runs : Stopped(q) => Stopped(q)'
    BY <1>1, <2>1, StoppedStays
  <2>3. \A q \in Runs : EndsAt(q)' /\ PromptAt(q)'
    BY <1>1, <2>1 DEF RunInv, EndsAt, PromptAt, Waits
  <2>4. \A q \in Runs : InterruptedAt(q)'
    BY <1>1, <2>1, <2>2 DEF RunInv, InterruptedAt
  <2>5. \A y \in Cancellers : cancelling'[y] # None => cancelling'[y] = cancelling[y]
    BY <1>2 DEF RequestCancel, TypeInv, TypeOK
  <2>6. \A y \in Cancellers : cancelling[y] # None => cancelling[y] \in Runs
    BY DEF TypeInv, TypeOK
  <2> QED  BY <2>1, <2>3, <2>4, <2>5, <2>6 DEF RunInv
<1>3. ASSUME NEW r \in Runs, FindRunning(x, r) PROVE RunInv'
  <2>1. UNCHANGED db /\ db[r].status = "running" /\ cancelling' = [cancelling EXCEPT ![x] = r]
    BY <1>3 DEF FindRunning
  <2>2. \A q \in Runs : Stopped(q) => Stopped(q)'
    BY <1>1, <2>1, StoppedStays
  <2>3. \A q \in Runs : EndsAt(q)' /\ PromptAt(q)' /\ InterruptedAt(q)'
    BY <1>1, <2>1, <2>2 DEF RunInv, EndsAt, PromptAt, InterruptedAt, Waits
  <2>4. \A y \in Cancellers : cancelling'[y] = cancelling[y] \/ cancelling'[y] = r
    BY <2>1 DEF TypeInv, TypeOK
  <2> QED  BY <2>1, <2>3, <2>4 DEF RunInv
<1> QED  BY <1>2, <1>3 DEF CancellerStep

LEMMA CrashRun ==
  ASSUME TypeInv, RunInv, Crash
  PROVE  RunInv'
<1>1. /\ UNCHANGED <<db, answered, cancelling>>
      /\ codex' = [r \in Runs |-> NoCodex] /\ pipe' = [r \in Runs |-> <<>>]
  BY DEF Crash
<1>2. ASSUME NEW r \in Runs
      PROVE  \/ run[r].pc \in {"none", "done"} /\ run'[r] = run[r]
             \/ /\ run[r].pc \notin {"none", "done"} /\ run'[r].pc = "lost"
                /\ run'[r].late = run[r].late /\ run'[r].result = "failed"
                /\ run'[r].pending = <<>>
  <2> DEFINE t == [Idle EXCEPT !.pc = "lost", !.late = run[r].late]
  <2>1. t.pc = "lost" /\ t.late = run[r].late /\ t.result = "failed" /\ t.pending = <<>>
    BY DEF Idle
  <2>2. IF run[r].pc \in {"none", "done"} THEN run'[r] = run[r] ELSE run'[r] = t
    BY DEF Crash
  <2> HIDE DEF t
  <2> QED  BY <2>1, <2>2
<1>3. \A r \in Runs : pipe'[r] = <<>> /\ ~codex'[r].told /\ codex'[r].owes = "nothing"
  BY <1>1 DEF NoCodex
<1>4. \A r \in Runs : Stopped(r) => Stopped(r)'
  BY <1>1, StoppedStays
<1>5. \A r \in Runs : EndsAt(r)' /\ PromptAt(r)'
  BY <1>1, <1>2 DEF RunInv, EndsAt, PromptAt, Waits
<1>6. ~Said(<<>>)
  BY DEF Said
<1>7. ASSUME NEW r \in Runs PROVE InterruptedAt(r)'
  <2>1. run'[r].result = "cancelled" => Stopped(r)'
    BY <1>2, <1>4 DEF RunInv, InterruptedAt
  <2>2. Said(run'[r].pending) => Stopped(r)'
    BY <1>2, <1>4, <1>6 DEF RunInv, InterruptedAt
  <2> QED  BY <1>3, <1>6, <2>1, <2>2 DEF InterruptedAt, Said
<1> QED  BY <1>1, <1>5, <1>7 DEF RunInv

\* A step of an app-server: who is interrupted was stopped.
LEMMA SaidRun ==
  ASSUME TypeInv, RunInv, NEW r \in Runs, NEW c, codex' = [codex EXCEPT ![r] = c],
         c.owes = "interrupt" => codex[r].owes = "interrupt",
         c.told => codex[r].told,
         \A q \in Runs \ {r} : pipe'[q] = pipe[q],
         Said(pipe'[r]) => Said(pipe[r]) \/ codex[r].owes = "interrupt" \/ codex[r].told,
         UNCHANGED <<run, db, answered, cancelling>>
  PROVE  RunInv'
<1>1. codex'[r] = c /\ \A q \in Runs \ {r} : codex'[q] = codex[q]
  BY Types
<1>2. Stopped(r) => Stopped(r)'
  BY StoppedStays
<1>3. codex[r].owes = "interrupt" => Stopped(r)
  BY DEF RunInv, InterruptedAt, Stopped
<1>4. EndsAt(r)' /\ PromptAt(r)'
  BY DEF RunInv, EndsAt, PromptAt, Waits
<1>5. InterruptedAt(r)'
  <2>1. Said(pipe'[r]) => Said(pipe[r]) \/ Stopped(r)'
    BY <1>2, <1>3 DEF RunInv, InterruptedAt
  <2>2. codex'[r].owes = "interrupt" => db'[r].cancel = "requested"
    BY <1>1 DEF RunInv, InterruptedAt
  <2> QED  BY <1>1, <1>2, <2>1, <2>2, InterruptedKept
<1> QED  BY <1>1, <1>4, <1>5, OthersKept

LEMMA SaidConcat ==
  ASSUME TypeInv, NEW r \in Runs, NEW msgs \in Seq(Messages), Say(r, msgs),
         \A i \in DOMAIN msgs : msgs[i] # Done("interrupted")
  PROVE  (Said(pipe'[r]) => Said(pipe[r])) /\ \A q \in Runs \ {r} : pipe'[q] = pipe[q]
<1>1. \A i \in DOMAIN pipe'[r] :
        \/ i \in DOMAIN pipe[r] /\ pipe'[r][i] = pipe[r][i]
        \/ \E j \in DOMAIN msgs : pipe'[r][i] = msgs[j]
  BY PipedConcat
<1>2. \A q \in Runs \ {r} : pipe'[q] = pipe[q]
  BY PipedConcat
<1> QED  BY <1>1, <1>2 DEF Said

LEMMA CodexRun ==
  ASSUME TypeInv, RunInv, NEW r \in Runs, CodexStep(r)
  PROVE  RunInv'
<1>1. UNCHANGED <<run, db, answered, cancelling>>
  BY DEF CodexStep, CodexAnswers, CodexEnds, CodexBegin, CodexRefuse, CodexReply, CodexTooLate,
         CodexInterrupt, CodexFinish, CodexExit, CodexNote, CodexAsk, broker
<1>2. PICK c : /\ codex' = [codex EXCEPT ![r] = c]
               /\ c.owes = "interrupt" => codex[r].owes = "interrupt"
               /\ c.told = codex[r].told
  <2>1. CASE CodexBegin(r)
    <3> DEFINE c == [codex[r] EXCEPT !.turn = "active"]
    <3>1. codex' = [codex EXCEPT ![r] = c]
      BY <2>1 DEF CodexBegin
    <3>2. c.owes = codex[r].owes /\ c.told = codex[r].told
      BY Types DEF Codexes
    <3> QED  BY <3>1, <3>2
  <2>2. CASE CodexRefuse(r)
    <3> DEFINE c == [codex[r] EXCEPT !.turn = "over", !.owes = "nothing"]
    <3>1. codex' = [codex EXCEPT ![r] = c]
      BY <2>2 DEF CodexRefuse
    <3>2. c.owes = "nothing" /\ c.told = codex[r].told
      BY Types DEF Codexes
    <3> QED  BY <3>1, <3>2
  <2>3. CASE CodexReply(r) \/ CodexTooLate(r)
    <3> DEFINE c == [codex[r] EXCEPT !.owes = "nothing"]
    <3>1. codex' = [codex EXCEPT ![r] = c]
      BY <2>3 DEF CodexReply, CodexTooLate
    <3>2. c.owes = "nothing" /\ c.told = codex[r].told
      BY Types DEF Codexes
    <3> QED  BY <3>1, <3>2
  <2>4. CASE CodexInterrupt(r)
    <3> DEFINE c == [codex[r] EXCEPT !.turn = "over", !.ask = None,
                       !.owes = IF @ = "interrupt" THEN "nothing" ELSE @]
    <3>1. codex' = [codex EXCEPT ![r] = c]
      BY <2>4 DEF CodexInterrupt
    <3>2. c.owes \in {"nothing", codex[r].owes} /\ c.told = codex[r].told
      BY Types DEF Codexes
    <3> QED  BY <3>1, <3>2
  <2>5. ASSUME NEW o \in Outcomes, CodexFinish(r, o)
        PROVE  \E c : /\ codex' = [codex EXCEPT ![r] = c]
                      /\ c.owes = "interrupt" => codex[r].owes = "interrupt"
                      /\ c.told = codex[r].told
    <3> DEFINE c == [codex[r] EXCEPT !.turn = "over"]
    <3>1. codex' = [codex EXCEPT ![r] = c]
      BY <2>5 DEF CodexFinish
    <3>2. c.owes = codex[r].owes /\ c.told = codex[r].told
      BY Types DEF Codexes
    <3> QED  BY <3>1, <3>2
  <2>6. CASE CodexExit(r)
    <3> DEFINE c == [codex[r] EXCEPT !.alive = FALSE]
    <3>1. codex' = [codex EXCEPT ![r] = c]
      BY <2>6 DEF CodexExit
    <3>2. c.owes = codex[r].owes /\ c.told = codex[r].told
      BY Types DEF Codexes
    <3> QED  BY <3>1, <3>2
  <2>7. CASE CodexNote(r)
    <3> DEFINE c == [codex[r] EXCEPT !.notes = @ + 1]
    <3>1. codex' = [codex EXCEPT ![r] = c]
      BY <2>7 DEF CodexNote
    <3>2. c.owes = codex[r].owes /\ c.told = codex[r].told
      BY Types DEF Codexes
    <3> QED  BY <3>1, <3>2
  <2>8. ASSUME NEW kind \in Kinds, CodexAsk(r, kind)
        PROVE  \E c : /\ codex' = [codex EXCEPT ![r] = c]
                      /\ c.owes = "interrupt" => codex[r].owes = "interrupt"
                      /\ c.told = codex[r].told
    <3>1. PICK a, c : /\ a = [run |-> r, n |-> codex[r].asks + 1, kind |-> kind]
                      /\ c = [codex[r] EXCEPT !.asks = @ + 1, !.ask = a]
      OBVIOUS
    <3>2. codex' = [codex EXCEPT ![r] = c]
      BY <2>8, <3>1 DEF CodexAsk
    <3>3. c.owes = codex[r].owes /\ c.told = codex[r].told
      BY <3>1, Types DEF Codexes
    <3> QED  BY <3>2, <3>3
  <2> QED  BY <2>1, <2>2, <2>3, <2>4, <2>5, <2>6, <2>7, <2>8
           DEF CodexStep, CodexAnswers, CodexEnds
<1>3. /\ \A q \in Runs \ {r} : pipe'[q] = pipe[q]
      /\ Said(pipe'[r]) => Said(pipe[r]) \/ codex[r].owes = "interrupt" \/ codex[r].told
  <2>1. CASE CodexBegin(r) \/ CodexExit(r)
    BY <2>1 DEF CodexBegin, CodexExit
  <2>2. CASE CodexInterrupt(r)
    BY <2>2, Types DEF CodexInterrupt, Say
  <2>3. ASSUME NEW m \in Messages, m # Done("interrupted"), Say(r, <<m>>)
        PROVE  /\ \A q \in Runs \ {r} : pipe'[q] = pipe[q]
               /\ Said(pipe'[r]) => Said(pipe[r])
    <3>1. PICK msgs : msgs = <<m>>
      OBVIOUS
    <3>2. msgs \in Seq(Messages) /\ \A i \in DOMAIN msgs : msgs[i] = m
      BY <3>1
    <3> QED  BY <2>3, <3>1, <3>2, SaidConcat
  <2>4. CASE CodexRefuse(r) \/ CodexReply(r) \/ CodexNote(r) \/ CodexTooLate(r)
    <3>1. PICK m \in Replies \cup {[type |-> "note"]} : Say(r, <<m>>)
      BY <2>4 DEF CodexRefuse, CodexReply, CodexNote, CodexTooLate, Replies
    <3>2. m \in Messages
      BY DEF Messages, Notifications
    <3>3. m.type # "done"
      BY DEF Replies
    <3> QED  BY <2>3, <3>1, <3>2, <3>3 DEF Done
  <2>5. ASSUME NEW o \in Outcomes \ {"interrupted"}, CodexFinish(r, o)
        PROVE  /\ \A q \in Runs \ {r} : pipe'[q] = pipe[q]
               /\ Said(pipe'[r]) => Said(pipe[r])
    <3>1. Say(r, <<Done(o)>>)
      BY <2>5 DEF CodexFinish
    <3>2. Done(o).outcome = o /\ Done("interrupted").outcome = "interrupted"
      BY DEF Done
    <3> QED  BY <2>3, <3>1, <3>2, MessageTypes
  <2>6. ASSUME NEW kind \in Kinds, CodexAsk(r, kind)
        PROVE  /\ \A q \in Runs \ {r} : pipe'[q] = pipe[q]
               /\ Said(pipe'[r]) => Said(pipe[r])
    <3>1. PICK a, m : /\ a = [run |-> r, n |-> codex[r].asks + 1, kind |-> kind]
                      /\ m = [type |-> "ask", ask |-> a]
      OBVIOUS
    <3>2. codex[r].asks + 1 \in 1..MaxAsks
      BY <2>6, Types DEF CodexAsk, Codexes
    <3>3. m \in Messages /\ m.type = "ask"
      BY <3>1, <3>2 DEF Messages, Asks
    <3>4. Say(r, <<m>>)
      BY <2>6, <3>1 DEF CodexAsk
    <3> QED  BY <2>3, <3>3, <3>4 DEF Done
  <2> QED  BY <2>1, <2>2, <2>4, <2>5, <2>6 DEF CodexStep, CodexAnswers, CodexEnds
<1> QED  BY <1>1, <1>2, <1>3, SaidRun

LEMMA RunStep == TypeInv /\ AnswerInv /\ RunInv /\ [Next]_vars => RunInv'
<1> SUFFICES ASSUME TypeInv, AnswerInv, RunInv, [Next]_vars PROVE RunInv'
  OBVIOUS
<1>1. ASSUME NEW r \in Runs, ThreadStep(r) PROVE RunInv'
  BY <1>1, BeginRun, CheckRun, TakeRun, ReplyRun, BrokerRun, EndRun DEF ThreadStep
<1>2. CASE ServerStep
  <2>1. ASSUME NEW a, NEW d, NEW confirmed, Resolve(a, d, confirmed) PROVE RunInv'
    BY <2>1, ServerRun DEF Resolve
  <2>2. CASE SendAnswer
    BY <2>2, ServerRun DEF SendAnswer
  <2> QED  BY <1>2, <2>1, <2>2, BeginRun DEF ServerStep
<1>3. CASE UNCHANGED vars
  BY <1>3, ServerRun DEF vars
<1> QED  BY <1>1, <1>2, <1>3, CodexRun, CancellerRun, CrashRun DEF Next

LEMMA AllInv == Spec => [](TypeInv /\ AnswerInv /\ RunInv)
BY TypeInit, TypeStep, AnswerInit, AnswerStep, RunInit, RunStep, PTL DEF Spec

\* After a cancel was requested, at most one more notification is handled
\* before the interrupt is sent (app_server.rs: stream_turn).
THEOREM PromptCorrect == Spec => []CancelIsPrompt
<1>1. RunInv => CancelIsPrompt
  BY DEF RunInv, PromptAt, CancelIsPrompt
<1> QED  BY <1>1, AllInv, PTL

-----------------------------------------------------------------------------
(* The refinement.  Only three kinds of steps are not a stutter: the row is *)
(* inserted, its status is saved, and the run is stopped.                   *)

LEMMA PromiseInit == Init => Promise!Init
BY DEF Init, Promise!Init, Stopped

\* The runs that are stopped stay the same, or one more is.
LEMMA PromiseStop ==
  ASSUME NEW r \in Runs, db[r].status # "none",
         \A q \in Runs : db'[q].status = db[q].status,
         \A q \in Runs \ {r} : Stopped(q)' <=> Stopped(q),
         Stopped(r) => Stopped(r)'
  PROVE  [Promise!Next]_(Promise!vars)
<1>1. [q \in Runs |-> db'[q].status] = [q \in Runs |-> db[q].status]
  OBVIOUS
<1>2. CASE Stopped(r)' <=> Stopped(r)
  <2>1. \A q \in Runs : Stopped(q)' <=> Stopped(q)
    BY <1>2
  <2>2. \A q \in Runs : Stopped(q)' = Stopped(q)
    BY <2>1 DEF Stopped
  <2>3. [q \in Runs |-> Stopped(q)]' = [q \in Runs |-> Stopped(q)]
    BY <2>2, Zenon
  <2> QED  BY <1>1, <2>3 DEF Promise!vars
<1>3. CASE Stopped(r)' /\ ~Stopped(r)
  <2>1. \A q \in Runs : Stopped(q)' = IF q = r THEN TRUE ELSE Stopped(q)
    BY <1>3 DEF Stopped
  <2>2. [q \in Runs |-> Stopped(q)]' = [[q \in Runs |-> Stopped(q)] EXCEPT ![r] = TRUE]
    BY <2>1
  <2>3. [q \in Runs |-> db[q].status][r] # "none"
    OBVIOUS
  <2> QED  BY <1>1, <2>2, <2>3 DEF Promise!Next, Promise!Stop
<1> QED  BY <1>2, <1>3

LEMMA PromiseSame ==
  ASSUME \A q \in Runs : db'[q].status = db[q].status /\ (Stopped(q)' <=> Stopped(q))
  PROVE  [Promise!Next]_(Promise!vars)
<1>1. [q \in Runs |-> db'[q].status] = [q \in Runs |-> db[q].status]
  OBVIOUS
<1>2. \A q \in Runs : Stopped(q)' = Stopped(q)
  BY DEF Stopped
<1>3. [q \in Runs |-> Stopped(q)]' = [q \in Runs |-> Stopped(q)]
  BY <1>2, Zenon
<1> QED  BY <1>1, <1>3 DEF Promise!vars

LEMMA PromiseStep ==
  TypeInv /\ AnswerInv /\ RunInv /\ [Next]_vars => [Promise!Next]_(Promise!vars)
<1> SUFFICES ASSUME TypeInv, AnswerInv, RunInv, [Next]_vars
             PROVE  [Promise!Next]_(Promise!vars)
  OBVIOUS
<1>1. ASSUME NEW r \in Runs, InsertRun(r) PROVE [Promise!Next]_(Promise!vars)
  <2>1. /\ db[r].status = "none" /\ UNCHANGED answered
        /\ \A q \in Runs : db'[q].cancel = db[q].cancel
        /\ \A q \in Runs : db'[q].status = IF q = r THEN "running" ELSE db[q].status
    BY <1>1, Types DEF InsertRun, At, Rows, RunInv, EndsAt
  <2>2. [q \in Runs |-> db[q].status]' = [[q \in Runs |-> db[q].status] EXCEPT ![r] = "running"]
    BY <2>1
  <2>3. \A q \in Runs : Stopped(q)' = Stopped(q)
    BY <2>1 DEF Stopped
  <2>4. [q \in Runs |-> Stopped(q)]' = [q \in Runs |-> Stopped(q)]
    BY <2>3, Zenon
  <2>5. [q \in Runs |-> db[q].status][r] = "none"
    BY <2>1
  <2> QED  BY <2>2, <2>4, <2>5 DEF Promise!Next, Promise!Create
<1>2. ASSUME NEW r \in Runs, SaveStatus(r) PROVE [Promise!Next]_(Promise!vars)
  <2>0. PICK s : s = run[r].result
    OBVIOUS
  <2>1. /\ db[r].status = "running" /\ UNCHANGED answered
        /\ \A q \in Runs : db'[q].cancel = db[q].cancel
        /\ \A q \in Runs : db'[q].status = IF q = r THEN s ELSE db[q].status
    BY <1>2, <2>0, Types DEF SaveStatus, At, Rows, RunInv, EndsAt
  <2>2. s \in Promise!Terminal /\ (s = "cancelled" => Stopped(r))
    BY <2>0, Types DEF RunInv, InterruptedAt, Threads, Terminal, Promise!Terminal
  <2>3. [q \in Runs |-> db[q].status]' = [[q \in Runs |-> db[q].status] EXCEPT ![r] = s]
    BY <2>1
  <2>4. \A q \in Runs : Stopped(q)' = Stopped(q)
    BY <2>1 DEF Stopped
  <2>5. [q \in Runs |-> Stopped(q)]' = [q \in Runs |-> Stopped(q)]
    BY <2>4, Zenon
  <2>6. [q \in Runs |-> db[q].status][r] = "running"
    BY <2>1
  <2>7. s = "cancelled" => [q \in Runs |-> Stopped(q)][r]
    BY <2>2
  <2>8. Promise!End(r, s)
    BY <2>3, <2>5, <2>6, <2>7 DEF Promise!End
  <2>9. Promise!Next
    <3>1. \E t \in Promise!Terminal : Promise!End(r, t)
      BY <2>2, <2>8
    <3> QED  BY <3>1 DEF Promise!Next
  <2> QED  BY <2>9
<1>3. ASSUME NEW r \in Runs, Answer(r) PROVE [Promise!Next]_(Promise!vars)
  <2>1. /\ UNCHANGED db /\ run[r].pc = "answering"
        /\ answered' = answered \cup {[ask |-> run[r].ask, decision |-> run[r].got]}
    BY <1>3 DEF Answer, At
  <2>2. run[r].ask.run = r /\ db[r].status # "none"
    BY <2>1 DEF AnswerInv, CurrentAt, Waits, RunInv, EndsAt
  <2>3. \A x \in answered' : x \in answered \/ x.ask.run = r
    BY <2>1, <2>2
  <2>4. \A q \in Runs \ {r} : Stopped(q)' <=> Stopped(q)
    BY <2>1, <2>3 DEF Stopped
  <2>5. Stopped(r) => Stopped(r)'
    BY <2>1, StoppedStays
  <2> QED  BY <2>1, <2>2, <2>4, <2>5, PromiseStop
<1>4. ASSUME NEW x \in Cancellers, RequestCancel(x) PROVE [Promise!Next]_(Promise!vars)
  <2> DEFINE r == cancelling[x]
  <2>1. r \in Runs /\ db[r].status # "none"
    BY <1>4 DEF RequestCancel, TypeInv, TypeOK, RunInv
  <2>2. UNCHANGED answered /\ (db' = db \/ db' = [db EXCEPT ![r].cancel = "requested"])
    BY <1>4 DEF RequestCancel
  <2>3. /\ \A q \in Runs : db'[q].status = db[q].status
        /\ \A q \in Runs \ {r} : db'[q].cancel = db[q].cancel
        /\ db'[r].cancel \in {db[r].cancel, "requested"}
    <3> DEFINE y == [db[r] EXCEPT !.cancel = "requested"]
    <3>1. y.status = db[r].status /\ y.cancel = "requested"
      BY <2>1, Types DEF Rows
    <3>2. db' = db \/ db' = [db EXCEPT ![r] = y]
      BY <2>2
    <3> HIDE DEF y, r
    <3> QED  BY <2>1, <3>1, <3>2, Types
  <2>4. \A q \in Runs \ {r} : Stopped(q)' <=> Stopped(q)
    BY <2>2, <2>3 DEF Stopped
  <2>5. db[r].cancel = "requested" => db'[r].cancel = "requested"
    BY <2>3
  <2> HIDE DEF r
  <2>6. PICK q \in Runs : q = r
    BY <2>1
  <2>7. Stopped(q) => Stopped(q)'
    BY <2>2, <2>5, <2>6, StoppedStays
  <2>8. \A p \in Runs \ {q} : Stopped(p)' <=> Stopped(p)
    BY <2>4, <2>6
  <2> QED  BY <2>1, <2>3, <2>6, <2>7, <2>8, PromiseStop
<1>5. ASSUME NEW r \in Runs,
             InsertControls(r) \/ Start(r) \/ StartFails(r) \/ Check(r)
      PROVE  [Promise!Next]_(Promise!vars)
  <2>1. UNCHANGED answered
    BY <1>5 DEF InsertControls, Start, StartFails, Check
  <2>2. PICK y : /\ y.status = db[r].status
                 /\ y.cancel = "requested" <=> db[r].cancel = "requested"
                 /\ db' = db \/ db' = [db EXCEPT ![r] = y]
    <3> DEFINE c == [db[r] EXCEPT !.cancel = "clear"]
               h == [db[r] EXCEPT !.thread = TRUE]
               t == [db[r] EXCEPT !.sent = TRUE]
    <3>1. /\ c.status = db[r].status /\ c.cancel = "clear"
          /\ h.status = db[r].status /\ h.cancel = db[r].cancel
          /\ t.status = db[r].status /\ t.cancel = db[r].cancel
      BY Types DEF Rows
    <3>2. CASE InsertControls(r)
      <4>1. db' = [db EXCEPT ![r] = c] /\ db[r].cancel # "requested"
        BY <3>2 DEF InsertControls, At, RunInv, EndsAt
      <4> QED  BY <3>1, <4>1
    <3>3. CASE Start(r) \/ StartFails(r) \/ Check(r)
      <4>1. db' = db \/ db' = [db EXCEPT ![r] = h] \/ db' = [db EXCEPT ![r] = t]
        BY <3>3 DEF Start, StartFails, Check
      <4> QED  BY <3>1, <4>1
    <3> QED  BY <1>5, <3>2, <3>3
  <2>3. \A q \in Runs : /\ db'[q].status = db[q].status
                        /\ db'[q].cancel = "requested" <=> db[q].cancel = "requested"
    BY <2>2, Types
  <2>4. \A q \in Runs : Stopped(q)' <=> Stopped(q)
    BY <2>1, <2>3 DEF Stopped
  <2> QED  BY <2>3, <2>4, PromiseSame
<1>6. ASSUME UNCHANGED <<db, answered>> PROVE [Promise!Next]_(Promise!vars)
  BY <1>6, PromiseSame DEF Stopped
<1>7. ASSUME NEW r \in Runs, ThreadStep(r) PROVE [Promise!Next]_(Promise!vars)
  <2>1. CASE \/ TakeReply(r) \/ KeepNotification(r) \/ TakePending(r) \/ TakeNotification(r)
             \/ TakeEnd(r) \/ TakeAsk(r) \/ Receive(r) \/ ApprovalTimeout(r) \/ RecordEnd(r)
    BY <1>6, <2>1 DEF TakeReply, KeepNotification, TakePending, TakeNotification, TakeEnd,
                      TakeAsk, Receive, ApprovalTimeout, RecordEnd
  <2> QED  BY <1>2, <1>3, <1>5, <1>7, <2>1 DEF ThreadStep
<1>8. ASSUME NEW r \in Runs, CodexStep(r) PROVE [Promise!Next]_(Promise!vars)
  BY <1>6, <1>8 DEF CodexStep, CodexAnswers, CodexEnds, CodexBegin, CodexRefuse, CodexReply,
     CodexTooLate, CodexInterrupt, CodexFinish, CodexExit, CodexNote, CodexAsk
<1>9. CASE ServerStep
  <2>1. ASSUME NEW a, NEW d, NEW confirmed, Resolve(a, d, confirmed)
        PROVE  [Promise!Next]_(Promise!vars)
    BY <1>6, <2>1 DEF Resolve
  <2>2. CASE SendAnswer
    BY <1>6, <2>2 DEF SendAnswer
  <2> QED  BY <1>1, <1>5, <1>9, <2>1, <2>2 DEF ServerStep
<1>10. ASSUME NEW x \in Cancellers, CancellerStep(x) PROVE [Promise!Next]_(Promise!vars)
  BY <1>4, <1>6, <1>10 DEF CancellerStep, FindRunning
<1>11. CASE Crash
  BY <1>6, <1>11 DEF Crash
<1>12. CASE UNCHANGED vars
  BY <1>6, <1>12 DEF vars
<1> QED  BY <1>7, <1>8, <1>9, <1>10, <1>11, <1>12 DEF Next

\* The rows of the task database keep what RunPromise promises, whatever
\* cancels, approvals, late replies and crashes come in between (tasks.rs).
THEOREM PromiseKept == Spec => KeepsPromise
BY AllInv, PromiseInit, PromiseStep, PTL DEF Spec, KeepsPromise, Promise!Spec
=============================================================================
