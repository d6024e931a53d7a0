# clawdex in TLA+

A specification of clawdex (`clawdex/src`) and of the macOS application around it: the
processes that share one state directory, what each step of theirs does to the files in
it, and what must hold of those files whatever the processes, their clients and the
operating system do in between.  TLC checks the specifications on small instances; TLAPS
proves the statements that should hold for every instance.

## 1. The system

clawdex is a sidecar of the Codex app-server.  Several processes are started from
the same code and meet only in the files of one state directory:

* `clawdexd` (`bin/clawdexd.rs`, `daemon_server.rs`): an HTTP server with **one**
  thread, an optional Unix-socket proxy, and a background thread that runs the
  scheduler loop (`daemon.rs: run_daemon_loop`).  The two talk through an mpsc channel.
* `clawdex daemon` (`main.rs`): the loop without the server.
* MCP servers (`mcp.rs`): one process per Codex session; its tools edit the same files
  directly, or ask `clawdexd` over HTTP first (`daemon_client.rs`).
* the gateway (`gateway.rs`): delivers outgoing messages, takes incoming ones, keeps the
  tokens of its clients; one thread for HTTP, one for each WebSocket connection.
* task runners (`tasks.rs`): the CLI, or the server, driving one app-server turn with
  approvals (`approvals.rs`, `app_server.rs`) and recording it in SQLite (`task_db.rs`).
* plugin commands (`plugins.rs`), and syncs of skills (`skills_sync.rs`) and of the memory
  index (`memory.rs`): short-lived processes, or part of the others.
* the macOS application (`macClawdex`), which starts some of these as its children.

No file is protected by a file-system transaction: JSON files are read and rewritten
whole (`util.rs: write_string` truncates, then writes), logs are appended to.

### Components

| component | state it keeps | hard behaviour | must be true | modelled in |
|---|---|---|---|---|
| cron jobs (`cron.rs`) | `cron/jobs.json`, `pending.json`, `runs/*.jsonl` | stale copies written back, one-shot jobs, wake modes, clock, migration of old fields | planned at the right instant, run once, never early, never forgotten; settings mean the same after a load | `CronJobs`, `CronSchedule`, `CronDaemon`, `CronDelivery` |
| scheduler loop (`daemon.rs`) | its position, the drained jobs, `cron/locks/*.lock` | two daemons, crash in a turn, an error that ends the loop | one execution of a job at a time; every due job gets its turn; answers go where they were asked to | `CronDaemon`, `Gateway`, `Announce` |
| daemon server and client (`daemon_server.rs`, `daemon_client.rs`) | requests in its queue, the one it is blocked on | client timeout while the request waits, loop gone | its thread comes back; answers are true | `CronDaemon` |
| outgoing messages (`gateway.rs`) | `outbox.jsonl`, `idempotency.json`, `routes.json`, `receipts.jsonl` | crash between append and key, stale copies of two processes, timeouts | keys and receipts are true; a repeated call sends once | `Gateway` |
| incoming messages (`gateway.rs`, `daemon.rs`) | `inbox.jsonl`, `inbox_offset.json` | append while draining, crash between offset and turn | handled in order, once, none overlooked; replies go back | `Gateway`, `Announce` |
| tokens and devices (`gateway.rs`) | `tokens.json`, `devices.json` | every use saves the whole map; two saves per operation | what was answered stays true | `GatewayAccess` |
| presence (`gateway.rs`) | a table in memory | two connections of one client, pruning | who is active is listed | `GatewayPresence` |
| approvals (`approvals.rs`) | pending requests in memory | late answer against timeout | the recorded decision is the one acted on; no answer reaches another request | `TaskRun` |
| task runs (`tasks.rs`, `task_db.rs`, `runner.rs`, `app_server.rs`) | runs, controls and events in SQLite | cancel against completion, early errors, polling | a run ends once and as it was asked to; a follower sees every event | `TaskRun`, `RunPromise`, `TaskFollow` |
| agent turns (`runner.rs`, `app_server.rs`, `daemon.rs`) | one app-server for all sessions, its pipe, the thread of each session | turns given up on, kept notifications, death of the child | a turn returns its own text; sessions do not mix | `AgentTurns`, `TurnPolicy` |
| audit, transcripts (`audit.rs`, `sessions.rs`) | append-only logs, a hash chain | two writers append to one chain, torn lines | the chain does not fork | `AuditLog`, `Heartbeats` |
| memory (`memory.rs`) | SQLite index of Markdown files | kill between statements, files that change, two syncs | what is written is found, once and in its last version; no text is lost in chunks | `Memory`, `MemoryText`, `MemoryPaths` |
| plugins (`plugins.rs`) | directories, rows, records, overlay | partial install, failure at any step | directory, row, record and skills agree; the last copy is kept | `Plugins`, `PluginRules` |
| skills sync (`skills_sync.rs`) | copies or links in Codex's directories | killed half-way | what is there is whole | `SkillsSync` |
| heartbeat (`heartbeat.rs`) | a log | hours past midnight | runs within its hours | `Heartbeats`, `Announce` |
| permissions, policies (`permissions.rs`, `config.rs`) | a configuration file | several layers of overrides | no layer widens another | `TurnPolicy`, `PluginRules` |
| MCP tool servers (`mcp.rs`) | the call at hand | validation before and after a change, several servers on one file | a job that cannot be shown is known to its writer | `McpServer` |
| macOS application (`RuntimeManager.swift`, `ui_bridge.rs`) | children, settings, installed tools | threads, forced ends, answers that cross with clicks | no child is lost, settings settle, tools on record are whole | `MacApp`, `MacTools` |
| command line, text, `clawdex/share`, `clawdex/vendor` | — | — | — | not modelled (section 5) |

`PROJECT.json` lists the same parts with their sources under `components` and, under
`hazards`, what is hard to test in them, each at its line, with the properties that watch
it or the reason why none does.

## 2. Modules

```
CronJobs          schedules and jobs as data: plan, due test, edits, end of a run
  CronSchedule    a schedule asked again and again as the clock moves on
  CronDaemon      the loop, the files, the editors, manual runs, crashes
CronDelivery      what edits, loads and runs make of the settings of a delivery
  Announce        where answers of jobs, heartbeats and messages go, with the routes
Gateway           senders, the gateway, daemons that answer messages, crashes
GatewayAccess     tokens and device codes of the gateway's clients
GatewayPresence   its table of present clients
RunPromise        what a task run promises a reader of the database
TaskRun           the thread of a run, its app-server, approvals, cancellers; refines it
TaskFollow        the follower of a run's events
AuditLog          the hash chain of a run, its rows and its writers
AgentTurns        the daemon's own app-server, shared by all sessions
TurnPolicy        sandbox, approvals and backend of a turn (functions)
Heartbeats        when a heartbeat runs; files of transcripts (functions)
McpServer         tool servers on one job file
Plugins           commands on installed plugins, step by step
PluginRules       paths, skills, servers and permissions of plugins (mostly functions)
PluginSources     what a source is, how it is unpacked, which plugin it is (functions)
SkillsSync        the sync of OpenClaw's skills
Memory            syncs of the memory index, statement by statement
MemoryText        how a text is cut into chunks
MemoryPaths       which files are memory, and under which path (functions)
MacApp, MacTools  the macOS application: its children and settings; its tools

MCCronDaemon, MCCronRuns, MCGateway, MCGatewayRuns, MCTaskRun, MCMemory, MCStores,
MCGatewayAccess, MCAnnounce, MCRules, MCAgents             small instances for TLC
CronDaemonProofs (with CronJobs, CronSchedule), GatewayProofs, GatewayAccessProofs,
TaskRunProofs, RecordsProofs (AuditLog, Memory, TaskFollow), AgentsProofs (AgentTurns,
McpServer, SkillsSync, MemoryText, MacApp, MacTools), PluginsProofs, RulesProofs
(functions, and Announce)                                                theorems
```

Operators marked `Faulty` (such as `AcquireLockShared`, `LookupBlind`) are mistakes that
this code could contain; put in place of the operator that follows them, each breaks the
property it is listed with under `mutants`.

### CronJobs, CronSchedule (`cron.rs`)

A job is what the scheduler reads of its JSON object.  `EveryNext`, `NextRunAfter`,
`ComputeNextRun`, `IsDue`, `Collectable`, `Added`, `Patched`, `Started` and `AfterRun`
are the functions of `cron.rs` of (almost) the same names.  A cron expression is a grid
of instants: of the cron crate only "the first instant strictly after now" is used.
`CronSchedule` has one state, a schedule, a reading of the clock and the plan made
from it; `NextIsFirst` compares the arithmetic with a grid of points that is
defined independently of it.

### CronDaemon (`daemon.rs`, `cron.rs`, `daemon_server.rs`, `daemon_client.rs`)

| variables | code |
|---|---|
| `jobs`, `pending`, `locks`, `runs` | the files under `cron/` |
| `pc`, `tick`, `todo`, `src`, `cur`, `result` | locals of `run_daemon_loop` and `execute_job`, per daemon |
| `snap`, `left`, `dirty` | locals of `collect_due_jobs` |
| `http`, `serving`, `chan` | `tiny_http`'s queue, `DaemonControl::run_cron_job`, the mpsc channel |
| `taken` | the command `drain_daemon_commands` executes, whose `respond_to` it holds |
| `rq` | the calls of `cron.run` in MCP processes |
| `did`, `oks` | history, for the properties only: what became of each post, how often a job ended well |

One tick is `TickStart`, `TakeCommand`\*, `CommandsDone`, `DrainPending`, the execution of
each pending job, `CollectBegin`, `CollectOne`\*, `CollectEnd`, the execution of each due
job, `ListDone`.  An execution is `SkipJob`, or `AcquireLock`, `StartTurn`, `EndTurn`,
`RecordRun`, `ReleaseLock`, or ends in `FailTurn`.  Each of them is one file operation, so
edits, other daemons, requests and `Crash` come between any two.  `PostRun`,
`TimeoutRun`, `FallbackRun`, `ServeRun` and `ChannelClosed` are the two ends of a manual
run.  `FailTurn` of a job that is not a manual run ends the loop (`?` in
`run_daemon_loop`): control goes to `"dead"`, the server stays.

### CronDelivery, Announce (`cron.rs`, `daemon.rs`, `gateway.rs`)

A JSON object of settings is a function on the fields it has, so that a missing field and
`null` differ as they do in the code.  `CronDelivery` has what `add_job`, `update_job`,
`load_jobs` (which migrates and saves, on every read) and `resolve_delivery_plan` do to
them.  `Announce` adds the routes of conversations: a run of the job, a heartbeat or a
reply looks its target up and sends, which replaces the route of the conversation it is
sent in the name of.  `told` is history: the plan that the last answer to a user stood for.

### Gateway (`gateway.rs`, `daemon.rs`)

| variables | code |
|---|---|
| `outbox`, `keys`, `routes`, `receipts`, `inbox`, `offset` | the files under `gateway/` |
| `net`, `srv` | requests in the HTTP server, and the one its thread is at, with what it loaded |
| `snd` | where each sender is in `send_message_with_mode`, with what it loaded |
| `batch`, `total` | the drained messages a daemon has still to handle; lines in its copy of the inbox |
| `handled`, `lost` | history, for the properties only |

A sender goes through `Send` (or `Reply`), `CheckKey`, `Post`, waits for the answer, and
then `SaveRoute`, `SaveKey`, `SendDone`; or `SendFailed` after a refused connection, an
error or `Timeout`.  The gateway goes through `Accept`, `Lookup`, `AppendMessage`,
`QueueRoute`, `QueueKey`, `Queued` for a message to send and `RecordMessage`,
`LoadRoutes`, `RecordRoute` for one that came in.  A daemon goes through `ReadInbox`,
`SaveOffset`, and `StartTurn` with `Reply`, `NoReply` or `FailTurn` per message.  A save
of `keys` or `routes` writes the copy that was loaded earlier, which may be stale:
`SaveKeys` notes in `lost` the keys that such a save removes.  A request whose sender has
hung up is served all the same.

### GatewayAccess, GatewayPresence (`gateway.rs`)

Each thread that handles a request loads `tokens.json`, decides, and saves the whole map,
if only to note the time of use.  A save is two steps (the file is `Empty` in between) and
of two saves that overlap the file may be left `Torn`.  `disturbed` is history: a save met
another one, or a kill; the properties speak of the behaviours in which none did, which
is the most the code can promise (section 3).  In `GatewayPresence` a connection touches
its client when it asks something, a snapshot drops what is older than the time to live,
and a close drops the client.

### TaskRun, RunPromise (`tasks.rs`, `app_server.rs`, `approvals.rs`, `task_db.rs`)

| variables | code |
|---|---|
| `db`, `log`, `answered` | the tables `task_runs` with `run_controls`, `events`, `approvals` |
| `run` | the thread of each run: where it is in `execute_run`, `stream_turn`, `wait_for_response`, `next_notification` or `request_approval`, and their locals |
| `codex`, `pipe` | the app-server child and its standard output (external) |
| `open` | the maps `ApprovalBroker.approvals` and `.inputs` |
| `sending` | the answer that `resolve_approval` has taken out of a map and not sent yet |
| `cancelling` | `cancel_run_command` between `get_run` and `request_run_cancel` |
| `told` and the field `late` | history, for the properties only |

`InsertRun`, `InsertControls` are `create_run`; then the thread is in `Start` or
`StartFails`, `Check` (whether to interrupt), `TakeReply`, `KeepNotification` (while it
waits for a reply), `TakePending`, `TakeNotification`, `TakeEnd`, `TakeAsk`, `Receive`
or `ApprovalTimeout`, `Answer`, and at last `SaveStatus`, `RecordEnd`.  `Resolve` and
`SendAnswer` are the two halves of an answer in the server's thread, `FindRunning` and
`RequestCancel` the two halves of a cancellation in any other process.  The actions
`Codex...` are the child: it may refuse the turn, reply after notifications, ask, finish,
obey an interrupt, get it too late, and exit at any moment.

`RunPromise` is what a reader of the database may rely on: a run is created running,
ends once, stays as it ended, and is cancelled only if it was stopped: by its cancel flag
or by an approval answered "cancel".

### TaskFollow, AuditLog (`tasks.rs`, `audit.rs`, `task_db.rs`)

The follower's `seen_ids` and last timestamp, its poll and its look at the status are
steps between those of the writers, each of which reads the clock before it inserts.  What
a query returns is a set of rows (`Oldest`, `Newest`): the order in which they are printed
is left out, the latest time among them moves the cursor.  A
writer of the audit log inserts its row, reads the last hash that can be parsed and
appends its entry in two writes; it may stop between any two steps, and what is appended
after a torn line stands on that line.

### AgentTurns, TurnPolicy, McpServer (`app_server.rs`, `runner.rs`, `daemon.rs`, `mcp.rs`)

The daemon reads one pipe for all its sessions.  `Begin` sends `thread/start` or
`turn/start`, what comes before the response is kept, `ReadPipe` and `TakePending` go
through it, and a turn ends, fails or is given up on while the child goes on writing.
The child writes pieces of two kinds, deltas and completed messages; the turn collects the
former and remembers the last of the latter, which it returns if there were no deltas.
`TurnPolicy` has both readings of a policy, that of a cron job's message
(`resolve_cron_policy`) and that of a task (`resolve_task_policy`, `approval_policy`).
`McpServer` has for each server the request at hand: refused by policy or schema, failed,
or a change of the job file and then the answer, which is checked against its schema once
more.  `suspect` is history: who wrote a job last and has not been told of success.

### Plugins, PluginRules, PluginSources, SkillsSync (`plugins.rs`, `skills_sync.rs`)

A command is a sequence of steps (`Prepare`, `CopyFiles`, `Dependencies`, `DropBackup`,
`SaveRow`, `LoadRecords`, `SaveRecords`, `ClearSkills`, `WriteSkills`, `ExportMcp`, and
those of removal and of the overlay).  Each may meet an error or be the last before a kill.
An error ends the command (`?`: `Breaks` inside a step, `GiveUp` before it has an effect),
is undone (`Undo`, `Restore`, whose own errors the code ignores), or is passed over
(`DropBackup`); `errors` is history: it notes the step, and the plugin it was about.  Many
files written one by one are `Half` in between.  `PluginRules` are the functions on paths,
names and lists these steps use, with `ExportNext`, the loop of `export-mcp`: its keys are
names, of which two may be joined (`Prefixed`, given by the instance), so that a server may
be written over one whose name reads alike.  `PluginSources` are the functions before
the first of these steps: `InstallSource` tells which of a command's options counts and
whether it is a path, an npm spec or an address; `Prepared` fetches and unpacks it; and
`Manifest` says which plugin a directory is, by the manifests in it or by its name.  What
paths, specs and addresses lead to is a `world`, which is external.  A text is what stands
before and after its `#`, with the slashes as the ends of parts.

### Memory, MemoryText, MemoryPaths (`memory.rs`)

A sync lists, reads, compares, deletes and inserts in the order of `sync_memory_file`, each
SQL statement a step and the transaction one.  The contents of a file are the number of
its version.  `MemoryText` is the loop of `chunk_markdown` with the segments of a text as
their running lengths, `MemoryPaths` the functions that normalise and admit paths.

### MacApp, MacTools (`RuntimeManager.swift`, `ui_bridge.rs`)

`slot` are the three fields for `Process` objects, `child` the processes themselves,
`requests` and `lines` the two pipes of the bridge, `disk` and `shown` the settings as they
are and as the views show them; `saved` says whether the configuration has the permission at
all, which `applyConfig` leaves alone if not.  A start launches the children one by one (`WithChild`),
each unless its slot is taken, and may stop after any of them.  A bridge that a forced quit
left behind still carries out a request, and ends when it cannot answer (`BridgeLeft`).  `background`
are the `clawdex plugins list` of `refreshPluginsViaCli`, begun while no agent runs
(`Refresh`): a task reads (`TaskReads`), and shows what it read whenever it is ready
(`TaskShows`), or fails (`TaskFails`).  `older` is history: what is shown was read by a task
before the last change.  `MacTools` has the threads that copy the tools under a
lock and those that run them.

## 3. What the runs check

Run `tlc -config X.cfg M` with M from this table.  Deadlock is not checked where the
clock, the edits and the calls are bounded and everything may come to rest.

| run (module) | properties | instance |
|---|---|---|
| `CronExclusion` (`MCCronDaemon`) | `MutualExclusion` | two daemons, one repeating job, one edit, failing turns, one crash |
| `CronStarts` (`MCCronDaemon`) | `OneShotOnce`, `RunningIsLocked`, `NeverEarly` | one daemon, a one-shot and a repeating job in both wake modes, one edit, one crash |
| `CronRuns` (`MCCronRuns`) | `DaemonRanTruly`, `DueJobRuns`, `ServerReturns` | "alone": one daemon, two jobs, edits, no failing turn; "served": one daemon with its server, two one-shot jobs of which one has no prompt, two calls with two posts each, failing turns, one crash |
| `GatewaySends` (`MCGatewayRuns`) | `KeysAreQueued`, `ReceiptsAreTrue`, `TwiceOnlyIfLost`, `HandledInOrder`, `InboxIsHandled` | an MCP server and a daemon, one crash; "sends": two keys, two calls, no incoming message; "inbox": two incoming messages, one call of the daemon |
| `TaskRuns` (`MCTaskRun`) | `AnswersAreDecisions`, `OpenIsAwaited`, `CancelIsPrompt`, `KeepsPromise`, `RunsEnd` | one run, two requests (a deletion or a question), one notification before the last, one canceller, one crash, an app-server that may refuse, exit, reply late |
| `Memory` (`MCMemory`) | `OneVersion`, `SearchIsFresh`, `Remembered`, `NothingSkipped`, `FollowerEnds` | one file with two versions, two processes that sync, one kill; two recorders, four events in three milliseconds, pages of three |
| `Stores` (`MCStores`) | `PartsAgree`, `LastCopyIsKept`, `ChainIsLinear` | two plugins (one bundled, one with a server), two versions, three commands, two mishaps (errors or kills); two writers of one audit log, three records, one that stops |
| `GatewayAccess` (`MCGatewayAccess`) | `AnswersStayTrue`, `RotationLeavesOne`, `ActiveIsListed` | the HTTP thread and one WebSocket, two tokens, one code, one kill; two connections of one client or of two |
| `Rules` (`MCRules`) | `NextIsFirst`, `PlanHolds`, `AnnouncedOnRecord`, `RepliesGoBack`, `ServersAreKept` | every schedule with interval, instant and anchor up to 5, clock up to 14; every mix of older and newer settings in a job and three edits; two contacts, three jobs and a heartbeat, routes that age; every export of two plugins with up to three servers each in any order, of which one is named like a join of two names, and of three plugins of which two join alike, under lists of two names; as assumptions, every text of up to four parts and every directory with any of three manifests (`SpecsAreReadBack`, `CopiesAreSame`) |
| `Agents` (`MCAgents`) | `TextIsOwn`, `UnshownIsSuspect`, `SyncedIsWhole`, `ChunksCover`, `NoOrphans`, `SettingsSettle`, `InstalledIsWhole` | three sessions, two turns of two pieces each; two tool servers and one job; two skills at two targets, two versions, one kill; texts of up to four segments; three children, five starts; one agent started twice, three changes of settings, two lists in the background, one death; three threads, two tools, one forced end |

A run whose module has several *parts* (`Memory`, `Stores`, `GatewayAccess`, `Rules`, `Agents`) is a
sum of specifications that share no state: a behaviour is one of a single part, chosen in
its first state, so that each part has the states it would have alone.  The *settings* of
`CronRuns` and `GatewaySends` are two ways to bound one specification; each takes away
what the other has in full, and none takes away a step of a process that has begun.
Those of `CronRuns` are told apart by the jobs a behaviour begins with, which no step can
confuse (`IsServed`); those of `GatewaySends` by a variable that never changes.

**Why the bounds are enough.**  The hazards are stale copies and lost positions; each
needs one process that holds a copy and one that writes in between.  Two processes, one
crash and one edit per behaviour reach all of them, and the faulty variants are found
within these bounds.  Two jobs are enough for the loop's lists (one executed, one
waiting); a clock up to 2 lets an interval of 1 fall due twice.  The counter `oks`
stops at 2 because the property asks for "more than one".  In `TaskRuns` two
requests are enough for a late answer to one to meet the thread while it waits for the
other, and one notification before the last for a cancel to be overlooked twice; runs
share nothing but the broker's map and the server's thread, and both are keyed by the
request.  In `Memory` two versions let a file change under a sync; four events exceed a
follower's page of three.  Two tokens are a rotation's old and new one.  Three commands on plugins
are an install, a failing or killed one and the repair; two mishaps are an error and that
of its undo, or errors of two plugins.  The background tasks of the
application are interchangeable (`SYMMETRY AnyTask`; the run has no liveness property).  Texts of four segments,
the longest longer than a chunk, reach every way a chunk is closed and carried over.
Section 4 lists the properties that are proved without any bound.

**Fairness.**  `CronRuns` asks, in the setting "alone", that the loop's thread and the
clock go on whenever they can, and in the setting "served" that the loop's and the
server's thread do (weak fairness of all steps of a thread together); this includes that a
turn ends, which app-server reports, and does not include that a client gives up, that a
process restarts, or any edit.  `CronFindRestart` adds that somebody starts a daemon
again.  `GatewaySends` asks the same of senders, daemons and the gateway's thread: every
wait of a sender is bounded by the HTTP client's timeout.  `TaskRun!FairSpec` asks that
the threads of the runs and the server's answer go on, which includes that `recv_timeout`
elapses, and of the external app-server that it replies to a request and ends a turn that
waits for nothing; clients, cancellers, notifications and exits are free to come or not.
`Memory` asks that a process that syncs goes on (`Remembered` speaks of behaviours in
which none is killed), and that the follower does.  The other runs have no liveness
property and assume none.

**What the properties do not say.**  Several exclude, by a history variable, the case in
which the code gives no guarantee at all, and the exclusion is part of their statement:
`ChainIsLinear` two writers at once, `OneVersion` and `SearchIsFresh` two syncs at once,
`AnswersStayTrue` and `RotationLeavesOne` overlapping or killed saves of the token file,
`InstalledIsWhole` a reinstallation on request that broke off, `NothingSkipped` late
inserts and crowded milliseconds, `RepliesGoBack` a conversation another answer was sent
in the name of, `PlanHolds` a delivery given together with older fields, `SettingsSettle`
a line that was lost, an agent that was late, an edit that is not saved, and for the
switch a list that a task read before the last change.  `PartsAgree` names the errors after
which the code repairs nothing (an undo that failed itself, a row that could not be written
after its files, `installs.json`, the writing of skills), each for the plugin it happened
to where that is so, and says nothing once a command was killed.  `DaemonRanTruly` allows
`ran: true` for a job that was passed over, as long as it has no message or a crash had left
its lock.  `ServersAreKept` allows a server to be lost only to one whose joined name is its
own.  Each excluded case is reachable in its model and listed below.

### Where code and documents disagree

| run | property | what the run shows |
|---|---|---|
| `CronFindRestart` | `RunsAfterRestart` | the lock file of a killed daemon keeps its job from ever running again (`BASELINE.md:263`) |
| `GatewayFindTwice` | `KeyPreventsDuplicates` | a post that timed out, then another message, then the first call again: the first message is queued twice (`TEMPLATE_PACK.md:366`) |

Further observations, made while the code was modelled; they are part of the models and
have no run of their own.

*Scheduler.*  A failing turn drops the pending jobs behind it (`daemon.rs:166`, against
`compat/clawd-compat.yaml:36`).  A manual run that the client gives up on runs a one-shot
job twice (`mcp.rs:496`, `BASELINE.md:115`).  A failed turn is logged as `queued`
(`cron.rs:1609`).  Without a daemon `cron.run` answers `ran: true` for a job that was only
queued (`cron.rs:1730`).  A one-shot job whose turn ends in an error stays due and starts
again on every tick (`cron.rs:1551`).  An `everyMs` of zero divides by zero
(`cron.rs:120`).  Jobs with a schedule that does not parse are accepted and never due.
The daemon answers `ran: true` for a job that it passed over because it has no message or
its lock file is there (`daemon.rs:305`, `daemon.rs:352`).

*Deliveries.*  A delivery that is given together with older fields is overridden by them at
the next load, after the user was answered with it; so is the answer to a patch of older
fields if the payload had a channel before: `update_job` merges the fields of the patch
alone (`cron.rs:1408`), the next load those of the whole payload (`told` is `None` then, see
`Telling`).  A job without `sessionTarget` gets a delivery on load that no update accepts.
"The last route" without a session is the first by the order of channels.  A heartbeat with
a channel and no address posts to another channel's address.  An empty answer is a failed
delivery when announced, and nothing when it goes to a webhook.  Best effort without any
target is recorded as completed (`daemon.rs:545`, against `COMPATIBILITY.md:71`).  An
announcement in the name of a conversation redirects its replies.

*Gateway.*  A WebSocket that marks its token used may undo a revocation made meanwhile, drop
a token just made, or leave the file torn.  A kill between the saves of a rotation loses
the new token's delivery to its client, and a code that expires after its approval leaves a
token nobody was given.  Closing one of two connections shows their client as gone.

*Task runs.*  The final status is saved before the last events and the follower may stop in
between (`tasks.rs:616`, against `main.rs:199`); two hundred events in one millisecond stall
it.  A turn that failed without an error is recorded as completed (`app_server.rs:382`).
An interrupt that comes after the end of its turn may turn a completed run into a failed
one.  Two writers fork the audit chain (`WORK.md:448`), and an entry and its line end are
two writes.  A request of app-server that is not supported is never answered
(`app_server.rs:528`): the daemon's loop hangs.  Warnings of a failed turn are shown with
the next one, and a dead child of the daemon is not started again.

*Tools.*  A job with a schedule in an accepted but unusual spelling (`every_ms`) is stored as
given: the call takes effect and is answered with an error, and every later `cron.list`
fails until the job is changed (`mcp.rs:1084`).

*Memory.*  The full-text score is largest for the worst match (`memory.rs:313`).
`memory_write` answers with a path below the state directory that `memory_get` looks for in
the workspace; a hidden extra directory is shown without its dot.  Two syncs at once may
leave a file twice or in an old version (`memory.rs:594`); an embedding that failed for
some chunks is never completed (`memory.rs:559`).

*Plugins and skills.*  The skills of a disabled plugin stay in the overlay (`README.md:480`).
A first install that was killed while it copied can be neither added, updated nor
removed.  A torn `installs.json` parses as empty.  An update whose row cannot be written has
dropped its backup already and leaves the new files under the old row (`plugins.rs:2006`).
A server whose key is joined from a plugin and a name may be written over another one of
that name (`plugins.rs:3013`).  A plugin from npm or git without a manifest gets
its id from the temporary directory it was unpacked in ("package", "repo").  A plugin whose only root lies outside
the policy keeps all the policy's roots.  In a sync of skills a link whose source has
vanished fails the run, and skills that were removed at the source stay.

*macOS application.*  It never notices that a child has ended; stop and start in quick
succession leave a daemon that cannot bind; a list of plugins that was begun before the
agent was started may be shown after a later change (`RuntimeManager.swift:819`); a line that two reads share is lost; and a
reinstallation that was broken off leaves part of the tools on record as whole.

## 4. What is proved

`tlapm` checks the eight modules of proofs; nothing in them is assumed but the named
assumptions on constants, each of which TLC evaluates in a run (`ASSUME` in the modules
beside the constants it is about), and the hypotheses that a theorem states.

The scheduler, `CronDaemonProofs`:

* `PlansAreFirst`: `NextIsFirst` for all schedules and instants.  It rests on
  `EveryNextFirst` (division: the result is a positive multiple after the anchor, not
  over, and the least such) and its counterpart for the grid of a cron expression.
* `TypeCorrect`: `TypeOK` for any jobs, daemons, requests, edits and crashes.  `TypeOK`
  alone is not inductive: a daemon that executes needs a job (`HasJob`), and a request
  that is served or queued was made for one (`AsksForJob`).
* `Exclusion`: `MutualExclusion` for any number of daemons.  The strengthening `LockHeld`
  says that a daemon between acquiring and releasing has its job's lock file on disk; a
  crash leaves the file (and with it the problem of `CronFindRestart`), which is exactly
  what keeps exclusion across crashes.
* `RunningIsLockedCorrect`, for one daemon, no failing turn and no job marked from the
  start: by `MarksInv`, which says the same of the copies that `collect_due_jobs` has read
  and is about to write back, and that the mark is gone before the lock.
* `OneShotOnceCorrect`, for one daemon, no manual runs and patches that keep the kind of
  schedule (`OneShotsStay`): `ListsInv` (a job is in one list, once) and `OnceInv` (a job
  that has ended well is `Fired` in the file and in every copy of it, and in no list).
* `NeverEarlyCorrect`, for one daemon and no manual runs: by `EarlyInv`, a job in a list or
  about to be marked is ready, in the file and in the copy that is written back.
* `DaemonRanTrulyCorrect`, for one daemon, any jobs and calls: by `AnswerInv`, the server
  waits for the one command that is in the channel or under execution, the loop answers
  that very one with what `did` has of it (`Executed`), and until a crash a lock is of the
  job being executed, so that only a job without a message is passed over.

The gateway, `GatewayProofs` and `GatewayAccessProofs`:

* `GatewayProofs!TypeCorrect`: besides "who is at work has a message of the right kind" it
  needs `Awaited`: a request that is still to be answered belongs to a sender that waits
  with the same key, and no two requests to the same sender.  This is what makes an answer
  safe to believe after timeouts and retries.
* `KeysCorrect`, `ReceiptsCorrect`: by `DeliveryInv`, which adds to the two properties what
  the processes are about to write: the copies of `idempotency.json` they hold, and the
  key of the message they were told about.
* `OnceCorrect`: by `OnceInv`: a key of the outbox is saved, lost, or the one just appended
  (`Known`), so a key that the thread has not found is a new or a lost one (`NewOrLost`).
* `OrderCorrect`, for one daemon: by `OrderInv`: what was drained and not handled is in
  order, after all that was handled, and before the offset that is saved or about to be.
* `AnswersStayTrueCorrect`, `RotationLeavesOneCorrect`: by `AccessInv`.  While no save of
  the tokens met another or a kill, the file and every fresh copy about to be saved are
  `Good`: they have the tokens that were handed out, none valid that was reported as gone and,
  for each token that was rotated away, its heir; a file that cannot be read is about to
  be written by the one who cut it; and `Promised` says what the copy of a request has.
* `ActiveIsListedCorrect`: by `PresenceInv`: the entry of a client that keeps sending is as
  recent as its last message (`ActiveIsRecent`), whoever shares its key.

Task runs and what is recorded, `TaskRunProofs` and `RecordsProofs`:

* `TaskRunProofs!TypeCorrect`: a thread in the broker has a request, and one that goes to
  answer it a decision (`HasAsk`).
* `AnswersCorrect`, `OpenCorrect`: by `AnswerInv`.  A request has a past once it was
  answered or a client decided about it (`Past`); the requests of one app-server are
  numbered, so a new one has none (`FreshAt`); those in a pipe have none and are there once
  (`PipedAt`); and what lies in a thread's channel is what a client was told about the very
  request the thread waits for (`CurrentAt`), which is what a late answer could break.
* `PromptCorrect`: after a late notification the thread is before the check, waits for the
  reply to `turn/interrupt`, has sent it, or is out of the turn (`PromptAt`).
* `PromiseKept`: `TaskRun` implements `RunPromise`.  The word "interrupted" in a pipe,
  among the pending notifications or in a thread's result has a cause that the database
  shows (`InterruptedAt`), and status and place of a thread agree (`EndsAt`); then each
  step is a step of `RunPromise` or a stutter (`PromiseStep`).
* `ChainIsLinearCorrect`: by `AuditInv`: as long as no two writers have met inside an entry,
  one at most is inside one, and the hash it has read is still that of the last entry.
* `NothingSkippedCorrect`: by `FollowInv`: nothing printed is after the cursor
  (`PrintedOK`), what is behind it was dealt with (`BehindOK`: printed, before the tail,
  inserted late, or excused by a crowded millisecond), and after a poll that brought
  nothing so was all it could see (`CompleteOK`): then the page holds only rows of the
  cursor's millisecond, so that what it leaves out is excused.
* `OneVersionCorrect`, `SearchIsFreshCorrect`: by `MemoryInv`: one sync runs at a time, and
  at each of its steps the row, the text and the list of files are of one version, or the
  step that mends them is still to come (`RowOK`, `TextOK`, `ListOK`).

Agents and the application, `AgentsProofs`:

* `TextIsCovered`: `ChunksCover`, by `TextInv`: the chunks made so far are `Chained` and end
  before `next`, and what is collected begins in the last chunk or right after it
  (`Continues`).  `ChunksAreBounded` (not checked by a run): no chunk is longer than the
  overlap and two full segments; what is collected is within the limit (`FitInv`), since a
  carried part is shorter than the overlap but for its first segment.
* `UnshownIsKnown`: `UnshownIsSuspect`, by `McpInv`: while the last writer of a job waits for
  its answer, what its answer is checked with is that very job.
* `RecordedToolsAreWhole`: `InstalledIsWhole`, by `ToolsInv`: only the holder of the lock is
  at a stage of copying, at the last one all files are there, and tools that are on record
  and not whole are being reinstalled on request, or were (`halved`).
* `SyncEndsWhole`: `SyncedIsWhole`, by `SyncInv`: of the entries of a run those still to do,
  the one at hand at its stage, and the finished ones are apart, and the latter are whole
  in the version of the run.
* `SessionsAreApart`: `ThreadsAreApart`, by `ThreadsInv`: threads the child has made and the
  daemon has not heard of are in answers of the pipe, no two alike.
* `TextIsOwnCorrect`: by `FollowInv` (`IdsOK`, `NotesOK`, `Followed`, `Returned`): turns are
  numbered and so are the deltas and the messages of each, and what the daemon has not
  handled of the turn it reads or is going to read goes on where its text, and the number
  of the message it remembers, end.
* `NoOrphansCorrect`, `SettingsSettleCorrect`: by `MacInv`: a child that runs and was not told
  to end is in the slot of its kind (`SlotsOK`), and the settings that are still to come,
  from the files, the pipes and the requests on their way, end with those on disk
  (`SettingsCome`); and what a task of the background has read is still so, or will be
  shown as older.

Rules, deliveries and plugins, `RulesProofs` and `PluginsProofs`:

* The layers of a turn's policy (`ReadOnlyJobWritesNothing`, `JobWritesInItsRoots`,
  `LabelMatchesSandbox`, `SilentPolicyKeepsAll`, and `TasksReadPoliciesAsJobs`: a task
  reads a policy as a job without a workspace does) and the hours of a heartbeat
  (`EveryMinuteOnce`, `HeartbeatRuns`, `HeartbeatsAreApart`), directly from the definitions.
* `ServersAreExportedOnce`: `ServersAreKept`, by `ExportInv`: each key holds a permitted
  server of a plugin that is done, under its own name or the plugin's and its name; each
  such server is there unless a later one took its key, which then is the later one's
  joined name; and no two keys hold the same.  Nothing is assumed about names.
* On functions: `SyncLeavesExactly` and `RemovalUndoesSync` (skills of a plugin),
  `PermissionsNarrow`, `DoctorKnowsPaths`, `MergeIsIdempotent` (configuration),
  `ShownCanBeRead` (what a search shows of a workspace file, `memory_get` reads; the
  hypothesis on the leading dot is needed), `CopyIsSamePlugin` (the directory a plugin is
  copied to is of the plugin that was announced), `ProbeFindsInstalled` (an update finds
  nothing new where nothing is) and `GitSpecIsReadBack` (the recorded spec of a git source
  leads to the same repository and folder).
* `RecordCorrect`, `RepliesCorrect`: by `AnnounceInv`: every route has the channel and the
  address of somebody (`RoutesOK`), a conversation that waits for its reply still has its
  own route unless that was noted as moved (`UnreadOK`), and the job in the file has
  settings of the right types, through every load, patch and merge (`IsJob`).
* `PlanHoldsCorrect`: `PlanHolds`, by the same invariant and two facts about a load.  A job is
  `Ready` when its payload is normal, a main job has no delivery but a webhook, and the older
  fields of a turn are gone or merged already.  `LoadedPlan`: to load a job that is ready
  leaves its plan (older fields that are merged twice are merged once, `MergedAgain`);
  `LoadedIsReady`: what was loaded is ready.  What is added, or changed and told, is ready
  too (`AddedIsReady`, `UpdatedIsReady`).  The lemmas before say what each operator makes of
  each field; a settings object is known by its fields (`SettingsEqual`).
* `PluginsProofs!TypeCorrect`, `LastCopyCorrect`: by `TypeInv` and `FilesInv`, which says what
  is under `plugins/<id>` at each step of an installation: nothing, a part, or the version
  that is being installed.
* `PluginsProofs!PartsCorrect`: by `JobsInv` (a plugin that a sync found disabled is so until
  its turn); without a kill `RowsInv` (a row is of the files on disk but at the steps that
  exchange the two, and after the errors of this plugin that nothing repairs), `RecordsInv`
  (the same of `installs.json`, and of the copy of it that is about to be saved) and
  `SkillsInv`: an enabled plugin is shown (`ShownOK`) but while its own skills are written,
  or after they could not be, or while the overlay is rebuilt, when what is not there is
  still to do (`NestedOK`).

Only model-checked: the liveness properties (`DueJobRuns`, `ServerReturns`,
`InboxIsHandled`, `RunsEnd`, `Remembered`, `FollowerEnds`), which need fairness and are out
of the prover's reach.

## 5. What is not modelled

* Two processes that edit `jobs.json` at once: an edit is one step.  (The copy that
  `collect_due_jobs` holds across steps is modelled.)
* Half-written files, but for the tokens and codes of the gateway, the files of plugins
  and skills and the lines of the audit log.
* Messages without a session, accounts, attachments; sends of WebSocket clients, which run
  beside the HTTP thread; scopes of tokens; events that are broadcast to clients.
* Schedules with an interval of zero, which end the process by a division by zero, and
  the width of `i64`, which no instant in milliseconds comes near.
* Task runs that resume or fork another run's thread, approvals asked for at a terminal,
  the events that copy notifications, reports and packets of an audit.
* Manifests, archives, npm, templates of skills, the schema of the memory index and its
  ranking, requests to providers of embeddings: parsing, or data of other programs.
* Plugins whose ids begin alike, names that two plugins share, and plugins added with
  `--link`; in the application, plugins that come and go between two lists.
* The command line (`main.rs`), which dispatches to the above one command at a time;
  parsing and formatting (`text_sanitize.rs`); the application's views, its peer help and
  its skills hub.
* `clawdex/share`, an earlier state of the same sources, and `clawdex/vendor`, a library.

## 6. Plan

All modules of the plan are written: the scheduler, the gateway in and out, task runs
with `RunPromise` as their abstract specification, the follower, the audit log, tokens and
presence, deliveries, agents' turns and tools, plugins, skills, memory and the application.
Left for the future: two editors of `jobs.json`, once the code has a lock for them; a second
thread in `Gateway` that queues.  Where a new module's questions
fit an existing run's module they are asked there, so that the number of runs stays small.
