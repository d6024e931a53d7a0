-------------------------------- MODULE MacApp --------------------------------
(***************************************************************************)
(* The macOS application (macClawdex/Sources/Clawdex/RuntimeManager.swift)  *)
(* and the bridge it talks to (clawdex/src/ui_bridge.rs).                   *)
(*                                                                         *)
(* The application runs three children: the agent (clawdex ui-bridge), the  *)
(* daemon and the gateway.  It is never told that a child has ended.  It    *)
(* writes requests, one a line, to the agent, which answers them in order;  *)
(* what the agent writes is read in chunks, and a line that two chunks      *)
(* share is lost.  Of the settings there are two: a permission, edited in a *)
(* form and saved, which the configuration may not have yet; and the switch *)
(* of a plugin's MCP server, which changes at once and is corrected by the  *)
(* next list of plugins.  While no agent runs, plugins are listed by a      *)
(* command in the background, whose list is shown whenever it is ready.     *)
(* Plugins that come and go between two lists are not looked at.            *)
(***************************************************************************)
EXTENDS Naturals, Sequences, FiniteSets

CONSTANTS
  ChildKinds,                \* of children
  NoChild,
  Values,               \* of the permission
  Unset,                \* the one of a new form, and where the configuration has none
  Tasks,                \* in the background, that list plugins
  MaxStarts,            \* bounds: children started,
  MaxRequests,          \*   requests on their way,
  MaxClicks,            \*   what the user does to the settings, or to the application,
  MaxDeaths             \*   children that end by themselves

ASSUME ChildKindsAssumption == {"agent"} \subseteq ChildKinds /\ ChildKinds \subseteq {"agent", "daemon", "gateway"}
ASSUME ValuesAssumption == Unset \in Values
ASSUME NoChildAssumption == NoChild \notin Nat
ASSUME MacBounds ==
  /\ MaxStarts \in Nat /\ MaxRequests \in Nat /\ MaxClicks \in Nat /\ MaxDeaths \in Nat

VARIABLES
  slot,                 \* process, daemonProcess, gatewayProcess
  running,              \* isRunning
  stdinPipe,            \* the agent at its other end
  child,                \* every process started: [kind, state]
  port,                 \* the processes that serve the ports of daemon and gateway
  requests, lines,      \* on their way to and from each agent
  disk,                 \* config.json; saved: it has the permission
  shown, edited,        \* the settings in the application, an unsaved edit
  background,           \* what each task has done, and read
  older,                \* history: the switch shown was read before the last change
  hasKey,               \* the keychain holds an API key
  clicks, deaths,
  unheard               \* history: a line lost, or a former agent late

settings == <<disk, shown, edited, background, older>>
children == <<slot, running, stdinPipe, child, port>>
queues   == <<requests, lines>>
bounds   == <<clicks, deaths>>
macVars  == <<children, queues, settings, hasKey, bounds, unheard>>

Listeners == ChildKinds \ {"agent"}
NoSlots == [k \in ChildKinds |-> NoChild]
Fresh == [permission |-> Unset, switch |-> FALSE]
NoTask  == [at |-> "idle", switch |-> FALSE, current |-> FALSE]
NoTasks == [t \in Tasks |-> NoTask]

MacInit ==
  /\ slot = NoSlots /\ running = FALSE /\ stdinPipe = NoChild
  /\ child = <<>> /\ port = [k \in Listeners |-> NoChild]
  /\ requests = <<>> /\ lines = <<>>
  /\ disk = [permission |-> Unset, switch |-> FALSE, saved |-> FALSE]
  /\ shown = Fresh /\ edited = FALSE /\ background = NoTasks /\ older = FALSE
  /\ hasKey \in BOOLEAN
  /\ clicks = 0 /\ deaths = 0 /\ unheard = FALSE

Clicks == clicks < MaxClicks /\ clicks' = clicks + 1
Alive(p) == p # NoChild /\ child[p].state # "gone"

-----------------------------------------------------------------------------
(* Requests.  What is written to a pipe nobody reads is lost.               *)

Sent(reqs, p, more) ==
  [q \in DOMAIN reqs |-> IF q = p /\ Alive(p) THEN reqs[q] \o more ELSE reqs[q]]
Room(n) == stdinPipe # NoChild => Len(requests[stdinPipe]) + n <= MaxRequests

Config  == [ask |-> "config"]
Plugins == [ask |-> "plugins"]
Update(key, value) == [ask |-> "update", key |-> key, value |-> value]

-----------------------------------------------------------------------------
(* Children.                                                                *)

(* One more child, unless its slot is taken.  The agent is asked for the    *)
(* settings.                                                                *)
WithChild(now, k) ==
  IF k \notin ChildKinds \/ now.slot[k] # NoChild THEN now
  ELSE [slot |-> [now.slot EXCEPT ![k] = Len(now.child) + 1],
        child |-> Append(now.child, [kind |-> k, state |-> "new"]),
        requests |-> Append(now.requests, IF k = "agent" THEN <<Config, Plugins>> ELSE <<>>),
        lines |-> Append(now.lines, <<>>)]
Now == [slot |-> slot, child |-> child, requests |-> requests, lines |-> lines]
Launched(now) ==
  /\ Len(now.child) <= MaxStarts
  /\ slot' = now.slot /\ child' = now.child /\ requests' = now.requests /\ lines' = now.lines

(* start: the daemon, the gateway and, with a key, the agent.  Starting one *)
(* may fail; the later are not tried.                                       *)
StartAll ==
  /\ ~running
  /\ LET withDaemon  == WithChild(Now, "daemon")
         withGateway == WithChild(withDaemon, "gateway")
     IN \/ /\ Launched(Now) \/ Launched(withDaemon) \/ Launched(withGateway)
           /\ UNCHANGED <<running, stdinPipe>>
        \/ /\ hasKey /\ "agent" \in ChildKinds /\ Launched(WithChild(withGateway, "agent"))
           /\ running' = TRUE /\ stdinPipe' = slot'["agent"]
  /\ UNCHANGED <<port, settings, hasKey, bounds, unheard>>

(* stop: every child is told to end, none is waited for.                    *)
InState(p, state) == [child[p] EXCEPT !.state = state]
StopAll ==
  /\ child' = [p \in DOMAIN child |->
       IF p \in {slot[k] : k \in ChildKinds} /\ Alive(p) THEN InState(p, "ending") ELSE child[p]]
  /\ slot' = NoSlots /\ running' = FALSE /\ stdinPipe' = NoChild
  /\ UNCHANGED <<port, queues, settings, hasKey, bounds, unheard>>

\* Faulty: the guard is gatewayRunning of another start.
EnsureGatewayAgain ==
  /\ "gateway" \in ChildKinds /\ Len(child) < MaxStarts
  /\ child' = Append(child, [kind |-> "gateway", state |-> "new"])
  /\ slot' = [slot EXCEPT !["gateway"] = Len(child) + 1]
  /\ lines' = Append(lines, <<>>) /\ requests' = Append(requests, <<>>)
  /\ UNCHANGED <<running, stdinPipe, port, settings, hasKey, bounds, unheard>>

EnsureGateway ==
  /\ "gateway" \in ChildKinds /\ slot["gateway"] = NoChild
  /\ Launched(WithChild(Now, "gateway"))
  /\ UNCHANGED <<running, stdinPipe, port, settings, hasKey, bounds, unheard>>

(* The daemon and the gateway bind their port, or end if it is taken.       *)
Bind(p) ==
  LET k == child[p].kind IN
  /\ child[p].state = "new"
  /\ IF k = "agent" \/ port[k] = NoChild
       THEN /\ child' = [child EXCEPT ![p] = InState(p, "up")]
            /\ port' = [x \in DOMAIN port |-> IF x = k THEN p ELSE port[x]]
       ELSE child' = [child EXCEPT ![p] = InState(p, "gone")] /\ UNCHANGED port
  /\ UNCHANGED <<slot, running, stdinPipe, queues, settings, hasKey, bounds, unheard>>

Ends(p) ==
  /\ child' = [child EXCEPT ![p] = InState(p, "gone")]
  /\ port' = [k \in DOMAIN port |-> IF port[k] = p THEN NoChild ELSE port[k]]
  /\ requests' = [requests EXCEPT ![p] = <<>>]

(* A child that was told to end does so, and an agent at the end of its     *)
(* input.                                                                   *)
End(p) ==
  /\ child[p].state = "ending" \/ (child[p].kind = "agent" /\ child[p].state = "left")
  /\ Ends(p)
  /\ UNCHANGED <<slot, running, stdinPipe, lines, settings, hasKey, bounds, unheard>>

(* One ends by itself: an error in a request ends the bridge, for example.  *)
ChildEnds(p) ==
  /\ child[p].state = "up" /\ deaths < MaxDeaths /\ deaths' = deaths + 1
  /\ Ends(p)
  /\ UNCHANGED <<slot, running, stdinPipe, lines, settings, hasKey, clicks, unheard>>

(* The application is ended by force and started again.  Its children go    *)
(* on; what they and its tasks would tell is lost.                          *)
KillApp ==
  /\ Clicks
  /\ child' = [p \in DOMAIN child |->
       IF Alive(p) /\ (child[p].kind = "agent" \/ child[p].state # "ending")
         THEN InState(p, "left") ELSE child[p]]
  /\ slot' = NoSlots /\ running' = FALSE /\ stdinPipe' = NoChild
  /\ lines' = [p \in DOMAIN lines |-> <<>>]
  /\ shown' = Fresh /\ edited' = FALSE /\ background' = NoTasks /\ older' = FALSE
  /\ UNCHANGED <<port, requests, disk, hasKey, deaths, unheard>>

SetKey ==
  /\ ~hasKey /\ hasKey' = TRUE
  /\ UNCHANGED <<children, queues, settings, bounds, unheard>>

-----------------------------------------------------------------------------
(* The bridge handles a request and writes its answer.  An update puts what *)
(* it has into the configuration, and the rest stays; the answer is all of  *)
(* the configuration.                                                       *)

After(r) ==
  IF r.ask # "update" THEN disk
  ELSE IF r.key = "permission" THEN [disk EXCEPT !.permission = r.value, !.saved = TRUE]
                               ELSE [disk EXCEPT !.switch = r.value]
AnswerTo(r) ==
  IF r.ask = "plugins" THEN [type |-> "plugins_list", switch |-> After(r).switch]
  ELSE [type |-> "config", permission |-> After(r).permission, saved |-> After(r).saved]
Saves(r) ==
  /\ disk' = After(r)
  /\ background' = [t \in Tasks |->
       [background[t] EXCEPT !.current = @ /\ After(r).switch = disk.switch]]
BridgeAnswers(p) ==
  /\ child[p].kind = "agent" /\ child[p].state \in {"up", "ending"}
  /\ requests[p] # <<>> /\ Len(lines[p]) < MaxRequests
  /\ LET r == Head(requests[p]) IN
     Saves(r) /\ lines' = [lines EXCEPT ![p] = Append(lines[p], AnswerTo(r))]
  /\ requests' = [requests EXCEPT ![p] = Tail(requests[p])]
  /\ UNCHANGED <<children, shown, edited, older, hasKey, bounds, unheard>>

(* One that the application left behind cannot write its answer, and ends.  *)
BridgeLeft(p) ==
  /\ child[p].kind = "agent" /\ child[p].state = "left"
  /\ requests[p] # <<>> /\ Saves(Head(requests[p]))
  /\ unheard' = (unheard \/ disk' # disk)
  /\ Ends(p)
  /\ UNCHANGED <<slot, running, stdinPipe, lines, shown, edited, older, hasKey, bounds>>

(* applyConfig: what the configuration has replaces what the form shows.    *)
ApplyConfig(line) ==
  /\ shown' = IF line.saved THEN [shown EXCEPT !.permission = line.permission] ELSE shown
  /\ edited' = (edited /\ ~line.saved)
  /\ UNCHANGED older

(* applyPlugins, of an agent's line or a task's list                        *)
ApplyPlugins(switch, current) ==
  /\ shown' = [shown EXCEPT !.switch = switch]
  /\ older' = ~current
  /\ UNCHANGED edited

\* Faulty: a new configuration leaves the plugins as they are.
HandleConfigOnly(p) ==
  /\ lines[p] # <<>>
  /\ LET line == Head(lines[p]) IN
     IF line.type = "config" THEN ApplyConfig(line)
                             ELSE ApplyPlugins(line.switch, TRUE)
  /\ lines' = [lines EXCEPT ![p] = Tail(lines[p])]
  /\ unheard' = (unheard \/ p # stdinPipe)
  /\ UNCHANGED <<children, requests, disk, background, hasKey, bounds>>

(* handleOutput: with every configuration the plugins are asked for.        *)
HandleLine(p) ==
  /\ lines[p] # <<>>
  /\ LET line == Head(lines[p]) IN
     IF line.type = "config"
       THEN ApplyConfig(line) /\ Room(1) /\ requests' = Sent(requests, stdinPipe, <<Plugins>>)
       ELSE ApplyPlugins(line.switch, TRUE) /\ UNCHANGED requests
  /\ lines' = [lines EXCEPT ![p] = Tail(lines[p])]
  /\ unheard' = (unheard \/ p # stdinPipe)
  /\ UNCHANGED <<children, disk, background, hasKey, bounds>>

(* A line that was read in two chunks parses in neither.                    *)
LoseLine(p) ==
  /\ lines[p] # <<>>
  /\ lines' = [lines EXCEPT ![p] = Tail(lines[p])] /\ unheard' = TRUE
  /\ UNCHANGED <<children, requests, settings, hasKey, bounds>>

-----------------------------------------------------------------------------
(* The user.                                                                *)

Edit ==
  /\ Clicks
  /\ \E v \in Values \ {shown.permission} : shown' = [shown EXCEPT !.permission = v]
  /\ edited' = TRUE
  /\ UNCHANGED <<children, queues, disk, background, older, hasKey, deaths, unheard>>

(* updatePermissions, by a button that needs a running agent.               *)
SavePermission ==
  /\ Clicks /\ running /\ Room(1)
  /\ requests' = Sent(requests, stdinPipe, <<Update("permission", shown.permission)>>)
  /\ UNCHANGED <<children, lines, settings, hasKey, deaths, unheard>>

(* setPluginMcpEnabled *)
Toggle ==
  /\ Clicks /\ running /\ Room(1)
  /\ requests' = Sent(requests, stdinPipe, <<Update("switch", ~shown.switch)>>)
  /\ shown' = [shown EXCEPT !.switch = ~@]
  /\ UNCHANGED <<children, lines, disk, edited, background, older, hasKey, deaths, unheard>>

(* The settings window opens.                                               *)
OpenSettings ==
  /\ Clicks /\ running /\ Room(2)
  /\ requests' = Sent(requests, stdinPipe, <<Config, Plugins>>)
  /\ UNCHANGED <<children, lines, settings, hasKey, deaths, unheard>>

(* refreshPluginsSnapshot, by the list of plugins that opens, by a button   *)
(* or after a command on a plugin: the agent is asked, or a task begins.    *)
Refresh ==
  /\ Clicks
  /\ \/ /\ running /\ Room(1) /\ requests' = Sent(requests, stdinPipe, <<Plugins>>)
        /\ UNCHANGED background
     \/ /\ ~running
        /\ \E t \in Tasks : /\ background[t] = NoTask
                            /\ background' = [background EXCEPT ![t].at = "begun"]
        /\ UNCHANGED requests
  /\ UNCHANGED <<children, lines, disk, shown, edited, older, hasKey, deaths, unheard>>

-----------------------------------------------------------------------------
(* Tasks: refreshPluginsViaCli runs clawdex plugins list, and shows what it *)
(* says whether or not an agent runs by then.                               *)

TaskReads(t) ==
  /\ background[t].at = "begun"
  /\ background' = [background EXCEPT ![t] = [at |-> "read", switch |-> disk.switch, current |-> TRUE]]
  /\ UNCHANGED <<children, queues, disk, shown, edited, older, hasKey, bounds, unheard>>

TaskShows(t) ==
  /\ background[t].at = "read" /\ ApplyPlugins(background[t].switch, background[t].current)
  /\ background' = [background EXCEPT ![t] = NoTask]
  /\ UNCHANGED <<children, queues, disk, hasKey, bounds, unheard>>

TaskFails(t) ==
  /\ background[t].at # "idle" /\ background' = [background EXCEPT ![t] = NoTask]
  /\ UNCHANGED <<children, queues, disk, shown, edited, older, hasKey, bounds, unheard>>

MacNext ==
  \/ StartAll \/ StopAll \/ EnsureGateway \/ KillApp \/ SetKey
  \/ Edit \/ SavePermission \/ Toggle \/ OpenSettings \/ Refresh
  \/ \E t \in Tasks : TaskReads(t) \/ TaskShows(t) \/ TaskFails(t)
  \/ \E p \in DOMAIN child : Bind(p) \/ End(p) \/ ChildEnds(p) \/ BridgeAnswers(p)
                             \/ BridgeLeft(p) \/ HandleLine(p) \/ LoseLine(p)

MacSpec == MacInit /\ [][MacNext]_macVars

-----------------------------------------------------------------------------
(* The application never loses sight of a child: whatever it started since  *)
(* it was opened has ended, was told to end, or stands in the slot that the *)
(* next stop will go through.                                               *)
NoOrphans ==
  \A p \in DOMAIN child :
    child[p].state \in {"new", "up"} => \E k \in DOMAIN slot : slot[k] = p

(* The settings settle: when the agent the application talks to has nothing *)
(* left to answer, nor the application to read, both show what is on disk,  *)
(* however switches, saves, restarts, lists of tasks and older answers have *)
(* crossed, and although a configuration need not have what the form shows; *)
(* unless an edit is not saved, a line was lost, a former agent was late,   *)
(* or the list shown last is one a task read before the last change.        *)
Settled ==
  /\ running /\ child[stdinPipe].state = "up" /\ ~unheard
  /\ \A p \in DOMAIN child : lines[p] = <<>> /\ requests[p] = <<>>
SettingsSettle ==
  Settled => /\ ~edited => shown.permission = disk.permission
             /\ ~older => shown.switch = disk.switch
=============================================================================
