------------------------------ MODULE MCAgents ------------------------------
(***************************************************************************)
(* What stands around the agents: the app-server the daemon's sessions      *)
(* share, the tool servers agents call, the skills they are given, the      *)
(* texts cut up for their memory; and the macOS application that starts the *)
(* processes, edits their settings and installs their tools.  These share   *)
(* no state: a behaviour is of one of the seven parts.                      *)
(***************************************************************************)
EXTENDS TLC, AgentTurns, McpServer, SkillsSync, MemoryText, MacApp, MacTools

CONSTANTS main, list, command

OpenPolicy ==
  [allow |-> {}, deny |-> {"message.send"},
   mode |-> [s \in {"cron", "memory", "gateway", "artifacts", "clawdex"} |-> "allow_always"]
              @@ [s \in {"heartbeat"} |-> "ask_every_time"]]

\* Texts of up to four segments, a newline after each.
SmallLengths ==
  LET Sums(t) == [i \in DOMAIN t |->
                    LET Sum[k \in 0..i] == IF k = 0 THEN 0 ELSE Sum[k - 1] + t[k] IN Sum[i]]
  IN {Sums(t) : t \in UNION {[1..n -> 1..4] : n \in 1..4}}

\* All children of the application, without its settings.
Children ==
  INSTANCE MacApp WITH ChildKinds <- {"agent", "daemon", "gateway"}, Values <- {Unset}, Tasks <- {},
    MaxStarts <- 5, MaxRequests <- 0, MaxClicks <- 1, MaxDeaths <- 1

\* It does not matter which task of the application lists the plugins.
AnyTask == Permutations(Tasks)

VARIABLE part           \* which of the seven
agentVars == <<turnVars, mcpVars, skillVars, textVars>>
appVars   == <<macVars, toolVars>>

OneText == length = <<1>> /\ from = 1 /\ next = 1 /\ chunks = <<>>
OneApp  == ToolsInit /\ MacInit /\ hasKey
Init ==
  /\ TurnInit /\ McpInit /\ SkillsInit
  /\ \/ part \in {"turns", "tools", "skills"} /\ OneText /\ OneApp
     \/ part = "texts" /\ TextInit /\ OneApp
     \/ part = "settings" /\ ToolsInit /\ MacInit /\ OneText
     \/ part = "children" /\ ToolsInit /\ Children!MacInit /\ OneText
     \/ part = "installs" /\ OneApp /\ OneText

AgentNext ==
  \/ part = "turns"  /\ TurnNext   /\ UNCHANGED <<mcpVars, skillVars, textVars>>
  \/ part = "tools"  /\ McpNext    /\ UNCHANGED <<turnVars, skillVars, textVars>>
  \/ part = "skills" /\ SkillsNext /\ UNCHANGED <<turnVars, mcpVars, textVars>>
  \/ part = "texts"  /\ TextNext   /\ UNCHANGED <<turnVars, mcpVars, skillVars>>
AppNext ==
  \/ part = "settings" /\ MacNext          /\ UNCHANGED toolVars
  \/ part = "children" /\ Children!MacNext /\ UNCHANGED toolVars
  \/ part = "installs" /\ ToolsNext        /\ UNCHANGED macVars
Next ==
  /\ UNCHANGED part
  /\ (AgentNext /\ UNCHANGED appVars) \/ (AppNext /\ UNCHANGED agentVars)
AgentsSpec == Init /\ [][Next]_<<agentVars, appVars, part>>
=============================================================================
