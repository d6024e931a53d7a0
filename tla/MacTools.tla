------------------------------- MODULE MacTools -------------------------------
(***************************************************************************)
(* The tools the macOS application brings along and the commands it runs    *)
(* with them (macClawdex/Sources/Clawdex/RuntimeManager.swift).             *)
(*                                                                         *)
(* The tools are copied out of the application before anything is run: by   *)
(* the main thread, which starts the children or reinstalls the tools on    *)
(* request, and by background jobs, which run one plugin command for the    *)
(* user, list the plugins, or install the bundled plugins on first use.     *)
(* Copying is done under a lock, running is not.  The application may be    *)
(* ended at any step.                                                       *)
(***************************************************************************)
EXTENDS Naturals, FiniteSets

CONSTANTS
  Jobs,                 \* threads of the application
  MainJob,              \* its main thread
  Files,                \* the tools
  Bundled,              \* the plugins to install on first use
  Unlocked,
  MaxJobs, MaxEnds      \* bounds: jobs begun, ends of the application

ASSUME MainJobAssumption == MainJob \in Jobs /\ Unlocked \notin Jobs
ASSUME ToolsBounds == MaxJobs \in Nat /\ MaxEnds \in Nat

VARIABLES
  tools,                \* files in tools/
  recorded,             \* defaults: tools/ holds this version
  lock,                 \* toolsInstallLock
  job,                  \* [Jobs -> [at, forced, todo, of]]
  inFlight,             \* pluginOperationInFlight
  preinstalled,         \* defaults: the bundled plugins are installed
  begun, ends,
  halved                \* history: a reinstallation on request broke off

toolVars == <<tools, recorded, lock, job, inFlight, preinstalled, begun, ends, halved>>
shared   == <<tools, recorded, lock>>

NoJob == [at |-> "idle", forced |-> FALSE, todo |-> {}, of |-> Unlocked]

ToolsInit ==
  /\ tools = {} /\ recorded = FALSE /\ lock = Unlocked
  /\ job = [t \in Jobs |-> NoJob]
  /\ inFlight = FALSE /\ preinstalled = FALSE
  /\ begun = 0 /\ ends = 0 /\ halved = FALSE

-----------------------------------------------------------------------------
(* What begins a job: a start or a reinstallation, on the main thread; a    *)
(* plugin command, one at a time; a list; the first use.                    *)

Starts(t, r) ==
  /\ job[t].at = "idle" /\ begun < MaxJobs /\ begun' = begun + 1
  /\ job' = [job EXCEPT ![t] = [r EXCEPT !.at = "wants"]]
  /\ UNCHANGED <<shared, ends, halved>>

BeginMain(forced) ==
  /\ Starts(MainJob, [NoJob EXCEPT !.forced = forced, !.of = IF forced THEN "tools" ELSE "start"])
  /\ UNCHANGED <<inFlight, preinstalled>>
BeginCommand(t) ==
  /\ t # MainJob /\ ~inFlight /\ inFlight' = TRUE
  /\ Starts(t, [NoJob EXCEPT !.of = "command"])
  /\ UNCHANGED preinstalled
BeginList(t) ==
  /\ t # MainJob /\ Starts(t, [NoJob EXCEPT !.of = "list"])
  /\ UNCHANGED <<inFlight, preinstalled>>
BeginPreinstall(t) ==
  /\ t # MainJob /\ ~preinstalled
  /\ Starts(t, [NoJob EXCEPT !.of = "preinstall"])
  /\ UNCHANGED <<inFlight, preinstalled>>

-----------------------------------------------------------------------------
(* installToolsIfNeeded                                                     *)

Turns(t, at) == job' = [job EXCEPT ![t].at = at]
Rest         == UNCHANGED <<inFlight, preinstalled, begun, ends>>

Check(t) ==
  /\ job[t].at = "wants" /\ lock = Unlocked
  /\ IF recorded /\ ~job[t].forced
       THEN Turns(t, "run") /\ UNCHANGED lock
       ELSE Turns(t, "empty") /\ lock' = t
  /\ UNCHANGED <<tools, recorded, halved>> /\ Rest

EmptyDir(t) ==
  /\ job[t].at = "empty"
  /\ tools' = {}
  /\ Turns(t, "copy")
  /\ UNCHANGED <<recorded, lock, halved>> /\ Rest

CopyFile(t) ==
  /\ job[t].at = "copy"
  /\ \E f \in Files \ tools :
       /\ tools' = tools \cup {f}
       /\ IF tools' = Files THEN Turns(t, "record") ELSE UNCHANGED job
  /\ UNCHANGED <<recorded, lock, halved>> /\ Rest

\* Faulty: the version is recorded before the files are copied.
RecordEarly(t) ==
  /\ job[t].at \in {"copy", "record"}
  /\ recorded' = TRUE
  /\ IF job[t].at = "record" THEN lock' = Unlocked /\ Turns(t, "run") ELSE UNCHANGED <<lock, job>>
  /\ UNCHANGED <<tools, halved>> /\ Rest

Record(t) ==
  /\ job[t].at = "record"
  /\ recorded' = TRUE /\ lock' = Unlocked
  /\ Turns(t, "run") /\ halved' = FALSE
  /\ UNCHANGED tools /\ Rest

BreaksOff(t) == job[t].forced /\ job[t].at = "copy"

(* A file cannot be removed or copied: the error ends the job.              *)
Finished(t) ==
  /\ job' = [job EXCEPT ![t] = NoJob]
  /\ inFlight' = (inFlight /\ job[t].of # "command")
CopyFails(t) ==
  /\ job[t].at \in {"empty", "copy"}
  /\ lock' = Unlocked /\ halved' = (halved \/ BreaksOff(t))
  /\ Finished(t)
  /\ UNCHANGED <<tools, recorded, preinstalled, begun, ends>>

-----------------------------------------------------------------------------
(* Running: a list and a command run the tool once; the first use runs it   *)
(* for every bundled plugin, goes on when one fails, and is not repeated if *)
(* none did.  A reinstallation runs nothing, a start runs children (MacApp).*)

Run(t) ==
  /\ job[t].at = "run"
  /\ IF job[t].of = "preinstall" /\ Bundled # {}
       THEN /\ job' = [job EXCEPT ![t].at = "each", ![t].todo = Bundled]
            /\ UNCHANGED <<inFlight, preinstalled>>
       ELSE /\ Finished(t)
            /\ preinstalled' = (preinstalled \/ job[t].of = "preinstall")
  /\ UNCHANGED <<shared, begun, ends, halved>>

(* "each" is left for "failed" with the first plugin that is not installed. *)
InstallBundled(t) ==
  /\ job[t].at \in {"each", "failed"} /\ job[t].todo # {}
  /\ \E p \in job[t].todo, ok \in BOOLEAN :
       job' = [job EXCEPT ![t].todo = @ \ {p},
                          ![t].at = IF ok /\ tools = Files THEN @ ELSE "failed"]
  /\ UNCHANGED <<shared, inFlight, preinstalled, begun, ends, halved>>

EndPreinstall(t) ==
  /\ job[t].at \in {"each", "failed"} /\ job[t].todo = {}
  /\ preinstalled' = (preinstalled \/ job[t].at = "each")
  /\ Finished(t)
  /\ UNCHANGED <<shared, begun, ends, halved>>

EndApp ==
  /\ ends < MaxEnds /\ ends' = ends + 1
  /\ job' = [t \in Jobs |-> NoJob] /\ lock' = Unlocked /\ inFlight' = FALSE
  /\ halved' = (halved \/ \E t \in Jobs : BreaksOff(t))
  /\ UNCHANGED <<tools, recorded, preinstalled, begun>>

ToolsNext ==
  \/ \E forced \in BOOLEAN : BeginMain(forced)
  \/ \E t \in Jobs :
       \/ BeginCommand(t) \/ BeginList(t) \/ BeginPreinstall(t)
       \/ Check(t) \/ EmptyDir(t) \/ CopyFile(t) \/ Record(t) \/ CopyFails(t)
       \/ Run(t) \/ InstallBundled(t) \/ EndPreinstall(t)
  \/ EndApp

ToolsSpec == ToolsInit /\ [][ToolsNext]_toolVars

-----------------------------------------------------------------------------
(* Tools on record are whole whenever nobody is copying them, wherever an   *)
(* installation failed or the application was ended; so that one that broke *)
(* off is done again.  The exception is a reinstallation on request, which  *)
(* empties tools that are on record: one that breaks off is not repeated.   *)
InstalledIsWhole == recorded /\ lock = Unlocked => tools = Files \/ halved
=============================================================================
