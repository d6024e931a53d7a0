------------------------------ MODULE McpServer ------------------------------
(***************************************************************************)
(* The tool servers that agents talk to over a pipe (clawdex/src/mcp.rs):   *)
(* requests, the policy for tools, the schemas arguments and answers are    *)
(* held against, and the job file that tools of several servers change.     *)
(*                                                                         *)
(* A job has what the schema of an answer asks for: payload.kind, the text  *)
(* of that kind, a schedule in the schema's spelling ("atMs", "everyMs",    *)
(* "expr"; any other accepted spelling is "other"), and a policy that is    *)
(* absent or an object ("fit").  Tools of the gateway and of the memory are *)
(* one kind of call that changes nothing here.                              *)
(***************************************************************************)
EXTENDS Naturals, FiniteSets

CONSTANTS
  Servers,              \* processes that run the server
  JobIds,               \* ids of jobs
  Nothing,              \* no job, no call, no field
  Policy                \* the user's lists and modes for tools and servers

ASSUME NothingAssumption == Nothing \notin Servers

Kinds   == {"systemEvent", "agentTurn"}
Targets == {"main", "isolated"}

CronTools == {"cron.list", "cron.add", "cron.update", "cron.remove", "cron.status",
              "cron.run", "cron.runs"}
Tools ==
  CronTools \cup {"memory_search", "memory_get", "memory_write", "message.send",
                  "channels.list", "channels.resolve_target", "heartbeat.wake",
                  "artifact.create_xlsx", "artifact.create_pptx",
                  "artifact.create_docx", "artifact.create_pdf"}
ServerOf(tool) ==
  CASE tool \in CronTools -> "cron"
    [] tool \in {"memory_search", "memory_get", "memory_write"} -> "memory"
    [] tool \in {"message.send", "channels.list", "channels.resolve_target"} -> "gateway"
    [] tool \in {"artifact.create_xlsx", "artifact.create_pptx",
                 "artifact.create_docx", "artifact.create_pdf"} -> "artifacts"
    [] tool = "heartbeat.wake" -> "heartbeat"
    [] OTHER -> "clawdex"
Aliases(tool) == {tool, ServerOf(tool), "clawdex"}

(* allows_any: no name may be denied, and some name allowed if any list is. *)
AllowsAny(names) ==
  /\ names \cap Policy.deny = {}
  /\ Policy.allow # {} => names \cap Policy.allow # {}

(* Modes that would need a question are refused: nobody can be asked here.  *)
Granted(tool) ==
  AllowsAny(Aliases(tool)) /\ Policy.mode[ServerOf(tool)] = "allow_always"

-----------------------------------------------------------------------------
(* Arguments of cron.add, and the patch of cron.update ("keep": not in it). *)
Additions ==
  [kind : Kinds, target : Targets \cup {Nothing}, text : BOOLEAN,
   schedule : {"own", "other"}, fit : BOOLEAN]
Patches ==
  [kind : Kinds \cup {"keep"}, target : Targets \cup {"keep"}, text : BOOLEAN,
   schedule : {"own", "other", "keep"}, fit : BOOLEAN]

TargetFor(kind) == IF kind = "systemEvent" THEN "main" ELSE "isolated"

(* What the schema of the request is held against: a copy of the arguments  *)
(* with every spelling turned into the schema's and the defaults put in.    *)
Normalised(a) ==
  [a EXCEPT !.schedule = IF a.schedule = "other" THEN "own" ELSE a.schedule,
            !.target   = IF a.target = Nothing THEN TargetFor(a.kind) ELSE a.target]

(* An addition must have the text of its payload; a patch may lack it.      *)
ValidArguments(tool, a) ==
  tool = "cron.add" => Normalised(a).schedule = "own" /\ a.text

(* The job cron.add stores: the arguments themselves with the defaults, the *)
(* schedule under the names it was given with.                              *)
JobOf(a) ==
  [kind |-> a.kind, target |-> IF a.target = Nothing THEN TargetFor(a.kind) ELSE a.target,
   text |-> a.text, schedule |-> a.schedule, fit |-> a.fit]

(* merge_payload: a payload of another kind replaces the one before it.     *)
Patched(job, p) ==
  [kind     |-> IF p.kind = "keep" THEN job.kind ELSE p.kind,
   target   |-> IF p.target = "keep" THEN job.target ELSE p.target,
   text     |-> IF p.kind = "keep" THEN job.text
                ELSE p.text \/ (p.kind = job.kind /\ job.text),
   schedule |-> IF p.schedule = "keep" THEN job.schedule ELSE p.schedule,
   fit      |-> p.fit /\ job.fit]

ValidJob(job) == job.target = TargetFor(job.kind)

(* What the caller gets to see of a job: the fields of the answer's schema.  *)
(* Of a schedule in another spelling only its kind is left, of a payload the *)
(* text that goes with its kind; the policy is passed on as it is.           *)
Sanitised(job) ==
  [job EXCEPT !.schedule = IF job.schedule = "own" THEN "own" ELSE "kind only"]

\* Faulty: answers of cron.update have no schema.
ShownUnchecked(tool, job) ==
  LET seen == Sanitised(job)
  IN  tool = "cron.update" \/ (seen.text /\ seen.schedule = "own" /\ seen.fit)
(* That must meet the schema of the answer, with the fields it requires.     *)
Shown(tool, job) ==
  LET seen == Sanitised(job) IN seen.text /\ seen.schedule = "own" /\ seen.fit

-----------------------------------------------------------------------------
VARIABLES
  jobs,                 \* [JobIds -> job or Nothing]
  talk,                 \* [Servers -> the last answer, or the call without one]
  suspect               \* [JobIds -> last writer, if not told of success; or Nothing]
mcpVars == <<jobs, talk, suspect>>

Answers == {"invalid request", "method not found", "invalid params", "internal", "ok"}
Said(kind) == [kind |-> kind, tool |-> Nothing, shown |-> {}, id |-> Nothing]

McpInit ==
  /\ jobs = [j \in JobIds |-> Nothing]
  /\ talk = [s \in Servers |-> Said("ok")]
  /\ suspect = [j \in JobIds |-> Nothing]

Stored == {j \in JobIds : jobs[j] # Nothing}
Reads(s) == talk[s].kind # "pending"
Answer(s, kind) == talk' = [talk EXCEPT ![s] = Said(kind)]
Result(s, tool, shown, id) ==
  talk' = [talk EXCEPT ![s] = [kind |-> "pending", tool |-> tool, shown |-> shown, id |-> id]]

(* A line without an id is a notification and gets no answer; one without a *)
(* method, or with an unknown one, gets an error; the others need no tool.  *)
Notification(s) == Reads(s) /\ UNCHANGED mcpVars
Plain(s) ==
  /\ Reads(s)
  /\ \E kind \in {"invalid request", "method not found", "ok"} : Answer(s, kind)
  /\ UNCHANGED <<jobs, suspect>>

(* No name or object of arguments, a tool the policy blocks, arguments the  *)
(* schema refuses, an unknown tool: invalid params, and nothing was done.   *)
Refused(s) ==
  /\ Reads(s)
  /\ \E tool \in Tools \cup {"unknown"} :
       \/ tool = "unknown" \/ ~Granted(tool)
       \/ tool = "cron.add" /\ \E a \in Additions : ~ValidArguments(tool, a)
  /\ Answer(s, "invalid params")
  /\ UNCHANGED <<jobs, suspect>>

(* A handler that returns an error saved nothing.                           *)
Failed(s) ==
  /\ Reads(s)
  /\ \/ Granted("cron.add") /\ \E a \in Additions : ~ValidJob(JobOf(a))
     \/ Granted("cron.update") /\ (Stored # JobIds \/ \E j \in Stored, p \in Patches :
                                     ~ValidJob(Patched(jobs[j], p)))
     \/ \E tool \in Tools \ CronTools : Granted(tool)
  /\ Answer(s, "internal")
  /\ UNCHANGED <<jobs, suspect>>

AddJob(s) ==
  /\ Reads(s) /\ Granted("cron.add")
  /\ \E a \in Additions, j \in JobIds \ Stored :
       /\ ValidArguments("cron.add", a) /\ ValidJob(JobOf(a))
       /\ jobs' = [jobs EXCEPT ![j] = JobOf(a)]
       /\ Result(s, "cron.add", {JobOf(a)}, j)
       /\ suspect' = [suspect EXCEPT ![j] = s]

UpdateJob(s) ==
  /\ Reads(s) /\ Granted("cron.update")
  /\ \E p \in Patches, j \in Stored :
       /\ ValidArguments("cron.update", p) /\ ValidJob(Patched(jobs[j], p))
       /\ jobs' = [jobs EXCEPT ![j] = Patched(jobs[j], p)]
       /\ Result(s, "cron.update", {Patched(jobs[j], p)}, j)
       /\ suspect' = [suspect EXCEPT ![j] = s]

RemoveJob(s) ==
  /\ Reads(s) /\ Granted("cron.remove")
  /\ \E j \in JobIds :
       /\ jobs' = [jobs EXCEPT ![j] = Nothing]
       /\ suspect' = [suspect EXCEPT ![j] = Nothing]
       /\ Result(s, "cron.remove", {}, Nothing)

(* Tools that change no job: the list shows every job that is enabled.      *)
Other(s) ==
  /\ Reads(s)
  /\ \E tool \in Tools \ {"cron.add", "cron.update", "cron.remove"} :
       /\ Granted(tool)
       /\ Result(s, tool, IF tool = "cron.list" THEN {jobs[j] : j \in Stored} ELSE {}, Nothing)
  /\ UNCHANGED <<jobs, suspect>>

(* The result is sanitised and held against the schema of its tool; only    *)
(* then the caller is told, after the effect, whether it succeeded.         *)
Return(s) ==
  /\ ~Reads(s)
  /\ LET good == \A job \in talk[s].shown : Shown(talk[s].tool, job)
         id   == talk[s].id
     IN /\ Answer(s, IF good THEN "ok" ELSE "internal")
        /\ suspect' = IF good /\ id # Nothing /\ suspect[id] = s
                      THEN [suspect EXCEPT ![id] = Nothing] ELSE suspect
  /\ UNCHANGED jobs

(* The agent's process ends, and its server with it, before the answer; the *)
(* next one starts a server of its own.                                     *)
Kill(s) ==
  /\ ~Reads(s)
  /\ Answer(s, "ok")
  /\ UNCHANGED <<jobs, suspect>>

McpNext ==
  \E s \in Servers :
    \/ Notification(s) \/ Plain(s) \/ Refused(s) \/ Failed(s)
    \/ AddJob(s) \/ UpdateJob(s) \/ RemoveJob(s) \/ Other(s) \/ Return(s) \/ Kill(s)
McpSpec == McpInit /\ [][McpNext]_mcpVars

-----------------------------------------------------------------------------
(* A job the list cannot show, and that so makes every later list fail, is  *)
(* one whose last writer was answered with an error, or not yet, or never.  *)
UnshownIsSuspect ==
  \A j \in Stored : ~Shown("cron.list", jobs[j]) => suspect[j] # Nothing
=============================================================================
