----------------------------- MODULE PluginsProofs -----------------------------
(***************************************************************************)
(* What holds of installed plugins (module Plugins) for any plugins,        *)
(* versions, commands, errors and kills:                                    *)
(*                                                                         *)
(*   TypeCorrect      shapes, and which operation is at which step          *)
(*   LastCopyCorrect  LastCopyIsKept                                        *)
(*   PartsCorrect     PartsAgree                                            *)
(*                                                                         *)
(* The invariant of the last two follows a command through its steps:       *)
(* FilesInv, the files of the plugin that is installed; JobsInv, the jobs   *)
(* that are left; and, as long as no command was killed, RowsInv and        *)
(* RecordsInv, what the row and the record of a plugin agree with at every  *)
(* step, and SkillsInv, what Codex sees.                                    *)
(***************************************************************************)
EXTENDS Plugins, Integers, FiniteSetTheorems, SequenceTheorems, TLAPS

USE IdsAssumption, ValuesAssumption, BoundAssumption, NoneAssumption, HalfAssumption

-----------------------------------------------------------------------------
(* What every command keeps: shapes, and which operation is at which step.   *)

Installs3 == {"bundled", "add", "reinstall"}
Pcs == {"idle", "start", "prepare", "copy", "dependencies", "undo", "restore", "drop", "row",
        "load", "save", "clear", "write", "export", "delete", "forget", "rmdir", "mkdir",
        "build", "link"}
Places == Pcs \cup {"overlay"}
Records == [Plugins -> Kinds \cup {None}]
CmdType == [at : Pcs, jobs : Seq(Jobs), had : Files, on : BOOLEAN, copy : Records,
            todo : Seq(Plugins)]

Fits(pc) ==
  /\ pc \in {"prepare", "copy", "dependencies", "undo", "restore", "drop", "row"} =>
       job.op \in Installs3
  /\ pc = "delete" => job.op = "remove"
  /\ pc = "forget" => Removes
  /\ pc \in {"load", "save"} => job.op \in Installs3 \/ Removes
  /\ pc \in {"write", "export"} => ~Removes
  /\ pc \in {"clear", "write", "export"} => job.op # "overlay"
  /\ pc \in {"rmdir", "mkdir", "build", "link"} => job.op = "overlay"
StepsOK == (~At("idle") => cmd.jobs # <<>>) /\ Fits(cmd.at)

TypeInv ==
  /\ root \in [Plugins -> Files] /\ backups \in [Plugins -> SUBSET (Versions \cup {Half})]
  /\ row \in [Plugins -> Rows \cup {None}] /\ records \in Records \cup {Half}
  /\ flat \in [Plugins -> Files] /\ nested \in [Plugins -> Files]
  /\ mcp \in [Plugins -> Files] /\ link \in {"none", "dir", "link"}
  /\ overlay \in {"none", "skills", "whole"}
  /\ errors \subseteq Plugins \X Places /\ crashes \in Nat
  /\ cmd \in CmdType /\ StepsOK

LEMMA IdleType == Idle \in CmdType /\ Idle.at = "idle"
BY DEF Idle, CmdType, Pcs, NoRecords, Records, Files

LEMMA TypeInit == Init => TypeInv
<1> SUFFICES ASSUME Init PROVE TypeInv
  OBVIOUS
<1>1. cmd \in CmdType /\ cmd.at = "idle"
  BY IdleType DEF Init
<1> QED
  BY <1>1 DEF Init, TypeInv, StepsOK, Fits, NoRecords, Records, Files, At

\* The command goes on to another step, with the same jobs to do.
LEMMA Goes ==
  ASSUME NEW c \in CmdType, NEW pc \in Pcs
  PROVE  /\ [c EXCEPT !.at = pc] \in CmdType
         /\ [c EXCEPT !.at = pc].at = pc /\ [c EXCEPT !.at = pc].jobs = c.jobs
         /\ [c EXCEPT !.at = pc].had = c.had /\ [c EXCEPT !.at = pc].on = c.on
         /\ [c EXCEPT !.at = pc].copy = c.copy /\ [c EXCEPT !.at = pc].todo = c.todo
BY DEF CmdType

\* It goes on to the next job, or ends.
LEMMA Turns ==
  ASSUME NEW jobs \in Seq(Jobs), Turn(jobs)
  PROVE  /\ cmd' \in CmdType
         /\ \/ cmd'.at = "idle" /\ cmd' = Idle
            \/ cmd'.at = "start" /\ jobs # <<>> /\ cmd'.jobs = jobs
<1>1. CASE jobs = <<>>
  BY <1>1, IdleType DEF Turn
<1>2. CASE jobs # <<>>
  <2> DEFINE c == [Idle EXCEPT !.at = "start", !.jobs = jobs]
  <2>1. c \in CmdType /\ c.at = "start" /\ c.jobs = jobs
    BY IdleType DEF CmdType, Pcs
  <2>2. cmd' = c
    BY <1>2 DEF Turn
  <2> QED
    BY <1>2, <2>1, <2>2
<1> QED
  BY <1>1, <1>2

LEMMA JobType ==
  ASSUME TypeInv, ~At("idle")
  PROVE  /\ job \in Jobs /\ id \in Plugins /\ Tail(cmd.jobs) \in Seq(Jobs)
         /\ job.op \in Ops /\ job.version \in Versions /\ job.kind \in Kinds
<1>1. cmd.jobs \in Seq(Jobs) /\ cmd.jobs # <<>>
  BY DEF TypeInv, CmdType, StepsOK
<1>2. job \in Jobs /\ Tail(cmd.jobs) \in Seq(Jobs)
  BY <1>1 DEF job
<1> QED
  BY <1>2 DEF id, Jobs

\* The end of a job, well or not.
LEMMA Ends ==
  ASSUME TypeInv, ~At("idle"), Done \/ Fail
  PROVE  /\ cmd' \in CmdType
         /\ \/ cmd'.at = "idle" /\ cmd' = Idle
            \/ cmd'.at = "start" /\ Tail(cmd.jobs) # <<>> /\ cmd'.jobs = Tail(cmd.jobs)
<1>1. PICK jobs \in {Tail(cmd.jobs), <<>>} : Turn(jobs)
  BY DEF Done, Fail
<1>2. jobs \in Seq(Jobs)
  <2>1. Tail(cmd.jobs) \in Seq(Jobs)
    BY JobType
  <2>2. <<>> \in Seq(Jobs)
    OBVIOUS
  <2> QED
    BY <1>1, <2>1, <2>2 DEF Done, Fail
<1> QED
  BY <1>1, <1>2, Turns

\* What a step to another step of the same job leaves of the command.
SameJob == cmd'.jobs = cmd.jobs /\ job' = job /\ id' = id

LEMMA Moves ==
  ASSUME TypeInv, NEW pc \in Pcs, Go(pc)
  PROVE  /\ cmd' \in CmdType /\ cmd'.at = pc /\ SameJob
         /\ cmd'.had = cmd.had /\ cmd'.on = cmd.on /\ cmd'.copy = cmd.copy /\ cmd'.todo = cmd.todo
<1>1. cmd \in CmdType /\ cmd' = [cmd EXCEPT !.at = pc]
  BY DEF Go, TypeInv
<1>2. cmd'.jobs = cmd.jobs
  BY <1>1, Goes
<1> QED
  BY <1>1, <1>2, Goes DEF SameJob, job, id

LEMMA MovesOK ==
  ASSUME TypeInv, ~At("idle"), cmd' \in CmdType, SameJob, Fits(cmd'.at)
  PROVE  StepsOK'
BY DEF TypeInv, StepsOK, SameJob, Fits, Removes, At

LEMMA GoesOK ==
  ASSUME TypeInv, ~At("idle"), NEW pc \in Pcs, Go(pc), Fits(pc)
  PROVE  cmd' \in CmdType /\ StepsOK' /\ cmd'.at = pc /\ SameJob
<1>1. cmd' \in CmdType /\ cmd'.at = pc /\ SameJob
  BY Moves
<1>2. Fits(cmd'.at)
  BY <1>1
<1> QED
  BY <1>1, <1>2, MovesOK

\* Between jobs nothing is asked of the operation.
LEMMA RestOK ==
  ASSUME cmd' \in CmdType, cmd'.at \in {"idle", "start"}, cmd'.at = "start" => cmd'.jobs # <<>>
  PROVE  StepsOK'
BY DEF StepsOK, Fits, At

LEMMA EndsOK ==
  ASSUME TypeInv, ~At("idle"), Done \/ Fail
  PROVE  cmd' \in CmdType /\ StepsOK' /\ cmd'.at \in {"idle", "start"}
<1>1. cmd' \in CmdType /\ cmd'.at \in {"idle", "start"} /\ (cmd'.at = "start" => cmd'.jobs # <<>>)
  BY Ends
<1> QED
  BY <1>1, RestOK

LEMMA JobsOfPlugins ==
  ASSUME NEW op \in Ops, NEW p \in Plugins, Versions # {}
  PROVE  Do(op, p) \in Jobs /\ Do(op, p).op = op /\ Do(op, p).id = p
<1>1. AnyVersion \in Versions
  BY DEF AnyVersion
<1> QED
  BY <1>1 DEF Do, Job, Jobs, Kinds

LEMMA CommandType == \A c \in Commands : c \in Jobs /\ c.op \in Ops /\ Versions # {}
BY DEF Commands, Jobs, Ops, Kinds

\* The commands of a call: the plugins that are shipped, then what was asked for.
LEMMA CallJobs ==
  ASSUME NEW c \in Commands
  PROVE  LET js == [i \in DOMAIN Bundled |-> Do("bundled", Bundled[i])] \o <<c>>
         IN  /\ js \in Seq(Jobs)
             /\ \A i \in DOMAIN js : js[i] = c \/ js[i].op = "bundled"
<1> DEFINE bs == [i \in DOMAIN Bundled |-> Do("bundled", Bundled[i])]
           js == bs \o <<c>>
<1>1. c \in Jobs /\ Versions # {}
  BY CommandType
<1>2. \A i \in DOMAIN Bundled : Bundled[i] \in Plugins /\ Do("bundled", Bundled[i]) \in Jobs
                                /\ Do("bundled", Bundled[i]).op = "bundled"
  <2>1. \A i \in DOMAIN Bundled : Bundled[i] \in Plugins
    OBVIOUS
  <2> QED
    BY <1>1, <2>1, JobsOfPlugins DEF Ops
<1>3. bs \in Seq(Jobs) /\ Len(bs) = Len(Bundled) /\ \A i \in 1..Len(bs) : bs[i].op = "bundled"
  <2>1. DOMAIN Bundled = 1..Len(Bundled) /\ Len(Bundled) \in Nat
    OBVIOUS
  <2> QED
    BY <1>2, <2>1
<1> HIDE DEF bs
<1>4. js \in Seq(Jobs) /\ Len(js) = Len(bs) + 1
  BY <1>1, <1>3
<1>5. \A i \in 1..Len(js) : IF i <= Len(bs) THEN js[i] = bs[i] ELSE js[i] = c
  BY <1>1, <1>3
<1>6. \A i \in DOMAIN js : i \in 1..Len(js) /\ (i \in 1..Len(bs) \/ ~(i <= Len(bs)))
  BY <1>3, <1>4
<1>7. \A i \in DOMAIN js : js[i] = c \/ js[i].op = "bundled"
  BY <1>3, <1>5, <1>6
<1> QED
  BY <1>4, <1>7 DEF bs

\* A list of all members of a set of plugins.
LEMMA AllListed ==
  ASSUME NEW S \in SUBSET Plugins, NEW s \in SetToSeqs(S)
  PROVE  /\ s \in Seq(S) /\ s \in Seq(Plugins)
         /\ \A p \in S : \E i \in DOMAIN s : s[i] = p
<1>1. IsFiniteSet(S) /\ Cardinality(S) \in Nat
  BY FS_Subset, FS_CardinalityType
<1>2. /\ s \in [1..Cardinality(S) -> S]
      /\ \A i, j \in 1..Cardinality(S) : i # j => s[i] # s[j]
  BY DEF SetToSeqs
<1>3. s \in Seq(S) /\ DOMAIN s = 1..Cardinality(S)
  BY <1>1, <1>2
<1>4. s \in Injection(1..Cardinality(S), S)
  BY <1>2 DEF Injection, IsInjective
<1>5. IsFiniteSet(1..Cardinality(S)) /\ Cardinality(1..Cardinality(S)) = Cardinality(S)
  BY <1>1, FS_Interval
<1>6. s \in Surjection(1..Cardinality(S), S)
  BY <1>1, <1>4, <1>5, FS_Injection
<1> QED
  BY <1>3, <1>6 DEF Surjection

-----------------------------------------------------------------------------
(* Every step keeps the shapes.                                              *)

\* An error is noted where it was met; none is forgotten.
LEMMA ErrorsStep ==
  ASSUME [Next]_vars
  PROVE  /\ errors' = errors \/ (Step /\ Noted)
         /\ errors \subseteq errors'
<1>1. errors' = errors \/ (Step /\ Noted)
  <2>1. CASE Call \/ Kill \/ UNCHANGED vars
    BY <2>1 DEF Call, Kill, vars, counts
  <2>2. CASE GiveUp \/ Starts
    BY <2>2 DEF GiveUp, Starts, StartInstall, StartUpdate, StartSwitch, StartRemove, StartSync,
                StartResync, Quiet, counts, Fault, Step
  <2>3. CASE Installs
    BY <2>3 DEF Installs, Prepare, CopyFiles, Dependencies, Undo, Restore, DropBackup, SaveRow,
                LoadRecords, SaveRecords, Quiet, counts, Fault, NoFault, Step
  <2>4. CASE Syncs \/ DeleteFiles \/ DeleteRow
    BY <2>4 DEF Syncs, ClearSkills, WriteSkills, ExportMcp, EmptyOverlay, RemoveOverlay,
                MakeOverlay, BuildOverlay, Unlink, Link, DeleteFiles, DeleteRow, Quiet, counts,
                Fault, NoFault, Step
  <2> QED
    BY <2>1, <2>2, <2>3, <2>4 DEF Next, Step
<1> QED
  BY <1>1 DEF Noted

\* Between commands no step is taken.
LEMMA StepAt ==
  ASSUME TypeInv, Step
  PROVE  ~At("idle") /\ cmd.at \in Pcs /\ id \in Plugins
<1>1. ~At("idle")
  <2>1. CASE GiveUp \/ Starts
    BY <2>1 DEF GiveUp, Breaks, Starts, StartInstall, StartUpdate, StartSwitch, StartRemove,
                StartSync, StartResync, Start, At
  <2>2. CASE Installs
    BY <2>2 DEF Installs, Prepare, CopyFiles, Dependencies, Undo, Restore, DropBackup, SaveRow,
                LoadRecords, SaveRecords, At
  <2>3. CASE Syncs \/ DeleteFiles \/ DeleteRow
    BY <2>3 DEF Syncs, ClearSkills, WriteSkills, ExportMcp, EmptyOverlay, RemoveOverlay,
                MakeOverlay, BuildOverlay, Unlink, Link, DeleteFiles, DeleteRow, Start, At
  <2> QED
    BY <2>1, <2>2, <2>3 DEF Step
<1> QED
  BY <1>1, JobType DEF TypeInv, CmdType

LEMMA InitialJobs ==
  ASSUME TypeInv, Call
  PROVE  /\ cmd' \in CmdType /\ StepsOK'
         /\ cmd'.at \in {"idle", "start"}
         /\ cmd'.at = "start" =>
              \A i \in DOMAIN cmd'.jobs : cmd'.jobs[i].op \notin {"resync", "unsync"}
<1>1. PICK c \in Commands :
        Turn([i \in DOMAIN Bundled |-> Do("bundled", Bundled[i])] \o <<c>>)
  BY DEF Call
<1> DEFINE js == [i \in DOMAIN Bundled |-> Do("bundled", Bundled[i])] \o <<c>>
<1>2. js \in Seq(Jobs) /\ \A i \in DOMAIN js : js[i] = c \/ js[i].op = "bundled"
  BY CallJobs
<1>3. c.op \notin {"resync", "unsync"}
  BY DEF Commands
<1>4. Turn(js)
  BY <1>1
<1> HIDE DEF js
<1>5. cmd' \in CmdType /\ (cmd'.at = "idle" \/ (cmd'.at = "start" /\ js # <<>> /\ cmd'.jobs = js))
  BY <1>2, <1>4, Turns
<1> QED
  BY <1>2, <1>3, <1>5, RestOK

\* sync goes through the plugins that have a row, and then rebuilds the overlay.
LEMMA SyncJobs ==
  ASSUME TypeInv, StartSync
  PROVE  /\ cmd' \in CmdType /\ StepsOK' /\ cmd'.at \in {"idle", "start"}
         /\ cmd'.at = "start" =>
              \E n \in Nat :
                /\ n <= Len(cmd'.jobs)
                /\ \A i \in 1..n : /\ cmd'.jobs[i].op \in {"resync", "unsync"}
                                   /\ cmd'.jobs[i].op = "unsync" =>
                                        ~row[cmd'.jobs[i].id].on
                /\ \A i \in (n + 1)..Len(cmd'.jobs) :
                     \/ cmd'.jobs[i].op = "overlay"
                     \/ i - n \in DOMAIN cmd.jobs /\ cmd'.jobs[i] = cmd.jobs[i - n]
<1>1. ~At("idle")
  BY DEF StartSync, Start, At
<1>2. /\ job \in Jobs /\ Tail(cmd.jobs) \in Seq(Jobs) /\ Versions # {} /\ cmd.jobs \in Seq(Jobs)
      /\ cmd.jobs # <<>>
  BY <1>1, JobType DEF TypeInv, CmdType, StepsOK
<1>3. PICK s \in SetToSeqs({p \in Plugins : row[p] # None}) :
        Turn([i \in DOMAIN s |-> Do(IF row[s[i]].on THEN "resync" ELSE "unsync", s[i])]
               \o <<[job EXCEPT !.op = "overlay"]>> \o Tail(cmd.jobs))
  BY DEF StartSync
<1> DEFINE ss == [i \in DOMAIN s |-> Do(IF row[s[i]].on THEN "resync" ELSE "unsync", s[i])]
           last == [job EXCEPT !.op = "overlay"]
           rest == Tail(cmd.jobs)
           js == ss \o <<last>> \o rest
<1>4. s \in Seq(Plugins) /\ DOMAIN s = 1..Len(s) /\ Len(s) \in Nat
  BY <1>3, AllListed
<1>5. ASSUME NEW i \in DOMAIN s
      PROVE  /\ ss[i] \in Jobs /\ ss[i].op \in {"resync", "unsync"}
             /\ ss[i].op = "unsync" => ~row[ss[i].id].on
  <2>1. s[i] \in Plugins
    BY <1>4
  <2>2. ss[i] = Do(IF row[s[i]].on THEN "resync" ELSE "unsync", s[i])
    OBVIOUS
  <2>3. CASE row[s[i]].on
    BY <1>2, <2>1, <2>2, <2>3, JobsOfPlugins DEF Ops
  <2>4. CASE ~row[s[i]].on
    BY <1>2, <2>1, <2>2, <2>4, JobsOfPlugins DEF Ops
  <2> QED
    BY <2>3, <2>4
<1>6. ss \in Seq(Jobs) /\ Len(ss) = Len(s)
  BY <1>4, <1>5
<1>7. last \in Jobs /\ last.op = "overlay"
  BY <1>2 DEF Jobs, Ops
<1>8. Turn(js)
  BY <1>3
<1>9. rest \in Seq(Jobs) /\ Len(rest) = Len(cmd.jobs) - 1
      /\ \A i \in 1..Len(rest) : rest[i] = cmd.jobs[i + 1]
  BY <1>2
<1>10. \A i \in 1..Len(ss) : /\ ss[i].op \in {"resync", "unsync"}
                             /\ ss[i].op = "unsync" => ~row[ss[i].id].on
  BY <1>4, <1>5, <1>6
<1> HIDE DEF ss, last, rest
<1> DEFINE both == ss \o <<last>>
<1>11. both \in Seq(Jobs) /\ Len(both) = Len(ss) + 1
  BY <1>6, <1>7
<1>12. \A i \in 1..Len(both) : IF i <= Len(ss) THEN both[i] = ss[i] ELSE both[i] = last
  BY <1>6, <1>7
<1>13. js = both \o rest
  OBVIOUS
<1> HIDE DEF both, js
<1>14. /\ js \in Seq(Jobs) /\ Len(js) = Len(ss) + 1 + Len(rest) /\ Len(ss) \in Nat
       /\ Len(rest) \in Nat
  <2>1. Len(ss) \in Nat /\ Len(rest) \in Nat /\ rest \in Seq(Jobs)
    BY <1>6, <1>9
  <2>2. both \o rest \in Seq(Jobs) /\ Len(both \o rest) = Len(both) + Len(rest)
    BY SMTT(30), <1>11, <2>1
  <2> QED
    BY <1>11, <1>13, <2>1, <2>2
<1>15. \A i \in 1..Len(js) : IF i <= Len(both) THEN js[i] = both[i]
                             ELSE js[i] = rest[i - Len(both)]
  BY <1>9, <1>11, <1>13
<1>16. \A i \in 1..Len(js) :
         /\ i <= Len(ss) => js[i] = ss[i]
         /\ i = Len(ss) + 1 => js[i] = last
         /\ i > Len(ss) + 1 => js[i] = rest[i - (Len(ss) + 1)]
  BY <1>14, <1>11, <1>12, <1>15
<1>17. \A i \in 1..Len(ss) : js[i] = ss[i]
  BY <1>14, <1>16
<1>18. ASSUME NEW i \in (Len(ss) + 1)..Len(js)
       PROVE  js[i].op = "overlay" \/ (i - Len(ss) \in DOMAIN cmd.jobs /\ js[i] = cmd.jobs[i - Len(ss)])
  <2>1. CASE i = Len(ss) + 1
    BY <1>7, <1>14, <1>16, <2>1
  <2>2. CASE i > Len(ss) + 1
    <3>0. Len(cmd.jobs) \in Nat /\ Len(rest) \in Nat /\ Len(ss) \in Nat /\ i \in Int
          /\ i <= Len(js)
      BY <1>2, <1>14
    <3>1. i - (Len(ss) + 1) \in 1..Len(rest) /\ i - (Len(ss) + 1) + 1 = i - Len(ss)
          /\ i - Len(ss) \in 1..Len(cmd.jobs) /\ i \in 1..Len(js)
      <4>1. PICK a \in Nat, b \in Nat, m \in Nat, n \in Nat :
              a = Len(ss) /\ b = Len(rest) /\ m = Len(js) /\ n = Len(cmd.jobs)
        BY SMTT(30), <1>14, <3>0
      <4>2. m = a + 1 + b /\ b = n - 1 /\ i <= m /\ i > a + 1 /\ i \in Int
        BY <1>9, <1>14, <2>2, <3>0, <4>1
      <4>3. /\ i - (a + 1) \in 1..b /\ i - (a + 1) + 1 = i - a
            /\ i - a \in 1..n /\ i \in 1..m
        BY <4>2
      <4> QED
        BY <4>1, <4>3
    <3>2. js[i] = rest[i - (Len(ss) + 1)] /\ rest[i - (Len(ss) + 1)] = cmd.jobs[i - Len(ss)]
      BY <1>9, <1>14, <1>16, <2>2, <3>1
    <3> QED
      BY <1>2, <3>1, <3>2
  <2> QED
    BY <1>14, <2>1, <2>2
<1>19. /\ cmd' \in CmdType
       /\ cmd'.at = "idle" \/ (cmd'.at = "start" /\ js # <<>> /\ cmd'.jobs = js)
  BY <1>8, <1>14, Turns
<1>20. StepsOK' /\ cmd'.at \in {"idle", "start"}
  BY <1>19, RestOK
<1>21. Len(ss) <= Len(js)
  BY <1>14
<1>22. \A i \in 1..Len(ss) : /\ js[i].op \in {"resync", "unsync"}
                             /\ js[i].op = "unsync" => ~row[js[i].id].on
  BY <1>10, <1>17
<1>23. ASSUME cmd'.at = "start"
       PROVE  LET n == Len(ss) IN
              /\ n \in Nat /\ n <= Len(cmd'.jobs)
              /\ \A i \in 1..n : /\ cmd'.jobs[i].op \in {"resync", "unsync"}
                                 /\ cmd'.jobs[i].op = "unsync" =>
                                      ~row[cmd'.jobs[i].id].on
              /\ \A i \in (n + 1)..Len(cmd'.jobs) :
                   \/ cmd'.jobs[i].op = "overlay"
                   \/ i - n \in DOMAIN cmd.jobs /\ cmd'.jobs[i] = cmd.jobs[i - n]
  <2>1. cmd'.jobs = js
    BY <1>19, <1>23
  <2> QED
    BY <1>14, <1>18, <1>21, <1>22, <2>1
<1> QED
  BY <1>19, <1>20, <1>23

LEMMA StartsCmd ==
  ASSUME TypeInv, Starts
  PROVE  cmd' \in CmdType /\ StepsOK'
<1>1. ~At("idle") /\ At("start")
  BY DEF Starts, StartInstall, StartUpdate, StartSwitch, StartRemove, StartSync, StartResync,
         Start, At
<1>2. cmd \in CmdType
  BY DEF TypeInv
<1>3. CASE StartInstall
  <2>1. CASE Done
    BY <1>1, <2>1, EndsOK
  <2>2. CASE Go("prepare") /\ job.op \in Installs3
    BY <1>1, <2>2, GoesOK DEF Fits, Pcs
  <2> QED
    BY <1>3, <2>1, <2>2 DEF StartInstall, Start, Installs3
<1>4. CASE StartUpdate
  <2>1. job \in Jobs /\ Tail(cmd.jobs) \in Seq(Jobs)
    BY <1>1, JobType
  <2> DEFINE again == [job EXCEPT !.op = "reinstall", !.kind = "npm"]
             jobs == (IF Loaded[id] = "npm" THEN <<again>> ELSE <<>>) \o Tail(cmd.jobs)
  <2>2. again \in Jobs
    BY <2>1 DEF Jobs, Ops, Kinds
  <2>3. jobs \in Seq(Jobs)
    BY <2>1, <2>2
  <2>4. Turn(jobs)
    BY <1>4 DEF StartUpdate
  <2> HIDE DEF jobs
  <2>5. cmd' \in CmdType /\ cmd'.at \in {"idle", "start"} /\ (cmd'.at = "start" => cmd'.jobs # <<>>)
    BY <2>3, <2>4, Turns
  <2> QED
    BY <2>5, RestOK
<1>5. CASE StartSwitch
  <2>1. CASE Fail
    BY <1>1, <2>1, EndsOK
  <2>2. CASE cmd' = [cmd EXCEPT !.at = "clear", !.on = job.op = "enable"]
    <3>1. cmd' \in CmdType /\ cmd'.at = "clear" /\ SameJob /\ job.op # "overlay"
      BY <1>2, <1>5, <2>2 DEF StartSwitch, Start, CmdType, Pcs, SameJob, job, id
    <3> QED
      BY <1>1, <3>1, MovesOK DEF Fits
  <2> QED
    BY <1>5, <2>1, <2>2 DEF StartSwitch
<1>6. CASE StartRemove
  <2>1. Removes /\ job.op # "overlay"
    BY <1>6 DEF StartRemove, Start, Removes
  <2>2. PICK pc \in {"load", "clear"} : Go(pc)
    BY <1>6 DEF StartRemove
  <2> QED
    BY <1>1, <2>1, <2>2, GoesOK DEF Fits, Pcs
<1>7. CASE StartSync
  BY <1>7, SyncJobs
<1>8. CASE StartResync
  <2>1. cmd' \in CmdType /\ cmd'.at = "clear" /\ SameJob /\ job.op # "overlay"
    BY <1>2, <1>8 DEF StartResync, Start, CmdType, Pcs, SameJob, job, id
  <2> QED
    BY <1>1, <2>1, MovesOK DEF Fits
<1> QED
  BY <1>3, <1>4, <1>5, <1>6, <1>7, <1>8 DEF Starts

LEMMA InstallsCmd ==
  ASSUME TypeInv, Installs
  PROVE  cmd' \in CmdType /\ StepsOK'
<1>1. ~At("idle")
  BY DEF Installs, Prepare, CopyFiles, Dependencies, Undo, Restore, DropBackup, SaveRow,
         LoadRecords, SaveRecords, At
<1>2. cmd \in CmdType /\ job \in Jobs /\ id \in Plugins
  BY <1>1, JobType DEF TypeInv
<1>3. root[id] \in Files /\ row[id] \in Rows \cup {None} /\ Loaded \in Records
  BY <1>2 DEF TypeInv, Loaded, NoRecords, Records
<1>4. Fits(cmd.at)
  BY DEF TypeInv, StepsOK
<1>5. CASE Fail \/ Done
  BY <1>1, <1>5, EndsOK
<1>6. CASE Prepare /\ ~Fail
  <2>1. cmd' = [cmd EXCEPT !.at = "copy", !.had = root[id]] /\ At("prepare")
    BY <1>6 DEF Prepare
  <2>2. cmd' \in CmdType /\ cmd'.at = "copy" /\ SameJob
    BY <1>2, <1>3, <2>1 DEF CmdType, Pcs, SameJob, job, id
  <2>3. Fits("copy")
    BY <1>4, <2>1 DEF Fits, At
  <2> QED
    BY <1>1, <2>2, <2>3, MovesOK
<1>7. CASE CopyFiles /\ ~Fail
  <2>1. PICK pc \in {"dependencies", "undo"} : Go(pc)
    BY <1>7 DEF CopyFiles, Undone
  <2>2. Fits(pc)
    BY <1>4, <1>7, <2>1 DEF CopyFiles, Fits, At
  <2> QED
    BY <1>1, <2>1, <2>2, GoesOK DEF Pcs
<1>8. CASE Dependencies /\ ~Fail
  <2>1. PICK pc \in {"drop", "undo"} : Go(pc)
    BY <1>8 DEF Dependencies, Undone
  <2>2. Fits(pc)
    BY <1>4, <1>8, <2>1 DEF Dependencies, Fits, At
  <2> QED
    BY <1>1, <2>1, <2>2, GoesOK DEF Pcs
<1>9. CASE Undo
  <2>1. Go("restore") /\ Fits("restore")
    BY <1>4, <1>9 DEF Undo, Fits, At
  <2> QED
    BY <1>1, <2>1, GoesOK DEF Pcs
<1>10. CASE DropBackup
  <2>1. Go("row") /\ Fits("row")
    BY <1>4, <1>10 DEF DropBackup, Fits, At
  <2> QED
    BY <1>1, <2>1, GoesOK DEF Pcs
<1>11. CASE SaveRow
  <2>1. Fits("load")
    BY <1>4, <1>11 DEF SaveRow, Fits, At
  <2> DEFINE on == IF Update /\ row[id] # None THEN row[id].on ELSE TRUE
  <2>2. on \in BOOLEAN
    BY <1>3 DEF Rows
  <2>3. cmd' = [cmd EXCEPT !.at = "load", !.on = on]
    BY <1>11 DEF SaveRow
  <2> HIDE DEF on
  <2>4. cmd' \in CmdType /\ cmd'.at = "load" /\ SameJob
    BY <1>2, <2>2, <2>3 DEF CmdType, Pcs, SameJob, job, id
  <2> QED
    BY <1>1, <2>1, <2>4, MovesOK
<1>12. CASE LoadRecords /\ ~Done
  <2>1. Fits("save")
    BY <1>4, <1>12 DEF LoadRecords, Fits, At
  <2> DEFINE next == [Loaded EXCEPT ![id] = IF Removes THEN None ELSE job.kind]
  <2>2. next \in Records
    BY <1>2, <1>3 DEF Records, Jobs
  <2>3. cmd' = [cmd EXCEPT !.at = "save", !.copy = next]
    BY <1>12 DEF LoadRecords
  <2> HIDE DEF next
  <2>4. cmd' \in CmdType /\ cmd'.at = "save" /\ SameJob
    BY <1>2, <2>2, <2>3 DEF CmdType, Pcs, SameJob, job, id
  <2> QED
    BY <1>1, <2>1, <2>4, MovesOK
<1>13. CASE SaveRecords /\ ~Done
  <2>1. Go("clear") /\ job.op # "overlay"
    BY <1>4, <1>13 DEF SaveRecords, Fits, Installs3, Removes, At
  <2> QED
    BY <1>1, <2>1, GoesOK DEF Pcs, Fits
<1>14. Restore => Fail
  BY DEF Restore
<1> QED
  BY <1>5, <1>6, <1>7, <1>8, <1>9, <1>10, <1>11, <1>12, <1>13, <1>14 DEF Installs

LEMMA SyncsCmd ==
  ASSUME TypeInv, Syncs \/ DeleteFiles \/ DeleteRow
  PROVE  cmd' \in CmdType /\ StepsOK'
<1>1. ~At("idle")
  BY DEF Syncs, ClearSkills, WriteSkills, ExportMcp, EmptyOverlay, RemoveOverlay, MakeOverlay,
         BuildOverlay, Unlink, Link, DeleteFiles, DeleteRow, Start, At
<1>2. cmd \in CmdType /\ job \in Jobs /\ id \in Plugins
  BY <1>1, JobType DEF TypeInv
<1>3. Fits(cmd.at) /\ StepsOK
  BY DEF TypeInv, StepsOK
<1>4. CASE Fail \/ Done
  BY <1>1, <1>4, EndsOK
<1>5. CASE ClearSkills /\ ~Done
  <2>1. CASE cmd' = cmd
    <3>1. cmd' \in CmdType /\ SameJob /\ Fits(cmd'.at)
      BY <1>2, <1>3, <2>1 DEF SameJob, job, id
    <3> QED
      BY <1>1, <3>1, MovesOK
  <2>2. CASE cmd' # cmd
    <3>1. PICK pc \in {"delete", "forget", "write"} : Go(pc) /\ Fits(pc)
      <4>1. CASE job.op = "remove" /\ Go("delete")
        BY <4>1 DEF Fits
      <4>2. CASE job.op = "unregister" /\ Go("forget")
        BY <4>2 DEF Fits, Removes
      <4>3. CASE ~Removes /\ Go("write")
        BY <1>3, <1>5, <4>3 DEF ClearSkills, Fits, At
      <4> QED
        BY <1>5, <2>2, <4>1, <4>2, <4>3 DEF ClearSkills
    <3> QED
      BY <1>1, <3>1, GoesOK DEF Pcs
  <2> QED
    BY <2>1, <2>2
<1>6. CASE WriteSkills /\ ~Fail
  <2>1. Go("export") /\ Fits("export")
    BY <1>3, <1>6 DEF WriteSkills, Fits, At
  <2> QED
    BY <1>1, <2>1, GoesOK DEF Pcs
<1>7. CASE EmptyOverlay /\ ~Fail
  <2>1. Go("rmdir") /\ Fits("rmdir")
    BY <1>7 DEF EmptyOverlay, Start, Fits
  <2> QED
    BY <1>1, <2>1, GoesOK DEF Pcs
<1>8. CASE RemoveOverlay
  <2>1. Go("mkdir") /\ Fits("mkdir")
    BY <1>3, <1>8 DEF RemoveOverlay, Fits, At
  <2> QED
    BY <1>1, <2>1, GoesOK DEF Pcs
<1>9. CASE MakeOverlay
  <2>1. PICK s \in SetToSeqs({p \in Plugins : row[p] # None /\ row[p].on}) :
          cmd' = [cmd EXCEPT !.at = "build", !.todo = s]
    BY <1>9 DEF MakeOverlay
  <2>2. s \in Seq(Plugins)
    BY <2>1, AllListed
  <2>3. Fits("build")
    BY <1>3, <1>9 DEF MakeOverlay, Fits, At
  <2>4. cmd' \in CmdType /\ cmd'.at = "build" /\ SameJob
    BY <1>2, <2>1, <2>2 DEF CmdType, Pcs, SameJob, job, id
  <2> QED
    BY <1>1, <2>3, <2>4, MovesOK
<1>10. CASE BuildOverlay /\ ~Fail
  <2>1. At("build") /\ cmd.todo # <<>> /\ cmd' = [cmd EXCEPT !.todo = Tail(@)]
    BY <1>10 DEF BuildOverlay
  <2>2. Tail(cmd.todo) \in Seq(Plugins)
    BY <1>2, <2>1 DEF CmdType
  <2>3. cmd' \in CmdType /\ cmd'.at = "build" /\ SameJob
    BY <1>2, <2>1, <2>2 DEF CmdType, Pcs, SameJob, job, id, At
  <2>4. Fits("build")
    BY <1>3, <2>1 DEF Fits, At
  <2> QED
    BY <1>1, <2>3, <2>4, MovesOK
<1>11. CASE Unlink /\ ~Fail
  <2>1. Go("link") /\ Fits("link")
    BY <1>3, <1>11 DEF Unlink, Fits, At
  <2> QED
    BY <1>1, <2>1, GoesOK DEF Pcs
<1>12. CASE DeleteFiles
  <2>1. CASE Go("forget")
    <3>1. Fits("forget")
      BY <1>3, <1>12 DEF DeleteFiles, Fits, At, Removes
    <3> QED
      BY <1>1, <2>1, <3>1, GoesOK DEF Pcs
  <2>2. CASE UNCHANGED cmd
    <3>1. cmd' \in CmdType /\ SameJob /\ Fits(cmd'.at)
      BY <1>2, <1>3, <2>2 DEF SameJob, job, id
    <3> QED
      BY <1>1, <3>1, MovesOK
  <2> QED
    BY <1>12, <2>1, <2>2 DEF DeleteFiles
<1>13. CASE DeleteRow
  <2>1. Go("load") /\ Fits("load")
    BY <1>3, <1>13 DEF DeleteRow, Fits, At
  <2> QED
    BY <1>1, <2>1, GoesOK DEF Pcs
<1>14. Link \/ ExportMcp => Done \/ Fail
  BY DEF Link, ExportMcp
<1> QED
  BY <1>4, <1>5, <1>6, <1>7, <1>8, <1>9, <1>10, <1>11, <1>12, <1>13, <1>14 DEF Syncs

\* What the commands keep besides themselves.
Shapes ==
  /\ root \in [Plugins -> Files] /\ backups \in [Plugins -> SUBSET (Versions \cup {Half})]
  /\ row \in [Plugins -> Rows \cup {None}] /\ records \in Records \cup {Half}
  /\ flat \in [Plugins -> Files] /\ nested \in [Plugins -> Files]
  /\ mcp \in [Plugins -> Files] /\ link \in {"none", "dir", "link"}
  /\ overlay \in {"none", "skills", "whole"}
  /\ errors \subseteq Plugins \X Places /\ crashes \in Nat

LEMMA ShapesStep ==
  ASSUME TypeInv, Next
  PROVE  Shapes'
<1>1. Shapes /\ cmd \in CmdType
  BY DEF TypeInv, Shapes
<1>2. CASE Call
  BY <1>1, <1>2 DEF Shapes, Call, tree, skills
<1>3. CASE Kill
  BY <1>1, <1>3 DEF Shapes, Kill, tree, skills
<1>4. ASSUME ~At("idle")
      PROVE  /\ job \in Jobs /\ id \in Plugins /\ job.version \in Versions /\ root[id] \in Files
             /\ row[id] \in Rows \cup {None} /\ backups[id] \in SUBSET (Versions \cup {Half})
             /\ cmd.had \in Files /\ cmd.copy \in Records
  BY <1>1, <1>4, JobType DEF Shapes, CmdType
<1>0. errors' \subseteq Plugins \X Places
  <2>1. CASE errors' = errors
    BY <1>1, <2>1 DEF Shapes
  <2>2. CASE Step /\ Noted
    <3>1. id \in Plugins /\ Place \in Places
      BY <2>2, StepAt DEF Place, Places
    <3> QED
      BY <1>1, <2>2, <3>1 DEF Shapes, Noted
  <2> QED
    BY <2>1, <2>2, ErrorsStep
<1>14. CASE GiveUp
  BY <1>0, <1>1, <1>14 DEF Shapes, GiveUp, tree, skills
<1>5. CASE Starts
  <2>1. ~At("idle") /\ UNCHANGED <<tree, records, skills, counts>>
    BY <1>5 DEF Starts, StartInstall, StartUpdate, StartSwitch, StartRemove, StartSync,
                StartResync, Quiet, Start, At
  <2>2. row' = row \/ (row[id] # None /\ row' = [row EXCEPT ![id].on = job.op = "enable"])
    BY <1>5 DEF Starts, StartInstall, StartUpdate, StartSwitch, StartRemove, StartSync,
                StartResync
  <2>3. row' \in [Plugins -> Rows \cup {None}]
    <3>1. CASE row' = row
      BY <1>1, <3>1 DEF Shapes
    <3>2. CASE row[id] # None /\ row' = [row EXCEPT ![id].on = job.op = "enable"]
      <4>1. row[id] \in Rows /\ id \in Plugins
        BY <1>4, <2>1, <3>2
      <4>2. [row[id] EXCEPT !.on = (job.op = "enable")] \in Rows
        BY <4>1 DEF Rows
      <4>3. row' = [row EXCEPT ![id] = [row[id] EXCEPT !.on = (job.op = "enable")]]
        BY <1>1, <3>2, <4>1 DEF Shapes
      <4> QED
        BY <1>1, <4>1, <4>2, <4>3 DEF Shapes
    <3> QED
      BY <2>2, <3>1, <3>2
  <2> QED
    BY <1>1, <2>1, <2>3 DEF Shapes, tree, skills, counts
<1>6. CASE Prepare \/ CopyFiles \/ Dependencies \/ Undo \/ Restore \/ DropBackup
  <2>1. ~At("idle") /\ UNCHANGED <<row, records, skills>> /\ UNCHANGED crashes
    BY <1>6 DEF Prepare, CopyFiles, Dependencies, Undo, Restore, DropBackup, Keeps, At
  <2>2. cmd.had # None => cmd.had \in Versions \cup {Half}
    BY <1>4, <2>1 DEF Files
  <2>3. root' \in [Plugins -> Files]
    <3>1. root' = root \/ \E f \in Files : root' = [root EXCEPT ![id] = f]
      BY <1>4, <1>6, <2>1 DEF Prepare, CopyFiles, Dependencies, Undo, Restore, DropBackup, Files, tree
    <3> QED
      BY <1>1, <3>1 DEF Shapes
  <2>4. backups' \in [Plugins -> SUBSET (Versions \cup {Half})]
    <3>1. \/ backups' = backups
          \/ \E S \in SUBSET (Versions \cup {Half}) : backups' = [backups EXCEPT ![id] = S]
      <4>1. CASE backups' = [backups EXCEPT ![id] = @ \cup ({root[id]} \ {None})]
        <5>1. backups[id] \cup ({root[id]} \ {None}) \in SUBSET (Versions \cup {Half})
          BY <1>4, <2>1 DEF Files
        <5> QED
          BY <4>1, <5>1
      <4>2. CASE backups' = [backups EXCEPT ![id] = @ \ {cmd.had}]
        <5>1. backups[id] \ {cmd.had} \in SUBSET (Versions \cup {Half})
          BY <1>4, <2>1
        <5> QED
          BY <4>2, <5>1
      <4>3. ASSUME NEW files \in {cmd.had, Half}, cmd.had # None,
                   backups' = [backups EXCEPT ![id] = (@ \ {cmd.had}) \cup {files}]
            PROVE  \E S \in SUBSET (Versions \cup {Half}) : backups' = [backups EXCEPT ![id] = S]
        <5>1. (backups[id] \ {cmd.had}) \cup {files} \in SUBSET (Versions \cup {Half})
          BY <1>4, <2>1, <2>2, <4>3
        <5> QED
          BY <4>3, <5>1
      <4> QED
        BY <1>6, <4>1, <4>2, <4>3 DEF Prepare, CopyFiles, Dependencies, Undo, Restore, DropBackup, tree
    <3> QED
      BY <1>1, <3>1 DEF Shapes
  <2> QED
    BY <1>0, <1>1, <2>1, <2>3, <2>4 DEF Shapes, skills
<1>7. CASE SaveRow
  <2>1. ~At("idle") /\ Quiet
    BY <1>7 DEF SaveRow, At
  <2> DEFINE on == IF Update /\ row[id] # None THEN row[id].on ELSE TRUE
  <2>2. row' = [row EXCEPT ![id] = [on |-> on, version |-> job.version]] /\ on \in BOOLEAN
    BY <1>4, <1>7, <2>1 DEF SaveRow, Rows
  <2> HIDE DEF on
  <2>3. [on |-> on, version |-> job.version] \in Rows
    BY <1>4, <2>1, <2>2 DEF Rows
  <2> QED
    BY <1>1, <2>1, <2>2, <2>3 DEF Shapes, Quiet, tree, skills, counts
<1>8. CASE LoadRecords \/ SaveRecords
  <2>1. ~At("idle") /\ UNCHANGED <<tree, row, skills, counts>> /\ records' \in {records, Half, cmd.copy}
    BY <1>8 DEF LoadRecords, SaveRecords, At
  <2> QED
    BY <1>1, <1>4, <2>1 DEF Shapes, tree, skills, counts
<1>9. CASE DeleteFiles
  <2>1. /\ ~At("idle") /\ UNCHANGED <<backups, row, records, skills, counts>>
        /\ root' = [root EXCEPT ![id] = None] \/ root' = [root EXCEPT ![id] = Half]
    BY <1>9 DEF DeleteFiles, At
  <2> QED
    BY <1>1, <2>1 DEF Shapes, skills, counts, Files
<1>10. CASE DeleteRow
  <2>1. ~At("idle") /\ Quiet /\ row' = [row EXCEPT ![id] = None]
    BY <1>10 DEF DeleteRow, At
  <2> QED
    BY <1>1, <2>1 DEF Shapes, Quiet, tree, skills, counts
<1>11. CASE ClearSkills \/ WriteSkills \/ ExportMcp
  <2>1. /\ ~At("idle") /\ UNCHANGED <<tree, row, records, nested, overlay, crashes>>
        /\ link' = link \/ link' = "dir"
    BY <1>11 DEF ClearSkills, WriteSkills, ExportMcp, At, counts
  <2>2. flat' = flat \/ \E f \in Files : flat' = [flat EXCEPT ![id] = f]
    BY <1>4, <1>11, <2>1 DEF ClearSkills, WriteSkills, ExportMcp, Files
  <2>3. mcp' = mcp \/ \E f \in Files : mcp' = [mcp EXCEPT ![id] = f]
    BY <1>4, <1>11, <2>1 DEF ClearSkills, WriteSkills, ExportMcp, Files
  <2> QED
    BY <1>0, <1>1, <2>1, <2>2, <2>3 DEF Shapes, tree
<1>12. CASE EmptyOverlay \/ RemoveOverlay \/ MakeOverlay \/ Unlink \/ Link
  <2>1. /\ UNCHANGED <<tree, row, records, mcp, crashes>>
        /\ link' \in {link, "none", "link"} /\ overlay' \in {overlay, "none", "skills", "whole"}
        /\ flat' \in {flat, NoFiles} \/ \E gone \in SUBSET Plugins : flat' = Without(flat, gone)
        /\ nested' = nested \/ \E gone \in SUBSET Plugins : nested' = Without(nested, gone)
    BY <1>12 DEF EmptyOverlay, RemoveOverlay, MakeOverlay, Unlink, Link, Same
  <2>2. NoFiles \in [Plugins -> Files]
    BY DEF NoFiles, Files
  <2>3. \A gone \in SUBSET Plugins : /\ Without(flat, gone) \in [Plugins -> Files]
                                     /\ Without(nested, gone) \in [Plugins -> Files]
    BY <1>1 DEF Shapes, Without, Files
  <2> QED
    BY <1>0, <1>1, <2>1, <2>2, <2>3 DEF Shapes, tree
<1>13. CASE BuildOverlay
  <2>1. /\ UNCHANGED <<tree, row, records, mcp, crashes, flat, link, overlay>>
        /\ \/ nested' = nested \/ nested' = [nested EXCEPT ![Head(cmd.todo)] = Half]
           \/ nested' = [nested EXCEPT ![Head(cmd.todo)] = root[Head(cmd.todo)]]
    BY <1>13 DEF BuildOverlay, Same
  <2>2. Head(cmd.todo) \in Plugins
    BY <1>1, <1>13 DEF BuildOverlay, CmdType
  <2> QED
    BY <1>0, <1>1, <2>1, <2>2 DEF Shapes, tree, Files
<1> QED
  BY <1>2, <1>3, <1>14, <1>5, <1>6, <1>7, <1>8, <1>9, <1>10, <1>11, <1>12, <1>13
     DEF Next, Step, Installs, Syncs

LEMMA TypeStep ==
  ASSUME TypeInv, [Next]_vars
  PROVE  TypeInv'
<1>1. CASE UNCHANGED vars
  BY <1>1 DEF vars, tree, skills, counts, TypeInv, StepsOK, Fits, At, Removes, job
<1>2. CASE Next
  <2>1. cmd' \in CmdType /\ StepsOK'
    <3>1. CASE Kill
      <4>1. cmd' \in CmdType /\ cmd'.at = "idle"
        BY <3>1, IdleType DEF Kill
      <4> QED
        BY <4>1, RestOK
    <3>2. CASE Call
      BY <3>2, InitialJobs
    <3>3. CASE GiveUp
      BY <3>3, StepAt, EndsOK DEF GiveUp, Step
    <3> QED
      BY <1>2, <3>1, <3>2, <3>3, StartsCmd, InstallsCmd, SyncsCmd DEF Next, Step
  <2>2. Shapes'
    BY <1>2, ShapesStep
  <2> QED
    BY <2>1, <2>2 DEF TypeInv, Shapes
<1> QED
  BY <1>1, <1>2

(* Every file, row, record and command keeps its shape, and each step belongs *)
(* to the operation it is a step of, whatever fails or is killed.            *)
THEOREM TypeCorrect == Spec => []TypeInv
<1>1. Init => TypeInv
  BY TypeInit
<1>2. TypeInv /\ [Next]_vars => TypeInv'
  BY TypeStep
<1> QED
  BY <1>1, <1>2, PTL DEF Spec

-----------------------------------------------------------------------------
(* Errors.                                                                  *)

\* A step that is given up changes nothing but the command.
LEMMA GivenUp ==
  ASSUME TypeInv, GiveUp
  PROVE  /\ ~At("idle") /\ Fail /\ cmd.at \in Breaks /\ id \in Plugins
         /\ cmd' \in CmdType /\ cmd'.at \in {"idle", "start"} /\ Noted
         /\ UNCHANGED <<root, backups, row, records, flat, nested, link, overlay, mcp>>
<1>1. ~At("idle") /\ Fail
  BY DEF GiveUp, Breaks, At
<1> QED
  BY <1>1, EndsOK, JobType DEF GiveUp, Fault, tree, skills

\* Where an error is noted.
LEMMA PlaceIs ==
  ASSUME TypeInv, ~At("idle")
  PROVE  /\ cmd.at \notin {"start", "rmdir", "mkdir", "build", "link"} => Place = cmd.at
         /\ cmd.at \in {"rmdir", "mkdir", "build", "link"} => Place = "overlay"
BY DEF TypeInv, StepsOK, Fits, CmdType, Pcs, Installs3, Removes, Place, At

LEMMA NowMet ==
  ASSUME Noted, NEW places, Place \in places, NEW p, p = id
  PROVE  Met(p, places)'
BY DEF Noted, Met

\* None is forgotten.
LEMMA MetStays ==
  ASSUME [Next]_vars, NEW p, NEW places
  PROVE  Met(p, places) => Met(p, places)'
BY ErrorsStep DEF Met

LEMMA SomewhereStays ==
  ASSUME [Next]_vars, NEW place
  PROVE  Somewhere(place) => Somewhere(place)'
BY ErrorsStep DEF Somewhere, Met

-----------------------------------------------------------------------------
(* Where each step leads.                                                   *)

Leading ==
  \/ cmd'.at \in {"idle", "start"}
  \/ StartInstall /\ cmd'.at = "prepare"
  \/ (StartSwitch \/ StartResync) /\ cmd'.at = "clear"
  \/ StartRemove /\ cmd'.at \in {"load", "clear"}
  \/ Prepare /\ cmd'.at = "copy"
  \/ CopyFiles /\ cmd'.at \in {"dependencies", "undo"}
  \/ Dependencies /\ cmd'.at \in {"drop", "undo"}
  \/ Undo /\ cmd'.at = "restore"
  \/ DropBackup /\ cmd'.at = "row"
  \/ (SaveRow \/ DeleteRow) /\ cmd'.at = "load"
  \/ LoadRecords /\ cmd'.at = "save"
  \/ SaveRecords /\ cmd'.at = "clear"
  \/ ClearSkills /\ cmd'.at \in {"clear", "delete", "forget", "write"}
  \/ WriteSkills /\ cmd'.at = "export"
  \/ DeleteFiles /\ cmd'.at \in {"delete", "forget"}
  \/ EmptyOverlay /\ cmd'.at = "rmdir"
  \/ RemoveOverlay /\ cmd'.at = "mkdir"
  \/ (MakeOverlay \/ BuildOverlay) /\ cmd'.at = "build"
  \/ Unlink /\ cmd'.at = "link"

LEMMA Leads ==
  ASSUME TypeInv, Next
  PROVE  Leading
<1>1. cmd \in CmdType
  BY DEF TypeInv
<1>2. CASE Call \/ StartSync
  BY <1>2, InitialJobs, SyncJobs DEF Leading
<1>3. CASE Kill
  BY <1>3, IdleType DEF Kill, Leading
<1>4. CASE ~At("idle") /\ (Done \/ Fail)
  BY <1>4, EndsOK DEF Leading
<1>5. ASSUME NEW pc \in Pcs, Go(pc)
      PROVE  cmd'.at = pc
  BY <1>5, Moves
<1>6. CASE StartUpdate
  <2>1. cmd' = Idle \/ cmd'.at = "start"
    <3> DEFINE js == (IF Loaded[id] = "npm" THEN <<[job EXCEPT !.op = "reinstall", !.kind = "npm"]>>
                                            ELSE <<>>) \o Tail(cmd.jobs)
    <3>1. cmd' = IF js = <<>> THEN Idle ELSE [Idle EXCEPT !.at = "start", !.jobs = js]
      BY <1>6 DEF StartUpdate, Turn
    <3> HIDE DEF js
    <3> QED
      BY <3>1 DEF Idle
  <2> QED
    BY <2>1, IdleType DEF Leading
<1>7. CASE StartSwitch \/ StartResync
  <2>1. ~At("idle")
    BY <1>7 DEF StartSwitch, StartResync, Start, At
  <2>2. Fail \/ \E b \in BOOLEAN : cmd' = [cmd EXCEPT !.at = "clear", !.on = b]
    BY <1>7 DEF StartSwitch, StartResync
  <2>3. CASE \E b \in BOOLEAN : cmd' = [cmd EXCEPT !.at = "clear", !.on = b]
    <3>1. cmd'.at = "clear"
      BY <1>1, <2>3 DEF CmdType
    <3> QED
      BY <1>7, <3>1 DEF Leading
  <2> QED
    BY <1>4, <2>1, <2>2, <2>3
<1>8. CASE StartInstall
  <2>1. ~At("idle") /\ (Done \/ Go("prepare"))
    BY <1>8 DEF StartInstall, Start, At
  <2> QED
    BY <1>4, <1>5, <1>8, <2>1 DEF Pcs, Leading
<1>9. CASE StartRemove
  <2>1. Go("load") \/ Go("clear")
    BY <1>9 DEF StartRemove
  <2> QED
    BY <1>5, <1>9, <2>1 DEF Pcs, Leading
<1>10. CASE Prepare \/ SaveRow \/ LoadRecords
  <2>1. /\ ~At("idle")
        /\ \/ Done \/ Fail
           \/ Prepare /\ \E f : cmd' = [cmd EXCEPT !.at = "copy", !.had = f]
           \/ SaveRow /\ \E b : cmd' = [cmd EXCEPT !.at = "load", !.on = b]
           \/ LoadRecords /\ \E r : cmd' = [cmd EXCEPT !.at = "save", !.copy = r]
    BY <1>10 DEF Prepare, SaveRow, LoadRecords, At
  <2>2. CASE Prepare /\ \E f : cmd' = [cmd EXCEPT !.at = "copy", !.had = f]
    BY <1>1, <2>2 DEF CmdType, Leading
  <2>3. CASE SaveRow /\ \E b : cmd' = [cmd EXCEPT !.at = "load", !.on = b]
    BY <1>1, <2>3 DEF CmdType, Leading
  <2>4. CASE LoadRecords /\ \E r : cmd' = [cmd EXCEPT !.at = "save", !.copy = r]
    BY <1>1, <2>4 DEF CmdType, Leading
  <2> QED
    BY <1>4, <2>1, <2>2, <2>3, <2>4
<1>11. CASE CopyFiles \/ Dependencies \/ Undo \/ Restore \/ DropBackup \/ SaveRecords
  <2>1. ~At("idle")
    BY <1>11 DEF CopyFiles, Dependencies, Undo, Restore, DropBackup, SaveRecords, At
  <2>2. \/ Done \/ Fail
        \/ CopyFiles /\ (Go("dependencies") \/ Go("undo"))
        \/ Dependencies /\ (Go("drop") \/ Go("undo"))
        \/ Undo /\ Go("restore")
        \/ DropBackup /\ Go("row")
        \/ SaveRecords /\ Go("clear")
    BY <1>11 DEF CopyFiles, Dependencies, Undone, Undo, Restore, DropBackup, SaveRecords
  <2> QED
    BY <1>4, <1>5, <2>1, <2>2 DEF Pcs, Leading
<1>12. CASE DeleteFiles \/ DeleteRow
  <2>1. \/ DeleteFiles /\ (Go("forget") \/ (cmd' = cmd /\ At("delete")))
        \/ DeleteRow /\ Go("load")
    BY <1>12 DEF DeleteFiles, DeleteRow
  <2>2. CASE DeleteFiles /\ cmd' = cmd /\ At("delete")
    BY <2>2 DEF At, Leading
  <2> QED
    BY <1>5, <2>1, <2>2 DEF Pcs, Leading
<1>13. CASE Syncs
  <2>1. ~At("idle")
    BY <1>13 DEF Syncs, ClearSkills, WriteSkills, ExportMcp, EmptyOverlay, RemoveOverlay,
                 MakeOverlay, BuildOverlay, Unlink, Link, Start, At
  <2>2. \/ Done \/ Fail
        \/ ClearSkills /\ (Go("delete") \/ Go("forget") \/ Go("write"))
        \/ ClearSkills /\ cmd' = cmd /\ At("clear")
        \/ WriteSkills /\ Go("export")
        \/ EmptyOverlay /\ Go("rmdir")
        \/ RemoveOverlay /\ Go("mkdir")
        \/ MakeOverlay /\ \E t : cmd' = [cmd EXCEPT !.at = "build", !.todo = t]
        \/ BuildOverlay /\ cmd' = [cmd EXCEPT !.todo = Tail(@)] /\ At("build")
        \/ Unlink /\ Go("link")
    <3>1. CASE ClearSkills \/ WriteSkills \/ ExportMcp
      BY <3>1 DEF ClearSkills, WriteSkills, ExportMcp
    <3>2. CASE MakeOverlay \/ BuildOverlay
      BY <3>2 DEF MakeOverlay, BuildOverlay
    <3>3. CASE EmptyOverlay \/ RemoveOverlay \/ Unlink \/ Link
      BY <3>3 DEF EmptyOverlay, RemoveOverlay, Unlink, Link
    <3> QED
      BY <1>13, <3>1, <3>2, <3>3 DEF Syncs
  <2>3. CASE \/ MakeOverlay /\ \E t : cmd' = [cmd EXCEPT !.at = "build", !.todo = t]
             \/ BuildOverlay /\ cmd' = [cmd EXCEPT !.todo = Tail(@)] /\ At("build")
    <3>1. cmd'.at = "build"
      BY <1>1, <2>3 DEF CmdType, At
    <3> QED
      BY <2>3, <3>1 DEF Leading
  <2>4. CASE ClearSkills /\ cmd' = cmd /\ At("clear")
    BY <2>4 DEF At, Leading
  <2> QED
    BY <1>4, <1>5, <2>1, <2>2, <2>3, <2>4 DEF Pcs, Leading
<1>14. CASE GiveUp
  BY <1>14, GivenUp DEF Leading
<1> QED
  BY <1>14, <1>2, <1>3, <1>6, <1>7, <1>8, <1>9, <1>10, <1>11, <1>12, <1>13
     DEF Next, Step, Starts, Installs

-----------------------------------------------------------------------------
(* The files of the plugin that is installed, at every step of it.          *)

FilesInv ==
  /\ cmd.at = "copy" => root[id] = None
  /\ cmd.at = "dependencies" => root[id] = Half
  /\ cmd.at = "undo" => root[id] \in {None, Half}
  /\ cmd.at = "restore" => root[id] = None \/ Met(id, {"undo"})
  /\ cmd.at \in {"drop", "row"} => root[id] = job.version
Replaced == {"copy", "restore", "dependencies", "undo", "drop", "row"}

LEMMA Elsewhere ==
  ASSUME TypeInv, Next, ~(Prepare \/ CopyFiles \/ Dependencies \/ Undo \/ DropBackup)
  PROVE  cmd'.at \notin Replaced
BY Leads DEF Replaced, Leading

LEMMA FilesStep ==
  ASSUME TypeInv, FilesInv, [Next]_vars
  PROVE  FilesInv'
<1>1. CASE UNCHANGED vars
  BY <1>1 DEF vars, tree, skills, counts, FilesInv, Met, job, id
<1>2. CASE Prepare \/ CopyFiles \/ Dependencies \/ Undo \/ DropBackup
  <2>1. ~At("idle")
    BY <1>2 DEF Prepare, CopyFiles, Dependencies, Undo, DropBackup, At
  <2>2. id \in Plugins /\ root \in [Plugins -> Files] /\ cmd \in CmdType
    BY <2>1, JobType DEF TypeInv
  <2>3. CASE Fail
    BY <2>1, <2>3, EndsOK DEF FilesInv
  <2>4. CASE Prepare /\ ~Fail
    <3>1. /\ cmd' = [cmd EXCEPT !.at = "copy", !.had = root[id]]
          /\ root' = [root EXCEPT ![id] = None]
      BY <2>4 DEF Prepare
    <3>2. cmd'.at = "copy" /\ job' = job /\ id' = id
      BY <2>2, <3>1 DEF CmdType, job, id
    <3> QED
      BY <2>2, <3>1, <3>2 DEF FilesInv
  <2>5. CASE CopyFiles /\ ~Fail
    <3>1. CASE Go("dependencies") /\ root' = [root EXCEPT ![id] = Half]
      <4>1. cmd'.at = "dependencies" /\ id' = id
        BY <3>1, Moves DEF Pcs, SameJob
      <4> QED
        BY <2>2, <3>1, <4>1 DEF FilesInv
    <3>2. CASE Go("undo") /\ root' = root
      <4>1. cmd'.at = "undo" /\ id' = id
        BY <3>2, Moves DEF Pcs, SameJob
      <4> QED
        BY <2>5, <3>2, <4>1 DEF FilesInv, CopyFiles, At
    <3> QED
      BY <2>5, <3>1, <3>2 DEF CopyFiles, Undone
  <2>6. CASE Dependencies /\ ~Fail
    <3>1. CASE Go("drop") /\ root' = [root EXCEPT ![id] = job.version]
      <4>1. cmd'.at = "drop" /\ job' = job /\ id' = id
        BY <3>1, Moves DEF Pcs, SameJob
      <4> QED
        BY <2>2, <3>1, <4>1 DEF FilesInv
    <3>2. CASE Go("undo") /\ root' = root
      <4>1. cmd'.at = "undo" /\ job' = job /\ id' = id
        BY <3>2, Moves DEF Pcs, SameJob
      <4> QED
        BY <2>6, <3>2, <4>1 DEF FilesInv, Dependencies, At
    <3> QED
      BY <2>6, <3>1, <3>2 DEF Dependencies, Undone
  <2>7. CASE Undo
    <3>1. Go("restore") /\ (root' = [root EXCEPT ![id] = None] \/ Noted) /\ Place = "undo"
      BY <2>1, <2>7, PlaceIs DEF Undo, Fault, At
    <3>2. cmd'.at = "restore" /\ id' = id
      BY <3>1, Moves DEF Pcs, SameJob
    <3>3. Noted => Met(id, {"undo"})'
      BY <3>1, <3>2 DEF Noted, Met
    <3> QED
      BY <2>2, <3>1, <3>2, <3>3 DEF FilesInv
  <2>8. CASE DropBackup
    <3>1. Go("row") /\ root' = root
      BY <2>8 DEF DropBackup
    <3>2. cmd'.at = "row" /\ job' = job /\ id' = id
      BY <3>1, Moves DEF Pcs, SameJob
    <3> QED
      BY <2>8, <3>1, <3>2 DEF FilesInv, DropBackup, At
  <2> QED
    BY <1>2, <2>3, <2>4, <2>5, <2>6, <2>7, <2>8
<1>3. CASE Next /\ ~(Prepare \/ CopyFiles \/ Dependencies \/ Undo \/ DropBackup)
  BY <1>3, Elsewhere DEF FilesInv, Replaced
<1> QED
  BY <1>1, <1>2, <1>3

\* Only these steps touch the files of a plugin and their backups.
LEMMA FilesKept ==
  ASSUME [Next]_vars, ~(Prepare \/ CopyFiles \/ Dependencies \/ Undo \/ Restore \/ DropBackup
                          \/ DeleteFiles)
  PROVE  UNCHANGED tree
BY DEF vars, tree, Next, Call, Kill, Step, Starts, StartInstall, StartUpdate, StartSwitch, StartRemove,
       StartSync, StartResync, Quiet, Installs, SaveRow, LoadRecords, SaveRecords, Syncs,
       ClearSkills, WriteSkills, ExportMcp, EmptyOverlay, RemoveOverlay, MakeOverlay,
       BuildOverlay, Unlink, Link, Same, DeleteRow, GiveUp

LEMMA CopyStep ==
  ASSUME TypeInv, FilesInv, [Next]_vars, NEW p \in Plugins, Complete(p), ~Complete(p)'
  PROVE  At("delete") /\ id = p
<1>1. root \in [Plugins -> Files] /\ backups \in [Plugins -> SUBSET (Versions \cup {Half})]
  BY DEF TypeInv
<1>2. CASE UNCHANGED tree
  BY <1>2 DEF tree, Complete
<1>3. CASE Prepare \/ CopyFiles \/ Dependencies \/ Undo \/ Restore \/ DropBackup
  <2>1. /\ ~At("idle")
        /\ \A q \in Plugins \ {id} : root'[q] = root[q] /\ backups'[q] = backups[q]
    BY <1>1, <1>3 DEF Prepare, CopyFiles, Dependencies, Undo, Restore, DropBackup, At, tree
  <2>2. p = id
    BY <2>1 DEF Complete
  <2>3. id \in Plugins /\ job.version \in Versions
    BY <2>1, JobType
  <2>4. Complete(p)'
    <3>1. CASE Prepare
      BY <1>1, <2>2, <2>3, <3>1 DEF Prepare, Complete, tree
    <3>2. CASE CopyFiles
      BY <1>1, <2>2, <2>3, <3>2 DEF CopyFiles, Complete, FilesInv, At
    <3>3. CASE Dependencies
      BY <1>1, <2>2, <2>3, <3>3 DEF Dependencies, Complete, FilesInv, At
    <3>4. CASE Undo
      BY <1>1, <2>2, <2>3, <3>4 DEF Undo, Complete, FilesInv, At
    <3>5. CASE Restore
      <4>1. CASE UNCHANGED tree
        BY <4>1 DEF tree, Complete
      <4>2. CASE /\ root' = [root EXCEPT ![id] = cmd.had] /\ root[id] = None
                 /\ backups' = [backups EXCEPT ![id] = @ \ {cmd.had}]
        BY <1>1, <2>2, <2>3, <4>2 DEF Complete
      <4> QED
        BY <3>5, <4>1, <4>2 DEF Restore
    <3>6. CASE DropBackup
      <4>1. root'[id] = job.version
        BY <3>6 DEF DropBackup, FilesInv, At
      <4> QED
        BY <2>2, <2>3, <4>1 DEF Complete
    <3> QED
      BY <1>3, <3>1, <3>2, <3>3, <3>4, <3>5, <3>6
  <2> QED
    BY <2>4
<1>4. CASE DeleteFiles
  <2>1. At("delete") /\ (\A q \in Plugins \ {id} : root'[q] = root[q]) /\ backups' = backups
    BY <1>1, <1>4 DEF DeleteFiles
  <2> QED
    BY <2>1 DEF Complete
<1> QED
  BY <1>2, <1>3, <1>4, FilesKept

LEMMA FilesCorrect == Spec => [](TypeInv /\ FilesInv)
<1>1. Init => TypeInv /\ FilesInv
  BY TypeInit, IdleType DEF Init, FilesInv, At
<1>2. TypeInv /\ FilesInv /\ [Next]_vars => (TypeInv /\ FilesInv)'
  BY TypeStep, FilesStep
<1> QED
  BY <1>1, <1>2, PTL DEF Spec

(* Only a removal takes the last complete copy of a plugin from the disk,    *)
(* for any plugins, versions, errors and kills: install_plugin moves the old *)
(* files aside before it copies, and drops them after the new ones are there. *)
THEOREM LastCopyCorrect == Spec => LastCopyIsKept
<1>1. TypeInv /\ FilesInv /\ [Next]_vars =>
        [\A p \in Plugins : Complete(p) /\ ~Complete(p)' => At("delete") /\ id = p]_vars
  BY CopyStep
<1>2. Spec => [][\A p \in Plugins :
                   Complete(p) /\ ~Complete(p)' => At("delete") /\ id = p]_vars
  BY <1>1, FilesCorrect, PTL DEF Spec
<1> QED
  BY <1>2 DEF LastCopyIsKept

-----------------------------------------------------------------------------
(* The jobs that are left: what a sync has found in the table stays true.   *)

SyncOps == {"resync", "unsync"}
On(p) == row[p] # None /\ row[p].on
InFront(jobs) == \A i, j \in DOMAIN jobs :
                   i < j /\ jobs[j].op \in SyncOps => jobs[i].op \in SyncOps
OffStill == \A i \in DOMAIN cmd.jobs : cmd.jobs[i].op = "unsync" => ~On(cmd.jobs[i].id)
JobsInv == InFront(cmd.jobs) /\ OffStill

LEMMA Onward ==
  ASSUME TypeInv, Next, ~Call, ~Kill, ~StartUpdate, ~StartSync
  PROVE  ~At("idle") /\ (Done \/ Fail \/ SameJob)
<1>1. cmd \in CmdType
  BY DEF TypeInv
<1>2. ~At("idle")
  BY DEF Next, Step, Starts, StartInstall, StartSwitch, StartRemove, StartResync, Start,
         Installs, Prepare, CopyFiles, Dependencies, Undo, Restore, DropBackup, SaveRow,
         LoadRecords, SaveRecords, Syncs, ClearSkills, WriteSkills, ExportMcp, EmptyOverlay,
         RemoveOverlay, MakeOverlay, BuildOverlay, Unlink, Link, DeleteFiles, DeleteRow, At,
         GiveUp, Breaks
<1>3. ASSUME NEW pc, Go(pc)
      PROVE  SameJob
  BY <1>1, <1>3 DEF Go, CmdType, SameJob, job, id
<1>4. ASSUME NEW pc, NEW x,
             \/ cmd' = [cmd EXCEPT !.at = pc, !.on = x]
             \/ cmd' = [cmd EXCEPT !.at = pc, !.had = x]
             \/ cmd' = [cmd EXCEPT !.at = pc, !.copy = x]
             \/ cmd' = [cmd EXCEPT !.at = pc, !.todo = x]
             \/ cmd' = [cmd EXCEPT !.todo = x]
             \/ cmd' = cmd
      PROVE  SameJob
  BY <1>1, <1>4 DEF CmdType, SameJob, job, id
<1>5. CASE StartInstall \/ StartSwitch \/ StartRemove \/ StartResync
  <2>1. \/ Done \/ Fail
        \/ Go("prepare") \/ Go("load") \/ Go("clear")
        \/ \E b \in BOOLEAN : cmd' = [cmd EXCEPT !.at = "clear", !.on = b]
    BY <1>5 DEF StartSwitch, StartResync, StartInstall, StartRemove
  <2>2. CASE \E b \in BOOLEAN : cmd' = [cmd EXCEPT !.at = "clear", !.on = b]
    <3>1. PICK b \in BOOLEAN : cmd' = [cmd EXCEPT !.at = "clear", !.on = b]
      BY <2>2
    <3>2. cmd'.jobs = cmd.jobs
      BY <1>1, <3>1 DEF CmdType
    <3> QED
      BY <1>2, <3>2 DEF SameJob, job, id
  <2> QED
    BY <1>2, <1>3, <2>1, <2>2
<1>6. CASE Installs
  BY <1>2, <1>3, <1>4, <1>6 DEF Installs, Prepare, CopyFiles, Dependencies, Undone, Undo,
                                Restore, DropBackup, SaveRow, LoadRecords, SaveRecords
<1>7. CASE Syncs \/ DeleteFiles \/ DeleteRow
  BY <1>2, <1>3, <1>4, <1>7 DEF Syncs, ClearSkills, WriteSkills, ExportMcp, EmptyOverlay,
     RemoveOverlay, MakeOverlay, BuildOverlay, Unlink, Link, DeleteFiles, DeleteRow
<1> QED
  BY <1>2, <1>5, <1>6, <1>7, GivenUp DEF Next, Step, Starts

\* Only these steps write a row.
LEMMA RowsKept ==
  ASSUME [Next]_vars, ~(StartSwitch \/ SaveRow \/ DeleteRow)
  PROVE  row' = row
BY DEF vars, tree, Next, Call, Kill, Step, Starts, StartInstall, StartUpdate, StartRemove,
       StartSync, StartResync, Quiet, Installs, Prepare, CopyFiles, Dependencies, Undo, Restore,
       DropBackup, Keeps, LoadRecords, SaveRecords, Syncs, ClearSkills, WriteSkills, ExportMcp,
       EmptyOverlay, RemoveOverlay, MakeOverlay, BuildOverlay, Unlink, Link, Same, DeleteFiles,
       GiveUp

\* Behind another job there is nothing left of a sync.
LEMMA NoSyncs ==
  ASSUME TypeInv, ~At("idle"), InFront(cmd.jobs), job.op \notin SyncOps
  PROVE  \A i \in DOMAIN cmd.jobs : cmd.jobs[i].op \notin SyncOps
<1>1. cmd.jobs \in Seq(Jobs) /\ cmd.jobs # <<>>
  BY DEF TypeInv, StepsOK, CmdType
<1>2. job = cmd.jobs[1] /\ 1 \in DOMAIN cmd.jobs /\ \A i \in DOMAIN cmd.jobs : i = 1 \/ 1 < i
  BY <1>1 DEF job
<1> QED
  BY <1>2 DEF InFront

\* The jobs after the end of one, well or not.
LEMMA EndJobs ==
  ASSUME TypeInv, ~At("idle"), Done \/ Fail
  PROVE  /\ \A i \in DOMAIN cmd'.jobs :
              i \in Nat /\ i + 1 \in DOMAIN cmd.jobs /\ cmd'.jobs[i] = cmd.jobs[i + 1]
<1>1. cmd.jobs \in Seq(Jobs) /\ cmd.jobs # <<>>
  BY DEF TypeInv, StepsOK, CmdType
<1>2. CASE cmd' = Idle
  <2>1. cmd'.jobs = <<>>
    BY <1>2 DEF Idle
  <2> QED
    BY <2>1
<1>3. CASE cmd'.jobs = Tail(cmd.jobs)
  <2>1. Tail(cmd.jobs) \in Seq(Jobs) /\ Len(Tail(cmd.jobs)) = Len(cmd.jobs) - 1
        /\ \A i \in 1..Len(Tail(cmd.jobs)) : Tail(cmd.jobs)[i] = cmd.jobs[i + 1]
    BY <1>1
  <2> QED
    BY <1>1, <1>3, <2>1
<1> QED
  BY <1>2, <1>3, Ends

LEMMA EndInFront ==
  ASSUME TypeInv, ~At("idle"), InFront(cmd.jobs), Done \/ Fail
  PROVE  InFront(cmd'.jobs)
BY EndJobs DEF InFront

LEMMA JobsStep ==
  ASSUME TypeInv, JobsInv, [Next]_vars
  PROVE  JobsInv'
<1>1. CASE UNCHANGED vars
  BY <1>1 DEF vars, tree, skills, counts, JobsInv, InFront, OffStill, On
<1>2. CASE Kill
  <2>1. cmd'.jobs = <<>>
    BY <1>2 DEF Kill, Idle
  <2> QED
    BY <2>1 DEF JobsInv, InFront, OffStill
<1>3. CASE Call
  <2>1. CASE cmd'.at = "start"
    BY <1>3, <2>1, InitialJobs DEF JobsInv, InFront, OffStill, SyncOps
  <2>2. CASE cmd'.at # "start"
    <3>1. PICK c \in Commands :
            Turn([i \in DOMAIN Bundled |-> Do("bundled", Bundled[i])] \o <<c>>)
      BY <1>3 DEF Call
    <3> DEFINE js == [i \in DOMAIN Bundled |-> Do("bundled", Bundled[i])] \o <<c>>
    <3>2. js \in Seq(Jobs) /\ Turn(js)
      BY <3>1, CallJobs
    <3> HIDE DEF js
    <3>3. cmd'.jobs = <<>>
      BY <2>2, <3>2, Turns DEF Idle
    <3> QED
      BY <3>3 DEF JobsInv, InFront, OffStill
  <2> QED
    BY <2>1, <2>2
<1>4. CASE StartUpdate
  <2>1. /\ ~At("idle") /\ job \in Jobs /\ Tail(cmd.jobs) \in Seq(Jobs) /\ cmd.jobs \in Seq(Jobs)
        /\ cmd.jobs # <<>> /\ job.op \notin SyncOps
    BY <1>4, JobType DEF StartUpdate, Start, At, TypeInv, CmdType, StepsOK, SyncOps
  <2> DEFINE again == [job EXCEPT !.op = "reinstall", !.kind = "npm"]
             jobs == (IF Loaded[id] = "npm" THEN <<again>> ELSE <<>>) \o Tail(cmd.jobs)
  <2>2. again \in Jobs /\ again.op \notin SyncOps
    BY <2>1 DEF Jobs, Ops, Kinds, SyncOps
  <2>3. \A i \in DOMAIN cmd.jobs : cmd.jobs[i].op \notin SyncOps
    BY <2>1, NoSyncs DEF JobsInv
  <2>4. \A i \in DOMAIN Tail(cmd.jobs) : Tail(cmd.jobs)[i].op \notin SyncOps
    <3>1. Len(Tail(cmd.jobs)) = Len(cmd.jobs) - 1
          /\ \A i \in 1..Len(Tail(cmd.jobs)) : Tail(cmd.jobs)[i] = cmd.jobs[i + 1]
      BY <2>1
    <3> QED
      BY <2>1, <2>3, <3>1
  <2>5. jobs \in Seq(Jobs) /\ \A i \in DOMAIN jobs : jobs[i].op \notin SyncOps
    <3> HIDE DEF again
    <3>1. CASE Loaded[id] = "npm"
      BY <2>1, <2>2, <2>4, <3>1
    <3>2. CASE Loaded[id] # "npm"
      BY <2>1, <2>4, <3>2
    <3> QED
      BY <3>1, <3>2
  <2>6. Turn(jobs)
    BY <1>4 DEF StartUpdate
  <2> HIDE DEF jobs
  <2>7. cmd'.jobs = jobs \/ cmd'.jobs = <<>>
    BY <2>5, <2>6, Turns DEF Idle
  <2> QED
    BY <2>5, <2>7 DEF JobsInv, InFront, OffStill, SyncOps
<1>5. CASE StartSync
  <2>1. /\ cmd' \in CmdType /\ ~At("idle") /\ job.op \notin SyncOps
        /\ row' = row
    BY <1>5, SyncJobs DEF StartSync, Start, At, SyncOps
  <2>2. \A i \in DOMAIN cmd.jobs : cmd.jobs[i].op \notin SyncOps
    BY <2>1, NoSyncs DEF JobsInv
  <2>3. CASE cmd'.at = "start"
    <3>1. PICK n \in Nat :
            /\ n <= Len(cmd'.jobs)
            /\ \A i \in 1..n : /\ cmd'.jobs[i].op \in SyncOps
                               /\ cmd'.jobs[i].op = "unsync" => ~row[cmd'.jobs[i].id].on
            /\ \A i \in (n + 1)..Len(cmd'.jobs) :
                 \/ cmd'.jobs[i].op = "overlay"
                 \/ i - n \in DOMAIN cmd.jobs /\ cmd'.jobs[i] = cmd.jobs[i - n]
      BY <1>5, <2>3, SyncJobs DEF SyncOps
    <3>2. DOMAIN cmd'.jobs = 1..Len(cmd'.jobs) /\ Len(cmd'.jobs) \in Nat
      BY <2>1 DEF CmdType
    <3>3. \A i \in DOMAIN cmd'.jobs : i \in 1..n \/ i \in (n + 1)..Len(cmd'.jobs)
      BY <3>2
    <3>4. \A i \in (n + 1)..Len(cmd'.jobs) : cmd'.jobs[i].op \notin SyncOps
      BY <2>2, <3>1 DEF SyncOps
    <3>5. \A i, j \in DOMAIN cmd'.jobs : i < j /\ j \in 1..n => i \in 1..n
      BY <3>2
    <3>6. InFront(cmd'.jobs)
      BY <3>1, <3>3, <3>4, <3>5 DEF InFront
    <3>7. \A i \in DOMAIN cmd'.jobs : cmd'.jobs[i].op = "unsync" => ~row[cmd'.jobs[i].id].on
      BY <3>1, <3>3, <3>4 DEF SyncOps
    <3> QED
      BY <2>1, <3>6, <3>7 DEF JobsInv, OffStill, On
  <2>4. CASE cmd'.at # "start"
    <3>1. PICK s \in SetToSeqs({p \in Plugins : row[p] # None}) :
            Turn([i \in DOMAIN s |-> Do(IF row[s[i]].on THEN "resync" ELSE "unsync", s[i])]
                   \o <<[job EXCEPT !.op = "overlay"]>> \o Tail(cmd.jobs))
      BY <1>5 DEF StartSync
    <3>2. cmd' = Idle \/ cmd'.at = "start"
      <4> DEFINE js == [i \in DOMAIN s |-> Do(IF row[s[i]].on THEN "resync" ELSE "unsync", s[i])]
                         \o <<[job EXCEPT !.op = "overlay"]>> \o Tail(cmd.jobs)
      <4>1. cmd' = IF js = <<>> THEN Idle ELSE [Idle EXCEPT !.at = "start", !.jobs = js]
        BY <3>1 DEF Turn
      <4> HIDE DEF js
      <4> QED
        BY <4>1 DEF Idle
    <3>3. cmd'.jobs = <<>>
      BY <2>4, <3>2 DEF Idle
    <3> QED
      BY <3>3 DEF JobsInv, InFront, OffStill
  <2> QED
    BY <2>3, <2>4
<1>6. CASE Next /\ ~Call /\ ~Kill /\ ~StartUpdate /\ ~StartSync
  <2>1. ~At("idle") /\ (Done \/ Fail \/ SameJob)
    BY <1>6, Onward
  <2>2. InFront(cmd'.jobs)
    BY <2>1, EndInFront DEF JobsInv, SameJob
  <2>3. \A i \in DOMAIN cmd'.jobs : \E j \in DOMAIN cmd.jobs : cmd'.jobs[i] = cmd.jobs[j]
    BY <2>1, EndJobs DEF SameJob
  <2>4. CASE StartSwitch \/ SaveRow \/ DeleteRow
    <3>1. job.op \notin SyncOps
      BY <2>4 DEF StartSwitch, SaveRow, DeleteRow, Start, TypeInv, StepsOK, Fits, Removes, At,
                  Installs3, SyncOps
    <3>2. \A i \in DOMAIN cmd.jobs : cmd.jobs[i].op # "unsync"
      BY <2>1, <3>1, NoSyncs DEF JobsInv, SyncOps
    <3> QED
      BY <2>2, <2>3, <3>2 DEF JobsInv, OffStill
  <2>5. CASE ~(StartSwitch \/ SaveRow \/ DeleteRow)
    <3>1. row' = row
      BY <2>5, RowsKept
    <3> QED
      BY <2>2, <2>3, <3>1 DEF JobsInv, OffStill, On
  <2> QED
    BY <2>4, <2>5
<1> QED
  BY <1>1, <1>2, <1>3, <1>4, <1>5, <1>6

-----------------------------------------------------------------------------
(* Without a kill: the rows are of the files, and installs.json of the rows, *)
(* but for the errors that PartsAgree names.                                *)

Repaired(p) == ~Met(p, Unrepaired)
Sure(p)     == ~(Met(p, {"load"}) \/ Somewhere("save"))
Busy == {"copy", "dependencies", "undo", "restore", "drop", "row", "delete", "forget"}
RowsInv ==
  \A p \in Plugins : row[p] # None /\ Repaired(p) =>
    \/ root[p] = row[p].version
    \/ p = id /\ cmd.at \in {"copy", "dependencies", "undo", "restore"} /\ cmd.had = row[p].version
    \/ p = id /\ cmd.at \in {"drop", "row", "delete", "forget"}

RecordsInv ==
  /\ ~At("save") => /\ records # Half \/ Somewhere("save")
                    /\ \A p \in Plugins : Sure(p) => \/ (row[p] = None) = (records[p] = None)
                                                     \/ At("load") /\ p = id
  /\ At("save") => \A p \in Plugins : Sure(p) => (row[p] = None) = (cmd.copy[p] = None)
  /\ At("load") => (row[id] = None) = Removes

LEMMA SureBefore ==
  ASSUME [Next]_vars, NEW p
  PROVE  (Repaired(p)' => Repaired(p)) /\ (Sure(p)' => Sure(p))
BY MetStays, SomewhereStays DEF Repaired, Sure

LEMMA CalmSteps ==
  ASSUME Next, ~Kill, ~GiveUp, ~(Prepare \/ CopyFiles \/ Dependencies \/ Undo \/ Restore \/ DropBackup \/ SaveRow
                          \/ DeleteFiles \/ DeleteRow)
  PROVE  cmd.at \notin Busy
BY DEF Busy, At, Next, Call, Step, Starts, StartInstall, StartUpdate, StartSwitch, StartRemove,
       StartSync, StartResync, Start, Installs, LoadRecords, SaveRecords, Syncs, ClearSkills,
       WriteSkills, ExportMcp, EmptyOverlay, RemoveOverlay, MakeOverlay, BuildOverlay, Unlink, Link

\* A row that is set on or off is still of the same files.
LEMMA SwitchRow ==
  ASSUME TypeInv, StartSwitch, row' # row \/ cmd'.at = "clear"
  PROVE  /\ id \in Plugins /\ row[id] \in Rows /\ row' = [row EXCEPT ![id] = row'[id]]
         /\ row'[id] \in Rows /\ row'[id].version = row[id].version
         /\ row'[id].on = (job.op = "enable")
         /\ cmd'.on = (job.op = "enable")
         /\ cmd'.at = "clear" /\ SameJob
<1>0. ~At("idle")
  BY DEF StartSwitch, Start, At
<1>1. /\ row[id] # None /\ row' = [row EXCEPT ![id].on = job.op = "enable"]
      /\ cmd' = [cmd EXCEPT !.at = "clear", !.on = job.op = "enable"]
  <2>1. CASE Fail /\ row' = row
    BY <1>0, <2>1, EndsOK
  <2> QED
    BY <2>1 DEF StartSwitch
<1>2. id \in Plugins /\ row \in [Plugins -> Rows \cup {None}] /\ cmd \in CmdType
  BY <1>0, JobType DEF TypeInv
<1>3. row[id] \in Rows
  BY <1>1, <1>2
<1>4. PICK b \in BOOLEAN : b = (job.op = "enable")
  OBVIOUS
<1>5. row' = [row EXCEPT ![id] = [row[id] EXCEPT !.on = b]]
  BY <1>1, <1>2, <1>4
<1>6. row'[id] = [row[id] EXCEPT !.on = b]
  BY <1>2, <1>5
<1>7. row'[id] \in Rows /\ row'[id].version = row[id].version /\ row'[id].on = b
  BY <1>3, <1>6 DEF Rows
<1>8. cmd'.on = b /\ cmd'.at = "clear" /\ cmd'.jobs = cmd.jobs
  BY <1>1, <1>2, <1>4 DEF CmdType
<1>9. SameJob
  BY <1>8 DEF SameJob, job, id
<1> QED
  BY <1>2, <1>3, <1>4, <1>5, <1>6, <1>7, <1>8, <1>9

\* The row that an installation writes.
LEMMA SavedRow ==
  ASSUME TypeInv, SaveRow
  PROVE  /\ id \in Plugins /\ row' = [row EXCEPT ![id] = row'[id]]
         /\ row'[id] \in Rows /\ row'[id].version = job.version /\ row'[id].on = cmd'.on
         /\ cmd' \in CmdType /\ cmd'.at = "load" /\ SameJob /\ cmd'.copy = cmd.copy
         /\ root' = root /\ records' = records
<1>1. ~At("idle") /\ id \in Plugins /\ job.version \in Versions
  BY JobType DEF SaveRow, At
<1>2. row \in [Plugins -> Rows \cup {None}] /\ cmd \in CmdType
  BY DEF TypeInv
<1> DEFINE on == IF Update /\ row[id] # None THEN row[id].on ELSE TRUE
<1>3. on \in BOOLEAN
  BY <1>1, <1>2 DEF Rows
<1>4. row' = [row EXCEPT ![id] = [on |-> on, version |-> job.version]]
      /\ cmd' = [cmd EXCEPT !.at = "load", !.on = on]
  BY DEF SaveRow
<1> HIDE DEF on
<1>5. row'[id] = [on |-> on, version |-> job.version]
  BY <1>1, <1>2, <1>4
<1>6. cmd' \in CmdType /\ cmd'.at = "load" /\ SameJob /\ cmd'.on = on /\ cmd'.copy = cmd.copy
  BY <1>2, <1>3, <1>4 DEF CmdType, Pcs, SameJob, job, id
<1>7. row'[id] \in Rows /\ row'[id].version = job.version /\ row'[id].on = on
  BY <1>1, <1>3, <1>5 DEF Rows
<1>8. row' = [row EXCEPT ![id] = row'[id]]
  BY <1>4, <1>5
<1>9. root' = root /\ records' = records
  BY DEF SaveRow, Quiet, tree
<1> QED
  BY <1>1, <1>6, <1>7, <1>8, <1>9

LEMMA RowsStep ==
  ASSUME TypeInv, FilesInv, RowsInv, Next, ~Kill
  PROVE  RowsInv'
<1>1. root \in [Plugins -> Files] /\ row \in [Plugins -> Rows \cup {None}] /\ cmd \in CmdType
  BY DEF TypeInv
<1>2. \A p \in Plugins : row[p] # None => row[p].version \in Versions
  BY <1>1 DEF Rows
<1>0. \A p \in Plugins : Repaired(p)' => Repaired(p)
  BY SureBefore
<1>8. CASE GiveUp
  <2>1. /\ row' = row /\ root' = root /\ Noted /\ ~At("idle") /\ id \in Plugins
        /\ cmd.at \in Breaks
    BY <1>8, GivenUp
  <2>2. cmd.at \in {"row", "delete", "forget"} => Place \in Unrepaired
    BY <2>1, PlaceIs DEF Unrepaired
  <2>3. cmd.at \in {"row", "delete", "forget"} => \A p \in Plugins : p = id => ~Repaired(p)'
    BY <2>1, <2>2, NowMet DEF Repaired, Unrepaired
  <2>4. cmd.at \notin {"copy", "dependencies", "undo", "restore", "drop"}
    BY <2>1 DEF Breaks
  <2> QED
    BY <1>0, <2>1, <2>3, <2>4 DEF RowsInv
<1>3. CASE ~GiveUp /\ ~(Prepare \/ CopyFiles \/ Dependencies \/ Undo \/ Restore \/ DropBackup \/ SaveRow
                          \/ DeleteFiles \/ DeleteRow)
  <2>1. root' = root
    BY <1>3, FilesKept DEF tree
  <2>2. \A p \in Plugins : row[p] # None /\ Repaired(p) => root[p] = row[p].version
    BY <1>3, CalmSteps DEF Busy, RowsInv
  <2>3. CASE row' = row
    BY <1>0, <2>1, <2>2, <2>3 DEF RowsInv
  <2>4. CASE StartSwitch /\ row' # row
    <3>1. id \in Plugins /\ row[id] \in Rows /\ row' = [row EXCEPT ![id] = row'[id]]
          /\ row'[id].version = row[id].version
      BY <2>4, SwitchRow
    <3>2. \A p \in Plugins : p # id => row'[p] = row[p]
      BY <1>1, <3>1
    <3>3. row[id] # None
      BY <3>1, NoneAssumption
    <3> QED
      BY <1>0, <2>1, <2>2, <3>1, <3>2, <3>3 DEF RowsInv
  <2> QED
    BY <1>3, <2>3, <2>4, RowsKept
<1>4. CASE Prepare \/ CopyFiles \/ Dependencies \/ Undo \/ Restore \/ DropBackup
  <2>1. ~At("idle") /\ row' = row
        /\ \A q \in Plugins \ {id} : root'[q] = root[q]
    BY <1>1, <1>4 DEF Prepare, CopyFiles, Dependencies, Undo, Restore, DropBackup, At, tree, Keeps
  <2>2. id \in Plugins
    BY <2>1, JobType
  <2>3. \A q \in Plugins \ {id} : row[q] # None /\ Repaired(q) => root[q] = row[q].version
    BY DEF RowsInv
  <2> DEFINE Kept == row[id] # None /\ Repaired(id)
  <2>4. \/ \A p \in Plugins : p = id => ~Repaired(p)'
        \/ Kept => root'[id] = row[id].version
        \/ /\ cmd'.at \in {"copy", "dependencies", "undo", "restore"} /\ id' = id
           /\ Kept => cmd'.had = row[id].version
        \/ cmd'.at \in {"drop", "row"} /\ id' = id
    <3>1. CASE Prepare
      <4>1. Kept => root[id] = row[id].version
        BY <2>2, <3>1 DEF RowsInv, Prepare, At
      <4>2. CASE root' = root
        BY <4>1, <4>2
      <4>3. CASE cmd' = [cmd EXCEPT !.at = "copy", !.had = root[id]]
        <5>1. cmd'.at = "copy" /\ cmd'.had = root[id] /\ id' = id
          BY <1>1, <4>3 DEF CmdType, id, job
        <5> QED
          BY <4>1, <5>1
      <4> QED
        BY <3>1, <4>2, <4>3 DEF Prepare, tree
    <3>2. CASE CopyFiles
      <4>1. Kept => cmd.had = row[id].version
        BY <1>2, <2>2, <3>2 DEF RowsInv, FilesInv, CopyFiles, At
      <4>2. CASE Go("dependencies")
        <5>1. cmd'.at = "dependencies" /\ cmd'.had = cmd.had /\ id' = id
          BY <4>2, Moves DEF Pcs, SameJob
        <5> QED
          BY <4>1, <5>1
      <4>3. CASE Go("undo")
        <5>1. cmd'.at = "undo" /\ cmd'.had = cmd.had /\ id' = id
          BY <4>3, Moves DEF Pcs, SameJob
        <5> QED
          BY <4>1, <5>1
      <4>4. CASE cmd.had = None
        BY <1>2, <2>2, <4>1, <4>4
      <4> QED
        BY <3>2, <4>2, <4>3, <4>4 DEF CopyFiles, Undone
    <3>3. CASE Dependencies
      <4>1. Kept => cmd.had = row[id].version
        BY <1>2, <2>2, <3>3 DEF RowsInv, FilesInv, Dependencies, At
      <4>2. CASE Go("drop")
        BY <4>2, Moves DEF Pcs, SameJob
      <4>3. CASE Go("undo")
        <5>1. cmd'.at = "undo" /\ cmd'.had = cmd.had /\ id' = id
          BY <4>3, Moves DEF Pcs, SameJob
        <5> QED
          BY <4>1, <5>1
      <4>4. CASE cmd.had = None
        BY <1>2, <2>2, <4>1, <4>4
      <4> QED
        BY <3>3, <4>2, <4>3, <4>4 DEF Dependencies, Undone
    <3>4. CASE Undo
      <4>1. Kept => cmd.had = row[id].version
        BY <1>2, <2>2, <3>4 DEF RowsInv, FilesInv, Undo, At
      <4>2. cmd'.at = "restore" /\ cmd'.had = cmd.had /\ id' = id
        BY <3>4, Moves DEF Undo, Pcs, SameJob
      <4> QED
        BY <4>1, <4>2
    <3>5. CASE Restore
      <4>1. Kept => cmd.had = row[id].version
        BY <1>2, <2>2, <3>5 DEF RowsInv, FilesInv, Restore, At, Repaired, Met, Unrepaired
      <4>2. CASE root'[id] = cmd.had
        BY <4>1, <4>2
      <4>3. CASE Fault
        <5>1. Noted /\ Place \in Unrepaired
          BY <2>1, <3>5, <4>3, PlaceIs DEF Restore, At, Fault, Unrepaired
        <5> QED
          BY <5>1, NowMet DEF Repaired
      <4>4. CASE root[id] # None
        <5>1. ~Repaired(id)
          BY <3>5, <4>4 DEF Restore, FilesInv, At, Met, Repaired, Unrepaired
        <5> QED
          BY <5>1
      <4>5. root'[id] = cmd.had \/ Fault \/ root[id] # None
        BY <1>1, <2>2, <3>5 DEF Restore
      <4> QED
        BY <4>2, <4>3, <4>4, <4>5
    <3>6. CASE DropBackup
      BY <3>6, Moves DEF DropBackup, Pcs, SameJob
    <3> QED
      BY <1>4, <3>1, <3>2, <3>3, <3>4, <3>5, <3>6
  <2> QED
    BY <1>0, <2>1, <2>2, <2>3, <2>4 DEF RowsInv
<1>5. CASE SaveRow
  <2>1. id \in Plugins /\ row' = [row EXCEPT ![id] = row'[id]] /\ row'[id].version = job.version
        /\ root' = root
    BY <1>5, SavedRow
  <2>2. root[id] = job.version
    BY <1>5 DEF SaveRow, At, FilesInv
  <2>3. \A q \in Plugins \ {id} : row'[q] = row[q] /\ (row[q] # None /\ Repaired(q) => root[q] = row[q].version)
    BY <1>1, <2>1 DEF RowsInv
  <2> QED
    BY <1>0, <2>1, <2>2, <2>3 DEF RowsInv
<1>6. CASE DeleteFiles
  <2>1. row' = row /\ (\A q \in Plugins \ {id} : root'[q] = root[q]) /\ ~At("idle")
        /\ (Go("forget") \/ (At("delete") /\ cmd' = cmd))
    BY <1>1, <1>6 DEF DeleteFiles, At
  <2>2. cmd'.at \in {"delete", "forget"} /\ id' = id
    <3>1. CASE Go("forget")
      BY <3>1, Moves DEF Pcs, SameJob
    <3>2. CASE At("delete") /\ cmd' = cmd
      BY <3>2 DEF At, id, job
    <3> QED
      BY <2>1, <3>1, <3>2
  <2>3. \A q \in Plugins \ {id} : row[q] # None /\ Repaired(q) => root[q] = row[q].version
    BY DEF RowsInv
  <2> QED
    BY <1>0, <2>1, <2>2, <2>3 DEF RowsInv
<1>7. CASE DeleteRow
  <2>1. row' = [row EXCEPT ![id] = None] /\ root' = root
    BY <1>7 DEF DeleteRow, Quiet, tree
  <2>2. \A q \in Plugins : row'[q] = None \/ (q # id /\ row'[q] = row[q])
    BY <1>1, <2>1
  <2> QED
    BY <1>0, <2>1, <2>2 DEF RowsInv
<1> QED
  BY <1>8, <1>3, <1>4, <1>5, <1>6, <1>7

\* Only these steps touch installs.json, or the command's copy of it.
LEMMA RecordsKept ==
  ASSUME [Next]_vars, ~(LoadRecords \/ SaveRecords)
  PROVE  records' = records
BY DEF vars, tree, Next, Call, Kill, Step, Starts, StartInstall, StartUpdate, StartSwitch,
       StartRemove, StartSync, StartResync, Quiet, Installs, Prepare, CopyFiles, Dependencies,
       Undo, Restore, DropBackup, SaveRow, Keeps, Syncs, ClearSkills, WriteSkills, ExportMcp,
       EmptyOverlay, RemoveOverlay, MakeOverlay, BuildOverlay, Unlink, Link, Same, DeleteFiles,
       DeleteRow, GiveUp

\* No other step leads to them.
LEMMA NotToRecords ==
  ASSUME TypeInv, Next, ~(StartRemove \/ SaveRow \/ LoadRecords \/ DeleteRow)
  PROVE  cmd'.at \notin {"load", "save"}
BY Leads DEF Leading

LEMMA RecordsStep ==
  ASSUME TypeInv, RecordsInv, Next, ~Kill
  PROVE  RecordsInv'
<1>1. /\ row \in [Plugins -> Rows \cup {None}] /\ records \in Records \cup {Half}
      /\ cmd \in CmdType /\ cmd.copy \in Records
  BY DEF TypeInv, CmdType
<1>0. (\A p \in Plugins : Sure(p)' => Sure(p)) /\ (Somewhere("save") => Somewhere("save")')
  BY SureBefore, SomewhereStays
<1>5. CASE GiveUp
  <2>1. /\ row' = row /\ records' = records /\ Noted /\ ~At("idle") /\ id \in Plugins
        /\ cmd'.at \notin {"load", "save"}
    BY <1>5, GivenUp
  <2>2. cmd.at \in {"load", "save"} => Place \in {cmd.at}
    BY <2>1, PlaceIs
  <2>3. At("load") => \A p \in Plugins : p = id => ~Sure(p)'
    BY <2>1, <2>2, NowMet DEF At, Sure
  <2>4. At("save") => Somewhere("save")' /\ \A p \in Plugins : ~Sure(p)'
    <3>1. At("save") => \A p \in Plugins : p = id => Met(p, {"save"})'
      BY <2>1, <2>2, NowMet DEF At
    <3> QED
      BY <2>1, <3>1 DEF Sure, Somewhere
  <2> QED
    BY <1>0, <2>1, <2>3, <2>4 DEF RecordsInv, At
<1>2. CASE LoadRecords
  <2>1. /\ ~At("idle") /\ At("load") /\ ~At("save") /\ row' = row
        /\ records # Half \/ Somewhere("save")
        /\ (row[id] = None) = Removes
        /\ \A p \in Plugins \ {id} : Sure(p) => (row[p] = None) = (records[p] = None)
    BY <1>2 DEF LoadRecords, At, RecordsInv
  <2>6. /\ Loaded \in Records
        /\ \A p \in Plugins : Sure(p)' => Loaded = records
    <3>1. records # Half => Loaded = records /\ records \in Records
      BY <1>1 DEF Loaded
    <3>2. records = Half => Loaded \in Records
      BY DEF Loaded, NoRecords, Records
    <3> QED
      BY <1>0, <2>1, <3>1, <3>2 DEF Sure
  <2>3. id \in Plugins /\ job.kind \in Kinds
    BY <2>1, JobType
  <2>4. CASE Done
    <3>1. cmd'.at \in {"idle", "start"}
      BY <2>1, <2>4, EndsOK
    <3>2. CASE records' = records /\ Removes /\ Loaded[id] = None
      <4>1. \A p \in Plugins : Sure(p)' => (row'[p] = None) = (records'[p] = None)
        BY <1>0, <2>1, <2>6, <3>2
      <4> QED
        BY <1>0, <2>1, <3>1, <3>2, <4>1 DEF RecordsInv, At
    <3>3. CASE ~(Removes /\ Loaded[id] = None)
      <4>1. cmd'.at = "save"
        BY <1>1, <1>2, <3>3 DEF LoadRecords, CmdType
      <4> QED
        BY <3>1, <4>1
    <3> QED
      BY <1>2, <3>2, <3>3 DEF LoadRecords
  <2>5. CASE ~Done
    <3> DEFINE next == [Loaded EXCEPT ![id] = IF Removes THEN None ELSE job.kind]
    <3>1. cmd' = [cmd EXCEPT !.at = "save", !.copy = next]
      BY <1>2, <2>5 DEF LoadRecords
    <3>2. /\ next[id] = None <=> Removes
          /\ \A p \in Plugins \ {id} : next[p] = Loaded[p]
      BY <2>6, <2>3, NoneAssumption DEF Records
    <3> HIDE DEF next
    <3>3. cmd'.at = "save" /\ cmd'.copy = next
      BY <1>1, <3>1 DEF CmdType
    <3>4. ASSUME NEW p \in Plugins, Sure(p)'
          PROVE  (row'[p] = None) = (cmd'.copy[p] = None)
      <4>1. CASE p = id
        BY <2>1, <3>2, <3>3, <4>1
      <4>2. CASE p # id
        <5>1. (row[p] = None) = (records[p] = None) /\ Loaded = records
          BY <1>0, <2>1, <2>6, <3>4, <4>2
        <5> QED
          BY <2>1, <3>2, <3>3, <4>2, <5>1
      <4> QED
        BY <4>1, <4>2
    <3> QED
      BY <3>3, <3>4 DEF RecordsInv, At
  <2> QED
    BY <2>4, <2>5
<1>3. CASE SaveRecords
  <2>1. ~At("idle") /\ At("save") /\ row' = row /\ records' = cmd.copy
    BY <1>3 DEF SaveRecords, At
  <2>2. cmd.copy # Half
    BY <1>1, HalfAssumption DEF Records
  <2>3. cmd'.at \notin {"load", "save"}
    BY <1>3, NotToRecords DEF SaveRecords, StartRemove, SaveRow, LoadRecords, DeleteRow, Start, At
  <2> QED
    BY <1>0, <2>1, <2>2, <2>3 DEF RecordsInv, At
<1>4. CASE ~(GiveUp \/ LoadRecords \/ SaveRecords)
  <2>1. records' = records
    BY <1>4, RecordsKept
  <2>2. /\ ~At("save") /\ ~At("load")
        /\ records # Half \/ Somewhere("save")
        /\ \A p \in Plugins : Sure(p) => (row[p] = None) = (records[p] = None)
    BY <1>4 DEF RecordsInv, At, Next, Kill, Call, Step, Starts, StartInstall, StartUpdate, StartSwitch,
       StartRemove, StartSync, StartResync, Start, Installs, Prepare, CopyFiles, Dependencies,
       Undo, Restore, DropBackup, SaveRow, Syncs, ClearSkills, WriteSkills, ExportMcp,
       EmptyOverlay, RemoveOverlay, MakeOverlay, BuildOverlay, Unlink, Link, DeleteFiles, DeleteRow
  <2>3. CASE StartRemove
    <3>1. ~At("idle") /\ Removes /\ row' = row
          /\ ((row[id] = None /\ Go("load")) \/ Go("clear"))
      BY <2>3 DEF StartRemove, Start, At, Removes
    <3>2. CASE row[id] = None /\ Go("load")
      <4>1. cmd'.at = "load" /\ id' = id /\ Removes'
        BY <3>1, <3>2, Moves DEF Pcs, SameJob, Removes
      <4>2. (row'[id'] = None) = Removes'
        BY <3>1, <3>2, <4>1
      <4> QED
        BY <1>0, <2>1, <2>2, <3>1, <4>1, <4>2 DEF RecordsInv, At
    <3>3. CASE Go("clear")
      <4>1. cmd'.at = "clear"
        BY <3>3, Moves DEF Pcs
      <4> QED
        BY <1>0, <2>1, <2>2, <3>1, <4>1 DEF RecordsInv, At
    <3> QED
      BY <3>1, <3>2, <3>3
  <2>4. CASE SaveRow
    <3>1. /\ id \in Plugins /\ row' = [row EXCEPT ![id] = row'[id]] /\ row'[id] # None
          /\ cmd'.at = "load" /\ SameJob
      BY <2>4, SavedRow, NoneAssumption
    <3>2. ~Removes
      BY <2>4 DEF SaveRow, At, TypeInv, StepsOK, Fits, Removes, Installs3
    <3>3. ~Removes' /\ id' = id
      BY <3>1, <3>2 DEF SameJob, Removes
    <3>4. \A p \in Plugins \ {id} : row'[p] = row[p]
      BY <1>1, <3>1
    <3>5. (row'[id'] = None) = Removes'
      BY <3>1, <3>3 DEF Removes
    <3> QED
      BY <1>0, <2>1, <2>2, <3>1, <3>3, <3>4, <3>5 DEF RecordsInv, At
  <2>5. CASE DeleteRow
    <3>1. ~At("idle") /\ row' = [row EXCEPT ![id] = None] /\ Go("load") /\ Removes
      BY <2>5 DEF DeleteRow, At, TypeInv, StepsOK, Fits
    <3>2. cmd'.at = "load" /\ id' = id /\ Removes'
      BY <3>1, Moves DEF Pcs, SameJob, Removes
    <3>3. id \in Plugins
      BY <3>1, JobType
    <3>4. row'[id] = None /\ \A p \in Plugins \ {id} : row'[p] = row[p]
      BY <1>1, <3>1, <3>3
    <3> QED
      BY <1>0, <2>1, <2>2, <3>2, <3>4 DEF RecordsInv, At
  <2>6. CASE ~(StartRemove \/ SaveRow \/ DeleteRow)
    <3>1. cmd'.at \notin {"load", "save"}
      BY <1>4, <2>6, NotToRecords
    <3>2. \A p \in Plugins : (row'[p] = None) = (row[p] = None)
      <4>1. CASE StartSwitch /\ row' # row
        <5>1. id \in Plugins /\ row[id] \in Rows /\ row' = [row EXCEPT ![id] = row'[id]]
              /\ row'[id] \in Rows
          BY <4>1, SwitchRow
        <5> QED
          BY <1>1, <5>1, NoneAssumption
      <4> QED
        BY <2>6, <4>1, RowsKept
    <3> QED
      BY <1>0, <2>1, <2>2, <3>1, <3>2 DEF RecordsInv, At
  <2> QED
    BY <2>3, <2>4, <2>5, <2>6
<1> QED
  BY <1>2, <1>3, <1>4, <1>5

-----------------------------------------------------------------------------
(* Without a kill: Codex sees the skills of a plugin that is on, but for    *)
(* the plugin whose skills are being written, while the overlay is rebuilt, *)
(* and after the errors that PartsAgree names.                              *)

Overlaying == {"rmdir", "mkdir", "build", "link"}
Shown(p)   == row[p].version \in Visible(p)
Excusing   == Unrepaired \cup {"load", "save", "clear", "write"}
Excused(p) == Met(p, Excusing)
Written(p) == p = id /\ \/ cmd.at \in {"clear", "write", "export", "delete", "forget"}
                        \/ cmd.at \in {"load", "save"} /\ ~Removes

LinkOK ==
  /\ link = "link" => overlay # "none" \/ At("mkdir")
  /\ cmd.at \in {"build", "link"} => overlay # "none"
OnOK == cmd.at \in {"load", "save", "clear"} /\ ~Removes /\ On(id) => cmd.on
TodoOK == At("build") => \A i \in DOMAIN cmd.todo : row[cmd.todo[i]] # None
NestedOK ==
  /\ At("build") => \A p \in Plugins : On(p) /\ ~Excused(p) =>
       nested[p] = row[p].version \/ \E i \in DOMAIN cmd.todo : cmd.todo[i] = p
  /\ At("link") => \A p \in Plugins : On(p) /\ ~Excused(p) => nested[p] = row[p].version
ShownOK == cmd.at \notin Overlaying =>
             \A p \in Plugins : On(p) /\ ~Excused(p) => Shown(p) \/ Written(p)
SkillsInv == /\ OnOK /\ TodoOK
             /\ ~Somewhere("overlay") => LinkOK /\ NestedOK /\ ShownOK

\* An error of the overlay concerns every plugin, an error of the plugin's own
\* excuses its skills.
LEMMA OverlayError ==
  ASSUME TypeInv, ~At("idle"), Noted, job.op = "overlay" \/ cmd.at \in Overlaying
  PROVE  Somewhere("overlay")'
<1>1. Place = "overlay"
  BY DEF TypeInv, StepsOK, Fits, Overlaying, Place
<1>2. PICK p \in Plugins : p = id
  BY JobType
<1>3. Met(p, {"overlay"})'
  BY <1>1, <1>2, NowMet
<1> QED
  BY <1>3 DEF Somewhere

LEMMA OwnError ==
  ASSUME TypeInv, ~At("idle"), Noted, NEW p, p = id, cmd.at \in Excusing
  PROVE  Excused(p)'
<1>1. Place = cmd.at
  BY PlaceIs DEF Excusing, Unrepaired
<1>2. Met(p, Excusing)'
  BY <1>1, NowMet
<1> QED
  BY <1>2 DEF Excused, Excusing, Unrepaired

LEMMA ExcusedStays ==
  ASSUME [Next]_vars, NEW p
  PROVE  (Excused(p) => Excused(p)') /\ (~Excused(p) => Repaired(p))
BY MetStays DEF Excused, Repaired, Met, Excusing, Unrepaired

LEMMA SkillsKept ==
  ASSUME [Next]_vars, ~(ClearSkills \/ WriteSkills \/ ExportMcp \/ EmptyOverlay \/ RemoveOverlay
                          \/ MakeOverlay \/ BuildOverlay \/ Unlink \/ Link)
  PROVE  UNCHANGED <<flat, nested, link, overlay>>
BY DEF vars, skills, Next, Call, Kill, Step, Starts, StartInstall, StartUpdate, StartSwitch,
       StartRemove, StartSync, StartResync, Quiet, Installs, Prepare, CopyFiles, Dependencies,
       Undo, Restore, DropBackup, SaveRow, LoadRecords, SaveRecords, Keeps, Syncs, DeleteFiles,
       DeleteRow, GiveUp

LEMMA LinkStep ==
  ASSUME TypeInv, LinkOK, Next, ~Kill, ~Somewhere("overlay")'
  PROVE  LinkOK'
<1>7. CASE GiveUp
  <2>1. ~At("idle") /\ Noted /\ link' = link /\ overlay' = overlay /\ cmd'.at \in {"idle", "start"}
    BY <1>7, GivenUp
  <2>2. ~At("mkdir")
    BY <2>1, OverlayError DEF At, Overlaying
  <2> QED
    BY <2>1, <2>2 DEF LinkOK, At
<1>1. CASE ~(GiveUp \/ WriteSkills \/ RemoveOverlay \/ MakeOverlay \/ Unlink \/ Link)
  <2>1. link' = link /\ overlay' = overlay
    <3>1. CASE ClearSkills \/ ExportMcp \/ EmptyOverlay \/ BuildOverlay
      BY <3>1 DEF ClearSkills, ExportMcp, EmptyOverlay, BuildOverlay
    <3> QED
      BY <1>1, <3>1, SkillsKept
  <2>2. ~At("mkdir")
    BY <1>1 DEF At, Next, Call, Kill, Step, Starts, StartInstall, StartUpdate, StartSwitch,
       StartRemove, StartSync, StartResync, Start, Installs, Prepare, CopyFiles, Dependencies,
       Undo, Restore, DropBackup, SaveRow, LoadRecords, SaveRecords, Syncs, ClearSkills,
       ExportMcp, EmptyOverlay, BuildOverlay, DeleteFiles, DeleteRow
  <2>3. cmd'.at \in {"build", "link"} => At("build")
    BY <1>1, Leads DEF Leading, BuildOverlay
  <2> QED
    BY <2>1, <2>2, <2>3 DEF LinkOK, At
<1>2. CASE WriteSkills
  <2>1. At("write") /\ overlay' = overlay /\ (link' = link \/ link' = "dir")
        /\ cmd'.at \notin {"build", "link"}
    BY <1>2, Leads DEF WriteSkills, Leading, At, BuildOverlay, MakeOverlay, Unlink
  <2> QED
    BY <2>1 DEF LinkOK, At
<1>3. CASE RemoveOverlay
  <2>1. cmd'.at = "mkdir"
    BY <1>3, Moves DEF RemoveOverlay, Pcs
  <2> QED
    BY <2>1 DEF LinkOK, At
<1>4. CASE MakeOverlay
  BY <1>4 DEF LinkOK, MakeOverlay
<1>5. CASE Unlink
  <2>1. ~At("idle") /\ At("build") /\ overlay' = overlay
    BY <1>5 DEF Unlink, At
  <2>2. link' = "none"
    BY <1>5, <2>1, OverlayError DEF Unlink, Fault, At, Overlaying
  <2> QED
    BY <2>1, <2>2 DEF LinkOK, At
<1>6. CASE Link
  <2>1. ~At("idle") /\ At("link")
    BY <1>6 DEF Link, At
  <2>2. overlay' = "whole"
    BY <1>6, <2>1, OverlayError DEF Link, Fault, At, Overlaying
  <2> QED
    BY <2>2 DEF LinkOK
<1> QED
  BY <1>1, <1>2, <1>3, <1>4, <1>5, <1>6, <1>7

LEMMA OnStep ==
  ASSUME TypeInv, JobsInv, OnOK, Next, ~Kill
  PROVE  OnOK'
<1> SUFFICES ASSUME cmd'.at \in {"load", "save", "clear"}, ~Removes', On(id)'
             PROVE  cmd'.on
  BY DEF OnOK
<1>0. row \in [Plugins -> Rows \cup {None}] /\ cmd \in CmdType
  BY DEF TypeInv
<1>1. CASE StartSwitch
  <2>1. ~At("idle")
    BY <1>1 DEF StartSwitch, Start, At
  <2>2. cmd'.at = "clear"
    BY <1>1, Leads DEF StartSwitch, Leading, LoadRecords, SaveRecords, StartRemove, SaveRow,
                       DeleteRow, Start, At
  <2>3. row'[id].on = (job.op = "enable") /\ cmd'.on = (job.op = "enable") /\ SameJob
    BY <1>1, <2>2, SwitchRow
  <2> QED
    BY <2>3 DEF On, SameJob
<1>2. CASE StartResync
  <2>1. ~At("idle") /\ row' = row /\ job.op \in SyncOps
        /\ cmd' = [cmd EXCEPT !.at = "clear", !.on = job.op = "resync"]
    BY <1>2 DEF StartResync, Start, At, SyncOps
  <2>2. SameJob
    BY <1>2, <2>1, <1>0 DEF CmdType, SameJob, job, id
  <2>3. cmd.jobs \in Seq(Jobs) /\ cmd.jobs # <<>>
    BY <2>1 DEF TypeInv, StepsOK, CmdType
  <2>4. job = cmd.jobs[1] /\ 1 \in DOMAIN cmd.jobs
    BY <2>3 DEF job
  <2>5. job.op = "unsync" => ~On(id)
    BY <2>4 DEF JobsInv, OffStill, id
  <2>6. job.op = "resync"
    BY <2>1, <2>2, <2>5 DEF On, SameJob, SyncOps
  <2>7. PICK b \in BOOLEAN : b = (job.op = "resync")
    OBVIOUS
  <2>8. cmd'.on = b
    BY <1>0, <2>1, <2>7 DEF CmdType
  <2> QED
    BY <2>6, <2>7, <2>8
<1>3. CASE StartRemove
  <2>1. PICK pc \in {"load", "clear"} : Go(pc)
    BY <1>3 DEF StartRemove
  <2>2. Removes /\ job' = job
    BY <1>3, <2>1, Moves DEF StartRemove, Start, Removes, SameJob, Pcs
  <2> QED
    BY <2>2 DEF Removes
<1>4. CASE SaveRow
  <2>1. row'[id].on = cmd'.on /\ SameJob
    BY <1>4, SavedRow
  <2> QED
    BY <2>1 DEF On, SameJob
<1>5. CASE DeleteRow
  <2>1. ~At("idle") /\ Removes /\ Go("load")
    BY <1>5 DEF DeleteRow, At, TypeInv, StepsOK, Fits
  <2>2. job' = job
    BY <2>1, Moves DEF SameJob, Pcs
  <2> QED
    BY <2>1, <2>2 DEF Removes
<1>6. CASE LoadRecords
  <2>1. ~At("idle") /\ At("load") /\ row' = row
    BY <1>6 DEF LoadRecords, At
  <2>2. ~Done
    BY <2>1, EndsOK
  <2>3. PICK r : cmd' = [cmd EXCEPT !.at = "save", !.copy = r]
    BY <1>6, <2>2 DEF LoadRecords
  <2>4. cmd'.on = cmd.on /\ job' = job /\ id' = id
    BY <1>0, <2>3 DEF CmdType, job, id
  <2> QED
    BY <2>1, <2>4 DEF OnOK, On, Removes, At
<1>7. CASE SaveRecords
  <2>1. ~At("idle") /\ At("save") /\ row' = row
    BY <1>7 DEF SaveRecords, At
  <2>2. ~Done
    BY <2>1, EndsOK
  <2>3. Go("clear")
    BY <1>7, <2>2 DEF SaveRecords
  <2>4. cmd'.on = cmd.on /\ job' = job /\ id' = id
    BY <2>3, Moves DEF Pcs, SameJob
  <2> QED
    BY <2>1, <2>4 DEF OnOK, On, Removes, At
<1>8. CASE ClearSkills
  <2>1. ~At("idle") /\ At("clear") /\ row' = row
        /\ (Done \/ cmd' = cmd \/ \E pc \in {"delete", "forget", "write"} : Go(pc))
    BY <1>8 DEF ClearSkills, At
  <2>2. cmd' = cmd
    BY <2>1, EndsOK, Moves DEF Pcs
  <2> QED
    BY <2>1, <2>2 DEF OnOK, On, Removes, At, id, job
<1> QED
  BY <1>1, <1>2, <1>3, <1>4, <1>5, <1>6, <1>7, <1>8, Leads DEF Leading

\* The list of the rows that a rebuild goes through.
LEMMA MadeList ==
  ASSUME TypeInv, MakeOverlay
  PROVE  /\ cmd'.at = "build" /\ row' = row /\ nested' = nested
         /\ \A i \in DOMAIN cmd'.todo : row[cmd'.todo[i]] # None
         /\ \A p \in Plugins : On(p) => \E i \in DOMAIN cmd'.todo : cmd'.todo[i] = p
<1> DEFINE S == {p \in Plugins : row[p] # None /\ row[p].on}
<1>1. PICK s \in SetToSeqs(S) : cmd' = [cmd EXCEPT !.at = "build", !.todo = s]
  BY DEF MakeOverlay
<1>2. cmd'.at = "build" /\ cmd'.todo = s
  BY <1>1 DEF TypeInv, CmdType
<1>3. S \in SUBSET Plugins /\ s \in SetToSeqs(S)
  BY <1>1
<1>5. \A p \in Plugins : On(p) <=> p \in S
  BY DEF On
<1> HIDE DEF S
<1>4. s \in Seq(S) /\ \A p \in S : \E i \in DOMAIN s : s[i] = p
  BY <1>3, AllListed
<1>7. \A i \in DOMAIN s : s[i] \in S
  BY <1>4
<1>6. row' = row /\ nested' = nested
  BY DEF MakeOverlay, Same
<1> QED
  BY <1>2, <1>3, <1>4, <1>5, <1>6, <1>7 DEF On

\* A step of the rebuild, without an error or with one.
LEMMA BuiltStep ==
  ASSUME TypeInv, BuildOverlay
  PROVE  /\ cmd.todo \in Seq(Plugins) /\ cmd.todo # <<>> /\ Head(cmd.todo) \in Plugins
         /\ At("build") /\ ~At("idle") /\ UNCHANGED <<root, row>>
         /\ \/ /\ cmd'.at = "build" /\ cmd'.todo = Tail(cmd.todo)
               /\ nested' = [nested EXCEPT ![Head(cmd.todo)] = root[Head(cmd.todo)]]
            \/ Noted /\ cmd'.at \in {"idle", "start"}
<1>1. At("build") /\ ~At("idle") /\ cmd.todo # <<>> /\ row' = row /\ root' = root
  BY DEF BuildOverlay, Same, At, tree
<1>2. cmd.todo \in Seq(Plugins) /\ cmd \in CmdType
  BY DEF TypeInv, CmdType
<1>3. Head(cmd.todo) \in Plugins
  BY <1>1, <1>2
<1>4. CASE Fail /\ Noted
  BY <1>1, <1>2, <1>3, <1>4, EndsOK
<1>5. CASE /\ nested' = [nested EXCEPT ![Head(cmd.todo)] = root[Head(cmd.todo)]]
           /\ cmd' = [cmd EXCEPT !.todo = Tail(@)]
  <2>1. cmd'.at = "build" /\ cmd'.todo = Tail(cmd.todo)
    BY <1>1, <1>2, <1>5 DEF CmdType, At
  <2> QED
    BY <1>1, <1>2, <1>3, <1>5, <2>1
<1> QED
  BY <1>4, <1>5 DEF BuildOverlay, Fault

\* What is left of the list, and what is taken from it.
LEMMA TailList ==
  ASSUME NEW s \in Seq(Plugins), s # <<>>
  PROVE  /\ \A i \in DOMAIN Tail(s) : i + 1 \in DOMAIN s /\ Tail(s)[i] = s[i + 1]
         /\ \A i \in DOMAIN s : s[i] = Head(s) \/ \E j \in DOMAIN Tail(s) : Tail(s)[j] = s[i]
<1>1. Len(s) \in Nat \ {0} /\ Tail(s) \in Seq(Plugins) /\ Len(Tail(s)) = Len(s) - 1
      /\ (\A i \in 1..Len(Tail(s)) : Tail(s)[i] = s[i + 1])
  OBVIOUS
<1>2. ASSUME NEW i \in DOMAIN s
      PROVE  s[i] = Head(s) \/ \E j \in DOMAIN Tail(s) : Tail(s)[j] = s[i]
  <2>1. CASE i = 1
    BY <1>1, <2>1
  <2>2. CASE i # 1
    <3>1. i \in 1..Len(s) /\ DOMAIN Tail(s) = 1..Len(Tail(s))
      BY <1>1
    <3>2. i - 1 \in 1..Len(Tail(s)) /\ (i - 1) + 1 = i
      BY <1>1, <2>2, <3>1
    <3>3. Tail(s)[i - 1] = s[i]
      BY <1>1, <3>2
    <3> QED
      BY <3>1, <3>2, <3>3
  <2> QED
    BY <2>1, <2>2
<1>3. \A i \in DOMAIN Tail(s) : i + 1 \in DOMAIN s /\ Tail(s)[i] = s[i + 1]
  BY <1>1
<1> QED
  BY <1>2, <1>3

LEMMA TodoStep ==
  ASSUME TypeInv, TodoOK, Next
  PROVE  TodoOK'
<1>1. CASE MakeOverlay
  BY <1>1, MadeList DEF TodoOK
<1>2. CASE BuildOverlay
  <2>1. /\ cmd.todo \in Seq(Plugins) /\ cmd.todo # <<>> /\ row' = row /\ At("build")
        /\ cmd'.todo = Tail(cmd.todo) \/ cmd'.at \in {"idle", "start"}
    BY <1>2, BuiltStep
  <2>2. CASE cmd'.todo = Tail(cmd.todo)
    <3>1. \A i \in DOMAIN cmd'.todo : i + 1 \in DOMAIN cmd.todo /\ cmd'.todo[i] = cmd.todo[i + 1]
      BY <2>1, <2>2, TailList
    <3> QED
      BY <2>1, <3>1 DEF TodoOK
  <2>3. CASE cmd'.at \in {"idle", "start"}
    BY <2>3 DEF TodoOK, At
  <2> QED
    BY <2>1, <2>2, <2>3
<1>3. CASE ~(MakeOverlay \/ BuildOverlay)
  <2>1. cmd'.at # "build"
    BY <1>3, Leads DEF Leading
  <2> QED
    BY <2>1 DEF TodoOK, At
<1> QED
  BY <1>1, <1>2, <1>3

LEMMA NestedStep ==
  ASSUME TypeInv, RowsInv, NestedOK, Next, ~Somewhere("overlay")'
  PROVE  NestedOK'
<1>0. nested \in [Plugins -> Files] /\ \A p \in Plugins : ~Excused(p)' => ~Excused(p)
  BY ExcusedStays DEF TypeInv
<1>1. CASE MakeOverlay
  <2>1. /\ cmd'.at = "build" /\ row' = row
        /\ \A p \in Plugins : On(p) => \E i \in DOMAIN cmd'.todo : cmd'.todo[i] = p
    BY <1>1, MadeList
  <2> QED
    BY <2>1 DEF NestedOK, At, On
<1>2. CASE BuildOverlay
  <2>1. /\ cmd.todo \in Seq(Plugins) /\ cmd.todo # <<>> /\ Head(cmd.todo) \in Plugins
        /\ cmd'.at = "build" /\ cmd'.todo = Tail(cmd.todo) /\ row' = row
        /\ nested' = [nested EXCEPT ![Head(cmd.todo)] = root[Head(cmd.todo)]]
        /\ At("build")
    BY <1>2, BuiltStep, OverlayError DEF Overlaying, At
  <2>2. \A i \in DOMAIN cmd.todo : \/ cmd.todo[i] = Head(cmd.todo)
                                   \/ \E j \in DOMAIN cmd'.todo : cmd'.todo[j] = cmd.todo[i]
    BY <2>1, TailList
  <2>3. ASSUME NEW p \in Plugins, On(p), ~Excused(p)'
        PROVE  nested'[p] = row[p].version \/ \E j \in DOMAIN cmd'.todo : cmd'.todo[j] = p
    <3>1. CASE p = Head(cmd.todo)
      <4>1. root[p] = row[p].version
        BY <1>0, <2>1, <2>3, ExcusedStays DEF RowsInv, On, At
      <4> QED
        BY <1>0, <2>1, <3>1, <4>1
    <3>2. CASE p # Head(cmd.todo)
      <4>1. nested'[p] = nested[p]
        BY <1>0, <2>1, <3>2
      <4>2. nested[p] = row[p].version \/ \E i \in DOMAIN cmd.todo : cmd.todo[i] = p
        BY <1>0, <2>1, <2>3 DEF NestedOK
      <4> QED
        BY <2>2, <3>2, <4>1, <4>2
    <3> QED
      BY <3>1, <3>2
  <2> QED
    BY <2>1, <2>3 DEF NestedOK, At, On
<1>3. CASE Unlink
  <2>1. At("build") /\ ~At("idle") /\ cmd.todo = <<>> /\ row' = row /\ nested' = nested
    BY <1>3 DEF Unlink, Same, At
  <2>4. Go("link")
    BY <1>3, <2>1, OverlayError DEF Unlink, Fault, At, Overlaying
  <2>2. cmd'.at = "link"
    BY <2>4, Moves DEF Pcs
  <2>3. \A p \in Plugins : On(p) /\ ~Excused(p) => nested[p] = row[p].version
    BY <2>1 DEF NestedOK
  <2> QED
    BY <1>0, <2>1, <2>2, <2>3 DEF NestedOK, At, On
<1>4. CASE ~(MakeOverlay \/ BuildOverlay \/ Unlink)
  <2>1. cmd'.at \notin {"build", "link"}
    BY <1>4, Leads DEF Leading
  <2> QED
    BY <2>1 DEF NestedOK, At
<1> QED
  BY <1>1, <1>2, <1>3, <1>4

LEMMA ShownStep ==
  ASSUME TypeInv, RowsInv, JobsInv, OnOK, LinkOK, NestedOK, ShownOK, Next, ~Kill,
         ~Somewhere("overlay")'
  PROVE  ShownOK'
<1> SUFFICES ASSUME cmd'.at \notin Overlaying, NEW p \in Plugins, On(p)', ~Excused(p)'
             PROVE  Shown(p)' \/ Written(p)'
  BY DEF ShownOK
<1>11. ~Excused(p) /\ Repaired(p)
  BY ExcusedStays
<1>0. /\ row \in [Plugins -> Rows \cup {None}] /\ flat \in [Plugins -> Files] /\ cmd \in CmdType
  BY DEF TypeInv
<1>10. CASE GiveUp
  <2>1. /\ ~At("idle") /\ Noted /\ cmd.at \in Breaks /\ UNCHANGED <<row, flat, nested, link>>
    BY <1>10, GivenUp
  <2>2. cmd.at \notin Overlaying
    BY <2>1, OverlayError
  <2>3. Shown(p) \/ Written(p)
    BY <1>11, <2>1, <2>2 DEF ShownOK, On
  <2>4. ~Written(p)
    BY <2>1, OwnError DEF Written, Breaks, Excusing, Unrepaired
  <2> QED
    BY <2>1, <2>3, <2>4 DEF Shown, Visible
<1>1. CASE ~(GiveUp \/ ClearSkills \/ WriteSkills \/ ExportMcp \/ EmptyOverlay \/ RemoveOverlay
               \/ MakeOverlay \/ BuildOverlay \/ Unlink \/ Link \/ StartSwitch \/ SaveRow \/ DeleteRow)
  <2>1. UNCHANGED <<flat, nested, link, overlay>> /\ row' = row
    BY <1>1, SkillsKept, RowsKept
  <2>2. cmd.at \notin Overlaying
    BY <1>1 DEF Overlaying, At, Next, Call, Kill, Step, Starts, StartInstall, StartUpdate,
       StartRemove, StartSync, StartResync, Start, Installs, Prepare, CopyFiles, Dependencies,
       Undo, Restore, DropBackup, LoadRecords, SaveRecords, Syncs, DeleteFiles
  <2>3. Shown(p) \/ Written(p)
    BY <1>11, <2>1, <2>2 DEF ShownOK, On
  <2>4. CASE Shown(p)
    BY <2>1, <2>4 DEF Shown, Visible
  <2>5. CASE Written(p)
    <3>1. cmd.at \in {"write", "export", "delete", "forget", "load", "save", "clear"} /\ p = id
          /\ (cmd.at \in {"load", "save"} => ~Removes)
      BY <2>5 DEF Written
    <3>2. LoadRecords \/ SaveRecords \/ DeleteFiles
      BY <1>1, <3>1 DEF At, Next, Call, Kill, Step, Starts, StartInstall, StartUpdate,
         StartRemove, StartSync, StartResync, Start, Installs, Prepare, CopyFiles, Dependencies,
         Undo, Restore, DropBackup, Syncs
    <3>3. CASE LoadRecords
      <4>1. At("load") /\ ~Removes
        BY <3>1, <3>3 DEF LoadRecords, At
      <4>2. PICK r : cmd' = [cmd EXCEPT !.at = "save", !.copy = r]
        BY <3>3, <4>1 DEF LoadRecords
      <4>3. cmd'.at = "save" /\ job' = job /\ id' = id
        BY <1>0, <4>2 DEF CmdType, job, id
      <4> QED
        BY <3>1, <4>1, <4>3 DEF Written, Removes
    <3>4. CASE SaveRecords
      <4>1. At("save") /\ ~Removes
        BY <3>1, <3>4 DEF SaveRecords, At
      <4>2. Go("clear")
        BY <3>4, <4>1 DEF SaveRecords
      <4>3. cmd'.at = "clear" /\ job' = job /\ id' = id
        BY <4>2, Moves DEF Pcs, SameJob
      <4> QED
        BY <3>1, <4>1, <4>3 DEF Written, Removes
    <3>5. CASE DeleteFiles
      <4>1. CASE Go("forget")
        <5>1. cmd'.at = "forget" /\ id' = id
          BY <4>1, Moves DEF Pcs, SameJob
        <5> QED
          BY <3>1, <5>1 DEF Written
      <4>2. CASE cmd' = cmd /\ At("delete")
        BY <3>1, <4>2 DEF Written, At, id, job
      <4> QED
        BY <3>5, <4>1, <4>2 DEF DeleteFiles
    <3> QED
      BY <3>2, <3>3, <3>4, <3>5
  <2> QED
    BY <2>3, <2>4, <2>5
<1>2. CASE StartSwitch
  <2>1. UNCHANGED <<flat, nested, link, overlay>> /\ At("start")
    BY <1>2 DEF StartSwitch, Quiet, skills, Start
  <2>2. \A q \in Plugins : On(q) /\ ~Excused(q) => Shown(q)
    BY <2>1 DEF ShownOK, Written, Overlaying, At
  <2>3. CASE row' = row
    BY <1>11, <2>1, <2>2, <2>3 DEF On, Shown, Visible
  <2>4. CASE row' # row
    <3>1. id \in Plugins /\ row' = [row EXCEPT ![id] = row'[id]] /\ cmd'.at = "clear" /\ SameJob
      BY <1>2, <2>4, SwitchRow
    <3>2. CASE p = id
      <4>1. ~Removes /\ job' = job /\ id' = id
        BY <1>2, <3>1 DEF StartSwitch, Start, Removes, SameJob
      <4> QED
        BY <3>1, <3>2, <4>1 DEF Written, Removes
    <3>3. CASE p # id
      <4>1. row'[p] = row[p]
        BY <1>0, <3>1, <3>3
      <4> QED
        BY <1>11, <2>1, <2>2, <4>1 DEF On, Shown, Visible
    <3> QED
      BY <3>2, <3>3
  <2> QED
    BY <2>3, <2>4
<1>3. CASE SaveRow
  <2>1. UNCHANGED <<flat, nested, link, overlay>> /\ At("row")
    BY <1>3 DEF SaveRow, Quiet, skills
  <2>2. /\ id \in Plugins /\ row' = [row EXCEPT ![id] = row'[id]] /\ cmd'.at = "load" /\ SameJob
    BY <1>3, SavedRow
  <2>3. ~Removes
    BY <2>1 DEF At, TypeInv, StepsOK, Fits, Removes, Installs3
  <2>4. CASE p = id
    BY <2>2, <2>3, <2>4 DEF Written, Removes, SameJob
  <2>5. CASE p # id
    <3>1. row'[p] = row[p]
      BY <1>0, <2>2, <2>5
    <3>2. Shown(p)
      BY <1>11, <2>1, <2>5, <3>1 DEF ShownOK, Written, Overlaying, At, On
    <3> QED
      BY <2>1, <3>1, <3>2 DEF Shown, Visible
  <2> QED
    BY <2>4, <2>5
<1>4. CASE DeleteRow
  <2>1. UNCHANGED <<flat, nested, link, overlay>> /\ At("forget") /\ row' = [row EXCEPT ![id] = None]
    BY <1>4 DEF DeleteRow, Quiet, skills
  <2>2. p # id /\ row'[p] = row[p]
    BY <1>0, <2>1 DEF On
  <2>3. Shown(p)
    BY <1>11, <2>1, <2>2 DEF ShownOK, Written, Overlaying, At, On
  <2> QED
    BY <2>1, <2>2, <2>3 DEF Shown, Visible
<1>5. CASE ClearSkills
  <2>1. /\ nested' = nested /\ link' = link /\ row' = row /\ At("clear") /\ ~At("idle")
        /\ \A q \in Plugins \ {id} : flat'[q] = flat[q]
    BY <1>0, <1>5 DEF ClearSkills, At
  <2>2. CASE p # id
    <3>1. Shown(p)
      BY <1>11, <2>1, <2>2 DEF ShownOK, Written, Overlaying, At, On
    <3> QED
      BY <2>1, <2>2, <3>1 DEF Shown, Visible
  <2>3. CASE p = id
    <3>1. cmd' = cmd \/ Go("delete") \/ Go("forget") \/ Go("write") \/ (~Removes /\ ~cmd.on)
      BY <1>5 DEF ClearSkills, Removes
    <3>2. ~(~Removes /\ ~cmd.on)
      BY <2>1, <2>3 DEF OnOK, At, On
    <3>3. CASE cmd' = cmd
      BY <2>1, <2>3, <3>3 DEF Written, At, id, job
    <3>4. CASE cmd' # cmd
      <4>1. PICK pc \in {"delete", "forget", "write"} : Go(pc)
        BY <3>1, <3>2, <3>4
      <4>2. cmd'.at = pc /\ id' = id
        BY <4>1, Moves DEF Pcs, SameJob
      <4> QED
        BY <2>3, <4>2 DEF Written
    <3> QED
      BY <3>3, <3>4
  <2> QED
    BY <2>2, <2>3
<1>6. CASE WriteSkills
  <2>1. At("write") /\ ~At("idle") /\ nested' = nested /\ row' = row /\ ~Dangling
    BY <1>6 DEF WriteSkills, Dangling, LinkOK, At
  <2>2. /\ link' = IF link = "none" THEN "dir" ELSE link
        /\ \A q \in Plugins \ {id} : flat'[q] = flat[q]
        /\ Go("export") \/ Noted
    BY <1>0, <1>6, <2>1 DEF WriteSkills, Fault
  <2>3. CASE p # id
    <3>1. Shown(p)
      BY <1>11, <2>1, <2>3 DEF ShownOK, Written, Overlaying, At, On
    <3> QED
      BY <2>1, <2>2, <2>3, <3>1 DEF Shown, Visible
  <2>4. CASE p = id
    <3>1. Go("export")
      BY <2>1, <2>2, <2>4, OwnError DEF At, Excusing
    <3>2. cmd'.at = "export" /\ id' = id
      BY <3>1, Moves DEF Pcs, SameJob
    <3> QED
      BY <2>4, <3>2 DEF Written
  <2> QED
    BY <2>3, <2>4
<1>7. CASE ExportMcp
  <2>1. /\ At("export") /\ nested' = nested /\ link' = link /\ row' = row
        /\ flat' = [flat EXCEPT ![id] = root[id]]
    BY <1>7 DEF ExportMcp
  <2>2. CASE p # id
    <3>1. Shown(p)
      BY <1>11, <2>1, <2>2 DEF ShownOK, Written, Overlaying, At, On
    <3>2. flat'[p] = flat[p]
      BY <1>0, <2>1, <2>2
    <3> QED
      BY <2>1, <3>1, <3>2 DEF Shown, Visible
  <2>3. CASE p = id
    <3>1. root[p] = row[p].version
      BY <1>11, <2>1, <2>3 DEF RowsInv, At, On
    <3>2. flat'[p] = row'[p].version
      BY <1>0, <2>1, <2>3, <3>1
    <3> QED
      BY <3>2 DEF Shown, Visible
  <2> QED
    BY <2>2, <2>3
<1>8. CASE EmptyOverlay \/ RemoveOverlay \/ MakeOverlay \/ BuildOverlay \/ Unlink
  <2>1. CASE EmptyOverlay
    <3>1. Go("rmdir") \/ (Noted /\ job.op = "overlay" /\ ~At("idle"))
      BY <2>1 DEF EmptyOverlay, Start, Fault, At
    <3> QED
      BY <3>1, OverlayError, Moves DEF Pcs, Overlaying
  <2>2. CASE RemoveOverlay
    BY <2>2, Moves DEF RemoveOverlay, Pcs, Overlaying
  <2>3. CASE MakeOverlay
    BY <2>3, MadeList DEF Overlaying
  <2>4. CASE BuildOverlay
    BY <2>4, BuiltStep, OverlayError DEF Overlaying, At
  <2>5. CASE Unlink
    <3>1. Go("link") \/ (Noted /\ At("build") /\ ~At("idle"))
      BY <2>5 DEF Unlink, Fault, At
    <3> QED
      BY <3>1, OverlayError, Moves DEF Pcs, Overlaying, At
  <2> QED
    BY <1>8, <2>1, <2>2, <2>3, <2>4, <2>5
<1>9. CASE Link
  <2>1. At("link") /\ link' = "link" /\ nested' = nested /\ row' = row
    BY <1>9 DEF Link, Same
  <2>2. nested[p] = row[p].version
    BY <1>11, <2>1 DEF NestedOK, On
  <2> QED
    BY <2>1, <2>2 DEF Shown, Visible
<1> QED
  BY <1>1, <1>2, <1>3, <1>4, <1>5, <1>6, <1>7, <1>8, <1>9, <1>10

-----------------------------------------------------------------------------
(* Together.                                                                *)

PartsInv == FilesInv /\ JobsInv /\ (crashes = 0 => RowsInv /\ RecordsInv /\ SkillsInv)

LEMMA PartsStep ==
  ASSUME TypeInv, PartsInv, [Next]_vars
  PROVE  PartsInv'
<1>1. FilesInv' /\ JobsInv'
  BY FilesStep, JobsStep DEF PartsInv
<1>2. CASE UNCHANGED vars
  <2>1. UNCHANGED <<root, row, records, flat, nested, link, overlay, cmd, errors, crashes>>
    BY <1>2 DEF vars, tree, skills, counts
  <2>2. (RowsInv => RowsInv') /\ (RecordsInv => RecordsInv')
    BY <2>1 DEF RowsInv, RecordsInv, Repaired, Sure, Somewhere, Met, At, id, job, Removes
  <2>3. SkillsInv => SkillsInv'
    BY <2>1 DEF SkillsInv, LinkOK, OnOK, TodoOK, NestedOK, ShownOK, Shown, Visible, Written, On,
                Excused, Somewhere, Met, At, id, job, Removes
  <2> QED
    BY <1>1, <2>1, <2>2, <2>3 DEF PartsInv
<1>3. CASE Next
  <2>1. crashes \in Nat
    BY DEF TypeInv
  <2>2. crashes' = 0 => crashes = 0 /\ ~Kill
    <3>1. CASE Kill
      BY <2>1, <3>1 DEF Kill
    <3>2. CASE ~Kill
      <4>1. crashes' = crashes
        BY <1>3, <3>2 DEF Next, Call, Step, Starts, StartInstall, StartUpdate, StartSwitch,
           StartRemove, StartSync, StartResync, Quiet, Installs, Prepare, CopyFiles,
           Dependencies, Undo, Restore, DropBackup, Keeps, SaveRow, LoadRecords, SaveRecords,
           Syncs, ClearSkills, WriteSkills, ExportMcp, EmptyOverlay, RemoveOverlay, MakeOverlay,
           BuildOverlay, Unlink, Link, Same, DeleteFiles, DeleteRow, GiveUp, counts
      <4> QED
        BY <3>2, <4>1
    <3> QED
      BY <3>1, <3>2
  <2>3. ASSUME crashes' = 0
        PROVE  RowsInv' /\ RecordsInv' /\ SkillsInv'
    <3>1. RowsInv /\ RecordsInv /\ JobsInv /\ SkillsInv /\ FilesInv /\ ~Kill
      BY <2>2, <2>3 DEF PartsInv
    <3>2. RowsInv' /\ RecordsInv'
      BY <1>3, <3>1, RowsStep, RecordsStep
    <3>3. OnOK' /\ TodoOK'
      BY <1>3, <3>1, OnStep, TodoStep DEF SkillsInv
    <3>4. ASSUME ~Somewhere("overlay")'
          PROVE  LinkOK' /\ NestedOK' /\ ShownOK'
      <4>1. OnOK /\ LinkOK /\ NestedOK /\ ShownOK
        BY <3>1, <3>4, SomewhereStays DEF SkillsInv
      <4> QED
        BY <1>3, <3>1, <3>4, <4>1, LinkStep, NestedStep, ShownStep
    <3> QED
      BY <3>2, <3>3, <3>4 DEF SkillsInv
  <2> QED
    BY <1>1, <2>3 DEF PartsInv
<1> QED
  BY <1>2, <1>3

LEMMA PartsInit == Init => PartsInv
<1> SUFFICES ASSUME Init PROVE PartsInv
  OBVIOUS
<1>1. cmd.at = "idle" /\ cmd.jobs = <<>>
  BY DEF Init, Idle
<1>2. FilesInv /\ JobsInv
  BY <1>1 DEF FilesInv, JobsInv, InFront, OffStill
<1>3. row = NoRecords /\ records = NoRecords /\ link = "none" /\ \A p \in Plugins : row[p] = None
  BY DEF Init, NoRecords
<1>4. records # Half
  BY <1>3, HalfAssumption DEF NoRecords
<1>5. RowsInv /\ RecordsInv
  BY <1>1, <1>3, <1>4 DEF RowsInv, RecordsInv, At
<1>6. SkillsInv
  BY <1>1, <1>3 DEF SkillsInv, LinkOK, OnOK, TodoOK, NestedOK, ShownOK, On, At
<1> QED
  BY <1>2, <1>5, <1>6 DEF PartsInv

(* Between commands, as long as none was killed, the parts of a plugin       *)
(* agree, whatever errors its commands have met, but for those that leave    *)
(* one part without the other and that PartsAgree names: its row is of the   *)
(* very files on the disk, it has a row exactly when installs.json has a     *)
(* record of it, and Codex sees the present skills of every plugin that is   *)
(* on; for any plugins, versions, commands and errors.                       *)
THEOREM PartsCorrect == Spec => []PartsAgree
<1>1. Init => TypeInv /\ PartsInv
  BY TypeInit, PartsInit
<1>2. TypeInv /\ PartsInv /\ [Next]_vars => (TypeInv /\ PartsInv)'
  BY TypeStep, PartsStep
<1>3. TypeInv /\ PartsInv => PartsAgree
  <2> SUFFICES ASSUME TypeInv, PartsInv, Undisturbed, NEW p \in Plugins
               PROVE  /\ (row[p] # None /\ Repaired(p)) => root[p] = row[p].version
                      /\ Sure(p) => (row[p] = None) = (records[p] = None)
                      /\ (row[p] # None /\ row[p].on /\ ~Somewhere("overlay") /\ ~Excused(p))
                         => row[p].version \in Visible(p)
    BY DEF PartsAgree, Repaired, Sure, Excused, Excusing
  <2>1. At("idle") /\ RowsInv /\ RecordsInv /\ SkillsInv
    BY DEF Undisturbed, PartsInv
  <2>2. (row[p] # None /\ Repaired(p)) => root[p] = row[p].version
    BY <2>1 DEF RowsInv, At
  <2>3. Sure(p) => (row[p] = None) = (records[p] = None)
    BY <2>1 DEF RecordsInv, At
  <2>4. (row[p] # None /\ row[p].on /\ ~Somewhere("overlay") /\ ~Excused(p))
        => row[p].version \in Visible(p)
    BY <2>1 DEF SkillsInv, ShownOK, Overlaying, Shown, Written, On, At
  <2> QED
    BY <2>2, <2>3, <2>4
<1> QED
  BY <1>1, <1>2, <1>3, PTL DEF Spec

=============================================================================
