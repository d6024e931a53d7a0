------------------------------- MODULE Plugins -------------------------------
(***************************************************************************)
(* Installed plugins (clawdex/src/plugins.rs): the copy of each plugin      *)
(* under plugins/<id>, its row in the task database, its record in          *)
(* installs.json, and the skills and MCP servers it gives Codex.            *)
(*                                                                         *)
(*   every command    first installs the bundled plugins that have no row   *)
(*                    (load_config), then does its own work                 *)
(*   add, update      copy a source over plugins/<id>, install its          *)
(*                    dependencies, write the row and the record            *)
(*   enable, disable  set the row, write or delete the skills               *)
(*   remove           deletes skills, files, row and record                 *)
(*   sync             rewrites the skills of every row, then rebuilds the   *)
(*                    overlay and links _clawdex_plugins to it              *)
(*                                                                         *)
(* One command runs at a time; any step of it may meet an error, which      *)
(* ends the command, is undone or is ignored as the code has it, and it may *)
(* be killed between any two steps.  A write of many files is two steps,    *)
(* the first leaves them Half.  Where a source comes from (npm, git,        *)
(* archive, directory), the text of skills, names that two plugins share,   *)
(* ids of which one begins with another and plugins added with --link are   *)
(* left out; backups of equal content count as one.                         *)
(***************************************************************************)
EXTENDS Naturals, Sequences, SequencesExt

CONSTANTS
  Plugins,              \* ids, as normalize_plugin_id leaves them
  Versions,             \* complete contents a source may have
  Bundled,              \* sequence of ids: the plugins shipped with clawdex
  Exports,              \* plugins with a server the MCP policy lets through
  Half,                 \* files of which some are missing or old
  None,                 \* no file, no row, no record
  MaxCommands,          \* bound: commands
  MaxMishaps            \* bound: places where errors are met, and kills

ASSUME IdsAssumption   ==
  IsFiniteSet(Plugins) /\ Exports \subseteq Plugins /\ Bundled \in Seq(Plugins)
ASSUME ValuesAssumption == Half # None /\ {Half, None} \cap Versions = {}
ASSUME BoundAssumption == {MaxCommands, MaxMishaps} \subseteq Nat

VARIABLES
  root,                 \* [Plugins -> files]: plugins/<id>
  backups,              \* [Plugins -> sets of files]: plugins/<id>.backup-*
  row,                  \* [Plugins -> None or a row]: table plugins
  records,              \* [Plugins -> None or kind], or Half: installs.json
  flat,                 \* [Plugins -> files]: _clawdex_plugins/<id>:<skill>
  nested,               \* [Plugins -> files]: plugin_overlay/skills/<id>
  link,                 \* what _clawdex_plugins is: "none", "dir" or "link"
  overlay,              \* plugin_overlay: "none", with "skills", or "whole", with mcp too
  mcp,                  \* [Plugins -> files]: mcp/<id>.json
  cmd,                  \* the command that runs: where it is, jobs left
  errors,               \* where errors were met: {<<plugin, step>>}
  commands, crashes

vars == <<root, backups, row, records, flat, nested, link, overlay, mcp, cmd,
          errors, commands, crashes>>
tree  == <<root, backups>>
skills == <<flat, nested, link, overlay, mcp>>
counts == <<errors, commands, crashes>>

-----------------------------------------------------------------------------
Files == Versions \cup {Half, None}
Kinds == {"npm", "other"}
Rows  == [on : BOOLEAN, version : Versions]
NoRecords == [p \in Plugins |-> None]
ASSUME NoneAssumption == None \notin Rows \cup Kinds
ASSUME HalfAssumption == Half \notin [Plugins -> Kinds \cup {None}]

Ops  == {"bundled", "add", "update", "reinstall", "enable", "disable", "remove",
         "unregister", "sync", "resync", "unsync", "overlay"}
Jobs == [op : Ops, id : Plugins, version : Versions, kind : Kinds]
Idle == [at |-> "idle", jobs |-> <<>>, had |-> None, on |-> FALSE,
         copy |-> NoRecords, todo |-> <<>>]

Job(op, p, v, k) == [op |-> op, id |-> p, version |-> v, kind |-> k]
AnyVersion == CHOOSE v \in Versions : TRUE
AnyPlugin  == CHOOSE p \in Plugins : TRUE
Do(op, p)  == Job(op, p, AnyVersion, "other")

Init ==
  /\ root = [p \in Plugins |-> None] /\ backups = [p \in Plugins |-> {}]
  /\ row = NoRecords /\ records = NoRecords
  /\ flat = root /\ nested = root /\ mcp = root
  /\ link = "none" /\ overlay = "none"
  /\ cmd = Idle
  /\ errors = {} /\ commands = 0 /\ crashes = 0

job == Head(cmd.jobs)
id  == job.id
At(pc)  == cmd.at = pc
Go(pc)  == cmd' = [cmd EXCEPT !.at = pc]
Turn(jobs) ==
  cmd' = IF jobs = <<>> THEN Idle ELSE [Idle EXCEPT !.at = "start", !.jobs = jobs]
Done    == Turn(Tail(cmd.jobs))
(* ensure_default_claude_plugins_installed and update_plugin_command go on  *)
(* after an error of one plugin; every other command ends with it.          *)
Fail    == Turn(IF job.op \in {"bundled", "reinstall"} THEN Tail(cmd.jobs) ELSE <<>>)

(* An error of the step a command is at; those of the overlay concern all   *)
(* plugins.                                                                 *)
Place   == IF job.op = "overlay" THEN "overlay" ELSE cmd.at
Noted   == errors' = errors \cup {<<id, Place>>}
Mishaps == Cardinality(errors) + crashes < MaxMishaps
Fault   == Mishaps /\ Noted
NoFault == UNCHANGED errors

(* load_install_records: a file it cannot parse is an empty map.            *)
Loaded == IF records = Half THEN NoRecords ELSE records

-----------------------------------------------------------------------------
(* Commands.                                                                *)

Commands ==
  [op : {"add"}, id : Plugins, version : Versions, kind : Kinds]
    \cup [op : {"update"}, id : Plugins, version : Versions, kind : {"other"}]
    \cup [op : {"enable", "disable", "remove", "unregister"},
          id : Plugins, version : Versions \cap {AnyVersion}, kind : {"other"}]
    \cup [op : {"sync"}, id : Plugins \cap {AnyPlugin}, version : Versions \cap {AnyVersion},
          kind : {"other"}]

Call ==
  /\ At("idle") /\ commands < MaxCommands
  /\ \E c \in Commands :
       Turn([i \in DOMAIN Bundled |-> Do("bundled", Bundled[i])] \o <<c>>)
  /\ commands' = commands + 1
  /\ UNCHANGED <<tree, row, records, skills, errors, crashes>>

Start(ops) == At("start") /\ job.op \in ops
Quiet      == UNCHANGED <<tree, records, skills, counts>>

StartInstall ==
  /\ Start({"bundled", "add", "reinstall"})
  /\ IF job.op = "bundled" /\ row[id] # None THEN Done ELSE Go("prepare")
  /\ Quiet /\ UNCHANGED row

(* update: a plugin with an npm record is installed again, others skipped.  *)
StartUpdate ==
  /\ Start({"update"})
  /\ Turn((IF Loaded[id] = "npm" THEN <<[job EXCEPT !.op = "reinstall", !.kind = "npm"]>>
                                  ELSE <<>>) \o Tail(cmd.jobs))
  /\ Quiet /\ UNCHANGED row

StartSwitch ==
  /\ Start({"enable", "disable"})
  /\ IF row[id] = None
       THEN Fail /\ UNCHANGED row
       ELSE /\ row' = [row EXCEPT ![id].on = job.op = "enable"]
            /\ cmd' = [cmd EXCEPT !.at = "clear", !.on = job.op = "enable"]
  /\ Quiet

StartRemove ==
  /\ Start({"remove", "unregister"})
  /\ Go(IF row[id] = None THEN "load" ELSE "clear")
  /\ Quiet /\ UNCHANGED row

(* sync works on the rows as they are now, whatever order they come in.     *)
StartSync ==
  /\ Start({"sync"})
  /\ \E s \in SetToSeqs({p \in Plugins : row[p] # None}) :
       Turn([i \in DOMAIN s |-> Do(IF row[s[i]].on THEN "resync" ELSE "unsync", s[i])]
              \o <<[job EXCEPT !.op = "overlay"]>> \o Tail(cmd.jobs))
  /\ Quiet /\ UNCHANGED row

StartResync ==
  /\ Start({"resync", "unsync"})
  /\ cmd' = [cmd EXCEPT !.at = "clear", !.on = job.op = "resync"]
  /\ Quiet /\ UNCHANGED row

(* A step that is given up with the command before it has changed anything: *)
(* the database, a manifest, a source or a record cannot be read, or a file *)
(* not be opened, renamed or removed.                                       *)
Breaks ==
  {"start", "prepare", "row", "load", "save", "clear", "write", "delete", "forget",
   "rmdir", "mkdir", "build", "link"}
GiveUp ==
  /\ cmd.at \in Breaks
  /\ Fault /\ Fail
  /\ UNCHANGED <<tree, row, records, skills, commands, crashes>>

-----------------------------------------------------------------------------
(* install_plugin.                                                          *)

Update  == job.op = "reinstall"
Removes == job.op \in {"remove", "unregister"}
Keeps  == UNCHANGED <<row, records, skills>> /\ UNCHANGED <<commands, crashes>>

\* Faulty: an update removes the old files first.
PrepareInPlace ==
  /\ At("prepare") /\ NoFault
  /\ IF ~Update /\ root[id] # None
       THEN Fail /\ UNCHANGED tree
       ELSE /\ root' = [root EXCEPT ![id] = None] /\ UNCHANGED backups
            /\ cmd' = [cmd EXCEPT !.at = "copy", !.had = root[id]]
  /\ Keeps

(* An installation over files is refused, an update moves them aside.       *)
Prepare ==
  /\ At("prepare") /\ NoFault
  /\ \/ /\ ~Update /\ root[id] # None
        /\ Fail /\ UNCHANGED tree
     \/ /\ Update \/ root[id] = None
        /\ root' = [root EXCEPT ![id] = None]
        /\ backups' = [backups EXCEPT ![id] = @ \cup ({root[id]} \ {None})]
        /\ cmd' = [cmd EXCEPT !.at = "copy", !.had = root[id]]
  /\ Keeps

(* An error while the new files are made is undone if there was an old one. *)
Undone == IF cmd.had = None THEN Fail ELSE Go("undo")

CopyFiles ==
  /\ At("copy") /\ UNCHANGED backups
  /\ \/ NoFault /\ Go("dependencies") /\ root' = [root EXCEPT ![id] = Half]
     \/ Fault /\ UNCHANGED root /\ Undone
  /\ Keeps

\* Faulty: an error leaves the backup aside.
DependenciesNoUndo ==
  /\ At("dependencies") /\ UNCHANGED backups
  /\ \/ NoFault /\ Go("drop") /\ root' = [root EXCEPT ![id] = job.version]
     \/ Fault /\ UNCHANGED root /\ Fail
  /\ Keeps

(* The end of copy_dir, install_dependencies_if_needed and                  *)
(* maybe_rewrite_claude_code_install_paths.                                 *)
Dependencies ==
  /\ At("dependencies") /\ UNCHANGED backups
  /\ \/ NoFault /\ Go("drop") /\ root' = [root EXCEPT ![id] = job.version]
     \/ Fault /\ UNCHANGED root /\ Undone
  /\ Keeps

(* What goes wrong while an update is undone is ignored; nothing is renamed *)
(* over files that are left.                                                *)
Undo ==
  /\ At("undo") /\ UNCHANGED backups
  /\ \/ NoFault /\ root' = [root EXCEPT ![id] = None]
     \/ Fault /\ UNCHANGED root
  /\ Go("restore") /\ Keeps

Restore ==
  /\ At("restore")
  /\ \/ /\ NoFault /\ root[id] = None
        /\ root' = [root EXCEPT ![id] = cmd.had]
        /\ backups' = [backups EXCEPT ![id] = @ \ {cmd.had}]
     \/ NoFault /\ root[id] # None /\ UNCHANGED tree
     \/ Fault /\ UNCHANGED tree
  /\ Fail /\ Keeps

(* A backup that cannot be removed stays, or a part of it.                  *)
DropBackup ==
  /\ At("drop") /\ UNCHANGED root
  /\ \/ NoFault /\ backups' = [backups EXCEPT ![id] = @ \ {cmd.had}]
     \/ /\ Fault /\ cmd.had # None
        /\ \E files \in {cmd.had, Half} :
             backups' = [backups EXCEPT ![id] = (@ \ {cmd.had}) \cup {files}]
  /\ Go("row") /\ Keeps

SaveRow ==
  /\ At("row")
  /\ LET on == IF Update /\ row[id] # None THEN row[id].on ELSE TRUE IN
     /\ row' = [row EXCEPT ![id] = [on |-> on, version |-> job.version]]
     /\ cmd' = [cmd EXCEPT !.at = "load", !.on = on]
  /\ Quiet

(* save_install_records truncates the file before it writes the map.        *)
LoadRecords ==
  /\ At("load")
  /\ LET next == [Loaded EXCEPT ![id] = IF Removes THEN None ELSE job.kind] IN
     IF Removes /\ Loaded[id] = None
       THEN Done /\ UNCHANGED records
       ELSE records' = Half /\ cmd' = [cmd EXCEPT !.at = "save", !.copy = next]
  /\ UNCHANGED <<tree, row, skills, counts>>

SaveRecords ==
  /\ At("save")
  /\ records' = cmd.copy
  /\ IF Removes THEN Done ELSE Go("clear")
  /\ UNCHANGED <<tree, row, skills, counts>>

-----------------------------------------------------------------------------
(* Skills: remove_plugin_skills, sync_plugin_skills, remove_plugin_command. *)

(* The skills one after the other, then the servers.  The nested copies and *)
(* the merged servers of a sync are not touched.                            *)
ClearSkills ==
  /\ At("clear")
  /\ IF flat[id] # None
       THEN /\ flat' = [flat EXCEPT ![id] = IF @ = Half THEN None ELSE Half]
            /\ UNCHANGED <<mcp, cmd>>
       ELSE /\ UNCHANGED flat /\ mcp' = [mcp EXCEPT ![id] = None]
            /\ CASE job.op = "remove"     -> Go("delete")
                 [] job.op = "unregister" -> Go("forget")
                 [] ~Removes /\ cmd.on    -> Go("write")
                 [] OTHER                 -> Done
  /\ UNCHANGED <<tree, row, records, nested, link, overlay, counts>>

(* create_dir_all fails on a link that leads nowhere; a skill or a command  *)
(* that does not parse is an error after others were written.               *)
Dangling == link = "link" /\ overlay = "none"
WriteSkills ==
  /\ At("write")
  /\ \/ Dangling /\ Noted /\ Fail /\ UNCHANGED <<flat, link>>
     \/ /\ ~Dangling
        /\ link' = IF link = "none" THEN "dir" ELSE link
        /\ flat' = [flat EXCEPT ![id] = IF root[id] = None THEN None ELSE Half]
        /\ (NoFault /\ Go("export")) \/ (Fault /\ Fail)
  /\ UNCHANGED <<tree, row, records, nested, overlay, mcp, commands, crashes>>

(* The last skill, then export_plugin_mcp, whose error is ignored.          *)
ExportMcp ==
  /\ At("export")
  /\ flat' = [flat EXCEPT ![id] = root[id]]
  /\ \/ NoFault /\ mcp' = [mcp EXCEPT ![id] = IF id \in Exports THEN root[id] ELSE None]
     \/ Fault /\ UNCHANGED mcp
  /\ Done
  /\ UNCHANGED <<tree, row, records, nested, link, overlay, commands, crashes>>

(* remove_dir_all in two steps; a second removal finds no files.            *)
DeleteFiles ==
  /\ At("delete")
  /\ IF root[id] \in {None, Half}
       THEN root' = [root EXCEPT ![id] = None] /\ Go("forget")
       ELSE root' = [root EXCEPT ![id] = Half] /\ UNCHANGED cmd
  /\ UNCHANGED <<backups, row, records, skills, counts>>

DeleteRow ==
  /\ At("forget")
  /\ row' = [row EXCEPT ![id] = None]
  /\ Go("load") /\ Quiet

-----------------------------------------------------------------------------
(* sync_enabled_plugins_overlay.                                            *)

Same == UNCHANGED <<tree, row, records, mcp, commands, crashes>>
NoFiles == [p \in Plugins |-> None]

Without(files, gone) == [p \in Plugins |-> IF p \in gone THEN None ELSE files[p]]

(* remove_dir_all of plugin_overlay, where a linked _clawdex_plugins is; an *)
(* error may leave any of it.                                               *)
EmptyOverlay ==
  /\ Start({"overlay"})
  /\ \E gone \in SUBSET Plugins :
       /\ (gone = Plugins /\ NoFault /\ Go("rmdir")) \/ (Fault /\ Fail)
       /\ nested' = Without(nested, gone)
       /\ flat' = IF link = "link" THEN Without(flat, gone) ELSE flat
  /\ UNCHANGED <<link, overlay>> /\ Same

RemoveOverlay ==
  /\ At("rmdir") /\ overlay' = "none"
  /\ NoFault /\ Go("mkdir") /\ UNCHANGED <<flat, nested, link>> /\ Same

MakeOverlay ==
  /\ At("mkdir") /\ overlay' = "skills"
  /\ \E s \in SetToSeqs({p \in Plugins : row[p] # None /\ row[p].on}) :
       cmd' = [cmd EXCEPT !.at = "build", !.todo = s]
  /\ NoFault /\ UNCHANGED <<flat, nested, link>> /\ Same

(* build_plugin_skills_overlay: no manifest, no overlay; half of the files  *)
(* may be without one.                                                      *)
BuildOverlay ==
  /\ At("build") /\ cmd.todo # <<>>
  /\ LET p == Head(cmd.todo) IN
     \/ /\ root[p] # None /\ NoFault
        /\ nested' = [nested EXCEPT ![p] = root[p]]
        /\ cmd' = [cmd EXCEPT !.todo = Tail(@)]
     \/ root[p] \in {None, Half} /\ Noted /\ Fail /\ UNCHANGED nested
     \/ Fault /\ Fail /\ nested' = [nested EXCEPT ![p] = Half]
  /\ UNCHANGED <<flat, link, overlay>> /\ Same

(* ensure_overlay_link removes what is there, with the skills in it.        *)
Unlink ==
  /\ At("build") /\ cmd.todo = <<>>
  /\ \/ NoFault /\ Go("link") /\ link' = "none" /\ flat' = NoFiles
     \/ /\ Fault /\ Fail /\ UNCHANGED link
        /\ \E gone \in SUBSET Plugins : flat' = Without(flat, gone)
  /\ UNCHANGED <<nested, overlay>> /\ Same

(* Then generate_merged_mcp_config writes the servers of all plugins.       *)
Link ==
  /\ At("link") /\ link' = "link"
  /\ \/ NoFault /\ Done /\ overlay' = "whole"
     \/ Fault /\ Fail /\ UNCHANGED overlay
  /\ UNCHANGED <<flat, nested>> /\ Same

-----------------------------------------------------------------------------
(* The process is killed between two steps.                                 *)
Kill ==
  /\ ~At("idle") /\ Mishaps
  /\ cmd' = Idle /\ crashes' = crashes + 1
  /\ UNCHANGED <<tree, row, records, skills, errors, commands>>

Starts   == StartInstall \/ StartUpdate \/ StartSwitch \/ StartRemove \/ StartSync
              \/ StartResync
Installs == Prepare \/ CopyFiles \/ Dependencies \/ Undo \/ Restore \/ DropBackup
              \/ SaveRow \/ LoadRecords \/ SaveRecords
Syncs    == ClearSkills \/ WriteSkills \/ ExportMcp \/ EmptyOverlay \/ RemoveOverlay
              \/ MakeOverlay \/ BuildOverlay \/ Unlink \/ Link
Step == GiveUp \/ Starts \/ Installs \/ Syncs \/ DeleteFiles \/ DeleteRow

Next == Call \/ Step \/ Kill
Spec == Init /\ [][Next]_vars

-----------------------------------------------------------------------------
(* Properties.                                                              *)

(* Between commands, as long as none was killed.                            *)
Undisturbed == At("idle") /\ crashes = 0

(* The skills that Codex sees of a plugin.                                  *)
Visible(p) == {flat[p]} \cup (IF link = "link" THEN {nested[p]} ELSE {})

Met(p, places) == \E x \in places : <<p, x>> \in errors
Somewhere(place) == \E p \in Plugins : Met(p, {place})

(* The parts of a plugin agree between commands, whatever errors its        *)
(* commands have met, but for those named here.  Its row is of the very     *)
(* files under plugins/<id>: an update that could not copy or complete the  *)
(* new files has put the old ones back, unless that failed too, or the row  *)
(* could not be written or deleted after the files.  It has a row exactly   *)
(* when installs.json has a record of it, unless that file could not be     *)
(* read or written.  And the skills of an enabled plugin are there in the   *)
(* version of its row, flat or in the overlay, unless they, or what comes   *)
(* before them, could not be written, or the overlay not be rebuilt: an     *)
(* error of another plugin's own, before or during a sync, hides none.      *)
Unrepaired == {"undo", "restore", "row", "delete", "forget"}
PartsAgree ==
  Undisturbed => \A p \in Plugins :
    /\ (row[p] # None /\ ~Met(p, Unrepaired)) => root[p] = row[p].version
    /\ ~(Met(p, {"load"}) \/ Somewhere("save")) => (row[p] = None) = (records[p] = None)
    /\ (/\ row[p] # None /\ row[p].on /\ ~Somewhere("overlay")
        /\ ~Met(p, Unrepaired \cup {"load", "save", "clear", "write"}))
       => row[p].version \in Visible(p)

(* Only a removal takes the last complete copy of a plugin from the disk:   *)
(* an update, failed or killed at any step, leaves the old files or the new *)
(* ones, in place or in a backup.                                           *)
Complete(p) == (backups[p] \cup {root[p]}) \cap Versions # {}
LastCopyIsKept ==
  [][\A p \in Plugins :
       Complete(p) /\ ~Complete(p)' => At("delete") /\ id = p]_vars

=============================================================================
