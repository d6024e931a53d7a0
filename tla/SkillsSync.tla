------------------------------ MODULE SkillsSync ------------------------------
(***************************************************************************)
(* clawdex skills sync: the skills of OpenClaw are copied, or linked, into  *)
(* the directories Codex reads (clawdex/src/skills_sync.rs).                *)
(*                                                                         *)
(* A skill at a target is missing, a link, or a copy that is whole or half  *)
(* done, of a version of the source, or mixed with another; its SKILL.md is *)
(* named for it or not.                                                     *)
(***************************************************************************)
EXTENDS Naturals, Sequences

CONSTANTS
  Skills,               \* directories with a SKILL.md
  TargetDirs,           \* the user's and the repository's directory
  MaxVersion,           \* bound: changes of a skill's source
  MaxStops              \* bound: runs that are killed

ASSUME SkillBoundsAssumption == MaxVersion \in Nat /\ MaxStops \in Nat

VARIABLES
  source,               \* [Skills -> version, 0: not there]
  at,                   \* [TargetDirs \X Skills -> entry]
  sync,                 \* the run in progress
  stops
skillVars == <<source, at, sync, stops>>

Missing == [is |-> "missing", version |-> 0, named |-> FALSE]
Link    == [is |-> "link", version |-> 0, named |-> FALSE]
Copy(is, v, named) == [is |-> is, version |-> v, named |-> named]
NoSync  == [on |-> FALSE, link |-> FALSE, skills |-> {}, todo |-> {}, at |-> "next",
            entry |-> <<>>, result |-> "none"]

SkillsInit ==
  /\ source = [s \in Skills |-> 1]
  /\ at = [d \in TargetDirs \X Skills |-> Missing]
  /\ sync = NoSync /\ stops = 0

(* A skill of the checkout changes, goes or comes back between two runs.    *)
Change(s) ==
  /\ ~sync.on /\ source[s] < MaxVersion
  /\ \E v \in {0, source[s] + 1} : source' = [source EXCEPT ![s] = v]
  /\ sync' = NoSync
  /\ UNCHANGED <<at, stops>>

(* sync_skills: the list is read once; every target gets every skill of it. *)
Start ==
  /\ ~sync.on
  /\ LET found == {s \in Skills : source[s] > 0} IN
     /\ found # {}
     /\ \E link \in BOOLEAN :
          sync' = [NoSync EXCEPT !.on = TRUE, !.link = link, !.skills = found,
                                 !.todo = TargetDirs \X found]
  /\ UNCHANGED <<source, at, stops>>

(* exists() follows a link: one whose skill is gone counts as missing.      *)
Exists(e) == at[e].is \notin {"missing", "link"} \/ (at[e].is = "link" /\ source[e[2]] > 0)
Goes(to) == sync' = [sync EXCEPT !.at = to]
Fail == sync' = [sync EXCEPT !.on = FALSE, !.result = "error"]

Take(e) ==
  /\ sync.on /\ sync.at = "next" /\ e \in sync.todo
  /\ sync' = [sync EXCEPT !.at = "remove", !.entry = e, !.todo = @ \ {e}]
  /\ UNCHANGED <<source, at, stops>>
\* Faulty: an entry that exists is kept.
RemoveNothing ==
  /\ sync.on /\ sync.at = "remove" /\ Goes("put")
  /\ UNCHANGED <<source, at, stops>>
Remove ==
  /\ sync.on /\ sync.at = "remove" /\ Goes("put")
  /\ at' = IF Exists(sync.entry) THEN [at EXCEPT ![sync.entry] = Missing] ELSE at
  /\ UNCHANGED <<source, stops>>

(* symlink fails if anything has the name, create_dir_all if a link has it; *)
(* a copy into a directory leaves the files there that the skill lacks.     *)
Put ==
  /\ sync.on /\ sync.at = "put"
  /\ IF sync.link
       THEN IF at[sync.entry] = Missing
            THEN at' = [at EXCEPT ![sync.entry] = Link] /\ Goes("next")
            ELSE Fail /\ UNCHANGED at
       ELSE IF at[sync.entry].is = "link" THEN Fail /\ UNCHANGED at
            ELSE /\ at' = [at EXCEPT ![sync.entry] =
                      Copy(IF @ = Missing THEN "half" ELSE "mixed", source[sync.entry[2]], FALSE)]
                 /\ Goes("copy")
  /\ UNCHANGED <<source, stops>>
CopyRest ==
  /\ sync.on /\ sync.at = "copy" /\ Goes("name")
  /\ at' = [at EXCEPT ![sync.entry].is = IF @ = "half" THEN "whole" ELSE @]
  /\ UNCHANGED <<source, stops>>
(* update_frontmatter and ensure_frontmatter: a name, and a description.    *)
NameSkill ==
  /\ sync.on /\ sync.at = "name" /\ Goes("next")
  /\ at' = [at EXCEPT ![sync.entry].named = TRUE]
  /\ UNCHANGED <<source, stops>>
Done ==
  /\ sync.on /\ sync.at = "next" /\ sync.todo = {}
  /\ sync' = [sync EXCEPT !.on = FALSE, !.result = "ok"]
  /\ UNCHANGED <<source, at, stops>>
Stop ==
  /\ sync.on /\ stops < MaxStops
  /\ stops' = stops + 1
  /\ sync' = [sync EXCEPT !.on = FALSE, !.result = "none"]
  /\ UNCHANGED <<source, at>>

SkillsNext ==
  \/ \E s \in Skills : Change(s)
  \/ \E e \in TargetDirs \X Skills : Take(e)
  \/ Start \/ Remove \/ Put \/ CopyRest \/ NameSkill \/ Done \/ Stop
SkillsSpec == SkillsInit /\ [][SkillsNext]_skillVars

-----------------------------------------------------------------------------
(* When a run ends well, every skill it found is at every target: a link to *)
(* it, or all of the copy of this version with its name, whatever a run     *)
(* that was killed had left there.                                          *)
SyncedIsWhole ==
  (~sync.on /\ sync.result = "ok") =>
    \A d \in TargetDirs, s \in sync.skills :
      \/ sync.link /\ at[<<d, s>>] = Link
      \/ ~sync.link /\ at[<<d, s>>] = Copy("whole", source[s], TRUE)
=============================================================================
