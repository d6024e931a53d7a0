----------------------------- MODULE MemoryPaths -----------------------------
(***************************************************************************)
(* Which files are memory, under which path a search shows them, and what a *)
(* path given to memory_get or returned by memory_write stands for          *)
(* (clawdex/src/memory.rs).                                                 *)
(*                                                                         *)
(* A path is relative to the workspace, or absolute and not below it:       *)
(* [inside |-> BOOLEAN, names |-> sequence of names].                       *)
(***************************************************************************)
EXTENDS Naturals, Sequences

CONSTANTS
  Names,                \* names of files and directories
  Undotted,             \* [Names -> Names]: a name without the dots it begins with
  MarkdownNames,        \* names that end with ".md"
  MainNames,            \* "MEMORY.md" and "memory.md"
  MemoryDir,            \* "memory"
  SessionsDir,          \* "sessions"
  RegularFiles,         \* paths of files that are no links
  Directories,          \* paths of directories that are no links
  Extras,               \* configured extra paths, and the directory of writes
  StateDir              \* the state directory

Paths == [inside : BOOLEAN, names : Seq(Names)]

ASSUME NamesAssumption ==
  /\ Undotted \in [Names -> Names]
  /\ MarkdownNames \subseteq Names /\ MainNames \subseteq MarkdownNames
  /\ MemoryDir \in Names \ MarkdownNames /\ SessionsDir \in Names
  /\ Undotted[MemoryDir] = MemoryDir
  /\ \A n \in MainNames : Undotted[n] = n
ASSUME FilesAssumption ==
  /\ RegularFiles \subseteq Paths /\ Directories \subseteq Paths
  /\ RegularFiles \cap Directories = {}
  /\ \A f \in RegularFiles : f.names # <<>>
  /\ Extras \subseteq Paths /\ StateDir \in Paths

LastName(path) == path.names[Len(path.names)]
Markdown(path) == path.names # <<>> /\ LastName(path) \in MarkdownNames
Below(path, dir) ==
  /\ path.inside = dir.inside
  /\ Len(dir.names) <= Len(path.names)
  /\ \A i \in 1..Len(dir.names) : path.names[i] = dir.names[i]

(* normalize_rel_path: dots at the start are taken for a "./" and dropped.  *)
NormalRel(names) ==
  [i \in 1..Len(names) |-> IF i = 1 THEN Undotted[names[1]] ELSE names[i]]

IsMemoryPath(names) ==
  /\ names # <<>>
  /\ \/ Len(names) = 1 /\ names[1] \in MainNames
     \/ Len(names) > 1 /\ names[1] = MemoryDir

(* is_allowed_extra_path: in an extra directory, or an extra file itself.   *)
IsExtra(path) ==
  \E e \in Extras : \/ e \in Directories /\ Below(path, e)
                    \/ e \in RegularFiles /\ path = e /\ Markdown(path)

InWorkspace(names) == [inside |-> TRUE, names |-> names]

(* list_memory_files: the two main files, those below memory/, the extras.  *)
Listed ==
  {f \in RegularFiles :
     /\ Markdown(f)
     /\ \/ f.inside /\ Len(f.names) = 1 /\ f.names[1] \in MainNames
        \/ InWorkspace(<<MemoryDir>>) \in Directories /\ Below(f, InWorkspace(<<MemoryDir>>))
        \/ \E e \in Extras : (e \in Directories /\ Below(f, e)) \/ f = e}

(* The path a search shows, and its citation: build_index_entry.            *)
ShownPath(file) ==
  IF file.inside THEN InWorkspace(NormalRel(file.names)) ELSE file
Citation(file, first, last) ==
  [path |-> ShownPath(file), lines |-> IF first <= 0 \/ last <= 0 THEN <<>> ELSE <<first, last>>]

(* memory_get: a path that is relative is looked for in the workspace.      *)
MemoryGet(path) ==
  IF /\ IsMemoryPath(NormalRel(path.names)) \/ IsExtra(path)
     /\ Markdown(path) /\ path \in RegularFiles
  THEN {path} ELSE {}

-----------------------------------------------------------------------------
(* memory_write: with the confirmation, to the file of the scope below the  *)
(* directory of writes; the answer has the path below the state directory.  *)
Confirmed(args, required) == required => (args.approved /\ args.confirmed)
WriteTarget(root, scope) ==
  [inside |-> root.inside,
   names  |-> root.names \o
     (CASE scope.kind = "global"    -> <<scope.file>>
        [] scope.kind = "workspace" -> <<scope.dir, scope.file>>
        [] scope.kind = "plugin"    -> <<scope.dir, scope.file>>)]
WrittenPath(target) ==
  IF Below(target, StateDir)
  THEN InWorkspace(NormalRel(SubSeq(target.names, Len(StateDir.names) + 1, Len(target.names))))
  ELSE target
=============================================================================
