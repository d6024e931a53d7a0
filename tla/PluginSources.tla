---------------------------- MODULE PluginSources ----------------------------
(***************************************************************************)
(* Where a plugin comes from: the source a user names, how it is fetched    *)
(* and unpacked, and which plugin the directory that results is             *)
(* (clawdex/src/plugins.rs).  Functions only, no state: what install_plugin *)
(* does with the result is the module Plugins.                              *)
(*                                                                         *)
(* A text a user gives is what stands before and after its first '#', a     *)
(* path the sequence of the parts between its slashes.  Blanks around both  *)
(* are trimmed before, and slashes that are doubled and dots within a path  *)
(* are left out, as the library's paths leave them out.                     *)
(***************************************************************************)
EXTENDS Naturals, Sequences, FiniteSets

CONSTANTS
  Words,                \* parts of paths, ids, names, versions
  Tokens,               \* those that is_github_token accepts
  Addresses,            \* texts that looks_like_git_url accepts
  Absent, Broken,      \* Option::None, or an error; a file that cannot be parsed
  NoWord,                \* the empty word
  Dot, DotDot, Tilde,   \* ".", ".." and "~"
  Github,               \* the address of an owner's repository
  Normal                \* normalize_plugin_id; Absent where it fails

Parts == Words \cup {NoWord, Dot, DotDot, Tilde}

(* What is normalised is lower case and has no other characters than those  *)
(* of an id: it stays what it is.                                           *)
ASSUME SourcesAssumption ==
  /\ Tokens \subseteq Words /\ {"package", "plugins", "repo"} \subseteq Words
  /\ {NoWord, Dot, DotDot, Tilde} \cap Words = {}
  /\ NoWord \notin {Dot, DotDot, Tilde} /\ Dot # DotDot /\ Tilde \notin {Dot, DotDot}
  /\ Absent \notin Parts \cup Seq(Parts)
  /\ Github \in [Tokens \X Tokens -> Addresses]
  /\ Normal \in [Parts \cup {Absent} -> Words \cup {Absent}]
  /\ \A w \in {NoWord, Dot, DotDot, Absent} : Normal[w] = Absent
  /\ \A w \in Parts : Normal[w] # Absent => Normal[Normal[w]] = Normal[w]

-----------------------------------------------------------------------------
(* A path may begin and end with a slash; a text is [place, hint], where    *)
(* place is an address or a path.                                           *)
RawPaths == {p \in Seq(Parts) : \A i \in 2..(Len(p) - 1) : p[i] # NoWord}
SourceTexts == [place : Addresses \cup RawPaths, hint : RawPaths \cup {Absent}]

(* clean_subdir_hint: without the slashes around it.                        *)
Clean(path) ==
  IF path = Absent THEN Absent
  ELSE IF \A i \in DOMAIN path : path[i] = NoWord THEN Absent
  ELSE LET full  == {i \in DOMAIN path : path[i] # NoWord}
           first == CHOOSE i \in full : \A j \in full : i <= j
           last  == CHOOSE i \in full : \A j \in full : j <= i
       IN SubSeq(path, first, last)

(* parse_github_shorthand: owner, repository, and the rest.                 *)
IsShorthand(path) ==
  path # Absent /\ Len(path) >= 2 /\ path[1] \in Tokens /\ path[2] \in Tokens
Rest(path) == IF Len(path) > 2 THEN SubSeq(path, 3, Len(path)) ELSE Absent

(* parse_git_source_spec.                                                   *)
Joined(prefix, hint) ==
  IF prefix = Absent THEN hint ELSE IF hint = Absent THEN prefix ELSE prefix \o hint
GitSource(text) ==
  IF text.place \in Addresses
    THEN [address |-> text.place, folder |-> Clean(text.hint)]
  ELSE LET path == Clean(text.place) IN
    IF IsShorthand(path)
      THEN [address |-> Github[<<path[1], path[2]>>],
            folder  |-> Joined(Rest(path), Clean(text.hint))]
      ELSE Absent

(* The spec that is recorded for a source from git.                         *)
GitSpec(source) == [place |-> source.address, hint |-> source.folder]

(* resolve_install_source.  A blank option counts as none given, yet if it  *)
(* is there it is the one that is read.  local are the texts that lead to   *)
(* a file, and the addresses that begin like a path.                        *)
EmptyText == [place |-> <<>>, hint |-> Absent]
Options(args) ==
  {o \in {"spec", "npm", "git", "path"} :
     args[o] # Absent /\ (o = "path" \/ args[o] # EmptyText)}
IsPath(text, local) ==
  \/ text \in local
  \/ text.place \notin Addresses /\ text.place # <<>>
     /\ text.place[1] \in {NoWord, Dot, DotDot, Tilde}
AsGit(text) ==
  IF GitSource(text) = Absent THEN Absent ELSE [from |-> "git", what |-> GitSource(text)]
InstallSource(args, local) ==
  CASE Cardinality(Options(args)) # 1 -> Absent
    [] OTHER ->
       IF args.path # Absent THEN [from |-> "path", what |-> args.path]
       ELSE IF args.npm # Absent THEN
         IF args.npm = EmptyText THEN Absent ELSE [from |-> "npm", what |-> args.npm]
       ELSE IF args.git # Absent THEN AsGit(args.git)
       ELSE IF IsPath(args.spec, local) \/ GitSource(args.spec) = Absent
         THEN [from |-> "path", what |-> args.spec]
         ELSE AsGit(args.spec)

-----------------------------------------------------------------------------
(* Directories: their name and the manifests in them; looks, whether one    *)
(* without a manifest is taken for a plugin.                                *)
Field       == Words \cup {NoWord, Absent}
Fields      == [id : Field, name : Field, version : Field, about : Field,
                permissions : Field, schema : BOOLEAN, dependencies : SUBSET Words]
PluginDirs == [name : Parts \cup {Absent}, looks : BOOLEAN,
                openclaw : Fields \cup {Absent, Broken},
                cowork   : Fields \cup {Absent, Broken},
                package  : Fields \cup {Absent, Broken}]

(* The first that is given and not blank.                                   *)
FirstOf(a, b, c) ==
  IF a \notin {Absent, NoWord} THEN a ELSE IF b \notin {Absent, NoWord} THEN b ELSE c
OrElse(a, b) == IF a # Absent THEN a ELSE b

NoFields ==
  [id |-> Absent, name |-> Absent, version |-> Absent, about |-> Absent,
   permissions |-> Absent, schema |-> FALSE, dependencies |-> {}]

(* read_package_manifest: one that cannot be read is none.                  *)
PackageOf(dir) == IF dir.package \in {Absent, Broken} THEN NoFields ELSE dir.package

(* resolve_plugin_name, resolve_plugin_description, and the version.        *)
Described(m, raw, package, kind) ==
  IF Normal[raw] = Absent THEN Absent
  ELSE [id          |-> Normal[raw],
        name        |-> FirstOf(m.name, package.name, Normal[raw]),
        about       |-> FirstOf(m.about, package.about, Absent),
        version     |-> OrElse(m.version, package.version),
        permissions |-> m.permissions,
        kind        |-> kind]

(* load_plugin_manifest: openclaw.plugin.json, then .claude-plugin/         *)
(* plugin.json, then the name of the directory.                             *)
Manifest(dir) ==
  IF dir.openclaw # Absent THEN
    IF dir.openclaw = Broken THEN Absent
    ELSE IF ~dir.openclaw.schema THEN Absent
    ELSE Described(dir.openclaw, dir.openclaw.id, PackageOf(dir), "OpenClaw")
  ELSE IF dir.cowork # Absent THEN
    IF dir.cowork = Broken THEN Absent
    ELSE Described(dir.cowork, OrElse(dir.cowork.id, OrElse(dir.cowork.name, dir.name)),
                   PackageOf(dir), "Cowork")
  ELSE IF dir.looks THEN Described(NoFields, dir.name, PackageOf(dir), "Cowork")
  ELSE Absent

(* The same directory under another name: a copy, or a link.                *)
Named(dir, name) == [dir EXCEPT !.name = name]

-----------------------------------------------------------------------------
(* Fetching.  A world says what a path, an npm spec and an address lead to: *)
(* a clone is a function from the paths of its directories to them, an      *)
(* archive knows its kind by its name and holds directories at its top.     *)
Archives == [kind : {"tar", "zip", "other"},
             entries : SUBSET [path : Seq(Parts), dir : BOOLEAN],
             content : [Parts -> PluginDirs]]
Repos    == UNION {[ps -> PluginDirs] : ps \in {d \in SUBSET Seq(Parts) : <<>> \in d}}
Worlds   ==
  [disk : [SourceTexts -> [type : {"dir"}, dir : PluginDirs]
                      \cup [type : {"archive"}, archive : Archives] \cup {Absent}],
   registry : [SourceTexts -> Archives \cup {Absent}],
   hosts    : [Addresses -> Repos \cup {Absent}]]

(* sanitize_archive_path, sanitize_relative_subdir.                         *)
Cleaned(path) ==
  LET rest == IF path # <<>> /\ path[1] = Dot THEN Tail(path) ELSE path IN
  IF rest = <<>> \/ \E i \in DOMAIN rest : rest[i] \in {NoWord, DotDot} THEN Absent ELSE rest

(* extract_tar_archive and extract_zip_archive: one bad entry fails all.    *)
Extracts(archive) ==
  /\ archive.kind \in {"tar", "zip"}
  /\ \A e \in archive.entries : Cleaned(e.path) # Absent
TopDirs(archive) ==
  {Cleaned(e.path)[1] : e \in {x \in archive.entries : x.dir \/ Len(Cleaned(x.path)) > 1}}

(* resolve_packed_root_dir.                                                 *)
PackedRoot(archive) ==
  IF "package" \in TopDirs(archive) THEN "package"
  ELSE IF \E d \in TopDirs(archive) : TopDirs(archive) = {d}
    THEN CHOOSE d \in TopDirs(archive) : TRUE
  ELSE Absent
Unpacked(archive) ==
  IF archive = Absent THEN Absent
  ELSE IF ~Extracts(archive) THEN Absent
  ELSE IF PackedRoot(archive) = Absent THEN Absent
  ELSE Named(archive.content[PackedRoot(archive)], PackedRoot(archive))

(* resolve_git_plugin_root, in a clone named "repo".                        *)
GitFolder(repo, folder) ==
  IF folder = Absent THEN <<>>
  ELSE IF Cleaned(folder) = Absent THEN Absent
  ELSE IF Cleaned(folder) \in DOMAIN repo THEN Cleaned(folder)
  ELSE IF Len(folder) = 1 /\ <<"plugins">> \o Cleaned(folder) \in DOMAIN repo
    THEN <<"plugins">> \o Cleaned(folder)
  ELSE Absent
GitRoot(repo, folder) ==
  IF repo = Absent THEN Absent
  ELSE IF GitFolder(repo, folder) = Absent THEN Absent
  ELSE LET path == GitFolder(repo, folder) IN
       Named(repo[path], IF path = <<>> THEN "repo" ELSE path[Len(path)])

(* prepare_plugin_source: the directory, whether it is a temporary one, the *)
(* directory that may be linked, and the spec that is recorded.             *)
Taken(root, temporary, link, spec) ==
  IF root = Absent THEN Absent
  ELSE IF Manifest(root) = Absent THEN Absent
  ELSE [root |-> root, plugin |-> Manifest(root), temporary |-> temporary, link |-> link,
        spec |-> spec]
Prepared(world, source) ==
  IF source.from = "path" THEN
    LET found == world.disk[source.what] IN
    IF found = Absent THEN Absent
    ELSE IF found.type = "dir" THEN Taken(found.dir, FALSE, source.what, Absent)
    ELSE Taken(Unpacked(found.archive), TRUE, Absent, Absent)
  ELSE IF source.from = "npm" THEN
    Taken(Unpacked(world.registry[source.what]), TRUE, Absent, source.what)
  ELSE
    Taken(GitRoot(world.hosts[source.what.address], source.what.folder), TRUE, Absent,
          GitSpec(source.what))

(* The directory plugins/<id>, and what is asked of it afterwards:          *)
(* install_dependencies_if_needed, read_installed_version.                  *)
Copied(prepared) == Named(prepared.root, prepared.plugin.id)
NeedsDependencies(dir) ==
  dir.package \notin {Absent, Broken} /\ dir.package.dependencies # {}
VersionOf(dir) == IF Manifest(dir) = Absent THEN Absent ELSE Manifest(dir).version

(* probe_npm_spec: what an update would install, or Absent if it would not. *)
Probe(world, spec, expected) ==
  LET p == Prepared(world, [from |-> "npm", what |-> spec]) IN
  IF p = Absent THEN Absent
  ELSE IF p.plugin.id # Normal[expected] THEN Absent
  ELSE [version |-> p.plugin.version]
=============================================================================
