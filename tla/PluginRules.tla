----------------------------- MODULE PluginRules -----------------------------
(***************************************************************************)
(* What a plugin may bring along: the paths its manifest may name, the      *)
(* skill directories made of its files and found again when it is removed,  *)
(* the MCP servers exported for it and the policy its commands run under    *)
(* (clawdex/src/plugins.rs, config.rs).  Functions, but for the export,     *)
(* which goes on from server to server.                                     *)
(*                                                                         *)
(* A path is a sequence of components, a name a value; lower-casing,        *)
(* trimming and slugs are done before.                                      *)
(***************************************************************************)
EXTENDS Naturals, Sequences, SequencesExt

CONSTANTS Up,           \* the component ".."
          Nothing,      \* Option::None
          Prefixed,     \* [<<plugin, name>> -> names]: the text "<plugin>-<name>"
          Exports       \* [policy, servers] that are exported together

\* The servers of all plugins, in the order of their export; a plugin has one of a name.
ASSUME ExportsAssumption ==
  \A e \in Exports :
    /\ Len(e.servers) \in Nat /\ DOMAIN e.servers = 1..Len(e.servers)
    /\ \A i, j \in DOMAIN e.servers :
         i # j => e.servers[i].plugin # e.servers[j].plugin \/ e.servers[i].name # e.servers[j].name

-----------------------------------------------------------------------------
(* Paths in a manifest: [absolute, dotted, components].                     *)

(* The complaints of validate_manifest_component_paths.                     *)
Complaints(raw) ==
  {e \in {"empty", "absolute", "not dotted", "nothing", "traverses"} :
     CASE e = "empty"      -> raw.components = <<>> /\ ~raw.dotted /\ ~raw.absolute
       [] e = "absolute"   -> raw.absolute
       [] e = "not dotted" -> ~raw.dotted /\ (raw.absolute \/ raw.components # <<>>)
       [] e = "nothing"    -> raw.dotted /\ raw.components = <<>>
       [] e = "traverses"  -> Up \in Range(raw.components)}

(* resolve_manifest_path: the path under the plugin's root, or Nothing.     *)
Resolved(root, raw) ==
  IF /\ ~raw.absolute /\ raw.dotted
     /\ raw.components # <<>> /\ Up \notin Range(raw.components)
    THEN root \o raw.components ELSE Nothing

(* resolve_plugin_component_paths: the usual directory, then those the two  *)
(* manifests name and that exist, each once; one bad path fails the plugin. *)
ComponentPaths(root, usual, raws, existing) ==
  LET all == [i \in DOMAIN raws |-> Resolved(root, raws[i])] IN
  IF Nothing \in Range(all) THEN Nothing
  ELSE {root \o usual} \cup (Range(all) \cap existing)

-----------------------------------------------------------------------------
(* Skills.  An item of a plugin is a skill directory ("dir"; "deep" if not  *)
(* at skills/<name>), a Markdown file among the skills ("file") or a        *)
(* command ("md" or "json"), whose name may bring a namespace of its own.   *)

IsSkill(item)    == item.kind \in {"dir", "file"}
IsCommand(item)  == item.kind \in {"md", "json"}
FullName(p, item) ==
  [space |-> IF IsCommand(item) /\ item.space # Nothing THEN item.space ELSE p,
   base  |-> item.base]

(* sync_plugin_skills: skills first, then the commands with a prompt whose  *)
(* name is not taken.                                                       *)
FlatNames(p, items) ==
  {FullName(p, i) : i \in {j \in items : IsSkill(j) \/ (IsCommand(j) /\ j.prompt)}}

(* build_plugin_skills_overlay: skill directories at any depth, Markdown    *)
(* commands by the name of their file.                                      *)
NestedNames(p, items) ==
  {[space |-> p, base |-> i.base] : i \in {j \in items : j.kind \in {"dir", "deep", "md"}}}

(* A skills directory maps a full name to the plugins its text names: the   *)
(* one in its frontmatter and those whose root's path it contains, which    *)
(* may be the beginning of another's (item.roots).                          *)
Source(p, items, n) ==
  LET of == {i \in items : FullName(p, i) = n /\ (IsSkill(i) \/ (IsCommand(i) /\ i.prompt))}
  IN CHOOSE i \in of : \A j \in of : IsSkill(j) => IsSkill(i)
Written(dir, p, items) ==
  [n \in DOMAIN dir \cup FlatNames(p, items) |->
     IF n \in FlatNames(p, items) THEN {p} \cup Source(p, items, n).roots ELSE dir[n]]

(* remove_plugin_skills_in_state_dir: by prefix, by the names its files     *)
(* would get (if they are still there), or by what its text names.          *)
Owned(dir, p, items) ==
  {n \in DOMAIN dir : n.space = p \/ n \in FlatNames(p, items) \/ p \in dir[n]}
Removed(dir, p, items) ==
  [n \in DOMAIN dir \ Owned(dir, p, items) |-> dir[n]]

(* sync_plugin_skills as a whole.                                           *)
Synced(dir, p, items) == Written(Removed(dir, p, items), p, items)

-----------------------------------------------------------------------------
(* MCP servers, [plugin, name, perms].  A policy is [allow, deny, plugins    *)
(* off]; perms are what the manifest of the plugin asks for, [allow, deny].  *)

IsAllowed(policy, name) ==
  name \notin policy.deny /\ (policy.allow = {} \/ name \in policy.allow)

(* allows_any: a server known by several names.                             *)
AllowsAny(policy, names) ==
  /\ names \cap policy.deny = {}
  /\ policy.allow = {} \/ names \cap policy.allow # {}

Permitted(policy, server) ==
  /\ server.plugin \notin policy.off
  /\ server.name \notin server.perms.deny
  /\ server.perms.allow = {} \/ server.name \in server.perms.allow
  /\ IsAllowed(policy, server.name)

\* Faulty: a server takes the place of another one of its name.
KeyOver(target, server) == server.name

(* merge_mcp_config inserts a server under its name, or under the plugin's  *)
(* id and its name when the name is taken, whatever is there.               *)
Key(target, server) ==
  IF server.name \in DOMAIN target THEN Prefixed[server.plugin, server.name] ELSE server.name
MergedServer(target, policy, server) ==
  LET key == Key(target, server) IN
  IF Permitted(policy, server)
    THEN [k \in DOMAIN target \cup {key} |-> IF k = key THEN server ELSE target[k]]
    ELSE target

(* export_mcp_command: plugins one after the other, server by server; what  *)
(* is exported is [policy, servers, done, out].                             *)
VARIABLE export

ExportInit ==
  \E e \in Exports :
    export = [policy |-> e.policy, servers |-> e.servers, done |-> 0,
              out |-> [n \in {} |-> Nothing]]
ExportNext ==
  /\ export.done < Len(export.servers)
  /\ export' = [export EXCEPT !.done = @ + 1,
                  !.out = MergedServer(@, export.policy, export.servers[export.done + 1])]

Handled == {i \in DOMAIN export.servers :
              i <= export.done /\ Permitted(export.policy, export.servers[i])}
Name(i) == export.servers[i].name
Join(i) == Prefixed[export.servers[i].plugin, Name(i)]

(* Of the servers that were handled, those are exported that the policy and *)
(* their plugins' permissions let through, each under one key, its name or  *)
(* the joined one.  None is lost to another of its name: one that is let    *)
(* through and is missing had the very key that a later one got by joining, *)
(* and every name that was let through leads to a server.                   *)
ServersAreKept ==
  /\ \A k \in DOMAIN export.out : \E i \in Handled :
       export.out[k] = export.servers[i] /\ k \in {Name(i), Join(i)}
  /\ \A k, l \in DOMAIN export.out : export.out[k] = export.out[l] => k = l
  /\ \A i \in Handled :
       /\ Name(i) \in DOMAIN export.out
       /\ \/ \E k \in DOMAIN export.out : export.out[k] = export.servers[i]
          \/ \E j \in Handled : j > i /\ Join(j) \in {Name(i), Join(i)}

-----------------------------------------------------------------------------
(* Workspaces.  A policy is [roots, readOnly, network].                     *)

Under(path, roots) == \E r \in roots : IsPrefix(r, path)

(* apply_plugin_permissions_to_policy with resolve_permission_root: a root  *)
(* outside the workspace's is dropped; if none is left all of them stay.    *)
Effective(policy, perms, workspace) ==
  LET Root(raw) == IF raw.absolute THEN raw.components ELSE workspace \o raw.components
      kept == {Root(raw) : raw \in {x \in perms.roots :
                 /\ x.absolute \/ x.components # <<>>
                 /\ Up \notin Range(x.components) /\ Under(Root(x), policy.roots)}}
  IN [roots    |-> IF kept = {} THEN policy.roots ELSE kept,
      readOnly |-> policy.readOnly \/ perms.readOnly,
      network  |-> policy.network /\ perms.network # "off"]

(* resolve_workspace_path: the deny patterns see the path below the longest *)
(* root that holds it.                                                      *)
LongestRoot(path, roots) ==
  CHOOSE r \in roots : IsPrefix(r, path)
    /\ \A o \in roots : IsPrefix(o, path) => Len(o) <= Len(r)
Accessible(policy, path, denied) ==
  /\ Under(path, policy.roots)
  /\ SubSeq(path, Len(LongestRoot(path, policy.roots)) + 1, Len(path)) \notin denied

-----------------------------------------------------------------------------
(* merge_config_value on two levels of objects: a value of the patch takes  *)
(* the place of the old one unless both are objects.                        *)
MergedConfig(base, patch) ==
  [section \in DOMAIN base \cup DOMAIN patch |->
     IF section \notin DOMAIN patch THEN base[section]
     ELSE IF section \notin DOMAIN base THEN patch[section]
     ELSE [key \in DOMAIN base[section] \cup DOMAIN patch[section] |->
             IF key \in DOMAIN patch[section] THEN patch[section][key]
             ELSE base[section][key]]]
=============================================================================
