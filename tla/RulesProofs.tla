----------------------------- MODULE RulesProofs -----------------------------
(***************************************************************************)
(* What the rules for plugins guarantee for any plugins and policies, the   *)
(* paths of memory for any files, a turn's policy and a heartbeat's hours,   *)
(* and the announcement of a cron job for any conversations.                *)
(***************************************************************************)
EXTENDS PluginRules, PluginSources, MemoryPaths, TurnPolicy, Heartbeats, Announce,
        FiniteSetTheorems, SequenceTheorems, TLAPS

-----------------------------------------------------------------------------
(* Exports of MCP servers.  What is in the export and what has been handled  *)
(* are related at every step by ServersAreKept itself, with the shapes.     *)

ExportTypeOK ==
  \E e \in Exports : \E n \in 0..Len(e.servers), out \in {export.out} :
    export = [policy |-> e.policy, servers |-> e.servers, done |-> n, out |-> out]
ExportInv == ExportTypeOK /\ ServersAreKept

\* What is known of the servers that are exported together.
LEMMA ExportFacts ==
  ASSUME ExportTypeOK
  PROVE  LET servers == export.servers IN
         /\ Len(servers) \in Nat /\ DOMAIN servers = 1..Len(servers)
         /\ export.done \in 0..Len(servers)
         /\ \A i, j \in DOMAIN servers : servers[i] = servers[j] => i = j
BY ExportsAssumption DEF ExportTypeOK

\* An export begins with nothing.
LEMMA ExportInitInv == ExportInit => ExportInv
<1> SUFFICES ASSUME NEW e \in Exports,
               export = [policy |-> e.policy, servers |-> e.servers, done |-> 0,
                         out |-> [n \in {} |-> Nothing]]
             PROVE  ExportInv
  BY DEF ExportInit
<1>1. /\ export.servers = e.servers /\ export.done = 0 /\ DOMAIN export.out = {}
      /\ Len(e.servers) \in Nat /\ DOMAIN e.servers = 1..Len(e.servers)
  BY ExportsAssumption
<1>2. ExportTypeOK
  BY <1>1 DEF ExportTypeOK
<1>3. Handled = {}
  BY <1>1 DEF Handled
<1> QED
  BY <1>1, <1>2, <1>3 DEF ExportInv, ServersAreKept

\* One more server is handled.
LEMMA ExportStep == ASSUME ExportInv, [ExportNext]_export PROVE ExportInv'
<1>1. CASE UNCHANGED export
  <2>1. export' = export
    BY <1>1
  <2>2. Handled' = Handled /\ \A i : Name(i)' = Name(i) /\ Join(i)' = Join(i)
    BY <2>1 DEF Handled, Name, Join
  <2>3. ExportTypeOK'
    BY <2>1 DEF ExportInv, ExportTypeOK
  <2> QED
    BY <2>1, <2>2, <2>3 DEF ExportInv, ServersAreKept
<1>2. CASE ExportNext
  <2> DEFINE d      == export.done + 1
             server == export.servers[d]
             out    == export.out
             new    == MergedServer(out, export.policy, server)
  <2>0. PICK e \in Exports : \E n \in 0..Len(e.servers) :
          export = [policy |-> e.policy, servers |-> e.servers, done |-> n, out |-> out]
    BY DEF ExportInv, ExportTypeOK
  <2>1. PICK n \in 0..Len(e.servers) :
          export = [policy |-> e.policy, servers |-> e.servers, done |-> n, out |-> out]
    BY <2>0
  <2>2. /\ export' = [policy |-> e.policy, servers |-> e.servers, done |-> n + 1, out |-> new]
        /\ n < Len(e.servers) /\ n = export.done
    <3>1. /\ export' = [export EXCEPT !.done = @ + 1, !.out = new]
          /\ export.done < Len(export.servers)
      BY <1>2 DEF ExportNext
    <3>2. export.policy = e.policy /\ export.servers = e.servers /\ export.done = n
      BY <2>1
    <3> HIDE DEF new, out
    <3>3. export' = [policy |-> e.policy, servers |-> e.servers, done |-> n + 1, out |-> new]
      BY <2>1, <3>1
    <3> QED
      BY <3>1, <3>2, <3>3
  <2>3. /\ export'.servers = export.servers /\ export'.policy = export.policy
        /\ export'.done = d /\ export'.out = new
    BY <2>1, <2>2
  <2>4. /\ DOMAIN export.servers = 1..Len(export.servers) /\ d \in DOMAIN export.servers
        /\ \A i, j \in DOMAIN export.servers : export.servers[i] = export.servers[j] => i = j
        /\ d \in Nat /\ \A i \in DOMAIN export.servers : i \in Nat /\ (i <= d <=> i < d \/ i = d)
                                                       /\ (i < d <=> i <= export.done)
    <3>1. /\ Len(export.servers) \in Nat /\ DOMAIN export.servers = 1..Len(export.servers)
          /\ \A i, j \in DOMAIN export.servers : export.servers[i] = export.servers[j] => i = j
          /\ export.done \in 0..Len(export.servers)
      BY ExportFacts DEF ExportInv
    <3>2. export.done < Len(export.servers)
      BY <1>2 DEF ExportNext
    <3> QED
      BY <3>1, <3>2
  <2>5. ExportTypeOK'
    <3>1. n + 1 \in 0..Len(e.servers)
      BY <2>2, ExportsAssumption
    <3> QED
      BY <2>2, <2>3, <3>1 DEF ExportTypeOK
  <2>6. \A i : Name(i)' = Name(i) /\ Join(i)' = Join(i)
    BY <2>3 DEF Name, Join
  <2> DEFINE may == Permitted(export.policy, server)
  <2>7. Handled' = IF may THEN Handled \cup {d} ELSE Handled
    BY <2>3, <2>4 DEF Handled
  <2>8. /\ \A i \in Handled : i \in DOMAIN export.servers /\ i < d
        /\ \A i \in Handled : export.servers[i] # server
    BY <2>4 DEF Handled
  <2>9. CASE ~may
    <3>1. new = out /\ Handled' = Handled
      BY <2>7, <2>9 DEF MergedServer
    <3> QED
      BY <2>3, <2>5, <2>6, <3>1 DEF ExportInv, ServersAreKept
  <2>10. CASE may
    <3> DEFINE key == Key(out, server)
    <3>1. /\ DOMAIN new = DOMAIN out \cup {key} /\ new[key] = server
          /\ \A k \in DOMAIN out : k # key => new[k] = out[k]
      BY <2>10 DEF MergedServer
    <3>2. /\ key \in {Name(d), Join(d)}
          /\ key \in DOMAIN out => key = Join(d)
          /\ Name(d) \in DOMAIN new
      BY <3>1 DEF Key, Name, Join
    <3>3. Handled' = Handled \cup {d}
      BY <2>7, <2>10
    <3> HIDE DEF new, key, may
    <3>4. \A k \in DOMAIN out : \E i \in Handled :
            out[k] = export.servers[i] /\ k \in {Name(i), Join(i)}
      BY DEF ExportInv, ServersAreKept
    <3>5. \A k \in DOMAIN new : \E i \in Handled' :
            new[k] = export.servers[i] /\ k \in {Name(i), Join(i)}
      BY <3>1, <3>2, <3>3, <3>4
    <3>6. \A k \in DOMAIN out : out[k] # server
      BY <2>8, <3>4
    <3>7. \A k, l \in DOMAIN new : new[k] = new[l] => k = l
      <4>1. \A k, l \in DOMAIN out : out[k] = out[l] => k = l
        BY DEF ExportInv, ServersAreKept
      <4> QED
        BY <3>1, <3>6, <4>1
    <3>8. ASSUME NEW i \in Handled'
          PROVE  /\ Name(i) \in DOMAIN new
                 /\ \/ \E k \in DOMAIN new : new[k] = export.servers[i]
                    \/ \E j \in Handled' : j > i /\ Join(j) \in {Name(i), Join(i)}
      <4>1. CASE i = d
        BY <3>1, <3>2, <4>1
      <4>2. CASE i \in Handled
        <5>1. /\ Name(i) \in DOMAIN out
              /\ \/ \E k \in DOMAIN out : out[k] = export.servers[i]
                 \/ \E j \in Handled : j > i /\ Join(j) \in {Name(i), Join(i)}
          BY <4>2 DEF ExportInv, ServersAreKept
        <5>2. ASSUME NEW k \in DOMAIN out, out[k] = export.servers[i]
              PROVE  \/ \E l \in DOMAIN new : new[l] = export.servers[i]
                     \/ d > i /\ Join(d) \in {Name(i), Join(i)}
          <6>1. PICK h \in Handled : out[k] = export.servers[h] /\ k \in {Name(h), Join(h)}
            BY <3>4
          <6>2. h = i
            BY <2>4, <2>8, <4>2, <5>2, <6>1
          <6>3. d > i
            BY <2>4, <2>8, <4>2
          <6> QED
            BY <3>1, <3>2, <5>2, <6>1, <6>2, <6>3
        <5> QED
          BY <3>1, <3>3, <5>1, <5>2
      <4> QED
        BY <3>3, <4>1, <4>2
    <3> QED
      BY <2>3, <2>5, <2>6, <3>5, <3>7, <3>8 DEF ExportInv, ServersAreKept
  <2> QED
    BY <2>9, <2>10
<1> QED
  BY <1>1, <1>2

\* For any plugins, servers, names and lists: the servers that are let through are
\* exported, and no others, each under one key; one can only be missing for another
\* whose plugin and name join to its key.
THEOREM ServersAreExportedOnce == ExportInit /\ [][ExportNext]_export => []ServersAreKept
<1>1. ExportInv => ServersAreKept
  BY DEF ExportInv
<1> QED
  BY <1>1, ExportInitInv, ExportStep, PTL

-----------------------------------------------------------------------------
(* Skills of plugins in the directory of the user's skills.                 *)

\* After a sync a plugin owns just what its files make, also when files of an earlier
\* version are gone, and skills of others that it does not name are as they were.
THEOREM SyncLeavesExactly ==
  ASSUME NEW dir, NEW p, NEW items
  PROVE  LET after == Synced(dir, p, items) IN
         /\ \A n \in DOMAIN after : p \in after[n] <=> n \in FlatNames(p, items)
         /\ FlatNames(p, items) \subseteq DOMAIN after
         /\ \A n \in DOMAIN dir \ Owned(dir, p, items) :
              n \in DOMAIN after /\ after[n] = dir[n]
<1> DEFINE left  == Removed(dir, p, items)
           after == Written(left, p, items)
<1>1. /\ DOMAIN left = DOMAIN dir \ Owned(dir, p, items)
      /\ \A n \in DOMAIN left : left[n] = dir[n]
  BY DEF Removed
<1>2. \A n \in DOMAIN left : p \notin left[n] /\ n \notin FlatNames(p, items)
  BY <1>1 DEF Owned
<1> HIDE DEF left
<1>3. /\ DOMAIN after = DOMAIN left \cup FlatNames(p, items)
      /\ \A n \in DOMAIN after : after[n] = IF n \in FlatNames(p, items)
                                          THEN {p} \cup Source(p, items, n).roots ELSE left[n]
  BY DEF Written
<1>4. after = Synced(dir, p, items)
  BY DEF Synced, left
<1> HIDE DEF after
<1> QED
  BY <1>1, <1>2, <1>3, <1>4

\* A plugin that is removed while its files are there leaves nothing behind, and
\* nothing else than what was there before it was first synced, unless it took names.
THEOREM RemovalUndoesSync ==
  ASSUME NEW dir, NEW p, NEW items,
         dir = [n \in DOMAIN dir |-> dir[n]], Owned(dir, p, items) = {}
  PROVE  Removed(Synced(dir, p, items), p, items) = dir
<1> DEFINE after == Synced(dir, p, items)
<1>0. FlatNames(p, items) \cap DOMAIN dir = {}
  BY DEF Owned
<1>1. Removed(dir, p, items) = dir
  BY DEF Removed
<1>2. /\ DOMAIN after = DOMAIN dir \cup FlatNames(p, items)
      /\ \A n \in DOMAIN dir : after[n] = dir[n]
      /\ \A n \in FlatNames(p, items) : p \in after[n]
  BY <1>0, <1>1 DEF Synced, Written
<1> HIDE DEF after
<1>3. \A n \in DOMAIN dir : n.space # p /\ n \notin FlatNames(p, items) /\ p \notin dir[n]
  BY DEF Owned
<1>4. Owned(after, p, items) = FlatNames(p, items)
  BY <1>2, <1>3 DEF Owned
<1>5. DOMAIN after \ Owned(after, p, items) = DOMAIN dir
  BY <1>0, <1>2, <1>4
<1>6. Removed(after, p, items) = [n \in DOMAIN dir |-> dir[n]]
  BY <1>2, <1>5 DEF Removed
<1> QED
  BY <1>6 DEF after

-----------------------------------------------------------------------------
(* Policies and paths of plugins.                                           *)

\* A sequence begins with itself.
LEMMA PrefixOfItself == ASSUME NEW S, NEW q \in Seq(S) PROVE IsPrefix(q, q)
BY DEF IsPrefix

\* The permissions of a plugin never widen what the user's policy lets its commands
\* do: roots are below roots, and neither writing nor the network is turned on.
THEOREM PermissionsNarrow ==
  ASSUME NEW S, NEW policy, NEW perms, NEW workspace,
         policy.roots \subseteq Seq(S), policy.readOnly \in BOOLEAN, policy.network \in BOOLEAN,
         perms.readOnly \in BOOLEAN
  PROVE  LET e == Effective(policy, perms, workspace) IN
         /\ \A r \in e.roots : Under(r, policy.roots)
         /\ policy.readOnly => e.readOnly
         /\ e.network => policy.network
<1> DEFINE Root(raw) == IF raw.absolute THEN raw.components ELSE workspace \o raw.components
           kept == {Root(raw) : raw \in {x \in perms.roots :
                      /\ x.absolute \/ x.components # <<>>
                      /\ Up \notin Range(x.components) /\ Under(Root(x), policy.roots)}}
           e    == Effective(policy, perms, workspace)
<1>1. \A r \in kept : Under(r, policy.roots)
  OBVIOUS
<1>2. \A r \in policy.roots : Under(r, policy.roots)
  BY PrefixOfItself DEF Under
<1>3. /\ e.roots = (IF kept = {} THEN policy.roots ELSE kept)
      /\ e.readOnly = (policy.readOnly \/ perms.readOnly)
      /\ e.network = (policy.network /\ perms.network # "off")
  BY DEF Effective
<1> HIDE DEF kept, e
<1>4. \A r \in e.roots : Under(r, policy.roots)
  BY <1>1, <1>2, <1>3
<1> QED
  BY <1>3, <1>4 DEF e

\* The doctor has no complaint about a path just when the runtime resolves it, to a
\* place below the plugin's root.
THEOREM DoctorKnowsPaths ==
  ASSUME NEW S, NEW root \in Seq(S), NEW raw, raw.components \in Seq(S),
         raw.absolute \in BOOLEAN, raw.dotted \in BOOLEAN, Nothing \notin Seq(S)
  PROVE  /\ Resolved(root, raw) # Nothing <=> Complaints(raw) = {}
         /\ Resolved(root, raw) # Nothing => IsPrefix(root, Resolved(root, raw))
<1>1. Complaints(raw) = {} <=>
        /\ ~(raw.components = <<>> /\ ~raw.dotted /\ ~raw.absolute)
        /\ ~raw.absolute
        /\ ~(~raw.dotted /\ (raw.absolute \/ raw.components # <<>>))
        /\ ~(raw.dotted /\ raw.components = <<>>)
        /\ Up \notin Range(raw.components)
  BY DEF Complaints
<1>2. root \o raw.components \in Seq(S) /\ IsPrefix(root, root \o raw.components)
  BY DEF IsPrefix
<1>3. root \o raw.components # Nothing
  BY <1>2
<1> QED
  BY <1>1, <1>2, <1>3 DEF Resolved

-----------------------------------------------------------------------------
(* Configuration.                                                           *)

\* Merging a patch of the configuration once more changes nothing.
THEOREM MergeIsIdempotent ==
  ASSUME NEW base, NEW patch,
         \A s \in DOMAIN patch : patch[s] = [key \in DOMAIN patch[s] |-> patch[s][key]]
  PROVE  MergedConfig(MergedConfig(base, patch), patch) = MergedConfig(base, patch)
<1> DEFINE once  == MergedConfig(base, patch)
           twice == MergedConfig(once, patch)
           D     == DOMAIN base \cup DOMAIN patch
<1>1. DOMAIN once = D /\ once = [s \in D |-> once[s]]
  BY DEF MergedConfig
<1>2. DOMAIN twice = D /\ twice = [s \in D |-> twice[s]]
  <2> HIDE DEF once
  <2> QED
    BY <1>1 DEF MergedConfig
<1>3. ASSUME NEW s \in D PROVE twice[s] = once[s]
  <2>1. CASE s \notin DOMAIN patch
    <3> HIDE DEF once
    <3> QED
      BY <1>1, <2>1 DEF MergedConfig
  <2>2. CASE s \in DOMAIN patch
    <3> DEFINE o == once[s]  q == patch[s]
    <3>1. twice[s] = [key \in DOMAIN o \cup DOMAIN q |->
                        IF key \in DOMAIN q THEN q[key] ELSE o[key]]
      <4> HIDE DEF once
      <4> QED
        BY <1>1, <2>2 DEF MergedConfig
    <3>2. DOMAIN q \subseteq DOMAIN o /\ o = [key \in DOMAIN o |-> o[key]]
          /\ \A key \in DOMAIN q : o[key] = q[key]
      <4>1. CASE s \notin DOMAIN base
        <5>1. o = q
          BY <2>2, <4>1 DEF MergedConfig
        <5> QED
          BY <2>2, <5>1
      <4>2. CASE s \in DOMAIN base
        <5>1. o = [key \in DOMAIN base[s] \cup DOMAIN q |->
                     IF key \in DOMAIN q THEN q[key] ELSE base[s][key]]
          BY <2>2, <4>2 DEF MergedConfig
        <5> HIDE DEF o, q
        <5> QED
          BY <5>1
      <4> QED
        BY <4>1, <4>2
    <3> HIDE DEF o, q
    <3>3. twice[s] = [key \in DOMAIN o |-> o[key]]
      <4> HIDE DEF twice
      <4>1. DOMAIN o \cup DOMAIN q = DOMAIN o
        BY <3>2
      <4>2. \A key \in DOMAIN o : (IF key \in DOMAIN q THEN q[key] ELSE o[key]) = o[key]
        BY <3>2
      <4> QED
        BY <3>1, <4>1, <4>2
    <3> QED
      BY <3>2, <3>3 DEF o
  <2> QED
    BY <2>1, <2>2
<1> HIDE DEF once, twice
<1> QED
  <2>1. twice = once
    BY <1>1, <1>2, <1>3
  <2> QED
    BY <2>1 DEF once, twice

-----------------------------------------------------------------------------
(* Memory.                                                                  *)

\* What a search shows of a file of memory can be given to memory_get, which then
\* reads that file: for every file of the workspace whose path begins without a dot.
THEOREM ShownCanBeRead ==
  ASSUME NEW f \in Listed, f.inside, Undotted[f.names[1]] = f.names[1]
  PROVE  MemoryGet(ShownPath(f)) = {f}
<1>1. /\ f \in RegularFiles /\ f \in Paths /\ Markdown(f) /\ f.names # <<>>
      /\ f.names \in Seq(Names) /\ f = [inside |-> TRUE, names |-> f.names]
  BY FilesAssumption DEF Listed, Paths
<1>2. NormalRel(f.names) = f.names
  BY <1>1 DEF NormalRel
<1>3. ShownPath(f) = f
  BY <1>1, <1>2 DEF ShownPath, InWorkspace
<1>4. IsMemoryPath(f.names) \/ IsExtra(f)
  <2>1. CASE Len(f.names) = 1 /\ f.names[1] \in MainNames
    BY <1>1, <2>1 DEF IsMemoryPath, IsExtra
  <2>2. CASE InWorkspace(<<MemoryDir>>) \in Directories /\ Below(f, InWorkspace(<<MemoryDir>>))
    <3>1. Len(f.names) >= 1 /\ f.names[1] = MemoryDir
      BY <1>1, <2>2 DEF Below, InWorkspace
    <3>2. Len(f.names) # 1
      <4> SUFFICES ASSUME Len(f.names) = 1 PROVE FALSE
        OBVIOUS
      <4>1. f.names = <<MemoryDir>>
        BY <1>1, <3>1
      <4>2. f \in Directories
        BY <1>1, <2>2, <4>1 DEF InWorkspace
      <4> QED
        BY <1>1, <4>2, FilesAssumption
    <3>3. Len(f.names) \in Nat
      BY <1>1
    <3>4. Len(f.names) > 1
      <4> DEFINE n == Len(f.names)
      <4>1. n \in Nat /\ n >= 1 /\ n # 1
        BY <3>1, <3>2, <3>3
      <4> HIDE DEF n
      <4>2. n > 1
        BY <4>1
      <4> QED
        BY <4>2 DEF n
    <3> QED
      BY <1>1, <3>1, <3>4 DEF IsMemoryPath, IsExtra
  <2>3. CASE \E e \in Extras : (e \in Directories /\ Below(f, e)) \/ f = e
    BY <1>1, <2>3 DEF IsExtra
  <2>4. \/ f.inside /\ Len(f.names) = 1 /\ f.names[1] \in MainNames
        \/ InWorkspace(<<MemoryDir>>) \in Directories /\ Below(f, InWorkspace(<<MemoryDir>>))
        \/ \E e \in Extras : (e \in Directories /\ Below(f, e)) \/ f = e
    BY DEF Listed
  <2> QED
    BY <2>1, <2>2, <2>3, <2>4
<1> QED
  BY <1>1, <1>2, <1>3, <1>4 DEF MemoryGet

-----------------------------------------------------------------------------
(* Policies of turns and hours of heartbeats, whatever the configuration says. *)

\* A field that is there has its value.
LEMMA GivenValue ==
  ASSUME NEW v, NEW other
  PROVE  Given({v}, other) = v /\ Given(Missing, other) = other
<1>1. {v} # {} /\ \A x \in {v} : x = v
  OBVIOUS
<1>2. (CHOOSE x \in {v} : TRUE) \in {v}
  BY <1>1
<1> QED
  BY <1>1, <1>2 DEF Given, Missing

-----------------------------------------------------------------------------
(* Policies of turns.                                                       *)

\* A policy of a job that says nothing changes nothing.
THEOREM SilentPolicyKeepsAll ==
  ASSUME NEW base, NEW workspace, NEW p,
         p.readOnly = Missing, p.networkAccess = Missing, p.internet = Missing,
         p.sandboxMode = Missing, p.roots = {}, p.workspace = Missing, p.approval = Missing,
         base = [roots |-> base.roots, readOnly |-> base.readOnly, network |-> base.network]
  PROVE  /\ Applied(base, workspace, Overrides(p)) = [policy |-> base, workspace |-> workspace]
         /\ \A approval : JobApproval(approval, Overrides(p)) = approval
<1> DEFINE o == Overrides(p)
<1>1. o.readOnly = Missing /\ o.network = Missing /\ o.roots = {} /\ o.workspace = Missing
      /\ o.approval = Missing
  BY DEF Overrides, Preferred, Missing
<1>2. \A v : Given(Missing, v) = v
  BY DEF Given
<1> HIDE DEF o
<1>3. Applied(base, workspace, o) =
        [policy |-> [roots |-> base.roots, readOnly |-> base.readOnly, network |-> base.network],
         workspace |-> workspace]
  BY <1>1, <1>2 DEF Applied
<1>4. \A approval : JobApproval(approval, o) = approval
  BY <1>1 DEF JobApproval
<1> QED
  BY <1>3, <1>4 DEF o

\* A job or a task that asks for a read-only sandbox gets one, in either spelling,
\* whatever the configuration allows and whatever roots it names.
THEOREM ReadOnlyJobWritesNothing ==
  ASSUME NEW cfg, NEW ambient, NEW p,
         \/ p.readOnly = {TRUE}
         \/ p.readOnly = Missing /\ p.sandboxMode = {"read-only"}
  PROVE  LET turn == Applied(ConfiguredPolicy(cfg, ambient), ambient, Overrides(p)) IN
         /\ Sandbox(turn.policy).kind = "readOnly"
         /\ Sandbox(turn.policy).writable = {}
         /\ Label(turn.policy) = "read-only"
         /\ Sandbox(TaskPolicy(ConfiguredPolicy(cfg, ambient), p)).kind = "readOnly"
         /\ Sandbox(TaskPolicy(ConfiguredPolicy(cfg, ambient), p)).writable = {}
<1>1. Overrides(p).readOnly = {TRUE}
  BY DEF Overrides, Preferred, Missing
<1>2. Given({TRUE}, ConfiguredPolicy(cfg, ambient).readOnly) = TRUE
  BY GivenValue
<1>3. Applied(ConfiguredPolicy(cfg, ambient), ambient, Overrides(p)).policy.readOnly = TRUE
  BY <1>1, <1>2 DEF Applied
<1>4. TaskPolicy(ConfiguredPolicy(cfg, ambient), p).readOnly = TRUE
  BY <1>1, <1>2 DEF TaskPolicy
<1> QED
  BY <1>3, <1>4 DEF Sandbox, Label

\* A policy means the same to a run of a task as to a cron job without a workspace
\* of its own, and an approval policy given with the run comes before it.
THEOREM TasksReadPoliciesAsJobs ==
  ASSUME NEW base, NEW ambient, NEW p, p.workspace = Missing,
         NEW configured, NEW asked
  PROVE  /\ TaskPolicy(base, p) = Applied(base, ambient, Overrides(p)).policy
         /\ TaskApproval({asked}, p, configured) = asked
         /\ p.approval = Missing =>
              TaskApproval(Missing, p, configured)
                = ApprovalPolicy(Given(configured, "on-request"))
<1>1. Overrides(p).workspace = Missing /\ Overrides(p).approval = p.approval
        /\ Overrides(p).roots = p.roots
  BY DEF Overrides
<1>2. Given({asked}, JobApproval(ApprovalPolicy(Given(configured, "on-request")), Overrides(p)))
        = asked
  BY GivenValue
<1> QED
  BY <1>1, <1>2 DEF TaskPolicy, Applied, TaskApproval, JobApproval, Given, Missing

\* Where a job may write: nowhere but in the roots it names, or else its workspace,
\* or else the roots of the configuration.
THEOREM JobWritesInItsRoots ==
  ASSUME NEW base, NEW ambient, NEW p
  PROVE  Sandbox(Applied(base, ambient, Overrides(p)).policy).writable \subseteq
           (IF p.roots # {} THEN p.roots
            ELSE IF p.workspace # Missing THEN p.workspace ELSE base.roots)
BY DEF Sandbox, Applied, Overrides

\* What the task database says of a run is what Codex was told of its sandbox.
THEOREM LabelMatchesSandbox ==
  ASSUME NEW policy, policy.readOnly \in BOOLEAN, policy.network \in BOOLEAN
  PROVE  /\ Label(policy) = "read-only" <=> Sandbox(policy).kind = "readOnly"
         /\ Label(policy) = "workspace-write" =>
              Sandbox(policy).kind = "workspaceWrite" /\ Sandbox(policy).network
         /\ Label(policy) = "workspace-write-no-network" =>
              Sandbox(policy).kind = "workspaceWrite" /\ ~Sandbox(policy).network
BY DEF Label, Sandbox

-----------------------------------------------------------------------------
(* Hours of heartbeats.                                                     *)

\* A time that can be read is a minute of the day or its end.
LEMMA MinutesRange ==
  ASSUME NEW h \in Nat, NEW m \in Nat, NEW atEnd \in BOOLEAN
  PROVE  /\ Minutes(h, m, atEnd) \in -1..Day
         /\ ~atEnd => Minutes(h, m, atEnd) # Day
BY DEF Minutes, Day

\* The hours from one time to another, and those from there to the first, past
\* midnight, share no minute and leave none out; "24:00" ends at midnight.
THEOREM EveryMinuteOnce ==
  ASSUME NEW start \in 0..Day, NEW end \in 0..Day, start # end, NEW t \in 0..(Day - 1)
  PROVE  WithinActiveHours(start, end, t) <=> ~WithinActiveHours(end, start, t)
BY DEF WithinActiveHours, Day

\* A heartbeat within its hours whose file has something to say runs a turn.
THEOREM HeartbeatRuns ==
  ASSUME NEW start, NEW end, NEW t, NEW lines, NEW reason,
         WithinActiveHours(start, end, t),
         \E i \in DOMAIN lines : lines[i] \notin EmptyLines
  PROVE  Executes(Wake(start, end, t, {lines}, reason))
<1>1. ~EffectivelyEmpty(lines) /\ {lines} # {}
  BY DEF EffectivelyEmpty
<1>2. Wake(start, end, t, {lines}, reason).payload.status = "queued"
  BY <1>1 DEF Wake
<1> QED
  BY <1>2 DEF Executes

\* Heartbeats are never less than half a minute apart.
THEOREM HeartbeatsAreApart ==
  ASSUME NEW configured \in SUBSET Int
  PROVE  IntervalMs(configured) >= 30000
<1>1. CASE configured = {}
  BY <1>1 DEF IntervalMs
<1>2. CASE configured # {}
  <2>1. (CHOOSE m \in configured : TRUE) \in Int
    BY <1>2
  <2> QED
    BY <1>2, <2>1 DEF IntervalMs
<1> QED
  BY <1>1, <1>2

-----------------------------------------------------------------------------
(* Sources of plugins, and the plugins they turn out to be.                 *)

\* The id of a manifest is normal, and its own normal form.
LEMMA IdIsNormal ==
  ASSUME NEW m, NEW raw \in Parts \cup {Absent}, NEW package, NEW kind,
         Described(m, raw, package, kind) # Absent
  PROVE  /\ Described(m, raw, package, kind).id = Normal[raw]
         /\ Normal[raw] \in Words /\ Normal[Normal[raw]] = Normal[raw]
<1>1. Normal[raw] # Absent
  BY DEF Described
<1>2. Normal[raw] \in Words
  BY <1>1, SourcesAssumption
<1>3. raw \in Parts
  BY <1>1, SourcesAssumption
<1> QED
  BY <1>1, <1>2, <1>3, SourcesAssumption DEF Described

\* A directory that is copied to, or linked from, one that has the id of its
\* plugin for a name is the same plugin to every later reading of its manifest
\* (load_plugin_manifest), though a plugin may owe its id to the directory.
THEOREM CopyIsSamePlugin ==
  ASSUME NEW dir \in PluginDirs, Manifest(dir) # Absent
  PROVE  /\ Manifest(Named(dir, Manifest(dir).id)) = Manifest(dir)
         /\ Normal[Manifest(dir).id] = Manifest(dir).id
<1> DEFINE copy == Named(dir, Manifest(dir).id)
           own  == IF dir.openclaw # Absent THEN dir.openclaw.id
                   ELSE IF dir.cowork # Absent
                     THEN OrElse(dir.cowork.id, OrElse(dir.cowork.name, dir.name))
                   ELSE dir.name
           file == IF dir.openclaw # Absent THEN dir.openclaw
                   ELSE IF dir.cowork # Absent THEN dir.cowork ELSE NoFields
           kind == IF dir.openclaw # Absent THEN "OpenClaw" ELSE "Cowork"
<1>1. /\ copy.openclaw = dir.openclaw /\ copy.cowork = dir.cowork
      /\ copy.package = dir.package /\ copy.looks = dir.looks
      /\ copy.name = Manifest(dir).id
  BY DEF Named, PluginDirs
<1>2. Manifest(dir) = Described(file, own, PackageOf(dir), kind)
  BY DEF Manifest
<1>3. own \in Parts \cup {Absent}
  <2>1. CASE dir.openclaw # Absent
    <3>1. dir.openclaw \in Fields
      BY <2>1 DEF Manifest, PluginDirs
    <3> QED
      BY <2>1, <3>1 DEF Fields, Field, Parts
  <2>2. CASE dir.openclaw = Absent /\ dir.cowork # Absent
    <3>1. dir.cowork \in Fields
      BY <2>2 DEF Manifest, PluginDirs
    <3> QED
      BY <2>2, <3>1 DEF Fields, Field, Parts, OrElse, PluginDirs
  <2>3. CASE dir.openclaw = Absent /\ dir.cowork = Absent
    BY <2>3 DEF PluginDirs
  <2> QED
    BY <2>1, <2>2, <2>3
<1>4. /\ Manifest(dir).id = Normal[own]
      /\ Normal[own] \in Words /\ Normal[Normal[own]] = Normal[own]
  BY <1>2, <1>3, IdIsNormal
<1>5. Described(file, Normal[own], PackageOf(dir), kind)
    = Described(file, own, PackageOf(dir), kind)
  BY <1>4, SourcesAssumption DEF Described
<1>6. Manifest(copy) \in {Described(file, own, PackageOf(dir), kind),
                          Described(file, Normal[own], PackageOf(dir), kind)}
  <2>1. PackageOf(copy) = PackageOf(dir)
    BY <1>1 DEF PackageOf
  <2>2. CASE dir.openclaw # Absent
    BY <1>1, <2>1, <2>2 DEF Manifest
  <2>3. CASE dir.openclaw = Absent /\ dir.cowork # Absent
    <3>1. OrElse(dir.cowork.id, OrElse(dir.cowork.name, copy.name)) \in {own, Normal[own]}
      BY <1>1, <1>4, <2>3 DEF OrElse
    <3> QED
      BY <1>1, <2>1, <2>3, <3>1 DEF Manifest
  <2>4. CASE dir.openclaw = Absent /\ dir.cowork = Absent
    BY <1>1, <1>4, <2>1, <2>4 DEF Manifest
  <2> QED
    BY <2>2, <2>3, <2>4
<1> QED
  BY <1>2, <1>4, <1>5, <1>6

-----------------------------------------------------------------------------
\* What an archive unpacks to is a directory of a plugin, named as one of its
\* entries begins.
LEMMA UnpackedIsDir ==
  ASSUME NEW archive \in Archives \cup {Absent}, Unpacked(archive) # Absent
  PROVE  Unpacked(archive) \in PluginDirs
<1>1. archive \in Archives /\ Extracts(archive) /\ PackedRoot(archive) # Absent
  BY DEF Unpacked
<1>2. TopDirs(archive) \subseteq Parts
  <2> SUFFICES ASSUME NEW e \in archive.entries
               PROVE  Cleaned(e.path)[1] \in Parts
    BY DEF TopDirs
  <2> DEFINE rest == IF e.path # <<>> /\ e.path[1] = Dot THEN Tail(e.path) ELSE e.path
  <2>1. e.path \in Seq(Parts) /\ Cleaned(e.path) # Absent
    BY <1>1 DEF Archives, Extracts
  <2>2. rest \in Seq(Parts)
    BY <2>1
  <2>3. Cleaned(e.path) = rest /\ rest # <<>>
    BY <2>1 DEF Cleaned
  <2> QED
    BY <2>2, <2>3
<1>3. PackedRoot(archive) \in Parts
  <2>1. CASE "package" \in TopDirs(archive)
    BY <1>2, <2>1 DEF PackedRoot
  <2>2. CASE "package" \notin TopDirs(archive)
    <3>1. \E d \in TopDirs(archive) : TopDirs(archive) = {d}
      BY <1>1, <2>2 DEF PackedRoot
    <3>2. (CHOOSE d \in TopDirs(archive) : TRUE) \in TopDirs(archive)
      BY <3>1
    <3> QED
      BY <1>2, <2>2, <3>1, <3>2 DEF PackedRoot
  <2> QED
    BY <2>1, <2>2
<1> QED
  BY <1>1, <1>3 DEF Unpacked, Named, Archives, PluginDirs

\* The same for the directory of a clone.
LEMMA CleanedIsPath ==
  ASSUME NEW path \in Seq(Parts), Cleaned(path) # Absent
  PROVE  Cleaned(path) \in Seq(Parts) /\ Cleaned(path) # <<>>
<1> DEFINE rest == IF path # <<>> /\ path[1] = Dot THEN Tail(path) ELSE path
<1>1. rest \in Seq(Parts)
  OBVIOUS
<1> QED
  BY <1>1 DEF Cleaned

LEMMA GitRootIsDir ==
  ASSUME NEW repo \in Repos \cup {Absent}, NEW folder \in Seq(Parts) \cup {Absent},
         GitRoot(repo, folder) # Absent
  PROVE  GitRoot(repo, folder) \in PluginDirs
<1> DEFINE path == GitFolder(repo, folder)
<1>1. repo # Absent /\ path # Absent
  BY DEF GitRoot
<1>2. PICK ps \in SUBSET Seq(Parts) : <<>> \in ps /\ repo \in [ps -> PluginDirs]
  BY <1>1 DEF Repos
<1>3. path \in ps
  BY <1>1, <1>2 DEF GitFolder
<1>4. path \in Seq(Parts) /\ repo[path] \in PluginDirs
  BY <1>2, <1>3
<1>5. (IF path = <<>> THEN "repo" ELSE path[Len(path)]) \in Parts
  BY <1>4, SourcesAssumption DEF Parts
<1> QED
  BY <1>1, <1>4, <1>5 DEF GitRoot, Named, PluginDirs

\* Whatever a source leads to, it is a directory of a plugin.
Sources ==
  [from : {"path", "npm"}, what : SourceTexts]
    \cup [from : {"git"}, what : [address : Addresses, folder : Seq(Parts) \cup {Absent}]]
LEMMA PreparedIsDir ==
  ASSUME NEW world \in Worlds, NEW source \in Sources, Prepared(world, source) # Absent
  PROVE  LET p == Prepared(world, source) IN
         /\ p.root \in PluginDirs /\ Manifest(p.root) # Absent
         /\ p.plugin = Manifest(p.root)
         /\ p.link # Absent => ~p.temporary
<1> DEFINE p == Prepared(world, source)
<1>1. ASSUME NEW root, NEW temporary, NEW link, NEW spec,
             p = Taken(root, temporary, link, spec)
      PROVE  /\ root # Absent /\ p.root = root /\ Manifest(root) # Absent
             /\ p.plugin = Manifest(root) /\ p.link = link /\ p.temporary = temporary
  BY <1>1 DEF Taken
<1>2. CASE source.from = "path"
  <2> DEFINE found == world.disk[source.what]
  <2>1. source.what \in SourceTexts /\ found # Absent
    BY <1>2 DEF Sources, Prepared
  <2>2. found \in [type : {"dir"}, dir : PluginDirs]
               \cup [type : {"archive"}, archive : Archives]
    BY <2>1 DEF Worlds
  <2>3. CASE found.type = "dir"
    <3>1. found.dir \in PluginDirs
      BY <2>2, <2>3
    <3>2. Prepared(world, source) = Taken(found.dir, FALSE, source.what, Absent)
      BY <1>2, <2>1, <2>3 DEF Prepared
    <3> QED
      BY <1>1, <3>1, <3>2
  <2>4. CASE found.type # "dir"
    <3>1. found.archive \in Archives
      BY <2>2, <2>4
    <3>2. Prepared(world, source) = Taken(Unpacked(found.archive), TRUE, Absent, Absent)
      BY <1>2, <2>1, <2>4 DEF Prepared
    <3>3. Unpacked(found.archive) # Absent
      BY <1>1, <3>2
    <3>4. Unpacked(found.archive) \in PluginDirs
      BY <3>1, <3>3, UnpackedIsDir
    <3> QED
      BY <1>1, <3>2, <3>4
  <2> QED
    BY <2>3, <2>4
<1>3. CASE source.from = "npm"
  <2> DEFINE archive == world.registry[source.what]
  <2>1. archive \in Archives \cup {Absent}
    BY <1>3 DEF Sources, Worlds
  <2>2. Prepared(world, source) = Taken(Unpacked(archive), TRUE, Absent, source.what)
    BY <1>3 DEF Prepared
  <2>3. Unpacked(archive) # Absent
    BY <1>1, <2>2
  <2>4. Unpacked(archive) \in PluginDirs
    BY <2>1, <2>3, UnpackedIsDir
  <2> QED
    BY <1>1, <2>2, <2>4
<1>4. CASE source.from = "git"
  <2> DEFINE repo == world.hosts[source.what.address]
  <2>1. repo \in Repos \cup {Absent} /\ source.what.folder \in Seq(Parts) \cup {Absent}
    BY <1>4 DEF Sources, Worlds
  <2> DEFINE root == GitRoot(repo, source.what.folder)
  <2>2. Prepared(world, source) = Taken(root, TRUE, Absent, GitSpec(source.what))
    BY <1>4 DEF Prepared
  <2>3. root # Absent
    BY <1>1, <2>2
  <2>4. root \in PluginDirs
    BY <2>1, <2>3, GitRootIsDir
  <2> QED
    BY <1>1, <2>2, <2>4
<1> QED
  BY <1>2, <1>3, <1>4 DEF Sources

\* A dry run of an update (probe_npm_spec) that finds in the registry what was
\* installed from there reports the version that is installed, for the plugin
\* that is installed: nothing looks new that is not.
THEOREM ProbeFindsInstalled ==
  ASSUME NEW world \in Worlds, NEW spec \in SourceTexts,
         Prepared(world, [from |-> "npm", what |-> spec]) # Absent
  PROVE  LET p == Prepared(world, [from |-> "npm", what |-> spec]) IN
         Probe(world, spec, p.plugin.id) = [version |-> VersionOf(Copied(p))]
<1> DEFINE source == [from |-> "npm", what |-> spec]
           p      == Prepared(world, source)
<1>1. source \in Sources
  BY DEF Sources
<1>2. /\ p.root \in PluginDirs /\ Manifest(p.root) # Absent
      /\ p.plugin = Manifest(p.root)
  BY <1>1, PreparedIsDir
<1>3. Manifest(Copied(p)) = p.plugin /\ Normal[p.plugin.id] = p.plugin.id
  BY <1>2, CopyIsSamePlugin DEF Copied
<1> QED
  BY <1>2, <1>3 DEF Probe, VersionOf

-----------------------------------------------------------------------------
(* Texts of sources from git.                                               *)

Tight == {path \in Seq(Parts \ {NoWord}) : path # <<>>}

LEMMA CleanIsTight ==
  ASSUME NEW path \in RawPaths, Clean(path) # Absent
  PROVE  Clean(path) \in Tight
<1> DEFINE n     == Len(path)
           full  == {i \in DOMAIN path : path[i] # NoWord}
           first == CHOOSE i \in full : \A j \in full : i <= j
           last  == CHOOSE i \in full : \A j \in full : j <= i
           a     == IF path[1] # NoWord THEN 1 ELSE 2
           b     == IF path[n] # NoWord THEN n ELSE n - 1
<1>1. /\ path \in Seq(Parts) /\ n \in Nat /\ DOMAIN path = 1..n
      /\ \A i \in 2..(n - 1) : path[i] # NoWord
  BY DEF RawPaths
<1>2. /\ path # Absent /\ full # {} /\ Clean(path) = SubSeq(path, first, last)
  BY <1>1 DEF Clean
<1>3. a \in full /\ \A j \in full : a <= j
  <2>1. PICK k \in 1..n : path[k] # NoWord
    BY <1>1, <1>2
  <2>2. a \in 1..n /\ path[a] # NoWord
    BY <1>1, <2>1
  <2> QED
    BY <1>1, <2>2
<1>4. b \in full /\ \A j \in full : j <= b
  <2>1. PICK k \in 1..n : path[k] # NoWord
    BY <1>1, <1>2
  <2> HIDE DEF n
  <2>2. b \in 1..n /\ path[b] # NoWord
    BY <1>1, <2>1
  <2>3. \A j \in 1..n : path[j] # NoWord => j <= b
    BY <1>1
  <2> QED
    BY <1>1, <2>2, <2>3
<1>5. first \in full /\ last \in full /\ first <= last
  BY <1>3, <1>4
<1>6. first = a /\ last = b
  <2>1. \A j \in full : first <= j
    BY <1>3
  <2>2. \A j \in full : j <= last
    BY <1>4
  <2> QED
    BY <1>1, <1>3, <1>4, <1>5, <2>1, <2>2
<1>7. /\ a \in 1..n /\ b \in 1..n /\ a <= b /\ a <= 2 /\ b >= n - 1
      /\ path[a] # NoWord /\ path[b] # NoWord
  BY <1>1, <1>3, <1>4
<1>8. SubSeq(path, a, b) \in Seq(Parts \ {NoWord}) /\ SubSeq(path, a, b) # <<>>
  <2> HIDE DEF a, b, n
  <2>1. ASSUME NEW i \in a..b PROVE path[i] \in Parts \ {NoWord}
    <3>1. i \in 1..n /\ path[i] \in Parts
      BY <1>1, <1>7
    <3>2. i = a \/ i = b \/ i \in 2..(n - 1)
      BY <1>1, <1>7, <3>1
    <3> QED
      BY <1>1, <1>7, <3>1, <3>2
  <2>2. /\ SubSeq(path, a, b) \in Seq(Parts \ {NoWord})
        /\ Len(SubSeq(path, a, b)) = b - a + 1
    <3>1. a \in Int /\ b \in Int /\ a <= b
      BY <1>1, <1>7
    <3> QED
      BY <2>1, <3>1, SubSeqProperties
  <2> QED
    BY <1>1, <1>7, <2>2, EmptySeq
<1> QED
  BY <1>2, <1>6, <1>8 DEF Tight

LEMMA TightIsClean ==
  ASSUME NEW path \in Tight
  PROVE  path \in Seq(Parts) /\ path # Absent /\ Clean(path) = path
<1> DEFINE n     == Len(path)
           full  == {i \in DOMAIN path : path[i] # NoWord}
           first == CHOOSE i \in full : \A j \in full : i <= j
           last  == CHOOSE i \in full : \A j \in full : j <= i
<1>1. /\ path \in Seq(Parts) /\ path # <<>> /\ n \in Nat \ {0} /\ DOMAIN path = 1..n
      /\ \A i \in 1..n : path[i] # NoWord
  BY DEF Tight
<1>2. path # Absent
  BY <1>1, SourcesAssumption
<1>3. full = 1..n
  BY <1>1
<1>4. 1 \in full /\ n \in full /\ \A j \in full : 1 <= j /\ j <= n
  BY <1>1, <1>3
<1>5. first \in full /\ first <= 1 /\ last \in full /\ n <= last
  BY <1>4
<1>6. first = 1 /\ last = n
  BY <1>1, <1>3, <1>5
<1>7. SubSeq(path, 1, n) = path
  BY <1>1, SubSeqFull
<1> QED
  BY <1>1, <1>2, <1>3, <1>4, <1>6, <1>7 DEF Clean

\* The spec that is recorded for a plugin from git names the source it was
\* fetched from, whether the user gave an address or an owner's repository, with
\* the folder in the path, after a '#' or in both.
THEOREM GitSpecIsReadBack ==
  ASSUME NEW text \in SourceTexts, GitSource(text) # Absent
  PROVE  GitSource(GitSpec(GitSource(text))) = GitSource(text)
<1> DEFINE source == GitSource(text)
<1>1. Clean(text.hint) \in Tight \cup {Absent}
  BY CleanIsTight DEF SourceTexts, Clean
<1>2. source.address \in Addresses /\ source.folder \in Tight \cup {Absent}
  <2>1. CASE text.place \in Addresses
    BY <1>1, <2>1 DEF GitSource
  <2>2. CASE text.place \notin Addresses
    <3> DEFINE path == Clean(text.place)
    <3>1. text.place \in RawPaths /\ IsShorthand(path)
      BY <2>2 DEF GitSource, SourceTexts
    <3>2. path \in Tight
      BY <3>1, CleanIsTight DEF IsShorthand
    <3>3. Rest(path) \in Tight \cup {Absent}
      <4>1. CASE Len(path) > 2
        <5> HIDE DEF path
        <5>1. Len(path) \in Int /\ \A i \in 3..Len(path) : path[i] \in Parts \ {NoWord}
          BY <3>2 DEF Tight
        <5>2. SubSeq(path, 3, Len(path)) \in Seq(Parts \ {NoWord})
              /\ Len(SubSeq(path, 3, Len(path))) = Len(path) - 2
          BY <4>1, <5>1, SubSeqProperties
        <5>3. Len(SubSeq(path, 3, Len(path))) # 0
          BY <4>1, <5>1, <5>2
        <5>4. SubSeq(path, 3, Len(path)) # <<>>
          BY <5>3, EmptySeq
        <5> QED
          BY <4>1, <5>2, <5>4 DEF Rest, Tight
      <4> QED
        BY <4>1 DEF Rest
    <3>4. Joined(Rest(path), Clean(text.hint)) \in Tight \cup {Absent}
      BY <1>1, <3>3 DEF Joined, Tight
    <3>5. Github[<<path[1], path[2]>>] \in Addresses
      BY <3>1, SourcesAssumption DEF IsShorthand
    <3> QED
      BY <2>2, <3>1, <3>4, <3>5 DEF GitSource
  <2> QED
    BY <2>1, <2>2
<1>3. Clean(source.folder) = source.folder
  BY <1>2, TightIsClean DEF Clean
<1>4. source = [address |-> source.address, folder |-> source.folder]
  BY DEF GitSource
<1> QED
  BY <1>2, <1>3, <1>4 DEF GitSource, GitSpec

-----------------------------------------------------------------------------
(***************************************************************************)
(* Where answers go.  The settings of a job have the types they are added   *)
(* with, whatever is patched, loaded and merged; a setting that is missing  *)
(* is None, and no other is.                                                *)

\* A text tidied, or None if nothing is left.
Neat(t, tidy) == IF t = None \/ tidy[t] = Blank THEN None ELSE tidy[t]
Open == Texts \cup {None}

LEMMA NoneIsApart ==
  /\ \A k \in SettingFields : None \notin FieldValues(k)
  /\ None # "announce" /\ None # "none" /\ None # "webhook" /\ None # "deliver"
  /\ None # "main" /\ None # "isolated"
<1>1. None \notin STRING /\ None \notin BOOLEAN /\ None \notin Texts
  BY NoneAssumption, TextsAssumption
<1>2. {"announce", "deliver", "webhook", "none", "main", "isolated"} \subseteq STRING
  BY NoneAssumption
<1>3. ASSUME NEW k \in SettingFields PROVE None \notin FieldValues(k)
  BY <1>1 DEF FieldValues
<1> QED
  BY <1>1, <1>2, <1>3

LEMMA ModesAreStrings ==
  FieldValues("mode") = STRING /\ FieldValues("channel") = Texts /\ FieldValues("to") = Texts
    /\ FieldValues("provider") = Texts /\ FieldValues("best") = BOOLEAN
    /\ FieldValues("deliver") = BOOLEAN
    /\ {"announce", "none", "webhook"} \subseteq FieldValues("mode")
BY NoneAssumption DEF FieldValues

LEMMA SettingsAreNotNone ==
  ASSUME NEW m, IsSettings(m)
  PROVE  m # None
<1>1. \A k \in SettingFields : FieldValues(k) \subseteq STRING \cup BOOLEAN
  BY NoneAssumption DEF FieldValues
<1>2. m \in [DOMAIN m -> STRING \cup BOOLEAN]
  BY <1>1 DEF IsSettings
<1> QED
  BY <1>2, NoneAssumption DEF IsSettings

LEMMA GetType ==
  ASSUME NEW m, IsSettings(m), NEW k \in SettingFields
  PROVE  /\ Get(m, k) \in FieldValues(k) \cup {None}
         /\ (k \in DOMAIN m) <=> (Get(m, k) # None)
         /\ k \in DOMAIN m => m[k] = Get(m, k) /\ m[k] \in FieldValues(k)
BY NoneIsApart DEF IsSettings, Get

LEMMA SettingsEqual ==
  ASSUME NEW m, IsSettings(m), NEW n, IsSettings(n),
         \A k \in SettingFields : Get(m, k) = Get(n, k)
  PROVE  m = n
<1>1. DOMAIN m = DOMAIN n
  <2>1. \A k \in SettingFields : k \in DOMAIN m <=> k \in DOMAIN n
    BY GetType
  <2> QED
    BY <2>1 DEF IsSettings
<1>2. \A k \in DOMAIN m : m[k] = n[k]
  BY <1>1, GetType DEF IsSettings
<1> QED
  BY <1>1, <1>2 DEF IsSettings

LEMMA GetWith ==
  ASSUME NEW m, IsSettings(m), NEW k \in SettingFields, NEW v \in FieldValues(k)
  PROVE  /\ IsSettings(With(m, k, v)) /\ Get(With(m, k, v), k) = v
         /\ \A x : x # k => Get(With(m, k, v), x) = Get(m, x)
BY DEF IsSettings, With, Get

LEMMA GetWithout ==
  ASSUME NEW m, IsSettings(m), NEW keys
  PROVE  /\ IsSettings(Without(m, keys))
         /\ \A x : Get(Without(m, keys), x) = IF x \in keys THEN None ELSE Get(m, x)
BY DEF IsSettings, Without, Restrict, Get

LEMMA NeatType ==
  ASSUME NEW t \in Open, NEW tidy \in {Lower, Trim}
  PROVE  Neat(t, tidy) \in Open /\ Neat(Neat(t, tidy), tidy) = Neat(t, tidy)
BY TextsAssumption, TidyAssumption DEF Neat, Open

LEMMA GetTidied ==
  ASSUME NEW m, IsSettings(m), NEW k \in {"channel", "to"}, NEW tidy \in {Lower, Trim}
  PROVE  /\ IsSettings(Tidied(m, k, tidy))
         /\ Get(Tidied(m, k, tidy), k) = Neat(Get(m, k), tidy)
         /\ \A x : x # k => Get(Tidied(m, k, tidy), x) = Get(m, x)
<1>1. k \in SettingFields /\ FieldValues(k) = Texts /\ tidy \in [Texts -> Texts]
  BY TextsAssumption DEF SettingFields, FieldValues
<1>2. CASE k \notin DOMAIN m
  BY <1>2 DEF Tidied, Get, Neat
<1>3. CASE k \in DOMAIN m
  <2>1. Get(m, k) = m[k] /\ m[k] \in Texts /\ m[k] # None
    BY <1>1, <1>3, GetType, TextsAssumption
  <2>2. tidy[m[k]] \in Texts
    BY <1>1, <2>1
  <2>3. CASE tidy[m[k]] = Blank
    BY <1>3, <2>1, <2>3, GetWithout DEF Tidied, Neat
  <2>4. CASE tidy[m[k]] # Blank
    BY <1>1, <1>3, <2>1, <2>2, <2>4, GetWith DEF Tidied, Neat
  <2> QED
    BY <2>3, <2>4
<1> QED
  BY <1>2, <1>3

LEMMA GetBothTidied ==
  ASSUME NEW m, IsSettings(m)
  PROVE  LET t == Tidied(Tidied(m, "channel", Lower), "to", Trim) IN
         /\ IsSettings(t)
         /\ Get(t, "channel") = Neat(Get(m, "channel"), Lower)
         /\ Get(t, "to") = Neat(Get(m, "to"), Trim)
         /\ \A x : x \notin {"channel", "to"} => Get(t, x) = Get(m, x)
<1> DEFINE c == Tidied(m, "channel", Lower)
<1>1. /\ IsSettings(c) /\ Get(c, "channel") = Neat(Get(m, "channel"), Lower)
      /\ \A x : x # "channel" => Get(c, x) = Get(m, x)
  BY GetTidied
<1> HIDE DEF c
<1>2. /\ IsSettings(Tidied(c, "to", Trim)) /\ Get(Tidied(c, "to", Trim), "to") = Neat(Get(c, "to"), Trim)
      /\ \A x : x # "to" => Get(Tidied(c, "to", Trim), x) = Get(c, x)
  BY <1>1, GetTidied
<1>3. /\ IsSettings(Tidied(c, "to", Trim))
      /\ Get(Tidied(c, "to", Trim), "channel") = Neat(Get(m, "channel"), Lower)
      /\ Get(Tidied(c, "to", Trim), "to") = Neat(Get(m, "to"), Trim)
      /\ \A x : x \notin {"channel", "to"} => Get(Tidied(c, "to", Trim), x) = Get(m, x)
  BY <1>1, <1>2
<1> QED
  BY <1>3 DEF c

(***************************************************************************)
(* What each operator makes of the settings.                                *)

IsNormal(p) == /\ IsSettings(p) /\ Get(p, "provider") = None
               /\ Get(p, "channel") = Neat(Get(p, "channel"), Lower)

LEMMA NeatNone == \A tidy : Neat(None, tidy) = None
BY DEF Neat

LEMMA TextGets ==
  ASSUME NEW m, IsSettings(m)
  PROVE  Get(m, "channel") \in Open /\ Get(m, "to") \in Open /\ Get(m, "provider") \in Open
BY GetType, ModesAreStrings DEF SettingFields, Open

LEMMA GetNormalPayload ==
  ASSUME NEW p, IsSettings(p)
  PROVE  /\ IsSettings(NormalPayload(p)) /\ IsNormal(NormalPayload(p))
         /\ \A k : k \notin {"channel", "provider"} => Get(NormalPayload(p), k) = Get(p, k)
<1> DEFINE c == Tidied(p, "channel", Lower)
           w == With(c, "channel", Lower[c["provider"]])
           v == IF Lower[c["provider"]] = Blank THEN c ELSE w
<1>1. /\ IsSettings(c) /\ Get(c, "channel") = Neat(Get(p, "channel"), Lower)
      /\ \A x : x # "channel" => Get(c, x) = Get(p, x)
  BY GetTidied
<1>2. NormalPayload(p) = IF "provider" \notin DOMAIN c THEN c ELSE Without(v, {"provider"})
  BY DEF NormalPayload
<1> HIDE DEF c
<1>3. Neat(Get(c, "channel"), Lower) = Get(c, "channel")
  BY <1>1, TextGets, NeatType
<1>4. CASE "provider" \notin DOMAIN c
  <2>1. Get(c, "provider") = None
    BY <1>4 DEF Get
  <2> QED
    BY <1>1, <1>2, <1>3, <1>4, <2>1 DEF IsNormal
<1>5. CASE "provider" \in DOMAIN c
  <2>1. c["provider"] \in Texts /\ Lower[c["provider"]] \in Texts
    BY <1>1, <1>5, GetType, ModesAreStrings, TextsAssumption DEF SettingFields
  <2>2. CASE Lower[c["provider"]] = Blank
    <3>1. /\ IsSettings(Without(c, {"provider"})) /\ Get(Without(c, {"provider"}), "provider") = None
          /\ \A x : x # "provider" => Get(Without(c, {"provider"}), x) = Get(c, x)
      BY <1>1, GetWithout
    <3>2. NormalPayload(p) = Without(c, {"provider"})
      BY <1>2, <1>5, <2>2
    <3> QED
      BY <1>1, <1>3, <3>1, <3>2 DEF IsNormal
  <2>3. CASE Lower[c["provider"]] # Blank
    <3>1. /\ IsSettings(w) /\ Get(w, "channel") = Lower[c["provider"]]
          /\ \A x : x # "channel" => Get(w, x) = Get(c, x)
      <4>1. Lower[c["provider"]] \in FieldValues("channel") /\ "channel" \in SettingFields
        BY <2>1, ModesAreStrings DEF SettingFields
      <4> QED
        BY <1>1, <4>1, GetWith
    <3>2. Neat(Lower[c["provider"]], Lower) = Lower[c["provider"]]
      BY <2>1, <2>3, TidyAssumption, TextsAssumption DEF Neat
    <3>3. NormalPayload(p) = Without(w, {"provider"})
      BY <1>2, <1>5, <2>3
    <3> HIDE DEF w
    <3>4. /\ IsSettings(Without(w, {"provider"})) /\ Get(Without(w, {"provider"}), "provider") = None
          /\ \A x : x # "provider" => Get(Without(w, {"provider"}), x) = Get(w, x)
      BY <3>1, GetWithout
    <3> QED
      BY <1>1, <3>1, <3>2, <3>3, <3>4 DEF IsNormal
  <2> QED
    BY <2>2, <2>3
<1> QED
  BY <1>4, <1>5

LEMMA NormalPayloadAgain ==
  ASSUME NEW p, IsNormal(p)
  PROVE  NormalPayload(p) = p
<1> DEFINE c == Tidied(p, "channel", Lower)
<1>1. /\ IsSettings(c) /\ Get(c, "channel") = Get(p, "channel")
      /\ \A x : x # "channel" => Get(c, x) = Get(p, x)
  BY GetTidied DEF IsNormal
<1>2. "provider" \notin DOMAIN c
  BY <1>1, GetType DEF IsNormal, SettingFields
<1>3. NormalPayload(p) = c
  BY <1>2 DEF NormalPayload
<1>4. c = p
  <2> HIDE DEF c
  <2> QED
    BY <1>1, SettingsEqual DEF IsNormal
<1> QED
  BY <1>3, <1>4

LEMMA GetNormalDelivery ==
  ASSUME NEW d, IsSettings(d)
  PROVE  LET n == NormalDelivery(d)
             to == Neat(Get(d, "to"), Trim)
         IN /\ IsSettings(n) /\ Get(n, "channel") = Neat(Get(d, "channel"), Lower)
            /\ Get(n, "mode") = NormalMode(Get(d, "mode"))
            /\ Get(n, "to") = IF Get(n, "mode") = "webhook" /\ to # None /\ Url[to] # None
                                THEN Url[to] ELSE to
            /\ \A k : k \notin {"mode", "channel", "to"} => Get(n, k) = Get(d, k)
<1> DEFINE m == IF "mode" \in DOMAIN d THEN With(d, "mode", NormalMode(d["mode"])) ELSE d
           t == Tidied(Tidied(m, "channel", Lower), "to", Trim)
           to == Neat(Get(d, "to"), Trim)
<1>1. /\ IsSettings(m) /\ Get(m, "mode") = NormalMode(Get(d, "mode"))
      /\ \A x : x # "mode" => Get(m, x) = Get(d, x)
  <2>1. CASE "mode" \in DOMAIN d
    <3>1. d["mode"] = Get(d, "mode") /\ NormalMode(d["mode"]) \in FieldValues("mode")
      BY <2>1, GetType, ModesAreStrings DEF NormalMode, SettingFields
    <3> QED
      BY <2>1, <3>1, GetWith DEF SettingFields
  <2>2. CASE "mode" \notin DOMAIN d
    BY <2>2, NoneIsApart DEF Get, NormalMode
  <2> QED
    BY <2>1, <2>2
<1> HIDE DEF m
<1>2. /\ IsSettings(t) /\ Get(t, "channel") = Neat(Get(m, "channel"), Lower)
      /\ Get(t, "to") = Neat(Get(m, "to"), Trim)
      /\ \A x : x \notin {"channel", "to"} => Get(t, x) = Get(m, x)
  BY <1>1, GetBothTidied
<1>3. NormalDelivery(d) = IF Get(t, "mode") = "webhook" /\ "to" \in DOMAIN t /\ Url[t["to"]] # None
                            THEN With(t, "to", Url[t["to"]]) ELSE t
  BY DEF NormalDelivery, m
<1> HIDE DEF t
<1>4. /\ Get(t, "mode") = NormalMode(Get(d, "mode")) /\ Get(t, "to") = to
      /\ Get(t, "channel") = Neat(Get(d, "channel"), Lower)
      /\ \A k : k \notin {"mode", "channel", "to"} => Get(t, k) = Get(d, k)
      /\ ("to" \in DOMAIN t) <=> (to # None)
      /\ "to" \in DOMAIN t => t["to"] = to /\ to \in Texts
  BY <1>1, <1>2, GetType, ModesAreStrings DEF SettingFields
<1> HIDE DEF to
<1>5. CASE Get(t, "mode") = "webhook" /\ to # None /\ Url[to] # None
  <2>1. Url[to] \in Texts
    BY <1>4, <1>5, TextsAssumption
  <2>2. /\ IsSettings(With(t, "to", Url[to])) /\ Get(With(t, "to", Url[to]), "to") = Url[to]
        /\ \A x : x # "to" => Get(With(t, "to", Url[to]), x) = Get(t, x)
    <3>1. Url[to] \in FieldValues("to") /\ "to" \in SettingFields
      BY <2>1, ModesAreStrings DEF SettingFields
    <3> QED
      BY <1>2, <3>1, GetWith
  <2>3. NormalDelivery(d) = With(t, "to", Url[to])
    BY <1>3, <1>4, <1>5
  <2> QED
    BY <1>4, <1>5, <2>2, <2>3 DEF to
<1>6. CASE ~(Get(t, "mode") = "webhook" /\ to # None /\ Url[to] # None)
  <2>1. NormalDelivery(d) = t
    BY <1>3, <1>4, <1>6
  <2> QED
    BY <1>2, <1>4, <1>6, <2>1 DEF to
<1> QED
  BY <1>5, <1>6

LEMMA NormalDeliveryAgain ==
  ASSUME NEW d, IsSettings(d)
  PROVE  NormalDelivery(NormalDelivery(d)) = NormalDelivery(d)
<1> DEFINE n == NormalDelivery(d)
           o == NormalDelivery(n)
           to == Neat(Get(d, "to"), Trim)
<1>1. /\ IsSettings(n) /\ Get(n, "channel") = Neat(Get(d, "channel"), Lower)
      /\ Get(n, "mode") = NormalMode(Get(d, "mode"))
      /\ Get(n, "to") = IF Get(n, "mode") = "webhook" /\ to # None /\ Url[to] # None
                          THEN Url[to] ELSE to
  BY GetNormalDelivery
<1>2. to \in Open /\ Neat(to, Trim) = to /\ (to # None => to \in Texts)
  BY TextGets, NeatType DEF Open
<1>3. Neat(Get(n, "channel"), Lower) = Get(n, "channel")
  BY <1>1, TextGets, NeatType
<1>4. NormalMode(Get(n, "mode")) = Get(n, "mode")
  BY <1>1 DEF NormalMode
<1> HIDE DEF n, to
<1>5. LET again == Neat(Get(n, "to"), Trim) IN
      /\ IsSettings(o) /\ Get(o, "channel") = Neat(Get(n, "channel"), Lower)
      /\ Get(o, "mode") = NormalMode(Get(n, "mode"))
      /\ Get(o, "to") = IF Get(o, "mode") = "webhook" /\ again # None /\ Url[again] # None
                          THEN Url[again] ELSE again
      /\ \A k : k \notin {"mode", "channel", "to"} => Get(o, k) = Get(n, k)
  BY <1>1, GetNormalDelivery
<1>6. Get(o, "to") = Get(n, "to")
  <2>1. CASE Get(n, "mode") = "webhook" /\ to # None /\ Url[to] # None
    <3>1. Trim[Url[to]] = Url[to] /\ Url[to] # Blank /\ Url[Url[to]] = Url[to]
      BY <1>2, <2>1, TidyAssumption
    <3>2. Neat(Get(n, "to"), Trim) = Url[to]
      BY <1>1, <2>1, <3>1 DEF Neat
    <3> QED
      BY <1>1, <1>4, <1>5, <2>1, <3>1, <3>2
  <2>2. CASE ~(Get(n, "mode") = "webhook" /\ to # None /\ Url[to] # None)
    BY <1>1, <1>2, <1>4, <1>5, <2>2
  <2> QED
    BY <2>1, <2>2
<1>7. \A k \in SettingFields : Get(o, k) = Get(n, k)
  BY <1>3, <1>4, <1>5, <1>6
<1> HIDE DEF o
<1>8. o = n
  BY <1>1, <1>5, <1>7, SettingsEqual
<1> QED
  BY <1>8 DEF o, n

LEMMA HintsAreLegacy ==
  ASSUME NEW p, IsSettings(p), NEW top, IsSettings(top), Hinted(p, top)
  PROVE  LET l == FromLegacy(p, top) IN
         /\ IsSettings(l) /\ Get(l, "mode") \in {"none", "announce"}
         /\ Get(l, "channel") = Neat(Or(Get(p, "channel"), Get(top, "channel")), Lower)
         /\ Get(l, "to") = Neat(Or(Get(p, "to"), Get(top, "to")), Trim)
         /\ Get(l, "best") = Or(Get(p, "best"), Get(top, "best"))
         /\ Get(l, "deliver") = None /\ Get(l, "provider") = None
<1> DEFINE Either(k) == Or(Get(p, k), Get(top, k))
           mode == IF Either("deliver") = FALSE THEN "none" ELSE "announce"
           keys == {"mode"} \cup {x \in {"channel", "to", "best"} : Either(x) # None}
           d == [k \in keys |-> IF k = "mode" THEN mode ELSE Either(k)]
<1>1. FromLegacy(p, top) = Tidied(Tidied(d, "channel", Lower), "to", Trim)
  BY DEF FromLegacy
<1>2. mode \in {"none", "announce"} /\ mode \in FieldValues("mode")
  BY ModesAreStrings
<1>3. \A k \in {"channel", "to", "best"} : Either(k) \in FieldValues(k) \cup {None}
  BY GetType DEF Or, SettingFields
<1> HIDE DEF mode, Either
<1>4. IsSettings(d)
  BY <1>2, <1>3 DEF IsSettings, SettingFields
<1>5. /\ Get(d, "mode") = mode /\ Get(d, "deliver") = None /\ Get(d, "provider") = None
      /\ \A k \in {"channel", "to", "best"} : Get(d, k) = Either(k)
  BY DEF Get
<1> HIDE DEF d
<1>6. LET l == Tidied(Tidied(d, "channel", Lower), "to", Trim) IN
      /\ IsSettings(l) /\ Get(l, "channel") = Neat(Get(d, "channel"), Lower)
      /\ Get(l, "to") = Neat(Get(d, "to"), Trim)
      /\ \A x : x \notin {"channel", "to"} => Get(l, x) = Get(d, x)
  BY <1>4, GetBothTidied
<1> QED
  BY <1>1, <1>2, <1>5, <1>6 DEF Either

LEMMA LegacyIsHinted ==
  ASSUME NEW p, IsSettings(p), NEW top, IsSettings(top)
  PROVE  FromLegacy(p, top) # None <=> Hinted(p, top)
<1>1. ~Hinted(p, top) => FromLegacy(p, top) = None
  BY DEF FromLegacy
<1> QED
  BY <1>1, HintsAreLegacy, SettingsAreNotNone

LEMMA NothingIsHinted ==
  ASSUME NEW p, NEW top
  PROVE  FromLegacy(Without(p, Legacy), Without(top, Legacy)) = None
<1>1. ~Hinted(Without(p, Legacy), Without(top, Legacy))
  BY DEF Hinted, Without, Restrict, Legacy
<1> QED
  BY <1>1 DEF FromLegacy

LEMMA GetMerged ==
  ASSUME NEW d, IsSettings(d), NEW patch, IsSettings(patch)
  PROVE  LET m == Merged(d, patch) IN
         /\ IsSettings(m)
         /\ Get(m, "mode") = NormalMode(Or(Get(patch, "mode"), Or(Get(d, "mode"), "none")))
         /\ Get(m, "channel") = Neat(Or(Get(patch, "channel"), Get(d, "channel")), Lower)
         /\ Get(m, "to") = Neat(Or(Get(patch, "to"), Get(d, "to")), Trim)
         /\ \A k \in {"best", "deliver", "provider"} : Get(m, k) = Or(Get(patch, k), Get(d, k))
<1> DEFINE before == Or(Get(d, "mode"), "none")
           old  == With(d, "mode", before)
           next == [k \in DOMAIN old \cup DOMAIN patch |->
                      IF k \in DOMAIN patch THEN patch[k] ELSE old[k]]
           m    == With(next, "mode", NormalMode(next["mode"]))
<1>1. "mode" \in SettingFields /\ before \in FieldValues("mode")
  BY GetType, ModesAreStrings DEF Or, SettingFields
<1>2. /\ IsSettings(old) /\ Get(old, "mode") = before
      /\ \A x : x # "mode" => Get(old, x) = Get(d, x)
  <2> HIDE DEF before
  <2> QED
    BY <1>1, GetWith
<1>3. Merged(d, patch) = Tidied(Tidied(m, "channel", Lower), "to", Trim)
  BY DEF Merged
<1> HIDE DEF old, before
<1>4. IsSettings(next)
  BY <1>2 DEF IsSettings
<1>5. \A k \in SettingFields : Get(next, k) = Or(Get(patch, k), Get(old, k))
  <2> SUFFICES ASSUME NEW k \in SettingFields
               PROVE  Get(next, k) = Or(Get(patch, k), Get(old, k))
    OBVIOUS
  <2>1. CASE k \in DOMAIN patch
    <3>1. Get(next, k) = patch[k]
      BY <2>1 DEF Get
    <3>2. Get(patch, k) = patch[k] /\ Get(patch, k) # None
      BY <2>1, GetType
    <3> QED
      BY <3>1, <3>2 DEF Or
  <2>2. CASE k \notin DOMAIN patch
    <3>1. Get(next, k) = Get(old, k)
      BY <2>2 DEF Get
    <3>2. Get(patch, k) = None
      BY <2>2 DEF Get
    <3> QED
      BY <3>1, <3>2 DEF Or
  <2> QED
    BY <2>1, <2>2
<1>6. Get(next, "mode") = Or(Get(patch, "mode"), before) /\ Get(next, "mode") # None
  BY <1>1, <1>2, <1>5, GetType, NoneIsApart DEF Or
<1> HIDE DEF next
<1>7. next["mode"] = Get(next, "mode") /\ NormalMode(next["mode"]) \in FieldValues("mode")
  BY <1>1, <1>4, <1>6, GetType, ModesAreStrings DEF NormalMode
<1>8. /\ IsSettings(m) /\ Get(m, "mode") = NormalMode(Get(next, "mode"))
      /\ \A x : x # "mode" => Get(m, x) = Get(next, x)
  BY <1>1, <1>4, <1>7, GetWith
<1> HIDE DEF m
<1>9. LET t == Tidied(Tidied(m, "channel", Lower), "to", Trim) IN
      /\ IsSettings(t) /\ Get(t, "channel") = Neat(Get(m, "channel"), Lower)
      /\ Get(t, "to") = Neat(Get(m, "to"), Trim)
      /\ \A x : x \notin {"channel", "to"} => Get(t, x) = Get(m, x)
  BY <1>8, GetBothTidied
<1>10. \A k \in {"channel", "to", "best", "deliver", "provider"} :
         Get(m, k) = Or(Get(patch, k), Get(d, k))
  BY <1>2, <1>5, <1>8 DEF SettingFields
<1> QED
  BY <1>3, <1>6, <1>8, <1>9, <1>10 DEF before

\* Older fields that are merged once are no news to the next load.
LEMMA MergedAgain ==
  ASSUME NEW p, IsNormal(p), NEW top, IsSettings(top), Hinted(p, top), NEW d, IsSettings(d)
  PROVE  LET l == FromLegacy(p, top)
             e == NormalDelivery(Merged(d, l))
         IN /\ IsSettings(e) /\ NormalDelivery(Merged(e, l)) = e
            /\ Get(e, "mode") \in {"none", "announce"}
            /\ Or(Get(e, "best"), Get(p, "best")) = Get(e, "best")
            /\ Or(Get(e, "to"), Neat(Get(p, "to"), Trim)) = Get(e, "to")
            /\ Or(Get(e, "channel"), Neat(Get(p, "channel"), Lower)) = Get(e, "channel")
<1> DEFINE l == FromLegacy(p, top)
           m == Merged(d, l)
           e == NormalDelivery(m)
           n == Merged(e, l)
           f == NormalDelivery(n)
<1>1. /\ IsSettings(l) /\ Get(l, "mode") \in {"none", "announce"}
      /\ Get(l, "channel") = Neat(Or(Get(p, "channel"), Get(top, "channel")), Lower)
      /\ Get(l, "to") = Neat(Or(Get(p, "to"), Get(top, "to")), Trim)
      /\ Get(l, "best") = Or(Get(p, "best"), Get(top, "best"))
      /\ Get(l, "deliver") = None /\ Get(l, "provider") = None
  BY HintsAreLegacy DEF IsNormal
<1> HIDE DEF l
<1>2. /\ IsSettings(m) /\ Get(m, "mode") = Get(l, "mode")
      /\ Get(m, "channel") = Neat(Or(Get(l, "channel"), Get(d, "channel")), Lower)
      /\ Get(m, "to") = Neat(Or(Get(l, "to"), Get(d, "to")), Trim)
      /\ \A k \in {"best", "deliver", "provider"} : Get(m, k) = Or(Get(l, k), Get(d, k))
  BY <1>1, GetMerged, NoneIsApart DEF Or, NormalMode
<1> HIDE DEF m
<1>3. /\ IsSettings(e) /\ Get(e, "mode") = Get(l, "mode")
      /\ Get(e, "channel") = Neat(Get(m, "channel"), Lower)
      /\ Get(e, "to") = Neat(Get(m, "to"), Trim)
      /\ \A k \in {"best", "deliver", "provider"} : Get(e, k) = Get(m, k)
  BY <1>1, <1>2, GetNormalDelivery DEF NormalMode
<1> HIDE DEF e
<1>4. /\ Get(p, "channel") \in Open /\ Get(p, "to") \in Open
      /\ Get(top, "channel") \in Open /\ Get(top, "to") \in Open
      /\ Get(d, "channel") \in Open /\ Get(d, "to") \in Open
      /\ \A t \in Open, tidy \in {Lower, Trim} :
           Neat(t, tidy) \in Open /\ Neat(Neat(t, tidy), tidy) = Neat(t, tidy)
  BY TextGets, NeatType DEF IsNormal
<1>5. /\ Get(e, "channel") = Or(Get(l, "channel"), Neat(Get(d, "channel"), Lower))
      /\ Get(e, "to") = Or(Get(l, "to"), Neat(Get(d, "to"), Trim))
  BY <1>1, <1>2, <1>3, <1>4 DEF Or
<1>6. /\ Get(l, "channel") \in Open /\ Neat(Get(l, "channel"), Lower) = Get(l, "channel")
      /\ Get(l, "to") \in Open /\ Neat(Get(l, "to"), Trim) = Get(l, "to")
  BY <1>1, <1>4 DEF Or
<1>7. /\ IsSettings(n) /\ Get(n, "mode") = Get(l, "mode")
      /\ Get(n, "channel") = Neat(Or(Get(l, "channel"), Get(e, "channel")), Lower)
      /\ Get(n, "to") = Neat(Or(Get(l, "to"), Get(e, "to")), Trim)
      /\ \A k \in {"best", "deliver", "provider"} : Get(n, k) = Or(Get(l, k), Get(e, k))
  BY <1>1, <1>3, GetMerged, NoneIsApart DEF Or, NormalMode
<1> HIDE DEF n
<1>8. /\ IsSettings(f) /\ Get(f, "mode") = Get(l, "mode")
      /\ Get(f, "channel") = Neat(Get(n, "channel"), Lower)
      /\ Get(f, "to") = Neat(Get(n, "to"), Trim)
      /\ \A k \in {"best", "deliver", "provider"} : Get(f, k) = Get(n, k)
  BY <1>1, <1>7, GetNormalDelivery DEF NormalMode
<1> HIDE DEF f
<1>9. Get(f, "channel") = Get(e, "channel") /\ Get(f, "to") = Get(e, "to")
  BY <1>4, <1>5, <1>6, <1>7, <1>8 DEF Or
<1>10. \A k \in {"best", "deliver", "provider"} : Get(f, k) = Get(e, k)
  BY <1>1, <1>2, <1>3, <1>7, <1>8 DEF Or
<1>11. f = e
  BY <1>3, <1>8, <1>9, <1>10, SettingsEqual DEF SettingFields
<1>12. Or(Get(e, "best"), Get(p, "best")) = Get(e, "best")
  BY <1>1, <1>2, <1>3 DEF Or
<1>13. Or(Get(e, "to"), Neat(Get(p, "to"), Trim)) = Get(e, "to")
  BY <1>1, <1>5, <1>4, NeatNone DEF Or
<1>14. Or(Get(e, "channel"), Neat(Get(p, "channel"), Lower)) = Get(e, "channel")
  BY <1>1, <1>5, <1>4, NeatNone DEF Or
<1>15. IsSettings(e) /\ f = e /\ Get(e, "mode") \in {"none", "announce"}
  BY <1>1, <1>3, <1>11
<1> QED
  BY <1>12, <1>13, <1>14, <1>15 DEF e, f, n, m, l

LEMMA SettingsStay ==
  /\ IsSettings(Empty) /\ IsSettings(Announced)
  /\ \A m : IsSettings(m) => IsSettings(NormalPayload(m)) /\ IsSettings(NormalDelivery(m))
  /\ \A m, keys : IsSettings(m) => IsSettings(Without(m, keys))
  /\ \A m, n : IsSettings(m) /\ IsSettings(n) =>
       /\ IsSettings(Merged(m, n))
       /\ FromLegacy(m, n) # None => IsSettings(FromLegacy(m, n))
<1>1. IsSettings(Empty)
  BY DEF IsSettings, Empty
<1>2. IsSettings(Announced)
  BY ModesAreStrings DEF IsSettings, Announced, SettingFields
<1> QED
  BY <1>1, <1>2, GetNormalPayload, GetNormalDelivery, GetWithout, GetMerged, HintsAreLegacy,
     LegacyIsHinted

\* A job keeps its fields.
LEMMA JobWith ==
  ASSUME NEW j, IsJob(j), NEW p, IsSettings(p), NEW d, d # None => IsSettings(d)
  PROVE  /\ IsJob([j EXCEPT !.payload = p]) /\ IsJob([j EXCEPT !.top = p])
         /\ IsJob([j EXCEPT !.delivery = d])
         /\ [j EXCEPT !.payload = p].delivery = j.delivery /\ [j EXCEPT !.payload = p].payload = p
         /\ [j EXCEPT !.payload = p].top = j.top /\ [j EXCEPT !.top = p].delivery = j.delivery
BY DEF IsJob, JobFields

\* What the loads and the additions make of the older fields first.
LEMMA NormalJob ==
  ASSUME NEW j, IsJob(j), NEW target
  PROVE  LET n == [j EXCEPT !.target = target, !.payload = NormalPayload(@),
                            !.delivery = IF @ = None THEN None ELSE NormalDelivery(@)]
             m == [j EXCEPT !.payload = NormalPayload(@),
                            !.delivery = IF @ = None THEN None ELSE NormalDelivery(@)]
         IN  IsJob(n) /\ IsJob(m)
<1> DEFINE p == NormalPayload(j.payload)
           d == IF j.delivery = None THEN None ELSE NormalDelivery(j.delivery)
<1>1. IsSettings(p) /\ (d # None => IsSettings(d))
  BY SettingsStay DEF IsJob
<1> HIDE DEF p, d
<1>2. /\ IsJob([j EXCEPT !.target = target, !.payload = p, !.delivery = d])
      /\ IsJob([j EXCEPT !.payload = p, !.delivery = d])
  BY <1>1 DEF IsJob, JobFields
<1>3. DOMAIN j = JobFields
  BY DEF IsJob
<1> QED
  BY <1>2, <1>3 DEF p, d, JobFields

LEMMA StrippedJob ==
  ASSUME NEW j, IsJob(j), NEW d, d # None => IsSettings(d)
  PROVE  IsJob(StripLegacy(j)) /\ IsJob([StripLegacy(j) EXCEPT !.delivery = d])
         /\ StripLegacy(j).delivery = j.delivery
<1> DEFINE p == Without(j.payload, Legacy)
           t == Without(j.top, Legacy)
<1>1. IsSettings(p) /\ IsSettings(t)
  BY SettingsStay DEF IsJob
<1>2. StripLegacy(j) = [j EXCEPT !.payload = p, !.top = t]
  BY DEF StripLegacy, IsJob, JobFields
<1> HIDE DEF p, t
<1> QED
  BY <1>1, <1>2 DEF IsJob, JobFields

LEMMA MainJob ==
  ASSUME NEW j, IsJob(j)
  PROVE  IsJob(MainOnly(j))
<1>1. IsJob([j EXCEPT !.delivery = None])
  BY DEF IsJob, JobFields
<1> QED
  BY <1>1 DEF MainOnly

LEMMA LoadedJob ==
  ASSUME NEW j, IsJob(j)
  PROVE  IsJob(Loaded(j))
<1> DEFINE m == [j EXCEPT !.payload = NormalPayload(@),
                          !.delivery = IF @ = None THEN None ELSE NormalDelivery(@)]
           legacy == FromLegacy(m.payload, m.top)
<1>1. IsJob(m)
  BY NormalJob
<1>2. Loaded(j) = MainOnly(
         IF ~Turn(m) \/ (m.delivery # None /\ legacy = None) THEN m
         ELSE IF legacy = None THEN [m EXCEPT !.delivery = Announced]
         ELSE IF m.delivery = None
           THEN [StripLegacy(m) EXCEPT !.delivery = NormalDelivery(legacy)]
           ELSE [StripLegacy(m) EXCEPT !.delivery = Merged(@, legacy)])
  BY DEF Loaded
<1> HIDE DEF m
<1>3. legacy # None => IsSettings(legacy)
  BY <1>1, SettingsStay DEF IsJob
<1> HIDE DEF legacy
<1>4. IsJob([m EXCEPT !.delivery = Announced])
  BY <1>1, SettingsStay DEF IsJob, JobFields
<1>5. ASSUME legacy # None
      PROVE  IsJob([StripLegacy(m) EXCEPT !.delivery = NormalDelivery(legacy)])
  BY <1>1, <1>3, <1>5, SettingsStay, StrippedJob
<1>6. ASSUME legacy # None, m.delivery # None
      PROVE  IsJob([StripLegacy(m) EXCEPT !.delivery = Merged(@, legacy)])
  <2>1. StripLegacy(m).delivery = m.delivery /\ IsSettings(m.delivery)
        /\ DOMAIN StripLegacy(m) = JobFields
    BY <1>1, <1>6, StrippedJob DEF IsJob
  <2>2. IsSettings(Merged(m.delivery, legacy))
    BY <1>3, <1>6, <2>1, SettingsStay
  <2>3. IsJob([StripLegacy(m) EXCEPT !.delivery = Merged(m.delivery, legacy)])
    BY <1>1, <2>2, StrippedJob
  <2>4. [StripLegacy(m) EXCEPT !.delivery = Merged(@, legacy)] =
          [StripLegacy(m) EXCEPT !.delivery = Merged(m.delivery, legacy)]
    BY <2>1 DEF JobFields
  <2> QED
    BY <2>3, <2>4
<1> QED
  BY <1>1, <1>2, <1>4, <1>5, <1>6, MainJob

LEMMA AddedIsJob ==
  ASSUME NEW raw, IsJob(raw)
  PROVE  IsJob(AddedJob(raw))
<1> DEFINE target == IF raw.target # None THEN raw.target
                     ELSE CASE raw.kind = "systemEvent" -> "main"
                            [] raw.kind = "agentTurn"   -> "isolated"
                            [] OTHER                    -> None
           m == [raw EXCEPT !.target = target, !.payload = NormalPayload(@),
                            !.delivery = IF @ = None THEN None ELSE NormalDelivery(@)]
           legacy == FromLegacy(m.payload, m.top)
<1>1. IsJob(m)
  <2> HIDE DEF target
  <2> QED
    BY NormalJob
<1>2. AddedJob(raw) =
         IF ~Turn(m) \/ m.delivery # None THEN m
         ELSE IF legacy = None THEN [m EXCEPT !.delivery = Announced]
         ELSE [StripLegacy(m) EXCEPT !.delivery = NormalDelivery(legacy)]
  BY DEF AddedJob
<1> HIDE DEF m
<1>3. legacy # None => IsSettings(legacy)
  BY <1>1, SettingsStay DEF IsJob
<1> HIDE DEF legacy
<1>4. IsJob([m EXCEPT !.delivery = Announced])
  BY <1>1, SettingsStay DEF IsJob, JobFields
<1>5. ASSUME legacy # None
      PROVE  IsJob([StripLegacy(m) EXCEPT !.delivery = NormalDelivery(legacy)])
  BY <1>1, <1>3, <1>5, SettingsStay, StrippedJob
<1> QED
  BY <1>1, <1>2, <1>4, <1>5

LEMMA UpdatedIsJob ==
  ASSUME NEW j, IsJob(j), NEW patch \in Patches
  PROVE  IsJob(Updated(j, patch))
<1> DEFINE Over(m, more) == [k \in DOMAIN m \cup DOMAIN more |->
                               IF k \in DOMAIN more THEN more[k] ELSE m[k]]
           p     == IF patch.payload = None THEN None ELSE NormalPayload(patch.payload)
           other == patch.kind # None /\ patch.kind # j.kind
           payload == IF p = None THEN j.payload ELSE IF other THEN p ELSE Over(j.payload, p)
           kind    == IF p # None /\ other THEN patch.kind ELSE j.kind
           top     == Over(j.top, patch.top)
           delivery == IF patch.delivery = None THEN j.delivery
                       ELSE IF patch.delivery = Null THEN None
                       ELSE Merged(IF j.delivery = None THEN Empty ELSE j.delivery,
                                   NormalDelivery(patch.delivery))
           m == [j EXCEPT !.payload = payload, !.kind = kind, !.top = top, !.delivery = delivery]
           legacy == IF p = None THEN None ELSE FromLegacy(p, Empty)
<1>1. /\ IsSettings(patch.top) /\ (patch.payload # None => IsSettings(patch.payload))
      /\ (patch.delivery \notin {None, Null} => IsSettings(patch.delivery))
  BY InputsAssumption
<1>2. /\ DOMAIN j = JobFields /\ IsSettings(j.payload) /\ IsSettings(j.top)
      /\ (j.delivery # None => IsSettings(j.delivery))
  BY DEF IsJob
<1>3. p # None => IsSettings(p)
  BY <1>1, SettingsStay
<1>4. Updated(j, patch) = MainOnly(
         IF /\ patch.delivery = None /\ legacy # None
            /\ m.target = "isolated" /\ m.kind = "agentTurn"
           THEN [m EXCEPT !.delivery = Merged(IF @ = None THEN Empty ELSE @, legacy)]
           ELSE m)
  BY <1>2 DEF Updated, JobFields
<1> HIDE DEF p, other
<1>5. IsSettings(payload)
  <2>1. p # None => IsSettings(Over(j.payload, p))
    BY <1>2, <1>3 DEF IsSettings
  <2> QED
    BY <1>2, <1>3, <2>1
<1>6. IsSettings(top)
  BY <1>1, <1>2 DEF IsSettings
<1>7. delivery # None => IsSettings(delivery)
  <2>1. ASSUME patch.delivery \notin {None, Null}
        PROVE  IsSettings(Merged(IF j.delivery = None THEN Empty ELSE j.delivery,
                               NormalDelivery(patch.delivery)))
    <3>1. IsSettings(NormalDelivery(patch.delivery))
      BY <1>1, <2>1, SettingsStay
    <3>2. IsSettings(IF j.delivery = None THEN Empty ELSE j.delivery)
      BY <1>2, SettingsStay
    <3> QED
      BY <3>1, <3>2, SettingsStay
  <2> QED
    BY <1>2, <2>1
<1> HIDE DEF payload, kind, top, delivery
<1>8. IsJob(m) /\ m.delivery = delivery /\ DOMAIN m = JobFields
  BY <1>2, <1>5, <1>6, <1>7 DEF IsJob, JobFields
<1> HIDE DEF m
<1>9. legacy # None => IsSettings(legacy)
  BY <1>3, SettingsStay
<1> HIDE DEF legacy
<1>10. ASSUME legacy # None
       PROVE  IsJob([m EXCEPT !.delivery = Merged(IF @ = None THEN Empty ELSE @, legacy)])
  <2>1. IsSettings(IF m.delivery = None THEN Empty ELSE m.delivery)
    BY <1>7, <1>8, SettingsStay
  <2>2. IsSettings(Merged(IF m.delivery = None THEN Empty ELSE m.delivery, legacy))
    BY <1>9, <1>10, <2>1, SettingsStay
  <2>3. IsJob([m EXCEPT !.delivery = Merged(IF m.delivery = None THEN Empty ELSE m.delivery, legacy)])
    BY <1>8, <2>2, SettingsStay, JobWith
  <2>4. [m EXCEPT !.delivery = Merged(IF @ = None THEN Empty ELSE @, legacy)] =
          [m EXCEPT !.delivery = Merged(IF m.delivery = None THEN Empty ELSE m.delivery, legacy)]
    BY <1>8 DEF JobFields
  <2> QED
    BY <2>3, <2>4
<1> QED
  BY <1>4, <1>8, <1>10, MainJob

LEMMA PlanModes ==
  ASSUME NEW j
  PROVE  Plan(j).mode \in {"none", "announce", "webhook"}
<1> DEFINE d == Built(j)
           mode == IF d = None \/ Get(d, "mode") \notin {"announce", "deliver", "webhook"}
                     THEN "none" ELSE NormalMode(d["mode"])
<1>1. mode \in {"none", "announce", "webhook"}
  <2>1. \/ mode = "none"
        \/ mode = NormalMode(d["mode"]) /\ Get(d, "mode") \in {"announce", "deliver", "webhook"}
    OBVIOUS
  <2> QED
    BY <2>1, NoneAssumption DEF Get, NormalMode
<1>2. Plan(j).mode = mode
  BY <1>1 DEF Plan
<1> QED
  BY <1>1, <1>2

\* Where a plan announces to is a text, or left open.
LEMMA PlanTexts ==
  ASSUME NEW j, IsJob(j), Plan(j).mode = "announce"
  PROVE  Plan(j).channel \in Texts /\ Plan(j).to \in Texts \cup {None}
<1> DEFINE d == Built(j)
           p == j.payload
           payload == Tidied(Tidied(p, "channel", Lower), "to", Trim)
           mode == IF d = None \/ Get(d, "mode") \notin {"announce", "deliver", "webhook"}
                     THEN "none" ELSE NormalMode(d["mode"])
           best == Or(Or(IF d = None THEN None ELSE Get(d, "best"), Get(p, "best")),
                      IF d = None THEN Or(Get(j.top, "best"), FALSE) ELSE FALSE)
           to   == Get(payload, "to")
<1>1. d # None => IsSettings(d)
  <2>1. j.delivery # None => IsSettings(NormalDelivery(j.delivery))
    BY SettingsStay DEF IsJob
  <2>2. ASSUME FromLegacy(j.payload, j.top) # None
        PROVE  IsSettings(NormalDelivery(FromLegacy(j.payload, j.top)))
    BY <2>2, SettingsStay DEF IsJob
  <2> QED
    BY <2>1, <2>2, SettingsStay DEF Built
<1>2. IsSettings(payload)
  BY GetBothTidied DEF IsJob
<1>3. Plan(j) = CASE mode = "none" -> [mode |-> mode, channel |-> None, to |-> None, best |-> best]
                  [] mode = "announce" ->
                       [mode |-> mode, best |-> best, to |-> Or(Get(d, "to"), to),
                        channel |-> Or(Or(Get(d, "channel"), Get(payload, "channel")), LastRoute)]
                  [] mode = "webhook" ->
                       [mode |-> mode, best |-> best, channel |-> None,
                        to |-> Or(IF "to" \in DOMAIN d THEN Url[d["to"]] ELSE None,
                                  IF to # None THEN Url[to] ELSE None)]
  BY DEF Plan
<1>4. d # None \/ mode = "none"
  OBVIOUS
<1>5. mode \in {"none", "announce", "webhook"}
  <2>1. mode = "none" \/ (mode = NormalMode(d["mode"]) /\ Get(d, "mode") \in {"announce", "deliver", "webhook"})
    OBVIOUS
  <2> QED
    BY <2>1, NoneAssumption DEF Get, NormalMode
<1> HIDE DEF mode, best, d, payload, to
<1>6. mode = "announce"
  BY <1>3, <1>5
<1>7. /\ Plan(j).to = Or(Get(d, "to"), to)
      /\ Plan(j).channel = Or(Or(Get(d, "channel"), Get(payload, "channel")), LastRoute)
  BY <1>3, <1>6
<1>8. IsSettings(d)
  BY <1>1, <1>4, <1>6
<1>9. Get(d, "to") \in Texts \cup {None} /\ Get(d, "channel") \in Texts \cup {None}
      /\ Get(payload, "channel") \in Texts \cup {None} /\ to \in Texts \cup {None}
  BY <1>2, <1>8, TextGets DEF Open, to
<1> QED
  BY <1>7, <1>9, TextsAssumption DEF Or

-----------------------------------------------------------------------------
(* Routes.                                                                  *)

RoutesOK ==
  /\ DOMAIN routes \subseteq Sessions
  /\ \A s \in DOMAIN routes : routes[s].channel \in Texts /\ routes[s].to \in Texts
IsTarget(t) == /\ t \in [channel : Texts, to : Texts, session : Sessions]
               /\ t.channel # None /\ t.to # None /\ t # None

LEMMA ChannelType ==
  ASSUME NEW c \in Open
  PROVE  /\ Channel(c) \in Open /\ Channel(Channel(c)) = Channel(c)
         /\ Channel(c) # None => Channel(c) \in Texts /\ Channel(c) = Canonical[c]
BY InputsAssumption, TextsAssumption DEF Open, Channel

LEMMA SessionType ==
  ASSUME NEW c \in Texts, NEW t \in Texts
  PROVE  Session(c, t) \in Sessions
BY DEF SessionNames, Session, Sessions

LEMMA TargetType ==
  ASSUME NEW c \in Texts, NEW t \in Texts, NEW s \in Sessions
  PROVE  /\ IsTarget(To(c, t, s))
         /\ To(c, t, s).channel = c /\ To(c, t, s).to = t /\ To(c, t, s).session = s
<1>1. To(c, t, s) \in [channel : Texts, to : Texts, session : Sessions]
      /\ To(c, t, s).channel = c /\ To(c, t, s).to = t /\ To(c, t, s).session = s
  BY DEF To
<1>2. c # None /\ t # None
  BY TextsAssumption
<1> QED
  BY <1>1, <1>2, NoneAssumption DEF IsTarget

LEMMA RoutedType ==
  ASSUME RoutesOK, NEW s \in DOMAIN routes
  PROVE  /\ IsTarget(Routed(s)) /\ Routed(s).session = s
         /\ Routed(s).channel = routes[s].channel /\ Routed(s).to = routes[s].to
BY TargetType DEF RoutesOK, Routed

\* What resolve_target answers fits what was asked for.
LEMMA TargetsFit ==
  ASSUME RoutesOK, NEW c \in Open, NEW to \in Open, NEW session, NEW g \in Targets(c, to, session)
  PROVE  IsTarget(g) /\ Matches(g, Channel(c), to)
<1> DEFINE channel == Channel(c)
           known == IF session = None THEN None ELSE Known(session)
           fits == {s \in DOMAIN routes : Fresh(routes[s]) /\ Matches(routes[s], channel, to)}
<1>1. CASE channel # None /\ to # None
  <2>1. g = To(channel, to, Session(channel, to))
    BY <1>1 DEF Targets
  <2>2. channel \in Texts /\ to \in Texts
    BY <1>1, ChannelType DEF Open
  <2> QED
    BY <2>1, <2>2, SessionType, TargetType DEF Matches
<1>2. CASE ~(channel # None /\ to # None)
  <2>1. PICK s \in fits : g = Routed(s)
    BY <1>2 DEF Targets
  <2>2. Matches(routes[s], channel, to) /\ s \in DOMAIN routes
    BY <2>1
  <2> QED
    BY <2>1, <2>2, RoutedType DEF Matches
<1> QED
  BY <1>1, <1>2

\* So does what message.send sends to, and it keeps the session it was given.
LEMMA SendFits ==
  ASSUME RoutesOK, NEW c \in Open, NEW to \in Open, NEW session \in Sessions \cup {None},
         NEW g \in SendTargets(session, c, to)
  PROVE  IsTarget(g) /\ Matches(g, Channel(c), to)
<1>1. CASE Channel(c) # None /\ to # None
  <2>1. g = To(Channel(c), to, Or(session, Session(Channel(c), to)))
    BY <1>1 DEF SendTargets
  <2>2. Channel(c) \in Texts /\ to \in Texts
    BY <1>1, ChannelType DEF Open
  <2>3. Or(session, Session(Channel(c), to)) \in Sessions
    BY <2>2, SessionType DEF Or
  <2> QED
    BY <2>1, <2>2, <2>3, TargetType DEF Matches
<1>2. CASE ~(Channel(c) # None /\ to # None) /\ session = None
  <2>1. g \in Targets(Channel(c), to, None)
    BY <1>2 DEF SendTargets
  <2>2. Channel(c) \in Open /\ Channel(Channel(c)) = Channel(c)
    BY ChannelType
  <2> QED
    BY <2>1, <2>2, TargetsFit
<1>3. CASE ~(Channel(c) # None /\ to # None) /\ session # None
  <2>1. g = Routed(session) /\ session \in DOMAIN routes /\ Matches(routes[session], Channel(c), to)
    BY <1>3 DEF SendTargets
  <2> QED
    BY <2>1, RoutedType DEF Matches
<1> QED
  BY <1>1, <1>2, <1>3

\* A send keeps the routes well.
LEMMA SentRoutes ==
  ASSUME RoutesOK, NEW t, IsTarget(t), Sent(t)
  PROVE  /\ RoutesOK'
         /\ DOMAIN routes' = DOMAIN routes \cup {t.session}
         /\ routes'[t.session] = Route(t)
         /\ \A s \in DOMAIN routes : s # t.session => routes'[s] = routes[s]
         /\ moved' = IF t.session \in DOMAIN routes /\ ~Matches(routes[t.session], t.channel, t.to)
                       THEN moved \cup {t.session} ELSE moved
<1>1. routes' = With(routes, t.session, Route(t)) /\ t.session \in Sessions
      /\ t.channel \in Texts /\ t.to \in Texts
  BY DEF Sent, IsTarget
<1>2. /\ DOMAIN routes' = DOMAIN routes \cup {t.session}
      /\ \A s \in DOMAIN routes' : routes'[s] = IF s = t.session THEN Route(t) ELSE routes[s]
  BY <1>1 DEF With
<1>3. Route(t).channel = t.channel /\ Route(t).to = t.to
  BY DEF Route
<1> QED
  BY <1>1, <1>2, <1>3 DEF RoutesOK, Sent

\* Where an announcement is sent to fits the plan.
LEMMA ChosenFits ==
  ASSUME RoutesOK, NEW plan, plan.channel \in Texts, plan.to \in Open,
         NEW session \in Sessions \cup {None}, NEW t \in Chosen(plan, session),
         NEW g \in SendTargets(t.session, t.channel, t.to), t.to # None
  PROVE  IsTarget(g) /\ Matches(g, Channel(plan.channel), plan.to)
<1>0. plan.channel \in Open /\ Channel(Channel(plan.channel)) = Channel(plan.channel)
  BY ChannelType DEF Open
<1>1. CASE \E k \in Targets(plan.channel, plan.to, session) :
             t = [k EXCEPT !.session = Or(session, @)]
  <2>1. PICK k \in Targets(plan.channel, plan.to, session) :
          t = [k EXCEPT !.session = Or(session, @)]
    BY <1>1
  <2>2. IsTarget(k) /\ Matches(k, Channel(plan.channel), plan.to)
    BY <1>0, <2>1, TargetsFit
  <2>3. t.channel = k.channel /\ t.to = k.to /\ t.session \in Sessions
    BY <2>1, <2>2 DEF IsTarget, Or
  <2>4. t.channel \in Open /\ t.to \in Open /\ t.channel # None
    BY <2>2, <2>3 DEF IsTarget, Open
  <2>5. IsTarget(g) /\ Matches(g, Channel(t.channel), t.to)
    BY <2>3, <2>4, SendFits
  <2>6. plan.to # None => g.to = plan.to
    BY <2>2, <2>3, <2>5 DEF Matches
  <2>7. Channel(plan.channel) # None => g.channel = Channel(plan.channel)
    BY <1>0, <2>2, <2>3, <2>5 DEF Matches
  <2> QED
    BY <2>5, <2>6, <2>7 DEF Matches
<1>2. CASE t = To(plan.channel, plan.to, session)
  <2>1. t.channel = plan.channel /\ t.to = plan.to /\ t.session = session
    BY <1>2 DEF To
  <2> QED
    BY <1>0, <2>1, SendFits
<1> QED
  BY <1>1, <1>2 DEF Chosen

UnreadOK == \A s \in unread : /\ s \in DOMAIN routes
                              /\ s \in moved \/ s.name = <<routes[s].channel, routes[s].to>>
AnnounceInv ==
  /\ RoutesOK /\ UnreadOK
  /\ job # None => IsJob(job)
  /\ AnnouncedOnRecord /\ RepliesGoBack

LEMMA SentUnread ==
  ASSUME RoutesOK, UnreadOK, NEW t, IsTarget(t), Sent(t), unread' \subseteq unread
  PROVE  RoutesOK' /\ UnreadOK'
<1>1. /\ RoutesOK'
      /\ DOMAIN routes' = DOMAIN routes \cup {t.session}
      /\ routes'[t.session] = Route(t)
      /\ \A s \in DOMAIN routes : s # t.session => routes'[s] = routes[s]
      /\ moved' = IF t.session \in DOMAIN routes /\ ~Matches(routes[t.session], t.channel, t.to)
                    THEN moved \cup {t.session} ELSE moved
  BY SentRoutes
<1>2. Route(t).channel = t.channel /\ Route(t).to = t.to /\ t.channel # None /\ t.to # None
  BY DEF Route, IsTarget
<1>3. ASSUME NEW s \in unread'
      PROVE  /\ s \in DOMAIN routes'
             /\ s \in moved' \/ s.name = <<routes'[s].channel, routes'[s].to>>
  <2>1. s \in DOMAIN routes /\ (s \in moved \/ s.name = <<routes[s].channel, routes[s].to>>)
    BY DEF UnreadOK
  <2>2. CASE s # t.session
    BY <1>1, <2>1, <2>2
  <2>3. CASE s = t.session /\ ~Matches(routes[s], t.channel, t.to)
    BY <1>1, <2>1, <2>3
  <2>4. CASE s = t.session /\ Matches(routes[s], t.channel, t.to)
    <3>1. routes'[s].channel = routes[s].channel /\ routes'[s].to = routes[s].to
      BY <1>1, <1>2, <2>4 DEF Matches
    <3> QED
      BY <1>1, <2>1, <3>1
  <2> QED
    BY <2>2, <2>3, <2>4
<1> QED
  BY <1>1, <1>3 DEF UnreadOK

LEMMA UnsentRoutes ==
  ASSUME RoutesOK, UnreadOK, Unsent, unread' \subseteq unread
  PROVE  RoutesOK' /\ UnreadOK'
BY DEF Unsent, RoutesOK, UnreadOK

LEMMA RunStep ==
  ASSUME AnnounceInv, NEW empty \in BOOLEAN, NEW up \in BOOLEAN, RunJob(empty, up)
  PROVE  AnnounceInv'
<1>1. IsJob(job') /\ UNCHANGED <<unread, reply>> /\ RoutesOK /\ UnreadOK
  BY LoadedJob DEF RunJob, AnnounceInv
<1>2. PICK plan : plan = Plan(job')
  OBVIOUS
<1>3. \/ plan.mode = "none" /\ Unsent /\ Ran("completed", plan, None)
      \/ plan.mode = "announce" /\ Announces(plan, empty, up)
      \/ plan.mode = "webhook" /\ Posts(plan, empty, up)
      \/ plan.mode \notin {"none", "announce", "webhook"}
  BY <1>2 DEF RunJob
<1>4. plan.mode \in {"none", "announce", "webhook"}
  BY <1>2, PlanModes
<1>5. CASE plan.mode # "announce"
  <2>1. Unsent /\ run'.plan = plan
    BY <1>3, <1>4, <1>5 DEF Posts, Ran
  <2> QED
    BY <1>1, <1>5, <2>1, UnsentRoutes DEF AnnounceInv, AnnouncedOnRecord, RepliesGoBack
<1>6. CASE plan.mode = "announce"
  <2>1. Announces(plan, empty, up) /\ plan.channel \in Texts /\ plan.to \in Open
        /\ job'.session \in Sessions \cup {None}
    BY <1>1, <1>2, <1>3, <1>6, PlanTexts DEF IsJob, Open
  <2>2. PICK t \in Chosen(plan, job'.session) :
          IF t.to = None \/ empty
            THEN Unsent /\ Ran(IF plan.best THEN "skipped" ELSE "delivery_failed", plan, None)
          ELSE LET to == SendTargets(t.session, t.channel, t.to) IN
            IF to = {} \/ ~up
              THEN Unsent /\ Ran(IF plan.best THEN "completed" ELSE "delivery_failed", plan, None)
            ELSE \E target \in to : Sent(target) /\ Ran("completed", plan, target)
    BY <2>1 DEF Announces
  <2>3. CASE /\ Unsent /\ run'.plan = plan /\ run'.target = None
             /\ run'.status = "completed" => plan.best
    BY <1>1, <2>3, UnsentRoutes DEF AnnounceInv, AnnouncedOnRecord, RepliesGoBack
  <2>4. ASSUME t.to # None, NEW g \in SendTargets(t.session, t.channel, t.to), Sent(g),
               Ran("completed", plan, g)
        PROVE  AnnounceInv'
    <3>1. IsTarget(g) /\ Matches(g, Channel(plan.channel), plan.to)
      BY <1>1, <2>1, <2>4, ChosenFits
    <3>2. run'.plan = plan /\ run'.target = g /\ g # None
      BY <2>4, <3>1 DEF Ran, IsTarget
    <3>3. RoutesOK' /\ UnreadOK'
      BY <1>1, <2>4, <3>1, SentUnread
    <3>4. AnnouncedOnRecord'
      BY <3>1, <3>2 DEF AnnouncedOnRecord, Matches
    <3> QED
      BY <1>1, <3>3, <3>4 DEF AnnounceInv, RepliesGoBack
  <2>5. \/ /\ Unsent /\ run'.plan = plan /\ run'.target = None
           /\ run'.status = "completed" => plan.best
        \/ /\ t.to # None
           /\ \E g \in SendTargets(t.session, t.channel, t.to) : Sent(g) /\ Ran("completed", plan, g)
    BY <2>2 DEF Ran
  <2> QED
    BY <2>3, <2>4, <2>5
<1> QED
  BY <1>5, <1>6

LEMMA ReplyStep ==
  ASSUME AnnounceInv, NEW s \in unread, Reply(s)
  PROVE  AnnounceInv'
<1>1. UNCHANGED <<job, run>> /\ RoutesOK /\ UnreadOK /\ unread' \subseteq unread
  BY DEF Reply, AnnounceInv
<1>2. AnnouncedOnRecord'
  BY <1>1 DEF AnnounceInv, AnnouncedOnRecord, Matches, Channel
<1>3. CASE Unsent /\ UNCHANGED reply
  BY <1>1, <1>2, <1>3, UnsentRoutes DEF AnnounceInv, RepliesGoBack
<1>4. ASSUME NEW g \in SendTargets(s, None, None), Sent(g),
             reply' = [target |-> g, moved |-> s \in moved]
      PROVE  AnnounceInv'
  <2>1. s \in DOMAIN routes /\ s \in Sessions /\ s # None
        /\ (s \in moved \/ s.name = <<routes[s].channel, routes[s].to>>)
    BY <1>1, NoneAssumption DEF UnreadOK, RoutesOK
  <2>2. g = Routed(s)
    BY <1>4, <2>1 DEF SendTargets, Channel
  <2>3. IsTarget(g) /\ g.session = s /\ g.channel = routes[s].channel /\ g.to = routes[s].to
    BY <1>1, <2>1, <2>2, RoutedType
  <2>4. RoutesOK' /\ UnreadOK'
    BY <1>1, <1>4, <2>3, SentUnread
  <2>5. reply'.target = g /\ (~reply'.moved => s \notin moved)
    BY <1>4
  <2>6. RepliesGoBack'
    BY <2>1, <2>3, <2>5 DEF RepliesGoBack
  <2> QED
    BY <1>1, <1>2, <2>4, <2>6 DEF AnnounceInv
<1> QED
  BY <1>3, <1>4 DEF Reply

LEMMA IncomingStep ==
  ASSUME AnnounceInv, NEW c \in Contacts, Incoming(c)
  PROVE  AnnounceInv'
<1> DEFINE s == Session(Canonical[c.channel], c.from)
           r == Route([channel |-> Canonical[c.channel], to |-> c.from])
<1>1. /\ routes' = With(routes, s, r) /\ moved' = moved \ {s} /\ unread' = unread \cup {s}
      /\ UNCHANGED <<job, run, reply>> /\ RoutesOK /\ UnreadOK
  BY DEF Incoming, AnnounceInv
<1>2. Canonical[c.channel] \in Texts /\ c.from \in Texts
  BY InputsAssumption
<1>3. /\ s \in Sessions /\ s.name = <<Canonical[c.channel], c.from>>
      /\ r.channel = Canonical[c.channel] /\ r.to = c.from
  BY <1>2, SessionType DEF Session, Route
<1> HIDE DEF s, r
<1>4. /\ DOMAIN routes' = DOMAIN routes \cup {s}
      /\ \A q \in DOMAIN routes' : routes'[q] = IF q = s THEN r ELSE routes[q]
  BY <1>1 DEF With
<1>5. RoutesOK'
  BY <1>1, <1>2, <1>3, <1>4 DEF RoutesOK
<1>6. ASSUME NEW q \in unread'
      PROVE  /\ q \in DOMAIN routes'
             /\ q \in moved' \/ q.name = <<routes'[q].channel, routes'[q].to>>
  <2>1. CASE q = s
    BY <1>3, <1>4, <2>1
  <2>2. CASE q # s
    <3>1. q \in unread /\ q \in DOMAIN routes
      BY <1>1, <2>2 DEF UnreadOK
    <3>2. routes'[q] = routes[q]
      BY <1>4, <2>2, <3>1
    <3> QED
      BY <1>1, <1>4, <2>2, <3>1, <3>2 DEF UnreadOK
  <2> QED
    BY <2>1, <2>2
<1> QED
  BY <1>1, <1>5, <1>6 DEF AnnounceInv, UnreadOK, AnnouncedOnRecord, RepliesGoBack

LEMMA HeartbeatStep ==
  ASSUME AnnounceInv, NEW h \in Heartbeats, Heartbeat(h)
  PROVE  AnnounceInv'
<1>1. UNCHANGED <<job, run, reply, unread>> /\ RoutesOK /\ UnreadOK
  BY DEF Heartbeat, AnnounceInv
<1>2. PICK last \in IF h.channel # None /\ h.to # None THEN {h} ELSE Targets(None, None, None) :
        \E g \in SendTargets(MainSession, Or(h.channel, last.channel), Or(h.to, last.to)) : Sent(g)
  BY DEF Heartbeat
<1>3. h.channel \in Open /\ h.to \in Open
  BY InputsAssumption DEF Open
<1>4. last.channel \in Open /\ last.to \in Open
  <2>1. CASE last = h
    BY <1>3, <2>1
  <2>2. CASE last \in Targets(None, None, None)
    <3>1. IsTarget(last)
      BY <1>1, <2>2, TargetsFit DEF Open
    <3> QED
      BY <3>1 DEF IsTarget, Open
  <2> QED
    BY <1>2, <2>1, <2>2
<1>5. PICK g \in SendTargets(MainSession, Or(h.channel, last.channel), Or(h.to, last.to)) : Sent(g)
  BY <1>2
<1>6. MainSession \in Sessions \cup {None}
  BY DEF MainSession, Sessions, SessionNames
<1>7. Or(h.channel, last.channel) \in Open /\ Or(h.to, last.to) \in Open
  BY <1>3, <1>4 DEF Or
<1>8. IsTarget(g)
  BY <1>1, <1>5, <1>6, <1>7, SendFits
<1>9. RoutesOK' /\ UnreadOK'
  BY <1>1, <1>5, <1>8, SentUnread
<1> QED
  BY <1>1, <1>9 DEF AnnounceInv, AnnouncedOnRecord, RepliesGoBack, Matches, Channel

LEMMA AnnounceStep ==
  ASSUME AnnounceInv, [AnnounceNext]_announceVars
  PROVE  AnnounceInv'
<1>1. ASSUME UNCHANGED <<routes, unread, moved, run, reply>>, job' # None => IsJob(job')
      PROVE  AnnounceInv'
  BY <1>1 DEF AnnounceInv, RoutesOK, UnreadOK, AnnouncedOnRecord, RepliesGoBack
<1>2. CASE UNCHANGED announceVars \/ Tick
  BY <1>1, <1>2 DEF announceVars, Tick, AnnounceInv
<1>3. ASSUME NEW raw \in Jobs, AddJob(raw)
      PROVE  AnnounceInv'
  <2>1. IsJob(AddedJob(raw))
    BY AddedIsJob, InputsAssumption
  <2> QED
    BY <1>1, <1>3, <2>1 DEF AddJob
<1>4. ASSUME NEW patch \in Patches, UpdateJob(patch)
      PROVE  AnnounceInv'
  <2>1. IsJob(Loaded(job))
    BY <1>4, LoadedJob DEF UpdateJob, AnnounceInv
  <2>2. IsJob(Updated(Loaded(job), patch))
    BY <2>1, UpdatedIsJob
  <2> QED
    BY <1>1, <1>4, <2>1, <2>2 DEF UpdateJob
<1>5. CASE ListJobs
  <2>1. IsJob(Loaded(job))
    BY <1>5, LoadedJob DEF ListJobs, AnnounceInv
  <2> QED
    BY <1>1, <1>5, <2>1 DEF ListJobs
<1> QED
  BY <1>2, <1>3, <1>4, <1>5, RunStep, ReplyStep, IncomingStep, HeartbeatStep DEF AnnounceNext

LEMMA AnnounceInitInv == AnnounceInit => AnnounceInv
BY DEF AnnounceInit, AnnounceInv, RoutesOK, UnreadOK, AnnouncedOnRecord, RepliesGoBack,
       NoRoutes, NoRun

LEMMA AnnounceCorrect == AnnounceSpec => []AnnounceInv
BY AnnounceInitInv, AnnounceStep, PTL DEF AnnounceSpec

(* An announcement on record as delivered was sent, to the channel and the   *)
(* address that the job names (execute_job, resolve_target), for any jobs,   *)
(* contacts, aliases of channels and ages of routes.                         *)
THEOREM RecordCorrect == AnnounceSpec => []AnnouncedOnRecord
<1>1. AnnounceInv => AnnouncedOnRecord
  BY DEF AnnounceInv
<1> QED
  BY <1>1, AnnounceCorrect, PTL

(* A reply goes back to the one who wrote (handle_incoming_message), unless  *)
(* an answer of a job was since sent elsewhere in the name of the same       *)
(* conversation; for any contacts, aliases and ages of routes.               *)
THEOREM RepliesCorrect == AnnounceSpec => []RepliesGoBack
<1>1. AnnounceInv => RepliesGoBack
  BY DEF AnnounceInv
<1> QED
  BY <1>1, AnnounceCorrect, PTL

-----------------------------------------------------------------------------
(* What the user was told of a job is what it does.  A job is ready when    *)
(* the next load finds nothing in it to change about where its answer goes: *)
(* a main job has no delivery but a webhook, and the older fields of a turn *)
(* are gone, or are in its delivery already.                                *)

Ready(j) ==
  /\ IsNormal(j.payload)
  /\ j.target = "main" /\ j.delivery # None => Get(j.delivery, "mode") = "webhook"
  /\ Turn(j) => LET legacy == FromLegacy(j.payload, j.top) IN
       \/ legacy = None /\ (j.delivery # None \/ j.target = "isolated")
       \/ legacy # None /\ \E d : IsSettings(d) /\ j.delivery = Merged(d, legacy)

\* A plan depends on the delivery, and on the payload if the delivery leaves something open.
LEMMA SamePlan ==
  ASSUME NEW i, NEW j, Built(i) = Built(j), i.payload = j.payload,
         Built(i) = None => i.top = j.top
  PROVE  Plan(i) = Plan(j)
BY DEF Plan

LEMMA SamePlanStripped ==
  ASSUME NEW i, IsJob(i), NEW j, IsJob(j), Built(j) = Built(i), IsSettings(Built(i)),
         j.payload = Without(i.payload, Legacy),
         Get(Built(i), "mode") \in {"none", "announce"},
         Or(Get(Built(i), "best"), Get(i.payload, "best")) = Get(Built(i), "best"),
         Or(Get(Built(i), "to"), Neat(Get(i.payload, "to"), Trim)) = Get(Built(i), "to"),
         Or(Get(Built(i), "channel"), Neat(Get(i.payload, "channel"), Lower)) = Get(Built(i), "channel")
  PROVE  Plan(j) = Plan(i)
<1> DEFINE d == Built(i)
           P(p) == Tidied(Tidied(p, "channel", Lower), "to", Trim)
           best(p) == Or(Or(Get(d, "best"), Get(p, "best")), FALSE)
           channel(p) == Or(Or(Get(d, "channel"), Get(P(p), "channel")), LastRoute)
           to(p) == Or(Get(d, "to"), Get(P(p), "to"))
           p == i.payload
           q == j.payload
<1>1. d # None
  BY SettingsAreNotNone
<1>2. IsSettings(p) /\ IsSettings(q)
  BY DEF IsJob
<1>3. /\ Get(P(p), "channel") = Neat(Get(p, "channel"), Lower)
      /\ Get(P(p), "to") = Neat(Get(p, "to"), Trim)
      /\ Get(P(q), "channel") = Neat(Get(q, "channel"), Lower)
      /\ Get(P(q), "to") = Neat(Get(q, "to"), Trim)
  BY <1>2, GetBothTidied
<1>4. Get(q, "channel") = None /\ Get(q, "to") = None /\ Get(q, "best") = None
  BY <1>2, GetWithout DEF Legacy
<1>5. best(p) = best(q) /\ channel(p) = channel(q) /\ to(p) = to(q)
  <2> HIDE DEF d
  <2>1. Or(Get(d, "best"), Get(p, "best")) = Or(Get(d, "best"), Get(q, "best"))
    BY <1>4 DEF Or, d
  <2>2. Or(Get(d, "channel"), Get(P(p), "channel")) = Or(Get(d, "channel"), Get(P(q), "channel"))
    BY <1>3, <1>4, NeatNone DEF Or, d
  <2>3. Or(Get(d, "to"), Get(P(p), "to")) = Or(Get(d, "to"), Get(P(q), "to"))
    BY <1>3, <1>4, NeatNone DEF Or, d
  <2> QED
    BY <2>1, <2>2, <2>3
<1>6. NormalMode(d["mode"]) = Get(d, "mode")
  BY GetType, NoneIsApart DEF NormalMode, SettingFields
<1>7. CASE Get(d, "mode") = "none"
  <2>1. Plan(i) = [mode |-> "none", channel |-> None, to |-> None, best |-> best(p)]
    BY <1>1, <1>7 DEF Plan
  <2>2. Plan(j) = [mode |-> "none", channel |-> None, to |-> None, best |-> best(q)]
    BY <1>1, <1>7 DEF Plan
  <2> QED
    BY <1>5, <2>1, <2>2
<1>8. CASE Get(d, "mode") = "announce"
  <2>1. Plan(i) = [mode |-> "announce", best |-> best(p), to |-> to(p), channel |-> channel(p)]
    BY <1>1, <1>6, <1>8 DEF Plan
  <2>2. Plan(j) = [mode |-> "announce", best |-> best(q), to |-> to(q), channel |-> channel(q)]
    BY <1>1, <1>6, <1>8 DEF Plan
  <2> HIDE DEF best, channel, to
  <2> QED
    BY <1>5, <2>1, <2>2
<1> QED
  BY <1>7, <1>8

LEMMA HookMode ==
  ASSUME NEW d, IsSettings(d)
  PROVE  (Get(d, "mode") # None /\ NormalMode(d["mode"]) = "webhook") <=> Get(d, "mode") = "webhook"
BY GetType, NoneIsApart DEF NormalMode, SettingFields

LEMMA MainOnlyFields ==
  ASSUME NEW j, IsJob(j)
  PROVE  LET n == MainOnly(j) IN
         /\ n.target = j.target /\ n.kind = j.kind /\ n.payload = j.payload /\ n.top = j.top
         /\ n.delivery = IF /\ j.target = "main" /\ j.delivery # None
                            /\ Get(j.delivery, "mode") # "webhook"
                           THEN None ELSE j.delivery
<1>1. /\ [j EXCEPT !.delivery = None].target = j.target
      /\ [j EXCEPT !.delivery = None].kind = j.kind
      /\ [j EXCEPT !.delivery = None].payload = j.payload
      /\ [j EXCEPT !.delivery = None].top = j.top
      /\ [j EXCEPT !.delivery = None].delivery = None
  BY DEF IsJob, JobFields
<1>2. CASE j.target # "main" \/ j.delivery = None
  BY <1>2 DEF MainOnly
<1>3. CASE j.target = "main" /\ j.delivery # None
  <2>1. IsSettings(j.delivery)
    BY <1>3 DEF IsJob
  <2>2. MainOnly(j) = IF Get(j.delivery, "mode") = "webhook" THEN j ELSE [j EXCEPT !.delivery = None]
    BY <1>3, <2>1, HookMode DEF MainOnly
  <2> QED
    BY <1>1, <1>3, <2>2
<1> QED
  BY <1>2, <1>3

LEMMA StrippedFields ==
  ASSUME NEW j, IsJob(j), NEW d
  PROVE  LET n == [StripLegacy(j) EXCEPT !.delivery = d] IN
         /\ n.target = j.target /\ n.kind = j.kind /\ n.delivery = d
         /\ n.payload = Without(j.payload, Legacy) /\ n.top = Without(j.top, Legacy)
BY DEF IsJob, JobFields, StripLegacy

LEMMA LoadedFields ==
  ASSUME NEW j, IsJob(j)
  PROVE  LET n == Loaded(j)
             p == NormalPayload(j.payload)
             d == IF j.delivery = None THEN None ELSE NormalDelivery(j.delivery)
             l == FromLegacy(p, j.top)
         IN /\ n.target = j.target /\ n.kind = j.kind
            /\ ~Turn(j) =>
                 /\ n.payload = p /\ n.top = j.top
                 /\ n.delivery = IF j.target = "main" /\ d # None /\ Get(d, "mode") # "webhook"
                                   THEN None ELSE d
            /\ Turn(j) /\ l = None =>
                 /\ n.payload = p /\ n.top = j.top
                 /\ n.delivery = IF d = None THEN Announced ELSE d
            /\ Turn(j) /\ l # None =>
                 /\ n.payload = Without(p, Legacy) /\ n.top = Without(j.top, Legacy)
                 /\ n.delivery = IF d = None THEN NormalDelivery(l) ELSE Merged(d, l)
<1> DEFINE p == NormalPayload(j.payload)
           d == IF j.delivery = None THEN None ELSE NormalDelivery(j.delivery)
           l == FromLegacy(p, j.top)
           m == [j EXCEPT !.payload = NormalPayload(@),
                          !.delivery = IF @ = None THEN None ELSE NormalDelivery(@)]
<1>1. IsJob(m)
  BY NormalJob
<1>2. /\ m.target = j.target /\ m.kind = j.kind /\ m.payload = p /\ m.top = j.top
      /\ m.delivery = d /\ DOMAIN m = JobFields
  BY DEF IsJob, JobFields
<1>3. Turn(m) <=> Turn(j)
  BY <1>2 DEF Turn
<1>4. Loaded(j) = MainOnly(
         IF ~Turn(m) \/ (m.delivery # None /\ FromLegacy(m.payload, m.top) = None) THEN m
         ELSE IF FromLegacy(m.payload, m.top) = None THEN [m EXCEPT !.delivery = Announced]
         ELSE IF m.delivery = None
           THEN [StripLegacy(m) EXCEPT !.delivery = NormalDelivery(FromLegacy(m.payload, m.top))]
           ELSE [StripLegacy(m) EXCEPT !.delivery = Merged(@, FromLegacy(m.payload, m.top))])
  BY DEF Loaded
<1>5. StripLegacy(m).delivery = m.delivery /\ DOMAIN StripLegacy(m) = JobFields
  BY <1>2 DEF StripLegacy, JobFields
<1> HIDE DEF m, p, d, l
<1>6. Loaded(j) = MainOnly(
         IF ~Turn(j) \/ (d # None /\ l = None) THEN m
         ELSE IF l = None THEN [m EXCEPT !.delivery = Announced]
         ELSE IF d = None THEN [StripLegacy(m) EXCEPT !.delivery = NormalDelivery(l)]
         ELSE [StripLegacy(m) EXCEPT !.delivery = Merged(d, l)])
  BY <1>2, <1>3, <1>4, <1>5 DEF JobFields, l
<1>7. Turn(j) => j.target # "main"
  BY NoneIsApart DEF Turn
<1>8. CASE ~Turn(j)
  <2>1. Loaded(j) = MainOnly(m)
    BY <1>6, <1>8
  <2> QED
    BY <1>1, <1>2, <1>8, <2>1, MainOnlyFields DEF p, d
<1>9. CASE Turn(j) /\ l = None
  <2>1. CASE d # None
    <3>1. Loaded(j) = MainOnly(m)
      BY <1>6, <1>9, <2>1
    <3> QED
      BY <1>1, <1>2, <1>7, <1>9, <2>1, <3>1, MainOnlyFields DEF p, d, l
  <2>2. CASE d = None
    <3> DEFINE n == [m EXCEPT !.delivery = Announced]
    <3>1. /\ IsJob(n) /\ n.target = j.target /\ n.kind = j.kind /\ n.payload = p
          /\ n.top = j.top /\ n.delivery = Announced
      BY <1>1, <1>2, SettingsStay DEF IsJob, JobFields
    <3>2. Loaded(j) = MainOnly(n)
      BY <1>6, <1>9, <2>2
    <3> HIDE DEF n
    <3> QED
      BY <1>7, <1>9, <2>2, <3>1, <3>2, MainOnlyFields DEF p, d, l
  <2> QED
    BY <2>1, <2>2
<1>10. CASE Turn(j) /\ l # None
  <2> DEFINE e == IF d = None THEN NormalDelivery(l) ELSE Merged(d, l)
             n == [StripLegacy(m) EXCEPT !.delivery = e]
  <2>1. /\ IsSettings(p) /\ IsSettings(j.top) /\ (d # None => IsSettings(d)) /\ IsSettings(l)
    BY <1>10, SettingsStay DEF IsJob, p, d, l
  <2>2. IsSettings(e)
    BY <2>1, SettingsStay
  <2>3. Loaded(j) = MainOnly(n)
    BY <1>6, <1>10
  <2> HIDE DEF e
  <2>4. IsJob(n)
    BY <1>1, <2>2, StrippedJob
  <2>5. /\ n.target = j.target /\ n.kind = j.kind /\ n.delivery = e
        /\ n.payload = Without(p, Legacy) /\ n.top = Without(j.top, Legacy)
    BY <1>1, <1>2, StrippedFields
  <2> HIDE DEF n
  <2> QED
    BY <1>7, <1>10, <2>3, <2>4, <2>5, MainOnlyFields DEF p, d, l, e
<1> QED
  BY <1>8, <1>9, <1>10

LEMMA AnnouncedIsNormal == NormalDelivery(Announced) = Announced
<1> DEFINE n == NormalDelivery(Announced)
<1>1. IsSettings(Announced) /\ Get(Announced, "mode") = "announce"
      /\ \A k \in SettingFields \ {"mode"} : Get(Announced, k) = None
  BY SettingsStay DEF Announced, Get
<1>2. /\ IsSettings(n) /\ Get(n, "channel") = None /\ Get(n, "to") = None
      /\ Get(n, "mode") = "announce"
      /\ \A k \in {"best", "deliver", "provider"} : Get(n, k) = None
  BY <1>1, GetNormalDelivery, NeatNone DEF NormalMode, SettingFields
<1> HIDE DEF n
<1>3. \A k \in SettingFields : Get(n, k) = Get(Announced, k)
  BY <1>1, <1>2 DEF SettingFields
<1> QED
  BY <1>1, <1>2, <1>3, SettingsEqual DEF n

\* To load a job that is ready changes nothing about its plan.
LEMMA LoadedPlan ==
  ASSUME NEW j, IsJob(j), Ready(j)
  PROVE  Plan(Loaded(j)) = Plan(j)
<1> DEFINE n == Loaded(j)
           p == j.payload
           d == IF j.delivery = None THEN None ELSE NormalDelivery(j.delivery)
           l == FromLegacy(p, j.top)
<1>1. NormalPayload(p) = p /\ IsSettings(p) /\ IsSettings(j.top)
  BY NormalPayloadAgain DEF Ready, IsJob
<1>2. /\ n.target = j.target /\ n.kind = j.kind
      /\ ~Turn(j) =>
           /\ n.payload = p /\ n.top = j.top
           /\ n.delivery = IF j.target = "main" /\ d # None /\ Get(d, "mode") # "webhook"
                             THEN None ELSE d
      /\ Turn(j) /\ l = None =>
           /\ n.payload = p /\ n.top = j.top
           /\ n.delivery = IF d = None THEN Announced ELSE d
      /\ Turn(j) /\ l # None =>
           /\ n.payload = Without(p, Legacy) /\ n.top = Without(j.top, Legacy)
           /\ n.delivery = IF d = None THEN NormalDelivery(l) ELSE Merged(d, l)
  BY <1>1, LoadedFields
<1>3. j.delivery # None => d # None /\ IsSettings(d) /\ NormalDelivery(d) = d /\ Built(j) = d
  BY SettingsStay, SettingsAreNotNone, NormalDeliveryAgain DEF IsJob, Built
<1>4. IsJob(n)
  BY LoadedJob
<1>5. ASSUME n.payload = p, n.top = j.top, n.delivery = d
      PROVE  Plan(n) = Plan(j)
  <2>1. Built(n) = Built(j)
    BY <1>2, <1>3, <1>5 DEF Built
  <2> QED
    BY <1>5, <2>1, SamePlan
<1>6. CASE ~Turn(j)
  <2>1. j.target = "main" /\ d # None => Get(d, "mode") = "webhook"
    <3> SUFFICES ASSUME j.target = "main", d # None
                 PROVE  Get(d, "mode") = "webhook"
      OBVIOUS
    <3>1. j.delivery # None /\ Get(j.delivery, "mode") = "webhook" /\ IsSettings(j.delivery)
      BY DEF Ready, IsJob
    <3> QED
      BY <3>1, GetNormalDelivery DEF NormalMode
  <2>2. n.payload = p /\ n.top = j.top /\ n.delivery = d
    BY <1>2, <1>6, <2>1
  <2> QED
    BY <1>5, <2>2
<1>7. CASE Turn(j) /\ l = None
  <2>1. CASE j.delivery # None
    BY <1>2, <1>3, <1>5, <1>7, <2>1
  <2>2. CASE j.delivery = None
    <3>1. j.target = "isolated" /\ j.kind = "agentTurn"
      BY <1>7, <2>2 DEF Ready, Turn
    <3>2. n.delivery = Announced /\ n.payload = p /\ Announced # None
      BY <1>2, <1>7, <2>2, SettingsStay, SettingsAreNotNone
    <3>3. Built(n) = Announced /\ Built(j) = Announced
      BY <1>7, <2>2, <3>1, <3>2, AnnouncedIsNormal DEF Built
    <3> QED
      BY <3>2, <3>3, SamePlan
  <2> QED
    BY <2>1, <2>2
<1>8. CASE Turn(j) /\ l # None
  <2>1. PICK d0 : IsSettings(d0) /\ j.delivery = Merged(d0, l)
    BY <1>8 DEF Ready
  <2>2. Hinted(p, j.top) /\ IsNormal(p)
    BY <1>1, <1>8, LegacyIsHinted DEF Ready
  <2>3. IsSettings(l) /\ j.delivery # None
    BY <1>1, <1>8, <2>1, SettingsStay, SettingsAreNotNone
  <2>4. d = NormalDelivery(Merged(d0, l)) /\ Built(j) = d /\ d # None
    BY <1>3, <2>1, <2>3
  <2>5. /\ IsSettings(d) /\ NormalDelivery(Merged(d, l)) = d
        /\ Get(d, "mode") \in {"none", "announce"}
        /\ Or(Get(d, "best"), Get(p, "best")) = Get(d, "best")
        /\ Or(Get(d, "to"), Neat(Get(p, "to"), Trim)) = Get(d, "to")
        /\ Or(Get(d, "channel"), Neat(Get(p, "channel"), Lower)) = Get(d, "channel")
    BY <1>1, <2>1, <2>2, <2>4, MergedAgain
  <2>6. n.payload = Without(p, Legacy) /\ n.delivery = Merged(d, l)
    BY <1>2, <1>8, <2>4
  <2>7. Built(n) = d
    <3>1. Merged(d, l) # None
      BY <2>3, <2>5, SettingsStay, SettingsAreNotNone
    <3> QED
      BY <2>5, <2>6, <3>1 DEF Built
  <2> HIDE DEF n, d, l
  <2>8. /\ Built(n) = Built(j) /\ IsSettings(Built(j)) /\ n.payload = Without(j.payload, Legacy)
        /\ Get(Built(j), "mode") \in {"none", "announce"}
        /\ Or(Get(Built(j), "best"), Get(j.payload, "best")) = Get(Built(j), "best")
        /\ Or(Get(Built(j), "to"), Neat(Get(j.payload, "to"), Trim)) = Get(Built(j), "to")
        /\ Or(Get(Built(j), "channel"), Neat(Get(j.payload, "channel"), Lower)) =
             Get(Built(j), "channel")
    BY <2>4, <2>5, <2>6, <2>7
  <2>9. Plan(n) = Plan(j)
    BY <1>4, <2>8, SamePlanStripped
  <2> QED
    BY <2>9 DEF n
<1> QED
  BY <1>6, <1>7, <1>8

\* What is loaded is ready.
LEMMA LoadedIsReady ==
  ASSUME NEW j, IsJob(j)
  PROVE  Ready(Loaded(j))
<1> DEFINE n == Loaded(j)
           p == NormalPayload(j.payload)
           d == IF j.delivery = None THEN None ELSE NormalDelivery(j.delivery)
           l == FromLegacy(p, j.top)
<1>1. IsNormal(p) /\ IsSettings(p) /\ IsSettings(j.top)
  BY GetNormalPayload DEF IsJob
<1>2. d # None => IsSettings(d)
  BY SettingsStay DEF IsJob
<1>3. /\ n.target = j.target /\ n.kind = j.kind
      /\ ~Turn(j) =>
           /\ n.payload = p /\ n.top = j.top
           /\ n.delivery = IF j.target = "main" /\ d # None /\ Get(d, "mode") # "webhook"
                             THEN None ELSE d
      /\ Turn(j) /\ l = None =>
           /\ n.payload = p /\ n.top = j.top
           /\ n.delivery = IF d = None THEN Announced ELSE d
      /\ Turn(j) /\ l # None =>
           /\ n.payload = Without(p, Legacy) /\ n.top = Without(j.top, Legacy)
           /\ n.delivery = IF d = None THEN NormalDelivery(l) ELSE Merged(d, l)
  BY LoadedFields
<1> SUFFICES Ready(n)
  OBVIOUS
<1> HIDE DEF n, p, d
<1>4. Turn(n) <=> Turn(j)
  BY <1>3 DEF Turn
<1>5. Turn(j) => j.target # "main"
  BY NoneIsApart DEF Turn
<1>6. CASE ~Turn(j)
  <2>1. IsNormal(n.payload) /\ ~Turn(n)
    BY <1>1, <1>3, <1>4, <1>6
  <2>2. n.target = "main" /\ n.delivery # None => Get(n.delivery, "mode") = "webhook"
    BY <1>3, <1>6
  <2> QED
    BY <2>1, <2>2 DEF Ready
<1>7. CASE Turn(j) /\ l = None
  <2>1. n.delivery # None
    BY <1>3, <1>7, SettingsStay, SettingsAreNotNone
  <2>2. IsNormal(n.payload) /\ n.target # "main" /\ FromLegacy(n.payload, n.top) = None
    BY <1>1, <1>3, <1>5, <1>7 DEF l
  <2> QED
    BY <2>1, <2>2 DEF Ready
<1>8. CASE Turn(j) /\ l # None
  <2>1. IsSettings(l)
    BY <1>1, <1>8, SettingsStay
  <2>2. n.delivery # None
    BY <1>2, <1>3, <1>8, <2>1, SettingsStay, SettingsAreNotNone
  <2>3. FromLegacy(n.payload, n.top) = None
    BY <1>3, <1>8, NothingIsHinted
  <2>4. IsNormal(n.payload)
    <3>1. IsSettings(n.payload) /\ Get(n.payload, "provider") = None /\ Get(n.payload, "channel") = None
      BY <1>1, <1>3, <1>8, GetWithout DEF Legacy
    <3> QED
      BY <3>1, NeatNone DEF IsNormal
  <2>5. n.target # "main"
    BY <1>3, <1>5, <1>8
  <2> QED
    BY <2>2, <2>3, <2>4, <2>5 DEF Ready
<1> QED
  BY <1>6, <1>7, <1>8

LEMMA AddedIsReady ==
  ASSUME NEW raw, IsJob(raw), Valid(AddedJob(raw)), Telling(AddedJob(raw), None) # None
  PROVE  Ready(AddedJob(raw))
<1> DEFINE a == AddedJob(raw)
           target == IF raw.target # None THEN raw.target
                     ELSE CASE raw.kind = "systemEvent" -> "main"
                            [] raw.kind = "agentTurn"   -> "isolated"
                            [] OTHER                    -> None
           m == [raw EXCEPT !.target = target, !.payload = NormalPayload(@),
                            !.delivery = IF @ = None THEN None ELSE NormalDelivery(@)]
           legacy == FromLegacy(m.payload, m.top)
<1>1. a.target # None /\ (Turn(a) => FromLegacy(a.payload, a.top) = None)
  BY DEF Telling
<1>2. IsJob(a)
  BY AddedIsJob
<1>3. IsJob(m) /\ m.payload = NormalPayload(raw.payload)
  <2> HIDE DEF target
  <2>1. m.payload = NormalPayload(raw.payload)
    BY DEF IsJob, JobFields
  <2> QED
    BY <2>1, NormalJob
<1>4. a = IF ~Turn(m) \/ m.delivery # None THEN m
          ELSE IF legacy = None THEN [m EXCEPT !.delivery = Announced]
          ELSE [StripLegacy(m) EXCEPT !.delivery = NormalDelivery(legacy)]
  BY DEF AddedJob
<1>5. IsNormal(m.payload) /\ IsNormal(Without(m.payload, Legacy))
  <2>1. IsNormal(m.payload) /\ IsSettings(m.payload)
    BY <1>3, GetNormalPayload DEF IsJob
  <2>2. /\ IsSettings(Without(m.payload, Legacy)) /\ Get(Without(m.payload, Legacy), "provider") = None
        /\ Get(Without(m.payload, Legacy), "channel") = None
    BY <2>1, GetWithout DEF Legacy
  <2> QED
    BY <2>1, <2>2, NeatNone DEF IsNormal
<1> SUFFICES Ready(a)
  OBVIOUS
<1>6. Valid(a)
  OBVIOUS
<1> HIDE DEF a, m, legacy
<1>7. a.payload \in {m.payload, Without(m.payload, Legacy)}
  <2>1. [m EXCEPT !.delivery = Announced].payload = m.payload
    BY <1>3 DEF IsJob, JobFields
  <2>2. [StripLegacy(m) EXCEPT !.delivery = NormalDelivery(legacy)].payload = Without(m.payload, Legacy)
    BY <1>3, StrippedFields
  <2> QED
    BY <1>4, <2>1, <2>2
<1>8. a.target = "main" /\ a.delivery # None => Get(a.delivery, "mode") = "webhook"
  <2> SUFFICES ASSUME a.target = "main", a.delivery # None
               PROVE  Get(a.delivery, "mode") = "webhook"
    OBVIOUS
  <2>1. IsSettings(a.delivery)
    BY <1>2 DEF IsJob
  <2> QED
    BY <1>6, <2>1, HookMode DEF Valid
<1>9. Turn(a) => a.target = "isolated"
  BY <1>1 DEF Turn
<1> QED
  BY <1>1, <1>5, <1>7, <1>8, <1>9 DEF Ready

LEMMA UpdatedIsReady ==
  ASSUME NEW j, IsJob(j), IsNormal(j.payload), NEW patch \in Patches,
         Valid(Updated(j, patch)), Telling(Updated(j, patch), PatchedLegacy(patch)) # None
  PROVE  Ready(Updated(j, patch))
<1> DEFINE u == Updated(j, patch)
           Over(m, more) == [k \in DOMAIN m \cup DOMAIN more |->
                               IF k \in DOMAIN more THEN more[k] ELSE m[k]]
           p     == IF patch.payload = None THEN None ELSE NormalPayload(patch.payload)
           other == patch.kind # None /\ patch.kind # j.kind
           payload == IF p = None THEN j.payload ELSE IF other THEN p ELSE Over(j.payload, p)
           kind    == IF p # None /\ other THEN patch.kind ELSE j.kind
           top     == Over(j.top, patch.top)
           delivery == IF patch.delivery = None THEN j.delivery
                       ELSE IF patch.delivery = Null THEN None
                       ELSE Merged(IF j.delivery = None THEN Empty ELSE j.delivery,
                                   NormalDelivery(patch.delivery))
           m == [j EXCEPT !.payload = payload, !.kind = kind, !.top = top, !.delivery = delivery]
           legacy == IF p = None THEN None ELSE FromLegacy(p, Empty)
           base == IF m.delivery = None THEN Empty ELSE m.delivery
           n == [m EXCEPT !.delivery = Merged(IF @ = None THEN Empty ELSE @, legacy)]
           v == IF /\ patch.delivery = None /\ legacy # None
                   /\ m.target = "isolated" /\ m.kind = "agentTurn"
                  THEN n ELSE m
<1>1. /\ u.target # None
      /\ Turn(u) => FromLegacy(u.payload, u.top) \in {None, PatchedLegacy(patch)}
  BY DEF Telling
<1>2. IsJob(u) /\ Valid(u)
  BY UpdatedIsJob
<1>3. DOMAIN j = JobFields /\ IsSettings(j.payload)
  BY DEF IsJob
<1>4. u = MainOnly(v)
  BY <1>3 DEF Updated, JobFields
<1>5. patch.payload # None => IsNormal(p) /\ p # None
  BY InputsAssumption, GetNormalPayload, SettingsAreNotNone DEF IsNormal
<1>6. IsNormal(payload)
  <2>1. ASSUME p # None
        PROVE  IsNormal(Over(j.payload, p))
    <3> DEFINE o == Over(j.payload, p)
    <3>1. IsNormal(p) /\ IsSettings(p)
      BY <1>5, <2>1 DEF IsNormal
    <3>2. IsSettings(o)
      BY <1>3, <3>1 DEF IsSettings
    <3>3. \A k \in SettingFields : Get(o, k) = Or(Get(p, k), Get(j.payload, k))
      <4> HIDE DEF p
      <4> SUFFICES ASSUME NEW k \in SettingFields
                   PROVE  Get(o, k) = Or(Get(p, k), Get(j.payload, k))
        OBVIOUS
      <4>1. CASE k \in DOMAIN p
        <5>1. Get(o, k) = p[k]
          BY <4>1 DEF Get
        <5>2. Get(p, k) = p[k] /\ Get(p, k) # None
          BY <3>1, <4>1, GetType
        <5> QED
          BY <5>1, <5>2 DEF Or
      <4>2. CASE k \notin DOMAIN p
        BY <4>2 DEF Get, Or
      <4> QED
        BY <4>1, <4>2
    <3> HIDE DEF o, p
    <3>4. /\ Get(o, "channel") = Or(Get(p, "channel"), Get(j.payload, "channel"))
          /\ Get(o, "provider") = Or(Get(p, "provider"), Get(j.payload, "provider"))
      BY <3>3 DEF SettingFields
    <3>5. IsNormal(o)
      BY <3>1, <3>2, <3>4 DEF IsNormal, Or
    <3> QED
      BY <3>5 DEF o
  <2> HIDE DEF p, other
  <2> QED
    BY <1>5, <2>1 DEF p
<1> HIDE DEF payload, kind, top, delivery
<1>7. /\ m.target = j.target /\ m.kind = kind /\ m.payload = payload /\ m.top = top
      /\ m.delivery = delivery /\ DOMAIN m = JobFields
  BY <1>3 DEF JobFields
<1> HIDE DEF m, legacy
<1>8. /\ n.target = m.target /\ n.kind = m.kind /\ n.payload = m.payload /\ n.top = m.top
      /\ n.delivery = Merged(base, legacy)
  BY <1>7 DEF JobFields
<1> HIDE DEF n
<1>9. v.target = m.target /\ v.kind = m.kind /\ v.payload = m.payload /\ v.top = m.top
  BY <1>8
<1>10. /\ u.target = m.target /\ u.kind = m.kind /\ u.payload = payload /\ u.top = m.top
       /\ u.target # "main" => u.delivery = v.delivery
  <2> HIDE DEF v
  <2>1. /\ MainOnly(v).target = v.target
        /\ \/ MainOnly(v) = v
           \/ v.target = "main" /\ MainOnly(v) = [v EXCEPT !.delivery = None]
    <3>1. DOMAIN v = JobFields
      BY <1>7 DEF v, n, JobFields
    <3> QED
      BY <3>1 DEF MainOnly, JobFields
  <2>2. DOMAIN v = JobFields
    BY <1>7 DEF v, n, JobFields
  <2> QED
    BY <1>4, <1>7, <1>9, <2>1, <2>2 DEF JobFields
<1> SUFFICES Ready(u)
  OBVIOUS
<1> HIDE DEF u, v
<1>11. u.target = "main" /\ u.delivery # None => Get(u.delivery, "mode") = "webhook"
  <2> SUFFICES ASSUME u.target = "main", u.delivery # None
               PROVE  Get(u.delivery, "mode") = "webhook"
    OBVIOUS
  <2>1. IsSettings(u.delivery)
    BY <1>2 DEF IsJob
  <2> QED
    BY <1>2, <2>1, HookMode DEF Valid
<1>12. Turn(u) => u.target = "isolated" /\ u.kind = "agentTurn"
  BY <1>1 DEF Turn
<1>13. ASSUME Turn(u), FromLegacy(u.payload, u.top) # None
       PROVE  \E d : IsSettings(d) /\ u.delivery = Merged(d, FromLegacy(u.payload, u.top))
  <2>1. FromLegacy(u.payload, u.top) = PatchedLegacy(patch) /\ PatchedLegacy(patch) # None
    BY <1>1, <1>13
  <2>2. patch.delivery = None /\ patch.payload # None
        /\ PatchedLegacy(patch) = FromLegacy(NormalPayload(patch.payload), Empty)
    BY <2>1 DEF PatchedLegacy
  <2>3. legacy = FromLegacy(u.payload, u.top) /\ legacy # None
    BY <1>5, <2>1, <2>2 DEF legacy
  <2>4. m.target = "isolated" /\ m.kind = "agentTurn" /\ u.target # "main"
    BY <1>10, <1>12, <1>13
  <2>5. u.delivery = Merged(base, legacy)
    BY <1>8, <1>10, <2>2, <2>3, <2>4 DEF v
  <2>6. IsSettings(base)
    <3>1. m.delivery # None => IsSettings(m.delivery)
      BY <1>7, <2>2 DEF delivery, IsJob
    <3> QED
      BY <3>1, SettingsStay
  <2> QED
    BY <2>3, <2>5, <2>6
<1> QED
  BY <1>6, <1>10, <1>11, <1>12, <1>13 DEF Ready

HoldsInv == AnnounceInv /\ PlanHolds

\* A load leaves what was told, and the next one will too.
LEMMA LoadHolds ==
  ASSUME HoldsInv, job # None, job' = Loaded(job), UNCHANGED told
  PROVE  PlanHolds'
<1>1. IsJob(job)
  BY DEF HoldsInv, AnnounceInv
<1>2. Plan(Loaded(Loaded(job))) = Plan(Loaded(job))
  BY <1>1, LoadedJob, LoadedIsReady, LoadedPlan
<1> QED
  BY <1>2 DEF HoldsInv, PlanHolds

LEMMA HoldsStep ==
  ASSUME HoldsInv, [AnnounceNext]_announceVars
  PROVE  HoldsInv'
<1>1. AnnounceInv'
  BY AnnounceStep DEF HoldsInv
<1>2. CASE UNCHANGED <<job, told>>
  BY <1>1, <1>2 DEF HoldsInv, PlanHolds
<1>3. ASSUME NEW raw \in Jobs, AddJob(raw)
      PROVE  PlanHolds'
  <2>1. IsJob(raw) /\ IsJob(AddedJob(raw))
    BY AddedIsJob, InputsAssumption
  <2>2. Valid(AddedJob(raw)) /\ job' = AddedJob(raw) /\ told' = Telling(AddedJob(raw), None)
    BY <1>3 DEF AddJob
  <2>3. ASSUME told' # None
        PROVE  Plan(Loaded(job')) = told'
    <3>1. told' = Plan(AddedJob(raw))
      BY <2>2, <2>3 DEF Telling
    <3> QED
      BY <2>1, <2>2, <2>3, <3>1, AddedIsReady, LoadedPlan
  <2> QED
    BY <2>3 DEF PlanHolds
<1>4. ASSUME NEW patch \in Patches, UpdateJob(patch)
      PROVE  PlanHolds'
  <2> DEFINE u == Updated(Loaded(job), patch)
  <2>1. job # None /\ IsJob(Loaded(job)) /\ IsNormal(Loaded(job).payload) /\ IsJob(u)
    BY <1>4, LoadedJob, LoadedIsReady, UpdatedIsJob DEF UpdateJob, HoldsInv, AnnounceInv, Ready
  <2>2. \/ job' = Loaded(job) /\ UNCHANGED told
        \/ Valid(u) /\ job' = u /\ told' = Telling(u, PatchedLegacy(patch))
    BY <1>4 DEF UpdateJob
  <2>3. ASSUME Valid(u), job' = u, told' = Telling(u, PatchedLegacy(patch)), told' # None
        PROVE  Plan(Loaded(job')) = told'
    <3>1. told' = Plan(u)
      BY <2>3 DEF Telling
    <3>2. Ready(u)
      BY <2>1, <2>3, UpdatedIsReady
    <3> HIDE DEF u
    <3> QED
      BY <2>1, <2>3, <3>1, <3>2, LoadedPlan
  <2> HIDE DEF u
  <2> QED
    BY <2>1, <2>2, <2>3, LoadHolds DEF PlanHolds
<1>5. ASSUME ListJobs
      PROVE  PlanHolds'
  <2>1. job # None /\ job' = Loaded(job) /\ UNCHANGED told
    BY <1>5 DEF ListJobs
  <2> QED
    BY <2>1, LoadHolds
<1>6. ASSUME NEW empty \in BOOLEAN, NEW up \in BOOLEAN, RunJob(empty, up)
      PROVE  PlanHolds'
  BY <1>6, LoadHolds DEF RunJob
<1>7. \/ UNCHANGED <<job, told>>
      \/ \E raw \in Jobs : AddJob(raw)
      \/ \E patch \in Patches : UpdateJob(patch)
      \/ ListJobs
      \/ \E empty, up \in BOOLEAN : RunJob(empty, up)
  BY DEF AnnounceNext, announceVars, Incoming, Reply, Heartbeat, Tick
<1> QED
  BY <1>1, <1>2, <1>3, <1>4, <1>5, <1>6, <1>7 DEF HoldsInv

(* What the user is told of a job when it is added or changed holds when it *)
(* runs, however often jobs.json is loaded in between (load_jobs migrates    *)
(* older fields and drops a main job's delivery each time), for any jobs,    *)
(* patches and texts.                                                       *)
THEOREM PlanHoldsCorrect == AnnounceSpec => []PlanHolds
<1>1. AnnounceInit => HoldsInv
  BY AnnounceInitInv DEF HoldsInv, AnnounceInit, PlanHolds
<1>2. HoldsInv /\ [AnnounceNext]_announceVars => HoldsInv'
  BY HoldsStep
<1>3. HoldsInv => PlanHolds
  BY DEF HoldsInv
<1> QED
  BY <1>1, <1>2, <1>3, PTL DEF AnnounceSpec
=============================================================================
