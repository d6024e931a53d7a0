------------------------------- MODULE MCRules -------------------------------
(***************************************************************************)
(* The rules that decide without waiting for anybody: instants of schedules, *)
(* deliveries of jobs and answers, exports of plugins.  A behaviour is of   *)
(* one of the four kinds.                                                   *)
(***************************************************************************)
EXTENDS MCAnnounce, CronSchedule, PluginRules, PluginSources

SmallSchedules ==
  [kind : {"at"}, ms : 0..4, anchor : {NoTime}]
    \cup [kind : {"every"}, ms : 1..4, anchor : 0..5 \cup {NoTime}]
    \cup [kind : {"cron"}, ms : 1..4, anchor : {NoTime}]

\* Two plugins with some of three servers, in any order, of which one has the name
\* that another gets by joining; and three plugins of which two join alike.
PrefixedNames ==
  [id \in {"p", "q", "q-r"}, name \in {"git", "db", "q-git", "r-git"} |-> id \o "-" \o name]
Servers(id, perms, names) ==
  [i \in DOMAIN names |-> [plugin |-> id, perms |-> perms, name |-> names[i]]]
Free     == [allow |-> {}, deny |-> {}]
Allowing == [allow : {{}, {"git", "q-git"}}, deny : {{}, {"db"}}]
Orders(names) == UNION {SetToSeqs(s) : s \in SUBSET names}
SomeExports ==
  [policy : {[allow |-> l.allow, deny |-> l.deny, off |-> o] : l \in Allowing, o \in {{}, {"q"}}},
   servers : {Servers("p", l, s) \o Servers("q", Free, t) :
                l \in Allowing, s, t \in Orders({"git", "db", "q-git"})}]
  \cup
  [policy : {[allow |-> {}, deny |-> {}, off |-> {}]},
   servers : {Servers("p", Free, s) \o Servers("q", Free, t) \o Servers("q-r", Free, u) :
                s, t, u \in Orders({"git", "r-git"})}]

\* Sources of plugins: two words for owners, of which one is the lower case of
\* the other.  What is proved of them is tried here on a few.
CONSTANTS upper, lower, url, hub, otherHub
SomeTokens == {upper, lower}
SomeWords  == {"package", "plugins", "repo"} \cup SomeTokens
Lowercase  ==
  [w \in SomeWords \cup {NoWord, Dot, DotDot, Tilde, Absent} |->
     CASE w = upper -> lower
       [] w \in {NoWord, Dot, DotDot, Absent} -> Absent
       [] w = Tilde -> "package"
       [] OTHER -> w]
Repositories ==
  [p \in SomeTokens \X SomeTokens |-> IF p[1] = p[2] THEN hub ELSE otherHub]

SomePaths == UNION {[1..n -> {NoWord, upper, lower, Dot}] : n \in 0..4}
SmallTexts ==
  {t \in [place : {url} \cup SomePaths,
          hint : {Absent} \cup UNION {[1..n -> {NoWord, upper}] : n \in 0..3}] : t \in SourceTexts}
ASSUME SpecsAreReadBack ==
  \A t \in SmallTexts : LET source == GitSource(t) IN
    source # Absent => GitSource(GitSpec(source)) = source

SomeFields ==
  {[NoFields EXCEPT !.id = i, !.name = n, !.version = v, !.schema = b] :
     i, n \in {Absent, NoWord, upper}, v \in {Absent, lower}, b \in BOOLEAN}
SmallDirs ==
  [name : {Absent, upper, Tilde}, looks : BOOLEAN, openclaw : SomeFields \cup {Absent, Broken},
   cowork : SomeFields \cup {Absent, Broken}, package : {Absent, Broken, NoFields}]
ASSUME CopiesAreSame ==
  \A d \in SmallDirs :
    Manifest(d) # Absent => Manifest(Named(d, Manifest(d).id)) = Manifest(d)

VARIABLE part           \* which of the four

planVars == <<sched, clock, planned>>
ruleVars == <<announceVars, planVars, export, part>>

NoPlan   == /\ sched = [kind |-> "cron", ms |-> 1, anchor |-> NoTime]
            /\ clock = 0 /\ planned = NextRunAfter(sched, 0)
NoExport == export = [policy |-> Free, servers |-> <<>>, done |-> 0, out |-> <<>>]
Init ==
  \/ part = "plans" /\ PlanInit /\ AnnounceInit /\ NoExport
  \/ part \in {"settings", "talks"} /\ AnnounceInit /\ NoPlan /\ NoExport
  \/ part = "exports" /\ ExportInit /\ AnnounceInit /\ NoPlan
Next ==
  /\ UNCHANGED part
  /\ \/ part = "plans" /\ PlanAgain /\ UNCHANGED <<announceVars, export>>
     \/ part = "settings" /\ AnnounceNext /\ UNCHANGED <<planVars, export>>
     \/ part = "talks" /\ Talks!AnnounceNext /\ UNCHANGED <<planVars, export>>
     \/ part = "exports" /\ ExportNext /\ UNCHANGED <<announceVars, planVars>>
RulesSpec == Init /\ [][Next]_ruleVars
=============================================================================
