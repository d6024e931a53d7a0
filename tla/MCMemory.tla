------------------------------- MODULE MCMemory -------------------------------
(***************************************************************************)
(* Small instances of the two that read what others write meanwhile, Memory *)
(* and TaskFollow; they share no state: a behaviour is one of either.       *)
(* MemoryPaths has no state; the paths here are those of a small workspace  *)
(* with a directory of notes.                                               *)
(***************************************************************************)
EXTENDS Memory, MemoryPaths, TaskFollow

CONSTANTS note, s1, s2, thread, tools

CONSTANTS main, dir, dotted, sessions, state
SmallNames   == {main, dir, dotted, sessions, state, note}
NoDots       == [n \in SmallNames |-> IF n = dotted THEN note ELSE n]
Path(names)  == [inside |-> TRUE, names |-> names]
SmallFiles   == {Path(<<main>>), Path(<<dir, note>>), Path(<<dotted, note>>)}
SmallDirs    == {Path(<<dir>>), Path(<<dotted>>)}
SmallExtras  == {Path(<<dotted>>)}
SmallState   == [inside |-> FALSE, names |-> <<state>>]

VARIABLE part           \* which of the two
allVars == <<vars, followVars, part>>

Syncs(A)   == part = "memory" /\ A /\ UNCHANGED <<followVars, part>>
Tails(A) == part = "follow" /\ A /\ UNCHANGED <<vars, part>>
ReadersInit == Init /\ FollowInit /\ part \in {"memory", "follow"}
ReadersSpec ==
  /\ ReadersInit
  /\ [][Syncs(Next) \/ Tails(FollowNext)]_allVars
  /\ \A s \in Syncers : WF_allVars(Syncs(Step(s)))
  /\ WF_allVars(Tails(Follow))
=============================================================================
