-------------------------------- MODULE Memory --------------------------------
(***************************************************************************)
(* The memory index (clawdex/src/memory.rs): an SQLite copy of the Markdown *)
(* files of a workspace and of session transcripts, brought up to date by   *)
(* every search, every memory_write and the daemon's timer (ensure_index).  *)
(*                                                                         *)
(* A sync lists the files and, one after the other, reads the modification  *)
(* time and the text of each, skips it if memory_files has that time, or    *)
(* else replaces its rows in memory_fts and memory_embeddings.  At the end  *)
(* it removes what it did not come across.  Each statement is a step;       *)
(* several processes may sync at once, and any of them may be killed.       *)
(*                                                                         *)
(* The text of a file is the number of its version, which stands for its    *)
(* modification time and size too; its chunks are embedded in Parts, one    *)
(* batch each.  Ranking, the schema's version and statements that SQLite    *)
(* refuses as busy are left out.                                            *)
(***************************************************************************)
EXTENDS Naturals, FiniteSets, Functions

CONSTANTS
  Files,                \* the files that may exist
  Sessions,             \* those of them that are transcripts
  Syncers,              \* processes that search or sync
  Parts,                \* batches of chunks in a file; {}: no provider
  None,
  MaxVersion,           \* bound: versions of a file
  MaxKills              \* bound: processes killed in a sync

ASSUME SessionsAssumption == Sessions \subseteq Files
ASSUME PartsAssumption    == IsFiniteSet(Parts)
ASSUME NoneAssumption     == None \notin Nat /\ None \notin Files
ASSUME BoundsAssumption   == MaxVersion \in Nat /\ MaxKills \in Nat

VARIABLES
  disk,                 \* [Files -> None or a version]
  latest,               \* [Files -> the last version written]
  indexed,              \* [Files -> None or a version]: memory_files
  texts,                \* [Files -> [Versions -> copies]]: memory_fts
  vectors,              \* [Files -> [Parts -> None or a version]]: memory_embeddings
  waiting,              \* files whose next_retry_ms lies ahead
  sync,                 \* [Syncers -> where it is in ensure_index]
  kills,
  overlapped            \* history: two syncs have run at the same time

world == <<disk, latest>>
index == <<indexed, texts, vectors, waiting>>
vars  == <<world, index, sync, kills, overlapped>>

-----------------------------------------------------------------------------
Versions  == 1..MaxVersion
NoText    == [v \in Versions |-> 0]
NoVectors == [p \in Parts |-> None]

(* list: files to do; active: files met; body, stat: the text and the time  *)
(* of file; todo: batches to embed; replaces: from backfill_embeddings;     *)
(* seen: history, the files on the disk when the sync began.                *)
Idle == [at |-> "idle", keys |-> {}, list |-> {}, active |-> {}, file |-> None,
         stat |-> None, body |-> None, todo |-> {}, replaces |-> FALSE,
         seen |-> [f \in Files |-> None]]

Init ==
  /\ disk = [f \in Files |-> None] /\ latest = [f \in Files |-> 0]
  /\ indexed = disk
  /\ texts = [f \in Files |-> NoText] /\ vectors = [f \in Files |-> NoVectors]
  /\ waiting = {}
  /\ sync = [s \in Syncers |-> Idle]
  /\ kills = 0 /\ overlapped = FALSE

At(s, pc)     == sync[s].at = pc
Becomes(s, r) == sync' = [sync EXCEPT ![s] = r]
Goes(s, pc)   == Becomes(s, [sync[s] EXCEPT !.at = pc])
file(s)       == sync[s].file
Present(fs)   == {f \in fs : disk[f] # None}
Still         == UNCHANGED <<world, kills, overlapped>>
Unindexed     == UNCHANGED index /\ Still

-----------------------------------------------------------------------------
(* The files: memory_write, editors and sessions write and remove them.     *)

WriteFile(f) ==
  /\ latest[f] < MaxVersion
  /\ latest' = [latest EXCEPT ![f] = @ + 1]
  /\ disk' = [disk EXCEPT ![f] = latest'[f]]
  /\ UNCHANGED <<index, sync, kills, overlapped>>

RemoveFile(f) ==
  /\ disk[f] # None
  /\ disk' = [disk EXCEPT ![f] = None]
  /\ UNCHANGED <<latest, index, sync, kills, overlapped>>

(* The wait after a failed embedding is over.                               *)
Elapse(f) ==
  /\ f \in waiting
  /\ waiting' = waiting \ {f}
  /\ UNCHANGED <<indexed, texts, vectors, sync>> /\ Still

-----------------------------------------------------------------------------
(* ensure_index: which files.                                               *)

(* With a session key one transcript, with session_memory all, else none.   *)
Keys == {{}, Sessions} \cup {{f} : f \in Sessions}

Start(s) ==
  /\ At(s, "idle")
  /\ \E keys \in Keys :
       Becomes(s, [Idle EXCEPT !.at = "memory", !.keys = keys,
                               !.list = Present(Files \ Sessions), !.seen = disk])
  /\ overlapped' = (overlapped \/ \E o \in Syncers \ {s} : ~At(o, "idle"))
  /\ UNCHANGED <<world, index, kills>>

(* After a file: the rest of the list it came from.                         *)
NextFile(s) ==
  Becomes(s, [sync[s] EXCEPT !.at = IF file(s) \in Sessions THEN "sessions" ELSE "memory",
                             !.file = None, !.stat = None, !.body = None,
                             !.todo = {}, !.replaces = FALSE])

ListSessions(s) ==
  /\ At(s, "memory") /\ sync[s].list = {}
  /\ Becomes(s, [sync[s] EXCEPT !.at = "sessions", !.list = Present(sync[s].keys)])
  /\ Unindexed

(* build_index_entry, build_session_entry, in the order WalkDir came across *)
(* the files: the time is read before the text; a file that vanishes in     *)
(* between ends the sync with an error.                                     *)
Stat(s) ==
  /\ sync[s].at \in {"memory", "sessions"}
  /\ \E f \in sync[s].list :
       Becomes(s, [sync[s] EXCEPT !.list = @ \ {f},
                                  !.at   = IF disk[f] = None THEN @ ELSE "read",
                                  !.file = IF disk[f] = None THEN None ELSE f,
                                  !.stat = disk[f]])
  /\ Unindexed

\* Faulty: the file is not noted among those met.
ReadUnseen(s) ==
  /\ At(s, "read")
  /\ Becomes(s, IF disk[file(s)] = None THEN Idle
                 ELSE [sync[s] EXCEPT !.at = "look", !.body = disk[file(s)]])
  /\ Unindexed

Read(s) ==
  /\ At(s, "read")
  /\ LET f == file(s) IN
     Becomes(s, IF disk[f] = None THEN Idle
                ELSE [sync[s] EXCEPT !.at = "look", !.body = disk[f], !.active = @ \cup {f}])
  /\ Unindexed

-----------------------------------------------------------------------------
(* index_file.                                                              *)

\* Faulty: a file that has a row is taken for unchanged.
LookForRow(s) ==
  /\ At(s, "look")
  /\ IF indexed[file(s)] = None THEN Goes(s, "deleteText")
     ELSE IF Parts = {} THEN NextFile(s) ELSE Goes(s, "count")
  /\ Unindexed

Look(s) ==
  /\ At(s, "look")
  /\ IF indexed[file(s)] # sync[s].stat THEN Goes(s, "deleteText")
     ELSE IF Parts = {} THEN NextFile(s) ELSE Goes(s, "count")
  /\ Unindexed

(* An unchanged file without a single vector is given some.                 *)
Count(s) ==
  /\ At(s, "count")
  /\ IF vectors[file(s)] = NoVectors /\ file(s) \notin waiting
       THEN Goes(s, "texts") ELSE NextFile(s)
  /\ Unindexed

(* backfill_embeddings takes the texts from the index, all that are there.  *)
ReadTexts(s) ==
  /\ At(s, "texts")
  /\ LET there == {v \in Versions : texts[file(s)][v] > 0} IN
     Becomes(s, [sync[s] EXCEPT !.at = "embed", !.todo = Parts \X there,
                                !.replaces = TRUE])
  /\ Unindexed

\* Faulty: the old chunks stay.
KeepText(s) ==
  /\ At(s, "deleteText") /\ Goes(s, "deleteVectors")
  /\ Unindexed

DeleteText(s) ==
  /\ At(s, "deleteText")
  /\ texts' = [texts EXCEPT ![file(s)] = NoText]
  /\ Goes(s, "deleteVectors")
  /\ UNCHANGED <<indexed, vectors, waiting>> /\ Still

DeleteVectors(s) ==
  /\ At(s, "deleteVectors")
  /\ vectors' = [vectors EXCEPT ![file(s)] = NoVectors]
  /\ Goes(s, "insert")
  /\ UNCHANGED <<indexed, texts, waiting>> /\ Still

(* One transaction.                                                         *)
Insert(s) ==
  /\ At(s, "insert")
  /\ texts' = [texts EXCEPT ![file(s)][sync[s].body] = @ + 1]
  /\ indexed' = [indexed EXCEPT ![file(s)] = sync[s].stat]
  /\ IF Parts = {} THEN NextFile(s) ELSE Goes(s, "attempt")
  /\ UNCHANGED <<vectors, waiting>> /\ Still

(* should_attempt_embeddings.                                               *)
Attempt(s) ==
  /\ At(s, "attempt")
  /\ IF file(s) \in waiting THEN NextFile(s)
     ELSE Becomes(s, [sync[s] EXCEPT !.at = "embed", !.todo = Parts \X {sync[s].body},
                                     !.replaces = FALSE])
  /\ Unindexed

(* A batch: the provider answers and its vectors are inserted.  Only a      *)
(* backfill replaces vectors that are there; an insertion fails on them.    *)
Embed(s) ==
  /\ At(s, "embed")
  /\ \E batch \in sync[s].todo :
       LET f == file(s)  p == batch[1] IN
       /\ sync[s].replaces \/ vectors[f][p] = None
       /\ vectors' = [vectors EXCEPT ![f][p] = batch[2]]
       /\ Becomes(s, [sync[s] EXCEPT !.todo = @ \ {batch}])
  /\ UNCHANGED <<indexed, texts, waiting>> /\ Still

(* An error of the provider or of the insertion.                            *)
EmbedFails(s) ==
  /\ At(s, "embed") /\ sync[s].todo # {}
  /\ waiting' = waiting \cup {file(s)}
  /\ NextFile(s)
  /\ UNCHANGED <<indexed, texts, vectors>> /\ Still

EmbedDone(s) ==
  /\ At(s, "embed") /\ sync[s].todo = {}
  /\ waiting' = waiting \ {file(s)}
  /\ NextFile(s)
  /\ UNCHANGED <<indexed, texts, vectors>> /\ Still

-----------------------------------------------------------------------------
(* The end of ensure_index: what was not met is removed.                    *)

FindStale(s) ==
  /\ At(s, "sessions") /\ sync[s].list = {}
  /\ Becomes(s, [sync[s] EXCEPT !.at = "stale",
                                 !.list = {f \in Files : indexed[f] # None} \ sync[s].active,
                                 !.active = {}, !.keys = {}])
  /\ Unindexed

DropText(s) ==
  /\ At(s, "stale")
  /\ \E f \in sync[s].list :
       /\ texts' = [texts EXCEPT ![f] = NoText]
       /\ Becomes(s, [sync[s] EXCEPT !.at = "dropVectors", !.file = f, !.list = @ \ {f}])
  /\ UNCHANGED <<indexed, vectors, waiting>> /\ Still

DropVectors(s) ==
  /\ At(s, "dropVectors")
  /\ vectors' = [vectors EXCEPT ![file(s)] = NoVectors]
  /\ Goes(s, "dropFailure")
  /\ UNCHANGED <<indexed, texts, waiting>> /\ Still

DropFailure(s) ==
  /\ At(s, "dropFailure")
  /\ waiting' = waiting \ {file(s)}
  /\ Goes(s, "dropRow")
  /\ UNCHANGED <<indexed, texts, vectors>> /\ Still

DropRow(s) ==
  /\ At(s, "dropRow")
  /\ indexed' = [indexed EXCEPT ![file(s)] = None]
  /\ Becomes(s, [sync[s] EXCEPT !.at = "stale", !.file = None])
  /\ UNCHANGED <<texts, vectors, waiting>> /\ Still

(* memory_search reads the texts of its sources; other syncs just end.      *)
Query(s) ==
  /\ At(s, "stale") /\ sync[s].list = {}
  /\ Becomes(s, Idle)
  /\ Unindexed

-----------------------------------------------------------------------------
Kill(s) ==
  /\ ~At(s, "idle") /\ kills < MaxKills
  /\ kills' = kills + 1
  /\ Becomes(s, Idle)
  /\ UNCHANGED <<world, index, overlapped>>

Lists(s)   == ListSessions(s) \/ Stat(s) \/ Read(s) \/ FindStale(s)
Indexes(s) == Look(s) \/ Count(s) \/ ReadTexts(s) \/ DeleteText(s) \/ DeleteVectors(s)
                \/ Insert(s) \/ Attempt(s) \/ Embed(s) \/ EmbedFails(s) \/ EmbedDone(s)
Drops(s)   == DropText(s) \/ DropVectors(s) \/ DropFailure(s) \/ DropRow(s)
Step(s)    == Start(s) \/ Lists(s) \/ Indexes(s) \/ Drops(s) \/ Query(s)

Next ==
  \/ \E f \in Files : WriteFile(f) \/ RemoveFile(f) \/ Elapse(f)
  \/ \E s \in Syncers : Step(s) \/ Kill(s)

Spec == Init /\ [][Next]_vars

(* A sync that has begun goes on, and another one follows it: the daemon's  *)
(* timer, or the next search.                                               *)
FairSpec == Spec /\ \A s \in Syncers : WF_vars(Step(s))

-----------------------------------------------------------------------------
(* Properties.                                                              *)

Found(f) == texts[f][disk[f]] > 0

(* While no two syncs overlapped a search sees no file twice or in two      *)
(* versions, and vectors of no other version than the text, even after a    *)
(* kill between any two statements.                                         *)
OneVersion ==
  ~overlapped =>
    \A f \in Files, v \in Versions :
      texts[f][v] > 0 =>
        /\ texts[f] = [NoText EXCEPT ![v] = 1]
        /\ Range(vectors[f]) \subseteq {v, None}

(* A search finds every memory file that has not changed since it began,    *)
(* even after kills, as long as no other sync ran at the same time.         *)
SearchIsFresh ==
  [][\A s \in Syncers : Query(s) /\ ~overlapped =>
       \A f \in Files \ Sessions :
         disk[f] # None /\ disk[f] = sync[s].seen[f] => Found(f)]_vars

(* What was written is found in the end and stays so, however many          *)
(* processes sync, unless one is killed.                                    *)
Remembered ==
  \A f \in Files \ Sessions :
    [](kills = 0) => <>[](disk[f] # None => Found(f))

=============================================================================
