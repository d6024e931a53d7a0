------------------------------- MODULE AuditLog -------------------------------
(***************************************************************************)
(* The audit log of a task run (clawdex/src/audit.rs) and the rows it goes  *)
(* with (task_db.rs, artifacts.rs).                                         *)
(*                                                                         *)
(* Writers (the thread of the run, an MCP server that serves its tools, a   *)
(* command that cancels it) record events, approvals and artifacts: a row   *)
(* in SQLite and an entry in audit/<run>.jsonl, which names the hash of the *)
(* last entry that can be read.  An entry is appended in two writes, its    *)
(* text and its end; texts that meet on one line cannot be read.  A writer  *)
(* may stop between any two steps, for an error or because it is killed.    *)
(* The log of events, which no part of the program reads, is left out.      *)
(***************************************************************************)
EXTENDS Naturals, Sequences

CONSTANTS
  Writers,
  RecordKinds,          \* of records that are made
  NoFile,
  Newline,
  MaxRecords,           \* bound: records
  MaxStops              \* bound: writers that stop half-way

ASSUME KindsAssumption ==
  RecordKinds \subseteq {"event", "tool", "approval", "artifact", "snapshot"}
ASSUME RecordsAssumption == MaxRecords \in Nat /\ MaxStops \in Nat
ASSUME NewlineAssumption == Newline \notin [of : Nat, n : Nat, prev : {NoFile} \cup (Nat \X Nat)]

VARIABLES
  rows,                 \* ids in the tables events, approvals and artifacts
  audit,                \* audit/<run>.jsonl: entries and Newline
  document,             \* the content of the one artifact file
  sha,                  \* the hash in the newest row of artifacts
  writer,               \* [Writers -> the record it makes]
  made, stops,          \* counters
  races                 \* history: kinds of steps that have overlapped

tables    == <<rows, sha>>
auditVars == <<tables, audit, document, writer, made, stops, races>>

-----------------------------------------------------------------------------
(* A record is a sequence of steps; an entry is "last", "entry", "end".     *)
Records ==
  [event    |-> <<"row", "last", "entry", "end">>,
   tool     |-> <<"row", "last", "entry", "end", "last", "entry", "end">>,
   approval |-> <<"row", "last", "entry", "end">>,
   artifact |-> <<"save", "hash", "artifactRow", "last", "entry", "end",
                  "row", "last", "entry", "end">>,
   snapshot |-> <<"last", "entry", "end">>]

NoRecord == [todo |-> <<>>, id |-> 0, hash |-> NoFile, prev |-> NoFile]

AuditInit ==
  /\ rows = {} /\ audit = <<>> /\ document = NoFile /\ sha = NoFile
  /\ writer = [w \in Writers |-> NoRecord]
  /\ made = 0 /\ stops = 0 /\ races = {}

-----------------------------------------------------------------------------
(* read_json_lines skips what does not parse: any line with two texts.      *)
Alone(f, i) ==
  /\ f[i] # Newline
  /\ i = 1 \/ f[i - 1] = Newline
  /\ i = Len(f) \/ f[i + 1] = Newline
Readable(f) == {i \in DOMAIN f : Alone(f, i)}

(* The hash of an entry stands for the entry: the n-th last of its record.  *)
Hash(e) == <<e.of, e.n>>
\* Faulty: the last line counts whether it parses or not.
LastHashRaw ==
  LET texts == {i \in DOMAIN audit : audit[i] # Newline} IN
  IF texts = {} THEN NoFile ELSE Hash(audit[CHOOSE i \in texts : \A j \in texts : j <= i])

LastHash ==
  IF Readable(audit) = {} THEN NoFile
  ELSE Hash(audit[CHOOSE i \in Readable(audit) : \A j \in Readable(audit) : j <= i])

-----------------------------------------------------------------------------
(* Writers.                                                                 *)

Writing(w, step) == writer[w].todo # <<>> /\ Head(writer[w].todo) = step
Proceeds(w) ==
  LET r == writer[w] IN
  writer' = [writer EXCEPT ![w] = IF Len(r.todo) = 1 THEN NoRecord
                                  ELSE [r EXCEPT !.todo = Tail(@)]]
Counts == UNCHANGED <<made, stops>>

(* Another writer is between its look at the file and its own change.       *)
Within(kind) == IF kind = "audit" THEN {"entry", "end"} ELSE {"hash", "artifactRow"}
Races(w, kind) ==
  races' = races \cup {k \in {kind} : \E o \in Writers \ {w}, s \in Within(kind) : Writing(o, s)}

Begin(w) ==
  /\ writer[w] = NoRecord /\ made < MaxRecords
  /\ \E kind \in RecordKinds :
       writer' = [writer EXCEPT ![w] = [NoRecord EXCEPT !.todo = Records[kind],
                                                    !.id = made + 1]]
  /\ made' = made + 1
  /\ UNCHANGED <<tables, audit, document, stops, races>>

InsertRow(w) ==
  /\ Writing(w, "row")
  /\ rows' = rows \cup {writer[w].id}
  /\ Proceeds(w) /\ UNCHANGED <<sha, audit, document, races>> /\ Counts

(* The document is saved and then read again for its hash.                  *)
SaveFile(w) ==
  /\ Writing(w, "save")
  /\ document' = writer[w].id
  /\ Races(w, "artifact")
  /\ Proceeds(w) /\ UNCHANGED <<tables, audit>> /\ Counts

HashFile(w) ==
  /\ Writing(w, "hash")
  /\ writer' = [writer EXCEPT ![w].todo = Tail(@), ![w].hash = document]
  /\ UNCHANGED <<tables, audit, document, races>> /\ Counts

InsertArtifact(w) ==
  /\ Writing(w, "artifactRow")
  /\ rows' = rows \cup {writer[w].id} /\ sha' = writer[w].hash
  /\ Proceeds(w) /\ UNCHANGED <<audit, document, races>> /\ Counts

ReadLastHash(w) ==
  /\ Writing(w, "last")
  /\ writer' = [writer EXCEPT ![w].todo = Tail(@), ![w].prev = LastHash]
  /\ Races(w, "audit")
  /\ UNCHANGED <<tables, audit, document>> /\ Counts

AppendEntry(w) ==
  /\ Writing(w, "entry")
  /\ audit' = Append(audit, [of |-> writer[w].id, n |-> Len(writer[w].todo),
                             prev |-> writer[w].prev])
  /\ Proceeds(w) /\ UNCHANGED <<tables, document, races>> /\ Counts

EndEntry(w) ==
  /\ Writing(w, "end")
  /\ audit' = Append(audit, Newline)
  /\ Proceeds(w) /\ UNCHANGED <<tables, document, races>> /\ Counts

(* An error ends the record, a kill the process.                            *)
Stop(w) ==
  /\ writer[w] # NoRecord /\ stops < MaxStops
  /\ writer' = [writer EXCEPT ![w] = NoRecord] /\ stops' = stops + 1
  /\ UNCHANGED <<tables, audit, document, made, races>>

Inserts(w) == InsertRow(w) \/ SaveFile(w) \/ HashFile(w) \/ InsertArtifact(w)
Appends(w) == ReadLastHash(w) \/ AppendEntry(w) \/ EndEntry(w)

AuditNext == \E w \in Writers : Begin(w) \/ Inserts(w) \/ Appends(w) \/ Stop(w)
AuditSpec == AuditInit /\ [][AuditNext]_auditVars

-----------------------------------------------------------------------------
(* Properties.                                                              *)

(* The entries of the audit log that can be read form one chain, whoever    *)
(* wrote them and wherever a writer stopped, unless two writers were        *)
(* between the look at the last hash and the end of their lines at once.    *)
ChainIsLinear ==
  "audit" \notin races =>
    \A i, j \in Readable(audit) :
      i < j /\ (\A k \in Readable(audit) : k <= i \/ k >= j) =>
        audit[j].prev = Hash(audit[i])

=============================================================================
