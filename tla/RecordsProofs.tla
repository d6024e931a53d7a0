----------------------------- MODULE RecordsProofs -----------------------------
(***************************************************************************)
(* Theorems about what is kept beside the program: the chain of the audit   *)
(* log, the memory index and the events of a run, for any number of         *)
(* processes that write them.                                               *)
(***************************************************************************)
EXTENDS Memory, AuditLog, TaskFollow, Integers, FiniteSetTheorems, TLAPS

-----------------------------------------------------------------------------
(* The audit log.                                                           *)

AuditEntries == [of : Nat, n : Nat, prev : {NoFile} \cup (Nat \X Nat)]

\* The steps of an entry come in their order, wherever a record has got to.
Steps == {"row", "last", "entry", "end", "save", "hash", "artifactRow"}
Formed(todo) ==
  /\ todo \in Seq(Steps)
  /\ \A i \in 1..Len(todo) : i > 1 => /\ todo[i] = "entry" <=> todo[i - 1] = "last"
                                      /\ todo[i] = "end" <=> todo[i - 1] = "entry"
AuditTypeOK ==
  /\ audit \in Seq(AuditEntries \cup {Newline})
  /\ made \in Nat
  /\ DOMAIN writer = Writers
  /\ \A w \in Writers :
       /\ writer[w] = [todo |-> writer[w].todo, id |-> writer[w].id,
                       hash |-> writer[w].hash, prev |-> writer[w].prev]
       /\ Formed(writer[w].todo) /\ writer[w].id \in Nat
       /\ writer[w].prev \in {NoFile} \cup (Nat \X Nat)

\* However long a part of the log is looked at: if an entry in it can be read, one
\* of them is the last.
IsLast(i, n) == i \in Readable(audit) /\ i <= n /\ \A j \in Readable(audit) : j <= n => j <= i
LastsExist   == \A n \in 0..Len(audit) :
                  (\E i \in Readable(audit) : i <= n) => \E i \in Readable(audit) : IsLast(i, n)

\* While no two have raced, one writer at most is in the middle of an entry, and the
\* hash it has read is still that of the last entry.
InEntry(w) == Writing(w, "entry") \/ Writing(w, "end")
AuditInv ==
  /\ AuditTypeOK /\ LastsExist
  /\ "audit" \notin races =>
       /\ ChainIsLinear
       /\ \A v, w \in Writers : InEntry(v) /\ InEntry(w) => v = w
       /\ \A w \in Writers : Writing(w, "entry") => writer[w].prev = LastHash

LEMMA RecordsAreFormed ==
  ASSUME NEW kind \in RecordKinds
  PROVE  /\ Formed(Records[kind]) /\ Records[kind] # <<>>
         /\ Head(Records[kind]) \notin {"entry", "end"}
<1>1. kind \in {"event", "tool", "approval", "artifact", "snapshot"}
  BY KindsAssumption
<1>2. PICK t : t = Records[kind]
  OBVIOUS
<1>3. t \in Seq(Steps) /\ t # <<>> /\ Head(t) \notin {"entry", "end"}
  <2>1. CASE kind = "event"
    BY <2>1, <1>2 DEF Records, Steps
  <2>2. CASE kind = "approval"
    BY <2>2, <1>2 DEF Records, Steps
  <2>3. CASE kind = "tool"
    BY <2>3, <1>2 DEF Records, Steps
  <2>4. CASE kind = "artifact"
    BY <2>4, <1>2 DEF Records, Steps
  <2>5. CASE kind = "snapshot"
    BY <2>5, <1>2 DEF Records, Steps
  <2> QED
    BY <1>1, <2>1, <2>2, <2>3, <2>4, <2>5
<1>4. ASSUME NEW i \in 1..Len(t), i > 1
      PROVE  (t[i] = "entry" <=> t[i - 1] = "last") /\ (t[i] = "end" <=> t[i - 1] = "entry")
  <2>1. CASE kind = "event"
    BY <2>1, <1>2, <1>4 DEF Records
  <2>5. CASE kind = "approval"
    BY <2>5, <1>2, <1>4 DEF Records
  <2>2. CASE kind = "tool"
    BY <2>2, <1>2, <1>4 DEF Records
  <2>3. CASE kind = "artifact"
    BY <2>3, <1>2, <1>4 DEF Records
  <2>4. CASE kind = "snapshot"
    BY <2>4, <1>2, <1>4 DEF Records
  <2> QED
    BY <1>1, <2>1, <2>2, <2>3, <2>4, <2>5
<1> QED
  BY <1>2, <1>3, <1>4 DEF Formed

\* What is left after a step.
LEMMA RestIsFormed ==
  ASSUME NEW todo, Formed(todo), todo # <<>>
  PROVE  /\ Formed(Tail(todo))
         /\ Tail(todo) # <<>> =>
              /\ Head(Tail(todo)) = "entry" <=> Head(todo) = "last"
              /\ Head(Tail(todo)) = "end" <=> Head(todo) = "entry"
         /\ Len(todo) = 1 <=> Tail(todo) = <<>>
<1>1. /\ Tail(todo) \in Seq(Steps) /\ Len(Tail(todo)) = Len(todo) - 1 /\ Len(todo) \in Nat
      /\ Len(todo) > 0
      /\ \A i \in 1..Len(Tail(todo)) : Tail(todo)[i] = todo[i + 1]
  BY DEF Formed
<1>2. ASSUME NEW i \in 1..Len(Tail(todo)), i > 1
      PROVE  /\ Tail(todo)[i] = "entry" <=> Tail(todo)[i - 1] = "last"
             /\ Tail(todo)[i] = "end" <=> Tail(todo)[i - 1] = "entry"
  <2>1. /\ i + 1 \in 1..Len(todo) /\ i + 1 > 1 /\ (i + 1) - 1 = i
        /\ i - 1 \in 1..Len(Tail(todo)) /\ (i - 1) + 1 = i
    BY <1>1, <1>2
  <2>2. Tail(todo)[i] = todo[i + 1] /\ Tail(todo)[i - 1] = todo[i]
    BY <1>1, <2>1
  <2> QED
    BY <2>1, <2>2 DEF Formed
<1>3. Formed(Tail(todo))
  BY <1>1, <1>2 DEF Formed
<1>4. Tail(todo) # <<>> => 2 \in 1..Len(todo) /\ Head(Tail(todo)) = todo[2] /\ Head(todo) = todo[1]
  BY <1>1
<1>5. Tail(todo) # <<>> => /\ todo[2] = "entry" <=> todo[1] = "last"
                           /\ todo[2] = "end" <=> todo[1] = "entry"
  <2>1. 2 > 1 /\ 2 - 1 = 1
    OBVIOUS
  <2> QED
    BY <2>1, <1>4 DEF Formed
<1>6. Len(todo) = 1 <=> Tail(todo) = <<>>
  BY SMTT(30), <1>1
<1> QED
  BY <1>3, <1>4, <1>5, <1>6

\* The end of a line changes nothing for the entries.
LEMMA EndKeeps ==
  ASSUME NEW f \in Seq(AuditEntries \cup {Newline}), NEW g, g = Append(f, Newline)
  PROVE  /\ Readable(g) = Readable(f)
         /\ \A i \in Readable(f) : g[i] = f[i]
<1>1. /\ Len(g) = Len(f) + 1 /\ g[Len(f) + 1] = Newline /\ Len(f) \in Nat
      /\ \A i \in 1..Len(f) : g[i] = f[i]
      /\ DOMAIN f = 1..Len(f) /\ DOMAIN g = 1..(Len(f) + 1)
  OBVIOUS
<1>2. ASSUME NEW i \in 1..Len(f) PROVE Alone(g, i) <=> Alone(f, i)
  <2>1. g[i] = f[i] /\ (i # 1 => g[i - 1] = f[i - 1])
    BY <1>1
  <2>2. i = Len(f) => g[i + 1] = Newline
    BY <1>1
  <2>3. i # Len(f) => g[i + 1] = f[i + 1]
    <3>1. \A n \in Nat : i \in 1..n /\ i # n => i + 1 \in 1..n
      OBVIOUS
    <3>2. i # Len(f) => i + 1 \in 1..Len(f)
      BY <3>1, <1>1
    <3> QED
      BY <3>2, <1>1
  <2>4. i # Len(g)
    BY <1>1
  <2> QED
    BY <2>1, <2>2, <2>3, <2>4 DEF Alone
<1>3. ~Alone(g, Len(f) + 1)
  BY <1>1 DEF Alone
<1> QED
  BY <1>1, <1>2, <1>3 DEF Readable

\* A text on a line of its own is the last entry; one on a line that has a text
\* makes that text unreadable, if it was not already, and is not readable itself.
LEMMA TextKeeps ==
  ASSUME audit \in Seq(AuditEntries \cup {Newline}), NEW e, e # Newline,
         audit' = Append(audit, e), NEW n, n = Len(audit)
  PROVE  /\ audit = <<>> \/ audit[n] = Newline => Readable(audit') = Readable(audit) \cup {n + 1}
         /\ ~(audit = <<>> \/ audit[n] = Newline) => Readable(audit') = Readable(audit) \ {n}
         /\ \A i \in Readable(audit) : audit'[i] = audit[i]
         /\ audit'[n + 1] = e
<1> PICK f, g : f = audit /\ g = audit'
  OBVIOUS
<1>0. n \in Nat
  OBVIOUS
<1>1. /\ Len(g) = n + 1 /\ g[n + 1] = e /\ \A i \in 1..n : g[i] = f[i]
      /\ DOMAIN f = 1..n /\ DOMAIN g = 1..(n + 1)
      /\ f = <<>> <=> n = 0
  OBVIOUS
<1>2. ASSUME NEW i \in 1..n, i # n PROVE Alone(g, i) <=> Alone(f, i)
  <2>0. i + 1 \in 1..n /\ i # n + 1 /\ (i # 1 => i - 1 \in 1..n)
    BY <1>0, <1>2
  <2>1. g[i] = f[i] /\ (i # 1 => g[i - 1] = f[i - 1]) /\ g[i + 1] = f[i + 1]
    BY <1>1, <2>0
  <2> QED
    BY <1>1, <1>2, <2>0, <2>1 DEF Alone
<1>3. n # 0 => ~Alone(g, n)
  <2>1. n # n + 1
    BY <1>0
  <2> QED
    BY <1>1, <2>1 DEF Alone
<1>4. n # 0 /\ f[n] = Newline => ~Alone(f, n)
  BY DEF Alone
<1>5. Alone(g, n + 1) <=> (n = 0 \/ f[n] = Newline)
  <2>1. (n + 1) - 1 = n /\ (n = 0 <=> n + 1 = 1) /\ (n # 0 => n \in 1..n)
    BY <1>0
  <2>2. n # 0 => g[n] = f[n]
    BY <1>1, <2>1
  <2> QED
    BY <1>1, <2>1, <2>2 DEF Alone
<1>6. 1..(n + 1) = 1..n \cup {n + 1} /\ n + 1 \notin 1..n
  BY <1>0
<1>7. CASE f = <<>> \/ f[n] = Newline
  <2>1. n # 0 => ~Alone(f, n)
    BY <1>1, <1>4, <1>7
  <2>2. \A i \in 1..n : Alone(g, i) <=> Alone(f, i)
    BY <2>1, <1>2, <1>3
  <2>3. Alone(g, n + 1)
    BY <1>1, <1>5, <1>7
  <2> QED
    BY <2>2, <2>3, <1>1, <1>6, <1>7 DEF Readable
<1>8. CASE ~(f = <<>> \/ f[n] = Newline)
  <2>1. ~Alone(g, n + 1) /\ ~Alone(g, n) /\ n # 0
    BY <1>1, <1>3, <1>5, <1>8
  <2>2. \A i \in 1..n : i # n => (Alone(g, i) <=> Alone(f, i))
    BY <1>2
  <2> QED
    BY <2>1, <2>2, <1>1, <1>6, <1>8 DEF Readable
<1> QED
  BY <1>7, <1>8

\* Where the readable entries are and what they say decides what their last one is.
LEMMA LastHashIs ==
  ASSUME AuditTypeOK, LastsExist
  PROVE  /\ LastHash \in {NoFile} \cup (Nat \X Nat)
         /\ Readable(audit) # {} =>
              \E m : IsLast(m, Len(audit)) /\ LastHash = Hash(audit[m])
<1>1. Len(audit) \in Nat /\ \A i \in Readable(audit) : i \in 1..Len(audit) /\ audit[i] \in AuditEntries
  BY DEF AuditTypeOK, Readable, Alone
<1>2. CASE Readable(audit) = {}
  BY <1>2 DEF LastHash
<1>3. CASE Readable(audit) # {}
  <2>1. \E i \in Readable(audit) : IsLast(i, Len(audit))
    BY <1>1, <1>3 DEF LastsExist
  <2>2. \E i \in Readable(audit) : \A j \in Readable(audit) : j <= i
    BY <2>1, <1>1 DEF IsLast
  <2> DEFINE m == CHOOSE i \in Readable(audit) : \A j \in Readable(audit) : j <= i
  <2>3. m \in Readable(audit) /\ \A j \in Readable(audit) : j <= m
    BY <2>2
  <2>4. LastHash = Hash(audit[m])
    BY <1>3 DEF LastHash
  <2> HIDE DEF m
  <2>5. IsLast(m, Len(audit))
    BY <2>3, <1>1 DEF IsLast
  <2>6. Hash(audit[m]) \in Nat \X Nat
    BY <2>3, <1>1 DEF Hash, AuditEntries
  <2> QED
    BY <2>4, <2>5, <2>6
<1> QED
  BY <1>2, <1>3

\* A writer's step to what is left of its record.
LEMMA Stepping ==
  ASSUME AuditTypeOK, NEW w \in Writers, writer[w].todo # <<>>,
         NEW r, writer' = [writer EXCEPT ![w] = r],
         r = [todo |-> r.todo, id |-> r.id, hash |-> r.hash, prev |-> r.prev],
         r.todo \in {<<>>, Tail(writer[w].todo)}, r.id \in Nat,
         r.prev \in {NoFile} \cup (Nat \X Nat), audit' \in Seq(AuditEntries \cup {Newline}),
         made' = made
  PROVE  /\ AuditTypeOK'
         /\ \A v \in Writers : v # w => writer'[v] = writer[v]
         /\ writer'[w] = r
         /\ Writing(w, "entry")' => Writing(w, "last")
         /\ Writing(w, "end")' => Writing(w, "entry")
<1>1. writer'[w] = r /\ DOMAIN writer' = Writers
      /\ \A v \in Writers : v # w => writer'[v] = writer[v]
  BY DEF AuditTypeOK
<1>2. Formed(writer[w].todo)
  BY DEF AuditTypeOK
<1>3. Formed(<<>>)
  BY DEF Formed
<1>4. Formed(r.todo) /\ (r.todo # <<>> => r.todo = Tail(writer[w].todo))
  BY <1>2, <1>3, RestIsFormed
<1>5. AuditTypeOK'
  BY <1>1, <1>4 DEF AuditTypeOK
<1>6. r.todo # <<>> => /\ Head(r.todo) = "entry" <=> Head(writer[w].todo) = "last"
                       /\ Head(r.todo) = "end" <=> Head(writer[w].todo) = "entry"
  BY <1>2, <1>4, RestIsFormed
<1> QED
  BY <1>1, <1>5, <1>6 DEF Writing

\* A step that leaves the log as it is and does not bring a writer to an entry.
LEMMA QuietStep ==
  ASSUME AuditInv, AuditTypeOK', audit' = audit, races \subseteq races', NEW w \in Writers,
         \A v \in Writers : v # w => writer'[v] = writer[v], ~InEntry(w)'
  PROVE  AuditInv'
<1>1. LastsExist'
  BY DEF AuditInv, LastsExist, IsLast
<1>2. \A v \in Writers : /\ InEntry(v)' => InEntry(v) /\ writer'[v] = writer[v]
                         /\ Writing(v, "entry")' => Writing(v, "entry") /\ writer'[v] = writer[v]
  BY DEF InEntry, Writing
<1>3. LastHash' = LastHash
  BY DEF LastHash
<1>4. ASSUME "audit" \notin races'
      PROVE  /\ ChainIsLinear'
             /\ \A v, u \in Writers : InEntry(v)' /\ InEntry(u)' => v = u
             /\ \A v \in Writers : Writing(v, "entry")' => writer'[v].prev = LastHash'
  <2>1. /\ ChainIsLinear
        /\ \A v, u \in Writers : InEntry(v) /\ InEntry(u) => v = u
        /\ \A v \in Writers : Writing(v, "entry") => writer[v].prev = LastHash
    BY <1>4 DEF AuditInv
  <2>2. ChainIsLinear'
    BY <1>4, <2>1 DEF ChainIsLinear
  <2> QED
    BY <2>1, <2>2, <1>2, <1>3
<1> QED
  BY <1>1, <1>4 DEF AuditInv

LEMMA NoRecordIs ==
  /\ NoRecord = [todo |-> NoRecord.todo, id |-> NoRecord.id, hash |-> NoRecord.hash,
                 prev |-> NoRecord.prev]
  /\ NoRecord.todo = <<>> /\ NoRecord.id \in Nat /\ NoRecord.prev = NoFile
  BY DEF NoRecord

\* Proceeds: what a writer is after a step that it does not note down.
LEMMA ProceedsIs ==
  ASSUME AuditTypeOK, NEW w \in Writers, writer[w].todo # <<>>, Proceeds(w)
  PROVE  \E r : /\ writer' = [writer EXCEPT ![w] = r]
                /\ r = [todo |-> r.todo, id |-> r.id, hash |-> r.hash, prev |-> r.prev]
                /\ r.todo \in {<<>>, Tail(writer[w].todo)} /\ r.id \in Nat
                /\ r.prev \in {NoFile} \cup (Nat \X Nat)
<1> PICK x : x = writer[w]
  OBVIOUS
<1>1. /\ x = [todo |-> x.todo, id |-> x.id, hash |-> x.hash, prev |-> x.prev]
      /\ x.id \in Nat /\ x.prev \in {NoFile} \cup (Nat \X Nat)
  BY DEF AuditTypeOK
<1>2. CASE Len(x.todo) = 1
  <2>1. writer' = [writer EXCEPT ![w] = NoRecord]
    BY <1>2 DEF Proceeds
  <2> QED
    BY <2>1, NoRecordIs
<1>3. CASE Len(x.todo) # 1
  <2> PICK y : y = [x EXCEPT !.todo = Tail(x.todo)]
    OBVIOUS
  <2>1. writer' = [writer EXCEPT ![w] = y]
    <3>1. writer' = [writer EXCEPT ![w] = IF Len(writer[w].todo) = 1 THEN NoRecord
                       ELSE [writer[w] EXCEPT !.todo = Tail(writer[w].todo)]]
      BY DEF Proceeds
    <3>2. Len(writer[w].todo) # 1 /\ y = [writer[w] EXCEPT !.todo = Tail(writer[w].todo)]
      BY <1>3
    <3> QED
      BY <3>1, <3>2
  <2>2. y.todo = Tail(x.todo) /\ y.id = x.id /\ y.prev = x.prev
        /\ y = [todo |-> y.todo, id |-> y.id, hash |-> y.hash, prev |-> y.prev]
    BY <1>1
  <2> QED
    BY <2>1, <2>2, <1>1
<1> QED
  BY <1>2, <1>3

LEMMA BeginKeeps == ASSUME AuditInv, NEW w \in Writers, Begin(w) PROVE AuditInv'
<1>1. PICK kind \in RecordKinds :
        writer' = [writer EXCEPT ![w] = [NoRecord EXCEPT !.todo = Records[kind],
                                                        !.id = made + 1]]
  BY DEF Begin
<1> PICK r : r = [NoRecord EXCEPT !.todo = Records[kind], !.id = made + 1]
  OBVIOUS
<1>2. /\ r = [todo |-> r.todo, id |-> r.id, hash |-> r.hash, prev |-> r.prev]
      /\ r.todo = Records[kind] /\ r.id = made + 1 /\ r.prev = NoFile
  BY DEF NoRecord
<1>3. AuditTypeOK /\ made \in Nat /\ made' = made + 1 /\ audit' = audit /\ races' = races
  BY DEF AuditInv, AuditTypeOK, Begin
<1>4. /\ writer'[w] = r /\ DOMAIN writer' = Writers
      /\ \A v \in Writers : v # w => writer'[v] = writer[v]
  BY <1>1, <1>3 DEF AuditTypeOK
<1>5. AuditTypeOK'
  BY SMTT(30), <1>2, <1>3, <1>4, RecordsAreFormed DEF AuditTypeOK
<1>6. ~InEntry(w)'
  BY <1>2, <1>4, RecordsAreFormed DEF InEntry, Writing
<1> QED
  BY <1>3, <1>4, <1>5, <1>6, QuietStep

\* The rows of the tables and the file of the artifact.
LEMMA InsertsKeep == ASSUME AuditInv, NEW w \in Writers, Inserts(w) PROVE AuditInv'
<1>1. /\ AuditTypeOK /\ made' = made /\ audit' = audit /\ races \subseteq races'
      /\ writer[w].todo # <<>> /\ Head(writer[w].todo) \notin {"last", "entry", "end"}
  BY DEF Inserts, InsertRow, SaveFile, HashFile, InsertArtifact, Counts, Writing, AuditInv, Races
<1>2. PICK r : /\ writer' = [writer EXCEPT ![w] = r]
               /\ r = [todo |-> r.todo, id |-> r.id, hash |-> r.hash, prev |-> r.prev]
               /\ r.todo \in {<<>>, Tail(writer[w].todo)} /\ r.id \in Nat
               /\ r.prev \in {NoFile} \cup (Nat \X Nat)
  <2>1. CASE HashFile(w)
    <3> PICK x : x = writer[w]
      OBVIOUS
    <3> PICK y : y = [x EXCEPT !.todo = Tail(x.todo), !.hash = document]
      OBVIOUS
    <3>1. /\ x = [todo |-> x.todo, id |-> x.id, hash |-> x.hash, prev |-> x.prev]
          /\ x.id \in Nat /\ x.prev \in {NoFile} \cup (Nat \X Nat)
      BY <1>1 DEF AuditTypeOK
    <3>2. writer' = [writer EXCEPT ![w] = y]
      BY <2>1 DEF HashFile
    <3>3. y.todo = Tail(x.todo) /\ y.id = x.id /\ y.prev = x.prev
          /\ y = [todo |-> y.todo, id |-> y.id, hash |-> y.hash, prev |-> y.prev]
      BY <3>1
    <3> QED
      BY <3>1, <3>2, <3>3
  <2>2. CASE ~HashFile(w)
    <3>1. Proceeds(w)
      BY <2>2 DEF Inserts, InsertRow, SaveFile, InsertArtifact
    <3> QED
      BY <3>1, <1>1, ProceedsIs
  <2> QED
    BY <2>1, <2>2
<1>3. audit' \in Seq(AuditEntries \cup {Newline})
  BY <1>1 DEF AuditTypeOK
<1>4. /\ AuditTypeOK' /\ \A v \in Writers : v # w => writer'[v] = writer[v]
      /\ Writing(w, "entry")' => Writing(w, "last")
      /\ Writing(w, "end")' => Writing(w, "entry")
  BY <1>1, <1>2, <1>3, Stepping
<1>5. ~InEntry(w)'
  BY <1>1, <1>4 DEF InEntry, Writing
<1> QED
  BY <1>1, <1>4, <1>5, QuietStep

LEMMA StopKeeps == ASSUME AuditInv, NEW w \in Writers, Stop(w) PROVE AuditInv'
<1>1. /\ AuditTypeOK /\ made' = made /\ audit' = audit /\ races' = races
      /\ writer' = [writer EXCEPT ![w] = NoRecord]
  BY DEF Stop, AuditInv
<1>2. /\ writer'[w] = NoRecord /\ DOMAIN writer' = Writers
      /\ \A v \in Writers : v # w => writer'[v] = writer[v]
  BY <1>1 DEF AuditTypeOK
<1>3. Formed(<<>>)
  BY DEF Formed
<1>4. AuditTypeOK'
  BY <1>1, <1>2, <1>3, NoRecordIs DEF AuditTypeOK
<1>5. ~InEntry(w)'
  BY <1>2, NoRecordIs DEF InEntry, Writing
<1> QED
  BY <1>1, <1>2, <1>4, <1>5, QuietStep

\* The look at the last hash: it races unless nobody else is in an entry.
LEMMA ReadLastHashKeeps == ASSUME AuditInv, NEW w \in Writers, ReadLastHash(w) PROVE AuditInv'
<1> PICK x : x = writer[w]
  OBVIOUS
<1> PICK r : r = [x EXCEPT !.todo = Tail(x.todo), !.prev = LastHash]
  OBVIOUS
<1>1. /\ AuditTypeOK /\ LastsExist /\ made' = made /\ audit' = audit
      /\ x.todo # <<>> /\ Head(x.todo) = "last" /\ writer' = [writer EXCEPT ![w] = r]
  BY DEF ReadLastHash, Counts, Writing, AuditInv
<1>2. /\ x = [todo |-> x.todo, id |-> x.id, hash |-> x.hash, prev |-> x.prev] /\ x.id \in Nat
  BY <1>1 DEF AuditTypeOK
<1>3. r.todo = Tail(x.todo) /\ r.id = x.id /\ r.prev = LastHash
      /\ r = [todo |-> r.todo, id |-> r.id, hash |-> r.hash, prev |-> r.prev]
  BY <1>2
<1>4. r.prev \in {NoFile} \cup (Nat \X Nat)
  BY <1>1, <1>3, LastHashIs
<1>5. audit' \in Seq(AuditEntries \cup {Newline})
  BY <1>1 DEF AuditTypeOK
<1>6. /\ AuditTypeOK' /\ \A v \in Writers : v # w => writer'[v] = writer[v]
      /\ writer'[w] = r
  <2>1. /\ writer[w].todo # <<>> /\ r.todo \in {<<>>, Tail(writer[w].todo)} /\ r.id \in Nat
    BY <1>1, <1>2, <1>3
  <2> QED
    BY <2>1, <1>1, <1>3, <1>4, <1>5, Stepping
<1>7. LastsExist' /\ LastHash' = LastHash
  BY <1>1 DEF LastsExist, IsLast, LastHash
<1>8. ASSUME "audit" \notin races'
      PROVE  /\ ChainIsLinear'
             /\ \A v, u \in Writers : InEntry(v)' /\ InEntry(u)' => v = u
             /\ \A v \in Writers : Writing(v, "entry")' => writer'[v].prev = LastHash'
  <2>1. "audit" \notin races /\ \A o \in Writers : o # w => ~InEntry(o)
    BY <1>8 DEF ReadLastHash, Races, Within, InEntry
  <2>2. \A o \in Writers : o # w => ~InEntry(o)'
    BY <2>1, <1>6 DEF InEntry, Writing
  <2>3. ChainIsLinear'
    BY <2>1, <1>1 DEF AuditInv, ChainIsLinear
  <2>4. \A v \in Writers : Writing(v, "entry")' => v = w
    BY <2>2 DEF InEntry
  <2> QED
    BY <2>2, <2>3, <2>4, <1>3, <1>6, <1>7
<1> QED
  BY <1>6, <1>7, <1>8 DEF AuditInv

LEMMA EndEntryKeeps == ASSUME AuditInv, NEW w \in Writers, EndEntry(w) PROVE AuditInv'
<1>1. /\ AuditTypeOK /\ LastsExist /\ made' = made /\ audit' = Append(audit, Newline)
      /\ audit \in Seq(AuditEntries \cup {Newline}) /\ races' = races
      /\ writer[w].todo # <<>> /\ Writing(w, "end")
  BY DEF EndEntry, Counts, Writing, AuditInv, AuditTypeOK
<1>2. PICK r : /\ writer' = [writer EXCEPT ![w] = r]
               /\ r = [todo |-> r.todo, id |-> r.id, hash |-> r.hash, prev |-> r.prev]
               /\ r.todo \in {<<>>, Tail(writer[w].todo)} /\ r.id \in Nat
               /\ r.prev \in {NoFile} \cup (Nat \X Nat)
  BY <1>1, ProceedsIs DEF EndEntry
<1>3. audit' \in Seq(AuditEntries \cup {Newline})
  BY <1>1
<1>4. /\ AuditTypeOK' /\ \A v \in Writers : v # w => writer'[v] = writer[v]
      /\ Writing(w, "entry")' => Writing(w, "last")
      /\ Writing(w, "end")' => Writing(w, "entry")
  BY <1>1, <1>2, <1>3, Stepping
<1>5. ~InEntry(w)'
  BY <1>1, <1>4 DEF InEntry, Writing
<1>6. /\ Readable(audit') = Readable(audit)
      /\ \A i \in Readable(audit) : audit'[i] = audit[i] /\ i \in 1..Len(audit)
  <2>1. DOMAIN audit = 1..Len(audit)
    BY <1>1
  <2>2. \A i \in Readable(audit) : i \in 1..Len(audit)
    BY <2>1 DEF Readable
  <2> QED
    BY <2>2, <1>1, EndKeeps
<1>7. LastsExist'
  <2> PICK n : n = Len(audit)
    OBVIOUS
  <2>1. n \in Nat /\ Len(audit') = n + 1
    BY <1>1
  <2>2. ASSUME NEW k \in 0..(n + 1), NEW i \in Readable(audit'), i <= k
        PROVE  \E j \in Readable(audit') : IsLast(j, k)'
    <3>1. PICK l \in 0..n : \A j \in Readable(audit) : j <= l <=> j <= k
      <4>1. CASE k <= n
        <5>1. k \in 0..n
          BY <2>1, <4>1
        <5> QED
          BY <5>1
      <4>2. CASE k = n + 1
        <5>1. n \in 0..n /\ \A j \in 1..n : j <= n /\ j <= n + 1
          BY <2>1
        <5> QED
          BY <5>1, <4>2, <1>6
      <4> QED
        BY <2>1, <2>2, <4>1, <4>2
    <3>2. \E j \in Readable(audit) : IsLast(j, l)
      BY <3>1, <2>2, <1>6, <1>1 DEF LastsExist
    <3> QED
      BY <3>1, <3>2, <1>6 DEF IsLast
  <2> QED
    BY <2>1, <2>2 DEF LastsExist
<1>8. ASSUME "audit" \notin races'
      PROVE  /\ ChainIsLinear'
             /\ \A v, u \in Writers : InEntry(v)' /\ InEntry(u)' => v = u
             /\ \A v \in Writers : Writing(v, "entry")' => writer'[v].prev = LastHash'
  <2>1. /\ ChainIsLinear /\ "audit" \notin races
        /\ \A v \in Writers : v # w => ~InEntry(v)
    BY <1>1, <1>8 DEF AuditInv, InEntry
  <2>2. \A v \in Writers : ~InEntry(v)'
    BY <2>1, <1>4, <1>5 DEF InEntry, Writing
  <2>3. ChainIsLinear'
    BY <2>1, <1>6 DEF ChainIsLinear, Hash
  <2> QED
    BY <2>2, <2>3 DEF InEntry
<1> QED
  BY <1>4, <1>7, <1>8 DEF AuditInv

\* The text of an entry: alone on its line it is the last entry and names the one
\* before; on the line of a writer that stopped it takes that one's text with it.
LEMMA AppendEntryKeeps == ASSUME AuditInv, NEW w \in Writers, AppendEntry(w) PROVE AuditInv'
<1> PICK n : n = Len(audit)
  OBVIOUS
<1>0. /\ AuditTypeOK /\ LastsExist /\ made' = made
      /\ audit \in Seq(AuditEntries \cup {Newline}) /\ races' = races
      /\ writer[w].todo # <<>> /\ Writing(w, "entry")
  BY DEF AppendEntry, Counts, Writing, AuditInv, AuditTypeOK
<1>2. PICK e : /\ e \in AuditEntries /\ e # Newline /\ e.prev = writer[w].prev
               /\ audit' = Append(audit, e)
  <2> PICK x : x = [of |-> writer[w].id, n |-> Len(writer[w].todo), prev |-> writer[w].prev]
    OBVIOUS
  <2>1. /\ writer[w].id \in Nat /\ Len(writer[w].todo) \in Nat
        /\ writer[w].prev \in {NoFile} \cup (Nat \X Nat)
    BY <1>0 DEF AuditTypeOK, Formed
  <2>2. x \in AuditEntries /\ x.prev = writer[w].prev
    BY <2>1 DEF AuditEntries
  <2>3. x # Newline
    BY <2>2, NewlineAssumption DEF AuditEntries
  <2>4. audit' = Append(audit, x)
    BY DEF AppendEntry
  <2> QED
    BY <2>2, <2>3, <2>4
<1>1. /\ AuditTypeOK /\ LastsExist /\ made' = made /\ audit' = Append(audit, e)
      /\ audit \in Seq(AuditEntries \cup {Newline}) /\ races' = races
      /\ writer[w].todo # <<>> /\ Writing(w, "entry")
  BY <1>0, <1>2
<1>3. PICK r : /\ writer' = [writer EXCEPT ![w] = r]
               /\ r = [todo |-> r.todo, id |-> r.id, hash |-> r.hash, prev |-> r.prev]
               /\ r.todo \in {<<>>, Tail(writer[w].todo)} /\ r.id \in Nat
               /\ r.prev \in {NoFile} \cup (Nat \X Nat)
  BY <1>1, ProceedsIs DEF AppendEntry
<1>4. audit' \in Seq(AuditEntries \cup {Newline})
  BY <1>1, <1>2
<1>5. /\ AuditTypeOK' /\ \A v \in Writers : v # w => writer'[v] = writer[v]
      /\ Writing(w, "entry")' => Writing(w, "last")
      /\ Writing(w, "end")' => Writing(w, "entry")
  BY <1>1, <1>3, <1>4, Stepping
<1>6. ~Writing(w, "entry")'
  BY <1>1, <1>5 DEF Writing
<1>7. n \in Nat /\ Len(audit') = n + 1 /\ \A i \in Readable(audit) : i \in 1..n
  <2>1. DOMAIN audit = 1..n
    BY <1>1
  <2> QED
    BY <2>1, <1>1 DEF Readable
<1>8. /\ audit = <<>> \/ audit[n] = Newline => Readable(audit') = Readable(audit) \cup {n + 1}
      /\ ~(audit = <<>> \/ audit[n] = Newline) => Readable(audit') = Readable(audit) \ {n}
      /\ \A i \in Readable(audit) : audit'[i] = audit[i]
      /\ audit'[n + 1] = e
  BY <1>1, <1>2, TextKeeps
<1>9. CASE audit = <<>> \/ audit[n] = Newline
  <2>1. Readable(audit') = Readable(audit) \cup {n + 1}
    BY <1>8, <1>9
  <2>2. LastsExist'
    <3>1. ASSUME NEW k \in 0..(n + 1), NEW i \in Readable(audit'), i <= k
          PROVE  \E j \in Readable(audit') : IsLast(j, k)'
      <4>1. CASE k = n + 1
        <5>1. IsLast(n + 1, k)'
          BY <4>1, <2>1, <1>7 DEF IsLast
        <5> QED
          BY <5>1, <2>1
      <4>2. CASE k # n + 1
        <5>1. k \in 0..n /\ i \in Readable(audit)
          BY <4>2, <3>1, <2>1, <1>7
        <5>2. \E j \in Readable(audit) : IsLast(j, k)
          BY <5>1, <3>1, <1>1 DEF LastsExist
        <5>3. ~(n + 1 <= k)
          BY <5>1, <1>7
        <5> QED
          BY <5>2, <5>3, <2>1 DEF IsLast
      <4> QED
        BY <4>1, <4>2
    <3> QED
      BY <3>1, <1>7 DEF LastsExist
  <2>3. ASSUME "audit" \notin races', NEW i \in Readable(audit'), NEW j \in Readable(audit'),
               i < j, \A k \in Readable(audit') : k <= i \/ k >= j
        PROVE  audit'[j].prev = Hash(audit'[i])
    <3>1. ChainIsLinear /\ "audit" \notin races /\ writer[w].prev = LastHash
      BY <2>3, <1>1 DEF AuditInv
    <3>2. i \in Readable(audit) /\ i <= n
      BY <2>1, <2>3, <1>7
    <3>3. CASE j = n + 1
      <4>1. PICK m : IsLast(m, n) /\ LastHash = Hash(audit[m])
        BY <3>2, <1>1, LastHashIs
      <4>2. m \in Readable(audit) /\ i <= m /\ m \in 1..n /\ i \in 1..n
        BY <4>1, <3>2, <1>7 DEF IsLast
      <4>3. m <= i \/ m >= n + 1
        BY <4>2, <2>1, <2>3, <3>3
      <4>4. m = i
        BY <4>2, <4>3, <1>7
      <4> QED
        BY <4>1, <4>4, <3>1, <3>2, <3>3, <1>2, <1>8 DEF Hash
    <3>4. CASE j # n + 1
      <4>1. j \in Readable(audit)
        BY <3>4, <2>1
      <4>2. \A k \in Readable(audit) : k <= i \/ k >= j
        BY <2>1, <2>3
      <4>3. audit[j].prev = Hash(audit[i])
        BY <4>1, <4>2, <3>1, <3>2, <2>3 DEF ChainIsLinear
      <4> QED
        BY <4>1, <4>3, <3>2, <1>8 DEF Hash
    <3> QED
      BY <3>3, <3>4
  <2>4. "audit" \notin races' => ChainIsLinear'
    BY <2>3 DEF ChainIsLinear, Hash
  <2> QED
    <3>1. ASSUME "audit" \notin races'
          PROVE  /\ \A v, u \in Writers : InEntry(v)' /\ InEntry(u)' => v = u
                 /\ \A v \in Writers : ~Writing(v, "entry")'
      <4>1. \A v \in Writers : v # w => ~InEntry(v)
        BY <1>1, <3>1 DEF AuditInv, InEntry
      <4>2. \A v \in Writers : v # w => ~InEntry(v)'
        BY <4>1, <1>5 DEF InEntry, Writing
      <4> QED
        BY <4>2, <1>6 DEF InEntry
    <3> QED
      BY <3>1, <2>2, <2>4, <1>5 DEF AuditInv
<1>10. CASE ~(audit = <<>> \/ audit[n] = Newline)
  <2>1. Readable(audit') = Readable(audit) \ {n} /\ n # 0
    BY <1>1, <1>8, <1>10
  <2>2. LastsExist'
    <3>1. ASSUME NEW k \in 0..(n + 1), NEW i \in Readable(audit'), i <= k
          PROVE  \E j \in Readable(audit') : IsLast(j, k)'
      <4>1. PICK l \in 0..n : \A j \in Readable(audit) : j <= l <=> (j # n /\ j <= k)
        <5>1. CASE k < n
          <6>1. k \in 0..n /\ \A j \in 1..n : j <= k <=> (j # n /\ j <= k)
            BY <5>1, <1>7
          <6> QED
            BY <6>1, <1>7
        <5>2. CASE k >= n
          <6>1. n - 1 \in 0..n /\ \A j \in 1..n : j <= n - 1 <=> (j # n /\ j <= k)
            BY <5>2, <1>7, <2>1
          <6> QED
            BY <6>1, <1>7
        <5> QED
          BY <1>7, <5>1, <5>2
      <4>2. i \in Readable(audit) /\ i <= l
        BY <3>1, <4>1, <2>1
      <4>3. PICK j \in Readable(audit) : IsLast(j, l)
        BY <4>2, <1>1 DEF LastsExist
      <4>4. j \in Readable(audit') /\ j <= k
        BY <4>1, <4>3, <2>1 DEF IsLast
      <4>5. IsLast(j, k)'
        BY <4>1, <4>3, <4>4, <2>1 DEF IsLast
      <4> QED
        BY <4>4, <4>5
    <3> QED
      BY <3>1, <1>7 DEF LastsExist
  <2>3. ASSUME "audit" \notin races', NEW i \in Readable(audit'), NEW j \in Readable(audit'),
               i < j, \A k \in Readable(audit') : k <= i \/ k >= j
        PROVE  audit'[j].prev = Hash(audit'[i])
    <3>1. ChainIsLinear /\ "audit" \notin races
      BY <2>3, <1>1 DEF AuditInv
    <3>2. i \in Readable(audit) /\ j \in Readable(audit) /\ j <= n
      BY <2>1, <1>7
    <3>3. \A k \in Readable(audit) : k <= i \/ k >= j
      BY <2>1, <2>3, <3>2
    <3>4. audit[j].prev = Hash(audit[i])
      BY <3>1, <3>2, <3>3, <2>3 DEF ChainIsLinear
    <3> QED
      BY <3>2, <3>4, <1>8 DEF Hash
  <2>4. "audit" \notin races' => ChainIsLinear'
    BY <2>3 DEF ChainIsLinear, Hash
  <2> QED
    <3>1. ASSUME "audit" \notin races'
          PROVE  /\ \A v, u \in Writers : InEntry(v)' /\ InEntry(u)' => v = u
                 /\ \A v \in Writers : ~Writing(v, "entry")'
      <4>1. \A v \in Writers : v # w => ~InEntry(v)
        BY <1>1, <3>1 DEF AuditInv, InEntry
      <4>2. \A v \in Writers : v # w => ~InEntry(v)'
        BY <4>1, <1>5 DEF InEntry, Writing
      <4> QED
        BY <4>2, <1>6 DEF InEntry
    <3> QED
      BY <3>1, <2>2, <2>4, <1>5 DEF AuditInv
<1> QED
  BY <1>9, <1>10

LEMMA AuditInvInit == AuditInit => AuditInv
<1> SUFFICES ASSUME AuditInit PROVE AuditInv
  OBVIOUS
<1>1. audit = <<>> /\ Readable(audit) = {} /\ Len(audit) = 0
  BY DEF AuditInit, Readable
<1>2. Formed(<<>>)
  BY DEF Formed
<1>3. AuditTypeOK
  BY <1>1, <1>2, NoRecordIs DEF AuditTypeOK, AuditInit
<1>4. LastsExist /\ ChainIsLinear
  BY <1>1 DEF LastsExist, ChainIsLinear
<1>5. \A w \in Writers : ~InEntry(w)
  BY NoRecordIs DEF AuditInit, InEntry, Writing
<1> QED
  BY <1>3, <1>4, <1>5 DEF AuditInv, InEntry

LEMMA AuditInvariant == AuditSpec => []AuditInv
<1>1. AuditInv /\ [AuditNext]_auditVars => AuditInv'
  <2> SUFFICES ASSUME AuditInv, [AuditNext]_auditVars PROVE AuditInv'
    OBVIOUS
  <2>1. CASE AuditNext
    <3>1. PICK w \in Writers : Begin(w) \/ Inserts(w) \/ Appends(w) \/ Stop(w)
      BY <2>1 DEF AuditNext
    <3> QED
      BY <3>1, BeginKeeps, InsertsKeep, StopKeeps, ReadLastHashKeeps, AppendEntryKeeps,
         EndEntryKeeps DEF Appends
  <2>2. CASE UNCHANGED auditVars
    <3>1. audit' = audit /\ writer' = writer /\ made' = made /\ races' = races
      BY <2>2 DEF auditVars
    <3>2. AuditTypeOK' /\ LastsExist'
      BY <3>1 DEF AuditInv, AuditTypeOK, LastsExist, IsLast
    <3>3. (ChainIsLinear' <=> ChainIsLinear) /\ LastHash' = LastHash
          /\ \A v \in Writers : (Writing(v, "entry")' <=> Writing(v, "entry"))
                                /\ (InEntry(v)' <=> InEntry(v))
      BY <3>1 DEF ChainIsLinear, LastHash, Writing, InEntry
    <3> QED
      BY <3>1, <3>2, <3>3 DEF AuditInv
  <2> QED
    BY <2>1, <2>2
<1> QED
  BY <1>1, AuditInvInit, PTL DEF AuditSpec

\* read_last_hash and append_entry (audit.rs): the entries that can be read are one
\* chain, wherever writers stop, for any number of writers, records and stops.
THEOREM ChainIsLinearCorrect == AuditSpec => []ChainIsLinear
<1>1. AuditInv => ChainIsLinear
  BY DEF AuditInv, ChainIsLinear
<1> QED
  BY <1>1, AuditInvariant, PTL

-----------------------------------------------------------------------------
(* The memory index.                                                        *)

VersionOrNone == Versions \cup {None}
SyncSteps == {"idle", "memory", "sessions", "read", "look", "count", "texts", "deleteText",
               "deleteVectors", "insert", "attempt", "embed", "stale", "dropVectors",
               "dropFailure", "dropRow"}
SyncRecords ==
  [at : SyncSteps, keys : SUBSET Files, list : SUBSET Files, active : SUBSET Files,
   file : Files \cup {None}, stat : VersionOrNone, body : VersionOrNone,
   todo : SUBSET (Parts \X Versions), replaces : BOOLEAN, seen : [Files -> VersionOrNone]]
MemoryTypeOK ==
  /\ disk \in [Files -> VersionOrNone] /\ latest \in [Files -> 0..MaxVersion]
  /\ indexed \in [Files -> VersionOrNone]
  /\ texts \in [Files -> [Versions -> Nat]]
  /\ vectors \in [Files -> [Parts -> VersionOrNone]]
  /\ waiting \subseteq Files
  /\ sync \in [Syncers -> SyncRecords]
  /\ overlapped \in BOOLEAN

\* Versions are written in order: what is on the disk is never older than what was
\* read from it.
NotAfter(a, b) == a = None \/ b = None \/ a <= b
Written(f, v)  == v = None \/ v <= latest[f]

WithFile == {"read", "look", "count", "texts", "deleteText", "deleteVectors", "insert",
             "attempt", "embed"}
WithBody == WithFile \ {"read"}
Listing  == WithFile \cup {"memory", "sessions"}
Dropping == {"dropVectors", "dropFailure", "dropRow"}

SyncOrder(s) ==
  /\ \A f \in Files : Written(f, sync[s].seen[f]) /\ NotAfter(sync[s].seen[f], disk[f])
  /\ sync[s].at \in WithFile =>
       /\ file(s) \in Files /\ sync[s].stat \in Versions /\ Written(file(s), sync[s].stat)
       /\ NotAfter(sync[s].stat, disk[file(s)])
       /\ NotAfter(sync[s].seen[file(s)], sync[s].stat)
  /\ sync[s].at \in WithBody =>
       /\ sync[s].body \in Versions /\ Written(file(s), sync[s].body)
       /\ NotAfter(sync[s].body, disk[file(s)]) /\ sync[s].stat <= sync[s].body
       /\ file(s) \in sync[s].active
  /\ sync[s].at \in Dropping => file(s) \in Files
  /\ sync[s].at \in {"idle", "memory", "sessions", "stale"} => file(s) = None
FileOrder == \A f \in Files : Written(f, disk[f]) /\ Written(f, indexed[f])
OrderOK   == FileOrder /\ \A s \in Syncers : SyncOrder(s)

\* A row tells the truth about the text beside it, if its time is that of the file.
Whole(f) ==
  /\ \A v \in Versions : texts[f][v] > 0 =>
        /\ texts[f] = [NoText EXCEPT ![v] = 1]
        /\ \A p \in Parts : vectors[f][p] \in {v, None}
  /\ NotAfter(indexed[f], disk[f])
  /\ f \notin Sessions /\ disk[f] # None /\ indexed[f] = disk[f] => Found(f)

Same(s, f) == disk[f] # None /\ disk[f] = sync[s].seen[f]
Kept(s, f) == Same(s, f) => indexed[f] = disk[f]
Gone(s, f) == (disk[f] = None \/ indexed[f] # disk[f]) /\ ~Same(s, f)

\* The row of the file in hand, its texts and its vectors, as far as the sync has come.
RowOK(s) ==
  /\ sync[s].at \in WithFile => NotAfter(indexed[file(s)], sync[s].stat)
  /\ sync[s].at \in {"deleteText", "deleteVectors", "insert"} =>
       indexed[file(s)] # sync[s].stat
  /\ sync[s].at \in {"count", "texts", "attempt", "embed"} => indexed[file(s)] = sync[s].stat
TextOK(s) ==
  /\ sync[s].at \in {"deleteVectors", "insert"} => texts[file(s)] = NoText
  /\ sync[s].at = "insert" => vectors[file(s)] = NoVectors
  /\ sync[s].at = "attempt" => texts[file(s)][sync[s].body] > 0
  /\ sync[s].at = "embed" => \A b \in sync[s].todo : texts[file(s)][b[2]] > 0

\* Every other memory file is yet to be read, or up to date, or gone since the list
\* was made.
ListOK(s) ==
  /\ sync[s].at \in Listing =>
       \A f \in Files \ Sessions :
         f = file(s) \/ f \in sync[s].list \/ Gone(s, f) \/ (f \in sync[s].active /\ Kept(s, f))
  /\ sync[s].at \in Dropping \cup {"stale"} =>
       \A f \in Files \ Sessions :
         Kept(s, f) /\ (f = file(s) \/ f \in sync[s].list => Gone(s, f))
SyncOK(s) == RowOK(s) /\ TextOK(s) /\ ListOK(s)

OneSync  == \A s, o \in Syncers : At(s, "idle") \/ At(o, "idle") \/ s = o
AllWhole == \A f \in Files : Whole(f)
MemoryInv ==
  /\ MemoryTypeOK /\ OrderOK
  /\ ~overlapped => OneSync /\ AllWhole /\ \A s \in Syncers : SyncOK(s)

LEMMA VersionsAreNats == Versions \subseteq Nat /\ None \notin Versions /\ None \notin Files
BY NoneAssumption, BoundsAssumption DEF Versions

LEMMA IdleIs == Idle \in SyncRecords
BY DEF Idle, SyncRecords, SyncSteps, VersionOrNone

LEMMA TextTypes ==
  ASSUME MemoryTypeOK, NEW s \in Syncers
  PROVE  /\ sync[s] \in SyncRecords
         /\ \A pc \in SyncSteps : Goes(s, pc) => sync' \in [Syncers -> SyncRecords]
         /\ NextFile(s) => sync' \in [Syncers -> SyncRecords]
<1>1. sync[s] \in SyncRecords
  BY DEF Becomes, MemoryTypeOK
<1>2. ASSUME NEW pc \in SyncSteps, Goes(s, pc) PROVE sync' \in [Syncers -> SyncRecords]
  BY <1>1, <1>2 DEF Becomes, MemoryTypeOK, Goes, SyncRecords
<1>3. ASSUME NextFile(s) PROVE sync' \in [Syncers -> SyncRecords]
  BY ZenonT(30), <1>1, <1>3 DEF Becomes, MemoryTypeOK, NextFile, SyncRecords, SyncSteps, VersionOrNone
<1> QED
  BY <1>1, <1>2, <1>3

LEMMA ListTypes ==
  ASSUME MemoryTypeOK, OrderOK, NEW s \in Syncers,
         Start(s) \/ Lists(s) \/ Query(s) \/ DropText(s) \/ DropRow(s)
  PROVE  sync' \in [Syncers -> SyncRecords]
<1>1. sync[s] \in SyncRecords /\ sync \in [Syncers -> SyncRecords]
  BY DEF MemoryTypeOK
<1> USE VersionsAreNats DEF Becomes
<1>2. CASE Start(s)
  <2>1. PICK keys \in Keys :
          Becomes(s, [Idle EXCEPT !.at = "memory", !.keys = keys,
                                  !.list = Present(Files \ Sessions), !.seen = disk])
    BY <1>2 DEF Start
  <2>2. keys \subseteq Files /\ Present(Files \ Sessions) \subseteq Files
    BY SessionsAssumption DEF Keys, Present
  <2> QED
    BY <1>1, <2>1, <2>2, IdleIs DEF MemoryTypeOK, SyncRecords, SyncSteps
<1>3. CASE ListSessions(s)
  BY <1>1, <1>3 DEF ListSessions, Present, SyncRecords, SyncSteps
<1>4. CASE Stat(s)
  <2>1. PICK f \in sync[s].list :
          Becomes(s, [sync[s] EXCEPT !.list = @ \ {f},
                                     !.at   = IF disk[f] = None THEN @ ELSE "read",
                                     !.file = IF disk[f] = None THEN None ELSE f,
                                     !.stat = disk[f]])
    BY <1>4 DEF Stat
  <2>2. f \in Files /\ disk[f] \in VersionOrNone
    BY <1>1 DEF MemoryTypeOK, SyncRecords
  <2> QED
    BY ZenonT(30), <1>1, <2>1, <2>2 DEF SyncRecords, SyncSteps
<1>5. CASE Read(s)
  <2>1. file(s) \in Files /\ disk[file(s)] \in VersionOrNone
    BY <1>5 DEF OrderOK, SyncOrder, MemoryTypeOK, Read, At, WithFile
  <2>2. CASE disk[file(s)] = None
    BY <1>1, <1>5, <2>2, IdleIs DEF Read
  <2>3. CASE disk[file(s)] # None
    <3>1. [sync[s] EXCEPT !.at = "look", !.body = disk[file(s)], !.active = @ \cup {file(s)}]
             \in SyncRecords
      BY <1>1, <2>1 DEF SyncRecords, SyncSteps
    <3> QED
      BY <1>1, <1>5, <2>3, <3>1 DEF Read
  <2> QED
    BY <2>2, <2>3
<1>6. CASE FindStale(s)
  BY <1>1, <1>6 DEF FindStale, SyncRecords, SyncSteps, VersionOrNone
<1>7. CASE Query(s)
  BY <1>1, <1>7, IdleIs DEF Query
<1>8. CASE DropText(s)
  <2>1. PICK f \in sync[s].list :
          Becomes(s, [sync[s] EXCEPT !.at = "dropVectors", !.file = f, !.list = @ \ {f}])
    BY <1>8 DEF DropText
  <2>2. f \in Files
    BY <1>1 DEF SyncRecords
  <2> QED
    BY <1>1, <2>1, <2>2 DEF SyncRecords, SyncSteps
<1>9. CASE DropRow(s)
  BY <1>1, <1>9 DEF DropRow, SyncRecords, SyncSteps
<1> QED
  BY <1>2, <1>3, <1>4, <1>5, <1>6, <1>7, <1>8, <1>9 DEF Lists

\* Every step leaves each variable of its type.
LEMMA MemoryTypeKept ==
  ASSUME MemoryTypeOK, OrderOK, [Next]_vars
  PROVE  MemoryTypeOK'
<1> USE VersionsAreNats
<1>1. CASE UNCHANGED vars
  BY <1>1 DEF vars, world, index, MemoryTypeOK
<1>2. ASSUME NEW f \in Files, WriteFile(f) PROVE MemoryTypeOK'
  <2>1. latest[f] + 1 \in Versions /\ latest[f] + 1 \in 0..MaxVersion
    BY <1>2, BoundsAssumption DEF MemoryTypeOK, WriteFile, Versions
  <2>2. latest' = [latest EXCEPT ![f] = latest[f] + 1] /\ disk' = [disk EXCEPT ![f] = latest[f] + 1]
    BY <1>2 DEF WriteFile, MemoryTypeOK
  <2> QED
    BY <1>2, <2>1, <2>2 DEF WriteFile, MemoryTypeOK, VersionOrNone, index
<1>3. ASSUME NEW f \in Files, RemoveFile(f) PROVE MemoryTypeOK'
  BY <1>3 DEF RemoveFile, MemoryTypeOK, VersionOrNone, index
<1>4. ASSUME NEW f \in Files, Elapse(f) PROVE MemoryTypeOK'
  BY <1>4 DEF Elapse, MemoryTypeOK, Still, world
<1>5. ASSUME NEW s \in Syncers, Kill(s) PROVE MemoryTypeOK'
  BY <1>5, IdleIs DEF Kill, MemoryTypeOK, Becomes, world, index
<1>6. ASSUME NEW s \in Syncers, Start(s) \/ Lists(s) \/ Query(s) \/ DropText(s) \/ DropRow(s)
      PROVE MemoryTypeOK'
  <2>1. sync' \in [Syncers -> SyncRecords]
    BY <1>6, ListTypes
  <2>2. CASE Start(s) \/ Lists(s) \/ Query(s)
    BY <2>1, <2>2 DEF MemoryTypeOK, Start, Lists, ListSessions, Stat, Read, FindStale, Query,
                      Unindexed, Still, world, index
  <2>3. CASE DropText(s)
    <3>1. PICK f \in sync[s].list : texts' = [texts EXCEPT ![f] = NoText]
      BY <2>3 DEF DropText
    <3>2. NoText \in [Versions -> Nat]
      BY DEF NoText
    <3> QED
      BY <2>1, <2>3, <3>1, <3>2 DEF MemoryTypeOK, DropText, Still, world
  <2>4. CASE DropRow(s)
    BY <2>1, <2>4 DEF MemoryTypeOK, DropRow, VersionOrNone, Still, world
  <2> QED
    BY <1>6, <2>2, <2>3, <2>4
<1>7. ASSUME NEW s \in Syncers, Indexes(s) \/ DropVectors(s) \/ DropFailure(s)
      PROVE MemoryTypeOK'
  <2> USE DEF SyncSteps
  <2>1. sync[s] \in SyncRecords /\ sync \in [Syncers -> SyncRecords]
    BY DEF MemoryTypeOK
  <2>2. CASE Look(s) \/ Count(s)
    <3>1. sync' \in [Syncers -> SyncRecords]
      BY <2>2, TextTypes DEF Look, Count
    <3> QED
      BY <2>2, <3>1 DEF MemoryTypeOK, Look, Count, Unindexed, Still, world, index
  <2>3. CASE ReadTexts(s)
    <3>1. Parts \X {v \in Versions : texts[file(s)][v] > 0} \in SUBSET (Parts \X Versions)
      OBVIOUS
    <3>2. sync' \in [Syncers -> SyncRecords]
      BY <2>1, <2>3, <3>1 DEF ReadTexts, Becomes, SyncRecords
    <3> QED
      BY <2>3, <3>2 DEF MemoryTypeOK, ReadTexts, Unindexed, Still, world, index
  <2>4. CASE DeleteText(s)
    <3>1. sync' \in [Syncers -> SyncRecords]
      BY <2>4, TextTypes DEF DeleteText
    <3> QED
      BY <2>4, <3>1 DEF MemoryTypeOK, DeleteText, NoText, Still, world
  <2>5. CASE DeleteVectors(s) \/ DropVectors(s)
    <3>1. sync' \in [Syncers -> SyncRecords]
      BY <2>5, TextTypes DEF DeleteVectors, DropVectors
    <3> QED
      BY <2>5, <3>1 DEF MemoryTypeOK, DeleteVectors, DropVectors, NoVectors, VersionOrNone, Still, world
  <2>6. CASE Insert(s)
    <3>1. sync' \in [Syncers -> SyncRecords]
      BY <2>6, TextTypes DEF Insert
    <3>2. sync[s].body \in Versions /\ sync[s].stat \in VersionOrNone /\ file(s) \in Files
      BY <2>1, <2>6 DEF Insert, At, OrderOK, SyncOrder, WithBody, WithFile, SyncRecords
    <3>3. texts[file(s)][sync[s].body] + 1 \in Nat
      <4>1. texts[file(s)] \in [Versions -> Nat]
        BY <3>2 DEF MemoryTypeOK
      <4>2. \A t \in [Versions -> Nat], v \in Versions : t[v] + 1 \in Nat
        OBVIOUS
      <4> QED
        BY <3>2, <4>1, <4>2
    <3>4. texts' = [texts EXCEPT ![file(s)] = [texts[file(s)] EXCEPT ![sync[s].body] = texts[file(s)][sync[s].body] + 1]]
      BY <2>6 DEF Insert, file
    <3>5. [texts[file(s)] EXCEPT ![sync[s].body] = texts[file(s)][sync[s].body] + 1] \in [Versions -> Nat]
      BY <3>2, <3>3 DEF MemoryTypeOK
    <3>6. texts' \in [Files -> [Versions -> Nat]]
      BY <3>4, <3>5 DEF MemoryTypeOK
    <3> QED
      BY <2>6, <3>1, <3>2, <3>6 DEF MemoryTypeOK, Insert, Still, world
  <2>7. CASE Attempt(s)
    <3>1. sync[s].body \in Versions
      BY <2>7 DEF Attempt, At, OrderOK, SyncOrder, WithBody, WithFile
    <3>2. Parts \X {sync[s].body} \in SUBSET (Parts \X Versions)
      BY <3>1
    <3>3. sync' \in [Syncers -> SyncRecords]
      <4>1. CASE file(s) \in waiting
        BY <2>7, <4>1, TextTypes DEF Attempt
      <4>2. CASE file(s) \notin waiting
        <5>1. PICK t : t = Parts \X {sync[s].body}
          OBVIOUS
        <5>2. sync' = [sync EXCEPT ![s] = [sync[s] EXCEPT !.at = "embed", !.todo = t, !.replaces = FALSE]]
          BY <2>7, <4>2, <5>1 DEF Attempt, Becomes
        <5> QED
          BY <2>1, <3>2, <5>1, <5>2 DEF SyncRecords
      <4> QED
        BY <4>1, <4>2
    <3> QED
      BY <2>7, <3>3 DEF MemoryTypeOK, Attempt, Unindexed, Still, world, index
  <2>8. CASE Embed(s)
    <3>1. PICK b \in sync[s].todo :
            /\ vectors' = [vectors EXCEPT ![file(s)][b[1]] = b[2]]
            /\ Becomes(s, [sync[s] EXCEPT !.todo = @ \ {b}])
      BY <2>8 DEF Embed
    <3>2. b[1] \in Parts /\ b[2] \in Versions /\ file(s) \in Files
      BY <2>1, <2>8 DEF SyncRecords, Embed, At, OrderOK, SyncOrder, WithFile
    <3>3. sync' \in [Syncers -> SyncRecords]
      BY <2>1, <3>1 DEF Becomes, SyncRecords
    <3>4. vectors' \in [Files -> [Parts -> VersionOrNone]]
      BY <3>1, <3>2 DEF MemoryTypeOK, VersionOrNone
    <3> QED
      BY <2>8, <3>3, <3>4 DEF MemoryTypeOK, Embed, Still, world
  <2>9. CASE EmbedFails(s) \/ EmbedDone(s)
    <3>1. sync' \in [Syncers -> SyncRecords]
      BY <2>9, TextTypes DEF EmbedFails, EmbedDone
    <3>2. file(s) \in Files
      BY <2>9 DEF EmbedFails, EmbedDone, At, OrderOK, SyncOrder, WithFile
    <3> QED
      BY <2>9, <3>1, <3>2 DEF MemoryTypeOK, EmbedFails, EmbedDone, Still, world
  <2>10. CASE DropFailure(s)
    <3>1. sync' \in [Syncers -> SyncRecords]
      BY <2>10, TextTypes DEF DropFailure
    <3> QED
      BY <2>10, <3>1 DEF MemoryTypeOK, DropFailure, Still, world
  <2> QED
    BY <1>7, <2>2, <2>3, <2>4, <2>5, <2>6, <2>7, <2>8, <2>9, <2>10 DEF Indexes
<1> QED
  BY <1>1, <1>2, <1>3, <1>4, <1>5, <1>6, <1>7 DEF Next, Step, Drops

LEMMA SameTime == \A v \in VersionOrNone : NotAfter(v, v)
BY VersionsAreNats DEF VersionOrNone, NotAfter

LEMMA Becoming ==
  ASSUME MemoryTypeOK, NEW s \in Syncers, NEW r, Becomes(s, r)
  PROVE  sync'[s] = r /\ \A o \in Syncers \ {s} : sync'[o] = sync[o]
BY DEF MemoryTypeOK, Becomes

\* What a sync knows stays in order while another one goes on.
LEMMA OtherOrder ==
  ASSUME OrderOK, NEW o \in Syncers, sync'[o] = sync[o], UNCHANGED world
  PROVE  SyncOrder(o)'
BY DEF OrderOK, SyncOrder, world, file, Written, NotAfter

\* A new version is later than everything that was read or noted.
LEMMA WorldOrder ==
  ASSUME MemoryTypeOK, OrderOK, NEW f \in Files, WriteFile(f) \/ RemoveFile(f)
  PROVE  OrderOK'
<1> USE VersionsAreNats
<1>1. /\ sync' = sync /\ indexed' = indexed
      /\ \A g \in Files : latest[g] \in Nat /\ latest'[g] \in Nat /\ latest[g] <= latest'[g]
      /\ \A g \in Files : disk'[g] = disk[g] \/ disk'[g] = None \/ (disk'[g] = latest'[g] /\ latest'[g] > latest[g])
  <2>1. /\ \A g \in Files : latest[g] \in Nat
        /\ latest \in [Files -> 0..MaxVersion] /\ disk \in [Files -> VersionOrNone]
    BY DEF MemoryTypeOK
  <2>2. CASE WriteFile(f)
    <3>1. latest' = [latest EXCEPT ![f] = latest[f] + 1]
      BY <2>2 DEF WriteFile
    <3>2. latest'[f] = latest[f] + 1 /\ disk' = [disk EXCEPT ![f] = latest'[f]]
      BY <2>1, <2>2, <3>1 DEF WriteFile
    <3>3. ASSUME NEW g \in Files
          PROVE  /\ latest'[g] \in Nat /\ latest[g] <= latest'[g]
                 /\ disk'[g] = disk[g] \/ (disk'[g] = latest'[g] /\ latest'[g] > latest[g])
      <4>1. CASE g = f
        BY <2>1, <3>2, <4>1
      <4>2. CASE g # f
        BY <2>1, <3>1, <3>2, <4>2
      <4> QED
        BY <4>1, <4>2
    <3> QED
      BY <2>1, <2>2, <3>3 DEF WriteFile, index
  <2>3. CASE RemoveFile(f)
    <3>1. /\ disk' = [disk EXCEPT ![f] = None] /\ latest' = latest
          /\ sync' = sync /\ indexed' = indexed
      BY <2>3 DEF RemoveFile, index
    <3>2. \A g \in Files : disk'[g] = disk[g] \/ disk'[g] = None
      BY <2>1, <3>1
    <3> QED
      BY <2>1, <3>1, <3>2
  <2> QED
    BY <2>2, <2>3
<1>2. FileOrder'
  <2>1. ASSUME NEW g \in Files PROVE Written(g, disk[g])' /\ Written(g, indexed[g])'
    <3>1. /\ disk[g] \in VersionOrNone /\ indexed[g] \in VersionOrNone
          /\ Written(g, disk[g]) /\ Written(g, indexed[g])
      BY DEF MemoryTypeOK, OrderOK, FileOrder
    <3>2. ASSUME NEW v \in VersionOrNone, Written(g, v) PROVE v = None \/ v <= latest'[g]
      BY <1>1, <3>2 DEF Written, VersionOrNone
    <3>3. /\ indexed'[g] = indexed[g]
          /\ disk'[g] = disk[g] \/ disk'[g] = None \/ disk'[g] = latest'[g]
          /\ latest'[g] <= latest'[g]
      BY <1>1
    <3> QED
      BY <3>1, <3>2, <3>3 DEF Written
  <2> QED
    BY <2>1 DEF FileOrder, Written
<1>3. ASSUME NEW s \in Syncers PROVE SyncOrder(s)'
  <2>1. sync[s] \in SyncRecords /\ SyncOrder(s) /\ file(s)' = file(s)
    BY <1>1 DEF OrderOK, MemoryTypeOK, file
  <2>2. ASSUME NEW g \in Files, NEW v \in VersionOrNone, Written(g, v), NotAfter(v, disk[g])
        PROVE  Written(g, v)' /\ NotAfter(v, disk'[g])
    BY <1>1, <2>2 DEF Written, NotAfter, VersionOrNone
  <2>3. /\ sync[s].stat \in VersionOrNone /\ sync[s].body \in VersionOrNone
        /\ \A g \in Files : sync[s].seen[g] \in VersionOrNone
    BY <2>1 DEF SyncRecords
  <2>4. \A g \in Files : Written(g, sync[s].seen[g])' /\ NotAfter(sync[s].seen[g], disk[g])'
    BY <1>1, <2>1, <2>2, <2>3 DEF SyncOrder
  <2>5. sync[s].at \in WithFile => /\ Written(file(s), sync[s].stat)'
                                   /\ NotAfter(sync[s].stat, disk[file(s)])'
    BY <1>1, <2>1, <2>2, <2>3 DEF SyncOrder
  <2>6. sync[s].at \in WithBody => /\ Written(file(s), sync[s].body)'
                                   /\ NotAfter(sync[s].body, disk[file(s)])'
    BY <1>1, <2>1, <2>2, <2>3 DEF SyncOrder, WithBody
  <2> QED
    BY <1>1, <2>1, <2>4, <2>5, <2>6 DEF SyncOrder, NotAfter
<1> QED
  BY <1>2, <1>3 DEF OrderOK

LEMMA IdleOrder ==
  ASSUME NEW s \in Syncers, sync'[s] = Idle
  PROVE  SyncOrder(s)'
BY DEF SyncOrder, Idle, file, Written, NotAfter, WithFile, WithBody, Dropping

\* A sync that goes on with its file knows no more about it.
LEMMA SameFileOrder ==
  ASSUME MemoryTypeOK, OrderOK, NEW s \in Syncers, UNCHANGED world,
         sync[s].at \in WithBody, sync'[s].at \in WithBody,
         sync'[s].file = sync[s].file, sync'[s].stat = sync[s].stat,
         sync'[s].body = sync[s].body, sync'[s].seen = sync[s].seen,
         sync'[s].active = sync[s].active
  PROVE  SyncOrder(s)'
BY DEF OrderOK, SyncOrder, world, file, Written, NotAfter, WithFile, WithBody, Dropping

\* A sync without a file knows what it saw when it began.
LEMMA NoFileOrder ==
  ASSUME MemoryTypeOK, OrderOK, NEW s \in Syncers, UNCHANGED world,
         \/ sync'[s].at \in {"idle", "memory", "sessions", "stale"} /\ sync'[s].file = None
         \/ sync'[s].at \in Dropping /\ sync'[s].file \in Files,
         sync'[s].seen = sync[s].seen
  PROVE  SyncOrder(s)'
BY DEF OrderOK, SyncOrder, world, file, Written, NotAfter, WithFile, WithBody, Dropping

LEMMA OrderKept ==
  ASSUME MemoryTypeOK, OrderOK, [Next]_vars
  PROVE  OrderOK'
<1> USE VersionsAreNats
<1>1. CASE UNCHANGED vars
  BY <1>1 DEF vars, world, index, OrderOK, FileOrder, SyncOrder, Written, NotAfter, file
<1>2. ASSUME NEW f \in Files, WriteFile(f) \/ RemoveFile(f) PROVE OrderOK'
  BY <1>2, WorldOrder
<1>3. ASSUME NEW f \in Files, Elapse(f) PROVE OrderOK'
  BY <1>3, OtherOrder DEF Elapse, Still, world, OrderOK, FileOrder, Written
<1>4. ASSUME NEW s \in Syncers, NEW r, Becomes(s, r), UNCHANGED world, SyncOrder(s)',
             \A f \in Files : Written(f, indexed'[f])
      PROVE  OrderOK'
  BY <1>4, OtherOrder, Becoming DEF OrderOK, FileOrder, Written, world
<1>5. ASSUME NEW s \in Syncers, Kill(s) \/ Query(s) PROVE OrderOK'
  <2>1. Becomes(s, Idle) /\ UNCHANGED world /\ indexed' = indexed
    BY <1>5 DEF Kill, Query, Unindexed, Still, index
  <2> QED
    BY <2>1, <1>4, Becoming, IdleOrder DEF OrderOK, FileOrder
<1>6. ASSUME NEW s \in Syncers, Step(s) PROVE OrderOK'
  <2>1. sync[s] \in SyncRecords /\ UNCHANGED world /\ SyncOrder(s)
    BY <1>6 DEF MemoryTypeOK, OrderOK, Step, Start, Lists, Indexes, Drops, Query, ListSessions, Stat,
                Read, FindStale, Look, Count, ReadTexts, DeleteText, DeleteVectors, Insert, Attempt,
                Embed, EmbedFails, EmbedDone, DropText, DropVectors, DropFailure, DropRow,
                Unindexed, Still
  <2>2. ASSUME NEW r, Becomes(s, r), SyncOrder(s)', indexed' = indexed PROVE OrderOK'
    BY <2>1, <2>2, <1>4 DEF OrderOK, FileOrder
  <2>3. ASSUME NextFile(s), indexed' = indexed PROVE OrderOK'
    <3>1. PICK pc \in {"memory", "sessions"} :
            Becomes(s, [sync[s] EXCEPT !.at = pc, !.file = None, !.stat = None, !.body = None,
                                       !.todo = {}, !.replaces = FALSE])
      BY <2>3 DEF NextFile
    <3>2. sync'[s] = [sync[s] EXCEPT !.at = pc, !.file = None, !.stat = None, !.body = None,
                                     !.todo = {}, !.replaces = FALSE]
      BY <3>1, Becoming
    <3>3. sync'[s].at = pc /\ sync'[s].file = None /\ sync'[s].seen = sync[s].seen
      BY <2>1, <3>2 DEF SyncRecords
    <3> QED
      BY <2>1, <2>2, <2>3, <3>1, <3>3, NoFileOrder
  <2>4. ASSUME NEW pc \in WithBody, Goes(s, pc), indexed' = indexed, sync[s].at \in WithBody
        PROVE OrderOK'
    BY <2>1, <2>2, <2>4, Becoming, SameFileOrder DEF Goes, SyncRecords
  <2>5. CASE Start(s)
    <3>1. PICK keys \in Keys :
            Becomes(s, [Idle EXCEPT !.at = "memory", !.keys = keys,
                                    !.list = Present(Files \ Sessions), !.seen = disk])
      BY <2>5 DEF Start
    <3>2. sync'[s].at = "memory" /\ sync'[s].file = None /\ sync'[s].seen = disk
      <4>1. sync'[s] = [Idle EXCEPT !.at = "memory", !.keys = keys,
                                    !.list = Present(Files \ Sessions), !.seen = disk]
        BY <3>1, Becoming
      <4> QED
        BY <4>1 DEF Idle
    <3>3. SyncOrder(s)'
      <4>1. \A f \in Files : Written(f, disk[f]) /\ NotAfter(disk[f], disk[f])
        BY SameTime DEF OrderOK, FileOrder, MemoryTypeOK
      <4> QED
        BY <2>1, <3>2, <4>1 DEF SyncOrder, world, file, Written, NotAfter, WithFile, WithBody, Dropping
    <3> QED
      BY <2>2, <2>5, <3>1, <3>3 DEF Start, index
  <2>6. CASE ListSessions(s)
    <3>1. Becomes(s, [sync[s] EXCEPT !.at = "sessions", !.list = Present(sync[s].keys)])
      BY <2>6 DEF ListSessions
    <3>2. sync'[s].at = "sessions" /\ sync'[s].file = None /\ sync'[s].seen = sync[s].seen
      <4>1. sync'[s] = [sync[s] EXCEPT !.at = "sessions", !.list = Present(sync[s].keys)]
        BY <3>1, Becoming
      <4>2. sync[s].file = None
        BY <2>1, <2>6 DEF SyncOrder, ListSessions, At, file
      <4> QED
        BY <2>1, <4>1, <4>2 DEF SyncRecords
    <3> QED
      BY <2>1, <2>2, <2>6, <3>1, <3>2, NoFileOrder DEF ListSessions, Unindexed, index
  <2>7. CASE Stat(s)
    <3>1. PICK f \in sync[s].list :
            Becomes(s, [sync[s] EXCEPT !.list = @ \ {f},
                                       !.at   = IF disk[f] = None THEN @ ELSE "read",
                                       !.file = IF disk[f] = None THEN None ELSE f,
                                       !.stat = disk[f]])
      BY <2>7 DEF Stat
    <3>2. f \in Files /\ disk[f] \in VersionOrNone
      BY <2>1 DEF MemoryTypeOK, SyncRecords
    <3>3. /\ sync'[s].at = IF disk[f] = None THEN sync[s].at ELSE "read"
          /\ sync'[s].file = IF disk[f] = None THEN None ELSE f
          /\ sync'[s].stat = disk[f] /\ sync'[s].seen = sync[s].seen
      <4>1. sync'[s] = [sync[s] EXCEPT !.list = @ \ {f},
                                       !.at   = IF disk[f] = None THEN @ ELSE "read",
                                       !.file = IF disk[f] = None THEN None ELSE f,
                                       !.stat = disk[f]]
        BY <3>1, Becoming
      <4> QED
        BY <2>1, <4>1 DEF SyncRecords
    <3>4. SyncOrder(s)'
      <4>1. CASE disk[f] = None
        BY <2>1, <2>7, <3>3, <4>1, NoFileOrder DEF Stat
      <4>2. CASE disk[f] # None
        <5>1. Written(f, disk[f]) /\ NotAfter(sync[s].seen[f], disk[f]) /\ disk[f] \in Versions
          BY <2>1, <3>2, <4>2 DEF OrderOK, FileOrder, SyncOrder, VersionOrNone
        <5> QED
          <6>1. NotAfter(disk[f], disk[f]) /\ file(s)' = f /\ sync'[s].at = "read"
            BY <3>2, <3>3, <4>2, SameTime DEF file
          <6>2. \A g \in Files : /\ Written(g, sync[s].seen[g])'
                                 /\ NotAfter(sync[s].seen[g], disk[g])'
            BY <2>1, <3>3 DEF SyncOrder, world, Written, NotAfter
          <6>3. Written(f, disk[f])' /\ NotAfter(disk[f], disk[f])' /\ NotAfter(sync[s].seen[f], disk[f])
            BY <2>1, <5>1, <6>1 DEF world, Written, NotAfter
          <6> QED
            BY <2>1, <3>2, <3>3, <5>1, <6>1, <6>2, <6>3 DEF SyncOrder, world, Written, NotAfter, WithFile, WithBody, Dropping
      <4> QED
        BY <4>1, <4>2
    <3> QED
      BY <2>2, <2>7, <3>1, <3>4 DEF Stat, Unindexed, index
  <2>8. CASE Read(s)
    <3>1. file(s) \in Files
      BY <2>1, <2>8 DEF SyncOrder, Read, At, WithFile
    <3>2. CASE disk[file(s)] = None
      <4>1. Becomes(s, Idle)
        BY <2>8, <3>2 DEF Read
      <4> QED
        BY <2>2, <2>8, <4>1, Becoming, IdleOrder DEF Read, Unindexed, index
    <3>3. CASE disk[file(s)] # None
      <4>1. Becomes(s, [sync[s] EXCEPT !.at = "look", !.body = disk[file(s)],
                                       !.active = sync[s].active \cup {file(s)}])
        BY <2>8, <3>3 DEF Read
      <4>2. /\ sync'[s].at = "look" /\ sync'[s].body = disk[file(s)] /\ file(s) \in sync'[s].active
            /\ sync'[s].file = sync[s].file /\ sync'[s].stat = sync[s].stat
            /\ sync'[s].seen = sync[s].seen
        <5>1. sync'[s] = [sync[s] EXCEPT !.at = "look", !.body = disk[file(s)],
                                         !.active = sync[s].active \cup {file(s)}]
          BY <4>1, Becoming
        <5> QED
          BY <2>1, <5>1 DEF SyncRecords
      <4>3. disk[file(s)] \in Versions /\ Written(file(s), disk[file(s)])
        BY <3>1, <3>3 DEF MemoryTypeOK, VersionOrNone, OrderOK, FileOrder
      <4>4. SyncOrder(s)'
        BY SMTT(30), <2>1, <2>8, <3>1, <3>3, <4>2, <4>3 DEF SyncOrder, Read, At, world, file, Written, NotAfter, WithFile, WithBody, Dropping
      <4> QED
        BY <2>2, <2>8, <4>1, <4>4 DEF Read, Unindexed, index
    <3> QED
      BY <3>2, <3>3
  <2>9. CASE FindStale(s)
    <3>1. Becomes(s, [sync[s] EXCEPT !.at = "stale",
                        !.list = {f \in Files : indexed[f] # None} \ sync[s].active,
                        !.active = {}, !.keys = {}])
      BY <2>9 DEF FindStale
    <3>2. sync'[s].at = "stale" /\ sync'[s].file = None /\ sync'[s].seen = sync[s].seen
      <4>1. sync'[s] = [sync[s] EXCEPT !.at = "stale",
                          !.list = {f \in Files : indexed[f] # None} \ sync[s].active,
                          !.active = {}, !.keys = {}]
        BY <3>1, Becoming
      <4>2. sync[s].file = None
        BY <2>1, <2>9 DEF SyncOrder, FindStale, At, file
      <4> QED
        BY <2>1, <4>1, <4>2 DEF SyncRecords
    <3> QED
      BY <2>1, <2>2, <2>9, <3>1, <3>2, NoFileOrder DEF FindStale, Unindexed, index
  <2>10. CASE Look(s) \/ Count(s)
    BY <2>3, <2>4, <2>10 DEF Look, Count, At, WithBody, WithFile, Unindexed, index
  <2>11. CASE DeleteText(s) \/ DeleteVectors(s)
    BY <2>4, <2>11 DEF DeleteText, DeleteVectors, At, WithBody, WithFile
  <2>12. CASE ReadTexts(s) \/ Attempt(s) \/ Embed(s)
    <3>1. CASE Attempt(s) /\ file(s) \in waiting
      BY <2>3, <3>1 DEF Attempt, Unindexed, index
    <3>2. CASE ~(Attempt(s) /\ file(s) \in waiting)
      <4>1. PICK t, b : Becomes(s, [sync[s] EXCEPT !.at = "embed", !.todo = t, !.replaces = b])
        <5>1. CASE ReadTexts(s)
          BY <5>1 DEF ReadTexts
        <5>2. CASE Attempt(s)
          BY <3>2, <5>2 DEF Attempt
        <5>3. CASE Embed(s)
          <6>1. PICK e : Becomes(s, [sync[s] EXCEPT !.todo = @ \ {e}])
            BY <5>3 DEF Embed
          <6>2. [sync[s] EXCEPT !.todo = @ \ {e}] = [sync[s] EXCEPT !.at = "embed", !.todo = @ \ {e}, !.replaces = sync[s].replaces]
            BY <2>1, <5>3 DEF SyncRecords, Embed, At
          <6> QED
            BY <6>1, <6>2
        <5> QED
          BY <2>12, <5>1, <5>2, <5>3
      <4>2. /\ sync'[s].at = "embed" /\ sync'[s].file = sync[s].file /\ sync'[s].stat = sync[s].stat
            /\ sync'[s].body = sync[s].body /\ sync'[s].seen = sync[s].seen
            /\ sync'[s].active = sync[s].active
        <5>1. sync'[s] = [sync[s] EXCEPT !.at = "embed", !.todo = t, !.replaces = b]
          BY <4>1, Becoming
        <5> QED
          BY <2>1, <5>1 DEF SyncRecords
      <4>3. sync[s].at \in WithBody /\ indexed' = indexed
        BY <2>12 DEF ReadTexts, Attempt, Embed, At, WithBody, WithFile, Unindexed, index
      <4>4. SyncOrder(s)'
        BY <2>1, <4>2, <4>3, SameFileOrder DEF WithBody, WithFile
      <4> QED
        BY <2>2, <4>1, <4>3, <4>4
    <3> QED
      BY <3>1, <3>2
  <2>13. CASE Insert(s)
    <3>1. file(s) \in Files /\ Written(file(s), sync[s].stat)
      BY <2>1, <2>13 DEF SyncOrder, Insert, At, WithFile
    <3>2. \A f \in Files : Written(f, indexed'[f])
      BY <2>13, <3>1 DEF Insert, MemoryTypeOK, OrderOK, FileOrder, Written, file
    <3>3. CASE Parts = {}
      <4>1. NextFile(s)
        BY <2>13, <3>3 DEF Insert
      <4>2. PICK pc \in {"memory", "sessions"} :
              Becomes(s, [sync[s] EXCEPT !.at = pc, !.file = None, !.stat = None, !.body = None,
                                         !.todo = {}, !.replaces = FALSE])
        BY <4>1 DEF NextFile
      <4>3. sync'[s] = [sync[s] EXCEPT !.at = pc, !.file = None, !.stat = None, !.body = None,
                                       !.todo = {}, !.replaces = FALSE]
        BY <4>2, Becoming
      <4>4. sync'[s].at = pc /\ sync'[s].file = None /\ sync'[s].seen = sync[s].seen
        BY <2>1, <4>3 DEF SyncRecords
      <4>5. SyncOrder(s)'
        BY <2>1, <4>4, NoFileOrder
      <4> QED
        BY <1>4, <2>1, <3>2, <4>2, <4>5
    <3>4. CASE Parts # {}
      <4>1. Goes(s, "attempt")
        BY <2>13, <3>4 DEF Insert
      <4>2. SyncOrder(s)'
        BY <2>1, <2>13, <4>1, Becoming, SameFileOrder DEF Goes, SyncRecords, Insert, At, WithBody, WithFile
      <4> QED
        BY <1>4, <2>1, <3>2, <4>1, <4>2 DEF Goes
    <3> QED
      BY <3>3, <3>4
  <2>14. CASE EmbedFails(s) \/ EmbedDone(s)
    BY <2>3, <2>14 DEF EmbedFails, EmbedDone
  <2>15. CASE DropText(s)
    <3>1. PICK f \in sync[s].list :
            Becomes(s, [sync[s] EXCEPT !.at = "dropVectors", !.file = f, !.list = @ \ {f}])
      BY <2>15 DEF DropText
    <3>2. f \in Files /\ sync'[s].at = "dropVectors" /\ sync'[s].file = f /\ sync'[s].seen = sync[s].seen
      <4>1. sync'[s] = [sync[s] EXCEPT !.at = "dropVectors", !.file = f, !.list = @ \ {f}]
        BY <3>1, Becoming
      <4> QED
        BY <2>1, <4>1 DEF SyncRecords
    <3>3. SyncOrder(s)'
      BY <2>1, <3>2, NoFileOrder DEF Dropping
    <3> QED
      BY <2>2, <2>15, <3>1, <3>3 DEF DropText
  <2>16. CASE DropVectors(s) \/ DropFailure(s)
    <3>1. PICK pc \in Dropping : Goes(s, pc)
      BY <2>16 DEF DropVectors, DropFailure, Dropping
    <3>2. sync'[s].at = pc /\ sync'[s].file = sync[s].file /\ sync'[s].seen = sync[s].seen
      BY <2>1, <3>1, Becoming DEF SyncRecords, Goes
    <3>3. sync[s].file \in Files
      BY <2>1, <2>16 DEF SyncOrder, DropVectors, DropFailure, At, Dropping, file
    <3>4. SyncOrder(s)'
      BY <2>1, <3>1, <3>2, <3>3, NoFileOrder
    <3> QED
      BY <2>2, <2>16, <3>1, <3>4 DEF DropVectors, DropFailure, Goes
  <2>17. CASE DropRow(s)
    <3>1. Becomes(s, [sync[s] EXCEPT !.at = "stale", !.file = None])
      BY <2>17 DEF DropRow
    <3>2. sync'[s].at = "stale" /\ sync'[s].file = None /\ sync'[s].seen = sync[s].seen
      <4>1. sync'[s] = [sync[s] EXCEPT !.at = "stale", !.file = None]
        BY <3>1, Becoming
      <4> QED
        BY <2>1, <4>1 DEF SyncRecords
    <3>3. SyncOrder(s)'
      BY <2>1, <3>2, NoFileOrder
    <3>4. \A f \in Files : Written(f, indexed'[f])
      BY <2>17 DEF DropRow, MemoryTypeOK, OrderOK, FileOrder, Written
    <3> QED
      BY <1>4, <2>1, <3>1, <3>3, <3>4
  <2> QED
    BY <1>5, <1>6, <2>5, <2>6, <2>7, <2>8, <2>9, <2>10, <2>11, <2>12, <2>13, <2>14, <2>15, <2>16, <2>17
       DEF Step, Lists, Indexes, Drops
<1> QED
  BY <1>1, <1>2, <1>3, <1>5, <1>6 DEF Next

\* A file that is written or removed is no longer what any row or any sync says.
LEMMA WorldKeeps ==
  ASSUME MemoryInv, ~overlapped, NEW f \in Files, WriteFile(f) \/ RemoveFile(f)
  PROVE  OneSync' /\ AllWhole' /\ \A s \in Syncers : SyncOK(s)'
<1>1. MemoryTypeOK /\ OrderOK /\ OneSync /\ AllWhole /\ \A s \in Syncers : SyncOK(s)
  BY DEF MemoryInv
<1>2. UNCHANGED <<index, sync>>
  BY DEF WriteFile, RemoveFile
<1>3. ASSUME NEW g \in Files
      PROVE  \/ disk'[g] = disk[g]
             \/ /\ disk'[g] = None \/ indexed[g] # disk'[g]
                /\ disk'[g] = None \/ \A s \in Syncers : sync[s].seen[g] # disk'[g]
                /\ NotAfter(indexed[g], disk'[g])
  <2>1. CASE RemoveFile(f)
    <3>1. disk' = [disk EXCEPT ![f] = None]
      BY <2>1 DEF RemoveFile
    <3> QED
      BY <1>1, <3>1 DEF MemoryTypeOK, NotAfter
  <2>2. CASE WriteFile(f)
    <3>1. latest[f] \in Nat
      BY <1>1 DEF MemoryTypeOK
    <3>2. latest'[f] = latest[f] + 1 /\ disk' = [disk EXCEPT ![f] = latest'[f]]
      BY <1>1, <2>2 DEF WriteFile, MemoryTypeOK
    <3>3. CASE g # f
      BY <1>1, <3>2, <3>3 DEF MemoryTypeOK
    <3>4. CASE g = f
      <4>1. disk'[f] = latest[f] + 1
        BY <1>1, <3>2 DEF MemoryTypeOK
      <4>2. ASSUME NEW v \in VersionOrNone, Written(f, v) PROVE v # disk'[f] /\ NotAfter(v, disk'[f])
        BY <3>1, <4>1, <4>2, VersionsAreNats, NoneAssumption DEF Written, NotAfter, VersionOrNone
      <4>3. indexed[f] \in VersionOrNone /\ Written(f, indexed[f])
        BY <1>1 DEF MemoryTypeOK, OrderOK, FileOrder
      <4>4. \A s \in Syncers : sync[s].seen[f] \in VersionOrNone /\ Written(f, sync[s].seen[f])
        BY <1>1 DEF MemoryTypeOK, OrderOK, SyncOrder, SyncRecords
      <4> QED
        BY <3>4, <4>2, <4>3, <4>4
    <3> QED
      BY <3>3, <3>4
  <2> QED
    BY <2>1, <2>2
<1>4. OneSync'
  BY <1>1, <1>2 DEF OneSync, At
<1>5. ASSUME NEW g \in Files PROVE Whole(g)'
  <2>1. Whole(g)
    BY <1>1 DEF AllWhole
  <2> QED
    BY <1>2, <1>3, <2>1 DEF Whole, index, Found, NotAfter
<1>6. ASSUME NEW s \in Syncers PROVE SyncOK(s)'
  <2>1. RowOK(s) /\ TextOK(s) /\ ListOK(s)
    BY <1>1 DEF SyncOK
  <2>2. RowOK(s)' /\ TextOK(s)'
    BY <1>2, <2>1 DEF RowOK, TextOK, index, file, NotAfter
  <2>3. \A g \in Files : (Gone(s, g) => Gone(s, g)') /\ (Kept(s, g) => Kept(s, g)')
    BY <1>2, <1>3 DEF Gone, Kept, Same, index
  <2>4. ListOK(s)'
    BY <1>2, <2>1, <2>3 DEF ListOK, file
  <2> QED
    BY <2>2, <2>4 DEF SyncOK
<1> QED
  BY <1>4, <1>5, <1>6 DEF AllWhole

\* What the index says stays so while it and the files stay as they are.
LEMMA QuietWhole ==
  ASSUME AllWhole, UNCHANGED <<disk, indexed, texts, vectors>>
  PROVE  AllWhole'
BY DEF AllWhole, Whole, Found, NotAfter

\* A single sync goes on: the others rest.
LEMMA SoleSync ==
  ASSUME MemoryInv, ~overlapped, NEW s \in Syncers, NEW r, Becomes(s, r), ~At(s, "idle"),
         AllWhole', SyncOK(s)'
  PROVE  OneSync' /\ AllWhole' /\ \A o \in Syncers : SyncOK(o)'
<1>1. ASSUME NEW o \in Syncers \ {s} PROVE At(o, "idle") /\ At(o, "idle")'
  BY Becoming DEF MemoryInv, OneSync, At
<1>2. ASSUME NEW o \in Syncers, At(o, "idle")' PROVE SyncOK(o)'
  BY <1>2 DEF At, SyncOK, RowOK, TextOK, ListOK, WithFile, Listing, Dropping
<1> QED
  BY <1>1, <1>2 DEF OneSync

\* A sync that goes on with its file has told the truth about the others.
LEMMA SameFileLists ==
  ASSUME MemoryInv, ~overlapped, NEW s \in Syncers, UNCHANGED world,
         sync[s].at \in WithFile, sync'[s].at \in WithFile,
         sync'[s].file = sync[s].file, sync'[s].list = sync[s].list,
         sync'[s].active = sync[s].active, sync'[s].seen = sync[s].seen,
         \A f \in Files : f # file(s) => indexed'[f] = indexed[f]
  PROVE  ListOK(s)'
<1>1. ListOK(s)
  BY DEF MemoryInv, SyncOK
<1>2. ASSUME NEW f \in Files \ Sessions
      PROVE  \/ f = file(s)' \/ f \in sync'[s].list \/ Gone(s, f)'
             \/ (f \in sync'[s].active /\ Kept(s, f)')
  <2>1. \/ f = file(s) \/ f \in sync[s].list \/ Gone(s, f)
        \/ (f \in sync[s].active /\ Kept(s, f))
    BY <1>1 DEF ListOK, Listing
  <2>2. f # file(s) => (Gone(s, f) => Gone(s, f)') /\ (Kept(s, f) => Kept(s, f)')
    BY DEF Gone, Kept, Same, world
  <2> QED
    BY <2>1, <2>2 DEF file
<1>3. sync'[s].at \notin Dropping \cup {"stale"}
  BY DEF Dropping, WithFile
<1> QED
  BY <1>2, <1>3 DEF ListOK

\* A file whose row has the time it was read at is done.
LEMMA NextFileLists ==
  ASSUME MemoryInv, ~overlapped, NEW s \in Syncers, NextFile(s), UNCHANGED world,
         sync[s].at \in WithBody, indexed'[file(s)] = sync[s].stat,
         \A f \in Files : f # file(s) => indexed'[f] = indexed[f]
  PROVE  SyncOK(s)'
<1>1. ListOK(s) /\ SyncOrder(s) /\ sync[s] \in SyncRecords /\ MemoryTypeOK
  BY DEF MemoryInv, SyncOK, OrderOK, MemoryTypeOK
<1>2. PICK pc \in {"memory", "sessions"} :
        Becomes(s, [sync[s] EXCEPT !.at = pc, !.file = None, !.stat = None, !.body = None,
                                   !.todo = {}, !.replaces = FALSE])
  BY DEF NextFile
<1>3. sync'[s] = [sync[s] EXCEPT !.at = pc, !.file = None, !.stat = None, !.body = None,
                                 !.todo = {}, !.replaces = FALSE]
  BY <1>1, <1>2, Becoming
<1>4. /\ sync'[s].at = pc /\ sync'[s].list = sync[s].list /\ sync'[s].active = sync[s].active
      /\ sync'[s].seen = sync[s].seen
  BY <1>1, <1>3 DEF SyncRecords
<1>5. RowOK(s)' /\ TextOK(s)'
  BY <1>4 DEF RowOK, TextOK, WithFile
<1>6. PICK g \in Files : g = file(s)
  BY <1>1 DEF SyncOrder, WithBody
<1>7. /\ g \in sync[s].active /\ sync[s].stat \in Versions
      /\ NotAfter(sync[s].stat, disk[g]) /\ NotAfter(sync[s].seen[g], sync[s].stat)
  BY <1>1, <1>6 DEF SyncOrder, WithBody
<1>7a. Kept(s, g)'
  <2>1. ASSUME disk[g] # None, disk[g] = sync[s].seen[g] PROVE sync[s].stat = disk[g]
    <3>1. disk[g] \in Versions
      BY <1>1, <2>1 DEF MemoryTypeOK, VersionOrNone
    <3>2. sync[s].stat <= disk[g] /\ disk[g] <= sync[s].stat
      BY <1>7, <2>1, <3>1, VersionsAreNats DEF NotAfter
    <3>3. sync[s].stat \in Nat /\ disk[g] \in Nat
      BY <1>7, <3>1, VersionsAreNats
    <3> QED
      BY <3>2, <3>3
  <2> QED
    BY <1>4, <1>6, <2>1 DEF Kept, Same, world
<1>8. ASSUME NEW f \in Files \ Sessions
      PROVE  f \in sync'[s].list \/ Gone(s, f)' \/ (f \in sync'[s].active /\ Kept(s, f)')
  <2>1. CASE f = g
    BY <1>4, <1>7, <1>7a, <2>1 DEF Kept, Same
  <2>2. CASE f # g
    <3>1. f \in sync[s].list \/ Gone(s, f) \/ (f \in sync[s].active /\ Kept(s, f))
      BY <1>1, <1>6, <2>2 DEF ListOK, Listing, WithBody
    <3>2. (Gone(s, f) => Gone(s, f)') /\ (Kept(s, f) => Kept(s, f)')
      BY <1>4, <1>6, <2>2 DEF Gone, Kept, Same, world
    <3> QED
      BY <1>4, <3>1, <3>2
  <2> QED
    BY <2>1, <2>2
<1>9. ListOK(s)'
  BY <1>4, <1>8 DEF ListOK, Dropping
<1> QED
  BY <1>5, <1>9 DEF SyncOK

\* The sync that lists and reads.
LEMMA ListsKeep ==
  ASSUME MemoryInv, ~overlapped, NEW s \in Syncers, Start(s) \/ Lists(s), ~overlapped'
  PROVE  OneSync' /\ AllWhole' /\ \A o \in Syncers : SyncOK(o)'
<1>1. /\ MemoryTypeOK /\ OrderOK /\ OneSync /\ AllWhole /\ sync[s] \in SyncRecords
      /\ RowOK(s) /\ TextOK(s) /\ ListOK(s) /\ SyncOrder(s)
  BY DEF MemoryInv, SyncOK, MemoryTypeOK, OrderOK
<1>2. UNCHANGED <<disk, latest, indexed, texts, vectors>>
  BY DEF Start, Lists, ListSessions, Stat, Read, FindStale, Unindexed, Still, world, index
<1>3. AllWhole'
  BY <1>1, <1>2, QuietWhole
<1>4. CASE Start(s)
  <2>1. PICK keys \in Keys :
          Becomes(s, [Idle EXCEPT !.at = "memory", !.keys = keys,
                                  !.list = Present(Files \ Sessions), !.seen = disk])
    BY <1>4 DEF Start
  <2>2. sync'[s] = [Idle EXCEPT !.at = "memory", !.keys = keys,
                                !.list = Present(Files \ Sessions), !.seen = disk]
    BY <1>1, <2>1, Becoming
  <2>3. sync'[s].at = "memory" /\ sync'[s].list = Present(Files \ Sessions) /\ sync'[s].seen = disk
    BY <2>2 DEF Idle
  <2>4. \A o \in Syncers \ {s} : At(o, "idle") /\ sync'[o] = sync[o]
    BY <1>1, <1>4, <2>1, Becoming DEF Start
  <2>5. OneSync'
    BY <2>4 DEF OneSync, At
  <2>6. ASSUME NEW o \in Syncers \ {s} PROVE SyncOK(o)'
    BY <2>4 DEF At, SyncOK, RowOK, TextOK, ListOK, WithFile, Listing, Dropping
  <2>7. ASSUME NEW f \in Files \ Sessions PROVE f \in sync'[s].list \/ Gone(s, f)'
    BY <1>2, <2>3 DEF Present, Gone, Same
  <2>8. SyncOK(s)'
    BY <2>3, <2>7 DEF SyncOK, RowOK, TextOK, ListOK, WithFile, Listing, Dropping
  <2> QED
    BY <1>3, <2>5, <2>6, <2>8
<1>5. CASE Lists(s)
  <2>1. ~At(s, "idle")
    BY <1>5 DEF Lists, ListSessions, Stat, Read, FindStale, At
  <2>2. ASSUME NEW r, Becomes(s, r), SyncOK(s)'
        PROVE  OneSync' /\ AllWhole' /\ \A o \in Syncers : SyncOK(o)'
    BY <1>3, <2>1, <2>2, SoleSync
  <2>3. CASE ListSessions(s)
    <3>1. Becomes(s, [sync[s] EXCEPT !.at = "sessions", !.list = Present(sync[s].keys)])
      BY <2>3 DEF ListSessions
    <3>2. sync'[s] = [sync[s] EXCEPT !.at = "sessions", !.list = Present(sync[s].keys)]
      BY <1>1, <3>1, Becoming
    <3>3. /\ sync'[s].at = "sessions" /\ sync'[s].file = sync[s].file
          /\ sync'[s].active = sync[s].active /\ sync'[s].seen = sync[s].seen
      BY <1>1, <3>2 DEF SyncRecords
    <3>4. ASSUME NEW f \in Files \ Sessions
          PROVE  \/ f = file(s)' \/ f \in sync'[s].list \/ Gone(s, f)'
                 \/ (f \in sync'[s].active /\ Kept(s, f)')
      <4>1. f = file(s) \/ Gone(s, f) \/ (f \in sync[s].active /\ Kept(s, f))
        BY <1>1, <2>3 DEF ListOK, Listing, ListSessions, At
      <4> QED
        BY <1>2, <3>3, <4>1 DEF Gone, Kept, Same, file
    <3>5. SyncOK(s)'
      BY <3>3, <3>4 DEF SyncOK, RowOK, TextOK, ListOK, WithFile, Dropping
    <3> QED
      BY <2>2, <3>1, <3>5
  <2>4. CASE Stat(s)
    <3>1. PICK f \in sync[s].list :
            Becomes(s, [sync[s] EXCEPT !.list = @ \ {f},
                                       !.at   = IF disk[f] = None THEN @ ELSE "read",
                                       !.file = IF disk[f] = None THEN None ELSE f,
                                       !.stat = disk[f]])
      BY <2>4 DEF Stat
    <3>2. sync'[s] = [sync[s] EXCEPT !.list = @ \ {f},
                                     !.at   = IF disk[f] = None THEN @ ELSE "read",
                                     !.file = IF disk[f] = None THEN None ELSE f,
                                     !.stat = disk[f]]
      BY <1>1, <3>1, Becoming
    <3>3. /\ sync'[s].at = IF disk[f] = None THEN sync[s].at ELSE "read"
          /\ sync'[s].file = IF disk[f] = None THEN None ELSE f
          /\ sync'[s].stat = disk[f] /\ sync'[s].seen = sync[s].seen
          /\ sync'[s].list = sync[s].list \ {f} /\ sync'[s].active = sync[s].active
      BY <1>1, <3>2 DEF SyncRecords
    <3>4. f \in Files /\ sync[s].at \in {"memory", "sessions"} /\ file(s) = None
      BY <1>1, <2>4 DEF SyncRecords, Stat, SyncOrder
    <3>5. ASSUME NEW g \in Files \ Sessions
          PROVE  \/ g = file(s)' \/ g \in sync'[s].list \/ Gone(s, g)'
                 \/ (g \in sync'[s].active /\ Kept(s, g)')
      <4>1. g \in sync[s].list \/ Gone(s, g) \/ (g \in sync[s].active /\ Kept(s, g))
        BY <1>1, <3>4, NoneAssumption DEF ListOK, Listing
      <4>2. (Gone(s, g) => Gone(s, g)') /\ (Kept(s, g) => Kept(s, g)')
        BY <1>2, <3>3 DEF Gone, Kept, Same
      <4>3. CASE g = f /\ disk[f] = None
        BY <1>2, <4>3 DEF Gone, Same
      <4>4. CASE g = f /\ disk[f] # None
        BY <3>3, <4>4 DEF file
      <4>5. CASE g # f
        BY <3>3, <4>1, <4>2, <4>5
      <4> QED
        BY <4>3, <4>4, <4>5
    <3>6. RowOK(s)'
      <4>1. disk[f] # None => NotAfter(indexed[f], disk[f])
        BY <1>1, <3>4 DEF AllWhole, Whole
      <4> QED
        BY <1>2, <3>3, <3>4, <4>1 DEF RowOK, WithFile, file, NotAfter
    <3>7. TextOK(s)' /\ sync'[s].at \in Listing /\ sync'[s].at \notin Dropping \cup {"stale"}
      BY <3>3, <3>4 DEF TextOK, WithFile, Listing, Dropping
    <3>8. SyncOK(s)'
      BY <3>5, <3>6, <3>7 DEF SyncOK, ListOK
    <3> QED
      BY <2>2, <3>1, <3>8
  <2>5. CASE Read(s)
    <3>1. CASE disk[file(s)] = None
      <4>1. Becomes(s, Idle)
        BY <2>5, <3>1 DEF Read
      <4>2. SyncOK(s)'
        <5>1. sync'[s].at = "idle"
          BY <1>1, <4>1, Becoming DEF Idle
        <5> QED
          BY <5>1 DEF SyncOK, RowOK, TextOK, ListOK, WithFile, Listing, Dropping
      <4> QED
        BY <2>2, <4>1, <4>2
    <3>2. CASE disk[file(s)] # None
      <4>1. Becomes(s, [sync[s] EXCEPT !.at = "look", !.body = disk[file(s)],
                                       !.active = sync[s].active \cup {file(s)}])
        BY <2>5, <3>2 DEF Read
      <4>2. sync'[s] = [sync[s] EXCEPT !.at = "look", !.body = disk[file(s)],
                                       !.active = sync[s].active \cup {file(s)}]
        BY <1>1, <4>1, Becoming
      <4>3. /\ sync'[s].at = "look" /\ sync'[s].active = sync[s].active \cup {file(s)}
            /\ sync'[s].file = sync[s].file /\ sync'[s].stat = sync[s].stat
            /\ sync'[s].seen = sync[s].seen /\ sync'[s].list = sync[s].list
        BY <1>1, <4>2 DEF SyncRecords
      <4>4. sync[s].at = "read"
        BY <2>5 DEF Read, At
      <4>5. RowOK(s)' /\ TextOK(s)'
        BY <1>1, <1>2, <4>3, <4>4 DEF RowOK, TextOK, WithFile, file, NotAfter
      <4>6. ASSUME NEW g \in Files \ Sessions
            PROVE  \/ g = file(s)' \/ g \in sync'[s].list \/ Gone(s, g)'
                   \/ (g \in sync'[s].active /\ Kept(s, g)')
        <5>1. \/ g = file(s) \/ g \in sync[s].list \/ Gone(s, g)
              \/ (g \in sync[s].active /\ Kept(s, g))
          BY <1>1, <4>4 DEF ListOK, Listing, WithFile
        <5>2. (Gone(s, g) => Gone(s, g)') /\ (Kept(s, g) => Kept(s, g)')
          BY <1>2, <4>3 DEF Gone, Kept, Same
        <5> QED
          BY <4>3, <5>1, <5>2 DEF file
      <4>7. SyncOK(s)'
        BY <4>3, <4>5, <4>6 DEF SyncOK, ListOK, Dropping
      <4> QED
        BY <2>2, <4>1, <4>7
    <3> QED
      BY <3>1, <3>2
  <2>6. CASE FindStale(s)
    <3>1. Becomes(s, [sync[s] EXCEPT !.at = "stale",
                        !.list = {f \in Files : indexed[f] # None} \ sync[s].active,
                        !.active = {}, !.keys = {}])
      BY <2>6 DEF FindStale
    <3>2. sync'[s] = [sync[s] EXCEPT !.at = "stale",
                        !.list = {f \in Files : indexed[f] # None} \ sync[s].active,
                        !.active = {}, !.keys = {}]
      BY <1>1, <3>1, Becoming
    <3>3. /\ sync'[s].at = "stale" /\ sync'[s].file = sync[s].file /\ sync'[s].seen = sync[s].seen
          /\ sync'[s].list = {f \in Files : indexed[f] # None} \ sync[s].active
      BY <1>1, <3>2 DEF SyncRecords
    <3>4. sync[s].at = "sessions" /\ sync[s].list = {} /\ sync[s].file = None
      BY <1>1, <2>6 DEF FindStale, At, SyncOrder, file
    <3>5. ASSUME NEW f \in Files \ Sessions
          PROVE  Kept(s, f)' /\ (f = file(s)' \/ f \in sync'[s].list => Gone(s, f)')
      <4>1. Gone(s, f) \/ (f \in sync[s].active /\ Kept(s, f))
        BY <1>1, <3>4, NoneAssumption DEF ListOK, Listing, file
      <4>2. (Gone(s, f) => Gone(s, f)') /\ (Kept(s, f) => Kept(s, f)')
        BY <1>2, <3>3 DEF Gone, Kept, Same
      <4>3. Gone(s, f) => Kept(s, f)
        BY DEF Gone, Kept
      <4> QED
        BY <3>3, <3>4, <4>1, <4>2, <4>3, NoneAssumption DEF file
    <3>6. SyncOK(s)'
      BY <3>3, <3>5 DEF SyncOK, RowOK, TextOK, ListOK, WithFile, Listing
    <3> QED
      BY <2>2, <3>1, <3>6
  <2> QED
    BY <1>5, <2>3, <2>4, <2>5, <2>6 DEF Lists
<1> QED
  BY <1>4, <1>5

\* The sync that brings a file up to date.
LEMMA LooksKeep ==
  ASSUME MemoryInv, ~overlapped, NEW s \in Syncers,
         Look(s) \/ Count(s) \/ ReadTexts(s) \/ Attempt(s) \/ EmbedFails(s) \/ EmbedDone(s)
  PROVE  OneSync' /\ AllWhole' /\ \A o \in Syncers : SyncOK(o)'
<1>1. /\ MemoryTypeOK /\ OrderOK /\ OneSync /\ AllWhole /\ sync[s] \in SyncRecords
      /\ RowOK(s) /\ TextOK(s) /\ ListOK(s) /\ SyncOrder(s)
  BY DEF MemoryInv, SyncOK, MemoryTypeOK, OrderOK
<1>2. UNCHANGED <<disk, latest, indexed, texts, vectors>> /\ sync[s].at \in WithBody
  BY DEF Look, Count, ReadTexts, Attempt, EmbedFails, EmbedDone, Unindexed, Still, world, index,
         At, WithBody, WithFile
<1>3. AllWhole'
  BY <1>1, <1>2, QuietWhole
<1>4. ASSUME NEW r, Becomes(s, r), SyncOK(s)'
      PROVE  OneSync' /\ AllWhole' /\ \A o \in Syncers : SyncOK(o)'
  BY <1>2, <1>3, <1>4, SoleSync DEF At, WithBody, WithFile
<1>5. ASSUME NextFile(s), indexed[file(s)] = sync[s].stat
      PROVE  OneSync' /\ AllWhole' /\ \A o \in Syncers : SyncOK(o)'
  <2>1. SyncOK(s)'
    <3>1. indexed'[file(s)] = sync[s].stat
      BY <1>2, <1>5
    <3> QED
      BY <1>2, <1>5, <3>1, NextFileLists DEF world
  <2> QED
    BY <1>4, <1>5, <2>1 DEF NextFile
<1>6. ASSUME NEW pc \in {"deleteText", "count", "texts"}, Goes(s, pc), sync[s].at # "embed",
             pc = "deleteText" => indexed[file(s)] # sync[s].stat,
             pc # "deleteText" => indexed[file(s)] = sync[s].stat
      PROVE  OneSync' /\ AllWhole' /\ \A o \in Syncers : SyncOK(o)'
  <2>1. Becomes(s, [sync[s] EXCEPT !.at = pc])
    BY <1>6 DEF Goes
  <2>2. sync'[s] = [sync[s] EXCEPT !.at = pc]
    BY <1>1, <2>1, Becoming
  <2>3. /\ sync'[s].at = pc /\ sync'[s].file = sync[s].file /\ sync'[s].list = sync[s].list
        /\ sync'[s].active = sync[s].active /\ sync'[s].seen = sync[s].seen
        /\ sync'[s].stat = sync[s].stat
    BY <1>1, <2>2 DEF SyncRecords
  <2>4. ListOK(s)'
    BY <1>2, <2>3, SameFileLists DEF WithBody, WithFile, world
  <2>5. RowOK(s)'
    <3>1. NotAfter(indexed[file(s)], sync[s].stat)
      BY <1>1, <1>2 DEF RowOK, WithBody
    <3> QED
      BY <1>2, <1>6, <2>3, <3>1 DEF RowOK, file, NotAfter
  <2>6. TextOK(s)'
    BY <2>3 DEF TextOK
  <2> QED
    BY <1>4, <2>1, <2>4, <2>5, <2>6 DEF SyncOK
<1>7. ASSUME NEW t, NEW b, Becomes(s, [sync[s] EXCEPT !.at = "embed", !.todo = t, !.replaces = b]),
             sync[s].at \in {"texts", "attempt"}, \A e \in t : texts[file(s)][e[2]] > 0
      PROVE  OneSync' /\ AllWhole' /\ \A o \in Syncers : SyncOK(o)'
  <2>1. sync'[s] = [sync[s] EXCEPT !.at = "embed", !.todo = t, !.replaces = b]
    BY <1>1, <1>7, Becoming
  <2>2. /\ sync'[s].at = "embed" /\ sync'[s].file = sync[s].file /\ sync'[s].list = sync[s].list
        /\ sync'[s].active = sync[s].active /\ sync'[s].seen = sync[s].seen
        /\ sync'[s].stat = sync[s].stat /\ sync'[s].todo = t
    BY <1>1, <2>1 DEF SyncRecords
  <2>3. ListOK(s)'
    BY <1>2, <2>2, SameFileLists DEF WithBody, WithFile, world
  <2>4. RowOK(s)'
    BY <1>1, <1>2, <1>7, <2>2 DEF RowOK, file, NotAfter, WithFile
  <2>5. TextOK(s)'
    BY <1>2, <1>7, <2>2 DEF TextOK, file
  <2> QED
    BY <1>4, <1>7, <2>3, <2>4, <2>5 DEF SyncOK
<1>8. CASE Look(s)
  BY <1>5, <1>6, <1>8 DEF Look, At
<1>9. CASE Count(s)
  BY <1>1, <1>5, <1>6, <1>9 DEF Count, At, RowOK
<1>10. CASE ReadTexts(s)
  <2>1. PICK t : /\ t = Parts \X {v \in Versions : texts[file(s)][v] > 0}
                 /\ Becomes(s, [sync[s] EXCEPT !.at = "embed", !.todo = t, !.replaces = TRUE])
    BY <1>10 DEF ReadTexts
  <2>2. \A e \in t : texts[file(s)][e[2]] > 0
    BY <2>1
  <2> QED
    BY <1>7, <1>10, <2>1, <2>2 DEF ReadTexts, At
<1>11. CASE Attempt(s) /\ file(s) \in waiting
  BY <1>1, <1>5, <1>11 DEF Attempt, At, RowOK
<1>12. CASE Attempt(s) /\ file(s) \notin waiting
  <2>1. PICK t : /\ t = Parts \X {sync[s].body}
                 /\ Becomes(s, [sync[s] EXCEPT !.at = "embed", !.todo = t, !.replaces = FALSE])
    BY <1>12 DEF Attempt
  <2>2. \A e \in t : texts[file(s)][e[2]] > 0
    BY <1>1, <1>12, <2>1 DEF Attempt, At, TextOK
  <2> QED
    BY <1>7, <1>12, <2>1, <2>2 DEF Attempt, At
<1>13. CASE EmbedFails(s) \/ EmbedDone(s)
  BY <1>1, <1>5, <1>13 DEF EmbedFails, EmbedDone, At, RowOK
<1> QED
  BY <1>8, <1>9, <1>10, <1>11, <1>12, <1>13

\* The sync that changes the rows of its file.
LEMMA RowsKeep ==
  ASSUME MemoryInv, ~overlapped, NEW s \in Syncers,
         DeleteText(s) \/ DeleteVectors(s) \/ Insert(s) \/ Embed(s)
  PROVE  OneSync' /\ AllWhole' /\ \A o \in Syncers : SyncOK(o)'
<1>1. /\ MemoryTypeOK /\ OrderOK /\ OneSync /\ AllWhole /\ sync[s] \in SyncRecords
      /\ RowOK(s) /\ TextOK(s) /\ ListOK(s) /\ SyncOrder(s)
  BY DEF MemoryInv, SyncOK, MemoryTypeOK, OrderOK
<1>2. UNCHANGED <<disk, latest>> /\ sync[s].at \in WithBody /\ ~At(s, "idle")
  BY DEF DeleteText, DeleteVectors, Insert, Embed, Still, world, At, WithBody, WithFile
<1>3. PICK g \in Files : g = file(s)
  BY <1>1, <1>2 DEF SyncOrder, WithBody
<1>4. /\ sync[s].stat \in Versions /\ NotAfter(sync[s].stat, disk[g])
      /\ sync[s].body \in Versions /\ NotAfter(sync[s].body, disk[g])
      /\ sync[s].stat <= sync[s].body /\ NotAfter(indexed[g], sync[s].stat)
  BY <1>1, <1>2, <1>3 DEF SyncOrder, RowOK, WithBody
<1>5. Whole(g) /\ disk[g] \in VersionOrNone /\ indexed[g] \in VersionOrNone
  BY <1>1, <1>3 DEF AllWhole, MemoryTypeOK
<1>6. ASSUME NEW f \in Files, f # g, indexed'[f] = indexed[f], texts'[f] = texts[f],
             vectors'[f] = vectors[f]
      PROVE  Whole(f)'
  BY <1>1, <1>2, <1>6 DEF AllWhole, Whole, Found, NotAfter
<1>7. ASSUME NEW pc \in WithFile, Goes(s, pc) 
      PROVE  /\ sync'[s].at = pc /\ sync'[s].file = sync[s].file /\ sync'[s].list = sync[s].list
             /\ sync'[s].active = sync[s].active /\ sync'[s].seen = sync[s].seen
             /\ sync'[s].stat = sync[s].stat /\ sync'[s].body = sync[s].body
  <2>1. Becomes(s, [sync[s] EXCEPT !.at = pc])
    BY <1>7 DEF Goes
  <2>2. sync'[s] = [sync[s] EXCEPT !.at = pc]
    BY <1>1, <2>1, Becoming
  <2> QED
    BY <1>1, <2>2 DEF SyncRecords
<1>8. ASSUME AllWhole', SyncOK(s)', NEW r, Becomes(s, r)
      PROVE  OneSync' /\ AllWhole' /\ \A o \in Syncers : SyncOK(o)'
  BY <1>2, <1>8, SoleSync
<1>9. CASE DeleteText(s)
  <2>1. /\ texts' = [texts EXCEPT ![g] = NoText] /\ Goes(s, "deleteVectors")
        /\ indexed' = indexed /\ vectors' = vectors
        /\ indexed[g] # sync[s].stat
    BY <1>1, <1>3, <1>9 DEF DeleteText, At, RowOK
  <2>2. texts'[g] = NoText /\ \A f \in Files : f # g => texts'[f] = texts[f]
    BY <1>1, <2>1 DEF MemoryTypeOK
  <2>3. ~(disk[g] # None /\ indexed[g] = disk[g])
    <3>1. ASSUME disk[g] # None, indexed[g] = disk[g] PROVE FALSE
      <4>1. disk[g] \in Versions
        BY <1>5, <3>1 DEF VersionOrNone
      <4>2. indexed[g] <= sync[s].stat /\ sync[s].stat <= disk[g]
        BY <1>4, <3>1, <4>1, VersionsAreNats DEF NotAfter
      <4>3. disk[g] \in Nat /\ sync[s].stat \in Nat
        BY <1>4, <4>1, VersionsAreNats
      <4> QED
        BY <2>1, <3>1, <4>2, <4>3
    <3> QED
      BY <3>1
  <2>4. Whole(g)'
    BY <1>2, <1>5, <2>1, <2>2, <2>3 DEF Whole, NotAfter, NoText
  <2>5. AllWhole'
    BY <1>6, <2>1, <2>2, <2>4 DEF AllWhole
  <2>6. ListOK(s)'
    BY <1>2, <1>7, <2>1, SameFileLists DEF WithBody, WithFile, world
  <2>7. RowOK(s)' /\ TextOK(s)'
    BY <1>3, <1>4, <1>7, <2>1, <2>2 DEF RowOK, TextOK, file, NotAfter, WithFile
  <2> QED
    BY <1>8, <2>1, <2>5, <2>6, <2>7 DEF SyncOK, Goes
<1>10. CASE DeleteVectors(s)
  <2>1. /\ vectors' = [vectors EXCEPT ![g] = NoVectors] /\ Goes(s, "insert")
        /\ indexed' = indexed /\ texts' = texts
        /\ indexed[g] # sync[s].stat /\ texts[g] = NoText
    BY <1>1, <1>3, <1>10 DEF DeleteVectors, At, RowOK, TextOK
  <2>2. vectors'[g] = NoVectors /\ \A f \in Files : f # g => vectors'[f] = vectors[f]
    BY <1>1, <2>1 DEF MemoryTypeOK
  <2>3. Whole(g)'
    BY <1>2, <1>5, <2>1, <2>2 DEF Whole, NotAfter, NoText, Found
  <2>4. AllWhole'
    BY <1>6, <2>1, <2>2, <2>3 DEF AllWhole
  <2>5. ListOK(s)'
    BY <1>2, <1>7, <2>1, SameFileLists DEF WithBody, WithFile, world
  <2>6. RowOK(s)' /\ TextOK(s)'
    BY <1>3, <1>4, <1>7, <2>1, <2>2 DEF RowOK, TextOK, file, NotAfter, WithFile
  <2> QED
    BY <1>8, <2>1, <2>4, <2>5, <2>6 DEF SyncOK, Goes
<1>11. CASE Insert(s)
  <2>1. /\ indexed' = [indexed EXCEPT ![g] = sync[s].stat] /\ vectors' = vectors
        /\ texts[g] = NoText /\ vectors[g] = NoVectors
        /\ texts' = [texts EXCEPT ![g] = [texts[g] EXCEPT ![sync[s].body] = texts[g][sync[s].body] + 1]]
    BY <1>1, <1>3, <1>11 DEF Insert, At, TextOK
  <2>2. /\ texts'[g] = [NoText EXCEPT ![sync[s].body] = 1]
        /\ \A f \in Files : f # g => texts'[f] = texts[f]
    <3>1. NoText[sync[s].body] + 1 = 1
      BY <1>4 DEF NoText
    <3> QED
      BY <1>1, <2>1, <3>1 DEF MemoryTypeOK
  <2>3. indexed'[g] = sync[s].stat /\ \A f \in Files : f # g => indexed'[f] = indexed[f]
    BY <1>1, <2>1 DEF MemoryTypeOK
  <2>4. \A v \in Versions : texts'[g][v] > 0 <=> v = sync[s].body
    BY <1>4, <2>2 DEF NoText
  <2>5. Whole(g)'
    <3>1. \A v \in Versions : texts'[g][v] > 0 =>
            /\ texts'[g] = [NoText EXCEPT ![v] = 1]
            /\ \A p \in Parts : vectors'[g][p] \in {v, None}
      BY <2>1, <2>2, <2>4 DEF NoVectors
    <3>2. disk[g] # None /\ sync[s].stat = disk[g] => sync[s].body = disk[g]
      <4>1. ASSUME disk[g] # None, sync[s].stat = disk[g] PROVE sync[s].body = disk[g]
        <5>1. sync[s].body <= disk[g] /\ disk[g] <= sync[s].body
          BY <1>4, <4>1, VersionsAreNats DEF NotAfter
        <5>2. disk[g] \in Nat /\ sync[s].body \in Nat
          BY <1>4, <4>1, VersionsAreNats
        <5> QED
          BY <5>1, <5>2
      <4> QED
        BY <4>1
    <3>3. disk'[g] # None /\ indexed'[g] = disk'[g] => texts'[g][disk'[g]] > 0
      BY <1>2, <1>4, <2>3, <2>4, <3>2
    <3>4. NotAfter(indexed[g], disk[g])'
      BY <1>2, <1>4, <2>3 DEF NotAfter
    <3> QED
      BY <3>1, <3>3, <3>4 DEF Whole, Found, NoText
  <2>6. AllWhole'
    BY <1>6, <2>1, <2>2, <2>3, <2>5 DEF AllWhole
  <2>7. CASE Parts = {}
    <3>1. NextFile(s)
      BY <1>11, <2>7 DEF Insert
    <3>2. SyncOK(s)'
      BY <1>2, <1>3, <2>3, <3>1, NextFileLists DEF world
    <3> QED
      BY <1>8, <2>6, <3>1, <3>2 DEF NextFile
  <2>8. CASE Parts # {}
    <3>1. Goes(s, "attempt")
      BY <1>11, <2>8 DEF Insert
    <3>2. ListOK(s)'
      BY <1>2, <1>3, <1>7, <2>3, <3>1, SameFileLists DEF WithBody, WithFile, world
    <3>3. RowOK(s)'
      <4>1. NotAfter(sync[s].stat, sync[s].stat)
        BY <1>4, SameTime DEF VersionOrNone
      <4>2. sync'[s].at = "attempt" /\ file(s)' = g /\ sync'[s].stat = sync[s].stat
        BY <1>3, <1>7, <3>1 DEF file, WithFile
      <4> QED
        BY <2>3, <4>1, <4>2 DEF RowOK, NotAfter
    <3>4. TextOK(s)'
      BY <1>3, <1>4, <1>7, <2>4, <3>1 DEF TextOK, file, WithFile
    <3> QED
      BY <1>8, <2>6, <3>1, <3>2, <3>3, <3>4 DEF SyncOK, Goes
  <2> QED
    BY <2>7, <2>8
<1>12. CASE Embed(s)
  <2>1. PICK b \in sync[s].todo :
          /\ vectors' = [vectors EXCEPT ![g] = [vectors[g] EXCEPT ![b[1]] = b[2]]]
          /\ Becomes(s, [sync[s] EXCEPT !.todo = @ \ {b}])
    BY <1>3, <1>12 DEF Embed
  <2>2. indexed' = indexed /\ texts' = texts /\ sync[s].at = "embed"
    BY <1>12 DEF Embed, At
  <2>3. b[1] \in Parts /\ b[2] \in Versions /\ texts[g][b[2]] > 0
    BY <1>1, <1>3, <2>2 DEF SyncRecords, TextOK
  <2>4. /\ vectors'[g] = [vectors[g] EXCEPT ![b[1]] = b[2]]
        /\ \A f \in Files : f # g => vectors'[f] = vectors[f]
    BY <1>1, <2>1 DEF MemoryTypeOK
  <2>5. \A p \in Parts : vectors'[g][p] = IF p = b[1] THEN b[2] ELSE vectors[g][p]
    <3>1. vectors[g] \in [Parts -> VersionOrNone]
      BY <1>1 DEF MemoryTypeOK
    <3> QED
      BY <2>4, <3>1
  <2>6. \A v \in Versions : texts[g][v] > 0 => v = b[2]
    <3>1. texts[g] = [NoText EXCEPT ![b[2]] = 1]
      BY <1>5, <2>3 DEF Whole
    <3> QED
      BY <2>3, <3>1 DEF NoText
  <2>7. Whole(g)'
    BY <1>2, <1>5, <2>2, <2>5, <2>6 DEF Whole, Found, NotAfter
  <2>8. AllWhole'
    BY <1>6, <2>2, <2>4, <2>7 DEF AllWhole
  <2>9. sync'[s] = [sync[s] EXCEPT !.todo = @ \ {b}]
    BY <1>1, <2>1, Becoming
  <2>10. /\ sync'[s].at = "embed" /\ sync'[s].file = sync[s].file /\ sync'[s].list = sync[s].list
         /\ sync'[s].active = sync[s].active /\ sync'[s].seen = sync[s].seen
         /\ sync'[s].stat = sync[s].stat /\ sync'[s].todo = sync[s].todo \ {b}
    BY <1>1, <2>2, <2>9 DEF SyncRecords
  <2>11. ListOK(s)'
    BY <1>2, <2>2, <2>10, SameFileLists DEF WithBody, WithFile, world
  <2>12. RowOK(s)'
    BY <1>1, <2>2, <2>10 DEF RowOK, file, NotAfter, WithFile
  <2>13. TextOK(s)'
    BY <1>1, <2>2, <2>10 DEF TextOK, file
  <2> QED
    BY <1>8, <2>1, <2>8, <2>11, <2>12, <2>13 DEF SyncOK
<1> QED
  BY <1>9, <1>10, <1>11, <1>12

\* The sync that removes what it did not meet.
LEMMA DropsKeep ==
  ASSUME MemoryInv, ~overlapped, NEW s \in Syncers, Drops(s) \/ Query(s)
  PROVE  OneSync' /\ AllWhole' /\ \A o \in Syncers : SyncOK(o)'
<1>1. /\ MemoryTypeOK /\ OrderOK /\ OneSync /\ AllWhole /\ sync[s] \in SyncRecords
      /\ RowOK(s) /\ TextOK(s) /\ ListOK(s) /\ SyncOrder(s)
  BY DEF MemoryInv, SyncOK, MemoryTypeOK, OrderOK
<1>2. /\ UNCHANGED <<disk, latest>> /\ sync[s].at \in Dropping \cup {"stale"}
      /\ sync[s].at \notin Listing /\ ~At(s, "idle")
  BY DEF Drops, DropText, DropVectors, DropFailure, DropRow, Query, Unindexed, Still, world, At,
         Dropping, Listing, WithFile
<1>3. ASSUME AllWhole', SyncOK(s)', NEW r, Becomes(s, r)
      PROVE  OneSync' /\ AllWhole' /\ \A o \in Syncers : SyncOK(o)'
  BY <1>2, <1>3, SoleSync
<1>4. \A f \in Files \ Sessions :
        Kept(s, f) /\ (f = file(s) \/ f \in sync[s].list => Gone(s, f))
  BY <1>1, <1>2 DEF ListOK
<1>5. ASSUME sync'[s].at \in Dropping \cup {"stale"},
             \A f \in Files \ Sessions :
               Kept(s, f)' /\ (f = file(s)' \/ f \in sync'[s].list => Gone(s, f)')
      PROVE  SyncOK(s)'
  BY <1>5 DEF SyncOK, RowOK, TextOK, ListOK, WithFile, Dropping, Listing
<1>6. CASE DropText(s)
  <2>1. PICK f \in sync[s].list :
          /\ texts' = [texts EXCEPT ![f] = NoText]
          /\ Becomes(s, [sync[s] EXCEPT !.at = "dropVectors", !.file = f, !.list = @ \ {f}])
    BY <1>6 DEF DropText
  <2>2. sync'[s] = [sync[s] EXCEPT !.at = "dropVectors", !.file = f, !.list = @ \ {f}]
    BY <1>1, <2>1, Becoming
  <2>3. /\ sync'[s].at = "dropVectors" /\ sync'[s].file = f /\ sync'[s].list = sync[s].list \ {f}
        /\ sync'[s].seen = sync[s].seen /\ f \in Files
    BY <1>1, <2>2 DEF SyncRecords
  <2>4. indexed' = indexed /\ vectors' = vectors
    BY <1>6 DEF DropText
  <2>5. texts'[f] = NoText /\ \A g \in Files : g # f => texts'[g] = texts[g]
    BY <1>1, <2>1, <2>3 DEF MemoryTypeOK
  <2>6. ASSUME NEW g \in Files PROVE Whole(g)'
    <3>1. Whole(g)
      BY <1>1 DEF AllWhole
    <3>2. CASE g = f
      <4>1. f \notin Sessions => disk[f] = None \/ indexed[f] # disk[f]
        BY <1>4, <2>3 DEF Gone
      <4> QED
        BY <1>2, <2>4, <2>5, <3>1, <3>2, <4>1 DEF Whole, NotAfter, NoText
    <3>3. CASE g # f
      BY <1>2, <2>4, <2>5, <3>1, <3>3 DEF Whole, NotAfter, Found
    <3> QED
      BY <3>2, <3>3
  <2>7. SyncOK(s)'
    <3>1. ASSUME NEW g \in Files \ Sessions
          PROVE  Kept(s, g)' /\ (g = file(s)' \/ g \in sync'[s].list => Gone(s, g)')
      BY <1>2, <1>4, <2>3, <2>4 DEF Kept, Gone, Same, file
    <3> QED
      BY <1>5, <2>3, <3>1 DEF Dropping
  <2> QED
    BY <1>3, <2>1, <2>6, <2>7 DEF AllWhole
<1>7. CASE DropVectors(s) \/ DropFailure(s)
  <2>1. PICK pc \in Dropping : Becomes(s, [sync[s] EXCEPT !.at = pc])
    BY <1>7 DEF DropVectors, DropFailure, Dropping, Goes
  <2>2. sync'[s] = [sync[s] EXCEPT !.at = pc]
    BY <1>1, <2>1, Becoming
  <2>3. /\ sync'[s].at = pc /\ sync'[s].file = sync[s].file /\ sync'[s].list = sync[s].list
        /\ sync'[s].seen = sync[s].seen
    BY <1>1, <2>2 DEF SyncRecords
  <2>4. /\ indexed' = indexed /\ texts' = texts
        /\ vectors' = vectors \/ vectors' = [vectors EXCEPT ![file(s)] = NoVectors]
    BY <1>7 DEF DropVectors, DropFailure
  <2>5. ASSUME NEW g \in Files PROVE vectors'[g] = vectors[g] \/ vectors'[g] = NoVectors
    BY <1>1, <2>4 DEF MemoryTypeOK
  <2>6. ASSUME NEW g \in Files PROVE Whole(g)'
    <3>1. Whole(g)
      BY <1>1 DEF AllWhole
    <3> QED
      BY <1>2, <2>4, <2>5, <3>1 DEF Whole, NotAfter, Found, NoVectors
  <2>7. SyncOK(s)'
    <3>1. ASSUME NEW g \in Files \ Sessions
          PROVE  Kept(s, g)' /\ (g = file(s)' \/ g \in sync'[s].list => Gone(s, g)')
      BY <1>2, <1>4, <2>3, <2>4 DEF Kept, Gone, Same, file
    <3> QED
      BY <1>5, <2>3, <3>1
  <2> QED
    BY <1>3, <2>1, <2>6, <2>7 DEF AllWhole
<1>8. CASE DropRow(s)
  <2>1. /\ Becomes(s, [sync[s] EXCEPT !.at = "stale", !.file = None])
        /\ indexed' = [indexed EXCEPT ![file(s)] = None] /\ texts' = texts /\ vectors' = vectors
    BY <1>8 DEF DropRow
  <2>2. sync'[s] = [sync[s] EXCEPT !.at = "stale", !.file = None]
    BY <1>1, <2>1, Becoming
  <2>3. /\ sync'[s].at = "stale" /\ sync'[s].file = None /\ sync'[s].list = sync[s].list
        /\ sync'[s].seen = sync[s].seen
    BY <1>1, <2>2 DEF SyncRecords
  <2>4. ASSUME NEW g \in Files
        PROVE  indexed'[g] = indexed[g] \/ (g = file(s) /\ indexed'[g] = None)
    BY <1>1, <2>1 DEF MemoryTypeOK
  <2>5. ASSUME NEW g \in Files PROVE Whole(g)'
    <3>1. Whole(g)
      BY <1>1 DEF AllWhole
    <3> QED
      BY <1>2, <2>1, <2>4, <3>1 DEF Whole, NotAfter, Found
  <2>6. SyncOK(s)'
    <3>1. ASSUME NEW g \in Files \ Sessions
          PROVE  Kept(s, g)' /\ (g = file(s)' \/ g \in sync'[s].list => Gone(s, g)')
      BY <1>2, <1>4, <2>3, <2>4, NoneAssumption DEF Kept, Gone, Same, file
    <3> QED
      BY <1>5, <2>3, <3>1
  <2> QED
    BY <1>3, <2>1, <2>5, <2>6 DEF AllWhole
<1>9. CASE Query(s)
  <2>1. Becomes(s, Idle) /\ UNCHANGED <<disk, indexed, texts, vectors>>
    BY <1>9 DEF Query, Unindexed, Still, world, index
  <2>2. sync'[s].at = "idle"
    BY <1>1, <2>1, Becoming DEF Idle
  <2>3. SyncOK(s)'
    BY <2>2 DEF SyncOK, RowOK, TextOK, ListOK, WithFile, Listing, Dropping
  <2> QED
    BY <1>1, <1>3, <2>1, <2>3, QuietWhole
<1> QED
  BY <1>6, <1>7, <1>8, <1>9 DEF Drops

LEMMA MemoryInit == Init => MemoryInv
<1> SUFFICES ASSUME Init PROVE MemoryInv
  OBVIOUS
<1>1. /\ disk = [f \in Files |-> None] /\ indexed = [f \in Files |-> None]
      /\ sync = [s \in Syncers |-> Idle]
      /\ texts = [f \in Files |-> NoText] /\ vectors = [f \in Files |-> NoVectors]
  BY DEF Init
<1>2. MemoryTypeOK
  <2>1. NoText \in [Versions -> Nat] /\ NoVectors \in [Parts -> VersionOrNone]
    BY DEF NoText, NoVectors, VersionOrNone
  <2>2. 0 \in 0..MaxVersion
    BY BoundsAssumption
  <2>3. texts \in [Files -> [Versions -> Nat]] /\ vectors \in [Files -> [Parts -> VersionOrNone]]
    BY <1>1, <2>1
  <2>4. latest \in [Files -> 0..MaxVersion] /\ waiting = {} /\ overlapped = FALSE
    BY <2>2 DEF Init
  <2>5. sync \in [Syncers -> SyncRecords]
    BY <1>1, IdleIs
  <2> QED
    BY <1>1, <2>3, <2>4, <2>5 DEF MemoryTypeOK, VersionOrNone
<1>3. \A s \in Syncers : sync[s].at = "idle" /\ sync[s].file = None /\ \A f \in Files : sync[s].seen[f] = None
  BY <1>1 DEF Idle
<1>4. OrderOK
  BY <1>1, <1>3 DEF OrderOK, FileOrder, SyncOrder, Written, NotAfter, file, WithFile, WithBody, Dropping
<1>5. OneSync /\ \A s \in Syncers : SyncOK(s)
  BY <1>3 DEF OneSync, At, SyncOK, RowOK, TextOK, ListOK, WithFile, Listing, Dropping
<1>6. AllWhole
  BY <1>1 DEF AllWhole, Whole, NoText, NotAfter, Found
<1> QED
  BY <1>2, <1>4, <1>5, <1>6 DEF MemoryInv

LEMMA MemoryStep == MemoryInv /\ [Next]_vars => MemoryInv'
<1> SUFFICES ASSUME MemoryInv, [Next]_vars PROVE MemoryInv'
  OBVIOUS
<1>1. MemoryTypeOK' /\ OrderOK'
  BY MemoryTypeKept, OrderKept DEF MemoryInv
<1>2. ASSUME ~overlapped' PROVE OneSync' /\ AllWhole' /\ \A s \in Syncers : SyncOK(s)'
  <2>1. ~overlapped
    BY ZenonT(30), <1>2 DEF MemoryInv, MemoryTypeOK, Next, Step, Start, Lists, Indexes, Drops, Query,
                ListSessions, Stat, Read, FindStale, Look, Count, ReadTexts, DeleteText,
                DeleteVectors, Insert, Attempt, Embed, EmbedFails, EmbedDone, DropText,
                DropVectors, DropFailure, DropRow, WriteFile, RemoveFile, Elapse, Kill, Unindexed, Still, vars
  <2>2. OneSync /\ AllWhole /\ \A s \in Syncers : SyncOK(s)
    BY <2>1 DEF MemoryInv
  <2>3. CASE UNCHANGED <<world, indexed, texts, vectors, sync>>
    <3>1. AllWhole'
      BY <2>2, <2>3, QuietWhole DEF world
    <3> QED
      BY <2>2, <2>3, <3>1 DEF OneSync, At, SyncOK, RowOK, TextOK, ListOK, Kept, Gone, Same, file, NotAfter, world
  <2>4. CASE UNCHANGED vars \/ \E f \in Files : Elapse(f)
    BY <2>3, <2>4 DEF vars, index, Elapse, Still
  <2>5. ASSUME NEW f \in Files, WriteFile(f) \/ RemoveFile(f)
        PROVE  OneSync' /\ AllWhole' /\ \A s \in Syncers : SyncOK(s)'
    BY <2>1, <2>5, WorldKeeps
  <2>6. ASSUME NEW s \in Syncers, Kill(s)
        PROVE  OneSync' /\ AllWhole' /\ \A o \in Syncers : SyncOK(o)'
    <3>1. Becomes(s, Idle) /\ UNCHANGED <<disk, indexed, texts, vectors>> /\ ~At(s, "idle")
      BY <2>6 DEF Kill, world, index, Becomes
    <3>2. sync'[s].at = "idle"
      BY <3>1, Becoming DEF Idle, MemoryInv
    <3>3. SyncOK(s)'
      BY <3>2 DEF SyncOK, RowOK, TextOK, ListOK, WithFile, Listing, Dropping
    <3> QED
      BY <2>1, <2>2, <3>1, <3>3, QuietWhole, SoleSync
  <2>7. ASSUME NEW s \in Syncers, Step(s)
        PROVE  OneSync' /\ AllWhole' /\ \A o \in Syncers : SyncOK(o)'
    BY <1>2, <2>1, <2>7, ListsKeep, LooksKeep, RowsKeep, DropsKeep DEF Step, Indexes
  <2> QED
    BY <2>4, <2>5, <2>6, <2>7 DEF Next
<1> QED
  BY <1>1, <1>2 DEF MemoryInv

LEMMA MemoryInvariant == Spec => []MemoryInv
<1>1. Init => MemoryInv
  BY MemoryInit
<1>2. MemoryInv /\ [Next]_vars => MemoryInv'
  BY MemoryStep
<1> QED
  BY <1>1, <1>2, PTL DEF Spec

(* As long as no two syncs overlapped, a search sees no file twice or in    *)
(* two versions and no vectors of another version, wherever a sync was      *)
(* killed (OneVersion).                                                     *)
THEOREM OneVersionCorrect == Spec => []OneVersion
<1>1. MemoryInv => OneVersion
  <2> SUFFICES ASSUME MemoryInv, ~overlapped, NEW f \in Files, NEW v \in Versions, texts[f][v] > 0
               PROVE  /\ texts[f] = [NoText EXCEPT ![v] = 1]
                      /\ Range(vectors[f]) \subseteq {v, None}
    BY DEF OneVersion
  <2>1. Whole(f) /\ vectors[f] \in [Parts -> VersionOrNone]
    BY DEF MemoryInv, AllWhole, MemoryTypeOK
  <2> QED
    BY <2>1 DEF Whole, Range
<1> QED
  BY <1>1, MemoryInvariant, PTL

(* A search finds every memory file as it is, if it has not changed since   *)
(* the search began and no other sync ran, whatever was killed before       *)
(* (SearchIsFresh).                                                         *)
THEOREM SearchIsFreshCorrect == Spec => SearchIsFresh
<1>1. MemoryInv /\ [Next]_vars =>
        [\A s \in Syncers : Query(s) /\ ~overlapped =>
           \A f \in Files \ Sessions :
             disk[f] # None /\ disk[f] = sync[s].seen[f] => Found(f)]_vars
  <2> SUFFICES ASSUME MemoryInv, NEW s \in Syncers, Query(s), ~overlapped,
                      NEW f \in Files \ Sessions, disk[f] # None, disk[f] = sync[s].seen[f]
               PROVE  Found(f)
    OBVIOUS
  <2>1. Whole(f) /\ ListOK(s) /\ sync[s].at = "stale"
    BY DEF MemoryInv, AllWhole, SyncOK, Query, At
  <2>2. indexed[f] = disk[f]
    BY <2>1 DEF ListOK, Kept, Same
  <2> QED
    BY <2>1, <2>2 DEF Whole
<1> QED
  BY <1>1, MemoryInvariant, PTL DEF Spec, SearchIsFresh

-----------------------------------------------------------------------------
(* The follower.                                                            *)

Times == Nat \ {0}
FollowTypeOK ==
  /\ now \in Times /\ ended \in BOOLEAN /\ events \in Seq(Times)
  /\ stamp \in [Recorders -> Nat]
  /\ follower \in [at : {"idle", "tail", "poll", "status", "done"}, over : BOOLEAN,
                   cursor : Nat, printed : SUBSET DOMAIN events, emitted : Nat,
                   tail : SUBSET DOMAIN events, listed : 0..Len(events)]
  /\ late \subseteq DOMAIN events

\* What may be asked of a row: it was printed, or there is a reason.
Caught(i) ==
  \/ i \in follower.printed
  \/ BeforeTail(i)
  \/ i \in late
  \/ \E t \in 1..events[i] : Crowded(t)

\* The cursor is never behind what was printed; whatever is behind the cursor was
\* dealt with; and where a query brought nothing new, so was all it could see.
PrintedOK  == \A i \in follower.printed : events[i] <= follower.cursor
BehindOK   == \A i \in DOMAIN events : events[i] < follower.cursor => Caught(i)
CompleteOK ==
  (follower.at = "done" \/ (follower.at = "status" /\ follower.emitted = 0))
    => \A i \in 1..follower.listed : Caught(i)
FollowInv ==
  /\ FollowTypeOK /\ PrintedOK /\ BehindOK /\ CompleteOK
  /\ follower.at \in {"idle", "tail"} => follower.cursor = 0

LEMMA FollowInitially == FollowInit => FollowInv
<1> SUFFICES ASSUME FollowInit PROVE FollowInv
  OBVIOUS
<1>1. events = <<>> /\ DOMAIN events = {} /\ Len(events) = 0 /\ late = {} /\ now \in Times
  BY DEF FollowInit, Times
<1>2. follower = NotFollowing /\ stamp \in [Recorders -> Nat] /\ ended = FALSE
  BY DEF FollowInit
<1>3. FollowTypeOK
  <2>1. {} \in SUBSET DOMAIN events /\ 0 \in 0..Len(events) /\ events \in Seq(Times)
    BY <1>1
  <2>2. follower \in [at : {"idle", "tail", "poll", "status", "done"}, over : BOOLEAN,
                   cursor : Nat, printed : SUBSET DOMAIN events, emitted : Nat,
                   tail : SUBSET DOMAIN events, listed : 0..Len(events)]
    BY <1>2, <2>1 DEF NotFollowing
  <2> QED
    BY <1>1, <1>2, <2>1, <2>2 DEF FollowTypeOK
<1> QED
  BY <1>1, <1>2, <1>3 DEF FollowInv, PrintedOK, BehindOK, CompleteOK, NotFollowing

\* The rows of one time are finitely many, and no fewer after an insertion.
LEMMA RowsAreFinite ==
  ASSUME FollowTypeOK
  PROVE  /\ DOMAIN events = 1..Len(events) /\ Len(events) \in Nat
         /\ \A these \in SUBSET DOMAIN events : IsFiniteSet(these) /\ Cardinality(these) \in Nat
<1>1. DOMAIN events = 1..Len(events) /\ Len(events) \in Nat
  BY DEF FollowTypeOK
<1>2. IsFiniteSet(DOMAIN events)
  BY <1>1, FS_Interval
<1> QED
  BY <1>1, <1>2, FS_Subset, FS_CardinalityType

LEMMA CrowdStays ==
  ASSUME FollowTypeOK, NEW t, NEW e \in Times, events' = Append(events, e), Crowded(t)
  PROVE  Crowded(t)'
<1> DEFINE these == {i \in DOMAIN events : events[i] = t}
           more == {i \in DOMAIN events' : events'[i] = t}
<1>1. /\ events \in Seq(Times) /\ DOMAIN events = 1..Len(events) /\ Len(events) \in Nat
      /\ DOMAIN events' = 1..(Len(events) + 1)
      /\ \A i \in DOMAIN events : events'[i] = events[i]
  BY DEF FollowTypeOK
<1>2. these \subseteq more
  BY <1>1
<1>3. IsFiniteSet(more)
  <2>1. IsFiniteSet(1..(Len(events) + 1))
    BY <1>1, FS_Interval
  <2> QED
    BY <1>1, <2>1, FS_Subset
<1>4. Cardinality(these) <= Cardinality(more)
      /\ Cardinality(these) \in Nat /\ Cardinality(more) \in Nat
  BY <1>2, <1>3, FS_Subset, FS_CardinalityType
<1>5. Cardinality(these) >= Limit
  BY DEF Crowded
<1>6. Cardinality(more) >= Limit
  <2> HIDE DEF these, more
  <2> QED
    BY <1>4, <1>5, LimitAssumption
<1> QED
  BY <1>6 DEF Crowded

\* What a query with a limit leaves out comes after (or before) all it returns; and if
\* it leaves something out, it returns as many as the limit.
LEMMA LimitReached ==
  ASSUME FollowTypeOK, NEW these \in SUBSET DOMAIN events, NEW page \in Limited(these),
         NEW i \in these \ page
  PROVE  Cardinality(page) = Limit /\ page # {}
<1>1. IsFiniteSet(these) /\ Cardinality(these) \in Nat /\ page \subseteq these
  BY RowsAreFinite DEF Limited
<1>2. Cardinality(page) # Cardinality(these)
  BY <1>1, FS_Subset
<1>3. Cardinality(page) = Limit
  BY <1>2 DEF Limited, Least
<1> QED
  BY <1>3, LimitAssumption, FS_EmptySet

LEMMA InsertKeepsFollowed ==
  ASSUME FollowInv, NEW r \in Recorders, InsertEvent(r)
  PROVE  FollowInv'
<1>1. /\ events \in Seq(Times) /\ DOMAIN events = 1..Len(events) /\ Len(events) \in Nat
      /\ stamp \in [Recorders -> Nat] /\ stamp[r] \in Times
  BY DEF InsertEvent, FollowInv, FollowTypeOK, Times
<1>2. /\ events' = Append(events, stamp[r]) /\ events' \in Seq(Times)
      /\ Len(events') = Len(events) + 1 /\ DOMAIN events' = 1..(Len(events) + 1)
      /\ \A i \in DOMAIN events : events'[i] = events[i]
      /\ events'[Len(events) + 1] = stamp[r]
  BY <1>1 DEF InsertEvent
<1>3. /\ now' = now /\ ended' = ended /\ follower' = follower
      /\ stamp' = [stamp EXCEPT ![r] = 0]
      /\ late' = late \cup {n \in {Len(events')} : stamp[r] < follower.cursor}
  BY DEF InsertEvent
<1>4. FollowTypeOK'
  <2>1. follower' \in [at : {"idle", "tail", "poll", "status", "done"}, over : BOOLEAN,
                   cursor : Nat, printed : SUBSET DOMAIN events', emitted : Nat,
                   tail : SUBSET DOMAIN events', listed : 0..Len(events')]
    BY <1>1, <1>2, <1>3 DEF FollowInv, FollowTypeOK
  <2>2. stamp' \in [Recorders -> Nat]
    BY <1>1, <1>3
  <2>3. late' \subseteq DOMAIN events'
    BY <1>1, <1>2, <1>3 DEF FollowInv, FollowTypeOK
  <2> QED
    BY <1>2, <1>3, <2>1, <2>2, <2>3 DEF FollowInv, FollowTypeOK
<1>5. /\ follower.printed \subseteq DOMAIN events /\ follower.tail \subseteq DOMAIN events
      /\ follower.listed \in 0..Len(events) /\ follower.cursor \in Nat
  BY DEF FollowInv, FollowTypeOK
<1>6. ASSUME NEW i \in DOMAIN events, Caught(i)
      PROVE  Caught(i)'
  <2>1. BeforeTail(i) => BeforeTail(i)'
    BY <1>1, <1>2, <1>3, <1>5 DEF BeforeTail, Earlier
  <2>2. i \in follower.printed => i \in follower'.printed
    BY <1>3
  <2>3. i \in late => i \in late'
    BY <1>3
  <2>4. ASSUME NEW t \in 1..events[i], Crowded(t)
        PROVE  t \in 1..events'[i] /\ Crowded(t)'
    BY <1>1, <1>2, <2>4, CrowdStays DEF FollowInv
  <2> QED
    BY <1>6, <2>1, <2>2, <2>3, <2>4 DEF Caught
<1>7. PrintedOK'
  BY <1>2, <1>3, <1>5 DEF FollowInv, PrintedOK
<1>8. BehindOK'
  <2> SUFFICES ASSUME NEW i \in DOMAIN events', events'[i] < follower.cursor
               PROVE  Caught(i)'
    BY <1>3 DEF BehindOK
  <2>1. CASE i \in DOMAIN events
    BY <1>2, <1>6, <2>1 DEF FollowInv, BehindOK
  <2>2. CASE i \notin DOMAIN events
    <3>1. i = Len(events') /\ stamp[r] < follower.cursor
      BY <1>1, <1>2, <2>2
    <3>2. i \in late'
      BY <1>3, <3>1
    <3> QED
      BY <3>2 DEF Caught
  <2> QED
    BY <2>1, <2>2
<1>9. CompleteOK'
  BY <1>1, <1>3, <1>5, <1>6 DEF FollowInv, CompleteOK
<1> QED
  BY <1>3, <1>4, <1>7, <1>8, <1>9 DEF FollowInv

LEMMA TailKeepsFollowed ==
  ASSUME FollowInv, FollowTail
  PROVE  FollowInv'
<1>1. PICK tail \in Newest(DOMAIN events) : \E u \in Latest(tail, 0) :
        Follows([follower EXCEPT !.at = IF follower.over THEN "done" ELSE "poll",
                   !.printed = tail, !.cursor = u, !.tail = tail,
                   !.listed = Len(events)])
  BY DEF FollowTail
<1>2. PICK u \in Latest(tail, 0) :
        Follows([follower EXCEPT !.at = IF follower.over THEN "done" ELSE "poll",
                   !.printed = tail, !.cursor = u, !.tail = tail,
                   !.listed = Len(events)])
  BY <1>1
<1>3. /\ events \in Seq(Times) /\ DOMAIN events = 1..Len(events) /\ Len(events) \in Nat
  BY DEF FollowInv, FollowTypeOK
<1>4. tail \subseteq DOMAIN events /\ tail \in Limited(DOMAIN events)
      /\ \A j \in tail, i \in DOMAIN events \ tail : Earlier(i, j)
  BY DEF Newest, Limited
<1>5. u \in Nat /\ \A i \in tail : events[i] <= u
  BY <1>3, <1>4 DEF Latest, Times
<1>6. /\ now' = now /\ ended' = ended /\ events' = events /\ stamp' = stamp /\ late' = late
      /\ follower'.at \in {"done", "poll"}
      /\ follower' = [follower EXCEPT !.at = IF follower.over THEN "done" ELSE "poll",
                   !.printed = tail, !.cursor = u, !.tail = tail, !.listed = Len(events)]
      /\ follower'.printed = tail /\ follower'.tail = tail /\ follower'.cursor = u
      /\ follower'.listed = Len(events)
  BY <1>2 DEF Follows, FollowInv, FollowTypeOK
<1>7. FollowTypeOK'
  <2>1. follower' \in [at : {"idle", "tail", "poll", "status", "done"}, over : BOOLEAN,
                   cursor : Nat, printed : SUBSET DOMAIN events, emitted : Nat,
                   tail : SUBSET DOMAIN events, listed : 0..Len(events)]
    <3>1. /\ tail \in SUBSET DOMAIN events /\ u \in Nat /\ Len(events) \in 0..Len(events)
          /\ follower \in [at : {"idle", "tail", "poll", "status", "done"}, over : BOOLEAN,
                   cursor : Nat, printed : SUBSET DOMAIN events, emitted : Nat,
                   tail : SUBSET DOMAIN events, listed : 0..Len(events)]
      BY <1>3, <1>4, <1>5 DEF FollowInv, FollowTypeOK
    <3>2. follower' = [follower EXCEPT !.at = IF follower.over THEN "done" ELSE "poll",
                   !.printed = tail, !.cursor = u, !.tail = tail, !.listed = Len(events)]
      BY <1>6
    <3> QED
      BY <3>1, <3>2
  <2> QED
    BY <1>6, <2>1 DEF FollowInv, FollowTypeOK
<1>8. \A i \in DOMAIN events : Caught(i)'
  <2> SUFFICES ASSUME NEW i \in DOMAIN events, i \notin tail
               PROVE  BeforeTail(i)'
    BY <1>6 DEF Caught
  <2>1. tail # {}
    BY <1>4, LimitReached DEF FollowInv
  <2> QED
    BY <1>4, <1>6, <2>1 DEF BeforeTail, Earlier
<1> QED
  BY <1>3, <1>5, <1>6, <1>7, <1>8 DEF FollowInv, PrintedOK, BehindOK, CompleteOK

LEMMA PollKeepsFollowed ==
  ASSUME FollowInv, FollowPoll
  PROVE  FollowInv'
<1> DEFINE c == follower.cursor
<1>1. PICK page \in Oldest(Since(c)) : Polled(page \ follower.printed)
  BY DEF FollowPoll
<1> DEFINE fresh == page \ follower.printed
           n     == Cardinality(fresh)
<1>2. PICK u \in Latest(fresh, c) :
        Follows([follower EXCEPT !.at = "status", !.printed = @ \cup fresh, !.cursor = u,
                   !.emitted = n, !.listed = Len(events)])
  BY <1>1 DEF Polled
<1>3. /\ events \in Seq(Times) /\ DOMAIN events = 1..Len(events) /\ Len(events) \in Nat
      /\ \A i \in DOMAIN events : events[i] \in Times
  BY DEF FollowInv, FollowTypeOK
<1>4. /\ Since(c) \subseteq DOMAIN events /\ page \in Limited(Since(c)) /\ page \subseteq Since(c)
      /\ \A i \in Since(c) \ page, j \in page : Earlier(j, i)
  BY DEF Oldest, Limited, Since
<1>5. /\ c \in Nat /\ follower.printed \subseteq DOMAIN events
      /\ \A i \in follower.printed : events[i] <= c
  BY DEF FollowInv, FollowTypeOK, PrintedOK
<1>6. fresh \subseteq DOMAIN events /\ IsFiniteSet(fresh) /\ n \in Nat /\ (n = 0 => fresh = {})
  BY <1>4, RowsAreFinite, FS_EmptySet DEF FollowInv
<1>7. /\ u \in Nat /\ c <= u /\ \A i \in fresh : events[i] <= u
      /\ u = c \/ \E i \in fresh : events[i] = u
  BY <1>3, <1>5, <1>6 DEF Latest, Times
<1> HIDE DEF n
<1>8. /\ now' = now /\ ended' = ended /\ events' = events /\ stamp' = stamp /\ late' = late
      /\ follower'.at = "status" /\ follower'.emitted = n
      /\ follower' = [follower EXCEPT !.at = "status", !.printed = @ \cup fresh, !.cursor = u,
                   !.emitted = n, !.listed = Len(events)]
      /\ follower'.printed = follower.printed \cup fresh /\ follower'.tail = follower.tail
      /\ follower'.cursor = u /\ follower'.listed = Len(events)
  BY <1>2 DEF Follows, FollowInv, FollowTypeOK
<1>9. FollowTypeOK'
  <2>1. follower' \in [at : {"idle", "tail", "poll", "status", "done"}, over : BOOLEAN,
                   cursor : Nat, printed : SUBSET DOMAIN events, emitted : Nat,
                   tail : SUBSET DOMAIN events, listed : 0..Len(events)]
    <3> DEFINE all == follower.printed \cup fresh
    <3>1. /\ all \in SUBSET DOMAIN events /\ u \in Nat /\ n \in Nat
          /\ Len(events) \in 0..Len(events)
          /\ follower \in [at : {"idle", "tail", "poll", "status", "done"}, over : BOOLEAN,
                   cursor : Nat, printed : SUBSET DOMAIN events, emitted : Nat,
                   tail : SUBSET DOMAIN events, listed : 0..Len(events)]
      BY <1>3, <1>5, <1>6, <1>7 DEF FollowInv, FollowTypeOK
    <3>2. follower' = [follower EXCEPT !.at = "status", !.printed = all, !.cursor = u,
                   !.emitted = n, !.listed = Len(events)]
      BY <1>8
    <3> HIDE DEF all
    <3> QED
      BY <3>1, <3>2
  <2> QED
    BY <1>8, <2>1 DEF FollowInv, FollowTypeOK
<1>10. PrintedOK'
  BY <1>3, <1>5, <1>6, <1>7, <1>8 DEF PrintedOK, Times
<1>11. \A i \in DOMAIN events : Caught(i) \/ i \in page => Caught(i)'
  BY SMTT(30), <1>8 DEF Caught, BeforeTail, Earlier, Crowded
<1>12. BehindOK'
  <2> SUFFICES ASSUME NEW i \in DOMAIN events, events[i] < u, i \notin page
               PROVE  Caught(i)'
    BY <1>8, <1>11 DEF BehindOK
  <2>1. CASE events[i] < c
    BY <1>11, <2>1 DEF FollowInv, BehindOK
  <2>2. CASE ~(events[i] < c)
    <3>1. i \in Since(c) \ page
      BY <1>3, <1>5, <2>2 DEF Since, Times
    <3>2. u # c
      BY <1>3, <1>5, <2>2 DEF Times
    <3>3. PICK j \in page : events[j] = u
      BY <1>7, <3>2
    <3>4. Earlier(j, i)
      BY <1>4, <3>1
    <3> QED
      BY <1>3, <1>7, <3>3, <3>4 DEF Earlier, Times
  <2> QED
    BY <2>1, <2>2
<1>13. CompleteOK'
  <2> SUFFICES ASSUME n = 0, NEW i \in DOMAIN events, i \notin page
               PROVE  Caught(i)'
    BY <1>3, <1>8, <1>11 DEF CompleteOK
  <2>1. fresh = {} /\ page \subseteq follower.printed
    BY <1>6
  <2>2. CASE events[i] < c
    BY <1>11, <2>2 DEF FollowInv, BehindOK
  <2>3. CASE ~(events[i] < c)
    <3> DEFINE same == {j \in DOMAIN events : events[j] = c}
    <3>1. i \in Since(c) \ page
      BY <1>3, <1>5, <2>3 DEF Since, Times
    <3>2. Cardinality(page) = Limit /\ page # {}
      BY <1>4, <3>1, LimitReached DEF FollowInv
    <3>3. page \subseteq same
      BY <1>3, <1>4, <1>5, <2>1 DEF Since, Times
    <3>4. Cardinality(page) <= Cardinality(same)
      <4>1. IsFiniteSet(same)
        BY RowsAreFinite DEF FollowInv
      <4> QED
        BY <3>3, <4>1, FS_Subset
    <3>5. Crowded(c)
      BY <3>2, <3>4 DEF Crowded
    <3>6. c \in 1..events[i]
      BY <1>3, <1>5, <2>3, <3>2, <3>3 DEF Times
    <3>7. Caught(i)
      BY <3>5, <3>6 DEF Caught
    <3> QED
      BY <1>11, <3>7
  <2> QED
    BY <2>2, <2>3
<1> QED
  BY <1>8, <1>9, <1>10, <1>12, <1>13 DEF FollowInv

LEMMA FollowStep == FollowInv /\ [FollowNext]_followVars => FollowInv'
<1> SUFFICES ASSUME FollowInv, [FollowNext]_followVars PROVE FollowInv'
  OBVIOUS
<1>1. CASE Tick \/ EndRun \/ (\E r \in Recorders : TakeTime(r)) \/ UNCHANGED followVars
  <2>1. /\ events' = events /\ follower' = follower /\ late' = late
    BY <1>1 DEF Tick, EndRun, TakeTime, followVars
  <2>2. /\ now \in Times /\ now \in Nat /\ ended \in BOOLEAN /\ stamp \in [Recorders -> Nat]
    BY DEF FollowInv, FollowTypeOK, Times
  <2>3. now' \in Times
    BY <1>1, <2>2 DEF Tick, EndRun, TakeTime, followVars, Times
  <2>4. ended' \in BOOLEAN
    BY <1>1, <2>2 DEF Tick, EndRun, TakeTime, followVars
  <2>5. stamp' \in [Recorders -> Nat]
    BY <1>1, <2>2 DEF Tick, EndRun, TakeTime, followVars
  <2>6. FollowTypeOK'
    BY <2>1, <2>3, <2>4, <2>5 DEF FollowInv, FollowTypeOK
  <2> QED
    BY <2>1, <2>6 DEF FollowInv, PrintedOK, BehindOK, CompleteOK, Caught, BeforeTail,
       Earlier, Crowded
<1>2. CASE FollowStart
  <2>1. /\ now' = now /\ ended' = ended /\ events' = events /\ stamp' = stamp /\ late' = late
        /\ follower.at = "idle" /\ follower'.at = "tail"
        /\ follower' = [follower EXCEPT !.at = "tail", !.over = ended]
        /\ follower'.cursor = follower.cursor /\ follower'.printed = follower.printed
        /\ follower'.tail = follower.tail
    BY <1>2 DEF FollowStart, Follows, FollowInv, FollowTypeOK
  <2>2. FollowTypeOK'
    BY <2>1 DEF FollowInv, FollowTypeOK
  <2> QED
    BY <2>1, <2>2 DEF FollowInv, PrintedOK, BehindOK, CompleteOK, Caught, BeforeTail,
       Earlier, Crowded
<1>3. CASE FollowStatus
  <2>1. /\ now' = now /\ ended' = ended /\ events' = events /\ stamp' = stamp /\ late' = late
        /\ follower.at = "status" /\ follower'.at \in {"done", "poll"}
        /\ follower'.at = "done" => follower.emitted = 0
        /\ follower' = [follower EXCEPT !.at = IF follower.emitted = 0 /\ ended
                                               THEN "done" ELSE "poll"]
        /\ follower'.cursor = follower.cursor /\ follower'.printed = follower.printed
        /\ follower'.tail = follower.tail /\ follower'.listed = follower.listed
    BY <1>3 DEF FollowStatus, Follows, FollowInv, FollowTypeOK
  <2>2. FollowTypeOK'
    BY <2>1 DEF FollowInv, FollowTypeOK
  <2> QED
    BY SMTT(30), <2>1, <2>2 DEF FollowInv, PrintedOK, BehindOK, CompleteOK, Caught, BeforeTail,
       Earlier, Crowded
<1> QED
  BY <1>1, <1>2, <1>3, InsertKeepsFollowed, TailKeepsFollowed, PollKeepsFollowed
     DEF FollowNext, Follow

LEMMA FollowInvariant == FollowSpec => []FollowInv
<1> QED
  BY FollowInitially, FollowStep, PTL DEF FollowSpec

\* When the follower stops, of what it could see it has left out only the rows before the
\* tail it began with, those inserted late with an earlier time, and those at or after a
\* millisecond with as many events as a query returns, however many recorders there are.
THEOREM NothingSkippedCorrect == FollowSpec => []NothingSkipped
<1>1. FollowInv => NothingSkipped
  BY DEF FollowInv, CompleteOK, NothingSkipped, Caught
<1> QED
  BY <1>1, FollowInvariant, PTL
=============================================================================
