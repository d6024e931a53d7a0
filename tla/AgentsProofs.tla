----------------------------- MODULE AgentsProofs -----------------------------
(***************************************************************************)
(* Proofs about what stands around the agents: no text is lost when it is   *)
(* cut up, jobs that cannot be listed are known, sessions keep threads of   *)
(* their own, skills that are synced and tools on record are whole.         *)
(***************************************************************************)
EXTENDS AgentTurns, McpServer, SkillsSync, MemoryText, MacApp, MacTools, Integers, TLAPS

-----------------------------------------------------------------------------
(* Chunks of a text.  Those made so far end before next; what is collected  *)
(* begins in the last one or right after it.                                *)

Chunk == [first : Nat, last : Nat]
TextTypeOK ==
  /\ length \in Lengths
  /\ next \in 1..(Len(length) + 1)
  /\ from \in 1..next
  /\ chunks \in Seq(Chunk)

Chained ==
  \A i \in DOMAIN chunks :
    /\ chunks[i].first <= chunks[i].last
    /\ i = 1 => chunks[i].first = 1
    /\ i > 1 => /\ chunks[i].first \in chunks[i - 1].first..(chunks[i - 1].last + 1)
                /\ chunks[i].last > chunks[i - 1].last

Continues ==
  /\ chunks = <<>> => from = 1
  /\ chunks # <<>> =>
       /\ from \in chunks[Len(chunks)].first..(chunks[Len(chunks)].last + 1)
       /\ \/ chunks[Len(chunks)].last < next - 1
          \/ chunks[Len(chunks)].last = next - 1 /\ from = next /\ next \notin DOMAIN length

TextInv == TextTypeOK /\ Chained /\ Continues

\* A text begins with its first segment.
LEMMA TextInitInv == TextInit => TextInv
<1> SUFFICES ASSUME TextInit PROVE TextInv
  OBVIOUS
<1>1. length \in Seq(Nat)
  BY LengthsAssumption DEF TextInit
<1> QED
  BY <1>1 DEF TextInit, TextInv, TextTypeOK, Chained, Continues, Chunk

\* A chunk that is added where the last one ended, or in it, keeps the chain.
LEMMA FlushChains ==
  ASSUME TextInv, from < next, chunks' = Flushed
  PROVE  /\ chunks' \in Seq(Chunk)
         /\ Chained'
         /\ chunks' # <<>>
         /\ chunks'[Len(chunks')] = [first |-> from, last |-> next - 1]
<1> DEFINE c == [first |-> from, last |-> next - 1]
<1>1. length \in Seq(Nat) /\ Len(length) \in Nat
  BY LengthsAssumption DEF TextInv, TextTypeOK
<1>2. from \in Nat /\ next \in Nat /\ from >= 1 /\ c \in Chunk /\ chunks \in Seq(Chunk)
  BY <1>1 DEF TextInv, TextTypeOK, Chunk
<1>3. chunks' = Append(chunks, c)
  BY DEF Flushed
<1> DEFINE n == Len(chunks)
<1>4. /\ chunks' \in Seq(Chunk) /\ Len(chunks') = n + 1 /\ n \in Nat
      /\ \A i \in 1..n : chunks'[i] = chunks[i] /\ chunks[i] \in Chunk
      /\ chunks'[n + 1] = c
      /\ DOMAIN chunks' = 1..(n + 1) /\ DOMAIN chunks = 1..n
  BY <1>2, <1>3
<1>5. n = 0 => from = 1
  BY <1>2 DEF TextInv, Continues
<1>6. n > 0 => from \in chunks[n].first..(chunks[n].last + 1) /\ chunks[n].last < next - 1
  BY <1>2 DEF TextInv, Continues
<1>7. Chained'
  <2> SUFFICES ASSUME NEW i \in 1..(n + 1)
               PROVE  /\ chunks'[i].first <= chunks'[i].last
                      /\ i = 1 => chunks'[i].first = 1
                      /\ i > 1 => /\ chunks'[i].first \in
                                       chunks'[i - 1].first..(chunks'[i - 1].last + 1)
                                  /\ chunks'[i].last > chunks'[i - 1].last
    BY <1>4 DEF Chained
  <2>1. CASE i \in 1..n
    <3>1. i - 1 \in 1..n \/ i = 1
      BY <1>4, <2>1
    <3> QED
      BY <1>4, <2>1, <3>1 DEF TextInv, Chained
  <2>2. CASE i = n + 1
    <3>1. c.first = from /\ c.last = next - 1
      OBVIOUS
    <3> HIDE DEF c
    <3> QED
      BY <1>2, <1>4, <1>5, <1>6, <2>2, <3>1
  <2> QED
    BY <1>4, <2>1, <2>2
<1> QED
  BY <1>4, <1>7

\* The last of some chunks is a chunk.
LEMMA LastIsChunk ==
  ASSUME chunks \in Seq(Chunk), chunks # <<>>
  PROVE  /\ Len(chunks) \in DOMAIN chunks
         /\ chunks[Len(chunks)].last \in Nat
         /\ chunks[Len(chunks)].first \in Nat
<1>1. Len(chunks) \in DOMAIN chunks
  OBVIOUS
<1>2. chunks[Len(chunks)] \in Chunk
  BY <1>1
<1> QED
  BY <1>1, <1>2 DEF Chunk

\* A step keeps the invariant: a segment is collected, after a chunk if it did not
\* fit, or the last chunk is made.
LEMMA TextStep == ASSUME TextInv, [TextNext]_textVars PROVE TextInv'
<1>1. length \in Seq(Nat) /\ Len(length) \in Nat /\ DOMAIN length = 1..Len(length)
  BY LengthsAssumption DEF TextInv, TextTypeOK
<1>2. from \in Nat /\ next \in Nat /\ from >= 1 /\ from <= next /\ next <= Len(length) + 1
  BY <1>1 DEF TextInv, TextTypeOK
<1>3. CASE TakeSegment
  <2>1. next \in DOMAIN length /\ next' = next + 1 /\ length' = length
    BY <1>3 DEF TakeSegment
  <2>2. CASE from < next /\ Size(from, next) > MaxChars
    <3>1. chunks' = Flushed /\ from' \in from..next
      BY <1>3, <2>2 DEF TakeSegment
    <3>2. /\ chunks' \in Seq(Chunk) /\ Chained' /\ chunks' # <<>>
          /\ chunks'[Len(chunks')] = [first |-> from, last |-> next - 1]
      BY <2>2, <3>1, FlushChains
    <3>3. Continues'
      BY <1>2, <2>1, <3>1, <3>2 DEF Continues
    <3>4. TextTypeOK'
      BY <1>1, <1>2, <2>1, <3>1, <3>2 DEF TextInv, TextTypeOK
    <3> QED
      BY <3>2, <3>3, <3>4 DEF TextInv
  <2>3. CASE ~(from < next /\ Size(from, next) > MaxChars)
    <3>1. UNCHANGED <<chunks, from>>
      BY <1>3, <2>3 DEF TakeSegment
    <3>2. chunks # <<>> => /\ Len(chunks) \in DOMAIN chunks
                           /\ chunks[Len(chunks)].last \in Nat
                           /\ chunks[Len(chunks)].first \in Nat
      BY LastIsChunk DEF TextInv, TextTypeOK
    <3> QED
      BY <1>1, <1>2, <2>1, <3>1, <3>2 DEF TextInv, TextTypeOK, Chained, Continues
  <2> QED
    BY <2>2, <2>3
<1>4. CASE LastChunk
  <2>1. /\ next \notin DOMAIN length /\ from < next /\ chunks' = Flushed
        /\ from' = next /\ next' = next /\ length' = length
    BY <1>4 DEF LastChunk
  <2>2. /\ chunks' \in Seq(Chunk) /\ Chained' /\ chunks' # <<>>
        /\ chunks'[Len(chunks')] = [first |-> from, last |-> next - 1]
    BY <2>1, FlushChains
  <2> QED
    BY <1>1, <1>2, <2>1, <2>2 DEF TextInv, TextTypeOK, Continues
<1>5. CASE UNCHANGED textVars
  BY <1>5 DEF textVars, TextInv, TextTypeOK, Chained, Continues
<1> QED
  BY <1>3, <1>4, <1>5 DEF TextNext

\* No part of any text is left out, whatever the lengths of its lines, the limit
\* and the overlap: chunks follow each other without a gap to the end.
THEOREM TextIsCovered == TextSpec => []ChunksCover
<1>1. TextInv => ChunksCover
  <2> SUFFICES ASSUME TextInv, next \notin DOMAIN length, from = next
               PROVE  chunks # <<>> /\ chunks[Len(chunks)].last = next - 1
    BY DEF TextInv, Chained, ChunksCover
  <2>1. length \in Seq(Nat) /\ length # <<>> /\ next \in Nat
    BY LengthsAssumption DEF TextInv, TextTypeOK
  <2>2. 1 \in DOMAIN length
    BY <2>1
  <2>3. chunks # <<>>
    BY <2>2 DEF TextInv, Continues
  <2>4. chunks[Len(chunks)].last \in Nat /\ chunks[Len(chunks)].first \in Nat
    BY <2>3, LastIsChunk DEF TextInv, TextTypeOK
  <2> QED
    BY <2>1, <2>3, <2>4 DEF TextInv, Continues
<1> QED
  BY <1>1, TextInitInv, TextStep, PTL DEF TextSpec

\* The sizes of adjacent segments add up, and one is at most a line and its newline.
LEMMA Sizes ==
  ASSUME length \in Lengths, NEW i \in DOMAIN length
  PROVE  /\ length[i] \in Nat /\ Before(length, i) \in Nat
         /\ Size(i, i) <= MaxChars + 1
         /\ \A j \in DOMAIN length : Size(j, i) \in Int
         /\ i + 1 \in DOMAIN length => Before(length, i + 1) = length[i]
<1>1. length \in Seq(Nat) /\ MaxChars \in Nat
  BY LengthsAssumption, MaxAssumption
<1>2. \A j \in DOMAIN length : j \in Nat /\ j >= 1 /\ length[j] \in Nat
                                /\ (j # 1 => j - 1 \in DOMAIN length)
  BY <1>1
<1>3. \A j \in DOMAIN length : Before(length, j) \in Nat
  BY <1>2 DEF Before
<1>4. length[i] <= Before(length, i) + MaxChars + 1
  BY LengthsAssumption
<1>5. Before(length, i + 1) = length[i]
  BY <1>2 DEF Before
<1> QED
  BY <1>1, <1>2, <1>3, <1>4, <1>5 DEF Size

Limit_ == Overlap + 2 * (MaxChars + 1)
FitInv ==
  /\ TextInv
  /\ from < next => Size(from, next - 1) <= Limit_
  /\ ChunksFit

\* A sum of three sizes that are each bounded.
LEMMA Sums ==
  ASSUME MaxChars \in Nat, Overlap \in Nat, NEW p \in Int, NEW q \in Int, NEW r \in Int,
         p <= MaxChars + 1, q <= Overlap, r <= MaxChars + 1
  PROVE  p + q + r <= Limit_
BY DEF Limit_

\* What is carried over and one more segment stay within the limit.
LEMMA CarriedFits ==
  ASSUME TextInv, next \in DOMAIN length, NEW k \in from..next, Carries(k)
  PROVE  Size(k, next) <= Limit_
<1>0. /\ length \in Lengths /\ MaxChars \in Nat /\ Overlap \in Nat /\ length \in Seq(Nat)
      /\ next \in Nat /\ from \in Nat /\ from >= 1 /\ k \in Nat /\ k >= from /\ k <= next
  BY MaxAssumption, LengthsAssumption DEF TextInv, TextTypeOK
<1>1. k \in DOMAIN length
  BY <1>0
<1>2. Size(next, next) <= MaxChars + 1 /\ Size(next, next) \in Int
      /\ length[next] \in Nat /\ Before(length, next) \in Nat
  BY <1>0, Sizes
<1>3. Size(k, k) <= MaxChars + 1 /\ Before(length, k) \in Nat /\ length[k] \in Nat
  BY <1>0, <1>1, Sizes
<1>4. CASE k = next
  BY <1>0, <1>2, <1>4 DEF Limit_
<1>5. CASE k < next
  <2>1. next - 1 \in DOMAIN length /\ length[next - 1] = Before(length, next)
    BY <1>0, <1>5 DEF Before
  <2>2. Size(k, next) = Size(k, next - 1) + Size(next, next)
    BY <1>2, <1>3, <2>1 DEF Size
  <2>3. CASE k = next - 1
    <3>1. Size(k, next - 1) = Size(k, k) /\ Size(k, k) \in Int
      BY <1>0, <1>1, <2>3, Sizes
    <3> DEFINE p == Size(k, k)  r == Size(next, next)
    <3> HIDE DEF p, r
    <3>2. Size(k, next) = p + r /\ p \in Int /\ r \in Int
      BY <1>2, <2>2, <3>1 DEF p, r
    <3>3. p <= MaxChars + 1 /\ r <= MaxChars + 1
      BY <1>2, <1>3 DEF p, r
    <3>4. p + 0 + r <= Limit_
      <4>1. 0 <= Overlap /\ 0 \in Int
        BY <1>0
      <4> QED
        BY <1>0, <3>2, <3>3, <4>1, Sums
    <3>5. p + 0 + r = p + r
      BY <3>2
    <3> QED
      BY <3>2, <3>4, <3>5
  <2>4. CASE k < next - 1
    <3>1. k + 1 \in (k + 1)..(next - 1) /\ k + 1 \in DOMAIN length
      BY <1>0, <2>1, <2>4
    <3>2. Size(k + 1, next - 1) < Overlap
      BY <1>0, <1>5, <3>1 DEF Carries
    <3>3. Before(length, k + 1) = length[k]
      BY <1>0, <1>1, <3>1, Sizes
    <3>4. Size(k, next - 1) = Size(k, k) + Size(k + 1, next - 1)
      BY <1>2, <1>3, <2>1, <3>3 DEF Size
    <3>5. Size(k, k) \in Int /\ Size(k + 1, next - 1) \in Int
      BY <1>0, <1>1, <2>1, <3>1, Sizes
    <3> DEFINE p == Size(k, k)  q == Size(k + 1, next - 1)  r == Size(next, next)
    <3> HIDE DEF p, q, r
    <3>6. Size(k, next) = p + q + r /\ p \in Int /\ q \in Int /\ r \in Int
      BY <1>2, <2>2, <3>4, <3>5 DEF p, q, r
    <3>7. p <= MaxChars + 1 /\ r <= MaxChars + 1
      BY <1>2, <1>3 DEF p, r
    <3>8. q <= Overlap
      BY <1>0, <3>2, <3>5 DEF q
    <3> QED
      BY <1>0, <3>6, <3>7, <3>8, Sums
  <2> QED
    BY <1>0, <1>5, <2>3, <2>4
<1> QED
  BY <1>0, <1>4, <1>5

\* A chunk that is added is what was collected.
LEMMA FlushFits ==
  ASSUME FitInv, from < next, chunks' = Flushed, length' = length
  PROVE  ChunksFit'
<1>1. /\ chunks \in Seq(Chunk) /\ DOMAIN chunks = 1..Len(chunks)
      /\ [first |-> from, last |-> next - 1] \in Chunk
  BY LengthsAssumption DEF FitInv, TextInv, TextTypeOK, Chunk
<1>2. /\ DOMAIN chunks' = 1..(Len(chunks) + 1)
      /\ \A i \in 1..Len(chunks) : chunks'[i] = chunks[i]
      /\ chunks'[Len(chunks) + 1] = [first |-> from, last |-> next - 1]
  BY <1>1 DEF Flushed
<1>3. Size(from, next - 1)' = length[next' - 1] - Before(length, from')
  BY DEF Size, Before
<1> SUFFICES ASSUME NEW i \in DOMAIN chunks'
             PROVE  length[chunks'[i].last] - Before(length, chunks'[i].first) <= Limit_
  BY DEF ChunksFit, Size, Limit_, Before
<1>4. CASE i \in DOMAIN chunks
  BY <1>1, <1>2, <1>4 DEF FitInv, ChunksFit, Size, Limit_
<1>5. CASE i = Len(chunks) + 1
  BY <1>2, <1>5 DEF FitInv, Size
<1> QED
  BY <1>1, <1>2, <1>4, <1>5

\* A step keeps every chunk, and what is collected for the next, within the limit.
LEMMA FitStep == ASSUME FitInv, [TextNext]_textVars PROVE FitInv'
<1>0. /\ TextInv' /\ length \in Lengths /\ length \in Seq(Nat)
      /\ MaxChars \in Nat /\ Overlap \in Nat /\ next \in Nat /\ from \in Nat
      /\ from >= 1 /\ from <= next
  BY TextStep, MaxAssumption, LengthsAssumption DEF FitInv, TextInv, TextTypeOK
<1>1. CASE TakeSegment
  <2>1. next \in DOMAIN length /\ next' = next + 1 /\ length' = length /\ next' - 1 = next
    BY <1>0, <1>1 DEF TakeSegment
  <2>2. CASE from < next /\ Size(from, next) > MaxChars
    <3>1. PICK k \in from..next : Carries(k) /\ from' = k
      BY <1>1, <2>2 DEF TakeSegment
    <3>2. Size(k, next) <= Limit_
      BY <2>1, <3>1, CarriedFits DEF FitInv
    <3>3. chunks' = Flushed
      BY <1>1, <2>2 DEF TakeSegment
    <3>4. ChunksFit'
      BY <2>1, <2>2, <3>3, FlushFits
    <3>5. (Size(from, next - 1) <= Limit_)'
      BY <2>1, <3>1, <3>2 DEF Size, Before, Limit_
    <3> QED
      BY <1>0, <3>4, <3>5 DEF FitInv
  <2>3. CASE ~(from < next /\ Size(from, next) > MaxChars)
    <3>1. UNCHANGED <<chunks, from>>
      BY <1>1, <2>3 DEF TakeSegment
    <3>2. Size(next, next) <= MaxChars + 1 /\ Size(from, next) \in Int
          /\ Size(next, next) \in Int
      BY <1>0, <2>1, Sizes
    <3>3. Size(from, next) <= Limit_
      BY <1>0, <2>3, <3>2 DEF Limit_
    <3>4. (Size(from, next - 1) <= Limit_)'
      BY <2>1, <3>1, <3>3 DEF Size, Before, Limit_
    <3>5. ChunksFit'
      BY <2>1, <3>1 DEF FitInv, ChunksFit, Size, Before
    <3> QED
      BY <1>0, <3>4, <3>5 DEF FitInv
  <2> QED
    BY <2>2, <2>3
<1>2. CASE LastChunk
  <2>1. from < next /\ chunks' = Flushed /\ from' = next /\ next' = next /\ length' = length
    BY <1>2 DEF LastChunk
  <2>2. ChunksFit'
    BY <2>1, FlushFits
  <2> QED
    BY <1>0, <2>1, <2>2 DEF FitInv
<1>3. CASE UNCHANGED textVars
  BY <1>0, <1>3 DEF textVars, FitInv, ChunksFit, Size, Before
<1> QED
  BY <1>1, <1>2, <1>3 DEF TextNext

\* For every text, limit and overlap: no chunk is longer than the overlap and two full
\* segments, however the lines are broken up.
THEOREM ChunksAreBounded == TextSpec => []ChunksFit
<1>1. TextInit => FitInv
  BY TextInitInv DEF TextInit, FitInv, ChunksFit
<1>2. FitInv => ChunksFit
  BY DEF FitInv
<1> QED
  BY <1>1, <1>2, FitStep, PTL DEF TextSpec

-----------------------------------------------------------------------------
(* Tool servers.  While the last writer of a job waits for its answer, what *)
(* it is to be shown is that job.                                           *)

McpInv ==
  /\ DOMAIN jobs = JobIds /\ DOMAIN suspect = JobIds /\ DOMAIN talk = Servers
  /\ \A j \in JobIds : suspect[j] \in Servers \cup {Nothing}
  /\ \A s \in Servers, j \in JobIds \ {Nothing} :
       talk[s].kind = "pending" /\ talk[s].id = j /\ suspect[j] = s => talk[s].shown = {jobs[j]}
  /\ UnshownIsSuspect

\* A server that writes a job waits to show it, and is its last writer.
LEMMA WriteKeeps ==
  ASSUME McpInv, NEW s \in Servers, NEW j \in JobIds, NEW tool, NEW r,
         jobs' = [jobs EXCEPT ![j] = r], Result(s, tool, {r}, j),
         suspect' = [suspect EXCEPT ![j] = s]
  PROVE  McpInv'
<1>1. /\ jobs'[j] = r /\ suspect'[j] = s /\ s # Nothing
      /\ \A i \in JobIds \ {j} : jobs'[i] = jobs[i] /\ suspect'[i] = suspect[i]
      /\ DOMAIN jobs' = JobIds /\ DOMAIN suspect' = JobIds
  BY NothingAssumption DEF McpInv
<1>2. /\ DOMAIN talk' = Servers
      /\ talk'[s].kind = "pending" /\ talk'[s].shown = {r} /\ talk'[s].id = j
      /\ \A t \in Servers \ {s} : talk'[t] = talk[t]
  BY DEF McpInv, Result
<1>3. UnshownIsSuspect'
  BY <1>1 DEF McpInv, UnshownIsSuspect, Stored
<1>4. \A t \in Servers, i \in JobIds \ {Nothing} :
        talk'[t].kind = "pending" /\ talk'[t].id = i /\ suspect'[i] = t
          => talk'[t].shown = {jobs'[i]}
  BY <1>1, <1>2 DEF McpInv
<1> QED
  BY <1>1, <1>2, <1>3, <1>4 DEF McpInv

\* An answer that changes no job, and no suspect, keeps the invariant.
LEMMA AnswerKeeps ==
  ASSUME McpInv, NEW s \in Servers, NEW kind, kind # "pending", Answer(s, kind),
         UNCHANGED <<jobs, suspect>>
  PROVE  McpInv'
<1>1. /\ DOMAIN talk' = Servers /\ talk'[s].kind # "pending"
      /\ \A t \in Servers \ {s} : talk'[t] = talk[t]
  BY DEF McpInv, Answer, Said
<1> QED
  BY <1>1 DEF McpInv, UnshownIsSuspect, Stored

\* Once the answer is out, a job it could show is no longer suspect.
LEMMA ReturnKeeps == ASSUME McpInv, NEW s \in Servers, Return(s) PROVE McpInv'
<1> DEFINE good == \A job_ \in talk[s].shown : Shown(talk[s].tool, job_)
           id   == talk[s].id
<1>1. /\ talk[s].kind = "pending" /\ jobs' = jobs
      /\ Answer(s, IF good THEN "ok" ELSE "internal")
      /\ suspect' = IF good /\ id # Nothing /\ suspect[id] = s
                    THEN [suspect EXCEPT ![id] = Nothing] ELSE suspect
  BY DEF Return, Reads
<1>2. CASE good /\ id # Nothing /\ suspect[id] = s /\ id \in JobIds
  <2>1. talk[s].shown = {jobs[id]}
    BY <1>1, <1>2 DEF McpInv
  <2>2. Shown("cron.list", jobs[id])
    BY <1>2, <2>1 DEF Shown, Sanitised
  <2>3. suspect' = [suspect EXCEPT ![id] = Nothing]
    BY <1>1, <1>2
  <2> HIDE DEF good, id
  <2>4. /\ DOMAIN talk' = Servers /\ talk'[s].kind # "pending"
        /\ \A t \in Servers \ {s} : talk'[t] = talk[t]
    BY <1>1 DEF McpInv, Answer, Said
  <2>5. /\ suspect'[id] = Nothing /\ DOMAIN suspect' = JobIds
        /\ \A i \in JobIds \ {id} : suspect'[i] = suspect[i]
    BY <1>2, <2>3 DEF McpInv
  <2>6. UnshownIsSuspect'
    BY <1>1, <2>2, <2>5 DEF McpInv, UnshownIsSuspect, Stored
  <2>7. \A t \in Servers, i \in JobIds \ {Nothing} :
          talk'[t].kind = "pending" /\ talk'[t].id = i /\ suspect'[i] = t
            => talk'[t].shown = {jobs'[i]}
    BY <1>1, <2>4, <2>5, NothingAssumption DEF McpInv
  <2> QED
    BY <1>1, <2>4, <2>5, <2>6, <2>7 DEF McpInv
<1>3. CASE ~(good /\ id # Nothing /\ suspect[id] = s /\ id \in JobIds)
  <2>1. \/ suspect' = suspect
        \/ id \notin JobIds /\ suspect' = [suspect EXCEPT ![id] = Nothing]
    BY <1>1, <1>3
  <2>2. DOMAIN suspect' = JobIds /\ \A i \in JobIds : suspect'[i] = suspect[i]
    BY <2>1 DEF McpInv
  <2> HIDE DEF good, id
  <2>3. /\ DOMAIN talk' = Servers /\ talk'[s].kind # "pending"
        /\ \A t \in Servers \ {s} : talk'[t] = talk[t]
    BY <1>1 DEF McpInv, Answer, Said
  <2> QED
    BY <1>1, <2>2, <2>3 DEF McpInv, UnshownIsSuspect, Stored
<1> QED
  BY <1>2, <1>3

\* A step of a server keeps the invariant.
LEMMA McpStep == ASSUME McpInv, [McpNext]_mcpVars PROVE McpInv'
<1>1. CASE UNCHANGED mcpVars
  BY <1>1 DEF mcpVars, McpInv, UnshownIsSuspect, Stored
<1>2. ASSUME NEW s \in Servers, Notification(s) PROVE McpInv'
  BY <1>1, <1>2 DEF Notification
<1>3. ASSUME NEW s \in Servers, Plain(s) \/ Refused(s) \/ Failed(s) \/ Kill(s) PROVE McpInv'
  <2>1. /\ UNCHANGED <<jobs, suspect>>
        /\ \E kind \in Answers : Answer(s, kind)
    BY <1>3 DEF Plain, Refused, Failed, Kill, Answers
  <2>2. \A kind \in Answers : kind # "pending"
    BY DEF Answers
  <2> QED
    BY <2>1, <2>2, AnswerKeeps
<1>4. ASSUME NEW s \in Servers, AddJob(s) PROVE McpInv'
  BY <1>4, WriteKeeps DEF AddJob
<1>5. ASSUME NEW s \in Servers, UpdateJob(s) PROVE McpInv'
  <2>1. PICK p \in Patches, j \in Stored :
          /\ jobs' = [jobs EXCEPT ![j] = Patched(jobs[j], p)]
          /\ Result(s, "cron.update", {Patched(jobs[j], p)}, j)
          /\ suspect' = [suspect EXCEPT ![j] = s]
    BY <1>5 DEF UpdateJob
  <2>2. j \in JobIds
    BY DEF Stored
  <2> QED
    BY <2>1, <2>2, WriteKeeps
<1>6. ASSUME NEW s \in Servers, RemoveJob(s) PROVE McpInv'
  <2>1. PICK j \in JobIds :
          /\ jobs' = [jobs EXCEPT ![j] = Nothing] /\ suspect' = [suspect EXCEPT ![j] = Nothing]
          /\ Result(s, "cron.remove", {}, Nothing)
    BY <1>6 DEF RemoveJob
  <2>2. /\ jobs'[j] = Nothing /\ suspect'[j] = Nothing
        /\ DOMAIN jobs' = JobIds /\ DOMAIN suspect' = JobIds
        /\ \A i \in JobIds \ {j} : jobs'[i] = jobs[i] /\ suspect'[i] = suspect[i]
    BY <2>1 DEF McpInv
  <2>3. /\ DOMAIN talk' = Servers /\ talk'[s].id = Nothing
        /\ \A t \in Servers \ {s} : talk'[t] = talk[t]
    BY <2>1 DEF McpInv, Result
  <2> QED
    BY <2>2, <2>3, NothingAssumption DEF McpInv, UnshownIsSuspect, Stored
<1>7. ASSUME NEW s \in Servers, Other(s) PROVE McpInv'
  <2>1. /\ DOMAIN talk' = Servers /\ talk'[s].id = Nothing
        /\ \A t \in Servers \ {s} : talk'[t] = talk[t]
        /\ UNCHANGED <<jobs, suspect>>
    BY <1>7 DEF McpInv, Other, Result
  <2> QED
    BY <2>1 DEF McpInv, UnshownIsSuspect, Stored
<1>8. ASSUME NEW s \in Servers, Return(s) PROVE McpInv'
  BY <1>8, ReturnKeeps
<1> QED
  BY <1>1, <1>2, <1>3, <1>4, <1>5, <1>6, <1>7, <1>8 DEF McpNext

\* However many servers change jobs at once, and whatever they are given, a job
\* that makes cron.list fail is one whose last writer was not told of success.
THEOREM UnshownIsKnown == McpSpec => []UnshownIsSuspect
<1>1. McpInit => McpInv
  BY DEF McpInit, McpInv, UnshownIsSuspect, Stored, Said
<1>2. McpInv => UnshownIsSuspect
  BY DEF McpInv
<1> QED
  BY <1>1, <1>2, McpStep, PTL DEF McpSpec

-----------------------------------------------------------------------------
(* Tools of the application.  Only who holds the lock is copying; while     *)
(* nobody does, tools on record are whole.                                  *)

Copying(t) == job[t].at \in {"empty", "copy", "record"}
Stages == {"idle", "wants", "empty", "copy", "record", "run", "each", "failed"}
Job ==
  [at : Stages, forced : BOOLEAN, todo : SUBSET Bundled,
   of : {Unlocked, "tools", "start", "command", "list", "preinstall"}]
ToolsInv ==
  /\ job \in [Jobs -> Job]
  /\ \A t \in Jobs : Copying(t) => lock = t
  /\ \A t \in Jobs : job[t].at = "record" => tools = Files
  /\ \A t \in Jobs : Copying(t) /\ recorded => job[t].forced
  /\ recorded => tools = Files \/ halved \/ (\E t \in Jobs : BreaksOff(t))

\* What happens to a job that is not copying does not touch the tools.
LEMMA AsideKeeps ==
  ASSUME ToolsInv, NEW t \in Jobs, ~Copying(t), NEW r \in Job,
         r.at \notin {"empty", "copy", "record"}, job' = [job EXCEPT ![t] = r],
         UNCHANGED <<shared, halved>>
  PROVE  ToolsInv'
<1>1. /\ job' \in [Jobs -> Job] /\ job'[t] = r
      /\ \A u \in Jobs \ {t} : job'[u] = job[u]
  BY DEF ToolsInv
<1>2. ~BreaksOff(t) /\ ~Copying(t)' /\ job'[t].at # "record"
  BY <1>1 DEF Copying, BreaksOff
<1>3. \A u \in Jobs : BreaksOff(u) => BreaksOff(u)'
  BY <1>1, <1>2 DEF BreaksOff
<1>4. \A u \in Jobs : Copying(u)' => u # t /\ Copying(u)
  BY <1>1, <1>2 DEF Copying
<1> QED
  BY <1>1, <1>2, <1>3, <1>4 DEF ToolsInv, shared

\* The one that copies goes from one stage to the next.
LEMMA CopierTurns ==
  ASSUME ToolsInv, NEW t \in Jobs, NEW stage \in Stages, Turns(t, stage)
  PROVE  /\ job' \in [Jobs -> Job]
         /\ job'[t].at = stage /\ job'[t].forced = job[t].forced
         /\ \A u \in Jobs \ {t} : job'[u] = job[u]
<1>1. job[t] \in Job /\ job \in [Jobs -> Job]
  BY DEF ToolsInv
<1> DEFINE r == [job[t] EXCEPT !.at = stage]
<1>2. r \in Job /\ r.at = stage /\ r.forced = job[t].forced
  BY <1>1 DEF Job
<1>3. job' = [job EXCEPT ![t] = r]
  BY DEF Turns
<1> HIDE DEF r
<1> QED
  BY <1>1, <1>2, <1>3

\* Who copies holds the lock, so nobody else does.
LEMMA OneCopies ==
  ASSUME ToolsInv, NEW t \in Jobs, Copying(t), NEW u \in Jobs \ {t}
  PROVE  ~Copying(u) /\ ~BreaksOff(u) /\ job[u].at # "record"
BY DEF ToolsInv, Copying, BreaksOff

\* A step of the application keeps the invariant.
LEMMA ToolsStep == ASSUME ToolsInv, [ToolsNext]_toolVars PROVE ToolsInv'
<1>0. NoJob \in Job /\ NoJob.at = "idle" /\ job \in [Jobs -> Job]
  BY DEF NoJob, Job, Stages, ToolsInv
<1>1. CASE UNCHANGED toolVars
  BY <1>1 DEF toolVars, ToolsInv, Copying, BreaksOff
<1>2. ASSUME NEW t \in Jobs, NEW r \in Job, Starts(t, r) PROVE ToolsInv'
  <2> DEFINE w == [r EXCEPT !.at = "wants"]
  <2>1. w \in Job /\ w.at = "wants"
    BY DEF Job, Stages
  <2>2. job' = [job EXCEPT ![t] = w] /\ job[t].at = "idle" /\ UNCHANGED <<shared, halved>>
    BY <1>2 DEF Starts
  <2> HIDE DEF w
  <2> QED
    BY <2>1, <2>2, AsideKeeps DEF Copying
<1>3. ASSUME NEW forced \in BOOLEAN, BeginMain(forced) PROVE ToolsInv'
  <2>1. [NoJob EXCEPT !.forced = forced, !.of = IF forced THEN "tools" ELSE "start"] \in Job
    BY DEF NoJob, Job, Stages
  <2> QED
    BY <1>2, <1>3, <2>1, MainJobAssumption DEF BeginMain
<1>4. ASSUME NEW t \in Jobs, BeginCommand(t) \/ BeginList(t) \/ BeginPreinstall(t)
      PROVE  ToolsInv'
  <2>1. \A of \in {"command", "list", "preinstall"} : [NoJob EXCEPT !.of = of] \in Job
    BY DEF NoJob, Job, Stages
  <2> QED
    BY <1>2, <1>4, <2>1 DEF BeginCommand, BeginList, BeginPreinstall
<1>5. ASSUME NEW t \in Jobs, Check(t) PROVE ToolsInv'
  <2>1. /\ job[t].at = "wants" /\ lock = Unlocked /\ UNCHANGED <<tools, recorded, halved>>
        /\ \A u \in Jobs : ~Copying(u) /\ ~BreaksOff(u) /\ job[u].at # "record"
    BY <1>5, MainJobAssumption DEF Check, ToolsInv, Copying, BreaksOff
  <2>2. CASE recorded /\ ~job[t].forced
    <3>1. Turns(t, "run") /\ lock' = lock
      BY <1>5, <2>2 DEF Check
    <3>2. /\ job' \in [Jobs -> Job] /\ job'[t].at = "run"
          /\ \A u \in Jobs \ {t} : job'[u] = job[u]
      BY <3>1, CopierTurns DEF Stages
    <3> QED
      BY <2>1, <3>1, <3>2 DEF ToolsInv, Copying, BreaksOff
  <2>3. CASE ~(recorded /\ ~job[t].forced)
    <3>1. Turns(t, "empty") /\ lock' = t
      BY <1>5, <2>3 DEF Check
    <3>2. /\ job' \in [Jobs -> Job] /\ job'[t].at = "empty" /\ job'[t].forced = job[t].forced
          /\ \A u \in Jobs \ {t} : job'[u] = job[u]
      BY <3>1, CopierTurns DEF Stages
    <3>3. job[t] \in Job
      BY DEF ToolsInv
    <3>4. \A u \in Jobs : Copying(u)' => u = t
      BY <2>1, <3>2 DEF Copying
    <3>5. job'[t].at # "record" /\ \A u \in Jobs : job'[u].at # "record"
      BY <2>1, <3>2
    <3> QED
      BY <2>1, <2>3, <3>1, <3>2, <3>4, <3>5 DEF ToolsInv
  <2> QED
    BY <2>2, <2>3
<1>6. ASSUME NEW t \in Jobs, EmptyDir(t) PROVE ToolsInv'
  <2>1. /\ job[t].at = "empty" /\ Copying(t) /\ Turns(t, "copy")
        /\ recorded' = recorded /\ lock' = lock /\ halved' = halved
    BY <1>6 DEF EmptyDir, Copying
  <2>2. /\ job' \in [Jobs -> Job] /\ job'[t].at = "copy" /\ job'[t].forced = job[t].forced
        /\ \A u \in Jobs \ {t} : job'[u] = job[u]
    BY <2>1, CopierTurns DEF Stages
  <2>3. \A u \in Jobs : (Copying(u)' => u = t) /\ job'[u].at # "record"
    BY <2>1, <2>2, OneCopies DEF Copying
  <2>4. lock = t /\ (recorded => job[t].forced)
    BY <2>1 DEF ToolsInv
  <2>5. recorded => BreaksOff(t)'
    BY <2>2, <2>4 DEF BreaksOff
  <2> QED
    BY <2>1, <2>2, <2>3, <2>4, <2>5 DEF ToolsInv
<1>7. ASSUME NEW t \in Jobs, CopyFile(t) PROVE ToolsInv'
  <2>1. /\ job[t].at = "copy" /\ Copying(t)
        /\ recorded' = recorded /\ lock' = lock /\ halved' = halved
        /\ IF tools' = Files THEN Turns(t, "record") ELSE job' = job
    BY <1>7 DEF CopyFile, Copying
  <2>2. lock = t /\ (recorded => job[t].forced)
    BY <2>1 DEF ToolsInv
  <2>3. CASE tools' = Files
    <3>1. /\ job' \in [Jobs -> Job] /\ job'[t].at = "record" /\ job'[t].forced = job[t].forced
          /\ \A u \in Jobs \ {t} : job'[u] = job[u]
      BY <2>1, <2>3, CopierTurns DEF Stages
    <3>2. \A u \in Jobs : Copying(u)' => u = t
      BY <2>1, <3>1, OneCopies DEF Copying
    <3> QED
      BY <2>1, <2>2, <2>3, <3>1, <3>2 DEF ToolsInv
  <2>4. CASE tools' # Files
    <3>1. job' = job /\ (recorded => BreaksOff(t)')
      BY <2>1, <2>2, <2>4 DEF BreaksOff
    <3>2. \A u \in Jobs : (Copying(u)' <=> Copying(u)) /\ job[u].at # "record"
      BY <2>1, <3>1, OneCopies DEF Copying
    <3> QED
      BY <2>1, <2>2, <3>1, <3>2 DEF ToolsInv
  <2> QED
    BY <2>3, <2>4
<1>8. ASSUME NEW t \in Jobs, Record(t) PROVE ToolsInv'
  <2>1. /\ job[t].at = "record" /\ Copying(t) /\ Turns(t, "run") /\ tools' = tools
    BY <1>8 DEF Record, Copying
  <2>2. /\ job' \in [Jobs -> Job] /\ job'[t].at = "run"
        /\ \A u \in Jobs \ {t} : job'[u] = job[u]
    BY <2>1, CopierTurns DEF Stages
  <2>3. \A u \in Jobs : ~Copying(u)' /\ job'[u].at # "record"
    BY <2>1, <2>2, OneCopies DEF Copying
  <2>4. tools' = Files
    BY <2>1 DEF ToolsInv
  <2> QED
    BY <2>2, <2>3, <2>4 DEF ToolsInv
<1>9. ASSUME NEW t \in Jobs, CopyFails(t) PROVE ToolsInv'
  <2>1. /\ job[t].at \in {"empty", "copy"} /\ Copying(t)
        /\ halved' = (halved \/ BreaksOff(t)) /\ job' = [job EXCEPT ![t] = NoJob]
        /\ tools' = tools /\ recorded' = recorded
    BY <1>9 DEF CopyFails, Finished, Copying
  <2>2. /\ job' \in [Jobs -> Job] /\ job'[t].at = "idle"
        /\ \A u \in Jobs \ {t} : job'[u] = job[u]
    BY <1>0, <2>1
  <2>3. \A u \in Jobs : ~Copying(u)' /\ job'[u].at # "record"
    BY <2>1, <2>2, OneCopies DEF Copying
  <2>4. recorded => tools = Files \/ halved \/ BreaksOff(t)
    BY <2>1, OneCopies DEF ToolsInv
  <2> QED
    BY <2>1, <2>2, <2>3, <2>4 DEF ToolsInv
<1>10. ASSUME NEW t \in Jobs, Run(t) PROVE ToolsInv'
  <2>1. job[t].at = "run" /\ UNCHANGED <<shared, halved>> /\ ~Copying(t) /\ job[t] \in Job
    BY <1>0, <1>10 DEF Run, Copying
  <2>2. CASE job' = [job EXCEPT ![t].at = "each", ![t].todo = Bundled]
    <3> DEFINE q == [job[t] EXCEPT !.at = "each"]
               r == [q EXCEPT !.todo = Bundled]
    <3>0. q \in Job /\ q.at = "each"
      BY <2>1 DEF Job, Stages
    <3>1. r \in Job /\ r.at = "each"
      <4> HIDE DEF q
      <4> QED  BY <3>0 DEF Job, Stages
    <3>2. job' = [job EXCEPT ![t] = r]
      BY <1>0, <2>2
    <3> HIDE DEF r
    <3> QED
      BY <2>1, <3>1, <3>2, AsideKeeps
  <2>3. CASE Finished(t)
    BY <1>0, <2>1, <2>3, AsideKeeps DEF Finished
  <2> QED
    BY <1>10, <2>2, <2>3 DEF Run
<1>11. ASSUME NEW t \in Jobs, InstallBundled(t) PROVE ToolsInv'
  <2>1. /\ job[t].at \in {"each", "failed"} /\ UNCHANGED <<shared, halved>> /\ ~Copying(t)
        /\ job[t] \in Job
    BY <1>0, <1>11 DEF InstallBundled, Copying
  <2>2. PICK p \in job[t].todo, ok \in BOOLEAN :
          job' = [job EXCEPT ![t].todo = @ \ {p},
                             ![t].at = IF ok /\ tools = Files THEN @ ELSE "failed"]
    BY <1>11 DEF InstallBundled
  <2> DEFINE q  == [job[t] EXCEPT !.todo = @ \ {p}]
             at_ == IF ok /\ tools = Files THEN job[t].at ELSE "failed"
             r  == [q EXCEPT !.at = at_]
  <2>3. r \in Job /\ r.at \in {"each", "failed"}
    <3>1. q \in Job
      BY <2>1 DEF Job, Stages
    <3>2. at_ \in {"each", "failed"}
      BY <2>1
    <3> HIDE DEF q, at_
    <3> QED
      BY <3>1, <3>2 DEF Job, Stages
  <2>4. job' = [job EXCEPT ![t] = r]
    BY <1>0, <2>2
  <2> HIDE DEF r
  <2> QED
    BY <2>1, <2>3, <2>4, AsideKeeps
<1>12. ASSUME NEW t \in Jobs, EndPreinstall(t) PROVE ToolsInv'
  BY <1>0, <1>12, AsideKeeps DEF EndPreinstall, Finished, Copying
<1>13. CASE EndApp
  <2>1. /\ job' = [t \in Jobs |-> NoJob] /\ tools' = tools /\ recorded' = recorded
        /\ halved' = (halved \/ \E t \in Jobs : BreaksOff(t))
    BY <1>13 DEF EndApp
  <2>2. job' \in [Jobs -> Job] /\ \A t \in Jobs : job'[t].at = "idle"
    BY <1>0, <2>1
  <2> QED
    BY <2>1, <2>2 DEF ToolsInv, Copying
<1> QED
  BY <1>1, <1>3, <1>4, <1>5, <1>6, <1>7, <1>8, <1>9, <1>10, <1>11, <1>12, <1>13 DEF ToolsNext

\* Whatever jobs the application runs, fails or breaks off, tools on record are
\* whole while nobody copies, but for a reinstallation on request that broke off.
THEOREM RecordedToolsAreWhole == ToolsSpec => []InstalledIsWhole
<1>1. ToolsInit => ToolsInv
  <2> SUFFICES ASSUME ToolsInit PROVE ToolsInv
    OBVIOUS
  <2>1. NoJob \in Job /\ NoJob.at = "idle"
    BY DEF NoJob, Job, Stages
  <2>2. job \in [Jobs -> Job] /\ \A t \in Jobs : job[t].at = "idle"
    BY <2>1 DEF ToolsInit
  <2> QED
    BY <2>2 DEF ToolsInit, ToolsInv, Copying
<1>2. ToolsInv => InstalledIsWhole
  BY MainJobAssumption DEF ToolsInv, InstalledIsWhole, Copying, BreaksOff
<1> QED
  BY <1>1, <1>2, ToolsStep, PTL DEF ToolsSpec

-----------------------------------------------------------------------------
(* Skills that are synced.  Of the entries of a run, those it has not come  *)
(* to are still to do, one is at some stage, and the others are finished.   *)

Entries == TargetDirs \X Skills
Wanted  == TargetDirs \X sync.skills
Kinds_  == {"missing", "link", "half", "whole", "mixed"}
SkillTypeOK ==
  /\ source \in [Skills -> Nat]
  /\ at \in [Entries -> [is : Kinds_, version : Nat, named : BOOLEAN]]
  /\ sync \in [on : BOOLEAN, link : BOOLEAN, skills : SUBSET Skills, todo : SUBSET Entries,
               at : {"next", "remove", "put", "copy", "name"}, entry : Entries \cup {<<>>},
               result : {"none", "ok", "error"}]

SyncedAt(e) ==
  IF sync.link THEN at[e] = Link ELSE at[e] = Copy("whole", source[e[2]], TRUE)
SyncInv ==
  /\ SkillTypeOK
  /\ \A e \in Entries : at[e].is = "missing" => at[e] = Missing
  /\ sync.on =>
       /\ sync.result = "none"
       /\ \A s \in sync.skills : source[s] > 0
       /\ sync.todo \subseteq Wanted
       /\ sync.at # "next" => sync.entry \in Wanted \ sync.todo
       /\ sync.at = "put" => at[sync.entry] = Missing
       /\ sync.at = "copy" =>
            ~sync.link /\ at[sync.entry] = Copy("half", source[sync.entry[2]], FALSE)
       /\ sync.at = "name" =>
            ~sync.link /\ at[sync.entry] = Copy("whole", source[sync.entry[2]], FALSE)
       /\ \A e \in Wanted \ sync.todo : (sync.at = "next" \/ e # sync.entry) => SyncedAt(e)
  /\ ~sync.on /\ sync.result = "ok" => \A e \in Wanted : SyncedAt(e)

\* Entries of a run are entries of the skills that exist.
LEMMA WantedAreEntries ==
  ASSUME SkillTypeOK
  PROVE  /\ Wanted \subseteq Entries
         /\ \A e \in Wanted : e[2] \in sync.skills /\ e[2] \in Skills
BY DEF SkillTypeOK, Wanted, Entries

\* A run begins with everything to do, or is over.
LEMMA SyncBegins == ASSUME SyncInv, Start \/ (\E s \in Skills : Change(s)) PROVE SyncInv'
<1>0. /\ sync.on = FALSE /\ at' = at /\ SkillTypeOK
      /\ source \in [Skills -> Nat]
  BY DEF SyncInv, SkillTypeOK, Start, Change
<1>1. CASE Start
  <2> DEFINE found == {s \in Skills : source[s] > 0}
  <2>1. PICK link \in BOOLEAN :
          sync' = [NoSync EXCEPT !.on = TRUE, !.link = link, !.skills = found,
                                 !.todo = TargetDirs \X found]
    BY <1>1 DEF Start
  <2>2. /\ sync' = [on |-> TRUE, link |-> link, skills |-> found,
                    todo |-> TargetDirs \X found, at |-> "next", entry |-> <<>>,
                    result |-> "none"]
        /\ source' = source
    BY <1>1, <2>1 DEF Start, NoSync
  <2>3. found \subseteq Skills /\ TargetDirs \X found \subseteq Entries
    BY DEF Entries
  <2>4. SkillTypeOK'
    BY <1>0, <2>2, <2>3 DEF SkillTypeOK
  <2>5. Wanted' = sync'.todo
    BY <2>2 DEF Wanted
  <2> QED
    BY <1>0, <2>2, <2>4, <2>5 DEF SyncInv
<1>2. CASE \E s \in Skills : Change(s)
  <2>1. PICK s \in Skills : Change(s)
    BY <1>2
  <2>2. sync' = NoSync /\ \E v \in {0, source[s] + 1} : source' = [source EXCEPT ![s] = v]
    BY <2>1 DEF Change
  <2>3. source' \in [Skills -> Nat]
    BY <1>0, <2>2
  <2>4. SkillTypeOK'
    BY <1>0, <2>2, <2>3 DEF SkillTypeOK, NoSync
  <2> QED
    BY <1>0, <2>2, <2>4 DEF SyncInv, NoSync
<1> QED
  BY <1>1, <1>2

\* What a run that is on changes at its entry leaves the others as they were.
LEMMA OthersStay ==
  ASSUME SkillTypeOK, NEW e \in Entries,
         NEW r \in [is : Kinds_, version : Nat, named : BOOLEAN],
         r.is = "missing" => r = Missing,
         \A f \in Entries : at[f].is = "missing" => at[f] = Missing,
         at' = [at EXCEPT ![e] = r], source' = source, sync'.link = sync.link
  PROVE  /\ at' \in [Entries -> [is : Kinds_, version : Nat, named : BOOLEAN]]
         /\ at'[e] = r
         /\ \A f \in Entries : at'[f].is = "missing" => at'[f] = Missing
         /\ \A f \in Entries \ {e} : SyncedAt(f) => SyncedAt(f)'
<1>1. /\ at' \in [Entries -> [is : Kinds_, version : Nat, named : BOOLEAN]] /\ at'[e] = r
      /\ \A f \in Entries \ {e} : at'[f] = at[f]
  BY DEF SkillTypeOK
<1> QED
  BY <1>1 DEF SyncedAt

\* The values an entry may be given are entries.
LEMMA EntryValues ==
  /\ Missing \in [is : Kinds_, version : Nat, named : BOOLEAN] /\ Missing.is = "missing"
  /\ Link \in [is : Kinds_, version : Nat, named : BOOLEAN] /\ Link.is = "link"
  /\ \A is \in Kinds_, v \in Nat, named \in BOOLEAN :
       /\ Copy(is, v, named) \in [is : Kinds_, version : Nat, named : BOOLEAN]
       /\ Copy(is, v, named).is = is
BY DEF Missing, Link, Copy, Kinds_

\* The run goes to another stage.
LEMMA StageGoes ==
  ASSUME SkillTypeOK, NEW to \in {"next", "remove", "put", "copy", "name"}, Goes(to)
  PROVE  /\ sync' \in [on : BOOLEAN, link : BOOLEAN, skills : SUBSET Skills,
                       todo : SUBSET Entries,
                       at : {"next", "remove", "put", "copy", "name"},
                       entry : Entries \cup {<<>>}, result : {"none", "ok", "error"}]
         /\ sync'.at = to /\ sync'.on = sync.on /\ sync'.link = sync.link
         /\ sync'.skills = sync.skills /\ sync'.todo = sync.todo
         /\ sync'.entry = sync.entry /\ sync'.result = sync.result
         /\ Wanted' = Wanted
BY DEF SkillTypeOK, Goes, Wanted

\* A run that stops or fails promises nothing.
LEMMA RunBreaks == ASSUME SyncInv, sync.on, Stop \/ (Fail /\ UNCHANGED <<source, at>>) PROVE SyncInv'
<1>1. PICK result \in {"none", "error"} :
        sync' = [sync EXCEPT !.on = FALSE, !.result = result]
  BY DEF Stop, Fail
<1>2. /\ sync' \in [on : BOOLEAN, link : BOOLEAN, skills : SUBSET Skills,
                    todo : SUBSET Entries,
                    at : {"next", "remove", "put", "copy", "name"},
                    entry : Entries \cup {<<>>}, result : {"none", "ok", "error"}]
      /\ sync'.on = FALSE /\ sync'.result # "ok"
  BY <1>1 DEF SyncInv, SkillTypeOK
<1>3. UNCHANGED <<source, at>>
  BY DEF Stop
<1> QED
  BY <1>2, <1>3 DEF SyncInv, SkillTypeOK

\* The run takes up an entry that is still to do.
LEMMA TakeKeeps == ASSUME SyncInv, NEW e \in Entries, Take(e) PROVE SyncInv'
<1>1. /\ sync.on /\ sync.at = "next" /\ e \in sync.todo
      /\ sync' = [sync EXCEPT !.at = "remove", !.entry = e, !.todo = @ \ {e}]
      /\ UNCHANGED <<source, at>>
  BY DEF Take
<1>2. /\ sync' \in [on : BOOLEAN, link : BOOLEAN, skills : SUBSET Skills,
                    todo : SUBSET Entries,
                    at : {"next", "remove", "put", "copy", "name"},
                    entry : Entries \cup {<<>>}, result : {"none", "ok", "error"}]
      /\ sync'.at = "remove" /\ sync'.on = sync.on /\ sync'.link = sync.link
      /\ sync'.skills = sync.skills /\ sync'.todo = sync.todo \ {e}
      /\ sync'.entry = e /\ sync'.result = sync.result /\ Wanted' = Wanted
  BY <1>1 DEF SyncInv, SkillTypeOK, Wanted
<1>3. e \in Wanted
  BY <1>1 DEF SyncInv
<1>4. \A f \in Wanted' \ sync'.todo : f # e => SyncedAt(f)'
  BY <1>1, <1>2 DEF SyncInv, SyncedAt
<1> QED
  BY <1>1, <1>2, <1>3, <1>4 DEF SyncInv, SkillTypeOK

\* Removing the entry leaves it missing: a link to a skill that is there exists.
LEMMA RemoveKeeps == ASSUME SyncInv, Remove PROVE SyncInv'
<1>0. PICK e \in Entries : e = sync.entry /\ e \in Wanted \ sync.todo
  BY WantedAreEntries DEF SyncInv, Remove
<1>1. /\ sync.on /\ sync.at = "remove" /\ Goes("put") /\ source' = source
      /\ at' = IF Exists(e) THEN [at EXCEPT ![e] = Missing] ELSE at
  BY <1>0 DEF Remove
<1>2. e \in Wanted \ sync.todo /\ e \in Entries /\ source[e[2]] > 0 /\ SkillTypeOK
  BY <1>0, <1>1, WantedAreEntries DEF SyncInv
<1>3. /\ sync' \in [on : BOOLEAN, link : BOOLEAN, skills : SUBSET Skills,
                    todo : SUBSET Entries,
                    at : {"next", "remove", "put", "copy", "name"},
                    entry : Entries \cup {<<>>}, result : {"none", "ok", "error"}]
      /\ sync'.at = "put" /\ sync'.on = sync.on /\ sync'.link = sync.link
      /\ sync'.skills = sync.skills /\ sync'.todo = sync.todo
      /\ sync'.entry = e /\ sync'.result = sync.result /\ Wanted' = Wanted
  BY <1>0, <1>1, <1>2, StageGoes
<1>4. at' = [at EXCEPT ![e] = Missing]
  <2>1. CASE Exists(e)
    BY <1>1, <2>1
  <2>2. CASE ~Exists(e)
    <3>1. at[e].is = "missing"
      BY <1>2, <2>2 DEF Exists
    <3>2. at[e] = Missing
      BY <1>0, <1>2, <3>1 DEF SyncInv
    <3> QED
      BY <1>1, <1>2, <2>2, <3>2 DEF SkillTypeOK
  <2> QED
    BY <2>1, <2>2
<1>5. /\ at' \in [Entries -> [is : Kinds_, version : Nat, named : BOOLEAN]]
      /\ at'[e] = Missing
      /\ \A f \in Entries : at'[f].is = "missing" => at'[f] = Missing
      /\ \A f \in Entries \ {e} : SyncedAt(f) => SyncedAt(f)'
  BY ZenonT(30), <1>0, <1>1, <1>2, <1>3, <1>4, EntryValues, OthersStay DEF SyncInv
<1>6. \A f \in Wanted' \ sync'.todo : f # e => SyncedAt(f)'
  BY <1>0, <1>1, <1>2, <1>3, <1>5, WantedAreEntries DEF SyncInv
<1> QED
  BY <1>0, <1>1, <1>2, <1>3, <1>5, <1>6 DEF SyncInv, SkillTypeOK

\* Putting a link or the directory of a copy where nothing is.
LEMMA PutKeeps == ASSUME SyncInv, Put PROVE SyncInv'
<1>0. PICK e \in Entries : e = sync.entry /\ e \in Wanted \ sync.todo
  BY WantedAreEntries DEF SyncInv, Put
<1>1. sync.on /\ sync.at = "put" /\ source' = source
  BY DEF Put
<1>2. /\ e \in Wanted \ sync.todo /\ e \in Entries /\ SkillTypeOK /\ at[e] = Missing
      /\ e[2] \in Skills /\ source[e[2]] \in Nat
  BY <1>0, <1>1, WantedAreEntries DEF SyncInv, SkillTypeOK
<1>3. CASE sync.link
  <2>1. at' = [at EXCEPT ![e] = Link] /\ Goes("next")
    BY <1>0, <1>2, <1>3 DEF Put
  <2>2. /\ sync' \in [on : BOOLEAN, link : BOOLEAN, skills : SUBSET Skills,
                      todo : SUBSET Entries,
                      at : {"next", "remove", "put", "copy", "name"},
                      entry : Entries \cup {<<>>}, result : {"none", "ok", "error"}]
        /\ sync'.at = "next" /\ sync'.on = sync.on /\ sync'.link = sync.link
        /\ sync'.skills = sync.skills /\ sync'.todo = sync.todo
        /\ sync'.entry = e /\ sync'.result = sync.result /\ Wanted' = Wanted
    BY <1>0, <1>2, <2>1, StageGoes
  <2>3. /\ at' \in [Entries -> [is : Kinds_, version : Nat, named : BOOLEAN]]
        /\ at'[e] = Link
        /\ \A f \in Entries : at'[f].is = "missing" => at'[f] = Missing
        /\ \A f \in Entries \ {e} : SyncedAt(f) => SyncedAt(f)'
    BY <1>0, <1>1, <1>2, <2>1, <2>2, EntryValues, OthersStay DEF SyncInv
  <2>4. \A f \in Wanted' \ sync'.todo : SyncedAt(f)'
    <3>1. SyncedAt(e)'
      BY <1>3, <2>2, <2>3 DEF SyncedAt
    <3> QED
      BY <1>0, <1>1, <1>2, <2>2, <2>3, <3>1, WantedAreEntries DEF SyncInv
  <2> QED
    BY <1>0, <1>1, <1>2, <2>2, <2>3, <2>4 DEF SyncInv, SkillTypeOK
<1>4. CASE ~sync.link
  <2> DEFINE half == Copy("half", source[e[2]], FALSE)
  <2>1. at' = [at EXCEPT ![e] = half] /\ Goes("copy")
    <3>1. at[e].is # "link"
      BY <1>2, EntryValues
    <3>2. /\ Goes("copy")
          /\ at' = [at EXCEPT ![e] = Copy(IF @ = Missing THEN "half" ELSE "mixed",
                                          source[e[2]], FALSE)]
      BY <1>0, <1>4, <3>1 DEF Put
    <3> QED
      BY <1>2, <3>2
  <2>2. /\ sync' \in [on : BOOLEAN, link : BOOLEAN, skills : SUBSET Skills,
                      todo : SUBSET Entries,
                      at : {"next", "remove", "put", "copy", "name"},
                      entry : Entries \cup {<<>>}, result : {"none", "ok", "error"}]
        /\ sync'.at = "copy" /\ sync'.on = sync.on /\ sync'.link = sync.link
        /\ sync'.skills = sync.skills /\ sync'.todo = sync.todo
        /\ sync'.entry = e /\ sync'.result = sync.result /\ Wanted' = Wanted
    BY <1>0, <1>2, <2>1, StageGoes
  <2>3. /\ half \in [is : Kinds_, version : Nat, named : BOOLEAN]
        /\ half.is = "half"
    BY <1>2, EntryValues DEF Kinds_
  <2> HIDE DEF half
  <2>4. /\ at' \in [Entries -> [is : Kinds_, version : Nat, named : BOOLEAN]]
        /\ at'[e] = half
        /\ \A f \in Entries : at'[f].is = "missing" => at'[f] = Missing
        /\ \A f \in Entries \ {e} : SyncedAt(f) => SyncedAt(f)'
    BY <1>0, <1>1, <1>2, <2>1, <2>2, <2>3, OthersStay DEF SyncInv
  <2>5. \A f \in Wanted' \ sync'.todo : f # e => SyncedAt(f)'
    BY <1>0, <1>1, <1>2, <2>2, <2>4, WantedAreEntries DEF SyncInv
  <2>6. at'[sync'.entry] = Copy("half", source'[sync'.entry[2]], FALSE)
    BY <1>1, <2>2, <2>4 DEF half
  <2> QED
    BY <1>0, <1>1, <1>2, <1>4, <2>2, <2>4, <2>5, <2>6 DEF SyncInv, SkillTypeOK
<1> QED
  BY <1>3, <1>4

\* Entries with the same fields are the same.
LEMMA SameEntry ==
  ASSUME NEW r \in [is : Kinds_, version : Nat, named : BOOLEAN],
         NEW q \in [is : Kinds_, version : Nat, named : BOOLEAN],
         r.is = q.is, r.version = q.version, r.named = q.named
  PROVE  r = q
OBVIOUS

\* The stages of a copy.
LEMMA CopyStages ==
  ASSUME NEW v \in Nat, NEW r
  PROVE  /\ r = Copy("half", v, FALSE) =>
              r.is = "half" /\ [r EXCEPT !.is = "whole"] = Copy("whole", v, FALSE)
         /\ r = Copy("whole", v, FALSE) => [r EXCEPT !.named = TRUE] = Copy("whole", v, TRUE)
<1>0. \A is \in Kinds_, named \in BOOLEAN :
        /\ Copy(is, v, named) \in [is : Kinds_, version : Nat, named : BOOLEAN]
        /\ Copy(is, v, named).is = is /\ Copy(is, v, named).version = v
        /\ Copy(is, v, named).named = named
  BY DEF Copy, Kinds_
<1>1. ASSUME r = Copy("half", v, FALSE)
      PROVE  r.is = "half" /\ [r EXCEPT !.is = "whole"] = Copy("whole", v, FALSE)
  <2> DEFINE q == [r EXCEPT !.is = "whole"]
  <2>1. /\ r \in [is : Kinds_, version : Nat, named : BOOLEAN]
        /\ r.is = "half" /\ r.version = v /\ r.named = FALSE
    BY <1>0, <1>1 DEF Kinds_
  <2>2. /\ q \in [is : Kinds_, version : Nat, named : BOOLEAN]
        /\ q.is = "whole" /\ q.version = v /\ q.named = FALSE
    BY <2>1 DEF Kinds_
  <2> HIDE DEF q
  <2>3. PICK w \in [is : Kinds_, version : Nat, named : BOOLEAN] :
          /\ w = Copy("whole", v, FALSE)
          /\ w.is = "whole" /\ w.version = v /\ w.named = FALSE
    <3>1. "whole" \in Kinds_
      BY DEF Kinds_
    <3> QED
      BY <1>0, <3>1
  <2>4. q = w
    BY <2>2, <2>3, SameEntry
  <2> QED
    BY <2>1, <2>3, <2>4 DEF q
<1>2. ASSUME r = Copy("whole", v, FALSE)
      PROVE  [r EXCEPT !.named = TRUE] = Copy("whole", v, TRUE)
  <2> DEFINE q == [r EXCEPT !.named = TRUE]
  <2>1. /\ r \in [is : Kinds_, version : Nat, named : BOOLEAN]
        /\ r.is = "whole" /\ r.version = v
    BY <1>0, <1>2 DEF Kinds_
  <2>2. /\ q \in [is : Kinds_, version : Nat, named : BOOLEAN]
        /\ q.is = "whole" /\ q.version = v /\ q.named = TRUE
    BY <2>1 DEF Kinds_
  <2> HIDE DEF q
  <2>3. PICK w \in [is : Kinds_, version : Nat, named : BOOLEAN] :
          /\ w = Copy("whole", v, TRUE)
          /\ w.is = "whole" /\ w.version = v /\ w.named = TRUE
    <3>1. "whole" \in Kinds_
      BY DEF Kinds_
    <3> QED
      BY <1>0, <3>1
  <2>4. q = w
    BY <2>2, <2>3, SameEntry
  <2> QED
    BY <2>3, <2>4 DEF q
<1> QED
  BY <1>1, <1>2

\* The rest of a copy, and then its name.
LEMMA CopyKeeps == ASSUME SyncInv, CopyRest \/ NameSkill PROVE SyncInv'
<1>0. PICK e \in Entries : e = sync.entry /\ e \in Wanted \ sync.todo
  BY WantedAreEntries DEF SyncInv, CopyRest, NameSkill
<1> DEFINE whole(named) == Copy("whole", source[e[2]], named)
<1>1. sync.on /\ sync.at \in {"copy", "name"} /\ source' = source /\ ~sync.link
  BY DEF CopyRest, NameSkill, SyncInv
<1>2. /\ e \in Wanted \ sync.todo /\ e \in Entries /\ SkillTypeOK
      /\ e[2] \in Skills /\ source[e[2]] \in Nat
  BY <1>0, <1>1, WantedAreEntries DEF SyncInv, SkillTypeOK
<1>3. \A named \in BOOLEAN :
        /\ whole(named) \in [is : Kinds_, version : Nat, named : BOOLEAN]
        /\ whole(named).is = "whole"
  BY <1>2, EntryValues DEF Kinds_
<1>4. PICK named \in BOOLEAN, to \in {"name", "next"} :
        /\ at' = [at EXCEPT ![e] = whole(named)] /\ Goes(to)
        /\ named <=> to = "next"
  <2>1. CASE CopyRest
    <3>1. /\ sync.at = "copy" /\ Goes("name")
          /\ at' = [at EXCEPT ![e].is = IF @ = "half" THEN "whole" ELSE @]
      BY <1>0, <2>1 DEF CopyRest
    <3>2. at[e] = Copy("half", source[e[2]], FALSE)
      BY <1>0, <1>1, <3>1 DEF SyncInv
    <3>3. at' = [at EXCEPT ![e] = [at[e] EXCEPT !.is = IF at[e].is = "half" THEN "whole" ELSE at[e].is]]
      BY <1>2, <3>1 DEF SkillTypeOK
    <3>4. [at[e] EXCEPT !.is = IF at[e].is = "half" THEN "whole" ELSE at[e].is] = whole(FALSE)
      BY <1>2, <3>2, CopyStages
    <3> QED
      BY <3>1, <3>3, <3>4
  <2>2. CASE NameSkill
    <3>1. /\ sync.at = "name" /\ Goes("next")
          /\ at' = [at EXCEPT ![e].named = TRUE]
      BY <1>0, <2>2 DEF NameSkill
    <3>2. at[e] = Copy("whole", source[e[2]], FALSE)
      BY <1>0, <1>1, <3>1 DEF SyncInv
    <3>3. at' = [at EXCEPT ![e] = [at[e] EXCEPT !.named = TRUE]]
      BY <1>2, <3>1 DEF SkillTypeOK
    <3>4. [at[e] EXCEPT !.named = TRUE] = whole(TRUE)
      BY <1>2, <3>2, CopyStages
    <3> QED
      BY <3>1, <3>3, <3>4
  <2> QED
    BY <2>1, <2>2
<1>5. /\ sync' \in [on : BOOLEAN, link : BOOLEAN, skills : SUBSET Skills,
                    todo : SUBSET Entries,
                    at : {"next", "remove", "put", "copy", "name"},
                    entry : Entries \cup {<<>>}, result : {"none", "ok", "error"}]
      /\ sync'.at = to /\ sync'.on = sync.on /\ sync'.link = sync.link
      /\ sync'.skills = sync.skills /\ sync'.todo = sync.todo
      /\ sync'.entry = e /\ sync'.result = sync.result /\ Wanted' = Wanted
  BY <1>0, <1>2, <1>4, StageGoes
<1> HIDE DEF whole
<1>6. /\ at' \in [Entries -> [is : Kinds_, version : Nat, named : BOOLEAN]]
      /\ at'[e] = whole(named)
      /\ \A f \in Entries : at'[f].is = "missing" => at'[f] = Missing
      /\ \A f \in Entries \ {e} : SyncedAt(f) => SyncedAt(f)'
  BY <1>0, <1>1, <1>2, <1>3, <1>4, <1>5, OthersStay DEF SyncInv
<1>7. \A f \in Wanted' \ sync'.todo : f # e => SyncedAt(f)'
  BY <1>0, <1>1, <1>2, <1>5, <1>6, WantedAreEntries DEF SyncInv
<1>8. at'[sync'.entry] = Copy("whole", source'[sync'.entry[2]], named)
  BY <1>1, <1>5, <1>6 DEF whole
<1>9. to = "next" => SyncedAt(e)'
  BY <1>0, <1>1, <1>4, <1>5, <1>8 DEF SyncedAt
<1> QED
  BY <1>0, <1>1, <1>2, <1>4, <1>5, <1>6, <1>7, <1>8, <1>9 DEF SyncInv, SkillTypeOK

\* A run ends when nothing is left to do.
LEMMA DoneKeeps == ASSUME SyncInv, Done PROVE SyncInv'
<1>1. /\ sync.on /\ sync.at = "next" /\ sync.todo = {} /\ UNCHANGED <<source, at>>
      /\ sync' = [sync EXCEPT !.on = FALSE, !.result = "ok"]
  BY DEF Done
<1>2. /\ sync' \in [on : BOOLEAN, link : BOOLEAN, skills : SUBSET Skills,
                    todo : SUBSET Entries,
                    at : {"next", "remove", "put", "copy", "name"},
                    entry : Entries \cup {<<>>}, result : {"none", "ok", "error"}]
      /\ sync'.on = FALSE /\ sync'.link = sync.link /\ Wanted' = Wanted
  BY <1>1 DEF SyncInv, SkillTypeOK, Wanted
<1>3. \A f \in Wanted' : SyncedAt(f)'
  BY <1>1, <1>2 DEF SyncInv, SyncedAt
<1> QED
  BY <1>1, <1>2, <1>3 DEF SyncInv, SkillTypeOK

\* A step of the sync keeps the invariant.
LEMMA SkillsStep == ASSUME SyncInv, [SkillsNext]_skillVars PROVE SyncInv'
<1>1. CASE UNCHANGED skillVars
  BY <1>1 DEF skillVars, SyncInv, SkillTypeOK, SyncedAt, Wanted
<1>2. CASE Put
  BY <1>2, PutKeeps
<1>3. ASSUME NEW e \in TargetDirs \X Skills, Take(e) PROVE SyncInv'
  BY <1>3, TakeKeeps DEF Entries
<1>4. CASE Stop
  BY <1>4, RunBreaks DEF Stop
<1> QED
  BY <1>1, <1>2, <1>3, <1>4, SyncBegins, RemoveKeeps, CopyKeeps, DoneKeeps DEF SkillsNext

\* For all skills, targets and versions, and wherever an earlier run was killed: after
\* a run that ends well every skill it found is whole at every target.
THEOREM SyncEndsWhole == SkillsSpec => []SyncedIsWhole
<1>1. SkillsInit => SyncInv
  <2> SUFFICES ASSUME SkillsInit PROVE SyncInv
    OBVIOUS
  <2>1. SkillTypeOK /\ sync.on = FALSE /\ sync.result = "none"
    BY EntryValues DEF SkillsInit, SkillTypeOK, NoSync, Entries
  <2> QED
    BY <2>1 DEF SyncInv, SkillsInit, Entries
<1>2. SyncInv => SyncedIsWhole
  <2> SUFFICES ASSUME SyncInv, ~sync.on, sync.result = "ok",
                      NEW d \in TargetDirs, NEW s \in sync.skills
               PROVE  \/ sync.link /\ at[<<d, s>>] = Link
                      \/ ~sync.link /\ at[<<d, s>>] = Copy("whole", source[s], TRUE)
    BY DEF SyncedIsWhole
  <2>1. <<d, s>> \in Wanted /\ <<d, s>>[2] = s
    BY DEF Wanted
  <2> QED
    BY <2>1 DEF SyncInv, SyncedAt
<1> QED
  BY <1>1, <1>2, SkillsStep, PTL DEF SkillsSpec

-----------------------------------------------------------------------------
(* Threads of sessions.  Those the child made and the daemon has not heard  *)
(* of yet are in answers of the pipe, no two alike, and of no session.      *)

Made(i) == pipe[i].kind = "response" /\ pipe[i].n # 0
ThreadsInv ==
  /\ threads \in [Sessions -> Nat]
  /\ made \in [threads : Nat, requests : Nat, turns : Nat]
  /\ \E S : pipe \in Seq(S)
  /\ \A s \in Sessions : threads[s] <= made.threads
  /\ \A i \in DOMAIN pipe : pipe[i].kind = "response" =>
       pipe[i].n \in 0..made.threads
  /\ \A i \in DOMAIN pipe, s \in Sessions : Made(i) => pipe[i].n # threads[s]
  /\ \A i, j \in DOMAIN pipe : i # j /\ Made(i) /\ Made(j) => pipe[i].n # pipe[j].n
  /\ ThreadsAreApart

\* A sequence of members of a set is one of members of a larger set.
LEMMA Widened ==
  ASSUME NEW S, NEW T, S \subseteq T, NEW q \in Seq(S) PROVE q \in Seq(T)
OBVIOUS

\* The child writes something else than a new thread.
LEMMA WritesKeep ==
  ASSUME ThreadsInv, NEW m, pipe' = Append(pipe, m), m.kind = "response" => m.n = 0,
         UNCHANGED <<threads, made>>
  PROVE  ThreadsInv'
<1>1. PICK S : pipe \in Seq(S)
  BY DEF ThreadsInv
<1>2. pipe \in Seq(S \cup {m})
  BY <1>1, Widened
<1>3. /\ pipe' \in Seq(S \cup {m}) /\ DOMAIN pipe' = 1..(Len(pipe) + 1)
      /\ Len(pipe) \in Nat /\ DOMAIN pipe = 1..Len(pipe) /\ pipe'[Len(pipe) + 1] = m
      /\ \A i \in 1..Len(pipe) : pipe'[i] = pipe[i]
  BY <1>2
<1>4. \A i \in DOMAIN pipe' : Made(i)' => i \in DOMAIN pipe /\ Made(i)
  BY <1>3 DEF Made
<1>5. \A i \in DOMAIN pipe' : pipe'[i].kind = "response" => pipe'[i].n \in 0..made'.threads
  BY <1>3 DEF ThreadsInv
<1> QED
  BY <1>3, <1>4, <1>5 DEF ThreadsInv, ThreadsAreApart

\* The child makes a thread.
LEMMA MakesKeep ==
  ASSUME ThreadsInv, NEW id, UNCHANGED threads, made' = [made EXCEPT !.threads = @ + 1],
         pipe' = Append(pipe, Message("response", id, 0, made.threads + 1))
  PROVE  ThreadsInv'
<1> DEFINE m == Message("response", id, 0, made.threads + 1)
<1>0. /\ made.threads \in Nat /\ made'.threads = made.threads + 1
      /\ made' \in [threads : Nat, requests : Nat, turns : Nat]
      /\ m.kind = "response" /\ m.n = made.threads + 1
  BY DEF ThreadsInv, Message
<1>1. PICK S : pipe \in Seq(S)
  BY DEF ThreadsInv
<1> HIDE DEF m
<1>2. pipe \in Seq(S \cup {m}) /\ pipe' = Append(pipe, m)
  BY <1>1, Widened DEF m
<1>3. /\ pipe' \in Seq(S \cup {m}) /\ DOMAIN pipe' = 1..(Len(pipe) + 1)
      /\ Len(pipe) \in Nat /\ DOMAIN pipe = 1..Len(pipe) /\ pipe'[Len(pipe) + 1] = m
      /\ \A i \in 1..Len(pipe) : pipe'[i] = pipe[i]
  BY <1>2
<1>4. \A i \in DOMAIN pipe' :
        Made(i)' => \/ i \in DOMAIN pipe /\ Made(i) /\ pipe'[i].n = pipe[i].n
                    \/ i = Len(pipe) + 1 /\ pipe'[i].n = made.threads + 1
  BY <1>0, <1>3 DEF Made
<1>5. \A i \in DOMAIN pipe' : pipe'[i].kind = "response" => pipe'[i].n \in 0..made'.threads
  BY <1>0, <1>3 DEF ThreadsInv
<1>6. \A i \in DOMAIN pipe : Made(i) => pipe[i].n \in 0..made.threads
  BY DEF ThreadsInv, Made
<1>7. \A s \in Sessions : threads[s] \in Nat /\ threads[s] <= made.threads
  BY DEF ThreadsInv
<1>8. \A i \in DOMAIN pipe', s \in Sessions : Made(i)' => pipe'[i].n # threads'[s]
  BY <1>0, <1>4, <1>7 DEF ThreadsInv
<1>9. \A i, j \in DOMAIN pipe' : i # j /\ Made(i)' /\ Made(j)' => pipe'[i].n # pipe'[j].n
  BY SMTT(30), <1>0, <1>4, <1>6 DEF ThreadsInv
<1> QED
  BY <1>0, <1>3, <1>5, <1>7, <1>8, <1>9 DEF ThreadsInv, ThreadsAreApart

\* The daemon reads on; a session may get the thread of the message it reads.
LEMMA ReadsKeep ==
  ASSUME ThreadsInv, pipe # <<>>, pipe' = Tail(pipe),
         made' \in [threads : Nat, requests : Nat, turns : Nat], made'.threads = made.threads,
         \/ threads' = threads
         \/ /\ Head(pipe).kind = "response"
            /\ \E s : threads' = [threads EXCEPT ![s] = Head(pipe).n]
  PROVE  ThreadsInv'
<1>1. PICK S : pipe \in Seq(S)
  BY DEF ThreadsInv
<1>2. /\ pipe' \in Seq(S) /\ Len(pipe) \in Nat \ {0} /\ DOMAIN pipe = 1..Len(pipe)
      /\ DOMAIN pipe' = 1..(Len(pipe) - 1) /\ Head(pipe) = pipe[1]
      /\ \A i \in DOMAIN pipe' : i + 1 \in DOMAIN pipe /\ i + 1 # 1 /\ pipe'[i] = pipe[i + 1]
  BY <1>1
<1>3. \A i \in DOMAIN pipe' : Made(i)' => Made(i + 1)
  BY <1>2 DEF Made
<1>4. \A i \in DOMAIN pipe' : pipe'[i].kind = "response" => pipe'[i].n \in 0..made'.threads
  BY <1>2 DEF ThreadsInv
<1>5. \A i, j \in DOMAIN pipe' : i # j /\ Made(i)' /\ Made(j)' => pipe'[i].n # pipe'[j].n
  BY <1>2, <1>3 DEF ThreadsInv
<1>6. CASE threads' = threads
  BY <1>2, <1>3, <1>4, <1>5, <1>6 DEF ThreadsInv, ThreadsAreApart
<1>7. ASSUME NEW s, threads' = [threads EXCEPT ![s] = Head(pipe).n],
             Head(pipe).kind = "response"
      PROVE  ThreadsInv'
  <2> DEFINE n == pipe[1].n
  <2>1. 1 \in DOMAIN pipe /\ n \in 0..made.threads /\ made.threads \in Nat /\ (n # 0 => Made(1))
    BY <1>2, <1>7 DEF ThreadsInv, Made
  <2>2. /\ threads' \in [Sessions -> Nat]
        /\ \A t \in Sessions : threads'[t] = threads[t] \/ (t = s /\ threads'[t] = n)
    <3>1. n \in Nat /\ threads' = [threads EXCEPT ![s] = n] /\ threads \in [Sessions -> Nat]
      BY <1>2, <1>7, <2>1 DEF ThreadsInv
    <3> HIDE DEF n
    <3> QED
      BY <3>1
  <2>3. \A t \in Sessions \ {s} : threads'[t] = threads[t]
    BY <1>2, <1>7, <2>1 DEF ThreadsInv
  <2>4. \A t \in Sessions : n # 0 => n # threads[t]
    BY <2>1 DEF ThreadsInv
  <2>5. \A i \in DOMAIN pipe' : Made(i)' => pipe'[i].n # n
    <3> SUFFICES ASSUME NEW i \in DOMAIN pipe', Made(i)' PROVE pipe'[i].n # n
      OBVIOUS
    <3>1. pipe'[i] = pipe[i + 1] /\ Made(i + 1) /\ i + 1 # 1 /\ i + 1 \in DOMAIN pipe
      BY <1>2, <1>3
    <3>2. CASE n = 0
      BY <3>1, <3>2 DEF Made
    <3>3. CASE n # 0
      BY <2>1, <3>1, <3>3 DEF ThreadsInv
    <3> QED
      BY <3>2, <3>3
  <2>6. \A i \in DOMAIN pipe', t \in Sessions : Made(i)' => pipe'[i].n # threads[t]
    BY <1>2, <1>3 DEF ThreadsInv
  <2> HIDE DEF n
  <2>7. \A i \in DOMAIN pipe', t \in Sessions : Made(i)' => pipe'[i].n # threads'[t]
    BY <2>2, <2>5, <2>6
  <2>8. ThreadsAreApart'
    <3> SUFFICES ASSUME NEW t \in Sessions, NEW u \in Sessions, t # u, threads'[t] # 0,
                        threads'[t] = threads'[u]
                 PROVE  FALSE
      BY DEF ThreadsAreApart
    <3>1. threads[t] # 0 => threads[t] # threads[u]
      BY DEF ThreadsInv, ThreadsAreApart
    <3> QED
      BY <2>2, <2>3, <2>4, <3>1
  <2>9. \A t \in Sessions : threads'[t] <= made'.threads
    BY <2>1, <2>2 DEF ThreadsInv
  <2> QED
    BY <1>2, <1>4, <1>5, <2>2, <2>7, <2>8, <2>9 DEF ThreadsInv
<1> QED
  BY <1>6, <1>7

\* A step of the child or of the daemon keeps the invariant.
LEMMA TurnStep == ASSUME ThreadsInv, [TurnNext]_turnVars PROVE ThreadsInv'
<1>1. ASSUME UNCHANGED <<threads, made, pipe>> PROVE ThreadsInv'
  BY <1>1 DEF ThreadsInv, ThreadsAreApart, Made
<1>2. ASSUME UNCHANGED <<threads, pipe>>, made' = [made EXCEPT !.requests = @ + 1, !.turns = @ + 1]
      PROVE  ThreadsInv'
  <2> DEFINE m == [made EXCEPT !.requests = @ + 1]
  <2>0. /\ m \in [threads : Nat, requests : Nat, turns : Nat] /\ m.threads = made.threads
        /\ made' = [m EXCEPT !.turns = @ + 1]
    BY <1>2 DEF ThreadsInv
  <2> HIDE DEF m
  <2>1. made'.threads = made.threads /\ made' \in [threads : Nat, requests : Nat, turns : Nat]
    BY <2>0
  <2> QED
    BY <1>2, <2>1 DEF ThreadsInv, ThreadsAreApart, Made
<1>3. CASE \E s \in Sessions : Begin(s)
  BY <1>2, <1>3 DEF Begin, Request
<1>4. CASE TakeRequest
  <2>1. CASE UNCHANGED <<threads, made, pipe>>
    BY <1>1, <2>1
  <2>2. ASSUME made' = [made EXCEPT !.threads = @ + 1], UNCHANGED threads,
               pipe' = Append(pipe, Message("response", Head(asked).id, 0, made.threads + 1))
        PROVE  ThreadsInv'
    BY <2>2, MakesKeep
  <2>3. ASSUME UNCHANGED <<threads, made>>,
               pipe' = Append(pipe, Message("error", Head(asked).id, 0, 0))
        PROVE  ThreadsInv'
    <3>1. Message("error", Head(asked).id, 0, 0).kind # "response"
      BY DEF Message
    <3> QED
      BY <2>3, <3>1, WritesKeep
  <2> QED
    BY <1>4, <2>1, <2>2, <2>3 DEF TakeRequest
<1>5. ASSUME NEW t \in DOMAIN codex, Answered(t) \/ Write(t) \/ AskClient(t) \/ EndTurn(t)
      PROVE  ThreadsInv'
  <2>1. PICK m : /\ pipe' = Append(pipe, m) /\ UNCHANGED <<threads, made>>
                 /\ m.kind = "response" => m.n = 0
    <3>1. CASE Write(t)
      <4>1. PICK kind \in Pieces :
              Writes(t, Message(kind, 0, t, codex[t].sent[kind] + 1), [codex[t] EXCEPT !.sent[kind] = @ + 1])
        BY <3>1 DEF Write
      <4>2. Message(kind, 0, t, codex[t].sent[kind] + 1).kind # "response"
        BY DEF Message, Pieces
      <4> QED
        BY <4>1, <4>2 DEF Writes
    <3>2. CASE Answered(t) \/ AskClient(t) \/ EndTurn(t)
      BY <3>2 DEF Answered, AskClient, EndTurn, Writes, Message
    <3> QED
      BY <1>5, <3>1, <3>2
  <2> QED
    BY <2>1, WritesKeep
<1>6. CASE Die
  BY <1>1, <1>6 DEF Die
<1>7. CASE TakePending
  BY <1>1, <1>7 DEF TakePending, Stream
<1>8. CASE ReadPipe
  <2>1. pipe # <<>> /\ pipe' = Tail(pipe)
    BY <1>8 DEF ReadPipe
  <2>2. CASE UNCHANGED <<threads, made>>
    <3>1. made' \in [threads : Nat, requests : Nat, turns : Nat] /\ made'.threads = made.threads
      BY <2>2 DEF ThreadsInv
    <3> QED
      BY <2>1, <2>2, <3>1, ReadsKeep
  <2>3. ASSUME Head(pipe).kind = "response",
               threads' = [threads EXCEPT ![client.session] = Head(pipe).n],
               made' = [made EXCEPT !.requests = @ + 1]
        PROVE  ThreadsInv'
    <3>1. made' \in [threads : Nat, requests : Nat, turns : Nat] /\ made'.threads = made.threads
      BY <2>3 DEF ThreadsInv
    <3> QED
      BY <2>1, <2>3, <3>1, ReadsKeep
  <2> QED
    BY <1>8, <2>2, <2>3 DEF ReadPipe, Keep, Serve, Receive, Stream
<1>9. CASE Closed \/ UNCHANGED turnVars
  BY <1>1, <1>9 DEF Closed, turnVars
<1> QED
  BY <1>3, <1>4, <1>5, <1>6, <1>7, <1>8, <1>9 DEF TurnNext, Child

\* For any sessions, turns and texts, and whatever requests fail or are given up on,
\* no two sessions of the daemon share a thread.
THEOREM SessionsAreApart == TurnSpec => []ThreadsAreApart
<1>1. TurnInit => ThreadsInv
  <2> SUFFICES ASSUME TurnInit PROVE ThreadsInv
    OBVIOUS
  <2>1. pipe = <<>> /\ pipe \in Seq({}) /\ DOMAIN pipe = {}
    BY DEF TurnInit
  <2>2. made \in [threads : Nat, requests : Nat, turns : Nat] /\ made.threads = 1
    BY DEF TurnInit
  <2>3. /\ threads \in [Sessions -> Nat]
        /\ \A s \in Sessions : threads[s] = IF s = Main THEN 1 ELSE 0
    BY DEF TurnInit
  <2> QED
    BY <2>1, <2>2, <2>3 DEF ThreadsInv, ThreadsAreApart
<1>2. ThreadsInv => ThreadsAreApart
  BY DEF ThreadsInv
<1> QED
  BY <1>1, <1>2, TurnStep, PTL DEF TurnSpec

-----------------------------------------------------------------------------
(* The text of a turn.                                                      *)

MessageKinds == {"response", "error", "delta", "message", "completed", "failed",
                 "approval", "unsupported", "unreadable"}
Messages == [kind : MessageKinds, id : Nat, turn : Nat, n : Nat]
Turn  == [thread : Nat, state : {"running", "waiting", "ended"}, request : Nat, sent : [Pieces -> Nat]]
Asked == [id : Nat, kind : {"thread", "turn"}, thread : Nat]
Texts == Pieces \X Nat \X Nat
Reply == [returned : BOOLEAN, text : Seq(Texts)]
ReadState == [at : {"idle", "thread", "turn", "stream"}, session : Sessions, request : Nat,
          turn : Nat, text : Seq(Texts), last : Texts]
TurnTypeOK ==
  /\ pending \in Seq(Messages) /\ pipe \in Seq(Messages)
  /\ codex \in Seq(Turn) /\ answer \in Seq(Reply) /\ Len(answer) = Len(codex)
  /\ asked \in Seq(Asked) /\ client \in ReadState
  /\ made \in [threads : Nat, requests : Nat, turns : Nat]
  /\ threads \in [Sessions -> Nat] /\ alive \in BOOLEAN

\* What the daemon has not handled: what it kept and then what it has not read.
Unread == pending \o pipe
IsPiece(m, t, kind) == m.kind = kind /\ m.turn = t
IsEnd(m, t)      == m.kind \in {"completed", "failed"} /\ m.turn = t

\* The pieces of kind k of turn t among the messages u are those after c up to s,
\* in order.
Orderly(u, t, kind, c, s) ==
  /\ \A i \in 1..Len(u) : IsPiece(u[i], t, kind) => u[i].n > c /\ u[i].n <= s
  /\ \A n \in (c + 1)..s : \E i \in 1..Len(u) : IsPiece(u[i], t, kind) /\ u[i].n = n
  /\ \A i, j \in 1..Len(u) : IsPiece(u[i], t, kind) /\ IsPiece(u[j], t, kind) /\ i < j => u[i].n < u[j].n
EndIsLast(u, t, kind) ==
  \A i, j \in 1..Len(u) : IsEnd(u[i], t) /\ IsPiece(u[j], t, kind) => j < i

\* The numbers of requests: the one that is waited for is the newest.
IdsOK ==
  /\ \A i \in 1..Len(asked) : asked[i].id <= made.requests
  /\ \A t \in 1..Len(codex) : codex[t].request <= made.requests
  /\ \A i \in 1..Len(pipe) : pipe[i].id <= made.requests
  /\ client.at # "idle" => client.request = made.requests /\ client.request > 0
  /\ Waiting => client.text = <<>> /\ client.last = NoMessage

\* Notes are of turns that were begun, and only notes are kept.  Nothing is written
\* of a turn after its end, nor while it waits for an approval that is on its way.
Over(t) == codex[t].state = "ended" \/ ~alive
Fits(m) == /\ m.turn <= Len(codex)
           /\ m.kind \in Notes \cup {"approval"} => m.turn > 0
           /\ m.kind \in {"completed", "failed"} => Over(m.turn)
NotesOK ==
  /\ \A i \in 1..Len(pending) : pending[i].kind \in Notes /\ Fits(pending[i])
  /\ \A i \in 1..Len(pipe) : Fits(pipe[i])
  /\ client.turn <= Len(codex)
  /\ \A t \in 1..Len(codex) : \A kind \in Pieces : EndIsLast(Unread, t, kind)
  /\ alive => \A i \in 1..Len(pipe) : pipe[i].kind = "approval" =>
       /\ codex[pipe[i].turn].state = "waiting"
       /\ \A j \in 1..Len(pipe) : pipe[j].kind = "approval" /\ pipe[j].turn = pipe[i].turn => i = j

\* The turn the daemon reads, or is going to read: nothing of it was skipped.
Live(t) ==
  \/ client.at = "stream" /\ client.turn = t
  \/ /\ client.at = "turn"
     /\ \/ codex[t].request = client.request
        \/ \E i \in 1..Len(pipe) :
             pipe[i].kind = "response" /\ pipe[i].id = client.request /\ pipe[i].turn = t
ReadOf(t) ==
  /\ client.text = [n \in 1..Len(client.text) |-> <<"delta", t, n>>]
  /\ client.last = IF client.last[3] = 0 THEN NoMessage ELSE <<"message", t, client.last[3]>>
Read(kind) == IF kind = "delta" THEN Len(client.text) ELSE client.last[3]
InOrder(t) ==
  \A kind \in Pieces : /\ Read(kind) <= codex[t].sent[kind]
                       /\ Orderly(Unread, t, kind, Read(kind), codex[t].sent[kind])
Followed(t) == Live(t) => ReadOf(t) /\ InOrder(t)
Own(t, sent) ==
  IF sent["delta"] > 0 THEN [n \in 1..sent["delta"] |-> <<"delta", t, n>>]
  ELSE IF sent["message"] > 0 THEN << <<"message", t, sent["message"]>> >> ELSE <<>>
Returned(t) == answer[t].returned => Over(t) /\ answer[t].text = Own(t, codex[t].sent)

FollowInv ==
  /\ TurnTypeOK /\ IdsOK /\ NotesOK
  /\ \A t \in 1..Len(codex) : Followed(t) /\ Returned(t)

\* What messages that come to the end, or one that is taken away, leave in order.
LEMMA Appended ==
  ASSUME NEW u \in Seq(Messages), NEW m \in Messages, NEW v, v = Append(u, m),
         NEW t, NEW kind \in Pieces, NEW c \in Nat, NEW s \in Nat
  PROVE  /\ ~IsPiece(m, t, kind) /\ Orderly(u, t, kind, c, s) => Orderly(v, t, kind, c, s)
         /\ IsPiece(m, t, kind) /\ m.n = s + 1 /\ c <= s /\ Orderly(u, t, kind, c, s) => Orderly(v, t, kind, c, s + 1)
         /\ EndIsLast(u, t, kind) /\ (~IsPiece(m, t, kind) \/ \A i \in 1..Len(u) : ~IsEnd(u[i], t)) =>
              EndIsLast(v, t, kind)
<1>1. PICK k \in Nat : k = Len(u)
  OBVIOUS
<1>2. Len(v) = k + 1 /\ v[k + 1] = m /\ \A i \in 1..k : v[i] = u[i]
  BY <1>1
<1>3. \A i \in 1..(k + 1) : i = k + 1 \/ i \in 1..k
  BY <1>1
<1>4. \A i \in 1..k : u[i] \in Messages /\ u[i].n \in Nat
  <2>1. \A e \in Messages : e.n \in Nat
    BY DEF Messages
  <2> QED
    BY <1>1, <2>1
<1>5. ASSUME ~IsPiece(m, t, kind), Orderly(u, t, kind, c, s) PROVE Orderly(v, t, kind, c, s)
  BY <1>1, <1>2, <1>3, <1>5 DEF Orderly
<1>6. ASSUME IsPiece(m, t, kind), m.n = s + 1, c <= s, Orderly(u, t, kind, c, s) PROVE Orderly(v, t, kind, c, s + 1)
  <2>1. ASSUME NEW i \in 1..Len(v), IsPiece(v[i], t, kind) PROVE v[i].n > c /\ v[i].n <= s + 1
    BY <1>1, <1>2, <1>3, <1>4, <1>6, <2>1 DEF Orderly
  <2>2. ASSUME NEW n \in (c + 1)..(s + 1) PROVE \E i \in 1..Len(v) : IsPiece(v[i], t, kind) /\ v[i].n = n
    <3>1. CASE n = s + 1
      BY <1>1, <1>2, <1>6, <3>1
    <3>2. CASE n # s + 1
      <4>1. n \in (c + 1)..s
        BY <3>2
      <4>2. PICK i \in 1..Len(u) : IsPiece(u[i], t, kind) /\ u[i].n = n
        BY <1>6, <4>1 DEF Orderly
      <4> QED
        BY <1>1, <1>2, <4>2
    <3> QED
      BY <3>1, <3>2
  <2>3. ASSUME NEW i \in 1..Len(v), NEW j \in 1..Len(v), IsPiece(v[i], t, kind), IsPiece(v[j], t, kind), i < j
        PROVE  v[i].n < v[j].n
    <3>1. i \in 1..k /\ v[i] = u[i]
      BY <1>1, <1>2, <2>3
    <3>2. CASE j = k + 1
      BY <1>1, <1>2, <1>4, <1>6, <2>3, <3>1, <3>2 DEF Orderly
    <3>3. CASE j # k + 1
      BY <1>1, <1>2, <1>3, <1>6, <2>3, <3>1, <3>3 DEF Orderly
    <3> QED
      BY <3>2, <3>3
  <2> QED
    BY <2>1, <2>2, <2>3 DEF Orderly
<1>7. ASSUME EndIsLast(u, t, kind), ~IsPiece(m, t, kind) \/ \A i \in 1..Len(u) : ~IsEnd(u[i], t)
      PROVE  EndIsLast(v, t, kind)
  <2>1. ~(IsEnd(m, t) /\ IsPiece(m, t, kind))
    BY DEF IsEnd, IsPiece, Pieces
  <2>2. ASSUME NEW i \in 1..Len(v), NEW j \in 1..Len(v), IsEnd(v[i], t), IsPiece(v[j], t, kind)
        PROVE  j < i
    <3>1. CASE j = k + 1
      <4>1. i \in 1..k
        BY <1>1, <1>2, <1>3, <2>1, <2>2, <3>1
      <4> QED
        BY <1>1, <1>2, <1>7, <2>2, <3>1, <4>1
    <3>2. CASE j \in 1..k /\ i = k + 1
      BY <3>2
    <3>3. CASE j \in 1..k /\ i \in 1..k
      BY <1>1, <1>2, <1>7, <2>2, <3>3 DEF EndIsLast
    <3> QED
      BY <1>2, <1>3, <3>1, <3>2, <3>3
  <2> QED
    BY <2>2 DEF EndIsLast
<1> QED
  BY <1>5, <1>6, <1>7

Without(u, v, k) ==
  /\ k \in 1..Len(u) /\ Len(v) = Len(u) - 1
  /\ \A i \in 1..Len(v) : v[i] = u[IF i < k THEN i ELSE i + 1]

LEMMA Removed ==
  ASSUME NEW u \in Seq(Messages), NEW v \in Seq(Messages), NEW k, Without(u, v, k),
         NEW t, NEW kind \in Pieces, NEW c \in Nat, NEW s \in Nat
  PROVE  /\ ~IsPiece(u[k], t, kind) /\ Orderly(u, t, kind, c, s) => Orderly(v, t, kind, c, s)
         /\ k = 1 /\ IsPiece(u[1], t, kind) /\ Orderly(u, t, kind, c, s) => u[1].n = c + 1 /\ Orderly(v, t, kind, c + 1, s)
         /\ k = 1 /\ IsEnd(u[1], t) /\ EndIsLast(u, t, kind) /\ Orderly(u, t, kind, c, s) => s <= c
         /\ EndIsLast(u, t, kind) => EndIsLast(v, t, kind)
<1>1. PICK l \in Nat : l = Len(v)
  OBVIOUS
<1>2. Len(u) = l + 1 /\ k \in 1..(l + 1)
  BY <1>1 DEF Without
<1> DEFINE old(i) == IF i < k THEN i ELSE i + 1
<1>3. \A i \in 1..l : old(i) \in 1..(l + 1) /\ old(i) # k /\ v[i] = u[old(i)]
  BY SMTT(30), <1>1, <1>2 DEF Without
<1>4. \A i, j \in 1..l : i < j <=> old(i) < old(j)
  BY <1>2
<1>5. \A j \in 1..(l + 1) : j # k => \E i \in 1..l : old(i) = j
  <2> SUFFICES ASSUME NEW j \in 1..(l + 1), j # k PROVE \E i \in 1..l : old(i) = j
    OBVIOUS
  <2>1. CASE j < k
    <3>1. j \in 1..l /\ old(j) = j
      BY <1>2, <2>1
    <3> QED
      BY <3>1
  <2>2. CASE ~(j < k)
    <3>1. j - 1 \in 1..l /\ ~(j - 1 < k) /\ (j - 1) + 1 = j
      BY <1>2, <2>2
    <3>2. old(j - 1) = j
      BY <3>1
    <3> QED
      BY <3>1, <3>2
  <2> QED
    BY <2>1, <2>2
<1>6. \A i \in 1..(l + 1) : u[i].n \in Nat
  <2>1. \A e \in Messages : e.n \in Nat
    BY DEF Messages
  <2> QED
    BY <1>2, <2>1
<1> HIDE DEF old
<1>7. ASSUME ~IsPiece(u[k], t, kind), Orderly(u, t, kind, c, s) PROVE Orderly(v, t, kind, c, s)
  <2>1. ASSUME NEW i \in 1..l, IsPiece(v[i], t, kind) PROVE v[i].n > c /\ v[i].n <= s
    BY <1>2, <1>3, <1>7, <2>1 DEF Orderly
  <2>2. ASSUME NEW n \in (c + 1)..s PROVE \E i \in 1..l : IsPiece(v[i], t, kind) /\ v[i].n = n
    <3>1. PICK j \in 1..(l + 1) : IsPiece(u[j], t, kind) /\ u[j].n = n
      BY <1>2, <1>7 DEF Orderly
    <3> QED
      BY <1>3, <1>5, <1>7, <3>1
  <2>3. ASSUME NEW i \in 1..l, NEW j \in 1..l, IsPiece(v[i], t, kind), IsPiece(v[j], t, kind), i < j
        PROVE  v[i].n < v[j].n
    BY <1>2, <1>3, <1>4, <1>7, <2>3 DEF Orderly
  <2> QED
    BY <1>1, <2>1, <2>2, <2>3 DEF Orderly
<1>8. ASSUME k = 1, IsPiece(u[1], t, kind), Orderly(u, t, kind, c, s)
      PROVE  u[1].n = c + 1 /\ Orderly(v, t, kind, c + 1, s)
  <2>1. 1 \in 1..(l + 1) /\ u[1].n > c /\ u[1].n <= s
    BY <1>2, <1>8 DEF Orderly
  <2>2. u[1].n = c + 1
    <3>1. c + 1 \in (c + 1)..s
      BY <1>6, <2>1
    <3>2. PICK i \in 1..(l + 1) : IsPiece(u[i], t, kind) /\ u[i].n = c + 1
      BY <1>2, <1>8, <3>1 DEF Orderly
    <3>3. i # 1 => u[1].n < u[i].n
      BY <1>2, <1>8, <2>1, <3>2 DEF Orderly
    <3> QED
      BY SMTT(30), <1>6, <2>1, <3>2, <3>3
  <2>3. ASSUME NEW i \in 1..l, IsPiece(v[i], t, kind) PROVE v[i].n > c + 1 /\ v[i].n <= s
    <3>1. PICK j \in 1..(l + 1) : j = old(i) /\ j # 1 /\ v[i] = u[j]
      BY <1>3, <1>8
    <3>2. u[1].n < u[j].n /\ u[j].n <= s
      BY <1>2, <1>8, <2>1, <2>3, <3>1 DEF Orderly
    <3> QED
      BY <2>2, <3>1, <3>2
  <2>4. ASSUME NEW n \in (c + 1 + 1)..s PROVE \E i \in 1..l : IsPiece(v[i], t, kind) /\ v[i].n = n
    <3>1. n \in (c + 1)..s /\ n # c + 1
      OBVIOUS
    <3>2. PICK j \in 1..(l + 1) : IsPiece(u[j], t, kind) /\ u[j].n = n
      BY <1>2, <1>8, <3>1 DEF Orderly
    <3>3. j # k
      BY <1>8, <2>2, <3>1, <3>2
    <3> QED
      BY <1>3, <1>5, <3>2, <3>3
  <2>5. ASSUME NEW i \in 1..l, NEW j \in 1..l, IsPiece(v[i], t, kind), IsPiece(v[j], t, kind), i < j
        PROVE  v[i].n < v[j].n
    BY <1>2, <1>3, <1>4, <1>8, <2>5 DEF Orderly
  <2> QED
    BY <1>1, <2>2, <2>3, <2>4, <2>5 DEF Orderly
<1>9. ASSUME k = 1, IsEnd(u[1], t), EndIsLast(u, t, kind), Orderly(u, t, kind, c, s) PROVE s <= c
  <2>1. ASSUME NEW i \in 1..(l + 1), IsPiece(u[i], t, kind) PROVE FALSE
    <3>1. i < 1
      BY <1>2, <1>9, <2>1 DEF EndIsLast
    <3> QED
      BY <3>1
  <2>2. ASSUME s > c PROVE FALSE
    <3>1. c + 1 \in (c + 1)..s
      BY <2>2
    <3> QED
      BY <1>2, <1>9, <2>1, <3>1 DEF Orderly
  <2> QED
    BY <2>2
<1>10. ASSUME EndIsLast(u, t, kind) PROVE EndIsLast(v, t, kind)
  <2>1. ASSUME NEW i \in 1..l, NEW j \in 1..l, IsEnd(v[i], t), IsPiece(v[j], t, kind) PROVE j < i
    BY <1>2, <1>3, <1>4, <1>10, <2>1 DEF EndIsLast
  <2> QED
    BY <1>1, <2>1 DEF EndIsLast
<1> QED
  BY <1>7, <1>8, <1>9, <1>10

\* How the queues change.
LEMMA QueueSteps ==
  ASSUME pending \in Seq(Messages), pipe \in Seq(Messages)
  PROVE  /\ Unread \in Seq(Messages)
         /\ \A m \in Messages : pending' = pending /\ pipe' = Append(pipe, m) =>
              Unread' = Append(Unread, m)
         /\ pipe # <<>> /\ pipe' = Tail(pipe) /\ pending' = Append(pending, Head(pipe)) =>
              Unread' = Unread
         /\ pipe # <<>> /\ pipe' = Tail(pipe) /\ pending' = pending =>
              /\ Without(Unread, Unread', Len(pending) + 1)
              /\ Unread[Len(pending) + 1] = Head(pipe)
         /\ pending # <<>> /\ pending' = Tail(pending) /\ pipe' = pipe =>
              Without(Unread, Unread', 1) /\ Unread[1] = Head(pending)
<1>1. PICK p \in Nat, q \in Nat : p = Len(pending) /\ q = Len(pipe)
  OBVIOUS
<1>2. /\ Unread \in Seq(Messages) /\ Len(Unread) = p + q
      /\ \A i \in 1..p : Unread[i] = pending[i]
      /\ \A i \in (p + 1)..(p + q) : Unread[i] = pipe[i - p]
  BY <1>1 DEF Unread
<1>3. ASSUME NEW m \in Messages, pending' = pending, pipe' = Append(pipe, m)
      PROVE  Unread' = Append(Unread, m)
  <2>1. pending \o Append(pipe, m) = Append(pending \o pipe, m)
    OBVIOUS
  <2> QED
    BY <1>3, <2>1 DEF Unread
<1>4. ASSUME pipe # <<>>, pipe' = Tail(pipe), pending' = Append(pending, Head(pipe))
      PROVE  Unread' = Unread
  <2>1. Append(pending, Head(pipe)) \o Tail(pipe) = pending \o pipe
    <3>1. Append(pending, Head(pipe)) \in Seq(Messages) /\ Tail(pipe) \in Seq(Messages) /\ q > 0
      BY <1>1, <1>4
    <3>2. Len(Append(pending, Head(pipe)) \o Tail(pipe)) = Len(pending \o pipe)
      BY <1>1, <3>1
    <3>3. ASSUME NEW i \in 1..(p + q)
          PROVE  (Append(pending, Head(pipe)) \o Tail(pipe))[i] = (pending \o pipe)[i]
      BY <1>1, <3>1
    <3> QED
      BY <1>1, <3>1, <3>2, <3>3
  <2> QED
    BY <1>4, <2>1 DEF Unread
<1>5. ASSUME pipe # <<>>, pipe' = Tail(pipe), pending' = pending
      PROVE  /\ Without(Unread, Unread', Len(pending) + 1)
             /\ Unread[Len(pending) + 1] = Head(pipe)
  <2>1. /\ q > 0 /\ Tail(pipe) \in Seq(Messages) /\ Len(Tail(pipe)) = q - 1
        /\ \A i \in 1..(q - 1) : Tail(pipe)[i] = pipe[i + 1]
    BY <1>1, <1>5
  <2>2. /\ Unread' = pending \o Tail(pipe) /\ Len(Unread') = p + q - 1
        /\ \A i \in 1..p : Unread'[i] = pending[i]
        /\ \A i \in (p + 1)..(p + q - 1) : Unread'[i] = Tail(pipe)[i - p]
    BY <1>1, <1>5, <2>1 DEF Unread
  <2>3. ASSUME NEW i \in 1..(p + q - 1)
        PROVE  Unread'[i] = Unread[IF i < p + 1 THEN i ELSE i + 1]
    <3>1. CASE i < p + 1
      BY <1>1, <1>2, <2>2, <3>1
    <3>2. CASE ~(i < p + 1)
      <4>1. i \in (p + 1)..(p + q - 1) /\ i - p \in 1..(q - 1) /\ i + 1 \in (p + 1)..(p + q)
        BY <2>1, <3>2
      <4>2. (i - p) + 1 = (i + 1) - p
        OBVIOUS
      <4> QED
        BY <1>2, <2>1, <2>2, <3>2, <4>1, <4>2
    <3> QED
      BY <3>1, <3>2
  <2>4. p + 1 \in 1..(p + q) /\ Unread[p + 1] = pipe[1] /\ pipe[1] = Head(pipe)
    <3>1. p + 1 \in (p + 1)..(p + q) /\ (p + 1) - p = 1
      BY <2>1
    <3> QED
      BY <1>2, <1>5, <3>1
  <2> QED
    BY <1>1, <1>2, <2>2, <2>3, <2>4 DEF Without
<1>6. ASSUME pending # <<>>, pending' = Tail(pending), pipe' = pipe
      PROVE  Without(Unread, Unread', 1) /\ Unread[1] = Head(pending)
  <2>1. /\ p > 0 /\ Tail(pending) \in Seq(Messages) /\ Len(Tail(pending)) = p - 1
        /\ \A i \in 1..(p - 1) : Tail(pending)[i] = pending[i + 1]
    BY <1>1, <1>6
  <2>2. /\ Unread' = Tail(pending) \o pipe /\ Len(Unread') = p + q - 1
        /\ \A i \in 1..(p - 1) : Unread'[i] = Tail(pending)[i]
        /\ \A i \in p..(p + q - 1) : Unread'[i] = pipe[i - (p - 1)]
    BY <1>1, <1>6, <2>1 DEF Unread
  <2>3. ASSUME NEW i \in 1..(p + q - 1) PROVE Unread'[i] = Unread[i + 1]
    <3>1. CASE i < p
      BY <1>1, <1>2, <2>1, <2>2, <3>1
    <3>2. CASE ~(i < p)
      <4>1. i \in p..(p + q - 1) /\ i + 1 \in (p + 1)..(p + q) /\ (i + 1) - p = i - (p - 1)
        BY <2>1, <3>2
      <4> QED
        BY <1>2, <2>2, <4>1
    <3> QED
      BY <3>1, <3>2
  <2>4. 1 \in 1..(p + q) /\ Unread[1] = pending[1] /\ pending[1] = Head(pending)
    BY <1>1, <1>2, <1>6, <2>1
  <2>5. \A i \in 1..(p + q - 1) : ~(i < 1)
    OBVIOUS
  <2> QED
    BY <1>1, <1>2, <2>2, <2>3, <2>4, <2>5 DEF Without
<1> QED
  BY <1>2, <1>3, <1>4, <1>5, <1>6

LEMMA IdleState ==
  /\ Idle \in ReadState /\ Idle.at = "idle" /\ Idle.turn = 0
  /\ Idle.text = <<>> /\ Idle.last = NoMessage
<1>1. NoMessage \in Texts
  BY DEF NoMessage, Texts, Pieces
<1> QED
  BY <1>1, SessionsAssumption DEF Idle, ReadState

\* What is known of a message that is not handled.
LEMMA UnreadFits ==
  ASSUME TurnTypeOK, NotesOK
  PROVE  /\ \A i \in 1..Len(Unread) : Fits(Unread[i]) /\ Unread[i] \in Messages
         /\ \A i \in 1..Len(pipe) : /\ pipe[i].turn \in Nat /\ pipe[i].turn <= Len(codex)
                                    /\ pipe[i].kind \in Notes \cup {"approval"} =>
                                         pipe[i].turn \in 1..Len(codex)
         /\ \A i \in 1..Len(pending) : pending[i].turn \in 1..Len(codex)
<1>1. PICK p \in Nat, q \in Nat : p = Len(pending) /\ q = Len(pipe)
  BY DEF TurnTypeOK
<1>2. \A m \in Messages : m.turn \in Nat
  BY DEF Messages
<1>3. Len(codex) \in Nat
  BY DEF TurnTypeOK
<1>4. /\ \A i \in 1..p : pending[i] \in Messages /\ Fits(pending[i]) /\ pending[i].kind \in Notes
      /\ \A i \in 1..q : pipe[i] \in Messages /\ Fits(pipe[i])
  BY <1>1 DEF TurnTypeOK, NotesOK
<1>5. ASSUME NEW i \in 1..Len(Unread) PROVE Fits(Unread[i]) /\ Unread[i] \in Messages
  <2>1. i \in 1..(p + q) /\ Unread[i] = IF i <= p THEN pending[i] ELSE pipe[i - p]
    BY <1>1 DEF Unread, TurnTypeOK
  <2>2. i <= p \/ i - p \in 1..q
    BY <1>1, <2>1
  <2>3. CASE i <= p
    BY <1>4, <2>1, <2>3
  <2>4. CASE ~(i <= p)
    BY <1>4, <2>1, <2>2, <2>4
  <2> QED
    BY <2>3, <2>4
<1> QED
  BY <1>1, <1>2, <1>3, <1>4, <1>5 DEF Fits

LEMMA CodexIs ==
  ASSUME TurnTypeOK
  PROVE  /\ codex \in Seq(Turn) /\ Len(codex) \in Nat /\ answer \in Seq(Reply)
         /\ \A t \in 1..Len(codex) :
              /\ codex[t] \in Turn /\ codex[t].request \in Nat /\ codex[t].sent \in [Pieces -> Nat]
              /\ answer[t] \in Reply
         /\ made.requests \in Nat /\ client.request \in Nat /\ client.turn \in Nat
         /\ client.text \in Seq(Texts) /\ client.last \in Texts
         /\ \A kind \in Pieces : Read(kind) \in Nat
<1>1. \A r \in Turn : r.request \in Nat /\ r.sent \in [Pieces -> Nat]
  BY DEF Turn
<1>2. /\ made.requests \in Nat /\ client.request \in Nat /\ client.turn \in Nat
      /\ client.text \in Seq(Texts) /\ client.last \in Texts
  BY DEF TurnTypeOK, ReadState
<1>3. client.last[3] \in Nat /\ Len(client.text) \in Nat
  BY <1>2 DEF Texts
<1> QED
  BY <1>1, <1>2, <1>3 DEF TurnTypeOK, Read

\* What is written to the pipe.
LEMMA WritesPieces ==
  ASSUME TurnTypeOK, NEW t \in 1..Len(codex), NEW m \in Messages, NEW r \in Turn, Writes(t, m, r),
         alive' = alive
  PROVE  /\ TurnTypeOK' /\ Unread' = Append(Unread, m) /\ pipe' = Append(pipe, m)
         /\ codex'[t] = r /\ \A o \in 1..Len(codex) : o # t => codex'[o] = codex[o]
         /\ Len(codex') = Len(codex)
         /\ UNCHANGED <<threads, client, pending, asked, made, answer>>
<1>1. /\ pipe' = Append(pipe, m) /\ codex' = [codex EXCEPT ![t] = r]
      /\ UNCHANGED <<threads, client, pending, asked, made, answer>>
  BY DEF Writes
<1>2. codex \in Seq(Turn) /\ pipe \in Seq(Messages) /\ pending \in Seq(Messages)
  BY DEF TurnTypeOK
<1>3. codex' \in Seq(Turn) /\ Len(codex') = Len(codex) /\ pipe' \in Seq(Messages)
  BY <1>1, <1>2
<1>4. codex'[t] = r /\ \A o \in 1..Len(codex) : o # t => codex'[o] = codex[o]
  BY <1>1, <1>2
<1>5. Unread' = Append(Unread, m)
  BY <1>1, <1>2, QueueSteps
<1>6. TurnTypeOK'
  BY <1>1, <1>3 DEF TurnTypeOK
<1> QED
  BY <1>1, <1>3, <1>4, <1>5, <1>6

\* A message from the child that ends nothing and adds no text.
LEMMA PlainMessage ==
  ASSUME FollowInv, NEW t \in 1..Len(codex), NEW m \in Messages, NEW r \in Turn, Writes(t, m, r),
         alive, alive' = alive, m.id <= made.requests, m.turn = t,
         \/ m.kind \in {"response", "unsupported", "unreadable"}
         \/ m.kind = "approval" /\ r.state = "waiting" /\ codex[t].state = "running"
         \/ m.kind \in {"completed", "failed"} /\ r.state = "ended"
         \/ m.kind \in Pieces /\ codex[t].state = "running" /\ m.n = codex[t].sent[m.kind] + 1,
         r.sent = IF m.kind \in Pieces THEN [codex[t].sent EXCEPT ![m.kind] = @ + 1] ELSE codex[t].sent,
         r.request = codex[t].request \/ (m.kind = "response" /\ r.request = 0 /\ m.id = codex[t].request),
         m.kind = "response" => m.id = codex[t].request,
         r.state = codex[t].state \/ codex[t].state = "running"
  PROVE  FollowInv'
<1>1. /\ TurnTypeOK /\ IdsOK /\ NotesOK
      /\ \A o \in 1..Len(codex) : Followed(o) /\ Returned(o)
  BY DEF FollowInv
<1>2. /\ TurnTypeOK' /\ Unread' = Append(Unread, m) /\ pipe' = Append(pipe, m)
      /\ codex'[t] = r /\ \A o \in 1..Len(codex) : o # t => codex'[o] = codex[o]
      /\ Len(codex') = Len(codex)
      /\ UNCHANGED <<threads, client, pending, asked, made, answer>>
  BY <1>1, WritesPieces
<1>3. /\ Unread \in Seq(Messages) /\ pipe \in Seq(Messages)
      /\ Len(pipe) \in Nat /\ Len(Unread) \in Nat
  <2>1. pending \in Seq(Messages) /\ pipe \in Seq(Messages)
    BY <1>1 DEF TurnTypeOK
  <2>2. Unread \in Seq(Messages)
    BY <2>1, QueueSteps
  <2> QED
    BY <2>1, <2>2
<1>4. /\ Len(pipe') = Len(pipe) + 1 /\ pipe'[Len(pipe) + 1] = m
      /\ \A i \in 1..Len(pipe) : pipe'[i] = pipe[i]
      /\ Len(Unread') = Len(Unread) + 1 /\ Unread'[Len(Unread) + 1] = m
      /\ \A i \in 1..Len(Unread) : Unread'[i] = Unread[i]
      /\ \A i \in 1..Len(pipe') : i = Len(pipe) + 1 \/ i \in 1..Len(pipe)
      /\ \A i \in 1..Len(Unread') : i = Len(Unread) + 1 \/ i \in 1..Len(Unread)
  BY <1>2, <1>3
<1>5. /\ Len(codex) \in Nat /\ made.requests \in Nat /\ client.request \in Nat /\ client.turn \in Nat
      /\ \A kind \in Pieces : Read(kind) \in Nat
      /\ \A o \in 1..Len(codex) : codex[o].request \in Nat /\ codex[o].sent \in [Pieces -> Nat]
  BY <1>1, CodexIs
<1>6. IdsOK'
  <2>1. \A o \in 1..Len(codex) : codex'[o].request = codex[o].request \/ codex'[o].request = 0
    BY <1>2
  <2>2. \A o \in 1..Len(codex) : codex'[o].request <= made.requests
    BY SMTT(30), <1>1, <1>5, <2>1 DEF IdsOK
  <2>3. \A i \in 1..Len(pipe') : pipe'[i].id <= made.requests
    BY <1>1, <1>4 DEF IdsOK
  <2> QED
    BY <1>1, <1>2, <2>2, <2>3 DEF IdsOK, Waiting
<1>7. \A o \in 1..Len(codex) : Over(o) => Over(o)'
  BY <1>2 DEF Over
<1>8. \A o \in 1..Len(codex) : o # t => codex'[o].state = codex[o].state /\ codex'[o].sent = codex[o].sent
  BY <1>2
<1>9. ASSUME codex[t].state = "running"
      PROVE  /\ \A i \in 1..Len(Unread) : ~IsEnd(Unread[i], t)
             /\ \A i \in 1..Len(pipe) : pipe[i].kind = "approval" => pipe[i].turn # t
             /\ ~answer[t].returned
  <2>1. ~Over(t)
    BY <1>9 DEF Over
  <2>2. \A i \in 1..Len(Unread) : Fits(Unread[i])
    BY <1>1, UnreadFits
  <2> QED
    BY <1>1, <1>9, <2>1, <2>2 DEF NotesOK, Fits, IsEnd, Returned
<1>10. NotesOK'
  <2>1. ASSUME NEW e \in Messages, Fits(e) PROVE Fits(e)'
    <3>1. e.kind \in {"completed", "failed"} => e.turn \in 1..Len(codex)
      BY <1>5, <2>1 DEF Fits, Notes, Messages
    <3> QED
      BY <1>2, <1>7, <2>1, <3>1 DEF Fits, Over
  <2>2. Fits(m)'
    BY <1>2, <1>5 DEF Fits, Notes, Pieces, Over
  <2>3. \A i \in 1..Len(pending') : pending'[i].kind \in Notes /\ Fits(pending[i])'
    <3>1. \A i \in 1..Len(pending) : pending[i] \in Messages
      BY <1>1 DEF TurnTypeOK
    <3> QED
      BY <1>1, <1>2, <2>1, <3>1 DEF NotesOK, Fits, Over
  <2>4. \A i \in 1..Len(pipe') : Fits(pipe[i])'
    <3>1. \A i \in 1..Len(pipe) : pipe[i] \in Messages
      BY <1>3
    <3> QED
      BY SMTT(30), <1>1, <1>4, <2>1, <2>2, <3>1 DEF NotesOK, Fits, Over
  <2>5. ASSUME NEW o \in 1..Len(codex), NEW kind \in Pieces PROVE EndIsLast(Unread, o, kind)'
    <3>1. EndIsLast(Unread, o, kind)
      BY <1>1 DEF NotesOK
    <3>2. ~IsPiece(m, o, kind) \/ \A i \in 1..Len(Unread) : ~IsEnd(Unread[i], o)
      BY <1>9 DEF IsPiece, Pieces
    <3>3. EndIsLast(Unread', o, kind)
      BY <1>2, <1>3, <3>1, <3>2, Appended
    <3> QED
      BY <3>3 DEF EndIsLast
  <2>6. ASSUME NEW i \in 1..Len(pipe'), pipe'[i].kind = "approval"
        PROVE  /\ codex'[pipe'[i].turn].state = "waiting"
               /\ \A j \in 1..Len(pipe') : pipe'[j].kind = "approval" /\ pipe'[j].turn = pipe'[i].turn => i = j
    <3>1. ASSUME NEW j \in 1..Len(pipe), pipe[j].kind = "approval"
          PROVE  /\ pipe[j].turn \in 1..Len(codex) /\ codex[pipe[j].turn].state = "waiting"
                 /\ codex'[pipe[j].turn].state = "waiting"
      <4>1. pipe[j].turn \in 1..Len(codex)
        BY <1>1, <3>1, UnreadFits
      <4>2. codex[pipe[j].turn].state = "waiting"
        BY <1>1, <3>1 DEF NotesOK
      <4> QED
        BY <1>2, <1>8, <4>1, <4>2
    <3>2. CASE i = Len(pipe) + 1
      <4>1. m.kind = "approval" /\ codex'[m.turn].state = "waiting" /\ codex[t].state = "running"
        <5>1. m.kind = "approval"
          BY <1>4, <2>6, <3>2
        <5> QED
          BY <1>2, <5>1 DEF Pieces
      <4>2. \A j \in 1..Len(pipe) : ~(pipe[j].kind = "approval" /\ pipe[j].turn = t)
        BY <1>9, <4>1
      <4> QED
        BY <1>4, <3>2, <4>1, <4>2
    <3>3. CASE i \in 1..Len(pipe)
      <4>1. \A j \in 1..Len(pipe) : pipe[j].kind = "approval" /\ pipe[j].turn = pipe[i].turn => i = j
        BY <1>1, <1>4, <2>6, <3>3 DEF NotesOK
      <4>2. ~(m.kind = "approval" /\ m.turn = pipe[i].turn)
        BY <1>4, <1>9, <2>6, <3>3
      <4> QED
        BY ZenonT(30), <1>4, <2>6, <3>1, <3>3, <4>1, <4>2
    <3> QED
      BY <1>4, <3>2, <3>3
  <2> QED
    BY <1>1, <1>2, <2>3, <2>4, <2>5, <2>6 DEF NotesOK, Over
<1>11. ASSUME NEW o \in 1..Len(codex) PROVE Followed(o)'
  <2>1. Live(o)' => Live(o)
    <3>1. ASSUME client.at = "turn", codex'[o].request = client.request
          PROVE codex[o].request = client.request
      <4>1. client.request > 0
        BY <1>1, <3>1 DEF IdsOK
      <4> QED
        BY <1>2, <1>5, <3>1, <4>1
    <3>2. ASSUME client.at = "turn", m.kind = "response", m.id = client.request, m.turn = o
          PROVE  codex[o].request = client.request
      BY <1>1, <1>2, <3>2 DEF IdsOK
    <3> QED
      BY <1>2, <1>4, <3>1, <3>2 DEF Live
  <2>2. ASSUME Live(o), NEW kind \in Pieces
        PROVE  /\ Read(kind) <= codex'[o].sent[kind]
               /\ Orderly(Unread', o, kind, Read(kind), codex'[o].sent[kind])
    <3>1. PICK c \in Nat, q \in Nat : c = Read(kind) /\ q = codex[o].sent[kind]
      BY <1>5
    <3>2. c <= q /\ Orderly(Unread, o, kind, c, q)
      BY <1>1, <2>2, <3>1 DEF Followed, InOrder
    <3>3. /\ ~IsPiece(m, o, kind) => Orderly(Unread', o, kind, c, q)
          /\ IsPiece(m, o, kind) /\ m.n = q + 1 => Orderly(Unread', o, kind, c, q + 1)
      BY <1>2, <1>3, <3>2, Appended
    <3>4. CASE IsPiece(m, o, kind)
      <4>1. o = t /\ m.kind = kind /\ m.n = q + 1
        BY <2>2, <3>1, <3>4 DEF IsPiece, Pieces
      <4>2. codex'[o].sent = [codex[t].sent EXCEPT ![kind] = @ + 1] /\ codex[t].sent \in [Pieces -> Nat]
        BY <1>2, <1>5, <2>2, <4>1
      <4>3. codex'[o].sent[kind] = q + 1
        BY <2>2, <3>1, <4>1, <4>2
      <4> QED
        BY <3>1, <3>2, <3>3, <3>4, <4>1, <4>3
    <3>5. CASE ~IsPiece(m, o, kind)
      <4>1. CASE o # t
        BY <1>2, <3>1, <3>2, <3>3, <3>5, <4>1
      <4>2. CASE o = t
        <5>1. m.kind # kind
          BY <3>5, <4>2 DEF IsPiece
        <5>2. codex'[o].sent[kind] = q
          BY <1>2, <1>5, <2>2, <3>1, <4>2, <5>1
        <5> QED
          BY <3>1, <3>2, <3>3, <3>5, <5>2
      <4> QED
        BY <4>1, <4>2
    <3> QED
      BY <3>4, <3>5
  <2>3. ASSUME Live(o) PROVE ReadOf(o)
    BY <1>1, <2>3 DEF Followed
  <2> QED
    <3>1. Live(o)' => ReadOf(o)'
      BY <1>2, <2>1, <2>3 DEF ReadOf
    <3>2. \A kind \in Pieces : Read(kind)' = Read(kind)
      BY <1>2 DEF Read
    <3>3. Live(o) => InOrder(o)'
      BY <2>2, <3>2 DEF InOrder, Orderly
    <3> QED
      BY <2>1, <3>1, <3>3 DEF Followed
<1>12. ASSUME NEW o \in 1..Len(codex) PROVE Returned(o)'
  <2>1. answer[o].returned => codex'[o].sent = codex[o].sent
    <3>1. CASE o # t
      BY <1>8, <3>1
    <3>2. CASE o = t /\ m.kind \in Pieces
      <4>1. codex[t].state = "running"
        BY <3>2 DEF Pieces
      <4> QED
        BY <1>9, <3>2, <4>1
    <3>3. CASE o = t /\ m.kind \notin Pieces
      BY <1>2, <3>3
    <3> QED
      BY <3>1, <3>2, <3>3
  <2> QED
    BY <1>1, <1>2, <1>7, <2>1 DEF Returned, Over
<1> QED
  BY <1>2, <1>6, <1>10, <1>11, <1>12 DEF FollowInv

\* What the child does with a turn.
LEMMA TurnsKeep ==
  ASSUME FollowInv, alive, alive' = alive, NEW t \in 1..Len(codex),
         Answered(t) \/ Write(t) \/ AskClient(t) \/ EndTurn(t)
  PROVE  FollowInv'
<1>1. /\ codex[t] \in Turn /\ codex[t].request \in Nat /\ codex[t].sent \in [Pieces -> Nat] /\ t \in Nat
      /\ made.requests \in Nat /\ codex[t].request <= made.requests
  BY CodexIs DEF FollowInv, IdsOK
<1>2. CASE Answered(t)
  <2>1. PICK m, r : /\ m = Message("response", codex[t].request, t, 0)
                    /\ r = [codex[t] EXCEPT !.request = 0] /\ Writes(t, m, r)
    BY <1>2 DEF Answered
  <2>2. /\ m \in Messages /\ m.kind = "response" /\ m.id = codex[t].request /\ m.turn = t
    BY <1>1, <2>1 DEF Message, Messages, MessageKinds
  <2>3. r \in Turn /\ r.request = 0 /\ r.sent = codex[t].sent /\ r.state = codex[t].state
    BY <1>1, <2>1 DEF Turn
  <2>4. "response" \notin Pieces
    BY DEF Pieces
  <2> QED
    BY <1>1, <2>1, <2>2, <2>3, <2>4, PlainMessage
<1>3. CASE Write(t)
  <2>1. PICK kind \in Pieces :
          Writes(t, Message(kind, 0, t, codex[t].sent[kind] + 1), [codex[t] EXCEPT !.sent[kind] = @ + 1])
    BY <1>3 DEF Write
  <2>2. PICK m, r, q : /\ m = Message(kind, 0, t, codex[t].sent[kind] + 1)
                       /\ q = [codex[t].sent EXCEPT ![kind] = @ + 1]
                       /\ r = [codex[t] EXCEPT !.sent = q] /\ Writes(t, m, r)
    BY <2>1
  <2>3. codex[t].sent[kind] + 1 \in Nat /\ kind \in MessageKinds /\ q \in [Pieces -> Nat]
    BY <1>1, <2>2 DEF Pieces, MessageKinds
  <2>4. /\ m \in Messages /\ m.kind = kind /\ m.id = 0 /\ m.turn = t
        /\ m.n = codex[t].sent[kind] + 1
    BY <1>1, <2>2, <2>3 DEF Message, Messages
  <2>5. r \in Turn /\ r.request = codex[t].request /\ r.sent = q /\ r.state = codex[t].state
    BY <1>1, <2>2, <2>3 DEF Turn
  <2>6. /\ codex[t].state = "running" /\ 0 <= made.requests
        /\ m.kind # "response" /\ m.kind \in Pieces
    BY <1>1, <1>3, <2>2, <2>4 DEF Write, Pieces
  <2>7. r.sent = IF m.kind \in Pieces THEN [codex[t].sent EXCEPT ![m.kind] = @ + 1] ELSE codex[t].sent
    BY <2>2, <2>4, <2>5, <2>6
  <2>8. m.id <= made.requests /\ m.n = codex[t].sent[m.kind] + 1
    BY <2>4, <2>6
  <2>9. Writes(t, m, r)
    BY <2>2
  <2> QED
    BY <2>4, <2>5, <2>6, <2>7, <2>8, <2>9, PlainMessage
<1>4. CASE AskClient(t)
  <2>1. PICK kind \in {"approval", "unsupported", "unreadable"} :
          Writes(t, Message(kind, 0, t, 0), [codex[t] EXCEPT !.state = "waiting"])
    BY <1>4 DEF AskClient
  <2>2. PICK m, r : /\ m = Message(kind, 0, t, 0)
                    /\ r = [codex[t] EXCEPT !.state = "waiting"] /\ Writes(t, m, r)
    BY <2>1
  <2>3. m \in Messages /\ m.kind = kind /\ m.id = 0 /\ m.turn = t
    BY <1>1, <2>2 DEF Message, Messages, MessageKinds
  <2>4. r \in Turn /\ r.request = codex[t].request /\ r.sent = codex[t].sent /\ r.state = "waiting"
    BY <1>1, <2>2 DEF Turn
  <2>5. codex[t].state = "running" /\ 0 <= made.requests /\ kind \notin Pieces
    BY <1>1, <1>4 DEF AskClient, Pieces
  <2> QED
    BY <1>1, <2>2, <2>3, <2>4, <2>5, PlainMessage
<1>5. CASE EndTurn(t)
  <2>1. PICK kind \in {"completed", "failed"} :
          Writes(t, Message(kind, 0, t, 0), [codex[t] EXCEPT !.state = "ended"])
    BY <1>5 DEF EndTurn
  <2>2. PICK m, r : /\ m = Message(kind, 0, t, 0)
                    /\ r = [codex[t] EXCEPT !.state = "ended"] /\ Writes(t, m, r)
    BY <2>1
  <2>3. m \in Messages /\ m.kind = kind /\ m.id = 0 /\ m.turn = t
    BY <1>1, <2>2 DEF Message, Messages, MessageKinds
  <2>4. r \in Turn /\ r.request = codex[t].request /\ r.sent = codex[t].sent /\ r.state = "ended"
    BY <1>1, <2>2 DEF Turn
  <2>5. codex[t].state = "running" /\ 0 <= made.requests /\ kind \notin Pieces
    BY <1>1, <1>5 DEF EndTurn, Pieces
  <2> QED
    BY <1>1, <2>2, <2>3, <2>4, <2>5, PlainMessage
<1> QED
  BY <1>2, <1>3, <1>4, <1>5

\* Nothing that is unread is touched, and the turns stay as they are or are over.
LEMMA StillFollowed ==
  ASSUME FollowInv, pending' = pending, pipe' = pipe, made' = made, answer' = answer,
         Len(codex') = Len(codex), TurnTypeOK',
         \A i \in 1..Len(asked') : asked'[i].id <= made.requests,
         \A t \in 1..Len(codex) : /\ codex'[t].sent = codex[t].sent /\ (Over(t) => Over(t)')
                                  /\ codex'[t].request \in {0, codex[t].request},
         (codex' = codex /\ alive' = alive) \/ ~alive',
         client' = client \/ client' = Idle
  PROVE  FollowInv'
<1>1. /\ TurnTypeOK /\ IdsOK /\ NotesOK /\ Unread' = Unread
      /\ \A o \in 1..Len(codex) : Followed(o) /\ Returned(o)
  BY DEF FollowInv, Unread
<1>2. Len(codex) \in Nat /\ \A t \in 1..Len(codex) : codex[t].request \in Nat
  BY <1>1, CodexIs
<1>3. IdsOK'
  <2>1. ASSUME NEW t \in 1..Len(codex) PROVE codex'[t].request <= made.requests
    <3>1. made.requests \in Nat
      BY <1>1, CodexIs
    <3>2. 0 <= made.requests /\ codex[t].request <= made.requests
      BY <1>1, <3>1 DEF IdsOK
    <3>3. codex'[t].request = 0 \/ codex'[t].request = codex[t].request
      OBVIOUS
    <3> QED
      BY <3>2, <3>3
  <2> QED
    BY <1>1, <2>1, IdleState DEF IdsOK, Waiting
<1>4. NotesOK'
  <2>1. \A i \in 1..Len(pipe) : Fits(pipe[i]) => Fits(pipe[i])'
    BY <1>1, UnreadFits DEF Fits, Notes, Over
  <2>2. \A i \in 1..Len(pending) : Fits(pending[i]) => Fits(pending[i])'
    BY <1>1, UnreadFits DEF Fits, Over
  <2>3. client'.turn <= Len(codex)
    BY <1>1, <1>2, IdleState DEF NotesOK
  <2>4. \A t \in 1..Len(codex) : \A kind \in Pieces : EndIsLast(Unread, t, kind)'
    BY <1>1 DEF NotesOK, EndIsLast
  <2> QED
    BY <1>1, <2>1, <2>2, <2>3, <2>4 DEF NotesOK
<1>5. ASSUME NEW t \in 1..Len(codex) PROVE Followed(t)' /\ Returned(t)'
  <2>1. Live(t)' => Live(t) /\ client' = client
    BY <1>1, <1>2, IdleState DEF Live, IdsOK
  <2>2. Followed(t)'
    <3>1. Live(t)' => ReadOf(t)'
      BY <1>1, <2>1 DEF Followed, ReadOf
    <3>2. Live(t)' => \A kind \in Pieces : Read(kind)' = Read(kind)
      BY <2>1 DEF Read
    <3>3. Live(t)' => InOrder(t)'
      BY <1>1, <2>1, <3>2 DEF Followed, InOrder, Orderly
    <3> QED
      BY <3>1, <3>3 DEF Followed
  <2>3. Returned(t)'
    BY <1>1 DEF Returned, Over
  <2> QED
    BY <2>2, <2>3
<1> QED
  BY <1>3, <1>4, <1>5 DEF FollowInv

\* A turn is followed as long as what is unread of it stays in order.
LEMMA FollowedStill ==
  ASSUME FollowInv, NEW o \in 1..Len(codex), codex'[o].sent = codex[o].sent,
         Live(o)' => Live(o) /\ client'.text = client.text /\ client'.last = client.last,
         Live(o)' => \A kind \in Pieces : \A c, s \in Nat :
                       Orderly(Unread, o, kind, c, s) => Orderly(Unread', o, kind, c, s)
  PROVE  Followed(o)'
<1>1. /\ TurnTypeOK /\ Followed(o) /\ codex[o].sent \in [Pieces -> Nat]
      /\ \A kind \in Pieces : Read(kind) \in Nat
  BY CodexIs DEF FollowInv
<1>2. ASSUME Live(o)' PROVE ReadOf(o)' /\ InOrder(o)'
  <2>1. ReadOf(o) /\ InOrder(o) /\ client'.text = client.text /\ client'.last = client.last
    BY <1>1, <1>2 DEF Followed
  <2>2. \A kind \in Pieces : Read(kind)' = Read(kind)
    BY <2>1 DEF Read
  <2>3. ASSUME NEW kind \in Pieces
        PROVE  Orderly(Unread', o, kind, Read(kind), codex[o].sent[kind])
    BY <1>1, <1>2, <2>1 DEF InOrder
  <2>4. InOrder(o)'
    BY <2>1, <2>2, <2>3 DEF InOrder, Orderly
  <2> QED
    BY <2>1, <2>4 DEF ReadOf
<1> QED
  BY <1>2 DEF Followed

LEMMA DieKeeps ==
  ASSUME FollowInv, Die
  PROVE  FollowInv'
<1>1. TurnTypeOK
  BY DEF FollowInv
<1>2. codex' = [t \in DOMAIN codex |-> [codex[t] EXCEPT !.state = "ended", !.request = 0]]
  BY DEF Die
<1>9. /\ ~alive' /\ asked' = <<>> /\ alive' \in BOOLEAN
      /\ UNCHANGED <<threads, client, pending, pipe, made, answer>>
  BY DEF Die
<1>3. codex \in Seq(Turn) /\ DOMAIN codex = 1..Len(codex) /\ Len(codex) \in Nat
  BY <1>1 DEF TurnTypeOK
<1>4. \A t \in 1..Len(codex) :
        LET r == [codex[t] EXCEPT !.state = "ended", !.request = 0] IN
        codex'[t] = r /\ r \in Turn /\ r.sent = codex[t].sent /\ r.request = 0
  <2>1. ASSUME NEW t \in 1..Len(codex)
        PROVE  codex'[t] = [codex[t] EXCEPT !.state = "ended", !.request = 0]
    BY <1>2, <1>3
  <2>2. ASSUME NEW q \in Turn
        PROVE  LET r == [q EXCEPT !.state = "ended", !.request = 0] IN
               r \in Turn /\ r.sent = q.sent /\ r.request = 0
    BY DEF Turn
  <2>3. \A t \in 1..Len(codex) : codex[t] \in Turn
    BY <1>3
  <2> QED
    BY <2>1, <2>2, <2>3
<1>5. codex' \in Seq(Turn) /\ Len(codex') = Len(codex)
  <2>1. codex' \in [1..Len(codex) -> Turn]
    BY <1>2, <1>3, <1>4
  <2> QED
    BY <1>3, <2>1
<1>6. TurnTypeOK'
  <2>1. /\ asked' \in Seq(Asked) /\ alive' \in BOOLEAN
        /\ UNCHANGED <<threads, client, pending, pipe, made, answer>>
    BY <1>9
  <2> QED
    BY <1>1, <1>5, <2>1 DEF TurnTypeOK
<1>7. \A t \in 1..Len(codex) : Over(t)' /\ codex'[t].sent = codex[t].sent /\ codex'[t].request = 0
  BY <1>4, <1>9 DEF Over
<1>8. /\ pending' = pending /\ pipe' = pipe /\ made' = made /\ answer' = answer /\ ~alive'
      /\ client' = client /\ \A i \in 1..Len(asked') : asked'[i].id <= made.requests
  BY <1>9
<1> QED
  BY <1>5, <1>6, <1>7, <1>8, StillFollowed

LEMMA ClosedKeeps ==
  ASSUME FollowInv, Closed, alive' = alive
  PROVE  FollowInv'
<1>1. TurnTypeOK /\ client' = Idle /\ UNCHANGED <<threads, pending, pipe, asked, codex, made, answer>>
  BY DEF FollowInv, Closed, GiveUp
<1>2. TurnTypeOK'
  BY <1>1, IdleState DEF TurnTypeOK
<1>3. \A i \in 1..Len(asked) : asked[i].id <= made.requests
  BY DEF FollowInv, IdsOK
<1> QED
  BY <1>1, <1>2, <1>3, StillFollowed DEF Over

\* A request has a number that nothing has: no turn is read yet.
LEMMA NothingRead ==
  ASSUME FollowInv, codex' = codex, client'.at \in {"thread", "turn"},
         client'.request = made.requests + 1,
         \A i \in 1..Len(pipe') : pipe'[i].id <= made.requests
  PROVE  \A o \in 1..Len(codex) : ~Live(o)' /\ Followed(o)'
<1>1. /\ made.requests \in Nat
      /\ \A o \in 1..Len(codex) : codex[o].request \in Nat /\ codex[o].request <= made.requests
  BY CodexIs DEF FollowInv, IdsOK
<1>2. \A o \in 1..Len(codex) : codex'[o].request # client'.request
  BY <1>1
<1>3. \A i \in 1..Len(pipe') : pipe'[i].id # client'.request
  BY <1>1
<1>4. \A o \in 1..Len(codex) : ~Live(o)'
  BY <1>2, <1>3 DEF Live
<1> QED
  BY <1>4 DEF Followed

LEMMA AskedMore ==
  ASSUME TurnTypeOK, IdsOK, NEW r \in Asked, r.id = made.requests + 1, asked' = Append(asked, r)
  PROVE  /\ asked' \in Seq(Asked)
         /\ \A i \in 1..Len(asked') : asked'[i].id <= made.requests + 1
<1>1. asked \in Seq(Asked) /\ made.requests \in Nat /\ asked' \in Seq(Asked)
  BY CodexIs DEF TurnTypeOK
<1>2. /\ \A i \in 1..Len(asked') : i \in 1..Len(asked) \/ i = Len(asked) + 1
      /\ \A i \in 1..Len(asked) : asked'[i] = asked[i]
      /\ asked'[Len(asked) + 1] = r
  BY <1>1
<1>3. \A a \in Asked : a.id \in Nat
  BY DEF Asked
<1>4. \A i \in 1..Len(asked) : asked[i].id \in Nat /\ asked[i].id <= made.requests
  BY <1>1, <1>3 DEF IdsOK
<1> QED
  BY <1>1, <1>2, <1>4

LEMMA BeginKeeps ==
  ASSUME FollowInv, NEW s \in Sessions, Begin(s), alive' = alive
  PROVE  FollowInv'
<1>1. /\ TurnTypeOK /\ IdsOK /\ NotesOK
      /\ \A o \in 1..Len(codex) : Returned(o)
  BY DEF FollowInv
<1>2. PICK kind \in {"thread", "turn"} : Request(s, kind)
  BY DEF Begin
<1>3. UNCHANGED <<threads, pending, pipe, codex, answer, alive>> /\ Unread' = Unread
  BY DEF Begin, Unread
<1>4. PICK r, c : /\ r = [id |-> made.requests + 1, kind |-> kind, thread |-> threads[s]]
                  /\ c = [Idle EXCEPT !.at = kind, !.session = s, !.request = made.requests + 1]
                  /\ asked' = Append(asked, r) /\ client' = c
                  /\ made' = [made EXCEPT !.requests = made.requests + 1, !.turns = made.turns + 1]
  BY <1>2 DEF Request
<1>5. /\ made \in [threads : Nat, requests : Nat, turns : Nat] /\ threads[s] \in Nat
      /\ made.requests \in Nat /\ made.turns \in Nat
  BY <1>1 DEF TurnTypeOK
<1>6. made' \in [threads : Nat, requests : Nat, turns : Nat] /\ made'.requests = made.requests + 1
  <2>1. made' = [made EXCEPT !.requests = made.requests + 1, !.turns = made.turns + 1]
    BY <1>4
  <2>2. PICK x \in Nat, y \in Nat, z \in Nat : made = [threads |-> x, requests |-> y, turns |-> z]
    BY <1>5
  <2>3. made' = [threads |-> x, requests |-> y + 1, turns |-> z + 1]
    BY <2>1, <2>2
  <2> QED
    BY <2>2, <2>3
<1>7. r \in Asked /\ r.id = made.requests + 1
  BY <1>4, <1>5 DEF Asked
<1>8. c \in ReadState /\ c.at = kind /\ c.request = made.requests + 1 /\ c.turn = 0 /\ c.text = <<>>
      /\ c.last = NoMessage
  <2>1. c = [at |-> kind, session |-> s, request |-> made.requests + 1, turn |-> 0, text |-> <<>>,
             last |-> NoMessage]
    BY <1>4 DEF Idle
  <2>2. NoMessage \in Texts
    BY DEF NoMessage, Texts, Pieces
  <2> QED
    BY <1>5, <2>1, <2>2 DEF ReadState
<1>9. asked' \in Seq(Asked) /\ \A i \in 1..Len(asked') : asked'[i].id <= made.requests + 1
  BY <1>1, <1>4, <1>7, AskedMore
<1>10. TurnTypeOK'
  BY <1>1, <1>3, <1>4, <1>6, <1>8, <1>9 DEF TurnTypeOK
<1>11. IdsOK'
  <2>1. \A t \in 1..Len(codex) : codex[t].request \in Nat /\ codex[t].request <= made.requests + 1
    BY SMTT(30), <1>1, <1>5, CodexIs DEF IdsOK
  <2>2. \A i \in 1..Len(pipe) : pipe[i].id \in Nat
    <3>1. \A m \in Messages : m.id \in Nat
      BY DEF Messages
    <3> QED
      BY <1>1, <3>1 DEF TurnTypeOK
  <2>3. \A i \in 1..Len(pipe) : pipe[i].id <= made.requests + 1
    BY <1>1, <1>5, <2>2 DEF IdsOK
  <2>4. made.requests + 1 > 0
    BY <1>5
  <2> QED
    BY <1>3, <1>4, <1>6, <1>8, <1>9, <2>1, <2>3, <2>4 DEF IdsOK
<1>12. NotesOK'
  <2>1. 0 <= Len(codex)
    BY <1>1, CodexIs
  <2> QED
    BY SMTT(30), <1>1, <1>3, <1>4, <1>8, <2>1 DEF NotesOK, EndIsLast, Fits, Over
<1>13. \A o \in 1..Len(codex) : Followed(o)'
  BY <1>1, <1>3, <1>4, <1>8, NothingRead DEF IdsOK
<1>14. \A o \in 1..Len(codex) : Returned(o)'
  BY <1>1, <1>3 DEF Returned, Over
<1> QED
  BY <1>3, <1>10, <1>11, <1>12, <1>13, <1>14 DEF FollowInv

\* What fitted the turns fits them when more of them are begun or over.
LEMMA FitsStill ==
  ASSUME NEW e \in Messages, Fits(e), Len(codex) \in Nat, Len(codex') \in Nat,
         Len(codex) <= Len(codex'), \A t \in 1..Len(codex) : Over(t) => Over(t)'
  PROVE  Fits(e)'
<1>1. e.turn \in Nat
  BY DEF Messages
<1>2. e.turn <= Len(codex')
  BY <1>1 DEF Fits
<1>3. e.kind \in {"completed", "failed"} => e.turn \in 1..Len(codex)
  BY <1>1 DEF Fits, Notes
<1> QED
  BY <1>2, <1>3 DEF Fits

\* The child takes a request: an answer to it, or a turn nothing was written of.
LEMMA TakeRequestKeeps ==
  ASSUME FollowInv, TakeRequest, alive, alive' = alive
  PROVE  FollowInv'
<1>1. /\ TurnTypeOK /\ IdsOK /\ NotesOK
      /\ \A o \in 1..Len(codex) : Followed(o) /\ Returned(o)
  BY DEF FollowInv
<1>2. PICK h : h = Head(asked)
  OBVIOUS
<1>3. /\ asked \in Seq(Asked) /\ asked # <<>> /\ asked' = Tail(asked) /\ h \in Asked
      /\ asked' \in Seq(Asked)
      /\ \A i \in 1..Len(asked') : i + 1 \in 1..Len(asked) /\ asked'[i] = asked[i + 1]
      /\ h = asked[1] /\ 1 \in 1..Len(asked)
  BY SMTT(30), <1>1, <1>2 DEF TakeRequest, TurnTypeOK
<1>4. h.id \in Nat /\ h.thread \in Nat /\ h.id <= made.requests
  BY <1>1, <1>3 DEF Asked, IdsOK
<1>5. \A i \in 1..Len(asked') : asked'[i].id <= made.requests
  BY <1>1, <1>3 DEF IdsOK
<1>6. UNCHANGED <<threads, client, pending>>
  BY DEF TakeRequest
<1>7. made.requests \in Nat /\ made.threads \in Nat /\ made.turns \in Nat /\ Len(codex) \in Nat
  BY <1>1 DEF TurnTypeOK
<1>8. ASSUME NEW m \in Messages, pipe' = Append(pipe, m), UNCHANGED <<codex, answer>>,
             m.kind \in {"response", "error"}, m.id = h.id, m.turn = 0,
             made' \in [threads : Nat, requests : Nat, turns : Nat], made'.requests = made.requests
      PROVE  FollowInv'
  <2>1. Unread' = Append(Unread, m) /\ Unread \in Seq(Messages) /\ pipe \in Seq(Messages)
    <3>1. pending \in Seq(Messages) /\ pipe \in Seq(Messages)
      BY <1>1 DEF TurnTypeOK
    <3> QED
      BY <1>6, <1>8, <3>1, QueueSteps
  <2>2. /\ \A i \in 1..Len(pipe') : i = Len(pipe) + 1 \/ i \in 1..Len(pipe)
        /\ \A i \in 1..Len(pipe) : pipe'[i] = pipe[i]
        /\ pipe'[Len(pipe) + 1] = m /\ pipe' \in Seq(Messages)
    BY <1>8, <2>1
  <2>3. TurnTypeOK'
    BY <1>1, <1>3, <1>6, <1>8, <2>2 DEF TurnTypeOK
  <2>4. IdsOK'
    <3>1. \A i \in 1..Len(pipe') : pipe'[i].id <= made.requests
      BY <1>1, <1>4, <1>8, <2>2 DEF IdsOK
    <3> QED
      BY <1>1, <1>5, <1>6, <1>8, <3>1 DEF IdsOK, Waiting
  <2>5. NotesOK'
    <3>1. Fits(m)' /\ m.kind # "approval"
      BY <1>7, <1>8 DEF Fits, Notes, Pieces
    <3>2. ASSUME NEW o \in 1..Len(codex), NEW kind \in Pieces PROVE EndIsLast(Unread', o, kind)
      <4>1. EndIsLast(Unread, o, kind) /\ ~IsPiece(m, o, kind)
        BY <1>1, <1>8 DEF NotesOK, IsPiece, Pieces
      <4>2. 0 \in Nat
        OBVIOUS
      <4> QED
        BY <2>1, <4>1, <4>2, Appended
    <3>6. Len(codex') \in Nat /\ Len(codex) <= Len(codex') /\ \A o \in 1..Len(codex) : Over(o) => Over(o)'
      BY <1>7, <1>8 DEF Over
    <3>3. ASSUME NEW i \in 1..Len(pipe') PROVE Fits(pipe[i])'
      <4>1. PICK e : e = pipe'[i]
        OBVIOUS
      <4>2. e = m \/ (e \in Messages /\ Fits(e))
        <5>1. \A k \in 1..Len(pipe) : pipe[k] \in Messages /\ Fits(pipe[k])
          BY <1>1, <2>1 DEF NotesOK
        <5>2. CASE i = Len(pipe) + 1
          BY <2>2, <4>1, <5>2
        <5>3. CASE i \in 1..Len(pipe)
          BY <2>2, <4>1, <5>1, <5>3
        <5> QED
          BY <2>2, <5>2, <5>3
      <4>3. Fits(e)'
        BY <1>7, <3>1, <3>6, <4>2, FitsStill
      <4> QED
        BY <4>1, <4>3 DEF Fits, Over
    <3>4. ASSUME NEW i \in 1..Len(pending) PROVE pending[i].kind \in Notes /\ Fits(pending[i])'
      BY <1>1, <1>6, <1>8 DEF NotesOK, Fits, Over
    <3>5. ASSUME NEW i \in 1..Len(pipe'), pipe'[i].kind = "approval"
          PROVE  /\ codex[pipe'[i].turn].state = "waiting"
                 /\ \A j \in 1..Len(pipe') :
                      pipe'[j].kind = "approval" /\ pipe'[j].turn = pipe'[i].turn => i = j
      <4>1. \A k \in 1..Len(pipe') : pipe'[k].kind = "approval" => k \in 1..Len(pipe) /\ pipe'[k] = pipe[k]
        BY <2>2, <3>1
      <4> QED
        BY <1>1, <3>5, <4>1 DEF NotesOK
    <3> QED
      BY <1>1, <1>6, <1>8, <3>2, <3>3, <3>4, <3>5 DEF NotesOK, EndIsLast
  <2>6. ASSUME NEW o \in 1..Len(codex) PROVE Followed(o)'
    <3>1. Live(o)' => Live(o)
      <4>1. m.turn # o
        BY <1>8
      <4> QED
        BY <1>6, <1>8, <2>2, <4>1 DEF Live
    <3>2. \A kind \in Pieces : ~IsPiece(m, o, kind)
      BY <1>8 DEF IsPiece, Pieces
    <3>3. \A kind \in Pieces : \A c, s \in Nat :
            Orderly(Unread, o, kind, c, s) => Orderly(Unread', o, kind, c, s)
      BY <2>1, <3>2, Appended
    <3> QED
      BY <1>6, <1>8, <3>1, <3>3, FollowedStill
  <2> QED
    BY <1>1, <1>8, <2>3, <2>4, <2>5, <2>6 DEF FollowInv, Returned, Over
<1>9. CASE pipe' = Append(pipe, Message("response", h.id, 0, made.threads + 1))
           /\ made' = [made EXCEPT !.threads = @ + 1] /\ UNCHANGED <<codex, answer>>
  <2>1. PICK m : m = Message("response", h.id, 0, made.threads + 1)
    OBVIOUS
  <2>2. m \in Messages /\ m.kind = "response" /\ m.id = h.id /\ m.turn = 0
    BY <1>4, <1>7, <2>1 DEF Message, Messages, MessageKinds
  <2>3. made' \in [threads : Nat, requests : Nat, turns : Nat] /\ made'.requests = made.requests
    BY SMTT(30), <1>1, <1>7, <1>9 DEF TurnTypeOK
  <2> QED
    BY <1>8, <1>9, <2>1, <2>2, <2>3
<1>10. CASE pipe' = Append(pipe, Message("error", h.id, 0, 0)) /\ UNCHANGED <<made, codex, answer>>
  <2>1. PICK m : m = Message("error", h.id, 0, 0)
    OBVIOUS
  <2>2. m \in Messages /\ m.kind = "error" /\ m.id = h.id /\ m.turn = 0
    BY <1>4, <2>1 DEF Message, Messages, MessageKinds
  <2>3. made' \in [threads : Nat, requests : Nat, turns : Nat] /\ made'.requests = made.requests
    BY <1>1, <1>10 DEF TurnTypeOK
  <2> QED
    BY <1>8, <1>10, <2>1, <2>2, <2>3
<1>11. CASE /\ codex' = Append(codex, [thread |-> h.thread, state |-> "running",
                                       request |-> h.id, sent |-> [k \in Pieces |-> 0]])
            /\ answer' = Append(answer, NoText) /\ UNCHANGED <<made, pipe>>
  <2>1. PICK r, n : /\ r = [thread |-> h.thread, state |-> "running", request |-> h.id, sent |-> [k \in Pieces |-> 0]]
                    /\ n = Len(codex) + 1
    OBVIOUS
  <2>2. r \in Turn /\ r.state = "running" /\ r.request = h.id /\ r.sent = [k \in Pieces |-> 0]
    BY <1>4, <2>1 DEF Turn
  <2>3. NoText \in Reply /\ ~NoText.returned
    BY DEF NoText, Reply
  <2>4. codex \in Seq(Turn) /\ answer \in Seq(Reply) /\ Len(answer) = Len(codex) /\ n \in Nat
    BY <1>1, <1>7, <2>1 DEF TurnTypeOK
  <2>5. /\ codex' \in Seq(Turn) /\ Len(codex') = n /\ codex'[n] = r
        /\ \A o \in 1..Len(codex) : codex'[o] = codex[o]
        /\ \A o \in 1..n : o = n \/ o \in 1..Len(codex)
    BY <1>11, <2>1, <2>2, <2>4
  <2>6. /\ answer' \in Seq(Reply) /\ Len(answer') = n /\ answer'[n] = NoText
        /\ \A o \in 1..Len(codex) : answer'[o] = answer[o]
    BY <1>11, <2>1, <2>3, <2>4
  <2>7. Unread' = Unread
    BY <1>6, <1>11 DEF Unread
  <2>8. TurnTypeOK'
    BY <1>1, <1>3, <1>6, <1>11, <2>5, <2>6 DEF TurnTypeOK
  <2>9. IdsOK'
    <3>1. \A o \in 1..n : codex'[o].request <= made.requests
      BY <1>1, <1>4, <2>2, <2>5 DEF IdsOK
    <3> QED
      BY <1>1, <1>5, <1>6, <1>11, <2>5, <3>1 DEF IdsOK, Waiting
  <2>10. \A o \in 1..Len(codex) : Over(o) <=> Over(o)'
    BY <2>5 DEF Over
  <2>11. /\ \A i \in 1..Len(Unread) : Unread[i].turn <= Len(codex) /\ Unread[i].turn \in Nat
         /\ \A i \in 1..Len(pipe) : /\ pipe[i].turn \in Nat /\ pipe[i].turn <= Len(codex)
                                    /\ pipe[i].kind \in Notes \cup {"approval"} =>
                                         pipe[i].turn \in 1..Len(codex)
         /\ \A i \in 1..Len(pending) : pending[i].turn \in 1..Len(codex)
    <3>1. \A e \in Messages : e.turn \in Nat
      BY DEF Messages
    <3> QED
      BY <1>1, <3>1, UnreadFits DEF Fits
  <2>12. \A i \in 1..Len(Unread) : Unread[i].turn # n
    BY <1>7, <2>1, <2>11
  <2>13. NotesOK'
    <3>6. \A e \in Messages : Fits(e) => Fits(e)'
      <4>1. Len(codex') \in Nat /\ Len(codex) <= Len(codex')
        BY <1>7, <2>1, <2>5
      <4> QED
        BY <1>7, <2>10, <4>1, FitsStill
    <3>7. pending \in Seq(Messages) /\ pipe \in Seq(Messages)
      BY <1>1 DEF TurnTypeOK
    <3>1. ASSUME NEW i \in 1..Len(pipe) PROVE Fits(pipe[i])'
      <4>1. PICK e \in Messages : e = pipe[i] /\ Fits(e) /\ Fits(e)'
        BY <1>1, <3>6, <3>7 DEF NotesOK
      <4> QED
        BY <1>11, <4>1 DEF Fits, Over
    <3>2. ASSUME NEW i \in 1..Len(pending) PROVE Fits(pending[i])'
      <4>1. PICK e \in Messages : e = pending[i] /\ Fits(e) /\ Fits(e)'
        BY <1>1, <3>6, <3>7 DEF NotesOK
      <4> QED
        BY <1>6, <4>1 DEF Fits, Over
    <3>3. \A o \in 1..n : \A kind \in Pieces : EndIsLast(Unread, o, kind)
      BY <1>1, <2>5, <2>12 DEF NotesOK, EndIsLast, IsPiece
    <3>4. client.turn <= n
      BY <1>1, <1>7, <2>1, CodexIs DEF NotesOK
    <3>5. ASSUME NEW i \in 1..Len(pipe), pipe[i].kind = "approval"
          PROVE  codex'[pipe[i].turn].state = "waiting"
      BY <1>1, <2>5, <2>11, <3>5 DEF NotesOK
    <3> QED
      BY <1>1, <1>6, <1>11, <2>5, <2>7, <3>1, <3>2, <3>3, <3>4, <3>5 DEF NotesOK, EndIsLast, Fits
  <2>14. ASSUME NEW o \in 1..Len(codex) PROVE Followed(o)' /\ Returned(o)'
    <3>1. Live(o)' => Live(o)
      BY <1>6, <1>11, <2>5 DEF Live
    <3>2. codex'[o].sent = codex[o].sent
      BY <2>5
    <3>3. Followed(o)'
      BY <1>6, <2>7, <3>1, <3>2, FollowedStill
    <3>4. Returned(o)'
      BY <1>1, <2>5, <2>6, <2>10 DEF Returned
    <3> QED
      BY <3>3, <3>4
  <2>15. Followed(n)' /\ Returned(n)'
    <3>1. ASSUME Live(n)' PROVE Waiting
      <4>1. client.at # "stream" \/ client.turn # n
        BY <1>1, <1>7, <2>1, CodexIs DEF NotesOK
      <4> QED
        BY <1>6, <3>1, <4>1 DEF Live, Waiting
    <3>2. Waiting => client.text = <<>> /\ client.last = NoMessage
      BY <1>1 DEF IdsOK
    <3>3. \A kind \in Pieces : Orderly(Unread, n, kind, 0, 0)
      BY <2>12 DEF Orderly, IsPiece
    <3>4. (\A kind \in Pieces : codex'[n].sent[kind] = 0) /\ ~answer'[n].returned
      BY <2>2, <2>3, <2>5, <2>6
    <3>5. Waiting => (\A kind \in Pieces : Read(kind) = 0) /\ ReadOf(n)
      BY <3>2 DEF Read, ReadOf, NoMessage
    <3>6. Live(n)' => ReadOf(n)'
      BY <1>6, <3>1, <3>5 DEF ReadOf
    <3>7. Live(n)' => InOrder(n)'
      <4>1. \A kind \in Pieces : Read(kind)' = Read(kind)
        BY <1>6 DEF Read
      <4> QED
        BY <2>7, <3>1, <3>3, <3>4, <3>5, <4>1 DEF InOrder, Orderly
    <3> QED
      BY <3>4, <3>6, <3>7 DEF Followed, Returned
  <2>16. \A o \in 1..Len(codex') : Followed(o)' /\ Returned(o)'
    BY <2>5, <2>14, <2>15
  <2> QED
    BY <2>8, <2>9, <2>13, <2>16 DEF FollowInv
<1> QED
  BY <1>2, <1>9, <1>10, <1>11 DEF TakeRequest

\* What taking the head of the pipe leaves of the notes.
LEMMA NotesRead ==
  ASSUME FollowInv, pipe # <<>>, pipe' = Tail(pipe), alive' = alive, TurnTypeOK',
         \/ pending' = pending
         \/ pending' = Append(pending, Head(pipe)) /\ Head(pipe).kind \in Notes,
         client'.turn <= Len(codex),
         \/ codex' = codex
         \/ /\ Head(pipe).kind = "approval"
            /\ codex' = [codex EXCEPT ![Head(pipe).turn].state = "running"]
  PROVE  /\ NotesOK' /\ Len(codex') = Len(codex)
         /\ \A o \in 1..Len(codex) : /\ codex'[o].sent = codex[o].sent
                                     /\ codex'[o].request = codex[o].request
                                     /\ (Over(o) <=> Over(o)')
         /\ \A i \in 1..Len(pipe') : i + 1 \in 1..Len(pipe) /\ pipe'[i] = pipe[i + 1]
         /\ \/ pending' = pending /\ Without(Unread, Unread', Len(pending) + 1)
                                  /\ Unread[Len(pending) + 1] = Head(pipe)
            \/ pending' # pending /\ Unread' = Unread
<1>1. /\ TurnTypeOK /\ NotesOK /\ codex \in Seq(Turn) /\ codex' \in Seq(Turn)
      /\ pipe \in Seq(Messages) /\ pending \in Seq(Messages) /\ Len(codex) \in Nat
      /\ pipe' \in Seq(Messages) /\ pending' \in Seq(Messages)
  BY DEF FollowInv, TurnTypeOK
<1>2. PICK m \in Messages : m = Head(pipe) /\ m = pipe[1] /\ 1 \in 1..Len(pipe)
  BY <1>1
<1>3. \A i \in 1..Len(pipe') : i + 1 \in 1..Len(pipe) /\ pipe'[i] = pipe[i + 1] /\ i + 1 # 1
  BY <1>1
<1>4. m.kind = "approval" => /\ m.turn \in 1..Len(codex)
                             /\ alive => codex[m.turn].state = "waiting"
  BY <1>1, <1>2, UnreadFits DEF NotesOK
<1>5. /\ Len(codex') = Len(codex)
      /\ \A o \in 1..Len(codex) :
           /\ codex'[o].sent = codex[o].sent /\ codex'[o].request = codex[o].request
           /\ codex'[o].state = codex[o].state \/
                (m.kind = "approval" /\ o = m.turn /\ codex'[o].state = "running")
  <2>1. CASE codex' = codex
    BY <2>1
  <2>2. CASE m.kind = "approval" /\ codex' = [codex EXCEPT ![m.turn].state = "running"]
    <3>1. PICK t : t = m.turn /\ t \in 1..Len(codex) /\ codex' = [codex EXCEPT ![t].state = "running"]
      BY <1>4, <2>2
    <3>2. /\ Len(codex') = Len(codex) /\ codex'[t] = [codex[t] EXCEPT !.state = "running"]
          /\ \A o \in 1..Len(codex) : o # t => codex'[o] = codex[o]
      <4>1. PICK r : r = [codex[t] EXCEPT !.state = "running"]
        OBVIOUS
      <4>2. codex' = [codex EXCEPT ![t] = r]
        BY <3>1, <4>1
      <4>3. DOMAIN codex' = DOMAIN codex /\ DOMAIN codex = 1..Len(codex) /\ DOMAIN codex' = 1..Len(codex')
        BY <1>1, <4>2
      <4>4. Len(codex') = Len(codex)
        BY <1>1, <4>3
      <4> QED
        BY SMTT(30), <1>1, <3>1, <4>1, <4>2, <4>4
    <3>3. codex[t] \in Turn
      BY <1>1, <3>1
    <3>4. /\ codex'[t].sent = codex[t].sent /\ codex'[t].request = codex[t].request
          /\ codex'[t].state = "running"
      BY <3>2, <3>3 DEF Turn
    <3> QED
      BY <2>2, <3>1, <3>2, <3>4
  <2> QED
    BY <1>2, <2>1, <2>2
<1>6. \A o \in 1..Len(codex) : Over(o) <=> Over(o)'
  BY <1>4, <1>5 DEF Over
<1>7. \A e \in Messages : Fits(e) => Fits(e)'
  BY <1>1, <1>5, <1>6, FitsStill
<1>8. \A i \in 1..Len(pipe) : pipe[i] \in Messages /\ Fits(pipe[i])
  BY <1>1 DEF NotesOK
<1>9. ASSUME NEW i \in 1..Len(pipe') PROVE Fits(pipe[i])'
  <2>1. PICK e \in Messages : e = pipe'[i] /\ Fits(e)
    BY <1>3, <1>8
  <2>2. Fits(e)'
    BY <1>7, <2>1
  <2> QED
    BY <2>1, <2>2 DEF Fits, Over
<1>10. ASSUME NEW i \in 1..Len(pending') PROVE pending'[i].kind \in Notes /\ Fits(pending[i])'
  <2>1. \A k \in 1..Len(pending) : pending[k] \in Messages /\ Fits(pending[k]) /\ pending[k].kind \in Notes
    BY <1>1 DEF NotesOK
  <2>2. m \in Messages /\ Fits(m)
    BY <1>2, <1>8
  <2>3. \/ \E k \in 1..Len(pending) : pending'[i] = pending[k]
        \/ pending'[i] = m /\ m.kind \in Notes
    BY <1>1, <1>2
  <2>4. PICK e \in Messages : e = pending'[i] /\ Fits(e) /\ e.kind \in Notes
    BY <2>1, <2>2, <2>3
  <2>5. Fits(e)'
    BY <1>7, <2>4
  <2> QED
    BY <2>4, <2>5 DEF Fits, Over
<1>11. \/ pending' = pending /\ Without(Unread, Unread', Len(pending) + 1)
                             /\ Unread[Len(pending) + 1] = Head(pipe)
       \/ pending' # pending /\ Unread' = Unread
  <2>1. CASE pending' = pending
    BY <1>1, <2>1, QueueSteps
  <2>2. CASE pending' # pending
    BY <1>1, <2>2, QueueSteps
  <2> QED
    BY <2>1, <2>2
<1>12. ASSUME NEW o \in 1..Len(codex), NEW kind \in Pieces PROVE EndIsLast(Unread', o, kind)
  <2>1. EndIsLast(Unread, o, kind) /\ Unread \in Seq(Messages) /\ 0 \in Nat
    BY <1>1, QueueSteps DEF NotesOK
  <2>2. Unread' \in Seq(Messages)
    <3>1. pending' \in Seq(Messages) /\ pipe' \in Seq(Messages)
      BY <1>1
    <3> QED
      BY <3>1 DEF Unread
  <2> QED
    BY <1>11, <2>1, <2>2, Removed
<1>13. ASSUME alive', NEW i \in 1..Len(pipe'), pipe'[i].kind = "approval"
       PROVE  /\ codex'[pipe'[i].turn].state = "waiting"
              /\ \A j \in 1..Len(pipe') :
                   pipe'[j].kind = "approval" /\ pipe'[j].turn = pipe'[i].turn => i = j
  <2>1. PICK k \in 1..Len(pipe) : k = i + 1 /\ pipe'[i] = pipe[k] /\ k # 1
    BY <1>3
  <2>2. /\ pipe[k].turn \in 1..Len(codex) /\ codex[pipe[k].turn].state = "waiting"
        /\ \A j \in 1..Len(pipe) : pipe[j].kind = "approval" /\ pipe[j].turn = pipe[k].turn => k = j
    BY <1>1, <1>13, <2>1, UnreadFits DEF NotesOK
  <2>3. ~(m.kind = "approval" /\ pipe[k].turn = m.turn)
    BY <1>2, <2>1, <2>2
  <2>4. codex'[pipe[k].turn].state = "waiting"
    BY <1>5, <2>2, <2>3
  <2>5. ASSUME NEW j \in 1..Len(pipe'), pipe'[j].kind = "approval", pipe'[j].turn = pipe'[i].turn
        PROVE  i = j
    <3>1. j + 1 \in 1..Len(pipe) /\ pipe'[j] = pipe[j + 1]
      BY <1>3
    <3>2. k = j + 1
      BY <2>1, <2>2, <2>5, <3>1
    <3> QED
      BY <2>1, <3>2
  <2> QED
    BY <2>1, <2>4, <2>5
<1>14. NotesOK'
  <2>1. client'.turn <= Len(codex')
    BY <1>5
  <2>2. \A o \in 1..Len(codex') : \A kind \in Pieces : EndIsLast(Unread, o, kind)'
    BY <1>5, <1>12 DEF EndIsLast
  <2> QED
    BY <1>9, <1>10, <1>13, <2>1, <2>2 DEF NotesOK
<1> QED
  BY <1>3, <1>5, <1>6, <1>11, <1>14

\* A message that adds no text and ends nothing: the reading goes on or ends.
LEMMA ReadPlain ==
  ASSUME FollowInv, pipe # <<>>, pipe' = Tail(pipe), alive' = alive,
         Head(pipe).kind \notin Notes, pending' = pending, TurnTypeOK', IdsOK',
         answer' = answer, client'.turn <= Len(codex),
         \/ codex' = codex
         \/ /\ Head(pipe).kind = "approval"
            /\ codex' = [codex EXCEPT ![Head(pipe).turn].state = "running"],
         \A o \in 1..Len(codex) :
           Live(o)' => Live(o) /\ client'.text = client.text /\ client'.last = client.last
  PROVE  FollowInv'
<1>1. /\ NotesOK' /\ Len(codex') = Len(codex)
      /\ \A o \in 1..Len(codex) : /\ codex'[o].sent = codex[o].sent
                                  /\ (Over(o) <=> Over(o)')
      /\ Without(Unread, Unread', Len(pending) + 1)
      /\ Unread[Len(pending) + 1] = Head(pipe)
  BY NotesRead
<1>2. Unread \in Seq(Messages) /\ Unread' \in Seq(Messages)
  <2>1. pipe \in Seq(Messages) /\ pending \in Seq(Messages) /\ pipe' \in Seq(Messages) /\ pending' \in Seq(Messages)
    BY DEF FollowInv, TurnTypeOK
  <2> QED
    BY <2>1 DEF Unread
<1>3. ASSUME NEW o \in 1..Len(codex) PROVE Followed(o)' /\ Returned(o)'
  <2>1. \A kind \in Pieces : ~IsPiece(Unread[Len(pending) + 1], o, kind)
    BY <1>1 DEF IsPiece, Notes
  <2>2. \A kind \in Pieces : \A c, s \in Nat :
          Orderly(Unread, o, kind, c, s) => Orderly(Unread', o, kind, c, s)
    BY <1>1, <1>2, <2>1, Removed
  <2>3. Followed(o)'
    BY <1>1, <2>2, FollowedStill
  <2>4. Returned(o)'
    BY <1>1 DEF FollowInv, Returned
  <2> QED
    BY <2>3, <2>4
<1> QED
  BY <1>1, <1>3 DEF FollowInv

\* The messages that are left had numbers before.
LEMMA IdsLeft ==
  ASSUME FollowInv, pipe # <<>>, pipe' = Tail(pipe)
  PROVE  /\ pipe' \in Seq(Messages) /\ Head(pipe) \in Messages
         /\ \A i \in 1..Len(pipe') : \E j \in 1..Len(pipe) : pipe'[i] = pipe[j]
         /\ \A i \in 1..Len(pipe') : pipe'[i].id <= made.requests
<1>1. pipe \in Seq(Messages) /\ \A i \in 1..Len(pipe) : pipe[i].id <= made.requests
  BY DEF FollowInv, TurnTypeOK, IdsOK
<1>2. /\ pipe' \in Seq(Messages) /\ Head(pipe) \in Messages
      /\ \A i \in 1..Len(pipe') : i + 1 \in 1..Len(pipe) /\ pipe'[i] = pipe[i + 1]
  BY <1>1
<1> QED
  BY <1>1, <1>2

LEMMA KeepKeeps ==
  ASSUME FollowInv, pipe # <<>>, pipe' = Tail(pipe), alive' = alive, Keep(Head(pipe))
  PROVE  FollowInv'
<1>1. /\ TurnTypeOK /\ IdsOK /\ NotesOK /\ pending \in Seq(Messages)
  BY DEF FollowInv, TurnTypeOK
<1>2. /\ pending' = Append(pending, Head(pipe)) /\ Head(pipe).kind \in Notes
      /\ UNCHANGED <<threads, client, codex, answer, asked, made>>
  BY DEF Keep
<1>3. /\ pipe' \in Seq(Messages) /\ pending' \in Seq(Messages) /\ pending' # pending
      /\ \A i \in 1..Len(pipe') : \E j \in 1..Len(pipe) : pipe'[i] = pipe[j]
      /\ \A i \in 1..Len(pipe') : pipe'[i].id <= made.requests
  <2>1. Len(pending') # Len(pending) /\ pending' \in Seq(Messages)
    BY <1>1, <1>2, IdsLeft
  <2> QED
    BY <2>1, IdsLeft
<1>4. TurnTypeOK'
  BY <1>1, <1>2, <1>3 DEF TurnTypeOK
<1>5. IdsOK'
  BY <1>1, <1>2, <1>3 DEF IdsOK, Waiting
<1>6. client'.turn <= Len(codex) /\ codex' = codex
  BY <1>1, <1>2 DEF NotesOK
<1>7. /\ NotesOK' /\ Unread' = Unread
  BY <1>2, <1>3, <1>4, <1>6, NotesRead
<1>8. ASSUME NEW o \in 1..Len(codex) PROVE Followed(o)' /\ Returned(o)'
  <2>1. Live(o)' => Live(o)
    BY <1>2, <1>3 DEF Live
  <2>2. Followed(o)'
    BY <1>2, <1>7, <2>1, FollowedStill
  <2>3. Returned(o)'
    BY <1>2 DEF FollowInv, Returned, Over
  <2> QED
    BY <2>2, <2>3
<1> QED
  BY <1>2, <1>4, <1>5, <1>7, <1>8 DEF FollowInv

LEMMA ServeKeeps ==
  ASSUME FollowInv, pipe # <<>>, pipe' = Tail(pipe), alive' = alive, Serve(Head(pipe))
  PROVE  FollowInv'
<1>1. TurnTypeOK /\ IdsOK /\ NotesOK /\ codex \in Seq(Turn)
  BY DEF FollowInv, TurnTypeOK
<1>2. /\ UNCHANGED <<threads, pending, answer, asked, made>> /\ Head(pipe).kind \notin Notes
      /\ client' = client \/ client' = Idle
      /\ \/ codex' = codex
         \/ /\ Head(pipe).kind = "approval"
            /\ codex' = [codex EXCEPT ![Head(pipe).turn].state = "running"]
  BY DEF Serve, GiveUp, Notes, Pieces
<1>3. /\ pipe' \in Seq(Messages)
      /\ \A i \in 1..Len(pipe') : \E j \in 1..Len(pipe) : pipe'[i] = pipe[j]
      /\ \A i \in 1..Len(pipe') : pipe'[i].id <= made.requests
  BY IdsLeft
<1>4. /\ codex' \in Seq(Turn) /\ Len(codex') = Len(codex)
      /\ \A o \in 1..Len(codex) : codex'[o].request = codex[o].request
  <2>1. CASE codex' = codex
    BY <1>1, <2>1
  <2>2. CASE /\ Head(pipe).kind = "approval"
             /\ codex' = [codex EXCEPT ![Head(pipe).turn].state = "running"]
    <3>1. Head(pipe) = pipe[1] /\ 1 \in 1..Len(pipe)
      BY <1>1 DEF TurnTypeOK
    <3>2. PICK t : t = Head(pipe).turn /\ t \in 1..Len(codex)
      BY <1>1, <2>2, <3>1, UnreadFits
    <3>3. PICK r : r = [codex[t] EXCEPT !.state = "running"]
      OBVIOUS
    <3>4. codex' = [codex EXCEPT ![t] = r]
      BY <2>2, <3>2, <3>3
    <3>5. r \in Turn /\ r.request = codex[t].request
      <4>1. codex[t] \in Turn
        BY <1>1, <3>2
      <4> QED
        BY <3>3, <4>1 DEF Turn
    <3>6. codex' \in Seq(Turn) /\ Len(codex') = Len(codex)
      <4>1. codex' \in [1..Len(codex) -> Turn] /\ Len(codex) \in Nat
        BY <1>1, <3>2, <3>4, <3>5
      <4> QED
        BY <4>1
    <3> QED
      BY <1>1, <3>2, <3>4, <3>5, <3>6
  <2> QED
    BY <1>2, <2>1, <2>2
<1>5. TurnTypeOK'
  BY <1>1, <1>2, <1>3, <1>4, IdleState DEF TurnTypeOK
<1>6. IdsOK'
  BY <1>1, <1>2, <1>3, <1>4, IdleState DEF IdsOK, Waiting
<1>7. client'.turn <= Len(codex)
  <2>1. 0 <= Len(codex)
    BY <1>1
  <2> QED
    BY <1>1, <1>2, <2>1, IdleState DEF NotesOK
<1>8. \A o \in 1..Len(codex) :
        Live(o)' => Live(o) /\ client'.text = client.text /\ client'.last = client.last
  BY <1>2, <1>3, <1>4, IdleState DEF Live
<1> QED
  BY <1>2, <1>5, <1>6, <1>7, <1>8, ReadPlain

LEMMA ReceiveKeeps ==
  ASSUME FollowInv, pipe # <<>>, pipe' = Tail(pipe), alive' = alive, Receive(Head(pipe))
  PROVE  FollowInv'
<1>1. TurnTypeOK /\ IdsOK /\ NotesOK
  BY DEF FollowInv
<1>2. PICK m : m = Head(pipe) /\ m \in Messages
  BY IdsLeft
<1>3. /\ m.kind \in {"response", "error"} /\ client.at # "idle"
      /\ UNCHANGED <<pending, codex, answer>> /\ Receive(m)
  BY <1>2 DEF Receive
<1>4. /\ pipe' \in Seq(Messages)
      /\ \A i \in 1..Len(pipe') : \E j \in 1..Len(pipe) : pipe'[i] = pipe[j]
      /\ \A i \in 1..Len(pipe') : pipe'[i].id <= made.requests
      /\ Head(pipe) = pipe[1] /\ 1 \in 1..Len(pipe)
  <2>1. pipe \in Seq(Messages)
    BY <1>1 DEF TurnTypeOK
  <2> QED
    BY <2>1, IdsLeft
<1>5. Head(pipe).kind \notin Notes
  BY <1>2, <1>3 DEF Notes, Pieces
<1>6. /\ Len(codex) \in Nat /\ m.turn \in Nat /\ m.turn <= Len(codex) /\ m.n \in Nat
      /\ made.requests \in Nat /\ 0 <= Len(codex)
  <2>1. Len(codex) \in Nat /\ made.requests \in Nat /\ m.turn \in Nat /\ m.n \in Nat
    BY <1>1, <1>2, CodexIs DEF Messages
  <2>2. Fits(m)
    BY <1>1, <1>2, <1>4 DEF NotesOK
  <2> QED
    BY <2>1, <2>2 DEF Fits
<1>7. CASE client' = Idle /\ UNCHANGED <<threads, asked, made>>
  <2>1. TurnTypeOK'
    BY <1>1, <1>3, <1>4, <1>7, IdleState DEF TurnTypeOK
  <2>2. IdsOK'
    BY <1>1, <1>3, <1>4, <1>7, IdleState DEF IdsOK, Waiting
  <2>3. client'.turn <= Len(codex) /\ \A o \in 1..Len(codex) : ~Live(o)'
    BY <1>6, <1>7, IdleState DEF Live
  <2> QED
    BY <1>3, <1>5, <2>1, <2>2, <2>3, ReadPlain
<1>8. CASE UNCHANGED <<threads, client, asked, made>>
  <2>1. TurnTypeOK'
    BY <1>1, <1>3, <1>4, <1>8 DEF TurnTypeOK
  <2>2. IdsOK'
    BY <1>1, <1>3, <1>4, <1>8 DEF IdsOK, Waiting
  <2>3. client'.turn <= Len(codex) /\ \A o \in 1..Len(codex) : Live(o)' => Live(o)
    BY <1>1, <1>3, <1>4, <1>8 DEF NotesOK, Live
  <2> QED
    BY <1>3, <1>5, <1>8, <2>1, <2>2, <2>3, ReadPlain
<1>9. CASE /\ client.at = "turn" /\ m.kind = "response" /\ m.id = client.request
           /\ client' = [client EXCEPT !.at = "stream", !.turn = m.turn]
           /\ UNCHANGED <<threads, asked, made>>
  <2>1. client \in ReadState
    BY <1>1 DEF TurnTypeOK
  <2>2. /\ client' \in ReadState /\ client'.at = "stream" /\ client'.turn = m.turn
        /\ client'.request = client.request /\ client'.text = client.text
        /\ client'.last = client.last
    BY <1>6, <1>9, <2>1 DEF ReadState
  <2>3. TurnTypeOK'
    BY <1>1, <1>3, <1>4, <1>9, <2>2 DEF TurnTypeOK
  <2>4. IdsOK'
    BY <1>1, <1>3, <1>4, <1>9, <2>2 DEF IdsOK, Waiting
  <2>5. ASSUME NEW o \in 1..Len(codex), Live(o)' PROVE Live(o)
    <3>1. m.turn = o
      BY <2>2, <2>5 DEF Live
    <3> QED
      BY <1>2, <1>4, <1>9, <3>1 DEF Live
  <2> QED
    BY <1>3, <1>5, <1>6, <2>2, <2>3, <2>4, <2>5, ReadPlain
<1>10. CASE /\ client.at = "thread" /\ m.kind = "response" /\ m.id = client.request
            /\ threads' = [threads EXCEPT ![client.session] = m.n]
            /\ asked' = Append(asked, [id |-> made.requests + 1, kind |-> "turn", thread |-> m.n])
            /\ made' = [made EXCEPT !.requests = @ + 1]
            /\ client' = [client EXCEPT !.at = "turn", !.request = made.requests + 1]
  <2>1. client \in ReadState /\ made \in [threads : Nat, requests : Nat, turns : Nat]
    BY <1>1 DEF TurnTypeOK
  <2>2. /\ client' \in ReadState /\ client'.at = "turn" /\ client'.turn = client.turn
        /\ client'.request = made.requests + 1 /\ client'.text = client.text
        /\ client'.last = client.last
    <3>1. client' = [client EXCEPT !.at = "turn", !.request = made.requests + 1]
      BY <1>10
    <3>2. client' = [at |-> "turn", session |-> client.session, request |-> made.requests + 1,
                     turn |-> client.turn, text |-> client.text, last |-> client.last]
      BY <2>1, <3>1 DEF ReadState
    <3>3. /\ client.session \in Sessions /\ client.turn \in Nat
          /\ client.text \in Seq(Texts) /\ client.last \in Texts /\ made.requests + 1 \in Nat
      BY <1>6, <2>1 DEF ReadState
    <3> QED
      BY <3>2, <3>3 DEF ReadState
  <2>3. made' \in [threads : Nat, requests : Nat, turns : Nat] /\ made'.requests = made.requests + 1
    <3>1. made' = [made EXCEPT !.requests = made.requests + 1]
      BY <1>10
    <3>2. PICK x \in Nat, y \in Nat, z \in Nat : made = [threads |-> x, requests |-> y, turns |-> z]
      BY <2>1
    <3>3. made' = [threads |-> x, requests |-> y + 1, turns |-> z]
      BY <3>1, <3>2
    <3> QED
      BY <3>2, <3>3
  <2>4. threads' \in [Sessions -> Nat]
    BY <1>1, <1>6, <1>10 DEF TurnTypeOK
  <2>5. PICK r : r = [id |-> made.requests + 1, kind |-> "turn", thread |-> m.n]
    OBVIOUS
  <2>6. r \in Asked /\ r.id = made.requests + 1
    BY <1>6, <2>5 DEF Asked
  <2>7. asked' \in Seq(Asked) /\ \A i \in 1..Len(asked') : asked'[i].id <= made.requests + 1
    BY <1>1, <1>10, <2>5, <2>6, AskedMore
  <2>8. TurnTypeOK'
    BY <1>1, <1>3, <1>4, <2>2, <2>3, <2>4, <2>7 DEF TurnTypeOK
  <2>9. \A o \in 1..Len(codex) : ~Live(o)'
    BY <1>3, <1>4, <2>2, NothingRead
  <2>10. IdsOK'
    <3>1. \A t \in 1..Len(codex) : codex[t].request \in Nat /\ codex[t].request <= made.requests + 1
      BY SMTT(30), <1>1, <1>6, CodexIs DEF IdsOK
    <3>2. \A i \in 1..Len(pipe') : pipe'[i].id \in Nat
      <4>1. \A e \in Messages : e.id \in Nat
        BY DEF Messages
      <4> QED
        BY <1>4, <4>1
    <3>3. \A i \in 1..Len(pipe') : pipe'[i].id <= made.requests + 1
      BY SMTT(30), <1>4, <1>6, <3>2
    <3>4. made.requests + 1 > 0 /\ client.text = <<>> /\ client.last = NoMessage
      BY <1>1, <1>6, <1>10 DEF IdsOK, Waiting
    <3> QED
      BY <1>3, <2>2, <2>3, <2>7, <3>1, <3>3, <3>4 DEF IdsOK
  <2>11. client'.turn <= Len(codex)
    BY <1>1, <2>2 DEF NotesOK
  <2> QED
    BY <1>3, <1>5, <2>8, <2>9, <2>10, <2>11, ReadPlain
<1> QED
  BY <1>3, <1>7, <1>8, <1>9, <1>10 DEF Receive, GiveUp

\* What taking the first message leaves of the pieces of a kind.
LEMMA FirstRemoved ==
  ASSUME NEW u \in Seq(Messages), NEW v \in Seq(Messages), Without(u, v, 1),
         NEW t, NEW kind \in Pieces, NEW c \in Nat, NEW s \in Nat, Orderly(u, t, kind, c, s)
  PROVE  /\ IsPiece(u[1], t, kind) =>
              u[1].n = c + 1 /\ c + 1 <= s /\ Orderly(v, t, kind, c + 1, s)
         /\ ~IsPiece(u[1], t, kind) => Orderly(v, t, kind, c, s)
         /\ IsEnd(u[1], t) /\ EndIsLast(u, t, kind) => s <= c
<1>1. PICK k : k = 1 /\ Without(u, v, k)
  OBVIOUS
<1>2. /\ ~IsPiece(u[k], t, kind) /\ Orderly(u, t, kind, c, s) => Orderly(v, t, kind, c, s)
      /\ k = 1 /\ IsPiece(u[1], t, kind) /\ Orderly(u, t, kind, c, s) =>
           u[1].n = c + 1 /\ Orderly(v, t, kind, c + 1, s)
      /\ k = 1 /\ IsEnd(u[1], t) /\ EndIsLast(u, t, kind) /\ Orderly(u, t, kind, c, s) => s <= c
  BY <1>1, Removed
<1>3. 1 \in 1..Len(u)
  BY DEF Without
<1>4. IsPiece(u[1], t, kind) => u[1].n <= s
  BY <1>3 DEF Orderly
<1> QED
  BY <1>1, <1>2, <1>4

\* The first of the messages that are unread, when the daemon reads a turn.
LEMMA StreamKeeps ==
  ASSUME FollowInv, NEW m, Stream(m), alive' = alive, pending' \in Seq(Messages),
         pipe' \in Seq(Messages), Without(Unread, Unread', 1), Unread[1] = m,
         \A i \in 1..Len(pipe') : pipe'[i].id <= made.requests,
         client'.turn <= Len(codex) => NotesOK'
  PROVE  FollowInv'
<1>1. /\ TurnTypeOK /\ IdsOK /\ NotesOK
      /\ \A o \in 1..Len(codex) : Followed(o) /\ Returned(o)
  BY DEF FollowInv
<1>2. /\ client.at = "stream" /\ m.kind \in Notes
      /\ UNCHANGED <<threads, codex, asked, made>>
  BY DEF Stream
<1>3. Unread \in Seq(Messages) /\ Unread' \in Seq(Messages) /\ 1 \in 1..Len(Unread)
  <2>1. pipe \in Seq(Messages) /\ pending \in Seq(Messages)
    BY <1>1 DEF TurnTypeOK
  <2> QED
    BY <2>1 DEF Unread, Without
<1>4. m \in Messages /\ Fits(m) /\ m.turn \in 1..Len(codex) /\ m.n \in Nat
  <2>1. m \in Messages /\ Fits(m)
    BY <1>1, <1>3, UnreadFits
  <2>2. m.turn \in Nat /\ m.n \in Nat /\ Len(codex) \in Nat
    BY <1>1, <2>1, CodexIs DEF Messages
  <2> QED
    BY <1>2, <2>1, <2>2 DEF Fits
<1>5. client \in ReadState /\ client.turn \in Nat /\ client.turn <= Len(codex) /\ Len(codex) \in Nat
      /\ client.text \in Seq(Texts) /\ client.last \in Texts /\ 0 <= Len(codex)
      /\ \A kind \in Pieces : Read(kind) \in Nat
  <2>1. client \in ReadState /\ client.turn <= Len(codex)
    BY <1>1 DEF TurnTypeOK, NotesOK
  <2> QED
    BY <1>1, <2>1, CodexIs
<1>6. CASE m.turn # client.turn /\ UNCHANGED <<client, answer>>
  <2>1. TurnTypeOK' /\ IdsOK' /\ NotesOK'
    BY <1>1, <1>2, <1>5, <1>6 DEF TurnTypeOK, IdsOK, Waiting
  <2>2. ASSUME NEW o \in 1..Len(codex) PROVE Followed(o)'
    <3>1. Live(o)' => client.turn = o
      BY <1>2, <1>6 DEF Live
    <3>2. Live(o)' => (\A kind \in Pieces : ~IsPiece(m, o, kind)) /\ Live(o)
      BY <1>2, <1>6, <3>1 DEF IsPiece, Live
    <3>3. Live(o)' => \A kind \in Pieces : \A c, s \in Nat :
                        Orderly(Unread, o, kind, c, s) => Orderly(Unread', o, kind, c, s)
      BY <1>3, <3>2, Removed
    <3> QED
      BY <1>2, <1>6, <3>2, <3>3, FollowedStill
  <2> QED
    BY <1>1, <1>2, <1>6, <2>1, <2>2 DEF FollowInv, Returned, Over
<1>7. CASE m.turn = client.turn /\ m.kind \in Pieces /\ Add(m) /\ UNCHANGED answer
  <2>1. PICK t \in 1..Len(codex), k \in Pieces : t = m.turn /\ k = m.kind
    BY <1>4, <1>7
  <2>2. PICK c \in Nat, s \in Nat : c = Read(k) /\ s = codex[t].sent[k]
    BY <1>1, <1>5, <2>1, CodexIs
  <2>3. ReadOf(t) /\ InOrder(t) /\ c <= s /\ Orderly(Unread, t, k, c, s)
    BY <1>1, <1>2, <1>7, <2>1, <2>2 DEF Followed, Live, InOrder
  <2>4. m.n = c + 1 /\ Orderly(Unread', t, k, c + 1, s) /\ c + 1 <= s
    <3>1. IsPiece(Unread[1], t, k)
      BY <1>7, <2>1 DEF IsPiece
    <3> QED
      BY <1>3, <2>3, <3>1, FirstRemoved
  <2>5. PICK piece : piece = <<k, t, c + 1>> /\ piece \in Texts /\ Piece(m) = piece
    <3>1. t \in Nat /\ c + 1 \in Nat /\ <<k, t, c + 1>> \in Texts
      BY <1>4, <2>1, <2>2 DEF Texts
    <3>2. Piece(m) = <<k, t, c + 1>>
      BY <2>1, <2>4 DEF Piece
    <3> QED
      BY <3>1, <3>2
  <2>6. /\ client' \in ReadState /\ client'.at = "stream" /\ client'.turn = t
        /\ client'.request = client.request
        /\ client'.text = IF k = "delta" THEN Append(client.text, piece) ELSE client.text
        /\ client'.last = IF k = "delta" THEN client.last ELSE piece
    <3>1. CASE k = "delta"
      <4>1. client' = [client EXCEPT !.text = Append(client.text, piece)]
        BY <1>7, <2>1, <2>5, <3>1 DEF Add
      <4>2. Append(client.text, piece) \in Seq(Texts)
        BY <1>5, <2>5
      <4> QED
        BY <1>2, <1>5, <1>7, <2>1, <3>1, <4>1, <4>2 DEF ReadState
    <3>2. CASE k # "delta"
      <4>1. client' = [client EXCEPT !.last = piece]
        BY <1>7, <2>1, <2>5, <3>2 DEF Add
      <4> QED
        BY <1>2, <1>5, <1>7, <2>1, <2>5, <3>2, <4>1 DEF ReadState
    <3> QED
      BY <3>1, <3>2
  <2>7. TurnTypeOK' /\ IdsOK' /\ NotesOK'
    BY <1>1, <1>2, <1>5, <1>7, <2>1, <2>6 DEF TurnTypeOK, IdsOK, Waiting
  <2>8. ReadOf(t)' /\ \A kind \in Pieces : Read(kind)' = IF kind = k THEN c + 1 ELSE Read(kind)
    <3>1. CASE k = "delta"
      <4>1. client.text = [n \in 1..c |-> <<"delta", t, n>>] /\ Len(client.text) = c
        BY <2>2, <2>3, <3>1 DEF ReadOf, Read
      <4>2. client'.text = Append([n \in 1..c |-> <<"delta", t, n>>], <<"delta", t, c + 1>>)
        BY <2>5, <2>6, <3>1, <4>1
      <4>3. Len(client'.text) = c + 1 /\ client'.text = [n \in 1..(c + 1) |-> <<"delta", t, n>>]
        BY SMTT(30), <2>2, <4>2
      <4>4. client'.last = client.last
        BY <2>6, <3>1
      <4>5. ReadOf(t)'
        BY <2>3, <4>3, <4>4 DEF ReadOf
      <4>6. \A kind \in Pieces : Read(kind)' = IF kind = k THEN c + 1 ELSE Read(kind)
        BY <3>1, <4>3, <4>4 DEF Read
      <4> QED
        BY <4>5, <4>6
    <3>2. CASE k = "message"
      <4>1. client'.text = client.text /\ client'.last = <<"message", t, c + 1>>
        BY <2>5, <2>6, <3>2
      <4>2. client'.last[3] = c + 1 /\ c + 1 # 0
        BY <2>2, <4>1
      <4>3. ReadOf(t)'
        BY <2>3, <4>1, <4>2 DEF ReadOf
      <4>4. \A kind \in Pieces : Read(kind)' = IF kind = k THEN c + 1 ELSE Read(kind)
        BY <3>2, <4>1, <4>2 DEF Read, Pieces
      <4> QED
        BY <4>3, <4>4
    <3> QED
      BY <3>1, <3>2 DEF Pieces
  <2>9. ASSUME NEW kind \in Pieces
        PROVE  /\ Read(kind)' <= codex[t].sent[kind]
               /\ Orderly(Unread', t, kind, Read(kind)', codex[t].sent[kind])
    <3>1. CASE kind = k
      BY <2>2, <2>4, <2>8, <3>1
    <3>2. CASE kind # k
      <4>1. Read(kind)' = Read(kind) /\ Read(kind) \in Nat /\ codex[t].sent[kind] \in Nat
        BY <1>1, <1>5, <2>8, <3>2, CodexIs
      <4>2. Read(kind) <= codex[t].sent[kind] /\ Orderly(Unread, t, kind, Read(kind), codex[t].sent[kind])
        BY <2>3 DEF InOrder
      <4>3. ~IsPiece(Unread[1], t, kind)
        BY <2>1, <3>2 DEF IsPiece
      <4>4. Orderly(Unread', t, kind, Read(kind), codex[t].sent[kind])
        <5>1. PICK d \in Nat, e \in Nat : d = Read(kind) /\ e = codex[t].sent[kind]
          BY <4>1
        <5>2. Orderly(Unread, t, kind, d, e)
          BY <4>2, <5>1
        <5>3. Orderly(Unread', t, kind, d, e)
          BY <1>3, <4>3, <5>2, FirstRemoved
        <5> QED
          BY <5>1, <5>3
      <4> QED
        BY <4>1, <4>2, <4>4
    <3> QED
      BY <3>1, <3>2
  <2>10. InOrder(t)'
    BY <1>2, <2>9 DEF InOrder, Orderly
  <2>11. ASSUME NEW o \in 1..Len(codex) PROVE Followed(o)'
    <3>1. Live(o)' => o = t
      BY <2>6 DEF Live
    <3> QED
      BY <2>8, <2>10, <3>1 DEF Followed
  <2> QED
    BY <1>1, <1>2, <1>7, <2>7, <2>11 DEF FollowInv, Returned, Own, Over
<1>8. CASE m.turn = client.turn /\ m.kind \notin Pieces /\ Finish(m)
  <2>0. client' = Idle
    BY <1>8 DEF Finish, GiveUp
  <2>1. PICK t \in 1..Len(codex) : t = m.turn
    BY <1>4
  <2>2. IsEnd(Unread[1], t) /\ Over(t)
    BY <1>2, <1>4, <1>8, <2>1 DEF IsEnd, Notes, Fits
  <2>3. ReadOf(t) /\ InOrder(t)
    BY <1>1, <1>2, <1>8, <2>1 DEF Followed, Live
  <2>4. ASSUME NEW kind \in Pieces PROVE Read(kind) = codex[t].sent[kind]
    <3>1. PICK c \in Nat, s \in Nat : c = Read(kind) /\ s = codex[t].sent[kind]
      BY <1>1, <1>5, CodexIs
    <3>2. c <= s /\ Orderly(Unread, t, kind, c, s) /\ EndIsLast(Unread, t, kind)
      BY <1>1, <2>3, <3>1 DEF InOrder, NotesOK
    <3>3. s <= c
      BY <1>3, <2>2, <3>2, FirstRemoved
    <3> QED
      BY <3>1, <3>2, <3>3
  <2>5. Text = Own(t, codex[t].sent) /\ Text \in Seq(Texts)
    <3>1. PICK d \in Nat, n \in Nat : d = codex[t].sent["delta"] /\ n = codex[t].sent["message"]
      BY <1>1, CodexIs DEF Pieces
    <3>2. Len(client.text) = d /\ client.last[3] = n
      BY <2>4, <3>1 DEF Read, Pieces
    <3>3. /\ client.text = [i \in 1..d |-> <<"delta", t, i>>]
          /\ client.last = IF n = 0 THEN NoMessage ELSE <<"message", t, n>>
      BY <2>3, <3>2 DEF ReadOf
    <3>4. client.text # <<>> <=> d > 0
      BY <1>5, <3>1, <3>2
    <3>5. client.last # NoMessage <=> n > 0
      BY <3>1, <3>3 DEF NoMessage
    <3>6. Text = Own(t, codex[t].sent)
      BY <3>1, <3>3, <3>4, <3>5 DEF Text, Own
    <3>7. Text \in Seq(Texts)
      <4>1. <<client.last>> \in Seq(Texts) /\ <<>> \in Seq(Texts)
        BY <1>5
      <4> QED
        BY <1>5, <4>1 DEF Text
    <3> QED
      BY <3>6, <3>7
  <2>6. PICK r : r = [returned |-> TRUE, text |-> Text]
    OBVIOUS
  <2>7. r \in Reply /\ r.text = Text
    BY <2>5, <2>6 DEF Reply
  <2>8. answer \in Seq(Reply) /\ Len(answer) = Len(codex)
    BY <1>1 DEF TurnTypeOK
  <2>9. /\ answer' \in Seq(Reply) /\ Len(answer') = Len(codex)
        /\ answer'[t] \in {r, answer[t]} /\ \A o \in 1..Len(codex) : o # t => answer'[o] = answer[o]
    <3>1. CASE answer' = answer
      BY <2>1, <2>8, <3>1
    <3>2. CASE answer' = [answer EXCEPT ![t] = r]
      <4>1. answer' \in [1..Len(codex) -> Reply]
        BY <2>1, <2>7, <2>8, <3>2
      <4> QED
        BY <1>5, <2>1, <2>8, <3>2, <4>1
    <3> QED
      <4>1. answer' = answer \/ answer' = [answer EXCEPT ![t] = r]
        BY <1>8, <2>1, <2>6 DEF Finish
      <4> QED
        BY <3>1, <3>2, <4>1
  <2>10. TurnTypeOK' /\ IdsOK' /\ NotesOK'
    <3>1. TurnTypeOK'
      BY <1>1, <1>2, <2>0, <2>9, IdleState DEF TurnTypeOK
    <3>2. IdsOK'
      BY <1>1, <1>2, <2>0, IdleState DEF IdsOK, Waiting
    <3>3. client'.turn <= Len(codex)
      BY <1>5, <2>0, IdleState
    <3> QED
      BY <3>1, <3>2, <3>3
  <2>11. ASSUME NEW o \in 1..Len(codex) PROVE Followed(o)' /\ Returned(o)'
    <3>1. ~Live(o)'
      BY <2>0, IdleState DEF Live
    <3>2. CASE o = t
      <4>1. answer'[t] = r => answer'[t].text = Own(t, codex[t].sent)
        BY <2>1, <2>5, <2>7
      <4>2. answer'[t] = answer[t] => Returned(t)'
        BY <1>1, <1>2 DEF Returned, Over
      <4>3. answer'[t] = r => Returned(t)'
        BY <1>2, <2>2, <4>1 DEF Returned, Over
      <4> QED
        BY <2>9, <3>1, <3>2, <4>2, <4>3 DEF Followed
    <3>3. CASE o # t
      BY <1>1, <1>2, <2>9, <3>1, <3>3 DEF Followed, Returned, Over
    <3> QED
      BY <3>2, <3>3
  <2> QED
    BY <1>2, <2>10, <2>11 DEF FollowInv
<1>9. \/ m.turn # client.turn /\ UNCHANGED <<client, answer>>
      \/ m.turn = client.turn /\ m.kind \in Pieces /\ Add(m) /\ UNCHANGED answer
      \/ m.turn = client.turn /\ m.kind \notin Pieces /\ Finish(m)
  BY Zenon DEF Stream
<1> QED
  BY Zenon, <1>6, <1>7, <1>8, <1>9

LEMMA TakePendingKeeps ==
  ASSUME FollowInv, TakePending, alive' = alive
  PROVE  FollowInv'
<1>1. /\ TurnTypeOK /\ IdsOK /\ NotesOK
  BY DEF FollowInv
<1>2. /\ pending \in Seq(Messages) /\ pipe \in Seq(Messages) /\ pending # <<>>
      /\ pending' = Tail(pending) /\ pipe' = pipe /\ Stream(Head(pending))
  BY <1>1 DEF TakePending, TurnTypeOK
<1>3. /\ pending' \in Seq(Messages) /\ pipe' \in Seq(Messages)
      /\ \A i \in 1..Len(pending') : i + 1 \in 1..Len(pending) /\ pending'[i] = pending[i + 1]
  BY <1>2
<1>4. Without(Unread, Unread', 1) /\ Unread[1] = Head(pending)
  BY <1>2, QueueSteps
<1>5. Unread \in Seq(Messages) /\ Unread' \in Seq(Messages) /\ 0 \in Nat
  BY <1>2, <1>3 DEF Unread
<1>6. codex' = codex
  BY <1>2 DEF Stream
<1>7. ASSUME client'.turn <= Len(codex) PROVE NotesOK'
  <2>1. \A o \in 1..Len(codex) : \A kind \in Pieces : EndIsLast(Unread', o, kind)
    BY <1>1, <1>4, <1>5, Removed DEF NotesOK
  <2>2. ASSUME NEW i \in 1..Len(pending') PROVE pending'[i].kind \in Notes /\ Fits(pending[i])'
    BY <1>1, <1>3, <1>6 DEF NotesOK, Fits, Over
  <2>3. \A i \in 1..Len(pipe') : Fits(pipe[i])'
    BY <1>1, <1>2, <1>6 DEF NotesOK, Fits, Over
  <2> QED
    BY <1>1, <1>2, <1>6, <1>7, <2>1, <2>2, <2>3 DEF NotesOK, EndIsLast
<1>8. \A i \in 1..Len(pipe') : pipe'[i].id <= made.requests
  BY <1>1, <1>2 DEF IdsOK
<1> QED
  BY <1>2, <1>3, <1>4, <1>7, <1>8, StreamKeeps

LEMMA ReadPipeKeeps ==
  ASSUME FollowInv, ReadPipe, alive' = alive
  PROVE  FollowInv'
<1>1. /\ pipe # <<>> /\ pipe' = Tail(pipe)
      /\ client.at = "stream" => pending = <<>>
  BY DEF ReadPipe
<1>2. CASE Keep(Head(pipe))
  BY <1>1, <1>2, KeepKeeps
<1>3. CASE Serve(Head(pipe))
  BY <1>1, <1>3, ServeKeeps
<1>4. CASE Receive(Head(pipe))
  BY <1>1, <1>4, ReceiveKeeps
<1>5. CASE Stream(Head(pipe)) /\ pending' = pending
  <2>1. pending = <<>> /\ codex' = codex /\ UNCHANGED <<threads, asked, made>>
    BY <1>1, <1>5 DEF Stream
  <2>2. pipe \in Seq(Messages) /\ pending \in Seq(Messages) /\ pipe' \in Seq(Messages)
    BY <1>1, IdsLeft DEF FollowInv, TurnTypeOK
  <2>3. Without(Unread, Unread', 1) /\ Unread[1] = Head(pipe)
    <3>1. Len(pending) + 1 = 1
      BY <2>1
    <3> QED
      BY <1>1, <1>5, <2>2, <3>1, QueueSteps
  <2>4. ASSUME client'.turn <= Len(codex) PROVE NotesOK'
    <3>1. TurnTypeOK /\ NotesOK
      BY DEF FollowInv
    <3>2. ASSUME NEW i \in 1..Len(pipe') PROVE Fits(pipe[i])'
      BY <1>1, <2>1, <2>2, <3>1 DEF NotesOK, Fits, Over
    <3>3. \A o \in 1..Len(codex) : \A kind \in Pieces : EndIsLast(Unread', o, kind)
      <4>1. Unread \in Seq(Messages) /\ Unread' \in Seq(Messages) /\ 0 \in Nat
        BY <1>5, <2>2 DEF Unread
      <4> QED
        BY <2>3, <3>1, <4>1, Removed DEF NotesOK
    <3>4. ASSUME alive, NEW i \in 1..Len(pipe'), pipe'[i].kind = "approval"
          PROVE  /\ codex[pipe'[i].turn].state = "waiting"
                 /\ \A j \in 1..Len(pipe') :
                      pipe'[j].kind = "approval" /\ pipe'[j].turn = pipe'[i].turn => i = j
      <4>1. \A j \in 1..Len(pipe') : j + 1 \in 1..Len(pipe) /\ pipe'[j] = pipe[j + 1]
        BY <1>1, <2>2
      <4>2. PICK k \in 1..Len(pipe) : k = i + 1 /\ pipe'[i] = pipe[k]
        BY <4>1
      <4>3. /\ codex[pipe[k].turn].state = "waiting"
            /\ \A j \in 1..Len(pipe) : pipe[j].kind = "approval" /\ pipe[j].turn = pipe[k].turn => k = j
        BY <3>1, <3>4, <4>2 DEF NotesOK
      <4>4. ASSUME NEW j \in 1..Len(pipe'), pipe'[j].kind = "approval", pipe'[j].turn = pipe'[i].turn
            PROVE  i = j
        <5>1. k = j + 1
          BY <4>1, <4>2, <4>3, <4>4
        <5> QED
          BY <4>2, <5>1
      <4> QED
        BY <4>2, <4>3, <4>4
    <3>5. \A i \in 1..Len(pending') : FALSE
      BY <1>5, <2>1
    <3> QED
      BY <2>1, <2>4, <3>2, <3>3, <3>4, <3>5 DEF NotesOK, EndIsLast
  <2> QED
    BY <1>1, <1>5, <2>2, <2>3, <2>4, IdsLeft, StreamKeeps
<1> QED
  BY <1>2, <1>3, <1>4, <1>5 DEF ReadPipe

LEMMA FollowInit ==
  ASSUME TurnInit
  PROVE  FollowInv
<1>1. /\ threads \in [Sessions -> Nat] /\ client \in ReadState /\ alive \in BOOLEAN
      /\ made \in [threads : Nat, requests : Nat, turns : Nat]
      /\ client.at = "idle" /\ client.turn = 0 /\ client.text = <<>>
      /\ client.last = NoMessage
  BY IdleState DEF TurnInit
<1>2. pending = <<>> /\ pipe = <<>> /\ asked = <<>> /\ codex = <<>> /\ answer = <<>>
  BY DEF TurnInit
<1>3. TurnTypeOK
  BY <1>1, <1>2 DEF TurnTypeOK
<1>4. IdsOK /\ NotesOK
  BY <1>1, <1>2 DEF IdsOK, NotesOK, Waiting
<1>5. Len(codex) = 0
  BY <1>2
<1> QED
  BY <1>3, <1>4, <1>5 DEF FollowInv

LEMMA FollowStep ==
  ASSUME FollowInv, [TurnNext]_turnVars
  PROVE  FollowInv'
<1>1. CASE UNCHANGED turnVars
  <2>1. UNCHANGED <<threads, client, pending, pipe, asked, codex, made, answer, alive>>
    BY <1>1 DEF turnVars
  <2>2. TurnTypeOK' /\ \A i \in 1..Len(asked') : asked'[i].id <= made.requests
    BY <2>1 DEF FollowInv, TurnTypeOK, IdsOK
  <2>3. \A t \in 1..Len(codex) : Over(t) => Over(t)'
    BY <2>1 DEF Over
  <2> QED
    BY <2>1, <2>2, <2>3, StillFollowed
<1>2. CASE Child
  <2>1. alive /\ codex \in Seq(Turn) /\ DOMAIN codex = 1..Len(codex)
    BY <1>2 DEF Child, FollowInv, TurnTypeOK
  <2> QED
    BY <1>2, <2>1, DieKeeps, TakeRequestKeeps, TurnsKeep DEF Child
<1>3. ASSUME NEW s \in Sessions, Begin(s), alive' = alive PROVE FollowInv'
  BY <1>3, BeginKeeps
<1>4. CASE (TakePending \/ ReadPipe \/ Closed) /\ alive' = alive
  BY <1>4, TakePendingKeeps, ReadPipeKeeps, ClosedKeeps
<1> QED
  BY <1>1, <1>2, <1>3, <1>4 DEF TurnNext

(* The text that a turn returns (run_turn over stream_turn, TextIsOwn) is    *)
(* what Codex wrote of this turn: all its deltas in order, or else the      *)
(* message completed last, whatever was given up on before, whatever came   *)
(* before the response, and however many turns there are.  What the daemon  *)
(* has not handled of the turn it reads, or is going to read, goes on where *)
(* its text ends and after the last message it has.                         *)
THEOREM TextIsOwnCorrect == TurnSpec => []TextIsOwn
<1>1. TurnInit => FollowInv
  BY FollowInit
<1>2. FollowInv /\ [TurnNext]_turnVars => FollowInv'
  BY FollowStep
<1>3. FollowInv => TextIsOwn
  <2>1. FollowInv => DOMAIN answer = 1..Len(codex)
    BY DEF FollowInv, TurnTypeOK
  <2> QED
    BY <2>1 DEF FollowInv, Returned, Own, TextIsOwn
<1> QED
  BY <1>1, <1>2, <1>3, PTL DEF TurnSpec

-----------------------------------------------------------------------------
(* The children of the application and its settings.                        *)

Process == [kind : ChildKinds, state : {"new", "up", "ending", "left", "gone"}]
Question == {Config, Plugins} \cup {Update("permission", v) : v \in Values}
                              \cup {Update("switch", b) : b \in BOOLEAN}
Told == [type : {"plugins_list"}, switch : BOOLEAN]
          \cup [type : {"config"}, permission : Values, saved : BOOLEAN]
Setting == [permission : Values, switch : BOOLEAN]
Configuration == [permission : Values, switch : BOOLEAN, saved : BOOLEAN]
Listing == [at : {"idle", "begun", "read"}, switch : BOOLEAN, current : BOOLEAN]

StartedOK(now) ==
  /\ now.slot \in [ChildKinds -> Nat \cup {NoChild}]
  /\ now.child \in Seq(Process)
  /\ now.requests \in Seq(Seq(Question)) /\ now.lines \in Seq(Seq(Told))
  /\ Len(now.requests) = Len(now.child) /\ Len(now.lines) = Len(now.child)
Held(now) ==
  \A p \in 1..Len(now.child) :
    now.child[p].state \in {"new", "up"} => \E k \in ChildKinds : now.slot[k] = p
MacTypeOK ==
  /\ StartedOK(Now)
  /\ running \in BOOLEAN /\ stdinPipe \in Nat \cup {NoChild}
  /\ disk \in Configuration /\ shown \in Setting /\ edited \in BOOLEAN /\ unheard \in BOOLEAN
  /\ background \in [Tasks -> Listing] /\ older \in BOOLEAN
SlotsOK ==
  /\ Held(Now)
  /\ running => stdinPipe \in 1..Len(child)
  /\ ~running => slot["agent"] = NoChild

\* What the agent has still to answer and what is still to be read of it, before
\* the settings in the application are those on disk.  A configuration is told for
\* each question that is not about plugins, and each is followed by one about them.
Has(l) == l.type = "config" /\ l.saved
PermissionComes(questions, told) ==
  (\A i \in 1..Len(questions) : questions[i].ask = "plugins") =>
     \/ \E i \in 1..Len(told) : /\ Has(told[i]) /\ told[i].permission = disk.permission
                                /\ \A j \in 1..Len(told) : Has(told[j]) => j <= i
     \/ /\ \A i \in 1..Len(told) : ~Has(told[i])
        /\ edited \/ shown.permission = disk.permission
SwitchComes(questions, told) ==
  questions = <<>> /\ (\A i \in 1..Len(told) : told[i].type # "config") =>
     IF told = <<>> THEN older \/ shown.switch = disk.switch ELSE told[Len(told)].switch = disk.switch
Calm ==
  /\ running /\ ~unheard /\ child[stdinPipe].state \in {"new", "up"}
  /\ \A p \in 1..Len(child) : p # stdinPipe => lines[p] = <<>>
SettingsCome ==
  Calm => /\ PermissionComes(requests[stdinPipe], lines[stdinPipe])
          /\ SwitchComes(requests[stdinPipe], lines[stdinPipe])

\* What a task has read is on disk unless it is marked.  Nobody has been told of a
\* permission that the configuration does not have.
ListsOK ==
  \A t \in Tasks : background[t].at = "read" /\ background[t].current =>
                     background[t].switch = disk.switch
UnsavedOK ==
  ~disk.saved => /\ disk.permission = Unset /\ (edited \/ shown.permission = Unset)
                 /\ \A p \in 1..Len(child) : \A i \in 1..Len(lines[p]) : ~Has(lines[p][i])

MacInv == MacTypeOK /\ SlotsOK /\ SettingsCome /\ ListsOK /\ UnsavedOK

\* Nothing is written, and of the lines some are gone.
LEMMA RestStays ==
  ASSUME ListsOK, UnsavedOK, disk' = disk, background' = background,
         edited' \/ (edited' = edited /\ shown'.permission = shown.permission),
         \A p \in 1..Len(child') :
            \/ lines'[p] = <<>>
            \/ /\ p \in 1..Len(child)
               /\ \A i \in 1..Len(lines'[p]) : \E j \in 1..Len(lines[p]) : lines'[p][i] = lines[p][j]
  PROVE  ListsOK' /\ UnsavedOK'
<1>1. ListsOK'
  BY DEF ListsOK
<1>2. ASSUME ~disk'.saved, NEW p \in 1..Len(child'), NEW i \in 1..Len(lines'[p]) PROVE ~Has(lines'[p][i])
  <2>1. lines'[p] # <<>>
    BY <1>2
  <2>2. PICK j \in 1..Len(lines[p]) : p \in 1..Len(child) /\ lines'[p][i] = lines[p][j]
    BY <2>1
  <2> QED
    BY <1>2, <2>2 DEF UnsavedOK
<1> QED
  BY <1>1, <1>2 DEF UnsavedOK, Has

\* What starting a child leaves as it was.
Grown(a, b) ==
  /\ Len(a.child) \in Nat /\ Len(b.child) \in Nat /\ Len(a.child) <= Len(b.child)
  /\ \A p \in 1..Len(a.child) :
       b.child[p] = a.child[p] /\ b.requests[p] = a.requests[p] /\ b.lines[p] = a.lines[p]
  /\ \A p \in 1..Len(b.child) : p \in 1..Len(a.child) \/ b.lines[p] = <<>>

LEMMA GrownOn ==
  ASSUME NEW a, NEW b, NEW c, Grown(a, b), Grown(b, c)
  PROVE  Grown(a, c)
<1>1. \A p \in 1..Len(a.child) : p \in 1..Len(b.child)
  BY DEF Grown
<1> QED
  BY <1>1 DEF Grown

LEMMA GrownRest ==
  ASSUME ListsOK, UnsavedOK, NEW n, Grown(Now, n), child' = n.child, lines' = n.lines, UNCHANGED settings
  PROVE  ListsOK' /\ UnsavedOK'
<1>1. \A p \in 1..Len(child') : (p \in 1..Len(child) /\ lines'[p] = lines[p]) \/ lines'[p] = <<>>
  BY DEF Grown, Now
<1> QED
  BY <1>1, RestStays DEF settings

LEMMA MoreChildren ==
  ASSUME NEW now, StartedOK(now), NEW k \in {"daemon", "gateway", "agent"}
  PROVE  LET then == WithChild(now, k) IN
         /\ StartedOK(then) /\ Grown(now, then) /\ (Held(now) => Held(then))
         /\ \A x \in ChildKinds : x # k => then.slot[x] = now.slot[x]
         /\ k \in ChildKinds /\ now.slot[k] = NoChild =>
              /\ then.slot[k] \in 1..Len(then.child)
              /\ k = "agent" => then.requests[then.slot[k]] = <<Config, Plugins>>
<1>1. PICK then : then = WithChild(now, k)
  OBVIOUS
<1>2. /\ now.slot \in [ChildKinds -> Nat \cup {NoChild}] /\ now.child \in Seq(Process)
      /\ now.requests \in Seq(Seq(Question)) /\ now.lines \in Seq(Seq(Told))
      /\ Len(now.requests) = Len(now.child) /\ Len(now.lines) = Len(now.child)
      /\ Len(now.child) \in Nat
  BY DEF StartedOK
<1>3. CASE k \notin ChildKinds \/ now.slot[k] # NoChild
  <2>1. then = now
    BY <1>1, <1>3 DEF WithChild
  <2> QED
    BY <1>1, <1>2, <1>3, <2>1 DEF Grown
<1>4. CASE k \in ChildKinds /\ now.slot[k] = NoChild
  <2>0. PICK n \in Nat : n = Len(now.child) + 1
    BY <1>2
  <2>1. PICK one, questions :
          /\ n = Len(now.child) + 1 /\ one = [kind |-> k, state |-> "new"]
          /\ questions = IF k = "agent" THEN <<Config, Plugins>> ELSE <<>>
    BY <2>0
  <2>2. /\ then.slot = [now.slot EXCEPT ![k] = n]
        /\ then.child = Append(now.child, one)
        /\ then.requests = Append(now.requests, questions)
        /\ then.lines = Append(now.lines, <<>>)
    BY <1>1, <1>4, <2>1 DEF WithChild
  <2>3. one \in Process /\ questions \in Seq(Question) /\ <<>> \in Seq(Told)
    <3>1. one \in Process
      BY <1>4, <2>1 DEF Process
    <3>2. Config \in Question /\ Plugins \in Question
      BY DEF Question
    <3>3. <<Config, Plugins>> \in Seq(Question)
      BY <3>2
    <3> QED
      BY <2>1, <3>1, <3>3
  <2>4. /\ then.slot \in [ChildKinds -> Nat \cup {NoChild}] /\ then.slot[k] = n
        /\ \A x \in ChildKinds : x # k => then.slot[x] = now.slot[x]
    BY <1>2, <1>4, <2>2
  <2>5. /\ then.child \in Seq(Process) /\ Len(then.child) = n /\ then.child[n] = one
        /\ \A p \in 1..Len(now.child) : then.child[p] = now.child[p]
    BY <1>2, <2>1, <2>2, <2>3
  <2>6. /\ then.requests \in Seq(Seq(Question)) /\ Len(then.requests) = n /\ then.requests[n] = questions
        /\ \A p \in 1..Len(now.child) : then.requests[p] = now.requests[p]
    BY <1>2, <2>1, <2>2, <2>3
  <2>7. /\ then.lines \in Seq(Seq(Told)) /\ Len(then.lines) = n /\ then.lines[n] = <<>>
        /\ \A p \in 1..Len(now.child) : then.lines[p] = now.lines[p]
    BY <1>2, <2>1, <2>2, <2>3
  <2>8. n \in 1..n /\ \A p \in 1..n : p = n \/ p \in 1..Len(now.child)
    BY <1>2, <2>1
  <2>9. StartedOK(then)
    BY <2>4, <2>5, <2>6, <2>7 DEF StartedOK
  <2>10. Grown(now, then)
    <3>1. Len(now.child) <= n /\ Len(now.child) \in Nat
      BY <1>2, <2>0
    <3>2. \A p \in 1..n : p \in 1..Len(now.child) \/ then.lines[p] = <<>>
      BY <2>7, <2>8
    <3> QED
      BY <2>5, <2>6, <2>7, <3>1, <3>2 DEF Grown
  <2>11. ASSUME Held(now) PROVE Held(then)
    <3>1. ASSUME NEW p \in 1..n, then.child[p].state \in {"new", "up"}
          PROVE  \E x \in ChildKinds : then.slot[x] = p
      <4>1. CASE p = n
        BY <1>4, <2>4, <4>1
      <4>2. CASE p \in 1..Len(now.child)
        <5>1. PICK x \in ChildKinds : now.slot[x] = p
          BY <2>5, <2>11, <3>1, <4>2 DEF Held
        <5>2. x # k
          BY <1>4, <5>1, NoChildAssumption
        <5> QED
          BY <2>4, <5>1, <5>2
      <4> QED
        BY <2>8, <4>1, <4>2
    <3> QED
      BY <2>5, <3>1 DEF Held
  <2>12. k = "agent" => then.requests[then.slot[k]] = <<Config, Plugins>>
    BY <2>1, <2>4, <2>6
  <2> QED
    BY <1>1, <2>4, <2>5, <2>8, <2>9, <2>10, <2>11, <2>12
<1> QED
  BY <1>3, <1>4

LEMMA NowFields ==
  /\ Now.slot = slot /\ Now.child = child /\ Now.requests = requests /\ Now.lines = lines
BY DEF Now

\* The others are not calm, or what comes from the agent is as it was.
LEMMA StillCome ==
  ASSUME SettingsCome, Calm' => /\ Calm /\ stdinPipe' = stdinPipe /\ disk' = disk
                                /\ shown' = shown /\ edited' = edited /\ older' = older
                                /\ requests'[stdinPipe] = requests[stdinPipe]
                                /\ lines'[stdinPipe] = lines[stdinPipe]
  PROVE  SettingsCome'
BY DEF SettingsCome, PermissionComes, SwitchComes

LEMMA StartKeeps ==
  ASSUME MacInv, StartAll
  PROVE  MacInv'
<1>1. /\ StartedOK(Now) /\ Held(Now) /\ ~running /\ slot["agent"] = NoChild
      /\ UNCHANGED <<port, settings, hasKey, bounds, unheard>>
  BY DEF MacInv, MacTypeOK, SlotsOK, StartAll
<1>a. Grown(Now, Now)
  BY <1>1 DEF Grown, StartedOK
<1>2. PICK a, b, c : a = WithChild(Now, "daemon") /\ b = WithChild(a, "gateway") /\ c = WithChild(b, "agent")
  OBVIOUS
<1>3. StartedOK(a) /\ Held(a) /\ Grown(Now, a) /\ ("agent" \in ChildKinds => a.slot["agent"] = NoChild)
  BY <1>1, <1>2, MoreChildren, NowFields
<1>4. StartedOK(b) /\ Held(b) /\ Grown(Now, b) /\ ("agent" \in ChildKinds => b.slot["agent"] = NoChild)
  BY <1>2, <1>3, MoreChildren, GrownOn
<1>5. /\ StartedOK(c) /\ Held(c) /\ Grown(Now, c)
      /\ "agent" \in ChildKinds => /\ c.slot["agent"] \in 1..Len(c.child)
                                   /\ c.requests[c.slot["agent"]] = <<Config, Plugins>>
  BY <1>2, <1>4, MoreChildren, GrownOn
<1>6. ASSUME NEW n, Launched(n), StartedOK(n), Held(n), Grown(Now, n), "agent" \in ChildKinds => n.slot["agent"] = NoChild,
             UNCHANGED <<running, stdinPipe>>
      PROVE  MacInv'
  <2>1. slot' = n.slot /\ child' = n.child /\ requests' = n.requests /\ lines' = n.lines
    BY <1>6 DEF Launched
  <2>2. StartedOK(Now)' /\ Held(Now)'
    BY <1>6, <2>1, NowFields DEF Now, StartedOK, Held
  <2>3. MacTypeOK'
    BY <1>1, <1>6, <2>2 DEF MacInv, MacTypeOK, settings
  <2>4. SlotsOK'
    BY <1>1, <1>6, <2>1, <2>2, ChildKindsAssumption DEF SlotsOK
  <2>5. ListsOK' /\ UnsavedOK'
    BY <1>1, <1>6, <2>1, GrownRest DEF MacInv
  <2> QED
    BY <1>1, <1>6, <2>3, <2>4, <2>5 DEF MacInv, SettingsCome, Calm
<1>7. CASE "agent" \in ChildKinds /\ Launched(c) /\ running' = TRUE /\ stdinPipe' = slot'["agent"]
  <2>1. slot' = c.slot /\ child' = c.child /\ requests' = c.requests /\ lines' = c.lines
    BY <1>7 DEF Launched
  <2>2. StartedOK(Now)' /\ Held(Now)'
    BY <1>5, <2>1, NowFields DEF Now, StartedOK, Held
  <2>3. stdinPipe' \in 1..Len(child') /\ requests'[stdinPipe'] = <<Config, Plugins>>
    BY <1>5, <1>7, <2>1
  <2>4. Len(child') \in Nat
    BY <1>5, <2>1 DEF StartedOK
  <2>5. MacTypeOK'
    BY <1>1, <1>7, <2>2, <2>3, <2>4 DEF MacInv, MacTypeOK, settings
  <2>6. SlotsOK'
    BY <1>7, <2>2, <2>3 DEF SlotsOK
  <2>7. /\ requests'[stdinPipe'] # <<>> /\ 1 \in 1..Len(requests'[stdinPipe'])
        /\ requests'[stdinPipe'][1].ask # "plugins"
    BY <2>3 DEF Config
  <2>8. SettingsCome'
    BY <2>7 DEF SettingsCome, PermissionComes, SwitchComes
  <2>9. ListsOK' /\ UnsavedOK'
    BY <1>1, <1>5, <2>1, GrownRest DEF MacInv
  <2> QED
    BY <2>5, <2>6, <2>8, <2>9 DEF MacInv
<1> QED
  BY <1>1, <1>a, <1>2, <1>3, <1>4, <1>6, <1>7, NowFields DEF StartAll

LEMMA MacTypes ==
  ASSUME MacTypeOK
  PROVE  /\ slot \in [ChildKinds -> Nat \cup {NoChild}] /\ child \in Seq(Process) /\ Len(child) \in Nat
         /\ requests \in Seq(Seq(Question)) /\ lines \in Seq(Seq(Told))
         /\ Len(requests) = Len(child) /\ Len(lines) = Len(child)
         /\ DOMAIN child = 1..Len(child) /\ DOMAIN requests = 1..Len(child)
         /\ DOMAIN lines = 1..Len(child)
         /\ \A p \in 1..Len(child) : /\ child[p] \in Process /\ requests[p] \in Seq(Question)
                                     /\ lines[p] \in Seq(Told) /\ p # NoChild
BY NowFields, NoChildAssumption DEF MacTypeOK, StartedOK

\* The states of children.
LEMMA InStateIs ==
  ASSUME MacTypeOK, NEW p \in 1..Len(child), NEW s \in {"new", "up", "ending", "left", "gone"}
  PROVE  InState(p, s) \in Process /\ InState(p, s).state = s
<1>1. child[p] \in Process
  BY MacTypes
<1> QED
  BY <1>1 DEF InState, Process

\* Children change their state; none is new or up that was not.
LEMMA ChildrenMove ==
  ASSUME MacTypeOK, Held(Now), slot' = slot, child' \in Seq(Process), Len(child') = Len(child),
         requests' \in Seq(Seq(Question)), Len(requests') = Len(requests), lines' = lines,
         \A p \in 1..Len(child) : child'[p].state \in {"new", "up"} => child[p].state \in {"new", "up"}
  PROVE  StartedOK(Now)' /\ Held(Now)'
<1>1. /\ slot \in [ChildKinds -> Nat \cup {NoChild}]
      /\ lines \in Seq(Seq(Told)) /\ Len(requests) = Len(child) /\ Len(lines) = Len(child)
  BY MacTypes
<1>2. StartedOK(Now)'
  BY <1>1 DEF StartedOK, Now
<1>3. Held(Now)'
  BY DEF Held, Now
<1> QED
  BY <1>2, <1>3

LEMMA StopKeeps ==
  ASSUME MacInv, StopAll
  PROVE  MacInv'
<1>1. MacTypeOK /\ Held(Now)
  BY DEF MacInv, SlotsOK
<1>2. /\ slot' = NoSlots /\ ~running' /\ running' = FALSE /\ stdinPipe' = NoChild
      /\ UNCHANGED <<port, queues, settings, hasKey, bounds, unheard>>
  BY DEF StopAll
<1>3. child' = [p \in 1..Len(child) |->
                  IF p \in {slot[k] : k \in ChildKinds} /\ Alive(p) THEN InState(p, "ending") ELSE child[p]]
  BY <1>1, MacTypes DEF StopAll
<1>4. /\ \A p \in 1..Len(child) : child'[p] \in Process
      /\ \A p \in 1..Len(child) : child'[p].state \notin {"new", "up"}
  <2>1. ASSUME NEW p \in 1..Len(child) PROVE child'[p] \in Process /\ child'[p].state \notin {"new", "up"}
    <3>1. CASE p \in {slot[k] : k \in ChildKinds} /\ Alive(p)
      BY <1>1, <1>3, <3>1, InStateIs
    <3>2. CASE ~(p \in {slot[k] : k \in ChildKinds} /\ Alive(p))
      <4>1. child'[p] = child[p] /\ child[p] \in Process /\ p # NoChild
        BY <1>1, <1>3, <3>2, MacTypes
      <4>2. ASSUME child[p].state \in {"new", "up"} PROVE FALSE
        <5>1. PICK k \in ChildKinds : slot[k] = p
          BY <1>1, <4>2, NowFields DEF Held
        <5> QED
          BY <3>2, <4>1, <4>2, <5>1 DEF Alive
      <4> QED
        BY <4>1, <4>2
    <3> QED
      BY <3>1, <3>2
  <2> QED
    BY <2>1
<1>5. child' \in Seq(Process) /\ Len(child') = Len(child)
  <2>1. Len(child) \in Nat /\ child' \in [1..Len(child) -> Process]
    BY <1>1, <1>3, <1>4, MacTypes
  <2> QED
    BY <2>1
<1>6. NoSlots \in [ChildKinds -> Nat \cup {NoChild}] /\ NoSlots["agent"] = NoChild
  BY ChildKindsAssumption DEF NoSlots
<1>7. StartedOK(Now)'
  <2>1. /\ requests \in Seq(Seq(Question)) /\ lines \in Seq(Seq(Told))
        /\ Len(requests) = Len(child) /\ Len(lines) = Len(child)
    BY <1>1, MacTypes
  <2> QED
    BY <1>2, <1>5, <1>6, <2>1 DEF StartedOK, Now, queues
<1>8. Held(Now)'
  BY <1>4, <1>5 DEF Held, Now
<1>9. MacTypeOK'
  BY <1>1, <1>2, <1>7 DEF MacTypeOK, settings
<1>10. ListsOK' /\ UnsavedOK'
  BY <1>2, <1>5, RestStays DEF MacInv, settings, queues
<1> QED
  BY <1>2, <1>6, <1>8, <1>9, <1>10 DEF MacInv, SlotsOK, SettingsCome, Calm

LEMMA GatewayKeeps ==
  ASSUME MacInv, EnsureGateway
  PROVE  MacInv'
<1>1. MacTypeOK /\ StartedOK(Now) /\ Held(Now) /\ SettingsCome
      /\ (running => stdinPipe \in 1..Len(child)) /\ (~running => slot["agent"] = NoChild)
  BY DEF MacInv, MacTypeOK, SlotsOK
<1>2. PICK n : n = WithChild(Now, "gateway")
  OBVIOUS
<1>3. /\ StartedOK(n) /\ Grown(Now, n) /\ Held(n)
      /\ n.slot["agent"] = slot["agent"]
  BY <1>1, <1>2, MoreChildren, NowFields, ChildKindsAssumption
<1>4. /\ slot' = n.slot /\ child' = n.child /\ requests' = n.requests /\ lines' = n.lines
      /\ UNCHANGED <<running, stdinPipe, port, settings, hasKey, bounds, unheard>>
  BY <1>2 DEF EnsureGateway, Launched
<1>5. StartedOK(Now)' /\ Held(Now)'
  BY <1>3, <1>4 DEF Now, StartedOK, Held
<1>6. /\ Len(child) \in Nat /\ Len(child') \in Nat /\ Len(child) <= Len(child')
      /\ \A p \in 1..Len(child) :
           child'[p] = child[p] /\ requests'[p] = requests[p] /\ lines'[p] = lines[p]
  BY <1>3, <1>4, NowFields DEF Grown
<1>7. \A p \in 1..Len(child) : p \in 1..Len(child')
  BY <1>6
<1>8. MacTypeOK'
  BY <1>1, <1>4, <1>5 DEF MacTypeOK, settings
<1>9. SlotsOK'
  BY <1>1, <1>3, <1>4, <1>5, <1>7 DEF SlotsOK
<1>10. SettingsCome'
  <2>1. Calm' => Calm
    BY <1>1, <1>4, <1>6, <1>7 DEF Calm
  <2>2. Calm' => /\ requests'[stdinPipe] = requests[stdinPipe] /\ lines'[stdinPipe] = lines[stdinPipe]
    BY <1>1, <1>4, <1>6 DEF Calm
  <2> QED
    BY <1>1, <1>4, <2>1, <2>2, StillCome DEF settings
<1>11. ListsOK' /\ UnsavedOK'
  BY <1>3, <1>4, GrownRest DEF MacInv
<1> QED
  BY <1>8, <1>9, <1>10, <1>11 DEF MacInv

\* One child changes its state.
LEMMA ChildKeeps ==
  ASSUME MacInv, NEW p \in 1..Len(child), NEW s \in {"up", "gone"},
         child' = [child EXCEPT ![p] = InState(p, s)], s = "up" => child[p].state = "new",
         \/ requests' = requests
         \/ s = "gone" /\ requests' = [requests EXCEPT ![p] = <<>>],
         UNCHANGED <<slot, running, stdinPipe, lines, settings, unheard>>
  PROVE  MacInv'
<1>1. MacTypeOK /\ Held(Now) /\ SettingsCome
  BY DEF MacInv, SlotsOK
<1>2. InState(p, s) \in Process /\ InState(p, s).state = s
  BY <1>1, InStateIs
<1>3. /\ child \in Seq(Process) /\ Len(child) \in Nat /\ requests \in Seq(Seq(Question))
      /\ Len(requests) = Len(child)
  BY <1>1, MacTypes
<1>4. PICK c \in Process : c = InState(p, s)
  BY <1>2
<1>5. /\ child' \in Seq(Process) /\ Len(child') = Len(child) /\ child'[p] = c
      /\ \A q \in 1..Len(child) : q # p => child'[q] = child[q]
  <2>1. child' = [child EXCEPT ![p] = c]
    BY <1>4
  <2> QED
    BY <1>3, <2>1
<1>6. /\ requests' \in Seq(Seq(Question)) /\ Len(requests') = Len(requests)
      /\ \A q \in 1..Len(child) : q # p \/ s # "gone" => requests'[q] = requests[q]
  <2>1. CASE requests' = requests
    BY <1>3, <2>1
  <2>2. CASE s = "gone" /\ requests' = [requests EXCEPT ![p] = <<>>]
    <3>1. <<>> \in Seq(Question)
      OBVIOUS
    <3> QED
      BY <1>3, <2>2, <3>1
  <2> QED
    BY <2>1, <2>2
<1>7. \A q \in 1..Len(child) : child'[q].state \in {"new", "up"} =>
        child[q].state \in {"new", "up"} /\ (q # p \/ s # "gone")
  BY <1>2, <1>4, <1>5
<1>8. StartedOK(Now)' /\ Held(Now)'
  BY <1>1, <1>5, <1>6, <1>7, ChildrenMove
<1>9. MacTypeOK'
  BY <1>1, <1>8 DEF MacTypeOK, settings
<1>10. SlotsOK'
  BY <1>5, <1>8 DEF MacInv, SlotsOK
<1>11. Calm' => Calm /\ requests'[stdinPipe] = requests[stdinPipe]
  <2>1. running => stdinPipe \in 1..Len(child)
    BY DEF MacInv, SlotsOK
  <2> QED
    BY <1>5, <1>6, <1>7, <2>1 DEF Calm
<1>12. SettingsCome'
  BY <1>1, <1>11, StillCome DEF settings
<1>13. ListsOK' /\ UnsavedOK'
  BY <1>5, RestStays DEF MacInv, settings
<1> QED
  BY <1>9, <1>10, <1>12, <1>13 DEF MacInv

LEMMA KillKeeps ==
  ASSUME MacInv, KillApp
  PROVE  MacInv'
<1>1. MacTypeOK
  BY DEF MacInv
<1>2. /\ slot' = NoSlots /\ ~running' /\ running' = FALSE /\ stdinPipe' = NoChild
      /\ lines' = [p \in DOMAIN lines |-> <<>>] /\ shown' = Fresh /\ edited' = FALSE
      /\ background' = NoTasks /\ older' = FALSE
      /\ UNCHANGED <<port, requests, disk, hasKey, unheard>>
  BY DEF KillApp
<1>3. child' = [p \in 1..Len(child) |->
                  IF Alive(p) /\ (child[p].kind = "agent" \/ child[p].state # "ending")
                    THEN InState(p, "left") ELSE child[p]]
  BY <1>1, MacTypes DEF KillApp
<1>4. ASSUME NEW p \in 1..Len(child) PROVE child'[p] \in Process /\ child'[p].state \notin {"new", "up"}
  <2>1. /\ InState(p, "left") \in Process /\ InState(p, "left").state = "left"
        /\ child[p] \in Process /\ p # NoChild
    BY <1>1, InStateIs, MacTypes
  <2>2. CASE Alive(p)
    BY <1>3, <2>1, <2>2
  <2>3. CASE ~Alive(p)
    BY <1>3, <2>1, <2>3 DEF Alive
  <2> QED
    BY <2>2, <2>3
<1>5. child' \in Seq(Process) /\ Len(child') = Len(child)
  <2>1. Len(child) \in Nat /\ child' \in [1..Len(child) -> Process]
    BY <1>1, <1>3, <1>4, MacTypes
  <2> QED
    BY <2>1
<1>6. NoSlots \in [ChildKinds -> Nat \cup {NoChild}] /\ NoSlots["agent"] = NoChild
  BY ChildKindsAssumption DEF NoSlots
<1>7. lines' \in Seq(Seq(Told)) /\ Len(lines') = Len(child)
  <2>1. <<>> \in Seq(Told) /\ DOMAIN lines = 1..Len(child) /\ Len(child) \in Nat
    BY <1>1, MacTypes
  <2>2. lines' \in [1..Len(child) -> Seq(Told)]
    BY <1>2, <2>1
  <2> QED
    BY <2>1, <2>2
<1>8. StartedOK(Now)'
  <2>1. requests \in Seq(Seq(Question)) /\ Len(requests) = Len(child)
    BY <1>1, MacTypes
  <2> QED
    BY <1>2, <1>5, <1>6, <1>7, <2>1 DEF StartedOK, Now
<1>9. Held(Now)'
  BY <1>4, <1>5 DEF Held, Now
<1>10. MacTypeOK'
  <2>1. Fresh \in Setting /\ NoTasks \in [Tasks -> Listing]
    BY ValuesAssumption DEF Fresh, Setting, NoTasks, NoTask, Listing
  <2> QED
    BY <1>1, <1>2, <1>8, <2>1 DEF MacTypeOK
<1>11. ListsOK'
  BY <1>2 DEF ListsOK, NoTasks, NoTask
<1>12. UnsavedOK'
  <2>1. \A p \in 1..Len(child') : lines'[p] = <<>>
    BY <1>1, <1>2, <1>5, MacTypes
  <2> QED
    BY <1>2, <2>1 DEF MacInv, UnsavedOK, Fresh
<1> QED
  BY <1>2, <1>6, <1>9, <1>10, <1>11, <1>12 DEF MacInv, SlotsOK, SettingsCome, Calm

\* What is written to an agent's pipe.
LEMMA SentIs ==
  ASSUME MacTypeOK, NEW p, NEW more \in Seq(Question)
  PROVE  LET reqs == Sent(requests, p, more) IN
         /\ reqs \in Seq(Seq(Question)) /\ Len(reqs) = Len(requests)
         /\ \A q \in 1..Len(child) : q # p => reqs[q] = requests[q]
         /\ p \in 1..Len(child) /\ Alive(p) => reqs[p] = requests[p] \o more
<1>1. PICK reqs : reqs = Sent(requests, p, more)
  OBVIOUS
<1>2. /\ DOMAIN requests = 1..Len(child) /\ Len(child) \in Nat /\ Len(requests) = Len(child)
      /\ \A q \in 1..Len(child) : requests[q] \in Seq(Question)
  BY MacTypes
<1>3. reqs = [q \in 1..Len(child) |-> IF q = p /\ Alive(p) THEN requests[q] \o more ELSE requests[q]]
  BY <1>1, <1>2 DEF Sent
<1>4. \A q \in 1..Len(child) : requests[q] \o more \in Seq(Question)
  BY <1>2
<1>5. reqs \in [1..Len(child) -> Seq(Question)]
  BY <1>2, <1>3, <1>4
<1>6. reqs \in Seq(Seq(Question)) /\ Len(reqs) = Len(requests)
  BY <1>2, <1>5
<1> QED
  BY <1>1, <1>3, <1>6

\* What asks something keeps the switch to come; and what keeps the permission that
\* is shown, the permission too.
LEMMA Comes ==
  ASSUME NEW rs \in Seq(Question), NEW more \in Seq(Question), more # <<>>, NEW told
  PROVE  /\ SwitchComes(rs \o more, told)' 
         /\ PermissionComes(rs, told)' => PermissionComes(rs \o more, told)'
         /\ \A i \in 1..Len(rs) : i \in 1..Len(rs \o more) /\ (rs \o more)[i] = rs[i]
<1>1. PICK a \in Nat, b \in Nat : a = Len(rs) /\ b = Len(more) /\ b >= 1
  OBVIOUS
<1>2. /\ Len(rs \o more) = a + b /\ (rs \o more)[a + 1] = more[1] /\ a + 1 \in 1..(a + b)
      /\ \A i \in 1..a : i \in 1..(a + b) /\ (rs \o more)[i] = rs[i]
  BY <1>1
<1>3. rs \o more # <<>>
  BY <1>1, <1>2
<1> QED
  BY <1>1, <1>2, <1>3 DEF SwitchComes, PermissionComes

\* The user asks or tells the agent something.
LEMMA AskKeeps ==
  ASSUME MacInv, running, NEW more \in Seq(Question), more # <<>>,
         requests' = Sent(requests, stdinPipe, more), shown' \in Setting,
         shown'.permission = shown.permission,
         UNCHANGED <<children, lines, disk, edited, background, older, unheard>>
  PROVE  MacInv'
<1>1. MacTypeOK /\ Held(Now) /\ StartedOK(Now) /\ stdinPipe \in 1..Len(child)
  BY DEF MacInv, SlotsOK, MacTypeOK
<1>2. /\ requests' \in Seq(Seq(Question)) /\ Len(requests') = Len(requests)
      /\ Alive(stdinPipe) => requests'[stdinPipe] = requests[stdinPipe] \o more
      /\ requests[stdinPipe] \in Seq(Question)
  BY <1>1, SentIs, MacTypes
<1>3. StartedOK(Now)' /\ Held(Now)'
  BY <1>1, <1>2 DEF StartedOK, Now, Held, children
<1>4. MacTypeOK' /\ SlotsOK'
  BY <1>1, <1>3 DEF MacInv, MacTypeOK, SlotsOK, children
<1>5. Calm' => Alive(stdinPipe)
  BY <1>1, MacTypes DEF Calm, Alive, children
<1>6. PICK rs \in Seq(Question), told \in {lines[stdinPipe]} : rs = requests[stdinPipe] /\ told = lines[stdinPipe]
  BY <1>2
<1>7. /\ SwitchComes(rs \o more, told)'
      /\ PermissionComes(rs, told)' => PermissionComes(rs \o more, told)'
  BY Comes
<1>8. SettingsCome'
  <2>1. ASSUME Calm'
        PROVE  PermissionComes(requests[stdinPipe], lines[stdinPipe])' /\
               SwitchComes(requests[stdinPipe], lines[stdinPipe])'
    <3>1. requests'[stdinPipe'] = rs \o more /\ lines'[stdinPipe'] = told
      BY <1>2, <1>5, <1>6, <2>1 DEF children
    <3>2. Calm
      BY <2>1 DEF Calm, children
    <3>3. PermissionComes(rs, told)'
      BY <1>6, <3>2 DEF MacInv, SettingsCome, PermissionComes
    <3> QED
      BY <1>7, <3>1, <3>3 DEF SwitchComes, PermissionComes
  <2> QED
    BY <2>1 DEF SettingsCome
<1>9. ListsOK' /\ UnsavedOK'
  BY RestStays DEF MacInv, children
<1> QED
  BY <1>4, <1>8, <1>9 DEF MacInv

LEMMA NothingKeeps ==
  ASSUME MacInv, UNCHANGED <<children, queues, settings, unheard>>
  PROVE  MacInv'
<1>1. MacTypeOK' /\ SlotsOK'
  BY DEF MacInv, MacTypeOK, SlotsOK, StartedOK, Held, Now, children, queues, settings
<1>2. SettingsCome'
  BY StillCome DEF MacInv, Calm, children, queues, settings
<1>3. ListsOK' /\ UnsavedOK'
  BY DEF MacInv, ListsOK, UnsavedOK, children, queues, settings
<1> QED
  BY <1>1, <1>2, <1>3 DEF MacInv

\* A task goes on; what it has read is on disk.
LEMMA TaskKeeps ==
  ASSUME MacInv, NEW t \in Tasks, NEW b \in Listing, background' = [background EXCEPT ![t] = b],
         b.at = "read" /\ b.current => b.switch = disk.switch,
         UNCHANGED <<children, queues, disk, shown, edited, older, unheard>>
  PROVE  MacInv'
<1>1. background \in [Tasks -> Listing]
  BY DEF MacInv, MacTypeOK
<1>2. MacTypeOK' /\ SlotsOK'
  BY <1>1 DEF MacInv, MacTypeOK, SlotsOK, StartedOK, Held, Now, children, queues
<1>3. SettingsCome'
  BY StillCome DEF MacInv, Calm, children, queues
<1>4. ListsOK'
  BY <1>1 DEF MacInv, ListsOK
<1>5. UnsavedOK'
  BY DEF MacInv, UnsavedOK, children, queues
<1> QED
  BY <1>2, <1>3, <1>4, <1>5 DEF MacInv

\* A task's list is shown.
LEMMA ShowKeeps ==
  ASSUME MacInv, NEW t \in Tasks, TaskShows(t)
  PROVE  MacInv'
<1>1. /\ background \in [Tasks -> Listing] /\ shown \in Setting
      /\ NoTask \in Listing /\ NoTask.at = "idle"
  BY DEF MacInv, MacTypeOK, NoTask, Listing
<1>2. PICK b \in Listing : b = background[t]
  BY <1>1
<1>3. /\ b.at = "read" /\ shown' = [shown EXCEPT !.switch = b.switch] /\ older' = ~b.current
      /\ background' = [background EXCEPT ![t] = NoTask]
      /\ UNCHANGED <<children, queues, disk, edited, unheard>>
  BY <1>2 DEF TaskShows, ApplyPlugins
<1>4. b.current => b.switch = disk.switch
  BY <1>2, <1>3 DEF MacInv, ListsOK
<1>5. /\ shown' \in Setting /\ shown'.permission = shown.permission /\ shown'.switch = b.switch
      /\ older' \in BOOLEAN /\ (older' \/ shown'.switch = disk'.switch)
  BY <1>1, <1>2, <1>3, <1>4 DEF Setting, Listing
<1>6. background' \in [Tasks -> Listing]
  BY <1>1, <1>3
<1>7. MacTypeOK' /\ SlotsOK'
  BY <1>3, <1>5, <1>6 DEF MacInv, MacTypeOK, SlotsOK, StartedOK, Held, Now, children, queues
<1>8. SettingsCome'
  <2>1. ASSUME Calm' PROVE SettingsCome'
    <3>1. Calm /\ stdinPipe' = stdinPipe /\ requests' = requests /\ lines' = lines
      BY <1>3, <2>1 DEF Calm, children, queues
    <3>2. PICK rs, ls : rs = requests[stdinPipe] /\ ls = lines[stdinPipe]
      OBVIOUS
    <3>3. PermissionComes(rs, ls) /\ SwitchComes(rs, ls)
      BY <3>1, <3>2 DEF MacInv, SettingsCome
    <3>4. PermissionComes(rs, ls)'
      BY <1>3, <1>5, <3>3 DEF PermissionComes
    <3>5. SwitchComes(rs, ls)'
      BY <1>3, <1>5, <3>3 DEF SwitchComes
    <3> QED
      BY <3>1, <3>2, <3>4, <3>5 DEF SettingsCome, PermissionComes, SwitchComes
  <2> QED
    BY <2>1 DEF SettingsCome
<1>9. ListsOK'
  BY <1>1, <1>3 DEF MacInv, ListsOK
<1>10. UnsavedOK'
  BY <1>3, <1>5 DEF MacInv, UnsavedOK, children, queues
<1> QED
  BY <1>7, <1>8, <1>9, <1>10 DEF MacInv

LEMMA TasksKeep ==
  ASSUME MacInv, NEW t \in Tasks, TaskReads(t) \/ TaskShows(t) \/ TaskFails(t)
  PROVE  MacInv'
<1>1. CASE TaskReads(t)
  <2>1. PICK b : b = [at |-> "read", switch |-> disk.switch, current |-> TRUE]
    OBVIOUS
  <2>2. disk \in Configuration
    BY DEF MacInv, MacTypeOK
  <2>3. b \in Listing /\ b.switch = disk.switch
    BY <2>1, <2>2 DEF Listing, Configuration
  <2>4. /\ background' = [background EXCEPT ![t] = b]
        /\ UNCHANGED <<children, queues, disk, shown, edited, older, unheard>>
    BY <1>1, <2>1 DEF TaskReads
  <2> QED
    BY <2>3, <2>4, TaskKeeps
<1>2. CASE TaskFails(t)
  <2>1. NoTask \in Listing /\ NoTask.at # "read"
    BY DEF NoTask, Listing
  <2>2. /\ background' = [background EXCEPT ![t] = NoTask]
        /\ UNCHANGED <<children, queues, disk, shown, edited, older, unheard>>
    BY <1>2 DEF TaskFails
  <2> QED
    BY <2>1, <2>2, TaskKeeps
<1> QED
  BY <1>1, <1>2, ShowKeeps

LEMMA UserKeeps ==
  ASSUME MacInv, Edit \/ SavePermission \/ Toggle \/ OpenSettings \/ Refresh \/ SetKey
  PROVE  MacInv'
<1>1. MacTypeOK /\ shown \in Setting /\ background \in [Tasks -> Listing]
  BY DEF MacInv, MacTypeOK
<1>2. CASE Edit
  <2>1. PICK v \in Values : shown' = [shown EXCEPT !.permission = v]
    BY <1>2 DEF Edit
  <2>2. shown' \in Setting /\ shown'.switch = shown.switch
    BY <1>1, <2>1 DEF Setting
  <2>3. edited' = TRUE /\ UNCHANGED <<children, queues, disk, background, older, hasKey, unheard>>
    BY <1>2 DEF Edit
  <2>4. MacTypeOK' /\ SlotsOK'
    BY <2>2, <2>3 DEF MacInv, MacTypeOK, SlotsOK, StartedOK, Held, Now, children, queues
  <2>5. Calm' => Calm
    BY <2>3 DEF Calm, children, queues
  <2>6. SettingsCome'
    BY SMTT(30), <2>2, <2>3, <2>5 DEF MacInv, SettingsCome, PermissionComes, SwitchComes, children, queues
  <2>7. ListsOK' /\ UnsavedOK'
    BY <2>3, RestStays DEF MacInv, children, queues
  <2> QED
    BY <2>4, <2>6, <2>7 DEF MacInv
<1>3. CASE SavePermission
  <2>1. PICK more : more = <<Update("permission", shown.permission)>>
    OBVIOUS
  <2>2. shown.permission \in Values
    BY <1>1 DEF Setting
  <2>3. more \in Seq(Question) /\ more # <<>>
    BY <2>1, <2>2 DEF Question
  <2>4. /\ running /\ requests' = Sent(requests, stdinPipe, more) /\ shown' \in Setting
        /\ shown'.permission = shown.permission
        /\ UNCHANGED <<children, lines, disk, edited, background, older, unheard>>
    BY <1>1, <1>3, <2>1 DEF SavePermission, settings
  <2> QED
    BY <2>3, <2>4, AskKeeps
<1>4. CASE Toggle
  <2>1. PICK more : more = <<Update("switch", ~shown.switch)>>
    OBVIOUS
  <2>2. shown.switch \in BOOLEAN
    BY <1>1 DEF Setting
  <2>3. more \in Seq(Question) /\ more # <<>>
    <3>1. PICK b \in BOOLEAN : b = ~shown.switch
      BY <2>2
    <3>2. PICK u : u = Update("switch", b)
      OBVIOUS
    <3>3. u \in Question
      BY <3>2 DEF Question
    <3> QED
      BY <2>1, <3>1, <3>2, <3>3
  <2>4. shown' \in Setting /\ shown'.permission = shown.permission
    BY <1>1, <1>4 DEF Toggle, Setting
  <2>5. /\ running /\ requests' = Sent(requests, stdinPipe, more)
        /\ UNCHANGED <<children, lines, disk, edited, background, older, unheard>>
    BY <1>4, <2>1 DEF Toggle
  <2> QED
    BY <2>3, <2>4, <2>5, AskKeeps
<1>5. CASE OpenSettings
  <2>1. PICK more : more = <<Config, Plugins>>
    OBVIOUS
  <2>2. Config \in Question /\ Plugins \in Question
    BY DEF Question
  <2>3. more \in Seq(Question) /\ more # <<>>
    BY <2>1, <2>2
  <2>4. /\ running /\ requests' = Sent(requests, stdinPipe, more) /\ shown' \in Setting
        /\ shown'.permission = shown.permission
        /\ UNCHANGED <<children, lines, disk, edited, background, older, unheard>>
    BY <1>1, <1>5, <2>1 DEF OpenSettings, settings
  <2> QED
    BY <2>3, <2>4, AskKeeps
<1>6. CASE SetKey
  <2>1. UNCHANGED <<children, queues, settings, unheard>>
    BY <1>6 DEF SetKey
  <2> QED
    BY <2>1, NothingKeeps
<1>7. CASE Refresh
  <2>1. CASE running /\ requests' = Sent(requests, stdinPipe, <<Plugins>>) /\ UNCHANGED background
    <3>1. PICK more : more = <<Plugins>>
      OBVIOUS
    <3>2. Plugins \in Question
      BY DEF Question
    <3>3. more \in Seq(Question) /\ more # <<>>
      BY <3>1, <3>2
    <3>4. /\ running /\ requests' = Sent(requests, stdinPipe, more) /\ shown' \in Setting
          /\ shown'.permission = shown.permission
          /\ UNCHANGED <<children, lines, disk, edited, background, older, unheard>>
      BY <1>1, <1>7, <2>1, <3>1 DEF Refresh
    <3> QED
      BY <3>3, <3>4, AskKeeps
  <2>2. ASSUME NEW t \in Tasks, background' = [background EXCEPT ![t].at = "begun"], UNCHANGED requests
        PROVE  MacInv'
    <3>1. PICK b : b = [background[t] EXCEPT !.at = "begun"]
      OBVIOUS
    <3>2. b \in Listing /\ b.at # "read" /\ background' = [background EXCEPT ![t] = b]
      BY <1>1, <2>2, <3>1 DEF Listing
    <3> QED
      BY <1>7, <2>2, <3>2, TaskKeeps DEF Refresh, queues
  <2> QED
    BY <1>7, <2>1, <2>2 DEF Refresh
<1> QED
  BY <1>2, <1>3, <1>4, <1>5, <1>6, <1>7

\* What the bridge does with a request.
LEMMA AfterIs ==
  ASSUME disk \in Configuration, NEW r \in Question
  PROVE  /\ After(r) \in Configuration
         /\ r.ask = "plugins" => After(r) = disk
         /\ ~After(r).saved => ~disk.saved /\ After(r).permission = disk.permission
         /\ AnswerTo(r) \in Told
         /\ r.ask = "plugins" => AnswerTo(r).type = "plugins_list" /\ AnswerTo(r).switch = After(r).switch
         /\ r.ask # "plugins" => /\ AnswerTo(r).type = "config"
                                 /\ AnswerTo(r).permission = After(r).permission
                                 /\ AnswerTo(r).saved = After(r).saved
<1>1. r.ask = "update" => \/ r.key = "permission" /\ r.value \in Values
                          \/ r.key = "switch" /\ r.value \in BOOLEAN
  BY DEF Question, Update, Config, Plugins
<1>2. After(r) \in Configuration
  BY <1>1 DEF After, Configuration
<1>3. r.ask = "plugins" => After(r) = disk
  BY DEF After
<1>4. ~After(r).saved => ~disk.saved /\ After(r).permission = disk.permission
  BY <1>1 DEF After, Configuration
<1>5. PICK d \in Configuration : d = After(r)
  BY <1>2
<1>6. d.switch \in BOOLEAN /\ d.permission \in Values /\ d.saved \in BOOLEAN
  BY DEF Configuration
<1> QED
  BY <1>2, <1>3, <1>4, <1>5, <1>6 DEF AnswerTo, Told

\* What is written marks what tasks have read before.
LEMMA SavesIs ==
  ASSUME MacInv, NEW r \in Question, Saves(r)
  PROVE  disk' \in Configuration /\ background' \in [Tasks -> Listing] /\ ListsOK'
<1>1. background \in [Tasks -> Listing] /\ disk \in Configuration /\ ListsOK
  BY DEF MacInv, MacTypeOK
<1>2. disk' \in Configuration
  BY <1>1, AfterIs DEF Saves
<1>3. \A t \in Tasks : background'[t] = [background[t] EXCEPT !.current = @ /\ disk'.switch = disk.switch]
  BY DEF Saves
<1>4. ASSUME NEW t \in Tasks
      PROVE  /\ background'[t] \in Listing
             /\ background'[t].at = "read" /\ background'[t].current => background'[t].switch = disk'.switch
  <2>1. PICK b \in Listing, c \in BOOLEAN : b = background[t] /\ c = (b.current /\ disk'.switch = disk.switch)
    BY <1>1 DEF Listing
  <2>2. background'[t] = [b EXCEPT !.current = c]
    BY <1>3, <2>1
  <2>3. background'[t] \in Listing /\ background'[t].at = b.at
        /\ background'[t].switch = b.switch /\ background'[t].current = c
    BY <2>2 DEF Listing
  <2> QED
    BY <1>1, <2>1, <2>3 DEF ListsOK
<1>5. background' \in [Tasks -> Listing]
  BY <1>4 DEF Saves
<1> QED
  BY <1>2, <1>4, <1>5 DEF ListsOK

\* What is left of the lines when the first is taken, and what one more adds.
LEMMA ToldIs ==
  ASSUME NEW ls \in Seq(Told)
  PROVE  /\ \A l \in Told : LET ms == Append(ls, l) IN
              /\ ms \in Seq(Told) /\ Len(ms) = Len(ls) + 1 /\ ms # <<>> /\ ms[Len(ls) + 1] = l
              /\ Len(ls) + 1 \in 1..Len(ms)
              /\ \A i \in 1..Len(ls) : i \in 1..Len(ms) /\ ms[i] = ls[i]
              /\ \A i \in 1..Len(ms) : i = Len(ls) + 1 \/ i \in 1..Len(ls)
         /\ ls # <<>> =>
              /\ Head(ls) \in Told /\ Head(ls) = ls[1] /\ 1 \in 1..Len(ls)
              /\ Tail(ls) \in Seq(Told) /\ Len(Tail(ls)) = Len(ls) - 1
              /\ \A i \in 1..Len(Tail(ls)) : i + 1 \in 1..Len(ls) /\ Tail(ls)[i] = ls[i + 1]
              /\ \A i \in 1..Len(ls) : i = 1 \/ i - 1 \in 1..Len(Tail(ls))
<1>1. ASSUME NEW l \in Told
      PROVE  LET ms == Append(ls, l) IN
              /\ ms \in Seq(Told) /\ Len(ms) = Len(ls) + 1 /\ ms # <<>> /\ ms[Len(ls) + 1] = l
              /\ Len(ls) + 1 \in 1..Len(ms)
              /\ \A i \in 1..Len(ls) : i \in 1..Len(ms) /\ ms[i] = ls[i]
              /\ \A i \in 1..Len(ms) : i = Len(ls) + 1 \/ i \in 1..Len(ls)
  <2>1. PICK ms : ms = Append(ls, l)
    OBVIOUS
  <2>2. ms \in Seq(Told) /\ Len(ms) = Len(ls) + 1 /\ ms[Len(ls) + 1] = l /\ Len(ls) \in Nat
        /\ \A i \in 1..Len(ls) : ms[i] = ls[i]
    BY <2>1
  <2>3. ms # <<>>
    BY <2>2
  <2> QED
    BY <2>1, <2>2, <2>3
<1>2. ASSUME ls # <<>>
      PROVE   /\ Head(ls) \in Told /\ Head(ls) = ls[1] /\ 1 \in 1..Len(ls)
              /\ Tail(ls) \in Seq(Told) /\ Len(Tail(ls)) = Len(ls) - 1
              /\ \A i \in 1..Len(Tail(ls)) : i + 1 \in 1..Len(ls) /\ Tail(ls)[i] = ls[i + 1]
              /\ \A i \in 1..Len(ls) : i = 1 \/ i - 1 \in 1..Len(Tail(ls))
  BY <1>2
<1> QED
  BY <1>1, <1>2

\* One child's lines change.
LEMMA LinesMove ==
  ASSUME MacInv, NEW p \in 1..Len(child), NEW ls \in Seq(Told), lines' = [lines EXCEPT ![p] = ls],
         requests' \in Seq(Seq(Question)), Len(requests') = Len(requests), shown' \in Setting,
         disk' \in Configuration, edited' \in BOOLEAN, unheard' \in BOOLEAN,
         background' \in [Tasks -> Listing], older' \in BOOLEAN, UNCHANGED children
  PROVE  /\ MacTypeOK' /\ SlotsOK' /\ lines'[p] = ls
         /\ \A q \in 1..Len(child) : q # p => lines'[q] = lines[q]
<1>1. MacTypeOK /\ Held(Now)
  BY DEF MacInv, SlotsOK
<1>2. lines \in Seq(Seq(Told)) /\ Len(lines) = Len(child) /\ Len(child) \in Nat /\ Len(requests) = Len(child)
  BY <1>1, MacTypes
<1>3. /\ lines' \in Seq(Seq(Told)) /\ Len(lines') = Len(child) /\ lines'[p] = ls
      /\ \A q \in 1..Len(child) : q # p => lines'[q] = lines[q]
  BY <1>2
<1>4. StartedOK(Now)' /\ Held(Now)'
  BY <1>1, <1>2, <1>3 DEF MacTypeOK, StartedOK, Now, Held, children
<1> QED
  BY <1>1, <1>3, <1>4 DEF MacInv, MacTypeOK, SlotsOK, children

LEMMA BridgeKeeps ==
  ASSUME MacInv, NEW p \in 1..Len(child), BridgeAnswers(p)
  PROVE  MacInv'
<1>1. /\ MacTypeOK /\ disk \in Configuration /\ shown \in Setting /\ edited \in BOOLEAN
      /\ unheard \in BOOLEAN /\ older \in BOOLEAN
  BY DEF MacInv, MacTypeOK
<1>2. PICK rs \in Seq(Question), ls \in Seq(Told) : rs = requests[p] /\ ls = lines[p]
  BY <1>1, MacTypes
<1>3. PICK r, l : r = Head(rs) /\ l = AnswerTo(r)
  OBVIOUS
<1>4. /\ rs # <<>> /\ Saves(r) /\ disk' = After(r) /\ lines' = [lines EXCEPT ![p] = Append(ls, l)]
      /\ requests' = [requests EXCEPT ![p] = Tail(rs)]
      /\ UNCHANGED <<children, shown, edited, older, hasKey, bounds, unheard>>
  BY <1>2, <1>3 DEF BridgeAnswers, Saves
<1>5. r \in Question /\ r = rs[1] /\ Tail(rs) \in Seq(Question)
      /\ \A i \in 1..Len(rs) : i = 1 \/ (i - 1 \in 1..Len(Tail(rs)) /\ Tail(rs)[i - 1] = rs[i])
  BY <1>2, <1>3, <1>4
<1>6. /\ l \in Told /\ disk' \in Configuration /\ (r.ask = "plugins" => disk' = disk)
      /\ background' \in [Tasks -> Listing] /\ ListsOK'
  BY <1>1, <1>3, <1>4, <1>5, AfterIs, SavesIs
<1>7. /\ r.ask = "plugins" => l.type = "plugins_list" /\ l.switch = disk'.switch /\ ~Has(l)
      /\ r.ask # "plugins" => /\ l.type = "config" /\ l.permission = disk'.permission
                              /\ Has(l) <=> disk'.saved
      /\ ~disk'.saved => ~disk.saved /\ disk'.permission = disk.permission
  BY <1>1, <1>3, <1>4, <1>5, AfterIs DEF Has
<1>8. PICK ms \in Seq(Told) : ms = Append(ls, l)
  BY <1>6, ToldIs
<1>9. /\ Len(ms) = Len(ls) + 1 /\ ms # <<>> /\ ms[Len(ls) + 1] = l
      /\ Len(ls) + 1 \in 1..Len(ms)
      /\ \A i \in 1..Len(ls) : i \in 1..Len(ms) /\ ms[i] = ls[i]
      /\ \A i \in 1..Len(ms) : i = Len(ls) + 1 \/ i \in 1..Len(ls)
  BY <1>6, <1>8, ToldIs
<1>10. /\ requests \in Seq(Seq(Question)) /\ requests' \in Seq(Seq(Question)) /\ Len(requests') = Len(requests)
       /\ requests'[p] = Tail(rs)
  <2>1. requests \in Seq(Seq(Question)) /\ p \in 1..Len(requests)
    BY <1>1, MacTypes
  <2> QED
    BY <1>4, <1>5, <2>1
<1>11. /\ MacTypeOK' /\ SlotsOK' /\ lines'[p] = ms
       /\ \A q \in 1..Len(child) : q # p => lines'[q] = lines[q]
  BY <1>1, <1>4, <1>6, <1>8, <1>10, LinesMove
<1>u. UnsavedOK'
  <2>1. ASSUME ~disk'.saved
        PROVE  /\ disk'.permission = Unset /\ (edited' \/ shown'.permission = Unset)
               /\ \A q \in 1..Len(child) : \A i \in 1..Len(lines[q]) : ~Has(lines[q][i])
    BY <1>4, <1>7, <2>1 DEF MacInv, UnsavedOK
  <2>2. ~disk'.saved => ~Has(l)
    BY <1>7
  <2>3. ASSUME ~disk'.saved, NEW q \in 1..Len(child), NEW i \in 1..Len(lines'[q]) PROVE ~Has(lines'[q][i])
    <3>1. CASE q = p
      BY <1>2, <1>9, <1>11, <2>1, <2>2, <2>3, <3>1
    <3>2. CASE q # p
      BY <1>11, <2>1, <2>3, <3>2
    <3> QED
      BY <3>1, <3>2
  <2> QED
    BY <1>4, <2>1, <2>3 DEF UnsavedOK, Has, children
<1>12. ASSUME Calm' PROVE p = stdinPipe /\ Calm
  BY <1>4, <1>9, <1>11, <1>12 DEF Calm, children
<1>13. ASSUME Calm, p = stdinPipe, NEW ts, ts = Tail(rs)
       PROVE  PermissionComes(ts, ms)' /\ SwitchComes(ts, ms)'
  <2>1. PermissionComes(rs, ls) /\ SwitchComes(rs, ls)
    BY <1>2, <1>13 DEF MacInv, SettingsCome
  <2>2. SwitchComes(ts, ms)'
    BY <1>7, <1>9, <1>6 DEF SwitchComes
  <2>3. CASE r.ask # "plugins"
    <3>1. \A j \in 1..Len(ms) : j <= Len(ls) + 1
      BY <1>9
    <3>2. CASE disk'.saved
      <4>1. Has(ms[Len(ls) + 1]) /\ ms[Len(ls) + 1].permission = disk'.permission
        BY <1>7, <1>9, <2>3, <3>2
      <4> QED
        BY <1>9, <2>2, <3>1, <4>1 DEF PermissionComes, Has
    <3>3. CASE ~disk'.saved
      <4>1. \A i \in 1..Len(ms) : ~Has(ms[i])
        <5>1. lines'[p] = ms /\ p \in 1..Len(child')
          BY <1>4, <1>11 DEF children
        <5> QED
          BY <1>u, <3>3, <5>1 DEF UnsavedOK, Has
      <4>2. edited' \/ shown'.permission = disk'.permission
        BY <1>u, <3>3 DEF UnsavedOK
      <4> QED
        BY <2>2, <4>1, <4>2 DEF PermissionComes, Has
    <3> QED
      BY <3>2, <3>3
  <2>4. CASE r.ask = "plugins"
    <3>1. ASSUME \A i \in 1..Len(ts) : ts[i].ask = "plugins"
          PROVE  \A i \in 1..Len(rs) : rs[i].ask = "plugins"
      BY <1>5, <1>13, <2>4, <3>1
    <3>2. ~Has(l) /\ disk' = disk /\ shown' = shown /\ edited' = edited
      BY <1>4, <1>6, <1>7, <2>4
    <3>3. ASSUME NEW i \in 1..Len(ls), Has(ls[i]), ls[i].permission = disk.permission,
                 \A j \in 1..Len(ls) : Has(ls[j]) => j <= i
          PROVE  PermissionComes(ts, ms)'
      BY <1>9, <3>2, <3>3 DEF PermissionComes, Has
    <3>4. ASSUME \A i \in 1..Len(ls) : ~Has(ls[i]), edited \/ shown.permission = disk.permission
          PROVE  PermissionComes(ts, ms)'
      BY <1>9, <3>2, <3>4 DEF PermissionComes, Has
    <3>5. PermissionComes(ts, ms)'
      BY <2>1, <3>1, <3>2, <3>3, <3>4 DEF PermissionComes
    <3> QED
      BY <2>2, <3>5
  <2> QED
    BY <2>3, <2>4
<1>14. SettingsCome'
  <2>1. ASSUME Calm'
        PROVE  /\ PermissionComes(requests[stdinPipe], lines[stdinPipe])'
               /\ SwitchComes(requests[stdinPipe], lines[stdinPipe])'
    <3>1. PICK ts : ts = Tail(rs)
      OBVIOUS
    <3>2. requests'[stdinPipe'] = ts /\ lines'[stdinPipe'] = ms
      BY <1>4, <1>10, <1>11, <1>12, <2>1, <3>1 DEF children
    <3>3. PermissionComes(ts, ms)' /\ SwitchComes(ts, ms)'
      BY <1>12, <1>13, <2>1, <3>1
    <3> QED
      BY <3>2, <3>3 DEF PermissionComes, SwitchComes, Has
  <2> QED
    BY <2>1 DEF SettingsCome
<1> QED
  BY <1>6, <1>u, <1>11, <1>14 DEF MacInv

LEMMA LeftKeeps ==
  ASSUME MacInv, NEW p \in 1..Len(child), BridgeLeft(p)
  PROVE  MacInv'
<1>1. MacTypeOK /\ Held(Now) /\ disk \in Configuration
  BY DEF MacInv, MacTypeOK, SlotsOK
<1>2. PICK rs \in Seq(Question) : rs = requests[p]
  BY <1>1, MacTypes
<1>3. PICK r : r = Head(rs)
  OBVIOUS
<1>4. /\ rs # <<>> /\ Saves(r) /\ disk' = After(r) /\ unheard' = (unheard \/ disk' # disk)
      /\ child' = [child EXCEPT ![p] = InState(p, "gone")]
      /\ requests' = [requests EXCEPT ![p] = <<>>]
      /\ UNCHANGED <<slot, running, stdinPipe, lines, shown, edited, older>>
  BY <1>2, <1>3 DEF BridgeLeft, Saves, Ends
<1>5. r \in Question
  BY <1>2, <1>3, <1>4
<1>6. /\ disk' \in Configuration /\ background' \in [Tasks -> Listing] /\ ListsOK'
      /\ ~disk'.saved => ~disk.saved /\ disk'.permission = disk.permission
  BY <1>1, <1>4, <1>5, SavesIs, AfterIs
<1>7. PICK c \in Process : c = InState(p, "gone") /\ c.state = "gone"
  BY <1>1, InStateIs
<1>8. child \in Seq(Process) /\ requests \in Seq(Seq(Question)) /\ Len(requests) = Len(child)
  BY <1>1, MacTypes
<1>9. /\ child' \in Seq(Process) /\ Len(child') = Len(child) /\ child'[p] = c
      /\ \A q \in 1..Len(child) : q # p => child'[q] = child[q]
  <2>1. child' = [child EXCEPT ![p] = c]
    BY <1>4, <1>7
  <2> QED
    BY <1>8, <2>1
<1>10. /\ requests' \in Seq(Seq(Question)) /\ Len(requests') = Len(requests)
       /\ \A q \in 1..Len(child) : q # p => requests'[q] = requests[q]
  <2>1. <<>> \in Seq(Question)
    OBVIOUS
  <2> QED
    BY <1>4, <1>8, <2>1
<1>11. StartedOK(Now)' /\ Held(Now)'
  BY <1>1, <1>4, <1>7, <1>9, <1>10, ChildrenMove
<1>12. MacTypeOK' /\ SlotsOK'
  BY <1>4, <1>6, <1>9, <1>11 DEF MacInv, MacTypeOK, SlotsOK
<1>13. UnsavedOK'
  BY <1>4, <1>6, <1>9 DEF MacInv, UnsavedOK
<1>14. Calm' => Calm /\ disk' = disk /\ stdinPipe # p
  <2>1. running => stdinPipe \in 1..Len(child)
    BY DEF MacInv, SlotsOK
  <2> QED
    BY <1>4, <1>7, <1>9, <2>1 DEF Calm
<1>15. SettingsCome'
  <2>1. Calm' => requests'[stdinPipe] = requests[stdinPipe]
    BY <1>10, <1>14 DEF MacInv, SlotsOK, Calm
  <2> QED
    BY <1>4, <1>14, <2>1, StillCome DEF MacInv
<1> QED
  BY <1>6, <1>12, <1>13, <1>15 DEF MacInv

LEMMA LoseKeeps ==
  ASSUME MacInv, NEW p \in 1..Len(child), LoseLine(p)
  PROVE  MacInv'
<1>1. MacTypeOK
  BY DEF MacInv
<1>2. PICK ls \in Seq(Told) : ls = lines[p]
  BY <1>1, MacTypes
<1>3. /\ ls # <<>> /\ lines' = [lines EXCEPT ![p] = Tail(ls)] /\ unheard' = TRUE
      /\ UNCHANGED <<children, requests, settings, hasKey, bounds>>
  BY <1>2 DEF LoseLine
<1>4. Tail(ls) \in Seq(Told) /\ requests \in Seq(Seq(Question))
  BY <1>1, <1>3, MacTypes, ToldIs
<1>5. /\ MacTypeOK' /\ SlotsOK' /\ lines'[p] = Tail(ls)
      /\ \A q \in 1..Len(child) : q # p => lines'[q] = lines[q]
  BY <1>1, <1>3, <1>4, LinesMove DEF MacTypeOK, settings
<1>6. ListsOK' /\ UnsavedOK'
  <2>1. \A i \in 1..Len(lines'[p]) : \E j \in 1..Len(lines[p]) : lines'[p][i] = lines[p][j]
    BY <1>2, <1>3, <1>5, ToldIs
  <2>2. \A q \in 1..Len(child) : \A i \in 1..Len(lines'[q]) : \E j \in 1..Len(lines[q]) : lines'[q][i] = lines[q][j]
    BY <1>5, <2>1
  <2> QED
    BY <1>3, <2>2, RestStays DEF MacInv, settings, children
<1> QED
  BY <1>3, <1>5, <1>6 DEF MacInv, SettingsCome, Calm

\* The first line is read; the permission and the switch come, or have come.
LEMMA PermissionStill ==
  ASSUME NEW ls \in Seq(Told), NEW ms \in Seq(Told), NEW rs, NEW new, NEW l, l = ls[1], 1 \in 1..Len(ls),
         Len(ls) \in Nat, Len(ms) \in Nat, Len(ms) = Len(ls) - 1,
         \A i \in 1..Len(ms) : i + 1 \in 1..Len(ls) /\ ms[i] = ls[i + 1],
         \A i \in 1..Len(ls) : i = 1 \/ i - 1 \in 1..Len(ms),
         \A i \in 1..Len(rs) : i \in 1..Len(new) /\ new[i] = rs[i],
         disk' = disk, Has(l) => ~edited' /\ shown'.permission = l.permission,
         ~Has(l) => edited' = edited /\ shown'.permission = shown.permission,
         PermissionComes(rs, ls)
  PROVE  PermissionComes(new, ms)'
<1>1. ASSUME \A i \in 1..Len(new) : new[i].ask = "plugins"
      PROVE \/ \E k \in 1..Len(ms) : /\ Has(ms[k]) /\ ms[k].permission = disk.permission
                                     /\ \A j \in 1..Len(ms) : Has(ms[j]) => j <= k
            \/ /\ \A i \in 1..Len(ms) : ~Has(ms[i])
               /\ edited' \/ shown'.permission = disk.permission
  <2>1. \/ \E i \in 1..Len(ls) : /\ Has(ls[i]) /\ ls[i].permission = disk.permission
                                 /\ \A j \in 1..Len(ls) : Has(ls[j]) => j <= i
        \/ /\ \A i \in 1..Len(ls) : ~Has(ls[i])
           /\ edited \/ shown.permission = disk.permission
    BY <1>1 DEF PermissionComes
  <2>2. ASSUME NEW i \in 1..Len(ls), Has(ls[i]), ls[i].permission = disk.permission,
               \A j \in 1..Len(ls) : Has(ls[j]) => j <= i, i # 1
        PROVE  \E k \in 1..Len(ms) : /\ Has(ms[k]) /\ ms[k].permission = disk.permission
                                     /\ \A j \in 1..Len(ms) : Has(ms[j]) => j <= k
    <3>1. PICK k \in 1..Len(ms) : k = i - 1 /\ ms[k] = ls[i]
      BY <2>2
    <3>2. ASSUME NEW j \in 1..Len(ms), Has(ms[j]) PROVE j <= k
      <4>1. j + 1 <= i
        BY <2>2, <3>2
      <4> QED
        BY <3>1, <4>1
    <3> QED
      BY <2>2, <3>1, <3>2
  <2>3. ASSUME Has(ls[1]), ls[1].permission = disk.permission, \A j \in 1..Len(ls) : Has(ls[j]) => j <= 1
        PROVE  (\A i \in 1..Len(ms) : ~Has(ms[i])) /\ shown'.permission = disk.permission
    BY <2>3
  <2>4. ASSUME \A i \in 1..Len(ls) : ~Has(ls[i]), edited \/ shown.permission = disk.permission
        PROVE  (\A i \in 1..Len(ms) : ~Has(ms[i])) /\ (edited' \/ shown'.permission = disk.permission)
    BY <2>4
  <2> QED
    BY <2>1, <2>2, <2>3, <2>4
<1> QED
  BY <1>1 DEF PermissionComes, Has

LEMMA SwitchStill ==
  ASSUME NEW ls \in Seq(Told), NEW ms \in Seq(Told), NEW rs, NEW new, NEW l, l = ls[1], 1 \in 1..Len(ls),
         Len(ls) \in Nat, Len(ms) \in Nat, Len(ms) = Len(ls) - 1,
         \A i \in 1..Len(ms) : i + 1 \in 1..Len(ls) /\ ms[i] = ls[i + 1],
         \A i \in 1..Len(ls) : i = 1 \/ i - 1 \in 1..Len(ms),
         disk' = disk, l.type = "config" => new # <<>>,
         l.type # "config" => new = rs /\ shown'.switch = l.switch,
         SwitchComes(rs, ls)
  PROVE  SwitchComes(new, ms)'
<1>1. ASSUME new = <<>>, \A i \in 1..Len(ms) : ms[i].type # "config"
      PROVE  IF ms = <<>> THEN older' \/ shown'.switch = disk.switch ELSE ms[Len(ms)].switch = disk.switch
  <2>1. l.type # "config" /\ rs = <<>>
    BY <1>1
  <2>2. ASSUME NEW i \in 1..Len(ls) PROVE ls[i].type # "config"
    <3>1. CASE i # 1
      <4>1. PICK k \in 1..Len(ms) : k = i - 1 /\ ms[k] = ls[k + 1]
        BY <2>2, <3>1
      <4>2. k + 1 = i
        BY <4>1
      <4> QED
        BY <1>1, <4>1, <4>2
    <3> QED
      BY <2>1, <3>1
  <2>3. ls # <<>>
    OBVIOUS
  <2>4. ls[Len(ls)].switch = disk.switch
    BY <2>1, <2>2, <2>3 DEF SwitchComes
  <2>5. CASE ms = <<>>
    <3>1. Len(ls) = 1
      BY <2>5
    <3> QED
      BY <2>1, <2>4, <2>5, <3>1
  <2>6. CASE ms # <<>>
    <3>1. Len(ms) \in 1..Len(ms)
      BY <2>6
    <3>2. ms[Len(ms)] = ls[Len(ms) + 1] /\ Len(ms) + 1 = Len(ls)
      BY <3>1
    <3> QED
      BY <2>4, <2>6, <3>2
  <2> QED
    BY <2>5, <2>6
<1> QED
  BY <1>1 DEF SwitchComes

LEMMA HandleKeeps ==
  ASSUME MacInv, NEW p \in 1..Len(child), HandleLine(p)
  PROVE  MacInv'
<1>1. /\ MacTypeOK /\ disk \in Configuration /\ shown \in Setting /\ edited \in BOOLEAN
      /\ unheard \in BOOLEAN /\ older \in BOOLEAN /\ background \in [Tasks -> Listing]
  BY DEF MacInv, MacTypeOK
<1>2. PICK ls \in Seq(Told), ms \in {Tail(lines[p])} : ls = lines[p] /\ ms = Tail(ls)
  BY <1>1, MacTypes
<1>3. PICK l : l = Head(ls)
  OBVIOUS
<1>4. /\ ls # <<>> /\ lines' = [lines EXCEPT ![p] = ms] /\ unheard' = (unheard \/ p # stdinPipe)
      /\ UNCHANGED <<children, disk, background, hasKey, bounds>>
  BY <1>2 DEF HandleLine
<1>5. /\ l \in Told /\ l = ls[1] /\ 1 \in 1..Len(ls)
      /\ ms \in Seq(Told) /\ Len(ms) = Len(ls) - 1
      /\ \A i \in 1..Len(ms) : i + 1 \in 1..Len(ls) /\ ms[i] = ls[i + 1]
      /\ \A i \in 1..Len(ls) : i = 1 \/ i - 1 \in 1..Len(ms)
      /\ Len(ls) \in Nat /\ Len(ms) \in Nat
  BY <1>2, <1>3, <1>4, ToldIs
<1>6. unheard' \in BOOLEAN /\ (~unheard' => p = stdinPipe /\ ~unheard)
  BY <1>1, <1>4
<1>7. ASSUME Calm' PROVE p = stdinPipe /\ (lines'[p] = ms => Calm)
  <2>1. p = stdinPipe /\ ~unheard
    BY <1>6, <1>7 DEF Calm
  <2>2. Len(lines) = Len(child) /\ lines \in Seq(Seq(Told))
    BY <1>1, MacTypes
  <2>3. \A q \in 1..Len(child) : q # p => lines'[q] = lines[q]
    BY <1>4, <2>2
  <2> QED
    BY <1>4, <1>7, <2>1, <2>3 DEF Calm, children
\* What is shown afterwards.
<1>8. /\ shown' \in Setting /\ edited' \in BOOLEAN /\ older' \in BOOLEAN
      /\ Has(l) => ~edited' /\ shown'.permission = l.permission
      /\ ~Has(l) => edited' = edited /\ shown'.permission = shown.permission
      /\ l.type # "config" => ~older' /\ shown'.switch = l.switch
  <2>1. CASE l.type = "config"
    <3>1. /\ shown' = IF l.saved THEN [shown EXCEPT !.permission = l.permission] ELSE shown
          /\ edited' = (edited /\ ~l.saved) /\ older' = older
      BY <1>2, <1>3, <2>1 DEF HandleLine, ApplyConfig
    <3>2. l.permission \in Values /\ l.saved \in BOOLEAN
      BY <1>5, <2>1 DEF Told
    <3> QED
      BY <1>1, <2>1, <3>1, <3>2 DEF Setting, Has
  <2>2. CASE l.type # "config"
    <3>1. shown' = [shown EXCEPT !.switch = l.switch] /\ edited' = edited /\ ~older' /\ older' \in BOOLEAN
      BY <1>2, <1>3, <2>2 DEF HandleLine, ApplyPlugins
    <3>2. l.switch \in BOOLEAN
      BY <1>5, <2>2 DEF Told
    <3> QED
      BY <1>1, <2>2, <3>1, <3>2 DEF Setting, Has
  <2> QED
    BY <2>1, <2>2
<1>9. /\ requests' \in Seq(Seq(Question)) /\ Len(requests') = Len(requests)
      /\ l.type # "config" => requests' = requests
      /\ l.type = "config" /\ stdinPipe \in 1..Len(child) /\ Alive(stdinPipe) =>
           requests'[stdinPipe] = requests[stdinPipe] \o <<Plugins>>
  <2>1. requests \in Seq(Seq(Question))
    BY <1>1, MacTypes
  <2>2. PICK more : more = <<Plugins>>
    OBVIOUS
  <2>3. more \in Seq(Question)
    <3>1. Plugins \in Question
      BY DEF Question
    <3> QED
      BY <2>2, <3>1
  <2>4. l.type = "config" => requests' = Sent(requests, stdinPipe, more)
    BY <1>2, <1>3, <2>2 DEF HandleLine
  <2>5. l.type # "config" => requests' = requests
    BY <1>2, <1>3 DEF HandleLine
  <2>6. PICK reqs : reqs = Sent(requests, stdinPipe, more)
    OBVIOUS
  <2>7. /\ reqs \in Seq(Seq(Question)) /\ Len(reqs) = Len(requests)
        /\ stdinPipe \in 1..Len(child) /\ Alive(stdinPipe) =>
             reqs[stdinPipe] = requests[stdinPipe] \o more
    BY <1>1, <2>3, <2>6, SentIs
  <2> QED
    BY <2>1, <2>2, <2>4, <2>5, <2>6, <2>7
<1>10. /\ MacTypeOK' /\ SlotsOK' /\ lines'[p] = ms
       /\ \A q \in 1..Len(child) : q # p => lines'[q] = lines[q]
  BY <1>1, <1>4, <1>5, <1>6, <1>8, <1>9, LinesMove
<1>11. ListsOK'
  BY <1>4 DEF MacInv, ListsOK
<1>12. UnsavedOK'
  <2>1. ASSUME ~disk'.saved
        PROVE  /\ disk.permission = Unset /\ (edited \/ shown.permission = Unset) /\ ~Has(l)
               /\ \A q \in 1..Len(child) : \A i \in 1..Len(lines[q]) : ~Has(lines[q][i])
    BY <1>2, <1>4, <1>5, <2>1 DEF MacInv, UnsavedOK
  <2>2. ASSUME ~disk'.saved, NEW q \in 1..Len(child), NEW i \in 1..Len(lines'[q]) PROVE ~Has(lines'[q][i])
    <3>1. CASE q = p
      <4>1. i \in 1..Len(ms) /\ lines'[q][i] = ms[i]
        BY <1>10, <2>2, <3>1
      <4>2. PICK j \in 1..Len(ls) : ms[i] = ls[j]
        BY <1>5, <4>1
      <4>3. ~Has(ls[j])
        BY <1>2, <2>1, <2>2, <4>2
      <4> QED
        BY <4>1, <4>2, <4>3
    <3>2. CASE q # p
      BY <1>10, <2>1, <2>2, <3>2
    <3> QED
      BY <3>1, <3>2
  <2> QED
    BY <1>4, <1>8, <2>1, <2>2 DEF UnsavedOK, Has, children
<1>13. SettingsCome'
  <2>1. ASSUME Calm'
        PROVE  /\ PermissionComes(requests[stdinPipe], lines[stdinPipe])'
               /\ SwitchComes(requests[stdinPipe], lines[stdinPipe])'
    <3>1. Calm /\ p = stdinPipe
      BY <1>7, <1>10, <2>1
    <3>2. Alive(stdinPipe)
      BY <1>1, <3>1, MacTypes DEF Calm, Alive
    <3>3. PICK rs \in Seq(Question) : rs = requests[p]
      BY <1>1, MacTypes
    <3>4. PICK new : new = requests'[p]
      OBVIOUS
    <3>5. /\ requests'[stdinPipe'] = new /\ lines'[stdinPipe'] = ms
          /\ l.type # "config" => new = rs
          /\ l.type = "config" => new = rs \o <<Plugins>>
      BY <1>4, <1>9, <1>10, <3>1, <3>2, <3>3, <3>4 DEF children
    <3>6. PermissionComes(rs, ls) /\ SwitchComes(rs, ls)
      BY <1>2, <3>1, <3>3 DEF MacInv, SettingsCome
    <3>7. \A i \in 1..Len(rs) : i \in 1..Len(new) /\ new[i] = rs[i]
      BY <3>5
    <3>8. l.type = "config" => new # <<>>
      BY <3>5
    <3>9. PermissionComes(new, ms)'
      BY <1>4, <1>5, <1>8, <3>6, <3>7, PermissionStill
    <3>10. SwitchComes(new, ms)'
      BY <1>4, <1>5, <1>8, <3>5, <3>6, <3>8, SwitchStill
    <3> QED
      BY <3>5, <3>9, <3>10 DEF PermissionComes, SwitchComes, Has
  <2> QED
    BY <2>1 DEF SettingsCome
<1> QED
  BY <1>10, <1>11, <1>12, <1>13 DEF MacInv

LEMMA MacStarts ==
  ASSUME MacInit
  PROVE  MacInv
<1>1. Fresh \in Setting /\ NoTasks \in [Tasks -> Listing] /\ NoSlots \in [ChildKinds -> Nat \cup {NoChild}] /\ NoSlots["agent"] = NoChild
  BY ValuesAssumption, ChildKindsAssumption DEF Fresh, Setting, NoSlots, NoTasks, NoTask, Listing
<1>2. /\ slot = NoSlots /\ running = FALSE /\ stdinPipe = NoChild /\ child = <<>>
      /\ requests = <<>> /\ lines = <<>> /\ shown = Fresh /\ background = NoTasks /\ older = FALSE
      /\ disk = [permission |-> Unset, switch |-> FALSE, saved |-> FALSE]
      /\ edited = FALSE /\ unheard = FALSE
  BY DEF MacInit
<1>3. StartedOK(Now)
  BY <1>1, <1>2 DEF StartedOK, Now
<1>4. Held(Now)
  BY <1>2 DEF Held, Now
<1>5. disk \in Configuration
  BY <1>2, ValuesAssumption DEF Configuration
<1>6. ListsOK
  BY <1>2 DEF ListsOK, NoTasks, NoTask
<1>7. UnsavedOK
  <2>1. 1..Len(child) = {}
    BY <1>2
  <2> QED
    BY <1>2, <2>1 DEF UnsavedOK, Fresh
<1> QED
  BY <1>1, <1>2, <1>3, <1>4, <1>5, <1>6, <1>7 DEF MacInv, MacTypeOK, SlotsOK, SettingsCome, Calm

LEMMA MacStep ==
  ASSUME MacInv, [MacNext]_macVars
  PROVE  MacInv'
<1>1. MacTypeOK /\ DOMAIN child = 1..Len(child)
  BY MacTypes DEF MacInv
<1>2. CASE UNCHANGED macVars
  <2>1. UNCHANGED <<children, queues, settings, unheard>>
    BY <1>2 DEF macVars
  <2> QED
    BY <2>1, NothingKeeps
<1>3. CASE StartAll \/ StopAll \/ EnsureGateway \/ KillApp \/ SetKey
  BY <1>3, StartKeeps, StopKeeps, GatewayKeeps, KillKeeps, UserKeeps
<1>4. CASE Edit \/ SavePermission \/ Toggle \/ OpenSettings \/ Refresh
  BY <1>4, UserKeeps
<1>8. ASSUME NEW t \in Tasks, TaskReads(t) \/ TaskShows(t) \/ TaskFails(t) PROVE MacInv'
  BY <1>8, TasksKeep
<1>5. ASSUME NEW p \in 1..Len(child), Bind(p) PROVE MacInv'
  BY <1>5, ChildKeeps DEF Bind, queues
<1>6. ASSUME NEW p \in 1..Len(child), End(p) \/ ChildEnds(p) PROVE MacInv'
  BY <1>6, ChildKeeps DEF End, ChildEnds, Ends
<1>7. ASSUME NEW p \in 1..Len(child), BridgeAnswers(p) \/ BridgeLeft(p) \/ HandleLine(p) \/ LoseLine(p)
      PROVE  MacInv'
  BY <1>7, BridgeKeeps, LeftKeeps, HandleKeeps, LoseKeeps
<1> QED
  BY <1>1, <1>2, <1>3, <1>4, <1>5, <1>6, <1>7, <1>8 DEF MacNext

(* RuntimeManager never loses sight of a child it started (NoOrphans),      *)
(* through any number of starts, stops, ends of children and forced ends of *)
(* the application: a child that is not told to end stands in a slot.       *)
THEOREM NoOrphansCorrect == MacSpec => []NoOrphans
<1>1. MacInv => NoOrphans
  <2>1. MacInv => /\ DOMAIN child = 1..Len(child) /\ DOMAIN slot = ChildKinds /\ Held(Now)
    BY MacTypes DEF MacInv, SlotsOK
  <2> QED
    BY <2>1, NowFields DEF NoOrphans, Held
<1> QED
  BY <1>1, MacStarts, MacStep, PTL DEF MacSpec

(* The settings of the form and of the switches settle (SettingsSettle):    *)
(* what is still to be answered and to be read always ends with a line that *)
(* tells what is on disk, whatever permissions, values, requests on their   *)
(* way, tasks in the background and numbers of clicks there are; and what a *)
(* task shows is on disk, unless it was changed since the task read it.     *)
THEOREM SettingsSettleCorrect == MacSpec => []SettingsSettle
<1>1. ASSUME MacInv, Settled
      PROVE  /\ ~edited => shown.permission = disk.permission
             /\ ~older => shown.switch = disk.switch
  <2>1. MacTypeOK /\ stdinPipe \in 1..Len(child) /\ DOMAIN child = 1..Len(child)
    BY <1>1, MacTypes DEF MacInv, SlotsOK, Settled, MacTypeOK
  <2>2. Calm /\ requests[stdinPipe] = <<>> /\ lines[stdinPipe] = <<>>
    BY <1>1, <2>1 DEF Calm, Settled
  <2>3. PermissionComes(<<>>, <<>>) /\ SwitchComes(<<>>, <<>>)
    BY <1>1, <2>2 DEF MacInv, SettingsCome
  <2>4. edited \/ shown.permission = disk.permission
    BY <2>3 DEF PermissionComes
  <2>5. older \/ shown.switch = disk.switch
    BY <2>3 DEF SwitchComes
  <2> QED
    BY <2>4, <2>5
<1>2. MacInv => SettingsSettle
  BY <1>1 DEF SettingsSettle
<1> QED
  BY <1>2, MacStarts, MacStep, PTL DEF MacSpec
=============================================================================
