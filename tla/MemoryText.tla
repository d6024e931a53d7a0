------------------------------ MODULE MemoryText ------------------------------
(***************************************************************************)
(* How the memory index cuts a text into chunks that overlap                *)
(* (clawdex/src/memory.rs).                                                 *)
(*                                                                         *)
(* chunk_markdown goes through the segments of a text (lines, or parts of a *)
(* line longer than MaxChars).  length[i] is the length of the first i of   *)
(* them, a newline after each.  What is collected for the next chunk is     *)
(* always the segments from..(next - 1).                                    *)
(***************************************************************************)
EXTENDS Integers, Sequences

CONSTANTS
  MaxChars,             \* chunkTokens * 4, at least 32
  Overlap,              \* chunkOverlap * 4, at most chunkTokens * 4
  Lengths               \* the texts looked at

ASSUME MaxAssumption == MaxChars \in Nat \ {0} /\ Overlap \in 0..MaxChars
Before(l, i) == IF i = 1 THEN 0 ELSE l[i - 1]
ASSUME LengthsAssumption ==
  \A l \in Lengths :
    /\ l \in Seq(Nat) /\ l # <<>>
    /\ \A i \in DOMAIN l : l[i] > Before(l, i) /\ l[i] <= Before(l, i) + MaxChars + 1

VARIABLES length, from, next, chunks
textVars == <<length, from, next, chunks>>

Size(first, last) == length[last] - Before(length, first)

TextInit == length \in Lengths /\ from = 1 /\ next = 1 /\ chunks = <<>>

Flushed == Append(chunks, [first |-> from, last |-> next - 1])

(* carry_overlap: the last segments that have the length of the overlap, or *)
(* all of them if that is not enough.                                       *)
Carries(k) ==
  IF Overlap = 0 THEN k = next
  ELSE /\ k < next
       /\ k = from \/ Size(k, next - 1) >= Overlap
       /\ \A j \in (k + 1)..(next - 1) : Size(j, next - 1) < Overlap

\* Faulty: the segment that did not fit is not collected after the flush.
TakeSegmentSkipping ==
  /\ next \in DOMAIN length
  /\ next' = next + 1
  /\ IF from < next /\ Size(from, next) > MaxChars
       THEN chunks' = Flushed /\ from' = next + 1
       ELSE UNCHANGED <<chunks, from>>
  /\ UNCHANGED length

TakeSegment ==
  /\ next \in DOMAIN length
  /\ next' = next + 1
  /\ IF from < next /\ Size(from, next) > MaxChars
       THEN chunks' = Flushed /\ \E k \in from..next : Carries(k) /\ from' = k
       ELSE UNCHANGED <<chunks, from>>
  /\ UNCHANGED length

LastChunk ==
  /\ next \notin DOMAIN length /\ from < next
  /\ chunks' = Flushed /\ from' = next
  /\ UNCHANGED <<length, next>>

TextNext == TakeSegment \/ LastChunk
TextSpec == TextInit /\ [][TextNext]_textVars

(* No part of a text is left out: chunks begin where the one before ended or *)
(* in it, each goes on to something new, and the last ends with the text.   *)
ChunksCover ==
  /\ \A i \in DOMAIN chunks :
       /\ chunks[i].first <= chunks[i].last
       /\ i = 1 => chunks[i].first = 1
       /\ i > 1 => /\ chunks[i].first \in chunks[i - 1].first..(chunks[i - 1].last + 1)
                   /\ chunks[i].last > chunks[i - 1].last
  /\ (next \notin DOMAIN length /\ from = next) =>
       chunks # <<>> /\ chunks[Len(chunks)].last = next - 1

(* A chunk is never longer than the limit and a full overlap before it, of  *)
(* which the first segment may be as long as the limit itself.              *)
ChunksFit ==
  \A i \in DOMAIN chunks :
    Size(chunks[i].first, chunks[i].last) <= Overlap + 2 * (MaxChars + 1)
=============================================================================
