------------------------------ MODULE Heartbeats ------------------------------
(***************************************************************************)
(* When a heartbeat runs, and what it says when it does not                 *)
(* (clawdex/src/heartbeat.rs); transcripts of sessions                      *)
(* (clawdex/src/sessions.rs).  Minutes are those of a day in the time zone. *)
(***************************************************************************)
EXTENDS Integers, Sequences

Day == 1440

(* parse_time_minutes: "24:00" only as an end; -1 for what is no time.      *)
Minutes(hour, minute, atEnd) ==
  IF minute \notin 0..59 THEN -1
  ELSE IF hour = 24 THEN IF atEnd /\ minute = 0 THEN Day ELSE -1
  ELSE IF hour \in 0..23 THEN hour * 60 + minute ELSE -1

(* is_within_active_hours: without a start or an end that can be read, and  *)
(* if both are the same, the whole day; past midnight if the end is first.  *)
WithinActiveHours(start, end, now) ==
  IF start = -1 \/ end = -1 \/ start = end THEN TRUE
  ELSE IF end > start THEN start <= now /\ now < end
  ELSE start <= now \/ now < end

(* is_effectively_empty: blank lines, headings, bullets without text and    *)
(* check boxes without a label say nothing.                                 *)
EmptyLines == {"blank", "heading", "bullet", "check box"}
EffectivelyEmpty(lines) == \A i \in DOMAIN lines : lines[i] \in EmptyLines

(* wake: what is appended to heartbeat.jsonl; file is {} if HEARTBEAT.md is *)
(* missing, or the set of its lines.  Only "queued" runs a turn.            *)
Wake(start, end, now, file, reason) ==
  LET payload ==
        IF ~WithinActiveHours(start, end, now)
          THEN [status |-> "skipped", reason |-> "outside active hours"]
        ELSE IF file = {} THEN [status |-> "queued", reason |-> reason]
        ELSE IF \A lines \in file : EffectivelyEmpty(lines)
          THEN [status |-> "skipped", reason |-> "empty heartbeat"]
        ELSE [status |-> "queued", reason |-> reason]
  IN [timestampMs |-> now, reason |-> reason, payload |-> payload]

(* The shortest interval is half a minute, whatever the configuration says. *)
IntervalMs(configured) ==
  LET ms == IF configured = {} THEN 1800000 ELSE CHOOSE m \in configured : TRUE
  IN IF ms < 30000 THEN 30000 ELSE ms

(* execute_heartbeat: the answer goes to deliver_heartbeat_response.        *)
Executes(entry) == entry.payload.status = "queued"

-----------------------------------------------------------------------------
(* session_transcript_path: a readable prefix of the key, and its hash; a   *)
(* blank key has one file.  readable and hash are the two conversions.      *)
TranscriptOf(key, blank, readable, hash) ==
  IF blank THEN <<"session-unknown">> ELSE <<readable[key], hash[key]>>
(* append_session_message: nothing is kept of a message without text.       *)
Appended(transcript, role, text, blank) ==
  IF blank THEN transcript ELSE Append(transcript, [role |-> role, text |-> text])
=============================================================================
