----------------------------- MODULE CronDelivery -----------------------------
(***************************************************************************)
(* What becomes of the settings of a cron job that say where its answer is  *)
(* sent: on its way into jobs.json, each time the file is loaded, and when  *)
(* the job is run (clawdex/src/cron.rs, daemon.rs).  Functions, no state.   *)
(*                                                                         *)
(* The settings are JSON objects of which any field may be missing, here    *)
(* functions on the fields that are there.  Older ones stand in the payload *)
(* ("deliver", "channel", "to", "best", "provider") or at the top of the    *)
(* job ("deliver", "channel", "to", "best"); newer ones in its "delivery"   *)
(* ("mode", "channel", "to", "best").  Fields of an unexpected type are     *)
(* left out, and so is what has nothing to do with delivery.                *)
(***************************************************************************)
EXTENDS Naturals, Functions

CONSTANTS
  Texts,                \* what channel and to may say
  Blank, LastRoute,     \* the empty text, "last"
  Trim, Lower,          \* [Texts -> Texts]: trimmed; trimmed and in lower case
  Url,                  \* [Texts -> Texts \cup {None}]: an http(s) URL, or None
  None, Null            \* a field that is missing; JSON's null

ASSUME TextsAssumption ==
  /\ {Blank, LastRoute} \subseteq Texts /\ None \notin Texts /\ None \notin BOOLEAN
  /\ Trim \in [Texts -> Texts] /\ Lower \in [Texts -> Texts]
  /\ Url \in [Texts -> Texts \cup {None}]
  /\ Trim[Blank] = Blank /\ Lower[Blank] = Blank
ASSUME TidyAssumption ==
  /\ \A t \in Texts : Trim[Trim[t]] = Trim[t] /\ Lower[Lower[t]] = Lower[t]
  /\ \A t \in Texts : Url[t] # None =>
       Trim[Url[t]] = Url[t] /\ Url[t] # Blank /\ Url[Url[t]] = Url[t]

Empty == [k \in {} |-> None]
Get(m, k) == IF k \in DOMAIN m THEN m[k] ELSE None
With(m, k, v) == [x \in DOMAIN m \cup {k} |-> IF x = k THEN v ELSE m[x]]
Without(m, keys) == Restrict(m, DOMAIN m \ keys)
Or(v, w) == IF v = None THEN w ELSE v

(* A text is tidied, or its field dropped if nothing is left.               *)
Tidied(m, k, tidy) ==
  IF k \notin DOMAIN m THEN m
  ELSE IF tidy[m[k]] = Blank THEN Without(m, {k}) ELSE With(m, k, tidy[m[k]])

-----------------------------------------------------------------------------
(* Normalisation.                                                           *)

NormalMode(mode) == IF mode = "deliver" THEN "announce" ELSE mode

(* normalize_payload: a provider is an older word for a channel.            *)
NormalPayload(p) ==
  LET c == Tidied(p, "channel", Lower) IN
  IF "provider" \notin DOMAIN c THEN c
  ELSE Without(IF Lower[c["provider"]] = Blank THEN c
               ELSE With(c, "channel", Lower[c["provider"]]), {"provider"})

NormalDelivery(d) ==
  LET m == IF "mode" \in DOMAIN d THEN With(d, "mode", NormalMode(d["mode"])) ELSE d
      t == Tidied(Tidied(m, "channel", Lower), "to", Trim)
  IN IF Get(t, "mode") = "webhook" /\ "to" \in DOMAIN t /\ Url[t["to"]] # None
       THEN With(t, "to", Url[t["to"]]) ELSE t

(* has_legacy_delivery_hints                                                *)
Hinted(p, top) ==
  \E m \in {p, top} :
    \/ {"deliver", "best"} \cap DOMAIN m # {}
    \/ "to" \in DOMAIN m /\ Trim[m["to"]] # Blank

(* build_delivery_from_legacy: the payload goes before the top.             *)
FromLegacy(p, top) ==
  LET Either(k) == Or(Get(p, k), Get(top, k))
      d == [k \in {"mode"} \cup {x \in {"channel", "to", "best"} : Either(x) # None} |->
              IF k = "mode" THEN IF Either("deliver") = FALSE THEN "none" ELSE "announce"
              ELSE Either(k)]
  IN IF Hinted(p, top) THEN Tidied(Tidied(d, "channel", Lower), "to", Trim) ELSE None

Legacy == {"deliver", "channel", "to", "best", "provider"}

(* merge_delivery                                                           *)
Merged(d, patch) ==
  LET old  == With(d, "mode", Or(Get(d, "mode"), "none"))
      next == [k \in DOMAIN old \cup DOMAIN patch |-> IF k \in DOMAIN patch THEN patch[k] ELSE old[k]]
  IN Tidied(Tidied(With(next, "mode", NormalMode(next["mode"])), "channel", Lower), "to", Trim)

-----------------------------------------------------------------------------
(* A job: [target, kind, payload, top, delivery, session]; target, kind,    *)
(* delivery and session may be None.                                        *)

Turn(job) == job.kind = "agentTurn" /\ job.target \in {"isolated", None}
Announced == [mode |-> "announce"]
StripLegacy(job) ==
  [job EXCEPT !.payload = Without(@, Legacy), !.top = Without(@, Legacy)]

(* normalize_job_input for an added job.                                    *)
AddedJob(raw) ==
  LET target == IF raw.target # None THEN raw.target
                ELSE CASE raw.kind = "systemEvent" -> "main"
                       [] raw.kind = "agentTurn"   -> "isolated"
                       [] OTHER                    -> None
      job    == [raw EXCEPT !.target = target, !.payload = NormalPayload(@),
                            !.delivery = IF @ = None THEN None ELSE NormalDelivery(@)]
      legacy == FromLegacy(job.payload, job.top)
  IN IF ~Turn(job) \/ job.delivery # None THEN job
     ELSE IF legacy = None THEN [job EXCEPT !.delivery = Announced]
     ELSE [StripLegacy(job) EXCEPT !.delivery = NormalDelivery(legacy)]

(* validate_job_spec                                                        *)
Valid(job) ==
  /\ job.target = "main" => job.kind = "systemEvent"
  /\ job.target = "isolated" => job.kind = "agentTurn"
  /\ job.delivery # None =>
       IF Get(job.delivery, "mode") # None /\ NormalMode(job.delivery["mode"]) = "webhook"
         THEN "to" \in DOMAIN job.delivery /\ Url[job.delivery["to"]] # None
         ELSE job.target = "isolated"

(* A main job keeps no delivery but a webhook.                              *)
MainOnly(job) ==
  IF job.target # "main" \/ job.delivery = None THEN job
  ELSE IF Get(job.delivery, "mode") # None /\ NormalMode(job.delivery["mode"]) = "webhook"
    THEN job ELSE [job EXCEPT !.delivery = None]

\* Faulty: older fields replace the delivery instead of changing it.
LoadedAfresh(stored) ==
  LET job    == [stored EXCEPT !.payload = NormalPayload(@),
                               !.delivery = IF @ = None THEN None ELSE NormalDelivery(@)]
      legacy == FromLegacy(job.payload, job.top)
  IN MainOnly(
       IF ~Turn(job) \/ (job.delivery # None /\ legacy = None) THEN job
       ELSE IF legacy = None THEN [job EXCEPT !.delivery = Announced]
       ELSE [StripLegacy(job) EXCEPT !.delivery = NormalDelivery(legacy)])

(* load_jobs: what it makes of a stored job; if that is another one, the    *)
(* file is saved.                                                           *)
Loaded(stored) ==
  LET job    == [stored EXCEPT !.payload = NormalPayload(@),
                               !.delivery = IF @ = None THEN None ELSE NormalDelivery(@)]
      legacy == FromLegacy(job.payload, job.top)
  IN MainOnly(
       IF ~Turn(job) \/ (job.delivery # None /\ legacy = None) THEN job
       ELSE IF legacy = None THEN [job EXCEPT !.delivery = Announced]
       ELSE IF job.delivery = None
         THEN [StripLegacy(job) EXCEPT !.delivery = NormalDelivery(legacy)]
         ELSE [StripLegacy(job) EXCEPT !.delivery = Merged(@, legacy)])

(* update_job: a patch is [kind, payload, delivery, top], None where it says *)
(* nothing; Null takes the delivery away.                                   *)
Updated(job, patch) ==
  LET Over(m, more) == [k \in DOMAIN m \cup DOMAIN more |-> IF k \in DOMAIN more THEN more[k] ELSE m[k]]
      p      == IF patch.payload = None THEN None ELSE NormalPayload(patch.payload)
      other  == patch.kind # None /\ patch.kind # job.kind
      merged == [job EXCEPT
        !.payload  = IF p = None THEN @ ELSE IF other THEN p ELSE Over(@, p),
        !.kind     = IF p # None /\ other THEN patch.kind ELSE @,
        !.top      = Over(@, patch.top),
        !.delivery = IF patch.delivery = None THEN @
                     ELSE IF patch.delivery = Null THEN None
                     ELSE Merged(IF @ = None THEN Empty ELSE @, NormalDelivery(patch.delivery))]
      legacy == IF p = None THEN None ELSE FromLegacy(p, Empty)
  IN MainOnly(
       IF /\ patch.delivery = None /\ legacy # None
          /\ merged.target = "isolated" /\ merged.kind = "agentTurn"
         THEN [merged EXCEPT !.delivery = Merged(IF @ = None THEN Empty ELSE @, legacy)]
         ELSE merged)

-----------------------------------------------------------------------------
(* Running a job.                                                           *)

(* build_cron_job: the delivery a run goes by.                              *)
Built(job) ==
  IF job.delivery # None THEN NormalDelivery(job.delivery)
  ELSE LET legacy == FromLegacy(job.payload, job.top) IN
       IF legacy # None THEN NormalDelivery(legacy)
       ELSE IF job.target = "isolated" /\ job.kind = "agentTurn" THEN Announced
       ELSE None

(* resolve_delivery_plan: [mode, channel, to, best].                        *)
Plan(job) ==
  LET d       == Built(job)
      p       == job.payload
      payload == Tidied(Tidied(p, "channel", Lower), "to", Trim)
      mode    == IF d = None \/ Get(d, "mode") \notin {"announce", "deliver", "webhook"} THEN "none"
                 ELSE NormalMode(d["mode"])
      best    == Or(Or(IF d = None THEN None ELSE Get(d, "best"), Get(p, "best")),
                    IF d = None THEN Or(Get(job.top, "best"), FALSE) ELSE FALSE)
      to      == Get(payload, "to")
  IN CASE mode = "none" -> [mode |-> mode, channel |-> None, to |-> None, best |-> best]
       [] mode = "announce" ->
            [mode |-> mode, best |-> best, to |-> Or(Get(d, "to"), to),
             channel |-> Or(Or(Get(d, "channel"), Get(payload, "channel")), LastRoute)]
       [] mode = "webhook" ->
            [mode |-> mode, best |-> best, channel |-> None,
             to |-> Or(IF "to" \in DOMAIN d THEN Url[d["to"]] ELSE None,
                       IF to # None THEN Url[to] ELSE None)]
=============================================================================
