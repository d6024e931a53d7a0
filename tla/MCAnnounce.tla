------------------------------ MODULE MCAnnounce ------------------------------
(***************************************************************************)
(* Small instances of Announce: every mix of older and newer fields in a    *)
(* job and in its patches; and a few jobs among conversations.              *)
(***************************************************************************)
EXTENDS Announce, TLC

SomeTexts == {"", "last", "TG ", "TG", "tg", "telegram", "slack", "ann", "bob", "HTTP://x", "http://x"}
Trimmed   == [t \in SomeTexts |-> IF t = "TG " THEN "TG" ELSE t]
Lowered   == [t \in SomeTexts |-> CASE t \in {"TG ", "TG"} -> "tg" [] t = "HTTP://x" -> "http://x" [] OTHER -> t]
Urls      == [t \in SomeTexts |-> IF t \in {"HTTP://x", "http://x"} THEN "http://x" ELSE None]
Aliases   == [t \in SomeTexts |-> IF t \in {"TG ", "TG", "tg"} THEN "telegram" ELSE t]
Order     == <<"telegram", "slack">>
AnnAndBob == {[channel |-> "tg", from |-> "ann"], [channel |-> "slack", from |-> "bob"]}

SomeJob(k, p, t, d, s) ==
  [target |-> k[1], kind |-> k[2], payload |-> p, top |-> t, delivery |-> d, session |-> s]
Kinds == {<<"main", "systemEvent">>, <<"isolated", "agentTurn">>, <<None, "agentTurn">>, <<None, None>>}
Deliveries ==
  {None, ("mode" :> "deliver") @@ ("channel" :> "TG "), ("mode" :> "webhook") @@ ("to" :> "HTTP://x"),
   ("mode" :> "announce") @@ ("best" :> TRUE) @@ ("channel" :> "slack") @@ ("to" :> "bob")}
MixedJobs ==
  {SomeJob(k, p, t, d, None) : k \in Kinds, d \in Deliveries, t \in {Empty, "to" :> "ann"},
     p \in {Empty, "to" :> "bob", "deliver" :> FALSE, "channel" :> "slack", ("provider" :> "TG ") @@ ("deliver" :> TRUE)}}
SomePatch(k, p, t, d) == [kind |-> k, payload |-> p, top |-> t, delivery |-> d]
MixedPatches ==
  {SomePatch(None, None, Empty, d) : d \in {Null, "mode" :> "none", "channel" :> "slack"}}
  \cup {SomePatch(k, p, Empty, None) : k \in {None, "agentTurn", "systemEvent"},
          p \in {Empty, "to" :> "ann", "deliver" :> FALSE, "best" :> TRUE,
                ("channel" :> "TG ") @@ ("to" :> "ann")}}
  \cup {SomePatch(None, None, "to" :> "ann", None)}

\* Jobs of the conversation with ann, one by each of its names: one answers to
\* the last route, the other elsewhere; and a job of no conversation.
Turns(d, s) == SomeJob(<<"isolated", "agentTurn">>, Empty, Empty, d, s)
AnnsJobs ==
  {Turns(None, [name |-> <<"telegram", "ann">>, named |-> TRUE]),
   Turns(("mode" :> "announce") @@ ("channel" :> "slack") @@ ("to" :> "bob"),
         [name |-> <<"telegram", "ann">>, named |-> FALSE])}
    \cup {Turns(("mode" :> "announce") @@ ("best" :> TRUE) @@ ("channel" :> "slack"), None)}
SomeHeartbeats == {[channel |-> "telegram", to |-> None]}

\* Conversations without changes to the job.
Talks ==
  INSTANCE Announce WITH Jobs <- AnnsJobs, Patches <- {}, Contacts <- AnnAndBob,
    Heartbeats <- SomeHeartbeats, MaxTime <- 2, MaxEdits <- 1, MaxIncoming <- 2
=============================================================================
