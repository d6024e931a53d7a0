---------------------------- MODULE MCGatewayRuns ----------------------------
(***************************************************************************)
(* Gateway in two settings.  "sends": two keys, a message that comes in.    *)
(* "inbox": two messages come in, the daemon makes one call of its own.     *)
(***************************************************************************)
EXTENDS MCGateway

CONSTANTS daemon, k1

VARIABLE setting
allVars == <<vars, setting>>

RunsInit == Init /\ setting \in {"sends", "inbox"}
InSetting(A) == A /\ UNCHANGED setting

RunsNext ==
  \/ \E p \in Senders, key \in Keys, sess \in Sessions, to \in Targets \cup {None} :
       /\ setting = "inbox" => p = daemon /\ key = k1 /\ sends = 0
       /\ InSetting(Send(p, key, sess, to))
  \/ \E c \in Contacts :
       /\ setting = "sends" => incoming = 0
       /\ InSetting(Receive(c[1], c[2]))
  \/ \E p \in Senders :
       \/ InSetting(SendStep(p))
       \/ (setting = "inbox" => p = daemon) /\ InSetting(CrashSender(p))
       \/ InSetting(RestartSender(p))
  \/ \E d \in Daemons : InSetting(Drain(d))
  \/ InSetting(Serve) \/ InSetting(CrashGateway) \/ InSetting(RestartGateway)

RunsSpec ==
  /\ RunsInit /\ [][RunsNext]_allVars
  /\ \A p \in Senders : WF_allVars(InSetting(SendStep(p)))
  /\ \A d \in Daemons : WF_allVars(InSetting(Drain(d)))
  /\ WF_allVars(InSetting(Serve))
=============================================================================
