--------------------------- MODULE MCGatewayAccess ---------------------------
(***************************************************************************)
(* Small instances of GatewayAccess and GatewayPresence, which share no     *)
(* state: a behaviour is one of either.                                     *)
(***************************************************************************)
EXTENDS GatewayAccess, GatewayPresence

CONSTANTS conn1, conn2, device

VARIABLE part           \* which of the two

allVars == <<accessVars, presenceVars, part>>

Init == AccessInit /\ PresenceInit /\ part \in {"access", "presence"}
Next ==
  \/ part = "access" /\ AccessNext /\ UNCHANGED <<presenceVars, part>>
  \/ part = "presence" /\ PresenceNext /\ UNCHANGED <<accessVars, part>>

ClientsSpec == Init /\ [][Next]_allVars
=============================================================================
