------------------------------- MODULE MCStores -------------------------------
(***************************************************************************)
(* Small instances of Plugins and AuditLog, which share no state: a         *)
(* behaviour is one of either.                                              *)
(***************************************************************************)
EXTENDS Plugins, AuditLog

CONSTANTS gsd, docs, v1, v2, thread, tools

(* The first plugin is shipped with the program, the second is not.         *)
OneBundled == <<gsd>>

VARIABLE part           \* which of the two
allVars == <<vars, auditVars, part>>

StoresInit == Init /\ AuditInit /\ part \in {"plugins", "audit"}
Manages(A) == part = "plugins" /\ A /\ UNCHANGED <<auditVars, part>>
Audits(A)  == part = "audit"   /\ A /\ UNCHANGED <<vars, part>>

StoresSpec == StoresInit /\ [][Manages(Next) \/ Audits(AuditNext)]_allVars
=============================================================================
