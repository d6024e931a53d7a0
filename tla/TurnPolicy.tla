------------------------------ MODULE TurnPolicy ------------------------------
(***************************************************************************)
(* Under which policy a turn runs, and at which backend                     *)
(* (clawdex/src/config.rs, daemon.rs, runner.rs, permissions.rs).           *)
(*                                                                         *)
(* A field that may be missing is the empty set or a set of one.            *)
(***************************************************************************)
EXTENDS Naturals, Sequences

Missing == {}
Given(field, otherwise) == IF field = Missing THEN otherwise ELSE CHOOSE v \in field : TRUE
Preferred(first, second) == IF first # Missing THEN first ELSE second

(* resolve_workspace_policy: the workspace is the only root, unless the     *)
(* configuration names some; it may be written, and the network used.       *)
ConfiguredPolicy(cfg, workspace) ==
  [roots    |-> IF cfg.roots = {} THEN {workspace} ELSE cfg.roots,
   readOnly |-> Given(cfg.readOnly, FALSE),
   network  |-> Given(cfg.internet, TRUE)]

(* job_policy_overrides: readOnly comes after sandboxMode; of the names of  *)
(* the network field the first present counts; no roots are as none given.  *)
Overrides(p) ==
  [readOnly  |-> Preferred(p.readOnly, CASE p.sandboxMode = {"read-only"} -> {TRUE}
                                        [] p.sandboxMode = {"workspace-write"} -> {FALSE}
                                        [] OTHER -> Missing),
   network   |-> Preferred(p.networkAccess, p.internet),
   roots     |-> p.roots,
   workspace |-> p.workspace,
   approval  |-> p.approval]

(* apply_workspace_overrides: a workspace without roots is its own root.    *)
Applied(base, workspace, o) ==
  [policy |->
     [roots    |-> IF o.roots # {} THEN o.roots
                   ELSE IF o.workspace # Missing THEN o.workspace ELSE base.roots,
      readOnly |-> Given(o.readOnly, base.readOnly),
      network  |-> Given(o.network, base.network)],
   workspace |-> Given(o.workspace, workspace)]

(* workspace_sandbox_policy: what Codex is told.  Deny patterns are not.    *)
Sandbox(policy) ==
  [kind     |-> IF policy.readOnly THEN "readOnly" ELSE "workspaceWrite",
   writable |-> IF policy.readOnly THEN {} ELSE policy.roots,
   network  |-> policy.network]

(* cron_sandbox_label: what the run's row in the task database says.        *)
Label(policy) ==
  IF policy.readOnly THEN "read-only"
  ELSE IF policy.network THEN "workspace-write" ELSE "workspace-write-no-network"

(* parse_approval_policy: what it does not know is on-request.              *)
ApprovalPolicy(raw) ==
  IF raw \in {"never", "on-failure", "unless-trusted"} THEN raw ELSE "on-request"
JobApproval(base, o) == IF o.approval = Missing THEN base ELSE ApprovalPolicy(Given(o.approval, base))

(* A task run, resolve_effective_task_policy: the policy of the call, which  *)
(* is stored, or else the stored one.  task_policy_workspace_policy reads it *)
(* field by field as that of a job is read; a workspace is not one of them.  *)
EffectivePolicy(given, stored) == Preferred(given, stored)
TaskPolicy(base, p) ==
  [roots    |-> IF p.roots # {} THEN p.roots ELSE base.roots,
   readOnly |-> Given(Overrides(p).readOnly, base.readOnly),
   network  |-> Given(Overrides(p).network, base.network)]
TaskApproval(option, p, configured) ==
  Given(option, JobApproval(ApprovalPolicy(Given(configured, "on-request")), Overrides(p)))

-----------------------------------------------------------------------------
(* Agents and their backends.  A session key is [agent |-> set of at most   *)
(* one agent id]; without one it belongs to the default agent.              *)
AgentOf(session, default) == Given(session.agent, default)

(* resolve_agent_backend_routing: of kind kline, and with a url.            *)
Backends(configured) ==
  {a \in DOMAIN configured : configured[a].kind = "kline" /\ configured[a].url # Missing}
Clamped(ms, low, high) == IF ms < low THEN low ELSE IF ms > high THEN high ELSE ms
Backend(b, env) ==
  [url     |-> b.url,
   token   |-> Preferred(IF b.tokenEnv = Missing THEN Missing
                        ELSE env[Given(b.tokenEnv, b.url)], b.token),
   timeout |-> Clamped(Given(b.timeout, 30000), 1000, 120000)]

(* extract_backend_message: the first of the places that holds some text.   *)
BackendText(places) ==
  LET full == {i \in DOMAIN places : places[i] # Missing} IN
  IF full = {} THEN Missing ELSE places[CHOOSE i \in full : \A j \in full : i <= j]
(* run_kline_turn: without a success and some text the turn is an error.    *)
BackendTurn(response) ==
  IF response.success THEN BackendText(response.places) ELSE Missing

(* Who answers a message of a session: run_incoming_turn.                   *)
Answerer(session, default, configured) ==
  IF AgentOf(session, default) \in Backends(configured) THEN "backend"
  ELSE IF session.main THEN "main thread" ELSE "thread of its own"

-----------------------------------------------------------------------------
(* permissions set: a patch of the two sections, merged into the file.  A   *)
(* mode for a server that is none of the four is an error.                  *)
Mode(raw) ==
  CASE raw \in {"ask", "ask_every_time", "ask_each_time", "always_ask"} -> "ask_every_time"
    [] raw \in {"allow_once", "once"} -> "allow_once"
    [] raw \in {"allow_always", "allow", "always"} -> "allow_always"
    [] raw \in {"deny", "block"} -> "deny"
    [] OTHER -> "error"
PermissionsPatch(u) ==
  LET mcp == [k \in {k \in {"allow", "deny", "plugins", "servers"} : u[k] # Missing} |-> u[k]]
  IN [permissions |-> [internet |-> u.internet, mcp |-> mcp], readOnly |-> u.readOnly]
Permissions(cfg) ==
  [internet |-> Given(cfg.internet, TRUE), readOnly |-> Given(cfg.readOnly, FALSE)]
=============================================================================
