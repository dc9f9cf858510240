----------------------------- MODULE McpControl -----------------------------
(***************************************************************************)
(* Agents that operate the program over MCP (mcpcontrol/store.go,          *)
(* app/mcp_server.go, app/mcp_admin.go): their grants and tokens, the      *)
(* operations they run under an idempotency key, and the operations that   *)
(* somebody else has to approve before they run.  A call is a request with *)
(* its position between two statements; Telegram or the handler behind an  *)
(* operation may fail, and the process may end between any two steps.      *)
(***************************************************************************)
EXTENDS Naturals, FiniteSets

CONSTANTS
  Agents,
  Admin,      \* the operator of the dashboard
  Calls,      \* requests in flight
  IdemKeys,   \* idempotency keys an agent uses
  Payloads,   \* what an operation is asked to do
  Tokens,     \* access tokens ever issued
  Approvals,  \* approval requests ever made
  Nobody,
  \* Bounds of the model only.
  MaxMcpCalls, MaxMcpCrashes, MaxGrants

ASSUME McpAssumption ==
  /\ {Admin, Nobody} \cap Agents = {} /\ Admin # Nobody
  /\ Calls \subseteq Nat /\ Tokens \subseteq Nat \ {0} /\ Approvals \subseteq Nat \ {0}
  /\ {MaxMcpCalls, MaxMcpCrashes, MaxGrants} \subseteq Nat

VARIABLES
  agent,      \* Agent -> [active, scopes]
  issued,     \* Token -> [agent, scopes, live]
  approval,   \* Approval -> its row
  idempotency,\* Agent -> Key -> [payload, result]
  call,       \* Call -> its position and what it knows
  effects,    \* history: operations that ran, each with the call that ran it
  mcpSpent    \* bounds used

mcpVars == <<agent, issued, approval, idempotency, call, effects, mcpSpent>>

\* "direct" runs at once, "approved" after an approval, "resolve" lets decide.
Scopes == {"direct", "approved", "resolve"}
NoToken == [agent |-> Nobody, scopes |-> {}, live |-> FALSE]
NoApproval == [status |-> "none", requester |-> Nobody, payload |-> Nobody, by |-> Nobody]
NoKey == [payload |-> Nobody, result |-> "none"]
NoCall == [pc |-> "off", agent |-> Nobody, scopes |-> {}, what |-> "direct", key |-> Nobody,
           payload |-> Nobody, approval |-> 0, n |-> 0]

McpInit ==
  /\ agent = [g \in Agents |-> [active |-> TRUE, scopes |-> Scopes]]
  /\ issued = [t \in Tokens |-> NoToken]
  /\ approval = [a \in Approvals |-> NoApproval]
  /\ idempotency = [g \in Agents |-> [k \in IdemKeys |-> NoKey]]
  /\ call = [c \in Calls |-> NoCall]
  /\ effects = {}
  /\ mcpSpent = [calls |-> 0, crashes |-> 0, grants |-> 0]
-----------------------------------------------------------------------------
(* The registry of agents.                                                 *)

\* Mutant: an update or a revocation leaves the tokens as they are.
TokensKept(g) == issued

RevokedTokens(g) ==
  [t \in Tokens |-> IF issued[t].agent = g THEN [issued[t] EXCEPT !.live = FALSE] ELSE issued[t]]

\* UpdateAgent, RevokeAgent and RotateSecret: the row and its tokens in one transaction.
ChangeGrant(g, active, scopes) ==
  /\ agent[g].active /\ mcpSpent.grants < MaxGrants
  /\ agent' = [agent EXCEPT ![g] = [active |-> active, scopes |-> scopes]]
  /\ issued' = RevokedTokens(g)
  /\ mcpSpent' = [mcpSpent EXCEPT !.grants = @ + 1]
  /\ UNCHANGED <<approval, idempotency, call, effects>>

UpdateAgent(g) == \E scopes \in {Scopes, {"direct"}} : ChangeGrant(g, TRUE, scopes)
RevokeAgent(g) == ChangeGrant(g, FALSE, agent[g].scopes)
RotateSecret(g) == ChangeGrant(g, TRUE, agent[g].scopes)

\* A subset of the registered scopes, for an active agent.
IssueClientToken(t, g, scopes) ==
  /\ issued[t] = NoToken /\ \A u \in Tokens : u < t => issued[u] # NoToken
  /\ agent[g].active /\ scopes # {} /\ scopes \subseteq agent[g].scopes
  /\ issued' = [issued EXCEPT ![t] = [agent |-> g, scopes |-> scopes, live |-> TRUE]]
  /\ UNCHANGED <<agent, approval, idempotency, call, effects, mcpSpent>>

TokenExpires(t) ==
  /\ issued[t].live /\ mcpSpent.grants < MaxGrants
  /\ issued' = [issued EXCEPT ![t].live = FALSE]
  /\ mcpSpent' = [mcpSpent EXCEPT !.grants = @ + 1]
  /\ UNCHANGED <<agent, approval, idempotency, call, effects>>
-----------------------------------------------------------------------------
(* A call of an agent.                                                     *)

ScopeOf(what) ==
  CASE what = "direct" -> "direct" [] what = "request" -> "approved" [] what = "decide" -> "resolve"

\* Calls are interchangeable: a new one takes the first free position.
FreeCall(c) == call[c].pc = "off" /\ \A d \in Calls : d < c => call[d].pc # "off"

\* VerifyToken: what the token and the agent both grant.
VerifyToken(c, t, what) ==
  /\ FreeCall(c) /\ mcpSpent.calls < MaxMcpCalls
  /\ issued[t].live /\ agent[issued[t].agent].active
  /\ call' = [call EXCEPT ![c] =
       [NoCall EXCEPT !.pc = "verified", !.agent = issued[t].agent, !.what = what,
                      !.scopes = issued[t].scopes \cap agent[issued[t].agent].scopes,
                      !.n = mcpSpent.calls + 1]]
  /\ mcpSpent' = [mcpSpent EXCEPT !.calls = @ + 1]
  /\ UNCHANGED <<agent, issued, approval, idempotency, effects>>

\* requireMCPAgent reads the agent again; a refused call ends.
RequireAgent(c, key, payload) ==
  LET g == call[c].agent  scope == ScopeOf(call[c].what) IN
  /\ call[c].pc = "verified" /\ call[c].what # "decide"
  /\ call' = [call EXCEPT ![c] =
       IF agent[g].active /\ scope \in agent[g].scopes \cap call[c].scopes
       THEN [call[c] EXCEPT !.pc = "key", !.key = key, !.payload = payload] ELSE NoCall]
  /\ UNCHANGED <<agent, issued, approval, idempotency, effects, mcpSpent>>

\* Mutant: a key that is still pending starts the operation again.
PendingIsNew(k) == k.result \in {"none", "pending"}

\* INSERT OR IGNORE: the caller whose row it is runs the operation.
NewKey(k) == k.result = "none"

\* BeginIdempotency: otherwise the recorded result, or an error, is the answer.
BeginIdempotency(c) ==
  LET k == idempotency[call[c].agent][call[c].key] IN
  /\ call[c].pc = "key"
  /\ IF NewKey(k)
     THEN /\ idempotency' = [idempotency EXCEPT ![call[c].agent][call[c].key] =
                               [payload |-> call[c].payload, result |-> "pending"]]
          /\ call' = [call EXCEPT ![c].pc = "run"]
     ELSE call' = [call EXCEPT ![c] = NoCall] /\ UNCHANGED idempotency
  /\ UNCHANGED <<agent, issued, approval, effects, mcpSpent>>

\* The handler behind the operation does it.
RunDirect(c) ==
  /\ call[c].pc = "run" /\ call[c].what = "direct"
  /\ effects' = effects \cup {[agent |-> call[c].agent, key |-> call[c].key, approval |-> 0,
                               n |-> call[c].n]}
  /\ call' = [call EXCEPT ![c].pc = "complete"]
  /\ UNCHANGED <<agent, issued, approval, idempotency, mcpSpent>>

\* ... or fails: the key stays pending.
DirectFails(c) ==
  /\ call[c].pc = "run" /\ call[c].what = "direct"
  /\ call' = [call EXCEPT ![c] = NoCall]
  /\ UNCHANGED <<agent, issued, approval, idempotency, effects, mcpSpent>>

CreateApproval(c, a) ==
  /\ call[c].pc = "run" /\ call[c].what = "request"
  /\ approval[a] = NoApproval /\ \A b \in Approvals : b < a => approval[b] # NoApproval
  /\ approval' = [approval EXCEPT ![a] = [status |-> "pending", requester |-> call[c].agent,
                                          payload |-> call[c].payload, by |-> Nobody]]
  /\ call' = [call EXCEPT ![c].pc = "complete"]
  /\ UNCHANGED <<agent, issued, idempotency, effects, mcpSpent>>

CompleteIdempotency(c) ==
  /\ call[c].pc = "complete" /\ call[c].key # Nobody
  /\ idempotency' = [idempotency EXCEPT ![call[c].agent][call[c].key].result = "done"]
  /\ call' = [call EXCEPT ![c] = NoCall]
  /\ UNCHANGED <<agent, issued, approval, effects, mcpSpent>>
-----------------------------------------------------------------------------
(* Approvals.                                                              *)

ApprovalExpires(a) ==
  /\ approval[a].status = "pending"
  /\ approval' = [approval EXCEPT ![a].status = "expired"]
  /\ UNCHANGED <<agent, issued, idempotency, call, effects, mcpSpent>>

\* Mutant: an agent may decide what it asked for itself.
AnyAgent(g, a) == TRUE

Other(g, a) == approval[a].requester # g

\* approvals.decide: the agent, the row and the approver's grant for the operation.
AskDecision(c, a) ==
  LET g == call[c].agent IN
  /\ call[c].pc = "verified" /\ call[c].what = "decide" /\ approval[a] # NoApproval
  /\ call' = [call EXCEPT ![c] =
       IF /\ agent[g].active /\ {"resolve", "approved"} \subseteq agent[g].scopes \cap call[c].scopes
          /\ Other(g, a)
       THEN [call[c] EXCEPT !.pc = "decide", !.approval = a] ELSE NoCall]
  /\ UNCHANGED <<agent, issued, approval, idempotency, effects, mcpSpent>>

\* The dashboard decides without a token.
AdminDecision(c, a) ==
  /\ FreeCall(c) /\ mcpSpent.calls < MaxMcpCalls /\ approval[a] # NoApproval
  /\ call' = [call EXCEPT ![c] = [NoCall EXCEPT !.pc = "decide", !.agent = Admin, !.what = "decide",
                                                !.approval = a, !.n = mcpSpent.calls + 1]]
  /\ mcpSpent' = [mcpSpent EXCEPT !.calls = @ + 1]
  /\ UNCHANGED <<agent, issued, approval, idempotency, effects>>

\* Mutant: the status is not part of the update's condition.
AnyStatus(a) == TRUE

Decidable(a) == approval[a].status = "pending"

\* DecideApproval: one conditional update.
DecideApproval(c, decision) ==
  LET a == call[c].approval IN
  /\ call[c].pc = "decide"
  /\ IF Decidable(a)
     THEN /\ approval' = [approval EXCEPT ![a].status = decision, ![a].by = call[c].agent]
          /\ call' = [call EXCEPT ![c] = IF decision = "approved"
                                         THEN [call[c] EXCEPT !.pc = "validate"] ELSE NoCall]
     ELSE call' = [call EXCEPT ![c] = NoCall] /\ UNCHANGED approval
  /\ UNCHANGED <<agent, issued, idempotency, effects, mcpSpent>>

\* validateMCPApprovalRequester: the requester still has the grant.
ValidateRequester(c) ==
  LET g == approval[call[c].approval].requester IN
  /\ call[c].pc = "validate"
  /\ call' = [call EXCEPT ![c].pc = IF agent[g].active /\ "approved" \in agent[g].scopes
                                    THEN "execute" ELSE "failed"]
  /\ UNCHANGED <<agent, issued, approval, idempotency, effects, mcpSpent>>

\* executeMCPApproval: Telegram accepts the operation, or it fails.
ExecuteApproval(c) ==
  /\ call[c].pc = "execute"
  /\ effects' = effects \cup {[agent |-> approval[call[c].approval].requester, key |-> Nobody,
                               approval |-> call[c].approval, n |-> call[c].n]}
  /\ \E pc \in {"executed", "failed"} : call' = [call EXCEPT ![c].pc = pc]
  /\ UNCHANGED <<agent, issued, approval, idempotency, mcpSpent>>

ExecuteFails(c) ==
  /\ call[c].pc = "execute"
  /\ call' = [call EXCEPT ![c].pc = "failed"]
  /\ UNCHANGED <<agent, issued, approval, idempotency, effects, mcpSpent>>

\* CompleteApproval: only an approved row is given a result.
CompleteApproval(c) ==
  LET a == call[c].approval IN
  /\ call[c].pc \in {"executed", "failed"}
  /\ approval' = IF approval[a].status = "approved"
                 THEN [approval EXCEPT ![a].status = call[c].pc] ELSE approval
  /\ call' = [call EXCEPT ![c] = NoCall]
  /\ UNCHANGED <<agent, issued, idempotency, effects, mcpSpent>>

\* The process ends: the rows stay as they are, calls are gone (New expires what is due).
McpRestart ==
  /\ mcpSpent.crashes < MaxMcpCrashes /\ \E c \in Calls : call[c] # NoCall
  /\ call' = [c \in Calls |-> NoCall]
  /\ mcpSpent' = [mcpSpent EXCEPT !.crashes = @ + 1]
  /\ UNCHANGED <<agent, issued, approval, idempotency, effects>>
-----------------------------------------------------------------------------
CallStep(c) ==
  \/ \E t \in Tokens, what \in {"direct", "request", "decide"} : VerifyToken(c, t, what)
  \/ \E key \in IdemKeys, payload \in Payloads : RequireAgent(c, key, payload)
  \/ BeginIdempotency(c) \/ RunDirect(c) \/ DirectFails(c) \/ CompleteIdempotency(c)
  \/ \E a \in Approvals : CreateApproval(c, a) \/ AskDecision(c, a) \/ AdminDecision(c, a)
  \/ \E decision \in {"approved", "rejected"} : DecideApproval(c, decision)
  \/ ValidateRequester(c) \/ ExecuteApproval(c) \/ ExecuteFails(c) \/ CompleteApproval(c)

McpNext ==
  \/ \E c \in Calls : CallStep(c)
  \/ \E g \in Agents : UpdateAgent(g) \/ RevokeAgent(g) \/ RotateSecret(g)
  \/ \E t \in Tokens, g \in Agents : IssueClientToken(t, g, agent[g].scopes)
  \/ \E t \in Tokens : TokenExpires(t)
  \/ \E a \in Approvals : ApprovalExpires(a)
  \/ McpRestart

McpSpec == McpInit /\ [][McpNext]_mcpVars
-----------------------------------------------------------------------------
(* Properties.                                                             *)

\* A token that still works belongs to an active agent and grants nothing the agent lost.
TokensFollowGrants ==
  \A t \in Tokens : issued[t].live =>
    agent[issued[t].agent].active /\ issued[t].scopes \subseteq agent[issued[t].agent].scopes

\* An operation runs once per idempotency key of an agent, whatever calls repeat the key at
\* once, fail half-way or are cut off by a restart.
KeyRunsOnce ==
  \A x, y \in effects : x.key # Nobody /\ x.key = y.key /\ x.agent = y.agent => x = y

\* An approved operation runs once, however many deciders meet over it.
ApprovedRunsOnce ==
  \A x, y \in effects : x.approval # 0 /\ x.approval = y.approval => x = y

\* What runs was approved, by somebody who did not ask for it, and stays so: no later
\* decision, expiry or restart turns it into a refusal.
RunsAsApproved ==
  \A e \in effects : e.approval # 0 =>
    /\ approval[e.approval].by \notin {Nobody, approval[e.approval].requester}
    /\ approval[e.approval].status \in {"approved", "executed", "failed"}

\* "A duplicate idempotency key returns the previous result": a key whose call is over has
\* one.  A failed or interrupted operation leaves its key pending.
KeyHasResult ==
  \A g \in Agents, k \in IdemKeys : idempotency[g][k].result = "pending" =>
    \E c \in Calls : call[c].agent = g /\ call[c].key = k

\* Agents run what they were granted, what was approved, and that once.
RunsAsGranted == TokensFollowGrants /\ KeyRunsOnce /\ ApprovedRunsOnce /\ RunsAsApproved
=============================================================================
